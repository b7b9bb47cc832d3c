---------------------------- MODULE Selection_proofs ----------------------------
(***************************************************************************)
(* Proofs about Selection and SelectionOwner: for any windows, properties, *)
(* sizes of pieces and amounts of data, a transfer implements a stream, as *)
(* long as awesome does not ask itself; and for any number of objects, who *)
(* owns a selection is known when everything is at rest.                   *)
(*                                                                         *)
(* The invariant of Selection is one of every transfer on its own: it is   *)
(* in one of ten stages of the protocol, and in each of them it is known   *)
(* whose turn it is, that is, what the property holds and which one event  *)
(* about it is still to be handled by whom.  Events that come late or that *)
(* nobody waits for may be in the queues too.  That of SelectionOwner says *)
(* what an event or request on its way is going to settle.                 *)
(***************************************************************************)
EXTENDS Selection, SelectionOwner, SequenceTheorems, FiniteSetTheorems, TLAPS

\* awesome does not ask itself for a selection: if it does, the two sides share an event
\* mask, and the getter takes the announcement of the pieces for data.
OneSideOnly == AwesomeAsks \cap AwesomeOwns = {}

EventSet == [type : EventTypes, transfer : Transfer]

-----------------------------------------------------------------------------
(* What may be on its way in a queue.                                      *)

\* No event of the type about t.
Lacks(q, type, t) == \A i \in 1..Len(q) : q[i].transfer = t => q[i].type # type

\* At most one event of the type about t.
Single(q, type, t) ==
    \A i, j \in 1..Len(q) : q[i] = Event(type, t) /\ q[j] = Event(type, t) => i = j

\* The notification comes after the event for the contents that it announces.
NotifyIsLast(q, t) ==
    \A i, j \in 1..Len(q) : q[i] = Event("new", t) /\ q[j] = Event("notify", t) => i < j

\* Nothing about t has been added to q in r, and at most the first event taken away.
Carries(q, r, t) ==
    \E d \in {0, 1} : \A i \in 1..Len(r) :
        r[i].transfer = t => i + d \in 1..Len(q) /\ r[i] = q[i + d]

LEMMA EventFields ==
    /\ \A type, t : Event(type, t).type = type /\ Event(type, t).transfer = t
    /\ \A e \in EventSet : e = Event(e.type, e.transfer) /\ e.type \in EventTypes /\ e.transfer \in Transfer
    /\ \A type \in EventTypes, t \in Transfer : Event(type, t) \in EventSet
  BY DEF Event, EventSet

\* The first event goes.
LEMMA TailFacts ==
    ASSUME NEW q \in Seq(EventSet), q # <<>>
    PROVE  /\ Tail(q) \in Seq(EventSet) /\ Head(q) = q[1] /\ Head(q) \in EventSet
           /\ Len(Tail(q)) = Len(q) - 1
           /\ \A i \in 1..Len(Tail(q)) : Tail(q)[i] = q[i + 1] /\ i + 1 \in 1..Len(q)
           /\ Len(q) \in Nat /\ 1 \in 1..Len(q)
  BY HeadTailProperties, EmptySeq, LenProperties

LEMMA AppendFacts ==
    ASSUME NEW q \in Seq(EventSet), NEW e \in EventSet
    PROVE  /\ Append(q, e) \in Seq(EventSet) /\ Len(Append(q, e)) = Len(q) + 1
           /\ \A i \in 1..Len(q) : Append(q, e)[i] = q[i]
           /\ Append(q, e)[Len(q) + 1] = e /\ Len(q) \in Nat
  BY AppendProperties, LenProperties

LEMMA CarriesTail ==
    ASSUME NEW q \in Seq(EventSet), q # <<>>, NEW t
    PROVE  Carries(q, Tail(q), t)
  <1>1. \A i \in 1..Len(Tail(q)) : i + 1 \in 1..Len(q) /\ Tail(q)[i] = q[i + 1]
    BY TailFacts
  <1> QED BY <1>1 DEF Carries

LEMMA CarriesSame ==
    ASSUME NEW q \in Seq(EventSet), NEW t
    PROVE  Carries(q, q, t)
  <1>1. \A i \in 1..Len(q) : i + 0 \in 1..Len(q) /\ q[i] = q[i + 0]
    BY LenProperties
  <1> QED BY <1>1 DEF Carries

LEMMA CarriesAppend ==
    ASSUME NEW q, NEW r \in Seq(EventSet), NEW t, Carries(q, r, t),
           NEW e \in EventSet, e.transfer # t
    PROVE  Carries(q, Append(r, e), t)
  <1>1. PICK d \in {0, 1} : \A i \in 1..Len(r) :
            r[i].transfer = t => i + d \in 1..Len(q) /\ r[i] = q[i + d]
    BY DEF Carries
  <1>2. \A i \in 1..Len(Append(r, e)) : Append(r, e)[i].transfer = t =>
            i + d \in 1..Len(q) /\ Append(r, e)[i] = q[i + d]
    <2> SUFFICES ASSUME NEW i \in 1..Len(Append(r, e)), Append(r, e)[i].transfer = t
                 PROVE  i + d \in 1..Len(q) /\ Append(r, e)[i] = q[i + d]
      OBVIOUS
    <2>1. i \in 1..Len(r) /\ Append(r, e)[i] = r[i]
      BY AppendFacts
    <2> QED BY <2>1, <1>1
  <1> QED BY <1>2 DEF Carries

\* What is lacking, single or in order remains so when nothing about t is added.
LEMMA CarriesKeeps ==
    ASSUME NEW q \in Seq(EventSet), NEW r \in Seq(EventSet), NEW t, Carries(q, r, t)
    PROVE  /\ \A other : Lacks(q, other, t) => Lacks(r, other, t)
           /\ \A type : Single(q, type, t) => Single(r, type, t)
           /\ NotifyIsLast(q, t) => NotifyIsLast(r, t)
  <1>1. PICK d \in {0, 1} : \A i \in 1..Len(r) :
            r[i].transfer = t => i + d \in 1..Len(q) /\ r[i] = q[i + d]
    BY DEF Carries
  <1>2. \A other : Lacks(q, other, t) => Lacks(r, other, t)
    BY <1>1 DEF Lacks
  <1>3. ASSUME NEW type, Single(q, type, t)
        PROVE  Single(r, type, t)
    <2> SUFFICES ASSUME NEW i \in 1..Len(r), NEW j \in 1..Len(r),
                        r[i] = Event(type, t), r[j] = Event(type, t)
                 PROVE  i = j
      BY DEF Single
    <2>1. i + d \in 1..Len(q) /\ q[i + d] = Event(type, t)
      BY <1>1, EventFields
    <2>2. j + d \in 1..Len(q) /\ q[j + d] = Event(type, t)
      BY <1>1, EventFields
    <2>3. i + d = j + d
      BY <2>1, <2>2, <1>3 DEF Single
    <2> QED BY <2>3
  <1>4. ASSUME NotifyIsLast(q, t)
        PROVE  NotifyIsLast(r, t)
    <2> SUFFICES ASSUME NEW i \in 1..Len(r), NEW j \in 1..Len(r),
                        r[i] = Event("new", t), r[j] = Event("notify", t)
                 PROVE  i < j
      BY DEF NotifyIsLast
    <2>1. i + d \in 1..Len(q) /\ q[i + d] = Event("new", t)
      BY <1>1, EventFields
    <2>2. j + d \in 1..Len(q) /\ q[j + d] = Event("notify", t)
      BY <1>1, EventFields
    <2>3. i + d < j + d
      BY <2>1, <2>2, <1>4 DEF NotifyIsLast
    <2> QED BY <2>3
  <1> QED BY <1>2, <1>3, <1>4

\* The only event of its type has been handled, and then the notification.
LEMMA TailRemoves ==
    ASSUME NEW q \in Seq(EventSet), q # <<>>, NEW t, NEW type, Head(q) = Event(type, t)
    PROVE  /\ Single(q, type, t) => Lacks(Tail(q), type, t)
           /\ type = "notify" /\ NotifyIsLast(q, t) => Lacks(Tail(q), "new", t)
  <1>1. q[1] = Event(type, t) /\ 1 \in 1..Len(q)
    BY TailFacts
  <1>2. ASSUME NEW i \in 1..Len(Tail(q)), Tail(q)[i].transfer = t
        PROVE  i + 1 \in 1..Len(q) /\ q[i + 1] = Event(Tail(q)[i].type, t)
    <2>1. Tail(q)[i] = q[i + 1] /\ i + 1 \in 1..Len(q)
      BY TailFacts
    <2>2. q[i + 1] \in EventSet
      BY <2>1, ElementOfSeq
    <2> QED BY <2>1, <2>2, <1>2, EventFields
  <1>3. ASSUME Single(q, type, t), NEW i \in 1..Len(Tail(q)), Tail(q)[i].transfer = t
        PROVE  Tail(q)[i].type # type
    <2>1. i + 1 # 1
      OBVIOUS
    <2> QED BY <1>1, <1>2, <1>3, <2>1 DEF Single
  <1>4. ASSUME type = "notify", NotifyIsLast(q, t), NEW i \in 1..Len(Tail(q)), Tail(q)[i].transfer = t
        PROVE  Tail(q)[i].type # "new"
    <2>1. ~(i + 1 < 1)
      OBVIOUS
    <2> QED BY <1>1, <1>2, <1>4, <2>1 DEF NotifyIsLast
  <1> QED BY <1>3, <1>4 DEF Lacks

\* An event comes last.
LEMMA AppendKeeps ==
    ASSUME NEW q \in Seq(EventSet), NEW t \in Transfer, NEW type \in EventTypes
    PROVE  /\ \A other \in EventTypes : other # type /\ Lacks(q, other, t) => Lacks(Append(q, Event(type, t)), other, t)
           /\ Lacks(q, type, t) => Single(Append(q, Event(type, t)), type, t)
           /\ type = "notify" /\ Lacks(q, "notify", t) => NotifyIsLast(Append(q, Event(type, t)), t)
  <1> DEFINE e == Event(type, t)
             r == Append(q, e)
  <1>1. e \in EventSet /\ e.type = type /\ e.transfer = t
    BY EventFields
  <1> HIDE DEF e
  <1>2. /\ Len(r) = Len(q) + 1 /\ Len(q) \in Nat
        /\ \A i \in 1..Len(q) : r[i] = q[i]
        /\ r[Len(q) + 1] = e
    BY <1>1, AppendFacts
  <1> HIDE DEF r
  <1>3. \A other \in EventTypes : other # type /\ Lacks(q, other, t) => Lacks(r, other, t)
    BY <1>1, <1>2 DEF Lacks
  <1>4. ASSUME Lacks(q, type, t)
        PROVE  /\ \A i \in 1..Len(r) : r[i] = e => i = Len(q) + 1
    BY <1>1, <1>2, <1>4 DEF Lacks
  <1>5. Lacks(q, type, t) => Single(r, type, t)
    BY <1>4 DEF Single, e
  <1>6. ASSUME type = "notify", Lacks(q, "notify", t)
        PROVE  NotifyIsLast(r, t)
    <2> SUFFICES ASSUME NEW i \in 1..Len(r), NEW j \in 1..Len(r),
                        r[i] = Event("new", t), r[j] = e
                 PROVE  i < j
      BY <1>6 DEF NotifyIsLast, e
    <2>1. j = Len(q) + 1
      BY <1>4, <1>6
    <2>2. i # j
      BY <1>1, <1>6, EventFields
    <2> QED BY <2>1, <2>2, <1>2
  <1> QED BY <1>3, <1>5, <1>6 DEF r, e

-----------------------------------------------------------------------------
(* The bytes of a transfer.                                                *)

LEMMA NextBytes ==
    ASSUME NEW m \in Nat, NEW n \in Nat, m <= n
    PROVE  /\ Bytes(m + 1, n) \in Seq(0..n) /\ Bytes(m + 1, n) \in Seq(Nat)
           /\ Len(Bytes(m + 1, n)) = n - m
           /\ \A k \in 1..(n - m) : Bytes(m + 1, n)[k] = m + k
           /\ m = n => Bytes(m + 1, n) = <<>>
  <1> DEFINE b == Bytes(m + 1, n)
  <1>1. n - (m + 1) + 1 = n - m /\ n - m \in Nat
    OBVIOUS
  <1>2. b = [k \in 1..(n - m) |-> m + 1 + k - 1]
    BY <1>1 DEF Bytes
  <1>3. \A k \in 1..(n - m) : m + 1 + k - 1 = m + k /\ m + k \in 0..n /\ m + k \in Nat
    OBVIOUS
  <1>4. b \in [1..(n - m) -> 0..n] /\ b \in [1..(n - m) -> Nat] /\ \A k \in 1..(n - m) : b[k] = m + k
    BY <1>2, <1>3
  <1> HIDE DEF b
  <1>5. b \in Seq(0..n) /\ b \in Seq(Nat)
    BY <1>1, <1>4, SeqDef
  <1>6. Len(b) = n - m
    BY <1>1, <1>4, <1>5, LenProperties
  <1>7. m = n => b = <<>>
    BY <1>5, <1>6, EmptySeq
  <1> QED BY <1>4, <1>5, <1>6, <1>7 DEF b

LEMMA FirstBytes ==
    ASSUME NEW n \in Nat
    PROVE  /\ Bytes(1, n) \in Seq(0..n) /\ Bytes(1, n) \in Seq(Nat) /\ Len(Bytes(1, n)) = n
           /\ \A k \in 1..n : Bytes(1, n)[k] = k
           /\ n = 0 => Bytes(1, n) = <<>>
  <1>1. 0 + 1 = 1 /\ n - 0 = n /\ 0 \in Nat /\ 0 <= n /\ \A k \in 1..n : 0 + k = k
    OBVIOUS
  <1>2. /\ Bytes(0 + 1, n) \in Seq(0..n) /\ Bytes(0 + 1, n) \in Seq(Nat)
        /\ Len(Bytes(0 + 1, n)) = n - 0
        /\ \A k \in 1..(n - 0) : Bytes(0 + 1, n)[k] = 0 + k
        /\ 0 = n => Bytes(0 + 1, n) = <<>>
    BY <1>1, NextBytes, Zenon
  <1> QED BY <1>1, <1>2

\* What is got and what comes next.
LEMMA BytesConcat ==
    ASSUME NEW m \in Nat, NEW n \in Nat, m <= n
    PROVE  Bytes(1, m) \o Bytes(m + 1, n) = Bytes(1, n)
  <1> DEFINE a == Bytes(1, m)
             b == Bytes(m + 1, n)
             c == Bytes(1, n)
  <1>1. a \in Seq(Nat) /\ Len(a) = m /\ \A k \in 1..m : a[k] = k
    BY FirstBytes
  <1>2. c \in Seq(Nat) /\ Len(c) = n /\ \A k \in 1..n : c[k] = k
    BY FirstBytes
  <1>3. b \in Seq(Nat) /\ Len(b) = n - m /\ \A k \in 1..(n - m) : b[k] = m + k
    BY NextBytes
  <1> HIDE DEF a, b, c
  <1>4. /\ a \o b \in Seq(Nat) /\ Len(a \o b) = Len(a) + Len(b)
        /\ \A k \in 1..Len(a) + Len(b) : (a \o b)[k] = IF k <= Len(a) THEN a[k] ELSE b[k - Len(a)]
    BY <1>1, <1>3, ConcatProperties
  <1>5. m + (n - m) = n
    OBVIOUS
  <1>6. \A k \in 1..n : (a \o b)[k] = k
    <2> SUFFICES ASSUME NEW k \in 1..n
                 PROVE  (a \o b)[k] = k
      OBVIOUS
    <2>1. (a \o b)[k] = IF k <= m THEN a[k] ELSE b[k - m]
      BY <1>1, <1>3, <1>4, <1>5
    <2>2. k <= m => k \in 1..m
      OBVIOUS
    <2>3. ~(k <= m) => k - m \in 1..(n - m) /\ m + (k - m) = k
      OBVIOUS
    <2> QED BY <1>1, <1>3, <2>1, <2>2, <2>3
  <1>7. Len(a \o b) = Len(c)
    BY <1>1, <1>2, <1>3, <1>4
  <1>8. a \o b = c
    BY <1>2, <1>4, <1>6, <1>7, SeqEqual
  <1> QED BY <1>8 DEF a, b, c

-----------------------------------------------------------------------------
(* The queues of both clients, and what the server does to them.           *)

Queues == [XClient -> Seq(EventSet)]

\* Nothing about t is in the new queues that was not in the old ones.
CarriesAll(queues, t) == \A c \in XClient : Carries(events[c], queues[c], t)

LEMMA HandledFacts ==
    ASSUME events \in Queues, NEW c \in XClient, events[c] # <<>>
    PROVE  /\ Handled(c) \in Queues
           /\ \A t : CarriesAll(Handled(c), t)
           /\ \A t, type : Head(events[c]) = Event(type, t) =>
                /\ Single(events[c], type, t) => Lacks(Handled(c)[c], type, t)
                /\ type = "notify" /\ NotifyIsLast(events[c], t) => Lacks(Handled(c)[c], "new", t)
  <1>1. /\ Handled(c) = [events EXCEPT ![c] = Tail(events[c])]
        /\ Handled(c)[c] = Tail(events[c])
        /\ \A d \in XClient \ {c} : Handled(c)[d] = events[d]
        /\ \A d \in XClient : events[d] \in Seq(EventSet)
    BY DEF Handled, Queues
  <1>2. Tail(events[c]) \in Seq(EventSet)
    BY <1>1, TailFacts
  <1>3. Handled(c) \in Queues
    BY <1>1, <1>2 DEF Queues
  <1>4. ASSUME NEW t PROVE CarriesAll(Handled(c), t)
    <2> SUFFICES ASSUME NEW d \in XClient PROVE Carries(events[d], Handled(c)[d], t)
      BY DEF CarriesAll
    <2>1. CASE d = c
      BY <2>1, <1>1, CarriesTail
    <2>2. CASE d # c
      BY <2>2, <1>1, CarriesSame
    <2> QED BY <2>1, <2>2
  <1>5. ASSUME NEW t, NEW type, Head(events[c]) = Event(type, t)
        PROVE  /\ Single(events[c], type, t) => Lacks(Handled(c)[c], type, t)
               /\ type = "notify" /\ NotifyIsLast(events[c], t) => Lacks(Handled(c)[c], "new", t)
    BY <1>1, <1>5, TailRemoves
  <1> QED BY <1>3, <1>4, <1>5

\* The server sends an event to those who have selected for it.
LEMMA ToldTyped ==
    ASSUME NEW queues \in Queues, NEW selected, NEW type \in EventTypes, NEW t \in Transfer,
           NEW heard, heard = Told(queues, selected, Event(type, t))
    PROVE  heard \in Queues
  <1> DEFINE e == Event(type, t)
  <1>1. e \in EventSet
    BY EventFields
  <1>2. \A c \in XClient : queues[c] \in Seq(EventSet) /\ Append(queues[c], e) \in Seq(EventSet)
    BY <1>1, AppendFacts DEF Queues
  <1> HIDE DEF e
  <1> QED BY <1>2 DEF Told, Queues, e

LEMMA ToldCarries ==
    ASSUME NEW queues \in Queues, NEW selected, NEW type \in EventTypes, NEW t \in Transfer,
           NEW heard, heard = Told(queues, selected, Event(type, t)),
           NEW u, u # t, CarriesAll(queues, u)
    PROVE  CarriesAll(heard, u)
  <1> SUFFICES ASSUME NEW c \in XClient PROVE Carries(events[c], heard[c], u)
    BY DEF CarriesAll
  <1> DEFINE e == Event(type, t)
  <1>1. e \in EventSet /\ e.transfer = t
    BY EventFields
  <1>2. heard[c] = queues[c] \/ heard[c] = Append(queues[c], e)
    BY DEF Told
  <1>3. queues[c] \in Seq(EventSet) /\ Carries(events[c], queues[c], u)
    BY DEF CarriesAll, Queues
  <1>4. Carries(events[c], Append(queues[c], e), u)
    BY <1>1, <1>3, CarriesAppend
  <1> QED BY <1>2, <1>3, <1>4

\* A queue to which nothing or one event of a type about t has been added.
Tells(q, r, type, t) ==
    /\ \A other \in EventTypes : other # type /\ Lacks(q, other, t) => Lacks(r, other, t)
    /\ Lacks(q, type, t) => Single(r, type, t)

LEMMA ToldKeeps ==
    ASSUME NEW queues \in Queues, NEW selected, NEW type \in EventTypes, NEW t \in Transfer, NEW c \in XClient
    PROVE  Tells(queues[c], Told(queues, selected, Event(type, t))[c], type, t)
  <1> PICK heard : heard = Told(queues, selected, Event(type, t))
    OBVIOUS
  <1> DEFINE e == Event(type, t)
  <1>1. /\ heard[c] = IF <<c, t[1]>> \in selected THEN Append(queues[c], e) ELSE queues[c]
        /\ queues[c] \in Seq(EventSet)
    BY EventFields DEF Told, Queues
  <1>2. Tells(queues[c], Append(queues[c], e), type, t)
    BY <1>1, AppendKeeps DEF Tells
  <1>3. Tells(queues[c], queues[c], type, t)
    BY EventFields DEF Lacks, Single, Tells
  <1> QED BY <1>1, <1>2, <1>3

LEMMA Untold ==
    ASSUME NEW queues, NEW selected, NEW type, NEW t, NEW c \in XClient, <<c, t[1]>> \notin selected
    PROVE  Told(queues, selected, Event(type, t))[c] = queues[c]
  BY DEF Told, Event

\* A client sends an event to another one.
LEMMA SentFacts ==
    ASSUME NEW queues \in Queues, NEW c \in XClient, NEW type \in EventTypes, NEW t \in Transfer
    PROVE  LET sent == [queues EXCEPT ![c] = Append(@, Event(type, t))]
           IN  /\ sent \in Queues
               /\ \A u : u # t /\ CarriesAll(queues, u) => CarriesAll(sent, u)
               /\ \A d \in XClient, other \in EventTypes :
                    (other # type \/ d # c) /\ Lacks(queues[d], other, t) => Lacks(sent[d], other, t)
               /\ Lacks(queues[c], type, t) => Single(sent[c], type, t)
               /\ type = "notify" /\ Lacks(queues[c], "notify", t) => NotifyIsLast(sent[c], t)
  <1> DEFINE e == Event(type, t)
             sent == [queues EXCEPT ![c] = Append(@, e)]
  <1>1. e \in EventSet /\ e.transfer = t
    BY EventFields
  <1>2. /\ sent[c] = Append(queues[c], e)
        /\ \A d \in XClient : d # c => sent[d] = queues[d]
        /\ \A d \in XClient : queues[d] \in Seq(EventSet)
        /\ sent = [d \in XClient |-> sent[d]]
    BY DEF Queues
  <1>3. sent \in Queues
    <2>1. Append(queues[c], e) \in Seq(EventSet)
      BY <1>1, <1>2, AppendFacts
    <2> QED BY <1>2, <2>1 DEF Queues
  <1>4. ASSUME NEW u, u # t, CarriesAll(queues, u) PROVE CarriesAll(sent, u)
    <2> SUFFICES ASSUME NEW d \in XClient PROVE Carries(events[d], sent[d], u)
      BY DEF CarriesAll
    <2>1. Carries(events[d], queues[d], u)
      BY <1>4 DEF CarriesAll
    <2>2. Carries(events[d], Append(queues[d], e), u)
      BY <2>1, <1>1, <1>2, <1>4, CarriesAppend
    <2> QED BY <2>1, <2>2, <1>2
  <1>5. /\ \A other \in EventTypes : other # type /\ Lacks(queues[c], other, t) => Lacks(Append(queues[c], e), other, t)
        /\ Lacks(queues[c], type, t) => Single(Append(queues[c], e), type, t)
        /\ type = "notify" /\ Lacks(queues[c], "notify", t) => NotifyIsLast(Append(queues[c], e), t)
    BY <1>2, AppendKeeps
  <1> HIDE DEF sent, e
  <1>6. /\ sent \in Queues
        /\ \A u : u # t /\ CarriesAll(queues, u) => CarriesAll(sent, u)
        /\ \A d \in XClient, other \in EventTypes :
            (other # type \/ d # c) /\ Lacks(queues[d], other, t) => Lacks(sent[d], other, t)
        /\ Lacks(queues[c], type, t) => Single(sent[c], type, t)
        /\ type = "notify" /\ Lacks(queues[c], "notify", t) => NotifyIsLast(sent[c], t)
    BY <1>2, <1>3, <1>4, <1>5
  <1> QED BY <1>6 DEF sent, e

-----------------------------------------------------------------------------
(* The stages of a transfer.                                               *)

\* No request for t is on its way.
NotRequested(t) == \A c \in XClient : Lacks(events[c], "request", t)

\* awesome does not listen to its window before it is notified.
StillDeaf(t) ==
    Asker(t) = "awesome" =>
        <<"awesome", t[1]>> \notin masks /\ Lacks(events["awesome"], "new", t)

Untouched(t) ==
    /\ state[t] = "none" /\ given[t] = 0 /\ put[t] = 0 /\ got[t] = <<>> /\ property[t] = Missing
    /\ Lacks(events[Asker(t)], "notify", t) /\ Lacks(events[Asker(t)], "refused", t) /\ Lacks(events[Asker(t)], "new", t)
    /\ Lacks(events[Owner(t)], "deleted", t)
    /\ StillDeaf(t)

Idle(t) == asker[t] = "idle" /\ Untouched(t) /\ NotRequested(t)

\* The owner has a request to answer.
Requested(t) ==
    /\ asker[t] = "asked" /\ Untouched(t)
    /\ \A c \in XClient \ {Owner(t)} : Lacks(events[c], "request", t)
    /\ Single(events[Owner(t)], "request", t)

\* The owner has rejected the request, and then the asker knows it.
Rejected(t) ==
    /\ asker[t] = "asked" /\ state[t] = "done" /\ given[t] = 0 /\ got[t] = <<>>
    /\ Lacks(events[Asker(t)], "notify", t) /\ Lacks(events[Asker(t)], "new", t)
    /\ StillDeaf(t) /\ NotRequested(t)

Refused(t) == asker[t] = "refused" /\ state[t] = "done" /\ NotRequested(t)

\* The owner has answered, and it is for the asker to look at the property.
Notified(t) ==
    /\ asker[t] = "asked" /\ got[t] = <<>>
    /\ Lacks(events[Asker(t)], "refused", t)
    /\ Single(events[Asker(t)], "notify", t) /\ NotifyIsLast(events[Asker(t)], t)
    /\ StillDeaf(t) /\ NotRequested(t)

Announced(t) ==
    /\ Notified(t)
    /\ state[t] = "sending" /\ property[t] = Incr /\ put[t] = 0
    /\ Lacks(events[Owner(t)], "deleted", t)

Whole(t) ==
    /\ Notified(t)
    /\ state[t] = "done" /\ put[t] = given[t] /\ property[t] = Data(Bytes(1, given[t]))

\* The transfer is one in pieces, and has begun.
Reading(t) ==
    /\ asker[t] = IF Asker(t) = "awesome" THEN "asked" ELSE "reading"
    /\ Lacks(events[Asker(t)], "notify", t) /\ Lacks(events[Asker(t)], "refused", t)
    /\ NotRequested(t)

\* It is for the owner to write the next piece.
Wanted(t) ==
    /\ Reading(t)
    /\ state[t] = "sending" /\ property[t] = Missing /\ got[t] = Bytes(1, put[t])
    /\ Lacks(events[Asker(t)], "new", t) /\ Single(events[Owner(t)], "deleted", t)

\* It is for the asker to read a piece, or to learn that there are no more.
Offered(t) ==
    /\ Reading(t)
    /\ state[t] = "sending"
    /\ got[t] = Bytes(1, Len(got[t])) /\ Len(got[t]) < put[t]
    /\ property[t] = Data(Bytes(Len(got[t]) + 1, put[t]))
    /\ Lacks(events[Owner(t)], "deleted", t) /\ Single(events[Asker(t)], "new", t)

Closing(t) ==
    /\ Reading(t)
    /\ state[t] = "done" /\ property[t] = Data(<<>>)
    /\ put[t] = given[t] /\ got[t] = Bytes(1, put[t])

Over(t) == asker[t] = "done" /\ state[t] = "done" /\ Len(got[t]) = given[t] /\ NotRequested(t)

Protocol(t) ==
    \/ Idle(t) \/ Requested(t) \/ Rejected(t) \/ Refused(t) \/ Announced(t)
    \/ Whole(t) \/ Wanted(t) \/ Offered(t) \/ Closing(t) \/ Over(t)

\* awesome listens to the windows of others only for a transfer in pieces.
MasksInv ==
    \A w \in Window \ AwesomeAsks :
        <<"awesome", w>> \in masks =>
            w \in AwesomeOwns /\ \E t \in Transfer : t[1] = w /\ state[t] = "sending"

PropertiesTyped ==
    property \in [Transfer -> [type : {"none", "incr", "data"}, bytes : Seq(0..MaxData)]]

IInv == TypeOK /\ PropertiesTyped /\ MasksInv /\ \A t \in Transfer : Protocol(t)

-----------------------------------------------------------------------------
(* What does not concern a transfer leaves it in its stage.                *)

Alone(t) ==
    /\ asker'[t] = asker[t] /\ got'[t] = got[t] /\ state'[t] = state[t]
    /\ given'[t] = given[t] /\ put'[t] = put[t] /\ property'[t] = property[t]
    /\ Asker(t) = "awesome" /\ <<"awesome", t[1]>> \notin masks => <<"awesome", t[1]>> \notin masks'

LEMMA Sides == \A t \in Transfer : Asker(t) \in XClient /\ Owner(t) \in XClient
  BY DEF Asker, Owner, XClient

LEMMA Frame ==
    ASSUME events \in Queues, events' \in Queues, NEW t \in Transfer,
           Alone(t), CarriesAll(events', t), Protocol(t)
    PROVE  Protocol(t)'
  <1>1. \A c \in XClient :
            /\ \A other : Lacks(events[c], other, t) => Lacks(events'[c], other, t)
            /\ \A type : Single(events[c], type, t) => Single(events'[c], type, t)
            /\ NotifyIsLast(events[c], t) => NotifyIsLast(events'[c], t)
    <2> SUFFICES ASSUME NEW c \in XClient
                 PROVE  /\ \A other : Lacks(events[c], other, t) => Lacks(events'[c], other, t)
                        /\ \A type : Single(events[c], type, t) => Single(events'[c], type, t)
                        /\ NotifyIsLast(events[c], t) => NotifyIsLast(events'[c], t)
      OBVIOUS
    <2>1. events[c] \in Seq(EventSet) /\ events'[c] \in Seq(EventSet) /\ Carries(events[c], events'[c], t)
      BY DEF Queues, CarriesAll
    <2> QED BY <2>1, CarriesKeeps
  <1>2. Asker(t) \in XClient /\ Owner(t) \in XClient /\ "awesome" \in XClient
    BY Sides DEF XClient
  <1>3. NotRequested(t) => NotRequested(t)'
    BY <1>1 DEF NotRequested
  <1>4. StillDeaf(t) => StillDeaf(t)'
    BY <1>1, <1>2 DEF StillDeaf, Alone
  <1>5. Untouched(t) => Untouched(t)'
    BY <1>1, <1>2, <1>4 DEF Untouched, Alone
  <1>6. Notified(t) => Notified(t)'
    BY <1>1, <1>2, <1>3, <1>4 DEF Notified, Alone
  <1>7. Reading(t) => Reading(t)'
    BY <1>1, <1>2, <1>3 DEF Reading, Alone
  <1>8. Idle(t) => Idle(t)'
    BY <1>3, <1>5 DEF Idle, Alone
  <1>9. Requested(t) => Requested(t)'
    BY <1>1, <1>2, <1>5 DEF Requested, Alone
  <1>10. Rejected(t) => Rejected(t)'
    BY <1>1, <1>2, <1>3, <1>4 DEF Rejected, Alone
  <1>11. Refused(t) => Refused(t)'
    BY <1>3 DEF Refused, Alone
  <1>12. Announced(t) => Announced(t)'
    BY <1>1, <1>2, <1>6 DEF Announced, Alone
  <1>13. Whole(t) => Whole(t)'
    BY <1>6 DEF Whole, Alone
  <1>14. Wanted(t) => Wanted(t)'
    BY <1>1, <1>2, <1>7 DEF Wanted, Alone
  <1>15. Offered(t) => Offered(t)'
    BY <1>1, <1>2, <1>7 DEF Offered, Alone
  <1>16. Closing(t) => Closing(t)'
    BY <1>7 DEF Closing, Alone
  <1>17. Over(t) => Over(t)'
    BY <1>3 DEF Over, Alone
  <1> QED
    BY <1>8, <1>9, <1>10, <1>11, <1>12, <1>13, <1>14, <1>15, <1>16, <1>17 DEF Protocol

-----------------------------------------------------------------------------
(* Every step leaves every transfer in a stage.                            *)

LEMMA OthersStay ==
    ASSUME IInv, events' \in Queues, NEW t \in Transfer, Protocol(t)',
           \A u \in Transfer \ {t} : Alone(u) /\ CarriesAll(events', u)
    PROVE  \A u \in Transfer : Protocol(u)'
  <1>1. events \in Queues /\ \A u \in Transfer : Protocol(u)
    BY DEF IInv, TypeOK, Queues, EventSet
  <1> QED BY <1>1, Frame

LEMMA QueuesTyped ==
    ASSUME IInv
    PROVE  /\ events \in Queues
           /\ \A c \in XClient : events[c] \in Seq(EventSet)
           /\ \A t : CarriesAll(events, t)
  <1>1. events \in Queues /\ \A c \in XClient : events[c] \in Seq(EventSet)
    BY DEF IInv, TypeOK, Queues, EventSet
  <1>2. \A t : CarriesAll(events, t)
    BY <1>1, CarriesSame DEF CarriesAll
  <1> QED BY <1>1, <1>2

\* The event that is handled is there.
LEMMA HeadIsThere ==
    ASSUME IInv, NEW c \in XClient, events[c] # <<>>
    PROVE  /\ Head(events[c]) \in EventSet
           /\ Head(events[c]) = Event(Head(events[c]).type, Head(events[c]).transfer)
           /\ \A type, t : Head(events[c]) = Event(type, t) => ~Lacks(events[c], type, t)
  <1>1. events[c] \in Seq(EventSet)
    BY QueuesTyped
  <1>2. Head(events[c]) = events[c][1] /\ Head(events[c]) \in EventSet /\ 1 \in 1..Len(events[c])
    BY <1>1, TailFacts
  <1> QED BY <1>2, EventFields DEF Lacks

\* An event that nobody waits for.
LEMMA IgnoredKeeps ==
    ASSUME IInv, NEW c \in XClient, events[c] # <<>>, events' = Handled(c),
           UNCHANGED <<askerVars, ownerVars, property, masks>>
    PROVE  IInv'
  <1>1. events \in Queues
    BY QueuesTyped
  <1>2. events' \in Queues /\ \A t : CarriesAll(events', t)
    BY <1>1, HandledFacts
  <1>3. \A t \in Transfer : Alone(t)
    BY DEF Alone, askerVars, ownerVars
  <1>4. \A t \in Transfer : Protocol(t)'
    BY <1>1, <1>2, <1>3, Frame DEF IInv
  <1>5. TypeOK'
    BY <1>2 DEF IInv, TypeOK, Queues, EventSet, askerVars, ownerVars
  <1>6. PropertiesTyped' /\ MasksInv'
    BY DEF IInv, PropertiesTyped, MasksInv, ownerVars
  <1> QED BY <1>4, <1>5, <1>6 DEF IInv

LEMMA AskKeeps ==
    ASSUME IInv, NEW t \in Transfer, Ask(t)
    PROVE  IInv'
  <1> DEFINE sent == [events EXCEPT ![Owner(t)] = Append(@, Event("request", t))]
  <1>1. /\ events \in Queues
        /\ \A u : CarriesAll(events, u)
        /\ Owner(t) \in XClient /\ Asker(t) \in XClient /\ "awesome" \in XClient
        /\ "request" \in EventTypes
    BY QueuesTyped, Sides DEF XClient, EventTypes
  <1>2. /\ sent \in Queues
        /\ \A u : u # t /\ CarriesAll(events, u) => CarriesAll(sent, u)
        /\ \A d \in XClient, other \in EventTypes :
             (other # "request" \/ d # Owner(t)) /\ Lacks(events[d], other, t) => Lacks(sent[d], other, t)
        /\ Lacks(events[Owner(t)], "request", t) => Single(sent[Owner(t)], "request", t)
    BY <1>1, SentFacts
  <1> HIDE DEF sent
  <1>3. /\ events' = sent
        /\ asker[t] = "idle" /\ asker' = [asker EXCEPT ![t] = "asked"]
        /\ got' = got /\ state' = state /\ given' = given /\ put' = put /\ more' = more
        /\ property' = property /\ masks' = masks
    BY DEF Ask, sent, ownerVars
  <1>4. asker \in [Transfer -> {"idle", "asked", "reading", "refused", "done"}]
    BY DEF IInv, TypeOK
  <1>5. Idle(t)
    BY <1>3 DEF IInv, Protocol, Requested, Rejected, Refused, Notified, Announced, Whole,
                Reading, Wanted, Offered, Closing, Over
  <1>6. Untouched(t)'
    BY <1>1, <1>2, <1>3, <1>5 DEF Idle, Untouched, StillDeaf, EventTypes
  <1>7. Requested(t)'
    BY <1>1, <1>2, <1>3, <1>4, <1>5, <1>6 DEF Idle, Requested, NotRequested
  <1>8. \A u \in Transfer \ {t} : Alone(u) /\ CarriesAll(events', u)
    BY <1>1, <1>2, <1>3, <1>4 DEF Alone
  <1>9. \A u \in Transfer : Protocol(u)'
    BY <1>2, <1>3, <1>7, <1>8, OthersStay DEF Protocol
  <1>10. TypeOK'
    BY <1>2, <1>3 DEF IInv, TypeOK, Queues, EventSet
  <1>11. PropertiesTyped' /\ MasksInv'
    BY <1>3 DEF IInv, PropertiesTyped, MasksInv
  <1> QED BY <1>9, <1>10, <1>11 DEF IInv

\* A request is answered once, in the stage for it.
LEMMA RequestStage ==
    ASSUME IInv, NEW c \in XClient, NEW t \in Transfer,
           events[c] # <<>>, Head(events[c]) = Event("request", t)
    PROVE  /\ c = Owner(t) /\ Requested(t)
           /\ \A d \in XClient : Lacks(Handled(c)[d], "request", t)
           /\ Lacks(Handled(c)[Asker(t)], "notify", t) /\ Lacks(Handled(c)[Asker(t)], "refused", t) /\ Lacks(Handled(c)[Asker(t)], "new", t)
           /\ Lacks(Handled(c)[Owner(t)], "deleted", t)
           /\ Asker(t) = "awesome" => Lacks(Handled(c)["awesome"], "new", t)
  <1>1. ~Lacks(events[c], "request", t)
    BY HeadIsThere
  <1>2. Protocol(t) /\ ~NotRequested(t)
    BY <1>1 DEF IInv, NotRequested
  <1>3. Requested(t)
    BY <1>2 DEF Protocol, Idle, Rejected, Refused, Notified, Announced, Whole,
                Reading, Wanted, Offered, Closing, Over
  <1>4. c = Owner(t)
    BY <1>1, <1>3 DEF Requested
  <1>5. /\ events \in Queues /\ \A d \in XClient : events[d] \in Seq(EventSet)
        /\ Handled(c) \in Queues /\ CarriesAll(Handled(c), t)
        /\ Single(events[c], "request", t) => Lacks(Handled(c)[c], "request", t)
    BY QueuesTyped, HandledFacts
  <1>6. \A d \in XClient : \A other : Lacks(events[d], other, t) => Lacks(Handled(c)[d], other, t)
    BY <1>5, CarriesKeeps DEF CarriesAll, Queues
  <1>7. \A d \in XClient : Lacks(Handled(c)[d], "request", t)
    BY <1>3, <1>4, <1>5, <1>6 DEF Requested
  <1>8. Asker(t) \in XClient /\ Owner(t) \in XClient /\ "awesome" \in XClient
    BY Sides DEF XClient
  <1> QED BY <1>3, <1>4, <1>6, <1>7, <1>8 DEF Requested, Untouched, StillDeaf

LEMMA RejectKeeps ==
    ASSUME IInv, NEW c \in XClient, NEW t \in Transfer,
           events[c] # <<>>, Head(events[c]) = Event("request", t),
           Reject(t), UNCHANGED askerVars
    PROVE  IInv'
  <1> DEFINE sent == [Handled(c) EXCEPT ![Asker(t)] = Append(@, Event("refused", t))]
  <1>1. /\ c = Owner(t) /\ Requested(t)
        /\ \A d \in XClient : Lacks(Handled(c)[d], "request", t)
        /\ Lacks(Handled(c)[Asker(t)], "notify", t) /\ Lacks(Handled(c)[Asker(t)], "refused", t) /\ Lacks(Handled(c)[Asker(t)], "new", t)
        /\ Asker(t) = "awesome" => Lacks(Handled(c)["awesome"], "new", t)
    BY RequestStage
  <1>2. /\ Handled(c) \in Queues
        /\ \A u : CarriesAll(Handled(c), u)
        /\ Owner(t) \in XClient /\ Asker(t) \in XClient /\ "awesome" \in XClient
        /\ "refused" \in EventTypes
    BY QueuesTyped, HandledFacts, Sides DEF XClient, EventTypes
  <1>3. /\ sent \in Queues
        /\ \A u : u # t /\ CarriesAll(Handled(c), u) => CarriesAll(sent, u)
        /\ \A d \in XClient, other \in EventTypes :
             (other # "refused" \/ d # Asker(t)) /\ Lacks(Handled(c)[d], other, t) => Lacks(sent[d], other, t)
    BY <1>2, SentFacts
  <1> HIDE DEF sent
  <1>4. /\ events' = sent
        /\ state' = [state EXCEPT ![t] = "done"]
        /\ asker' = asker /\ got' = got /\ given' = given /\ put' = put /\ more' = more
        /\ property' = property /\ masks' = masks
    BY <1>1 DEF Reject, sent, askerVars
  <1>5. state \in [Transfer -> {"none", "sending", "done"}]
    BY DEF IInv, TypeOK
  <1>6. /\ asker[t] = "asked" /\ given[t] = 0 /\ got[t] = <<>> /\ state[t] = "none"
        /\ Asker(t) = "awesome" => <<"awesome", t[1]>> \notin masks
    BY <1>1 DEF Requested, Untouched, StillDeaf
  <1>7. Lacks(Handled(c)[Asker(t)], "notify", t) /\ Lacks(Handled(c)[Asker(t)], "new", t)
    BY <1>1 DEF Lacks
  <1>8. NotRequested(t)' /\ StillDeaf(t)' /\ Lacks(events'[Asker(t)], "notify", t) /\ Lacks(events'[Asker(t)], "new", t)
    BY <1>1, <1>2, <1>3, <1>4, <1>6, <1>7 DEF NotRequested, StillDeaf, EventTypes
  <1>9. Rejected(t)'
    BY <1>4, <1>5, <1>6, <1>8 DEF Rejected
  <1>10. \A u \in Transfer \ {t} : Alone(u) /\ CarriesAll(events', u)
    BY <1>2, <1>3, <1>4, <1>5 DEF Alone
  <1>11. \A u \in Transfer : Protocol(u)'
    BY <1>3, <1>4, <1>9, <1>10, OthersStay DEF Protocol
  <1>12. TypeOK'
    BY <1>3, <1>4 DEF IInv, TypeOK, Queues, EventSet
  <1>13. MasksInv'
    BY <1>4, <1>5, <1>6 DEF IInv, MasksInv
  <1>14. PropertiesTyped'
    BY <1>4 DEF IInv, PropertiesTyped
  <1> QED BY <1>11, <1>12, <1>13, <1>14 DEF IInv

LEMMA SmallerFacts ==
    ASSUME NEW m \in Nat, NEW n \in Nat
    PROVE  /\ Smaller(m, n) \in Nat /\ Smaller(m, n) <= m /\ Smaller(m, n) <= n
           /\ Smaller(m, n) \in {m, n}
  BY DEF Smaller

LEMMA SendKeeps ==
    ASSUME IInv, OneSideOnly, NEW c \in XClient, NEW t \in Transfer,
           events[c] # <<>>, Head(events[c]) = Event("request", t),
           NEW n \in 0..Smaller(MaxSend, MaxData), NEW continue \in BOOLEAN,
           Send(t, n, continue), UNCHANGED askerVars
    PROVE  IInv'
  <1> DEFINE incr == continue \/ n >= MaxPiece
             selected == IF incr THEN masks \cup {<<Owner(t), t[1]>>} ELSE masks
             heard == Told(Handled(c), selected, Event("new", t))
             sent == [heard EXCEPT ![Asker(t)] = Append(@, Event("notify", t))]
  <1>1. /\ c = Owner(t) /\ Requested(t)
        /\ \A d \in XClient : Lacks(Handled(c)[d], "request", t)
        /\ Lacks(Handled(c)[Asker(t)], "notify", t) /\ Lacks(Handled(c)[Asker(t)], "refused", t) /\ Lacks(Handled(c)[Asker(t)], "new", t)
        /\ Lacks(Handled(c)[Owner(t)], "deleted", t)
        /\ Asker(t) = "awesome" => Lacks(Handled(c)["awesome"], "new", t)
    BY RequestStage
  <1>2. /\ Handled(c) \in Queues
        /\ \A u : CarriesAll(Handled(c), u)
        /\ Owner(t) \in XClient /\ Asker(t) \in XClient /\ "awesome" \in XClient
        /\ "new" \in EventTypes /\ "notify" \in EventTypes
    BY QueuesTyped, HandledFacts, Sides DEF XClient, EventTypes
  <1>3. n \in Nat /\ n <= MaxData /\ MaxData \in Nat /\ MaxPiece \in Nat /\ MaxPiece > 0
    <2>1. MaxSend \in Nat /\ MaxData \in Nat /\ MaxPiece \in Nat /\ MaxPiece > 0
      BY SelectionAssumption
    <2>2. Smaller(MaxSend, MaxData) \in Nat /\ Smaller(MaxSend, MaxData) <= MaxData
      BY <2>1, SmallerFacts
    <2> QED BY <2>1, <2>2
  <1>4. /\ asker[t] = "asked" /\ got[t] = <<>> /\ state[t] = "none"
        /\ Asker(t) = "awesome" => <<"awesome", t[1]>> \notin masks
    BY <1>1 DEF Requested, Untouched, StillDeaf
  <1>5. Asker(t) = "awesome" => Owner(t) = "app"
    BY DEF OneSideOnly, Asker, Owner
  <1>6. /\ events' = sent /\ masks' = selected
        /\ property' = [property EXCEPT ![t] = IF incr THEN Incr ELSE Data(Bytes(1, n))]
        /\ state' = [state EXCEPT ![t] = IF incr THEN "sending" ELSE "done"]
        /\ more' = [more EXCEPT ![t] = continue]
        /\ given' = [given EXCEPT ![t] = n]
        /\ put' = [put EXCEPT ![t] = IF incr THEN 0 ELSE n]
        /\ asker' = asker /\ got' = got
    BY <1>1 DEF Send, askerVars
  <1>7. /\ heard \in Queues
        /\ \A u : u # t /\ CarriesAll(Handled(c), u) => CarriesAll(heard, u)
        /\ \A d \in XClient : 
             /\ \A other \in EventTypes : 
                    other # "new" /\ Lacks(Handled(c)[d], other, t) => Lacks(heard[d], other, t)
             /\ <<d, t[1]>> \notin selected => heard[d] = Handled(c)[d]
    <2>1. \A d \in XClient : <<d, t[1]>> \notin selected => heard[d] = Handled(c)[d]
      BY Untold
    <2>2. PICK queues \in Queues : queues = Handled(c)
      BY <1>2
    <2>3. heard = Told(queues, selected, Event("new", t)) /\ "new" \in EventTypes
      BY <1>2, <2>2
    <2> HIDE DEF heard
    <2>4. heard \in Queues /\ \A u : u # t /\ CarriesAll(queues, u) => CarriesAll(heard, u)
      <3>1. heard \in Queues
        BY <2>3, ToldTyped
      <3>2. ASSUME NEW u, u # t, CarriesAll(queues, u) PROVE CarriesAll(heard, u)
        BY <2>3, <3>2, ToldCarries
      <3> QED BY <3>1, <3>2
    <2>6. ASSUME NEW d \in XClient, NEW other \in EventTypes, other # "new", Lacks(queues[d], other, t)
          PROVE  Lacks(heard[d], other, t)
      <3>1. Tells(queues[d], heard[d], "new", t)
        BY <2>3, ToldKeeps
      <3> QED BY <2>6, <3>1 DEF Tells
    <2> QED BY <2>1, <2>2, <2>4, <2>6
  <1> HIDE DEF heard
  <1>8. /\ sent \in Queues
        /\ \A u : u # t /\ CarriesAll(heard, u) => CarriesAll(sent, u)
        /\ \A d \in XClient, other \in EventTypes :
             (other # "notify" \/ d # Asker(t)) /\ Lacks(heard[d], other, t) => Lacks(sent[d], other, t)
        /\ Lacks(heard[Asker(t)], "notify", t) => Single(sent[Asker(t)], "notify", t)
        /\ Lacks(heard[Asker(t)], "notify", t) => NotifyIsLast(sent[Asker(t)], t)
    <2>1. heard \in Queues /\ Asker(t) \in XClient /\ "notify" \in EventTypes
      BY <1>2, <1>7
    <2>2. /\ sent \in Queues
          /\ \A u : u # t /\ CarriesAll(heard, u) => CarriesAll(sent, u)
          /\ \A d \in XClient, other \in EventTypes :
               (other # "notify" \/ d # Asker(t)) /\ Lacks(heard[d], other, t) => Lacks(sent[d], other, t)
          /\ Lacks(heard[Asker(t)], "notify", t) => Single(sent[Asker(t)], "notify", t)
          /\ "notify" = "notify" /\ Lacks(heard[Asker(t)], "notify", t) => NotifyIsLast(sent[Asker(t)], t)
      BY <2>1, SentFacts, Zenon
    <2> QED BY <2>2
  <1> HIDE DEF sent
  <1>9. Lacks(Handled(c)[Asker(t)], "notify", t) /\ Lacks(Handled(c)[Asker(t)], "refused", t)
    BY <1>1 DEF Lacks
  <1>10. /\ \A d \in XClient : Lacks(events'[d], "request", t)
         /\ Lacks(events'[Asker(t)], "refused", t)
         /\ Single(events'[Asker(t)], "notify", t) /\ NotifyIsLast(events'[Asker(t)], t)
         /\ Lacks(events'[Owner(t)], "deleted", t)
    BY <1>1, <1>2, <1>6, <1>7, <1>8, <1>9 DEF EventTypes
  <1>11. StillDeaf(t)'
    <2> SUFFICES ASSUME Asker(t) = "awesome"
                 PROVE  <<"awesome", t[1]>> \notin masks' /\ Lacks(events'["awesome"], "new", t)
      BY DEF StillDeaf
    <2>1. <<"awesome", t[1]>> \notin selected
      BY <1>4, <1>5
    <2>2. heard["awesome"] = Handled(c)["awesome"]
      BY <1>2, <1>7, <2>1
    <2> QED BY <1>1, <1>2, <1>6, <1>8, <2>1, <2>2
  <1>12. /\ asker \in [Transfer -> {"idle", "asked", "reading", "refused", "done"}]
         /\ property \in [Transfer -> [type : {"none", "incr", "data"}, bytes : Seq(0..MaxData)]]
         /\ state \in [Transfer -> {"none", "sending", "done"}]
         /\ given \in [Transfer -> 0..MaxData] /\ put \in [Transfer -> 0..MaxData]
         /\ more \in [Transfer -> BOOLEAN]
    BY DEF IInv, TypeOK, PropertiesTyped
  <1>13. Notified(t)'
    BY <1>4, <1>6, <1>10, <1>11 DEF Notified, NotRequested
  <1>16. /\ state' \in [Transfer -> {"none", "sending", "done"}]
         /\ given' \in [Transfer -> 0..MaxData] /\ put' \in [Transfer -> 0..MaxData]
         /\ more' \in [Transfer -> BOOLEAN]
         /\ asker' \in [Transfer -> {"idle", "asked", "reading", "refused", "done"}]
         /\ got' \in [Transfer -> Seq(0..MaxData)]
    <2>1. PICK st \in {"none", "sending", "done"} : state' = [state EXCEPT ![t] = st]
      BY <1>6
    <2>2. PICK p \in 0..MaxData : put' = [put EXCEPT ![t] = p]
      <3>1. (IF incr THEN 0 ELSE n) \in 0..MaxData
        BY <1>3
      <3> QED BY <1>6, <3>1
    <2>3. n \in 0..MaxData
      BY <1>3
    <2>4. state' \in [Transfer -> {"none", "sending", "done"}]
      BY <1>12, <2>1
    <2>5. put' \in [Transfer -> 0..MaxData]
      BY <1>12, <2>2
    <2>6. given' \in [Transfer -> 0..MaxData]
      BY <1>6, <1>12, <2>3
    <2>7. more' \in [Transfer -> BOOLEAN]
      BY <1>6, <1>12
    <2>8. asker' \in [Transfer -> {"idle", "asked", "reading", "refused", "done"}]
      BY <1>6, <1>12
    <2>9. got' \in [Transfer -> Seq(0..MaxData)]
      BY <1>6 DEF IInv, TypeOK
    <2> QED BY <2>4, <2>5, <2>6, <2>7, <2>8, <2>9
  <1>14. CASE incr
    <2>1. Announced(t)'
      BY <1>6, <1>10, <1>12, <1>13, <1>14 DEF Announced
    <2>2. property'[t] = Incr /\ put'[t] = 0 /\ given'[t] = n
      BY <1>6, <1>12, <1>14
    <2> QED
      <3>1. Protocol(t)' BY <2>1 DEF Protocol
      <3>2. Incr \in [type : {"none", "incr", "data"}, bytes : Seq(0..MaxData)] /\ Len(Incr.bytes) <= MaxPiece
        BY <1>3 DEF Incr
      <3>3. PropertiesTyped'
        BY <1>6, <1>12, <1>14, <3>2 DEF PropertiesTyped
      <3>4. \A u \in Transfer \ {t} : Alone(u) /\ CarriesAll(events', u)
        <4> SUFFICES ASSUME NEW u \in Transfer \ {t}
                     PROVE  Alone(u) /\ CarriesAll(events', u)
          OBVIOUS
        <4>1. CarriesAll(events', u)
          BY <1>2, <1>6, <1>7, <1>8
        <4>2. Asker(u) = "awesome" => <<"awesome", u[1]>> # <<Owner(t), t[1]>>
          BY DEF OneSideOnly, Asker, Owner
        <4> QED BY <1>6, <1>12, <4>1, <4>2 DEF Alone
      <3>5. \A u \in Transfer : Protocol(u)'
        BY <1>6, <1>8, <3>1, <3>4, OthersStay
      <3>6. masks' \subseteq XClient \X Window
        BY <1>2, <1>6, SMTT(30) DEF IInv, TypeOK, Transfer
      <3>7. \A u \in Transfer : put'[u] <= given'[u] /\ Len(property'[u].bytes) <= MaxPiece
        BY <1>3, <1>6, <1>12, <2>2, <3>2 DEF IInv, TypeOK
      <3>8. TypeOK'
        BY <1>6, <1>8, <1>16, <3>6, <3>7 DEF TypeOK, Queues, EventSet
      <3>9. MasksInv'
        <4> SUFFICES ASSUME NEW w \in Window \ AwesomeAsks, <<"awesome", w>> \in masks'
                     PROVE  w \in AwesomeOwns /\ \E u \in Transfer : u[1] = w /\ state'[u] = "sending"
          BY DEF MasksInv
        <4>1. CASE <<"awesome", w>> \in masks
          <5>1. PICK u \in Transfer : w \in AwesomeOwns /\ u[1] = w /\ state[u] = "sending"
            BY <4>1 DEF IInv, MasksInv
          <5> QED BY <1>4, <1>6, <1>12, <5>1
        <4>2. CASE <<"awesome", w>> = <<Owner(t), t[1]>>
          BY <1>6, <1>12, <1>14, <4>2 DEF Owner
        <4> QED BY <1>6, <4>1, <4>2
      <3> QED BY <3>3, <3>5, <3>8, <3>9 DEF IInv
  <1>15. CASE ~incr
    <2>1. property'[t] = Data(Bytes(1, n)) /\ put'[t] = n /\ given'[t] = n /\ state'[t] = "done"
      BY <1>6, <1>12, <1>15
    <2>2. Protocol(t)'
      BY <1>13, <2>1 DEF Protocol, Whole
    <2>3. Data(Bytes(1, n)) \in [type : {"none", "incr", "data"}, bytes : Seq(0..MaxData)]
          /\ Len(Data(Bytes(1, n)).bytes) <= MaxPiece
      <3>1. Bytes(1, n) \in Seq(0..n) /\ Len(Bytes(1, n)) = n /\ 0..n \subseteq 0..MaxData
        BY <1>3, FirstBytes
      <3>2. Bytes(1, n) \in Seq(0..MaxData)
        BY <3>1, SeqMonotonic
      <3> QED BY <1>3, <1>15, <3>1, <3>2 DEF Data
    <2>4. PropertiesTyped'
      BY <1>6, <1>12, <1>15, <2>3 DEF PropertiesTyped
    <2>5. \A u \in Transfer \ {t} : Alone(u) /\ CarriesAll(events', u)
      BY <1>2, <1>6, <1>7, <1>8, <1>12, <1>15 DEF Alone
    <2>6. \A u \in Transfer : Protocol(u)'
      BY <1>6, <1>8, <2>2, <2>5, OthersStay
    <2>7. \A u \in Transfer : put'[u] <= given'[u] /\ Len(property'[u].bytes) <= MaxPiece
      BY <1>3, <1>6, <1>12, <2>1, <2>3 DEF IInv, TypeOK
    <2>8. TypeOK'
      <3>2. masks' \subseteq XClient \X Window
        BY <1>6, <1>15 DEF IInv, TypeOK
      <3> QED BY <1>6, <1>8, <1>16, <2>7, <3>2 DEF TypeOK, Queues, EventSet
    <2>9. MasksInv'
      BY <1>4, <1>6, <1>12, <1>15 DEF IInv, MasksInv
    <2> QED BY <2>4, <2>6, <2>8, <2>9 DEF IInv
  <1> QED BY <1>14, <1>15
\* A client handles an event, and the server tells of a property that changes.
LEMMA HandledTold ==
    ASSUME IInv, NEW c \in XClient, events[c] # <<>>,
           NEW type \in EventTypes, NEW t \in Transfer, NEW selected,
           NEW heard, heard = Told(Handled(c), selected, Event(type, t))
    PROVE  /\ heard \in Queues
           /\ \A u \in Transfer \ {t} : CarriesAll(heard, u)
           /\ \A d \in XClient, other \in EventTypes :
                other # type /\ Lacks(Handled(c)[d], other, t) => Lacks(heard[d], other, t)
           /\ \A d \in XClient : Lacks(Handled(c)[d], type, t) => Single(heard[d], type, t)
  <1>1. /\ Handled(c) \in Queues
        /\ \A u : CarriesAll(Handled(c), u)
    BY QueuesTyped, HandledFacts
  <1>2. PICK queues \in Queues : queues = Handled(c)
    BY <1>1
  <1>3. heard = Told(queues, selected, Event(type, t))
    BY <1>2
  <1>4. heard \in Queues
    BY <1>3, ToldTyped
  <1>5. ASSUME NEW u \in Transfer \ {t}
        PROVE  CarriesAll(heard, u)
    <2>1. u # t /\ CarriesAll(queues, u)
      BY <1>1, <1>2
    <2> QED BY <1>3, <2>1, ToldCarries
  <1>6. \A d \in XClient : Tells(queues[d], heard[d], type, t)
    BY <1>3, ToldKeeps
  <1>7. \A d \in XClient, other \in EventTypes :
          other # type /\ Lacks(queues[d], other, t) => Lacks(heard[d], other, t)
    BY <1>6 DEF Tells
  <1>8. \A d \in XClient : Lacks(queues[d], type, t) => Single(heard[d], type, t)
    BY <1>6 DEF Tells
  <1> QED BY <1>2, <1>4, <1>5, <1>7, <1>8

\* What a queue lacks it still lacks when a client has handled an event.
LEMMA HandledLacks ==
    ASSUME IInv, NEW c \in XClient, events[c] # <<>>, NEW t \in Transfer,
           NEW d \in XClient, NEW other \in EventTypes, Lacks(events[d], other, t)
    PROVE  Lacks(Handled(c)[d], other, t)
  <1>1. /\ events[d] \in Seq(EventSet)
        /\ Handled(c)[d] \in Seq(EventSet) /\ Carries(events[d], Handled(c)[d], t)
    BY QueuesTyped, HandledFacts DEF CarriesAll, Queues
  <1> QED BY <1>1, CarriesKeeps

\* A single event has been handled.
LEMMA HandledGone ==
    ASSUME IInv, NEW c \in XClient, events[c] # <<>>, NEW t \in Transfer,
           NEW type \in EventTypes, Head(events[c]) = Event(type, t)
    PROVE  /\ Single(events[c], type, t) => Lacks(Handled(c)[c], type, t)
           /\ type = "notify" /\ NotifyIsLast(events[c], t) => Lacks(Handled(c)[c], "new", t)
  BY QueuesTyped, HandledFacts

-----------------------------------------------------------------------------
(* The owner writes a piece.                                               *)

\* Only a transfer whose next piece is wanted goes on.
LEMMA ContinueStage ==
    ASSUME IInv, NEW t \in Transfer, events[Owner(t)] # <<>>,
           Head(events[Owner(t)]) = Event("deleted", t), state[t] = "sending"
    PROVE  Wanted(t) /\ Lacks(Handled(Owner(t))[Owner(t)], "deleted", t)
  <1>1. Owner(t) \in XClient /\ "deleted" \in EventTypes
    BY Sides DEF EventTypes
  <1>2. ~Lacks(events[Owner(t)], "deleted", t)
    BY <1>1, HeadIsThere
  <1>3. Wanted(t)
    BY <1>2 DEF IInv, Protocol, Idle, Requested, Untouched, Rejected, Refused, Announced, Whole,
                Offered, Closing, Over
  <1> QED BY <1>1, <1>3, HandledGone DEF Wanted

\* Whatever is written, the queues and the other transfers are as they should be.
LEMMA WriteKeeps ==
    ASSUME IInv, NEW t \in Transfer, events[Owner(t)] # <<>>,
           NEW bytes \in Seq(0..MaxData), Len(bytes) <= MaxPiece,
           Change(t, Data(bytes), Handled(Owner(t)), masks),
           masks' \subseteq masks,
           NEW total \in 0..MaxData, NEW written \in 0..MaxData, written <= total,
           given' = [given EXCEPT ![t] = total], put' = [put EXCEPT ![t] = written],
           more' \in [Transfer -> BOOLEAN],
           NEW next \in {"sending", "done"}, state' = [state EXCEPT ![t] = next],
           UNCHANGED askerVars, Protocol(t)', MasksInv'
    PROVE  IInv'
  <1>1. Owner(t) \in XClient /\ "new" \in EventTypes
    BY Sides DEF EventTypes
  <1>2. PICK heard : heard = Told(Handled(Owner(t)), masks, Event("new", t))
    OBVIOUS
  <1>3. events' = heard /\ property' = [property EXCEPT ![t] = Data(bytes)]
    BY <1>2 DEF Change
  <1>4. heard \in Queues /\ \A u \in Transfer \ {t} : CarriesAll(heard, u)
    BY <1>1, <1>2, HandledTold
  <1>5. /\ asker \in [Transfer -> {"idle", "asked", "reading", "refused", "done"}]
        /\ property \in [Transfer -> [type : {"none", "incr", "data"}, bytes : Seq(0..MaxData)]]
        /\ state \in [Transfer -> {"none", "sending", "done"}]
        /\ given \in [Transfer -> 0..MaxData] /\ put \in [Transfer -> 0..MaxData]
    BY DEF IInv, TypeOK, PropertiesTyped
  <1>6. \A u \in Transfer \ {t} : Alone(u) /\ CarriesAll(events', u)
    BY <1>3, <1>4, <1>5 DEF Alone, askerVars
  <1>7. \A u \in Transfer : Protocol(u)'
    BY <1>3, <1>4, <1>6, OthersStay
  <1>8. Data(bytes) \in [type : {"none", "incr", "data"}, bytes : Seq(0..MaxData)]
        /\ Data(bytes).bytes = bytes
    BY DEF Data
  <1>9. PropertiesTyped'
    BY <1>3, <1>5, <1>8 DEF PropertiesTyped
  <1>10. \A u \in Transfer : put'[u] <= given'[u] /\ Len(property'[u].bytes) <= MaxPiece
    BY <1>3, <1>5, <1>8 DEF IInv, TypeOK
  <1>11. /\ state' \in [Transfer -> {"none", "sending", "done"}]
         /\ given' \in [Transfer -> 0..MaxData] /\ put' \in [Transfer -> 0..MaxData]
         /\ masks' \subseteq XClient \X Window
         /\ asker' \in [Transfer -> {"idle", "asked", "reading", "refused", "done"}]
         /\ got' \in [Transfer -> Seq(0..MaxData)]
    BY <1>5 DEF IInv, TypeOK, askerVars
  <1>12. TypeOK'
    BY <1>3, <1>4, <1>10, <1>11 DEF TypeOK, Queues, EventSet
  <1> QED BY <1>7, <1>9, <1>12 DEF IInv

\* The piece that comes next is one the asker has not got.
LEMMA PieceFacts ==
    ASSUME IInv, NEW t \in Transfer, NEW total \in Nat, put[t] < total, total <= MaxData
    PROVE  /\ put[t] \in Nat
           /\ Len(Piece(t, total)) \in 1..MaxPiece
           /\ put[t] + Len(Piece(t, total)) <= total
           /\ Piece(t, total) = Bytes(put[t] + 1, put[t] + Len(Piece(t, total)))
           /\ Piece(t, total) \in Seq(0..MaxData)
  <1>1. put[t] \in Nat /\ MaxData \in Nat /\ MaxPiece \in Nat /\ MaxPiece > 0
    BY SelectionAssumption DEF IInv, TypeOK
  <1>2. PICK last \in Nat : last = Smaller(put[t] + MaxPiece, total)
    BY <1>1, SmallerFacts
  <1>3. last <= put[t] + MaxPiece /\ last <= total /\ last > put[t]
    BY <1>1, <1>2 DEF Smaller
  <1>4. /\ Piece(t, total) = Bytes(put[t] + 1, last)
        /\ Piece(t, total) \in Seq(0..last) /\ Len(Piece(t, total)) = last - put[t]
    <2>1. Piece(t, total) = Bytes(put[t] + 1, last)
      BY <1>2 DEF Piece
    <2>2. put[t] <= last
      BY <1>1, <1>3
    <2>3. Bytes(put[t] + 1, last) \in Seq(0..last) /\ Len(Bytes(put[t] + 1, last)) = last - put[t]
      BY <1>1, <2>2, NextBytes, Zenon
    <2> QED BY <2>1, <2>3
  <1>5. Piece(t, total) \in Seq(0..MaxData)
    BY <1>1, <1>3, <1>4, SeqMonotonic
  <1>6. put[t] + Len(Piece(t, total)) = last
    BY <1>1, <1>4
  <1>7. Len(Piece(t, total)) \in 1..MaxPiece
    BY <1>1, <1>3, <1>4
  <1> QED BY <1>1, <1>3, <1>4, <1>5, <1>6, <1>7

LEMMA WritePieceKeeps ==
    ASSUME IInv, NEW t \in Transfer, events[Owner(t)] # <<>>,
           Head(events[Owner(t)]) = Event("deleted", t), state[t] = "sending",
           NEW total \in Nat, put[t] < total, total <= MaxData,
           given' = [given EXCEPT ![t] = total], more' \in [Transfer -> BOOLEAN],
           WritePiece(t, total), UNCHANGED askerVars
    PROVE  IInv'
  <1> DEFINE piece == Piece(t, total)
  <1>1. /\ put[t] \in Nat
        /\ Len(piece) \in 1..MaxPiece /\ put[t] + Len(piece) <= total
        /\ piece = Bytes(put[t] + 1, put[t] + Len(piece))
        /\ piece \in Seq(0..MaxData)
    BY PieceFacts
  <1>2. /\ Change(t, Data(piece), Handled(Owner(t)), masks)
        /\ put' = [put EXCEPT ![t] = put[t] + Len(piece)] /\ state' = state /\ masks' = masks
    BY DEF WritePiece
  <1> HIDE DEF piece
  <1>3. Wanted(t) /\ Lacks(Handled(Owner(t))[Owner(t)], "deleted", t)
    BY ContinueStage
  <1>4. Reading(t) /\ got[t] = Bytes(1, put[t]) /\ Lacks(events[Asker(t)], "new", t)
    BY <1>3 DEF Wanted
  <1>5. PICK heard : heard = Told(Handled(Owner(t)), masks, Event("new", t))
    OBVIOUS
  <1>6. events' = heard /\ property' = [property EXCEPT ![t] = Data(piece)]
    BY <1>2, <1>5 DEF Change
  <1>7. Owner(t) \in XClient /\ Asker(t) \in XClient /\ EventTypes = {"request", "refused", "notify", "new", "deleted"}
    BY Sides DEF EventTypes
  <1>8. /\ heard \in Queues
        /\ \A d \in XClient, other \in EventTypes :
             other # "new" /\ Lacks(Handled(Owner(t))[d], other, t) => Lacks(heard[d], other, t)
        /\ \A d \in XClient : Lacks(Handled(Owner(t))[d], "new", t) => Single(heard[d], "new", t)
    BY <1>5, <1>7, HandledTold
  <1>9. \A d \in XClient, other \in EventTypes :
             Lacks(events[d], other, t) => Lacks(Handled(Owner(t))[d], other, t)
    BY <1>7, HandledLacks
  <1>10. Reading(t)'
    BY <1>4, <1>6, <1>7, <1>8, <1>9 DEF Reading, NotRequested, askerVars
  <1>11. Lacks(events'[Owner(t)], "deleted", t) /\ Single(events'[Asker(t)], "new", t)
    BY <1>3, <1>4, <1>6, <1>7, <1>8, <1>9
  <1>12. Len(got[t]) = put[t]
    BY <1>1, <1>4, FirstBytes
  <1>13. property'[t] = Data(piece) /\ put'[t] = put[t] + Len(piece) /\ got' = got
    BY <1>2, <1>6 DEF IInv, TypeOK, PropertiesTyped, askerVars
  <1>14. Offered(t)'
    BY <1>1, <1>2, <1>4, <1>10, <1>11, <1>12, <1>13 DEF Offered
  <1>15. Protocol(t)'
    BY <1>14 DEF Protocol
  <1>16. MasksInv'
    BY <1>2 DEF IInv, MasksInv
  <1>17. /\ total \in 0..MaxData /\ put[t] + Len(piece) \in 0..MaxData /\ put[t] + Len(piece) <= total
         /\ Len(piece) <= MaxPiece
    BY <1>1, SelectionAssumption
  <1>18. state' = [state EXCEPT ![t] = "sending"] /\ masks' \subseteq masks
    BY <1>2 DEF IInv, TypeOK
  <1> QED
    BY <1>1, <1>2, <1>15, <1>16, <1>17, <1>18, WriteKeeps

LEMMA EndTransferKeeps ==
    ASSUME IInv, NEW t \in Transfer, events[Owner(t)] # <<>>,
           Head(events[Owner(t)]) = Event("deleted", t), state[t] = "sending",
           put[t] = given[t], EndTransfer(t), UNCHANGED askerVars
    PROVE  IInv'
  <1>1. /\ Change(t, Data(<<>>), Handled(Owner(t)), masks)
        /\ masks' = masks \ {<<Owner(t), t[1]>>}
        /\ state' = [state EXCEPT ![t] = "done"]
        /\ more' = more /\ given' = given /\ put' = put /\ asker' = asker /\ got' = got
    BY DEF EndTransfer, askerVars
  <1>2. Wanted(t)
    BY ContinueStage
  <1>3. Reading(t) /\ got[t] = Bytes(1, put[t])
    BY <1>2 DEF Wanted
  <1>4. PICK heard : heard = Told(Handled(Owner(t)), masks, Event("new", t))
    OBVIOUS
  <1>5. events' = heard /\ property' = [property EXCEPT ![t] = Data(<<>>)]
    BY <1>1, <1>4 DEF Change
  <1>6. Owner(t) \in XClient /\ Asker(t) \in XClient /\ EventTypes = {"request", "refused", "notify", "new", "deleted"}
    BY Sides DEF EventTypes
  <1>7. \A d \in XClient, other \in EventTypes :
             other # "new" /\ Lacks(Handled(Owner(t))[d], other, t) => Lacks(heard[d], other, t)
    BY <1>4, <1>6, HandledTold
  <1>8. \A d \in XClient, other \in EventTypes :
             Lacks(events[d], other, t) => Lacks(Handled(Owner(t))[d], other, t)
    BY <1>6, HandledLacks
  <1>9. Reading(t)'
    BY <1>1, <1>3, <1>5, <1>6, <1>7, <1>8 DEF Reading, NotRequested
  <1>10. property'[t] = Data(<<>>) /\ state'[t] = "done"
    BY <1>1, <1>5 DEF IInv, TypeOK, PropertiesTyped
  <1>11. Protocol(t)'
    BY <1>1, <1>3, <1>9, <1>10 DEF Protocol, Closing
  <1>12. MasksInv'
    <2> SUFFICES ASSUME NEW w \in Window \ AwesomeAsks, <<"awesome", w>> \in masks'
                 PROVE  w \in AwesomeOwns /\ \E u \in Transfer : u[1] = w /\ state'[u] = "sending"
      BY DEF MasksInv
    <2>1. PICK u \in Transfer : w \in AwesomeOwns /\ u[1] = w /\ state[u] = "sending"
      BY <1>1 DEF IInv, MasksInv
    <2>2. u # t
      BY <1>1, <2>1 DEF Owner
    <2> QED BY <1>1, <2>1, <2>2 DEF IInv, TypeOK
  <1>13. /\ given[t] \in 0..MaxData /\ put[t] \in 0..MaxData /\ put[t] <= given[t]
         /\ given' = [given EXCEPT ![t] = given[t]] /\ put' = [put EXCEPT ![t] = put[t]]
         /\ more' \in [Transfer -> BOOLEAN] /\ masks' \subseteq masks
         /\ <<>> \in Seq(0..MaxData) /\ Len(<<>>) <= MaxPiece
    BY <1>1, SelectionAssumption DEF IInv, TypeOK
  <1> QED
    BY <1>1, <1>11, <1>12, <1>13, WriteKeeps

LEMMA ContinueKeeps ==
    ASSUME IInv, NEW t \in Transfer, events[Owner(t)] # <<>>,
           Head(events[Owner(t)]) = Event("deleted", t), state[t] = "sending",
           Continue(t), UNCHANGED askerVars
    PROVE  IInv'
  <1>1. /\ put[t] \in Nat /\ given[t] \in Nat /\ given[t] <= MaxData /\ MaxData \in Nat /\ MaxSend \in Nat
        /\ given = [given EXCEPT ![t] = given[t]] /\ more \in [Transfer -> BOOLEAN]
    BY SelectionAssumption DEF IInv, TypeOK
  <1>2. CASE put[t] < given[t] /\ WritePiece(t, given[t]) /\ UNCHANGED <<more, given>>
    <2>1. given' = [given EXCEPT ![t] = given[t]] /\ more' \in [Transfer -> BOOLEAN]
      BY <1>1, <1>2
    <2> QED BY <1>1, <1>2, <2>1, WritePieceKeeps
  <1>3. CASE /\ put[t] = given[t] /\ more[t]
             /\ \E n \in 1..Smaller(MaxSend, MaxData - given[t]), continue \in BOOLEAN :
                  /\ given' = [given EXCEPT ![t] = @ + n]
                  /\ more' = [more EXCEPT ![t] = continue]
                  /\ WritePiece(t, given[t] + n)
    <2>1. PICK n \in 1..Smaller(MaxSend, MaxData - given[t]), continue \in BOOLEAN :
                  /\ given' = [given EXCEPT ![t] = @ + n]
                  /\ more' = [more EXCEPT ![t] = continue]
                  /\ WritePiece(t, given[t] + n)
      BY <1>3
    <2>2. MaxData - given[t] \in Nat
      BY <1>1
    <2>3. Smaller(MaxSend, MaxData - given[t]) \in Nat /\ Smaller(MaxSend, MaxData - given[t]) <= MaxData - given[t]
      BY <1>1, <2>2, SmallerFacts
    <2>4. given[t] + n \in Nat /\ put[t] < given[t] + n /\ given[t] + n <= MaxData
      BY <1>1, <1>3, <2>2, <2>3
    <2>5. given' = [given EXCEPT ![t] = given[t] + n] /\ more' \in [Transfer -> BOOLEAN]
      BY <1>1, <2>1
    <2> QED BY <2>1, <2>4, <2>5, WritePieceKeeps
  <1>4. CASE put[t] = given[t] /\ EndTransfer(t)
    BY <1>4, EndTransferKeeps
  <1> QED BY <1>2, <1>3, <1>4 DEF Continue
-----------------------------------------------------------------------------
(* The asker looks at the property.                                        *)

\* The queues after the asker has read the property.
LEMMA ReadQueues ==
    ASSUME IInv, NEW t \in Transfer, events[Asker(t)] # <<>>,
           NEW selected, GetAndDelete(t, Handled(Asker(t)), selected)
    PROVE  /\ events' \in Queues
           /\ \A u \in Transfer \ {t} : CarriesAll(events', u)
           /\ \A d \in XClient, other \in EventTypes :
                other # "deleted" /\ Lacks(Handled(Asker(t))[d], other, t) => Lacks(events'[d], other, t)
           /\ property[t] # Missing =>
                \A d \in XClient : Lacks(Handled(Asker(t))[d], "deleted", t) => Single(events'[d], "deleted", t)
  <1>1. Asker(t) \in XClient /\ "deleted" \in EventTypes
    BY Sides DEF EventTypes
  <1>2. CASE property[t] = Missing
    <2>1. events' = Handled(Asker(t))
      BY <1>2 DEF GetAndDelete
    <2>2. events' \in Queues /\ \A u : CarriesAll(events', u)
      BY <1>1, <2>1, QueuesTyped, HandledFacts
    <2> QED BY <1>2, <2>1, <2>2
  <1>3. CASE property[t] # Missing
    <2>1. PICK heard : heard = Told(Handled(Asker(t)), selected, Event("deleted", t))
      OBVIOUS
    <2>2. events' = heard
      BY <1>3, <2>1 DEF GetAndDelete
    <2>3. /\ heard \in Queues
          /\ \A u \in Transfer \ {t} : CarriesAll(heard, u)
          /\ \A d \in XClient, other \in EventTypes :
                other # "deleted" /\ Lacks(Handled(Asker(t))[d], other, t) => Lacks(heard[d], other, t)
          /\ \A d \in XClient : Lacks(Handled(Asker(t))[d], "deleted", t) => Single(heard[d], "deleted", t)
      BY <1>1, <2>1, HandledTold
    <2> QED BY <2>2, <2>3
  <1> QED BY <1>2, <1>3

\* A getter's window has one property, so that what awesome selects for concerns
\* one transfer only.
LEMMA OneProperty ==
    ASSUME NEW t \in Transfer, NEW u \in Transfer, Asker(t) = "awesome", t[1] = u[1]
    PROVE  t = u
  BY SelectionAssumption DEF Transfer, Asker

\* The asker has selected for the events on its window, or had done so before.
Listens(t) ==
    \/ masks' = masks
    \/ Asker(t) = "awesome" /\ masks' = masks \cup {<<"awesome", t[1]>>}

\* Whatever is read, the other transfers are as they should be.
LEMMA ReadKeeps ==
    ASSUME IInv, NEW t \in Transfer, events[Asker(t)] # <<>>,
           GetAndDelete(t, Handled(Asker(t)), masks'), Listens(t),
           NEW next \in {"asked", "reading", "done"}, asker' = [asker EXCEPT ![t] = next],
           NEW bytes \in Seq(0..MaxData), got' = [got EXCEPT ![t] = bytes],
           UNCHANGED ownerVars, Protocol(t)'
    PROVE  IInv'
  <1>1. events' \in Queues /\ \A u \in Transfer \ {t} : CarriesAll(events', u)
    BY ReadQueues
  <1>2. /\ property' = [property EXCEPT ![t] = Missing]
        /\ state' = state /\ more' = more /\ given' = given /\ put' = put
    BY DEF GetAndDelete, ownerVars
  <1>3. /\ asker \in [Transfer -> {"idle", "asked", "reading", "refused", "done"}]
        /\ got \in [Transfer -> Seq(0..MaxData)]
        /\ property \in [Transfer -> [type : {"none", "incr", "data"}, bytes : Seq(0..MaxData)]]
    BY DEF IInv, TypeOK, PropertiesTyped
  <1>4. ASSUME NEW u \in Transfer \ {t}
        PROVE  Alone(u)
    <2>1. Asker(u) = "awesome" /\ <<"awesome", u[1]>> \notin masks => <<"awesome", u[1]>> \notin masks'
      <3> SUFFICES ASSUME Asker(u) = "awesome", <<"awesome", u[1]>> \notin masks,
                          <<"awesome", u[1]>> \in masks'
                   PROVE  FALSE
        OBVIOUS
      <3>1. Asker(t) = "awesome" /\ t[1] = u[1]
        BY DEF Listens
      <3> QED BY <3>1, OneProperty
    <2> QED BY <1>2, <1>3, <2>1 DEF Alone
  <1>5. \A u \in Transfer : Protocol(u)'
    BY <1>1, <1>4, OthersStay
  <1>6. /\ Missing \in [type : {"none", "incr", "data"}, bytes : Seq(0..MaxData)]
        /\ Len(Missing.bytes) <= MaxPiece
    <2>1. <<>> \in Seq(0..MaxData) /\ Len(<<>>) = 0
      OBVIOUS
    <2> QED BY <2>1, SelectionAssumption DEF Missing
  <1>7. PropertiesTyped'
    BY <1>2, <1>3, <1>6 DEF PropertiesTyped
  <1>8. \A u \in Transfer : put'[u] <= given'[u] /\ Len(property'[u].bytes) <= MaxPiece
    BY <1>2, <1>3, <1>6 DEF IInv, TypeOK
  <1>9. masks' \subseteq XClient \X Window
    BY DEF IInv, TypeOK, Listens, XClient, Transfer
  <1>10. /\ asker' \in [Transfer -> {"idle", "asked", "reading", "refused", "done"}]
         /\ got' \in [Transfer -> Seq(0..MaxData)]
    BY <1>3
  <1>11. TypeOK'
    BY <1>1, <1>2, <1>8, <1>9, <1>10 DEF IInv, TypeOK, Queues, EventSet
  <1>12. MasksInv'
    <2> SUFFICES ASSUME NEW w \in Window \ AwesomeAsks, <<"awesome", w>> \in masks'
                 PROVE  w \in AwesomeOwns /\ \E u \in Transfer : u[1] = w /\ state'[u] = "sending"
      BY DEF MasksInv
    <2>1. <<"awesome", w>> \in masks
      BY DEF Listens, Asker
    <2> QED BY <1>2, <2>1 DEF IInv, MasksInv
  <1> QED BY <1>5, <1>7, <1>11, <1>12 DEF IInv

\* The notification is about the announcement of pieces, or about everything.
LEMMA NotifyStage ==
    ASSUME IInv, NEW t \in Transfer, events[Asker(t)] # <<>>,
           Head(events[Asker(t)]) = Event("notify", t), asker[t] = "asked"
    PROVE  /\ Announced(t) \/ Whole(t)
           /\ Lacks(Handled(Asker(t))[Asker(t)], "notify", t)
           /\ Lacks(Handled(Asker(t))[Asker(t)], "new", t)
  <1>1. Asker(t) \in XClient /\ "notify" \in EventTypes
    BY Sides DEF EventTypes
  <1>2. ~Lacks(events[Asker(t)], "notify", t)
    BY <1>1, HeadIsThere
  <1>3. Announced(t) \/ Whole(t)
    BY <1>2 DEF IInv, Protocol, Idle, Requested, Untouched, Rejected, Refused,
                Wanted, Offered, Closing, Reading, Over
  <1>4. Single(events[Asker(t)], "notify", t) /\ NotifyIsLast(events[Asker(t)], t)
    BY <1>3 DEF Announced, Whole, Notified
  <1> QED BY <1>1, <1>3, <1>4, HandledGone

\* The event for a new value is about a piece, or about the end.
LEMMA NewStage ==
    ASSUME IInv, NEW t \in Transfer, events[Asker(t)] # <<>>,
           Head(events[Asker(t)]) = Event("new", t), Expects(Asker(t), t, "new")
    PROVE  (Offered(t) /\ Lacks(Handled(Asker(t))[Asker(t)], "new", t)) \/ Closing(t)
  <1>1. Asker(t) \in XClient /\ "new" \in EventTypes
    BY Sides DEF EventTypes
  <1>2. ~Lacks(events[Asker(t)], "new", t)
    BY <1>1, HeadIsThere
  <1>3. asker[t] = IF Asker(t) = "awesome" THEN "asked" ELSE "reading"
    BY DEF Expects
  <1>4. CASE Asker(t) = "awesome"
    <2>1. ~StillDeaf(t)
      BY <1>2, <1>4 DEF StillDeaf
    <2>2. Offered(t) \/ Closing(t)
      BY <1>2, <1>3, <1>4, <2>1 DEF IInv, Protocol, Idle, Requested, Untouched, Rejected, Refused,
                Announced, Whole, Notified, Wanted, Over
    <2> QED BY <1>1, <2>2, HandledGone DEF Offered
  <1>5. CASE Asker(t) # "awesome"
    <2>1. asker[t] = "reading"
      BY <1>3, <1>5
    <2>2. Offered(t) \/ Closing(t)
      BY <1>2, <2>1 DEF IInv, Protocol, Idle, Requested, Untouched, Rejected, Refused,
                Announced, Whole, Notified, Wanted, Over
    <2> QED BY <1>1, <2>2, HandledGone DEF Offered
  <1> QED BY <1>4, <1>5

\* Concatenation with no bytes.
LEMMA NoBytes ==
    ASSUME NEW s \in Seq(0..MaxData)
    PROVE  s \o <<>> = s /\ <<>> \o s = s
  OBVIOUS

\* The asker reads the announcement, and asks for the first piece by deleting it.
LEMMA AnnouncementKeeps ==
    ASSUME IInv, NEW t \in Transfer, events[Asker(t)] # <<>>,
           Head(events[Asker(t)]) = Event("notify", t), asker[t] = "asked", Announced(t),
           GetAndDelete(t, Handled(Asker(t)), masks'), Listens(t),
           asker' = [asker EXCEPT ![t] = IF Asker(t) = "awesome" THEN "asked" ELSE "reading"],
           got' = got, UNCHANGED ownerVars
    PROVE  IInv'
  <1>1. Asker(t) \in XClient /\ Owner(t) \in XClient /\ EventTypes = {"request", "refused", "notify", "new", "deleted"}
    BY Sides DEF EventTypes
  <1>2. /\ Lacks(Handled(Asker(t))[Asker(t)], "notify", t)
        /\ Lacks(Handled(Asker(t))[Asker(t)], "new", t)
    BY NotifyStage
  <1>3. /\ \A d \in XClient, other \in EventTypes :
             other # "deleted" /\ Lacks(Handled(Asker(t))[d], other, t) => Lacks(events'[d], other, t)
        /\ \A d \in XClient, other \in EventTypes :
             Lacks(events[d], other, t) => Lacks(Handled(Asker(t))[d], other, t)
    BY <1>1, ReadQueues, HandledLacks
  <1>4. /\ state[t] = "sending" /\ property[t] = Incr /\ put[t] = 0 /\ got[t] = <<>>
        /\ Lacks(events[Owner(t)], "deleted", t) /\ Lacks(events[Asker(t)], "refused", t)
        /\ NotRequested(t)
    BY DEF Announced, Notified
  <1>5. Single(events'[Owner(t)], "deleted", t)
    <2>1. property[t] # Missing
      BY <1>4 DEF Missing, Incr
    <2> QED BY <1>1, <1>3, <1>4, <2>1, ReadQueues
  <1>6. /\ property' = [property EXCEPT ![t] = Missing]
        /\ state' = state /\ given' = given /\ put' = put
    BY DEF GetAndDelete, ownerVars
  <1>7. asker'[t] = (IF Asker(t) = "awesome" THEN "asked" ELSE "reading") /\ property'[t] = Missing
    BY <1>6 DEF IInv, TypeOK, PropertiesTyped
  <1>8. Reading(t)'
    BY <1>1, <1>2, <1>3, <1>4, <1>7 DEF Reading, NotRequested
  <1>9. Bytes(1, 0) = <<>>
    BY FirstBytes
  <1>10. Lacks(events'[Asker(t)], "new", t)
    BY <1>1, <1>2, <1>3
  <1>11. Protocol(t)'
    BY <1>4, <1>5, <1>6, <1>7, <1>8, <1>9, <1>10 DEF Wanted, Protocol
  <1>12. got' = [got EXCEPT ![t] = got[t]] /\ got[t] \in Seq(0..MaxData)
    BY DEF IInv, TypeOK
  <1> QED BY <1>11, <1>12, ReadKeeps

\* The asker gets everything at once.
LEMMA WholeKeeps ==
    ASSUME IInv, NEW t \in Transfer, events[Asker(t)] # <<>>, Whole(t),
           GetAndDelete(t, Handled(Asker(t)), masks'), Listens(t),
           Receive(t, property[t].bytes, "done"), UNCHANGED ownerVars
    PROVE  IInv' /\ got'[t] = Bytes(1, given[t]) /\ asker' = [asker EXCEPT ![t] = "done"]
  <1>1. Asker(t) \in XClient /\ EventTypes = {"request", "refused", "notify", "new", "deleted"}
    BY Sides DEF EventTypes
  <1>2. /\ \A d \in XClient, other \in EventTypes :
             other # "deleted" /\ Lacks(Handled(Asker(t))[d], other, t) => Lacks(events'[d], other, t)
        /\ \A d \in XClient, other \in EventTypes :
             Lacks(events[d], other, t) => Lacks(Handled(Asker(t))[d], other, t)
    BY <1>1, ReadQueues, HandledLacks
  <1>3. /\ state[t] = "done" /\ got[t] = <<>> /\ property[t] = Data(Bytes(1, given[t])) /\ NotRequested(t)
    BY DEF Whole, Notified
  <1>4. /\ given[t] \in Nat /\ property[t].bytes \in Seq(0..MaxData)
    BY SelectionAssumption DEF IInv, TypeOK, PropertiesTyped
  <1>5. Bytes(1, given[t]) \in Seq(0..MaxData) /\ Len(Bytes(1, given[t])) = given[t]
    BY <1>3, <1>4, FirstBytes DEF Data
  <1>6. /\ got' = [got EXCEPT ![t] = Bytes(1, given[t])]
        /\ asker' = [asker EXCEPT ![t] = "done"]
    BY <1>3, <1>5 DEF Receive, Data
  <1>7. /\ got'[t] = Bytes(1, given[t]) /\ asker'[t] = "done"
        /\ state' = state /\ given' = given
    BY <1>6 DEF IInv, TypeOK, ownerVars
  <1>8. NotRequested(t)'
    BY <1>1, <1>2, <1>3 DEF NotRequested
  <1>9. Protocol(t)'
    BY <1>3, <1>5, <1>7, <1>8 DEF Over, Protocol
  <1>10. IInv'
    BY <1>5, <1>6, <1>9, ReadKeeps
  <1> QED BY <1>6, <1>7, <1>10

\* The asker gets a piece.
LEMMA PieceReadKeeps ==
    ASSUME IInv, NEW t \in Transfer, events[Asker(t)] # <<>>,
           Offered(t), Lacks(Handled(Asker(t))[Asker(t)], "new", t),
           GetAndDelete(t, Handled(Asker(t)), masks), masks' = masks,
           Receive(t, property[t].bytes, IF property[t].bytes = <<>> THEN "done"
                                         ELSE IF Asker(t) = "awesome" THEN "asked" ELSE "reading"),
           UNCHANGED ownerVars
    PROVE  /\ IInv' /\ asker' = asker
           /\ got' = [got EXCEPT ![t] = got[t] \o Bytes(Len(got[t]) + 1, put[t])]
  <1>1. Asker(t) \in XClient /\ Owner(t) \in XClient /\ EventTypes = {"request", "refused", "notify", "new", "deleted"}
    BY Sides DEF EventTypes
  <1>2. /\ \A d \in XClient, other \in EventTypes :
             other # "deleted" /\ Lacks(Handled(Asker(t))[d], other, t) => Lacks(events'[d], other, t)
        /\ \A d \in XClient, other \in EventTypes :
             Lacks(events[d], other, t) => Lacks(Handled(Asker(t))[d], other, t)
    BY <1>1, ReadQueues, HandledLacks
  <1>3. /\ Reading(t) /\ state[t] = "sending"
        /\ got[t] = Bytes(1, Len(got[t])) /\ Len(got[t]) < put[t]
        /\ property[t] = Data(Bytes(Len(got[t]) + 1, put[t]))
        /\ Lacks(events[Owner(t)], "deleted", t)
    BY DEF Offered
  <1>4. PICK m \in Nat : m = Len(got[t])
    BY DEF IInv, TypeOK
  <1>5. put[t] \in Nat /\ m < put[t] /\ property[t].bytes \in Seq(0..MaxData)
        /\ got[t] \in Seq(0..MaxData) /\ got[t] = Bytes(1, m)
        /\ property[t].bytes = Bytes(m + 1, put[t])
    BY <1>3, <1>4, SelectionAssumption DEF IInv, TypeOK, PropertiesTyped, Data
  <1>6. Len(Bytes(m + 1, put[t])) = put[t] - m /\ Bytes(1, m) \o Bytes(m + 1, put[t]) = Bytes(1, put[t])
    <2>1. m <= put[t]
      BY <1>5
    <2> QED BY <1>5, <2>1, NextBytes, BytesConcat, Zenon
  <1>7. property[t].bytes # <<>> /\ property[t] # Missing
    <2>1. Len(property[t].bytes) > 0
      BY <1>5, <1>6
    <2> QED BY <2>1 DEF Missing
  <1>8. got[t] \o property[t].bytes = Bytes(1, put[t]) /\ Bytes(1, put[t]) \in Seq(0..MaxData)
    <2>1. got[t] \o property[t].bytes \in Seq(0..MaxData)
      BY <1>5
    <2> QED BY <1>5, <1>6, <2>1
  <1>9. asker[t] = IF Asker(t) = "awesome" THEN "asked" ELSE "reading"
    BY <1>3 DEF Reading
  <1>10. /\ got' = [got EXCEPT ![t] = Bytes(1, put[t])]
         /\ asker' = [asker EXCEPT ![t] = asker[t]]
         /\ asker' = asker
    BY <1>7, <1>8, <1>9 DEF Receive, IInv, TypeOK
  <1>11. /\ property' = [property EXCEPT ![t] = Missing]
         /\ state' = state /\ given' = given /\ put' = put
    BY DEF GetAndDelete, ownerVars
  <1>12. got'[t] = Bytes(1, put[t]) /\ property'[t] = Missing
    BY <1>10, <1>11 DEF IInv, TypeOK, PropertiesTyped
  <1>13. Reading(t)'
    BY <1>1, <1>2, <1>3, <1>10 DEF Reading, NotRequested
  <1>14. Single(events'[Owner(t)], "deleted", t)
    BY <1>1, <1>2, <1>3, <1>7, ReadQueues
  <1>15. Lacks(events'[Asker(t)], "new", t)
    BY <1>1, <1>2
  <1>16. Protocol(t)'
    BY <1>3, <1>11, <1>12, <1>13, <1>14, <1>15 DEF Wanted, Protocol
  <1>17. Listens(t) /\ GetAndDelete(t, Handled(Asker(t)), masks')
    BY DEF Listens
  <1>18. asker[t] \in {"asked", "reading", "done"}
    BY <1>9
  <1>19. IInv'
    BY <1>8, <1>10, <1>16, <1>17, <1>18, ReadKeeps
  <1> QED BY <1>4, <1>5, <1>8, <1>10, <1>19

\* The asker learns that there are no more pieces.
LEMMA ClosingKeeps ==
    ASSUME IInv, NEW t \in Transfer, events[Asker(t)] # <<>>, Closing(t),
           GetAndDelete(t, Handled(Asker(t)), masks), masks' = masks,
           NEW later, Receive(t, property[t].bytes, IF property[t].bytes = <<>> THEN "done" ELSE later),
           UNCHANGED ownerVars
    PROVE  /\ IInv' /\ got' = got /\ asker' = [asker EXCEPT ![t] = "done"]
           /\ Len(got[t]) = given[t]
  <1>1. Asker(t) \in XClient /\ EventTypes = {"request", "refused", "notify", "new", "deleted"}
    BY Sides DEF EventTypes
  <1>2. /\ \A d \in XClient, other \in EventTypes :
             other # "deleted" /\ Lacks(Handled(Asker(t))[d], other, t) => Lacks(events'[d], other, t)
        /\ \A d \in XClient, other \in EventTypes :
             Lacks(events[d], other, t) => Lacks(Handled(Asker(t))[d], other, t)
    BY <1>1, ReadQueues, HandledLacks
  <1>3. /\ state[t] = "done" /\ property[t].bytes = <<>> /\ put[t] = given[t] /\ got[t] = Bytes(1, put[t])
        /\ NotRequested(t)
    BY DEF Closing, Reading, Data
  <1>4. given[t] \in Nat /\ got[t] \in Seq(0..MaxData) /\ got[t] \o <<>> = got[t]
    BY NoBytes DEF IInv, TypeOK
  <1>5. Len(got[t]) = given[t]
    BY <1>3, <1>4, FirstBytes
  <1>6. /\ got' = [got EXCEPT ![t] = got[t]] /\ got' = got
        /\ asker' = [asker EXCEPT ![t] = "done"]
    BY <1>3, <1>4 DEF Receive, IInv, TypeOK
  <1>7. asker'[t] = "done" /\ state' = state /\ given' = given
    BY <1>6 DEF IInv, TypeOK, ownerVars
  <1>8. NotRequested(t)'
    BY <1>1, <1>2, <1>3 DEF NotRequested
  <1>9. Protocol(t)'
    BY <1>3, <1>5, <1>6, <1>7, <1>8 DEF Over, Protocol
  <1>10. Listens(t) /\ GetAndDelete(t, Handled(Asker(t)), masks')
    BY DEF Listens
  <1>11. IInv'
    BY <1>4, <1>6, <1>9, <1>10, ReadKeeps
  <1> QED BY <1>5, <1>6, <1>11
-----------------------------------------------------------------------------
(* Every step keeps the invariant, and is a step of the stream.            *)

AbstractStep == [Abstract!Next]_Abstract!vars

LEMMA Stutters ==
    ASSUME given' = given, got' = got, Ended' = Ended
    PROVE  AbstractStep
  BY DEF AbstractStep, Abstract!vars

LEMMA Gives ==
    ASSUME IInv, NEW t \in Transfer, t \notin Ended,
           NEW total \in Nat, given[t] < total, total <= MaxData,
           given' = [given EXCEPT ![t] = total], got' = got, Ended' = Ended
    PROVE  AbstractStep
  <1>1. given[t] \in Nat /\ MaxData \in Nat
    BY SelectionAssumption DEF IInv, TypeOK
  <1>2. total - given[t] \in 1..(MaxData - given[t]) /\ given[t] + (total - given[t]) = total
    BY <1>1
  <1>3. \E n \in 1..(MaxData - given[t]) : given' = [given EXCEPT ![t] = given[t] + n]
    <2>1. given' = [given EXCEPT ![t] = given[t] + (total - given[t])]
      BY <1>2
    <2> QED BY <1>2, <2>1
  <1>4. given[t] < MaxData
    BY <1>1
  <1>5. Abstract!Give(t)
    BY <1>3, <1>4 DEF Abstract!Give
  <1> QED BY <1>5 DEF AbstractStep, Abstract!Next

\* The end of a transfer for the asker.
LEMMA EndedGrows ==
    ASSUME IInv, NEW t \in Transfer, NEW next, asker' = [asker EXCEPT ![t] = next]
    PROVE  /\ next \in {"done", "refused"} => Ended' = Ended \cup {t}
           /\ next \notin {"done", "refused"} /\ t \notin Ended => Ended' = Ended
  BY DEF IInv, TypeOK, Ended

LEMMA Ends ==
    ASSUME IInv, NEW t \in Transfer, t \notin Ended,
           Ended' = Ended \cup {t}, got' = got, given' = given, Len(got[t]) = given[t]
    PROVE  AbstractStep
  <1>1. Abstract!End(t)
    BY DEF Abstract!End
  <1> QED BY <1>1 DEF AbstractStep, Abstract!Next

LEMMA GetsAndEnds ==
    ASSUME IInv, NEW t \in Transfer, t \notin Ended, got[t] = <<>>,
           Ended' = Ended \cup {t}, given' = given, got' = [got EXCEPT ![t] = got'[t]],
           got'[t] = Bytes(1, given[t])
    PROVE  AbstractStep
  <1>1. given[t] \in Nat /\ got[t] \in Seq(0..MaxData)
    BY SelectionAssumption DEF IInv, TypeOK
  <1>2. /\ Len(Bytes(1, given[t])) = given[t] /\ Bytes(1, given[t]) \in Seq(0..given[t])
        /\ given[t] = 0 => Bytes(1, given[t]) = <<>>
    BY <1>1, FirstBytes
  <1>3. Abstract!End(t)
    BY <1>2 DEF Abstract!End
  <1>4. CASE given[t] = 0
    <2>1. got' = got
      BY <1>1, <1>2, <1>4 DEF IInv, TypeOK
    <2> QED BY <1>3, <2>1 DEF AbstractStep, Abstract!Next
  <1>5. CASE given[t] > 0
    <2>1. Len(got[t]) = 0 /\ given[t] \in (Len(got[t]) + 1)..given[t]
      BY <1>1, <1>5
    <2>2. got[t] \o Abstract!Bytes(Len(got[t]) + 1, given[t]) = Bytes(1, given[t])
      <3>1. Abstract!Bytes(Len(got[t]) + 1, given[t]) = Bytes(1, given[t])
        BY <2>1 DEF Bytes, Abstract!Bytes
      <3>2. <<>> \o Bytes(1, given[t]) = Bytes(1, given[t])
        BY <1>2
      <3> QED BY <3>1, <3>2
    <2>3. Abstract!Get(t)
      BY <1>5, <2>1, <2>2 DEF Abstract!Get
    <2> QED BY <1>3, <2>3 DEF AbstractStep, Abstract!Next
  <1> QED BY <1>1, <1>4, <1>5

LEMMA Gets ==
    ASSUME IInv, NEW t \in Transfer, t \notin Ended, Len(got[t]) < put[t],
           Ended' = Ended, given' = given,
           got' = [got EXCEPT ![t] = got[t] \o Bytes(Len(got[t]) + 1, put[t])]
    PROVE  AbstractStep
  <1>1. put[t] \in Nat /\ given[t] \in Nat /\ put[t] <= given[t] /\ Len(got[t]) \in Nat
    BY SelectionAssumption DEF IInv, TypeOK
  <1>2. put[t] \in (Len(got[t]) + 1)..given[t] /\ Len(got[t]) < given[t]
    BY <1>1
  <1>3. Abstract!Get(t)
    BY <1>2 DEF Abstract!Get, Bytes, Abstract!Bytes
  <1> QED BY <1>3 DEF AbstractStep, Abstract!Next

LEMMA ReportStep ==
    ASSUME IInv, NEW c \in XClient, NEW t \in Transfer, NEW type \in {"notify", "refused", "new"},
           events[c] # <<>>, Head(events[c]) = Event(type, t), HandleReport(c, t, type)
    PROVE  IInv' /\ AbstractStep
  <1>1. UNCHANGED ownerVars /\ given' = given
    BY DEF HandleReport, ownerVars
  <1>2. CASE ~Expects(c, t, type) /\ events' = Handled(c) /\ UNCHANGED <<askerVars, property, masks>>
    <2>1. IInv'
      BY <1>1, <1>2, IgnoredKeeps
    <2>2. got' = got /\ Ended' = Ended
      BY <1>2 DEF Ended, askerVars
    <2> QED BY <1>1, <2>1, <2>2, Stutters
  <1>3. CASE Expects(c, t, type) /\ type = "refused" /\ Receive(t, <<>>, "refused")
             /\ events' = Handled(c) /\ UNCHANGED <<property, masks>>
    <2>1. c = Asker(t) /\ asker[t] = "asked"
      BY <1>3 DEF Expects
    <2>2. ~Lacks(events[c], "refused", t)
      BY <1>3, HeadIsThere
    <2>3. Rejected(t)
      BY <2>1, <2>2 DEF IInv, Protocol, Idle, Requested, Untouched, Refused, Announced, Whole, Notified,
                        Wanted, Offered, Closing, Reading, Over
    <2>4. state[t] = "done" /\ given[t] = 0 /\ got[t] = <<>> /\ NotRequested(t)
      BY <2>3 DEF Rejected
    <2>5. /\ got' = got /\ asker' = [asker EXCEPT ![t] = "refused"]
      BY <1>3, <2>4 DEF Receive, IInv, TypeOK
    <2>6. events \in Queues /\ events' \in Queues /\ \A u : CarriesAll(events', u)
      BY <1>3, QueuesTyped, HandledFacts
    <2>7. NotRequested(t)'
      BY <1>3, <2>4, HandledLacks DEF NotRequested, EventTypes
    <2>8. Protocol(t)'
      BY <1>1, <2>4, <2>5, <2>7 DEF Protocol, Refused, ownerVars, IInv, TypeOK
    <2>9. \A u \in Transfer \ {t} : Alone(u)
      BY <1>1, <1>3, <2>5 DEF Alone, ownerVars, IInv, TypeOK
    <2>10. \A u \in Transfer : Protocol(u)'
      BY <2>6, <2>8, <2>9, OthersStay
    <2>11. asker' \in [Transfer -> {"idle", "asked", "reading", "refused", "done"}]
      BY <2>5 DEF IInv, TypeOK
    <2>12. TypeOK' /\ PropertiesTyped' /\ MasksInv'
      <3>1. TypeOK'
        BY <1>1, <1>3, <2>5, <2>6, <2>11 DEF IInv, TypeOK, Queues, EventSet, ownerVars
      <3>2. PropertiesTyped' /\ MasksInv'
        BY <1>1, <1>3 DEF IInv, PropertiesTyped, MasksInv, ownerVars
      <3> QED BY <3>1, <3>2
    <2>13. t \notin Ended /\ Ended' = Ended \cup {t}
      BY <2>1, <2>5, EndedGrows DEF Ended
    <2>14. AbstractStep
      BY <1>1, <2>4, <2>5, <2>13, Ends
    <2> QED BY <2>10, <2>12, <2>14 DEF IInv
  <1>4. ASSUME Expects(c, t, type), type = "notify",
               GetAndDelete(t, Handled(c), masks'), Listens(t),
               IF property[t].type = "incr"
               THEN got' = got /\ asker' = [asker EXCEPT ![t] = IF c = "awesome" THEN "asked" ELSE "reading"]
               ELSE Receive(t, property[t].bytes, "done")
        PROVE  IInv' /\ AbstractStep
    <2>1. c = Asker(t) /\ asker[t] = "asked" /\ t \notin Ended
      BY <1>4 DEF Expects, Ended
    <2>2. Announced(t) \/ Whole(t)
      BY <1>4, <2>1, NotifyStage
    <2>3. CASE Announced(t)
      <3>1. got' = got /\ asker' = [asker EXCEPT ![t] = IF c = "awesome" THEN "asked" ELSE "reading"]
        BY <1>4, <2>3 DEF Announced, Incr
      <3>2. IInv'
        BY <1>1, <1>4, <2>1, <2>3, <3>1, AnnouncementKeeps
      <3>3. Ended' = Ended
        <4>1. PICK next \in {"asked", "reading"} : asker' = [asker EXCEPT ![t] = next]
          BY <3>1
        <4> QED BY <2>1, <4>1, EndedGrows
      <3> QED BY <1>1, <3>1, <3>2, <3>3, Stutters
    <2>4. CASE Whole(t)
      <3>1. property[t].type # "incr" /\ got[t] = <<>>
        BY <2>4 DEF Whole, Notified, Data
      <3>2. Receive(t, property[t].bytes, "done")
        BY <1>4, <3>1
      <3>3. IInv' /\ got'[t] = Bytes(1, given[t]) /\ asker' = [asker EXCEPT ![t] = "done"]
        BY <1>1, <1>4, <2>1, <2>4, <3>2, WholeKeeps
      <3>4. got' = [got EXCEPT ![t] = got'[t]]
        BY <3>2 DEF Receive, IInv, TypeOK
      <3>5. Ended' = Ended \cup {t}
        BY <3>3, EndedGrows
      <3> QED BY <1>1, <2>1, <3>1, <3>3, <3>4, <3>5, GetsAndEnds
    <2> QED BY <2>2, <2>3, <2>4
  <1>5. ASSUME Expects(c, t, type), type = "new",
               GetAndDelete(t, Handled(c), masks), masks' = masks,
               Receive(t, property[t].bytes, IF property[t].bytes = <<>> THEN "done"
                                             ELSE IF c = "awesome" THEN "asked" ELSE "reading")
        PROVE  IInv' /\ AbstractStep
    <2>1. c = Asker(t) /\ t \notin Ended
      BY <1>5 DEF Expects, Ended
    <2>2. (Offered(t) /\ Lacks(Handled(Asker(t))[Asker(t)], "new", t)) \/ Closing(t)
      BY <1>5, <2>1, NewStage
    <2>3. CASE Offered(t) /\ Lacks(Handled(Asker(t))[Asker(t)], "new", t)
      <3>1. /\ IInv' /\ asker' = asker
            /\ got' = [got EXCEPT ![t] = got[t] \o Bytes(Len(got[t]) + 1, put[t])]
        BY <1>1, <1>5, <2>1, <2>3, PieceReadKeeps
      <3>2. Ended' = Ended /\ Len(got[t]) < put[t]
        BY <2>3, <3>1 DEF Ended, Offered
      <3> QED BY <1>1, <2>1, <3>1, <3>2, Gets
    <2>4. CASE Closing(t)
      <3>1. IInv' /\ got' = got /\ asker' = [asker EXCEPT ![t] = "done"] /\ Len(got[t]) = given[t]
        BY <1>1, <1>5, <2>1, <2>4, ClosingKeeps
      <3>2. Ended' = Ended \cup {t}
        BY <3>1, EndedGrows
      <3> QED BY <1>1, <2>1, <3>1, <3>2, Ends
    <2> QED BY <2>2, <2>3, <2>4
  <1>6. CASE Expects(c, t, type) /\ type = "notify" /\ c = "awesome" /\ GetterNotify(t)
    <2>1. c = Asker(t) /\ asker[t] = "asked"
      BY <1>6 DEF Expects
    <2>2. GetAndDelete(t, Handled(c), masks') /\ Listens(t)
      BY <1>6, <2>1 DEF GetterNotify, Listens
    <2>3. IF property[t].type = "incr"
          THEN got' = got /\ asker' = [asker EXCEPT ![t] = "asked"]
          ELSE Receive(t, property[t].bytes, "done")
      BY <1>6, <2>1 DEF GetterNotify, askerVars, IInv, TypeOK
    <2> QED BY <1>4, <1>6, <2>2, <2>3
  <1>7. CASE Expects(c, t, type) /\ type = "notify" /\ c = "app" /\ AppNotify(t)
    <2>1. masks' = masks /\ GetAndDelete(t, Handled(c), masks') /\ Listens(t)
      BY <1>7 DEF AppNotify, Listens
    <2>2. got[t] \o <<>> = got[t]
      BY NoBytes DEF IInv, TypeOK
    <2>3. IF property[t].type = "incr"
          THEN got' = got /\ asker' = [asker EXCEPT ![t] = "reading"]
          ELSE Receive(t, property[t].bytes, "done")
      BY <1>7, <2>2, SMTT(30) DEF AppNotify, Receive, IInv, TypeOK
    <2> QED BY <1>4, <1>7, <2>1, <2>3
  <1>8. CASE Expects(c, t, type) /\ type = "new" /\ c = "awesome" /\ GetterNew(t)
    BY <1>5, <1>8 DEF GetterNew
  <1>9. CASE Expects(c, t, type) /\ type = "new" /\ c = "app" /\ AppNew(t)
    BY <1>5, <1>9 DEF AppNew
  <1> QED BY <1>2, <1>3, <1>6, <1>7, <1>8, <1>9 DEF HandleReport

LEMMA RequestStep ==
    ASSUME IInv, OneSideOnly, NEW c \in XClient, NEW t \in Transfer,
           events[c] # <<>>, Head(events[c]) = Event("request", t), HandleRequest(t)
    PROVE  IInv' /\ AbstractStep
  <1>1. UNCHANGED askerVars /\ got' = got /\ Ended' = Ended
    BY DEF HandleRequest, askerVars, Ended
  <1>2. CASE Reject(t)
    <2>1. IInv'
      BY <1>1, <1>2, RejectKeeps
    <2>2. given' = given
      BY <1>2 DEF Reject
    <2> QED BY <1>1, <2>1, <2>2, Stutters
  <1>3. CASE \E n \in 0..Smaller(MaxSend, MaxData), continue \in BOOLEAN : Send(t, n, continue)
    <2>1. PICK n \in 0..Smaller(MaxSend, MaxData), continue \in BOOLEAN : Send(t, n, continue)
      BY <1>3
    <2>2. IInv'
      BY <1>1, <2>1, SendKeeps
    <2>3. asker[t] = "asked" /\ given[t] = 0
      BY RequestStage DEF Requested, Untouched
    <2>4. given' = [given EXCEPT ![t] = n] /\ t \notin Ended
      BY <2>1, <2>3 DEF Send, Ended
    <2>5. n \in Nat /\ n <= MaxData
      <3>1. MaxSend \in Nat /\ MaxData \in Nat
        BY SelectionAssumption
      <3>2. Smaller(MaxSend, MaxData) \in Nat /\ Smaller(MaxSend, MaxData) <= MaxData
        BY <3>1, SmallerFacts
      <3> QED BY <3>1, <3>2
    <2>6. CASE n = 0
      <3>1. given' = given
        BY <2>3, <2>4, <2>6 DEF IInv, TypeOK
      <3> QED BY <1>1, <2>2, <3>1, Stutters
    <2>7. CASE n > 0
      BY <1>1, <2>2, <2>3, <2>4, <2>5, <2>7, Gives
    <2> QED BY <2>5, <2>6, <2>7
  <1> QED BY <1>2, <1>3 DEF HandleRequest

LEMMA DeletedStep ==
    ASSUME IInv, NEW c \in XClient, NEW t \in Transfer,
           events[c] # <<>>, Head(events[c]) = Event("deleted", t), HandleDeleted(c, t)
    PROVE  IInv' /\ AbstractStep
  <1>1. UNCHANGED askerVars /\ got' = got /\ Ended' = Ended
    BY DEF HandleDeleted, askerVars, Ended
  <1>2. CASE c = Owner(t) /\ state[t] = "sending"
    <2>1. Continue(t)
      BY <1>2 DEF HandleDeleted
    <2>2. IInv'
      BY <1>1, <1>2, <2>1, ContinueKeeps
    <2>3. t \notin Ended
      BY <1>2, ContinueStage DEF Wanted, Reading, Ended
    <2>4. CASE given' = given
      BY <1>1, <2>2, <2>4, Stutters
    <2>5. CASE \E n \in 1..Smaller(MaxSend, MaxData - given[t]) : given' = [given EXCEPT ![t] = @ + n]
      <3>1. PICK n \in 1..Smaller(MaxSend, MaxData - given[t]) : given' = [given EXCEPT ![t] = @ + n]
        BY <2>5
      <3>2. given[t] \in Nat /\ MaxSend \in Nat /\ MaxData \in Nat /\ MaxData - given[t] \in Nat
        BY SelectionAssumption DEF IInv, TypeOK
      <3>3. Smaller(MaxSend, MaxData - given[t]) \in Nat /\ Smaller(MaxSend, MaxData - given[t]) <= MaxData - given[t]
        BY <3>2, SmallerFacts
      <3>4. given[t] + n \in Nat /\ given[t] < given[t] + n /\ given[t] + n <= MaxData
        BY <3>2, <3>3
      <3> QED BY <1>1, <2>2, <2>3, <3>1, <3>4, Gives
    <2> QED BY <2>1, <2>4, <2>5 DEF Continue, EndTransfer
  <1>3. CASE ~(c = Owner(t) /\ state[t] = "sending")
    <2>1. events' = Handled(c) /\ UNCHANGED <<ownerVars, property, masks>>
      BY <1>3 DEF HandleDeleted
    <2>2. IInv'
      BY <1>1, <2>1, IgnoredKeeps
    <2> QED BY <1>1, <2>1, <2>2, Stutters DEF ownerVars
  <1> QED BY <1>2, <1>3

LEMMA InitIInv == Init => IInv
  <1> SUFFICES ASSUME Init PROVE IInv
    OBVIOUS
  <1>1. 0 \in 0..MaxData /\ 0 <= 0 /\ <<>> \in Seq(0..MaxData) /\ <<>> \in Seq(EventSet) /\ Len(<<>>) = 0
    BY SelectionAssumption
  <1>2. /\ Missing \in [type : {"none", "incr", "data"}, bytes : Seq(0..MaxData)]
        /\ Len(Missing.bytes) <= MaxPiece
    BY <1>1, SelectionAssumption DEF Missing
  <1>3. masks \subseteq XClient \X Window
    BY DEF Init, XClient
  <1>4. PropertiesTyped
    BY <1>2 DEF Init, PropertiesTyped
  <1>5. \A t \in Transfer : put[t] <= given[t] /\ Len(property[t].bytes) <= MaxPiece
    BY <1>1, <1>2 DEF Init
  <1>6. TypeOK
    <2>1. events \in [XClient -> Seq(EventSet)]
      BY <1>1 DEF Init
    <2> QED BY <1>1, <1>3, <1>5, <2>1 DEF Init, TypeOK, EventSet
  <1>7. MasksInv
    BY DEF Init, MasksInv
  <1>8. ASSUME NEW t \in Transfer PROVE Protocol(t)
    <2>1. \A c \in XClient : \A type : Lacks(events[c], type, t)
      <3>1. \A c \in XClient : events[c] = <<>> /\ Len(events[c]) = 0
        BY DEF Init
      <3> QED BY <3>1 DEF Lacks
    <2>2. Asker(t) \in XClient /\ Owner(t) \in XClient /\ "awesome" \in XClient
      BY Sides DEF XClient
    <2>3. StillDeaf(t)
      BY <2>1, <2>2 DEF StillDeaf, Init
    <2>4. Untouched(t)
      BY <2>1, <2>2, <2>3 DEF Init, Untouched
    <2>5. Idle(t)
      BY <2>1, <2>4 DEF Init, Idle, NotRequested
    <2> QED BY <2>5 DEF Protocol
  <1> QED BY <1>4, <1>6, <1>7, <1>8 DEF IInv

LEMMA NextStep ==
    ASSUME IInv, OneSideOnly, [Next]_vars
    PROVE  IInv' /\ AbstractStep
  <1>1. ASSUME NEW t \in Transfer, Ask(t)
        PROVE  IInv' /\ AbstractStep
    <2>1. IInv'
      BY <1>1, AskKeeps
    <2>2. given' = given /\ got' = got /\ Ended' = Ended
      BY <1>1 DEF Ask, ownerVars, Ended, IInv, TypeOK
    <2> QED BY <2>1, <2>2, Stutters
  <1>2. ASSUME NEW c \in XClient, HandleEvent(c)
        PROVE  IInv' /\ AbstractStep
    <2> DEFINE e == Head(events[c])
    <2>1. events[c] # <<>> /\ e \in EventSet /\ e = Event(e.type, e.transfer) /\ e.transfer \in Transfer
      BY <1>2, HeadIsThere DEF HandleEvent, EventSet
    <2>2. CASE e.type = "request" /\ HandleRequest(e.transfer)
      BY <2>1, <2>2, RequestStep
    <2>3. CASE e.type = "deleted" /\ HandleDeleted(c, e.transfer)
      BY <2>1, <2>3, DeletedStep
    <2>4. CASE e.type \in {"notify", "refused", "new"} /\ HandleReport(c, e.transfer, e.type)
      BY <2>1, <2>4, ReportStep
    <2> QED BY <1>2, <2>2, <2>3, <2>4 DEF HandleEvent
  <1>3. ASSUME UNCHANGED vars
        PROVE  IInv' /\ AbstractStep
    <2>1. events \in Queues /\ events' \in Queues /\ \A t \in Transfer : Alone(t) /\ CarriesAll(events', t)
      BY <1>3, QueuesTyped DEF vars, askerVars, ownerVars, Alone, CarriesAll
    <2>2. \A t \in Transfer : Protocol(t)'
      BY <2>1, Frame DEF IInv
    <2>3. TypeOK' /\ PropertiesTyped' /\ MasksInv'
      <3>1. TypeOK'
        BY <1>3 DEF vars, askerVars, ownerVars, IInv, TypeOK
      <3>2. PropertiesTyped' /\ MasksInv'
        BY <1>3 DEF vars, askerVars, ownerVars, IInv, PropertiesTyped, MasksInv
      <3> QED BY <3>1, <3>2
    <2>4. AbstractStep
      BY <1>3, Stutters DEF vars, askerVars, ownerVars, Ended
    <2> QED BY <2>2, <2>3, <2>4 DEF IInv
  <1> QED BY <1>1, <1>2, <1>3 DEF Next

\* When awesome does not ask itself, a transfer that is over for the asker is complete
\* and over for the owner too, and awesome listens to no window of another client for
\* longer than a transfer lasts: the sizes and the order of the events do not matter.
THEOREM TransfersAreComplete ==
    ASSUME OneSideOnly
    PROVE  Spec => []SelectionInv
  <1>1. IInv => SelectionInv
    <2> SUFFICES ASSUME IInv PROVE EndMeansAll /\ NothingLeftSelected
      BY DEF IInv, SelectionInv
    <2>1. EndMeansAll
      BY DEF IInv, EndMeansAll, Protocol, Idle, Requested, Untouched, Rejected, Refused, Announced,
             Whole, Notified, Wanted, Offered, Closing, Reading, Over
    <2>2. NothingLeftSelected
      BY DEF IInv, MasksInv, NothingLeftSelected
    <2> QED BY <2>1, <2>2
  <1>2. IInv /\ [Next]_vars => IInv'
    BY NextStep
  <1> QED BY InitIInv, <1>1, <1>2, PTL DEF Spec

\* Under the same assumption the messages between the two sides carry out the abstract
\* stream: each byte is got once and in order, and the end is reported when all is got.
THEOREM TransferImplementsStream ==
    ASSUME OneSideOnly
    PROVE  Spec => ImplementsStream
  <1>1. Init => Abstract!Init
    BY DEF Init, Abstract!Init, Ended
  <1>2. IInv /\ [Next]_vars => IInv' /\ [Abstract!Next]_Abstract!vars
    BY NextStep DEF AbstractStep
  <1> QED BY InitIInv, <1>1, <1>2, PTL DEF Spec, ImplementsStream, Abstract!Spec

-----------------------------------------------------------------------------
(* SelectionOwner: who owns a selection.                                   *)

OwnerCalls == {"asked", "register", "release"} \X Acquire
OwnerOps == {"own", "who", "destroy"} \X Acquire \cup {"watch", "unwatch"} \X Watcher
OwnerNews == {"clear", "request"} \X Acquire \cup Watcher \X BOOLEAN

Has(s, x) == \E i \in 1..Len(s) : s[i] = x
Asked(o) == Len(calls) > 0 /\ calls[Len(calls)] = <<"asked", o>>

OwnerTypeInv ==
    /\ SelectionOwnerTypeOK
    /\ ownerRequests \in Seq(OwnerOps) /\ reply \in Acquire \cup {"app", None, "none"}

\* Awesome sends nothing while it waits for the reply, which is about its last request.
AskingInv ==
    /\ \A i \in 1..Len(calls) : calls[i][1] = "asked" => i = Len(calls)
    /\ reply # "none" => \E o \in Acquire : Asked(o)
    /\ \A o \in Acquire : Has(ownerRequests, <<"own", o>>) \/ Has(ownerRequests, <<"who", o>>) =>
                              Asked(o) /\ reply = "none"
    /\ \A i \in 1..Len(ownerRequests) : ownerRequests[i][1] = "who" => i = Len(ownerRequests)
    /\ \A o \in Acquire : Asked(o) /\ reply # "none" =>
           IF reply = o THEN owner = o \/ Has(ownerEvents, <<"clear", o>>) ELSE owner # o

LivesInv ==
    /\ \A o \in Acquire : owner = o =>
           life[o] # "new" /\ (life[o] = "dead" => Has(ownerRequests, <<"destroy", o>>))
    /\ \A o \in Acquire : Has(ownerRequests, <<"destroy", o>>) => life[o] = "dead"
    /\ \A o \in Acquire : /\ life[o] = "live" => o \in acquired
                          /\ o \in acquired => life[o] # "new"
                          /\ Asked(o) => life[o] = "live" /\ registered # o
                          /\ registered = o => life[o] # "new"
    /\ \A i \in 1..Len(calls) : life[calls[i][2]] # "new"

\* Another window of awesome's has taken the selection: its object will be registered or,
\* if the selection is gone, is confusing.
Overtaken == \E o \in Acquire : Asked(o) /\ (owner = o \/ Has(ownerEvents, <<"clear", o>>))
Knows(o) == owner = o \/ Has(ownerEvents, <<"clear", o>>) \/ Overtaken

\* What goes on inside of a registration: the releases of the registered object.
MadeWayFor(i) == \A j \in 1..Len(calls) : j > i =>
    calls[j][1] # "register" /\ (calls[j][1] = "release" => registered \in {None, calls[j][2]})

\* Who lives is registered or about to be, and owns the selection or will hear that it
\* does not.
HeldInv ==
    /\ \A o \in Acquire : registered = o =>
           life[o] = "live" /\ (Knows(o) \/ Has(calls, <<"release", o>>))
    /\ \A o \in Acquire : life[o] = "live" => registered = o \/ Asked(o) \/ Has(calls, <<"register", o>>)
    /\ \A o \in Acquire : Has(calls, <<"release", o>>) /\ o \in acquired => registered = o
    /\ \A o \in Acquire : Has(calls, <<"register", o>>) =>
           life[o] = "live" /\ registered # o /\ Knows(o) /\ ~Asked(o)
    /\ \A i \in 1..Len(calls) : calls[i][1] = "register" =>
           IF i = Len(calls) THEN registered = None
           ELSE calls[i + 1][1] = "release" /\ MadeWayFor(i)

\* The last event that a watcher will get tells how it is; without one, it was told.
Speaks(w) == \E i \in 1..Len(ownerEvents) : ownerEvents[i][1] = w
WatchInv(w) ==
    /\ ~Has(ownerRequests, <<"unwatch", w>>)
    /\ w \in watching \/ Has(ownerRequests, <<"watch", w>>)
    /\ w \notin watching => told[w] = None /\ ~Speaks(w)
    /\ \A i \in 1..Len(ownerEvents) :
           ownerEvents[i][1] = w /\ (\A j \in 1..Len(ownerEvents) : j > i => ownerEvents[j][1] # w) =>
               ownerEvents[i][2] = (owner # None)
    /\ ~Speaks(w) /\ told[w] # None => told[w] = (owner # None)

OwnershipIInv ==
    /\ OwnerTypeInv /\ AskingInv /\ LivesInv
    /\ ~confused => HeldInv
    /\ \A w \in active \ outdated : WatchInv(w)
-----------------------------------------------------------------------------
(* Sequences.                                                              *)

LEMMA AppendHas ==
    ASSUME NEW S, NEW s \in Seq(S), NEW e \in S
    PROVE  /\ Append(s, e) \in Seq(S) /\ Len(s) \in Nat /\ Len(Append(s, e)) = Len(s) + 1
           /\ \A i \in 1..Len(s) : Append(s, e)[i] = s[i]
           /\ Append(s, e)[Len(s) + 1] = e
           /\ \A x : Has(Append(s, e), x) <=> Has(s, x) \/ x = e
<1>1. /\ Append(s, e) \in Seq(S) /\ Len(s) \in Nat /\ Len(Append(s, e)) = Len(s) + 1
      /\ \A i \in 1..Len(s) : Append(s, e)[i] = s[i]
      /\ Append(s, e)[Len(s) + 1] = e
  BY AppendProperties, LenProperties
<1>2. ASSUME NEW x, Has(Append(s, e), x) PROVE Has(s, x) \/ x = e
  <2>1. PICK i \in 1..Len(Append(s, e)) : Append(s, e)[i] = x
    BY <1>2 DEF Has
  <2>2. i \in 1..Len(s) \/ i = Len(s) + 1
    BY <1>1
  <2> QED BY <1>1, <2>1, <2>2 DEF Has
<1>3. ASSUME NEW x, Has(s, x) \/ x = e PROVE Has(Append(s, e), x)
  <2>1. 1..Len(s) \subseteq 1..Len(Append(s, e)) /\ Len(s) + 1 \in 1..Len(Append(s, e))
    BY <1>1
  <2> QED BY <1>1, <1>3, <2>1 DEF Has
<1> QED BY <1>1, <1>2, <1>3

Appended(S, s, e, n) ==
    /\ n \in Seq(S) /\ Len(s) \in Nat /\ Len(n) = Len(s) + 1
    /\ \A i \in 1..Len(s) : n[i] = s[i]
    /\ n[Len(s) + 1] = e
    /\ \A x : Has(n, x) <=> Has(s, x) \/ x = e

LEMMA AppendIs ==
    ASSUME NEW S, NEW s \in Seq(S), NEW e \in S
    PROVE  Appended(S, s, e, Append(s, e))
<1> PICK n : n = Append(s, e)
  OBVIOUS
<1>1. /\ n \in Seq(S) /\ Len(s) \in Nat /\ Len(n) = Len(s) + 1
      /\ \A i \in 1..Len(s) : n[i] = s[i]
      /\ n[Len(s) + 1] = e
  BY AppendHas
<1>2. \A x : Has(n, x) <=> Has(s, x) \/ x = e
  BY AppendHas
<1> QED BY <1>1, <1>2 DEF Appended

LEMMA TailHas ==
    ASSUME NEW S, NEW s \in Seq(S), s # <<>>
    PROVE  /\ Tail(s) \in Seq(S) /\ Len(s) \in Nat \ {0} /\ Len(Tail(s)) = Len(s) - 1
           /\ Head(s) = s[1] /\ Head(s) \in S
           /\ \A i \in 1..Len(Tail(s)) : Tail(s)[i] = s[i + 1]
           /\ \A x : Has(s, x) <=> Has(Tail(s), x) \/ x = Head(s)
<1>1. /\ Tail(s) \in Seq(S) /\ Len(s) \in Nat \ {0} /\ Len(Tail(s)) = Len(s) - 1
      /\ Head(s) = s[1] /\ Head(s) \in S
      /\ \A i \in 1..Len(Tail(s)) : Tail(s)[i] = s[i + 1]
  BY HeadTailProperties, LenProperties, EmptySeq, ElementOfSeq
<1>2. ASSUME NEW x, Has(s, x) PROVE Has(Tail(s), x) \/ x = Head(s)
  <2>1. PICK i \in 1..Len(s) : s[i] = x
    BY <1>2 DEF Has
  <2>2. CASE i = 1
    BY <1>1, <2>1, <2>2
  <2>3. CASE i # 1
    <3>1. i - 1 \in 1..Len(Tail(s)) /\ Tail(s)[i - 1] = x
      BY <1>1, <2>1, <2>3
    <3> QED BY <3>1 DEF Has
  <2> QED BY <2>2, <2>3
<1>3. ASSUME NEW x, Has(Tail(s), x) PROVE Has(s, x)
  <2>1. PICK i \in 1..Len(Tail(s)) : Tail(s)[i] = x
    BY <1>3 DEF Has
  <2>2. i + 1 \in 1..Len(s) /\ s[i + 1] = x
    BY <1>1, <2>1
  <2> QED BY <2>2 DEF Has
<1>4. Has(s, Head(s))
  BY <1>1 DEF Has
<1> QED BY <1>1, <1>2, <1>3, <1>4

LEMMA FrontHas ==
    ASSUME NEW S, NEW s \in Seq(S), s # <<>>
    PROVE  /\ Front(s) \in Seq(S) /\ Len(s) \in Nat \ {0} /\ Len(Front(s)) = Len(s) - 1
           /\ s[Len(s)] \in S
           /\ \A i \in 1..Len(Front(s)) : Front(s)[i] = s[i]
           /\ \A x : Has(s, x) <=> Has(Front(s), x) \/ x = s[Len(s)]
<1>1. Len(s) \in Nat \ {0} /\ \A i \in 1..Len(s) : s[i] \in S
  BY LenProperties, EmptySeq, ElementOfSeq
<1>2. /\ 1 \in Int /\ Len(s) - 1 \in Int
      /\ \A i \in 1..(Len(s) - 1) : s[i] \in S
  BY <1>1
<1>3. /\ Front(s) \in Seq(S) /\ Len(Front(s)) = Len(s) - 1
      /\ \A i \in 1..Len(Front(s)) : Front(s)[i] = s[i]
  <2> PICK m \in Nat : m = Len(s) - 1
    BY <1>1
  <2> DEFINE f == SubSeq(s, 1, m)
  <2>1. /\ f \in Seq(S) /\ Len(f) = IF 1 <= m THEN m - 1 + 1 ELSE 0
        /\ \A i \in 1..(m - 1 + 1) : f[i] = s[1 + i - 1]
    BY <1>2, SubSeqProperties
  <2>2. Front(s) = f
    BY DEF Front
  <2> HIDE DEF f
  <2>3. Len(f) = m /\ \A i \in 1..m : f[i] = s[i]
    BY <2>1
  <2> QED BY <2>1, <2>2, <2>3
<1>4. ASSUME NEW x, Has(s, x) PROVE Has(Front(s), x) \/ x = s[Len(s)]
  <2>1. PICK i \in 1..Len(s) : s[i] = x
    BY <1>4 DEF Has
  <2>2. CASE i = Len(s)
    BY <2>1, <2>2
  <2>3. CASE i # Len(s)
    <3>1. i \in 1..Len(Front(s)) /\ Front(s)[i] = x
      BY <1>1, <1>3, <2>1, <2>3
    <3> QED BY <3>1 DEF Has
  <2> QED BY <2>2, <2>3
<1>5. ASSUME NEW x, Has(Front(s), x) PROVE Has(s, x)
  <2>1. PICK i \in 1..Len(Front(s)) : Front(s)[i] = x
    BY <1>5 DEF Has
  <2>2. i \in 1..Len(s) /\ s[i] = x
    BY <1>1, <1>3, <2>1
  <2> QED BY <2>2 DEF Has
<1>6. Has(s, s[Len(s)]) /\ s[Len(s)] \in S
  BY <1>1 DEF Has
<1> QED BY <1>1, <1>3, <1>4, <1>5, <1>6

Joined(S, s, t, n) ==
    /\ n \in Seq(S) /\ Len(s) \in Nat /\ Len(t) \in Nat /\ Len(n) = Len(s) + Len(t)
    /\ \A i \in 1..Len(s) : n[i] = s[i]
    /\ \A i \in 1..Len(t) : n[Len(s) + i] = t[i]
    /\ \A x : Has(n, x) <=> Has(s, x) \/ Has(t, x)

LEMMA ConcatHas ==
    ASSUME NEW S, NEW s \in Seq(S), NEW t \in Seq(S)
    PROVE  Joined(S, s, t, s \o t)
<1>1. /\ s \o t \in Seq(S) /\ Len(s) \in Nat /\ Len(t) \in Nat /\ Len(s \o t) = Len(s) + Len(t)
      /\ \A i \in 1..Len(s) : (s \o t)[i] = s[i]
      /\ \A i \in 1..Len(t) : (s \o t)[Len(s) + i] = t[i]
  BY ConcatProperties, LenProperties
<1>2. ASSUME NEW x, Has(s \o t, x) PROVE Has(s, x) \/ Has(t, x)
  <2>1. PICK i \in 1..Len(s \o t) : (s \o t)[i] = x
    BY <1>2 DEF Has
  <2>2. CASE i <= Len(s)
    <3>1. i \in 1..Len(s)
      BY <1>1, <2>2
    <3> QED BY <1>1, <2>1, <3>1 DEF Has
  <2>3. CASE i > Len(s)
    <3>1. i - Len(s) \in 1..Len(t) /\ Len(s) + (i - Len(s)) = i
      BY <1>1, <2>3
    <3>2. t[i - Len(s)] = x
      BY <1>1, <2>1, <3>1
    <3> QED BY <3>1, <3>2 DEF Has
  <2> QED BY <1>1, <2>2, <2>3
<1>3. ASSUME NEW x, Has(s, x) PROVE Has(s \o t, x)
  <2>1. PICK i \in 1..Len(s) : s[i] = x
    BY <1>3 DEF Has
  <2>2. i \in 1..Len(s \o t) /\ (s \o t)[i] = x
    BY <1>1, <2>1
  <2> QED BY <2>2 DEF Has
<1>4. ASSUME NEW x, Has(t, x) PROVE Has(s \o t, x)
  <2>1. PICK i \in 1..Len(t) : t[i] = x
    BY <1>4 DEF Has
  <2>2. Len(s) + i \in 1..Len(s \o t) /\ (s \o t)[Len(s) + i] = x
    BY <1>1, <2>1
  <2> QED BY <2>2 DEF Has
<1> QED BY <1>1, <1>2, <1>3, <1>4 DEF Joined

LEMMA TwoHas ==
    ASSUME NEW S, NEW a \in S, NEW b \in S
    PROVE  /\ <<a, b>> \in Seq(S) /\ Len(<<a, b>>) = 2 /\ <<a, b>>[1] = a /\ <<a, b>>[2] = b
           /\ \A x : Has(<<a, b>>, x) <=> x = a \/ x = b
<1>1. <<a, b>> \in Seq(S) /\ Len(<<a, b>>) = 2 /\ <<a, b>>[1] = a /\ <<a, b>>[2] = b
  OBVIOUS
<1>2. 1..2 = {1, 2}
  OBVIOUS
<1> QED BY <1>1, <1>2 DEF Has

PutTwo(S, s, a, b, n) ==
    /\ n \in Seq(S) /\ Len(s) \in Nat /\ Len(n) = Len(s) + 2
    /\ \A i \in 1..Len(s) : n[i] = s[i]
    /\ n[Len(s) + 1] = a /\ n[Len(s) + 2] = b
    /\ \A x : Has(n, x) <=> Has(s, x) \/ x = a \/ x = b

LEMMA TwoMore ==
    ASSUME NEW S, NEW s \in Seq(S), NEW a \in S, NEW b \in S
    PROVE  PutTwo(S, s, a, b, s \o <<a, b>>)
<1> PICK n : n = s \o <<a, b>>
  OBVIOUS
<1> DEFINE t == <<a, b>>
<1>1. t \in Seq(S) /\ Len(t) = 2 /\ t[1] = a /\ t[2] = b
  BY TwoHas
<1>2. \A x : Has(t, x) <=> x = a \/ x = b
  BY TwoHas
<1>3. n = s \o t
  OBVIOUS
<1> HIDE DEF t
<1>4. Joined(S, s, t, n)
  BY <1>1, <1>3, ConcatHas
<1>5. n[Len(s) + 1] = a /\ n[Len(s) + 2] = b
  BY <1>1, <1>4 DEF Joined
<1> QED BY <1>1, <1>2, <1>4, <1>5 DEF Joined, PutTwo

LEMMA EmptyHas == \A x : ~Has(<<>>, x)
  BY DEF Has

-----------------------------------------------------------------------------
(* Notices of the server to the watchers.                                  *)

\* SetToSeq is a bijection from the numbers up to the cardinality.
LEMMA OrderOfSet ==
    ASSUME NEW S, IsFiniteSet(S)
    PROVE  /\ Cardinality(S) \in Nat
           /\ \A i \in 1..Cardinality(S) : SetToSeq(S)[i] \in S
           /\ \A x \in S : \E i \in 1..Cardinality(S) : SetToSeq(S)[i] = x
<1> DEFINE n == Cardinality(S)
           q == SetToSeq(S)
<1>1. n \in Nat /\ ExistsBijection(1..n, S)
  BY FS_CardinalityType
<1>2. \E f \in [1..n -> S] : IsInjective(f)
  BY <1>1 DEF ExistsBijection, Bijection, Injection
<1>3. q \in [1..n -> S] /\ IsInjective(q)
  BY <1>2 DEF SetToSeq
<1> HIDE DEF q
<1>4. q \in Injection(1..n, S)
  BY <1>3 DEF Injection
<1>5. IsFiniteSet(1..n) /\ Cardinality(1..n) = n
  BY <1>1, FS_Interval
<1>6. q \in Surjection(1..n, S)
  BY <1>4, <1>5, FS_Injection
<1>7. \A x \in S : \E i \in 1..n : q[i] = x
  BY <1>6 DEF Surjection
<1> QED BY <1>1, <1>3, <1>7 DEF q

LEMMA NoticesFacts ==
    ASSUME watching \subseteq Watcher, NEW kind \in ChangeKinds, NEW b \in BOOLEAN
    PROVE  /\ Notices(kind, b) \in Seq(OwnerNews) /\ Len(Notices(kind, b)) \in Nat
           /\ \A i \in 1..Len(Notices(kind, b)) :
                  Notices(kind, b)[i][1] \in watching /\ Notices(kind, b)[i][2] = b
           /\ \A w \in watching : \E i \in 1..Len(Notices(kind, b)) : Notices(kind, b)[i][1] = w
<1> DEFINE n == Cardinality(watching)
           note(i) == <<SetToSeq(watching)[i], b>>
           q == [i \in 1..n |-> note(i)]
<1>1. IsFiniteSet(watching)
  BY OwnershipAssumption, FS_Subset
<1>2. /\ n \in Nat
      /\ \A i \in 1..n : SetToSeq(watching)[i] \in watching
      /\ \A x \in watching : \E i \in 1..n : SetToSeq(watching)[i] = x
  BY <1>1, OrderOfSet
<1>3. Notices(kind, b) = q
  BY DEF Notices, Watched
<1>4. \A i \in 1..n : note(i) \in OwnerNews
  BY <1>2 DEF OwnerNews
<1>5. \A i \in 1..n : note(i)[1] \in watching /\ note(i)[2] = b
  BY <1>2
<1>6. \A w \in watching : \E i \in 1..n : note(i)[1] = w
  BY <1>2
<1> HIDE DEF note
<1>7. q \in [1..n -> OwnerNews]
  BY <1>4
<1>8. q \in Seq(OwnerNews)
  BY <1>2, <1>7, SeqDef
<1>9. Len(q) = n
  BY <1>2, <1>7, <1>8, LenProperties
<1>10. \A i \in 1..n : q[i] = note(i)
  OBVIOUS
<1> HIDE DEF q, n
<1>11. \A w \in watching : \E i \in 1..Len(q) : q[i][1] = w
  BY <1>6, <1>9, <1>10
<1>12. \A i \in 1..Len(q) : q[i][1] \in watching /\ q[i][2] = b
  BY <1>5, <1>9, <1>10
<1> QED BY <1>2, <1>3, <1>8, <1>9, <1>11, <1>12

\* What a sequence of events becomes when the server reports a change.
Reports(s, t, b) ==
    /\ t \in Seq(OwnerNews)
    /\ \A o \in Acquire : Has(s, <<"clear", o>>) => Has(t, <<"clear", o>>)
    /\ \A w \in watching : \E i \in 1..Len(t) : t[i][1] = w
    /\ \A w \in watching, i \in 1..Len(t) :
           t[i][1] = w /\ (\A j \in 1..Len(t) : j > i => t[j][1] # w) => t[i][2] = b
    /\ \A w \in Watcher \ watching, i \in 1..Len(t) : t[i][1] = w => \E j \in 1..Len(s) : s[j][1] = w

LEMMA AddNotices ==
    ASSUME watching \subseteq Watcher, NEW kind \in ChangeKinds, NEW b \in BOOLEAN,
           NEW s \in Seq(OwnerNews)
    PROVE  Reports(s, s \o Notices(kind, b), b)
<1> PICK t : t = s \o Notices(kind, b)
  OBVIOUS
<1> PICK n : n = Notices(kind, b)
  OBVIOUS
<1>1. /\ n \in Seq(OwnerNews) /\ Len(n) \in Nat
      /\ \A i \in 1..Len(n) : n[i][1] \in watching /\ n[i][2] = b
      /\ \A w \in watching : \E i \in 1..Len(n) : n[i][1] = w
  <2>1. /\ Notices(kind, b) \in Seq(OwnerNews) /\ Len(Notices(kind, b)) \in Nat
        /\ \A i \in 1..Len(Notices(kind, b)) :
               Notices(kind, b)[i][1] \in watching /\ Notices(kind, b)[i][2] = b
        /\ \A w \in watching : \E i \in 1..Len(Notices(kind, b)) : Notices(kind, b)[i][1] = w
    BY NoticesFacts
  <2> QED BY <2>1
<1>2. /\ t \in Seq(OwnerNews) /\ Len(s) \in Nat /\ Len(n) \in Nat /\ Len(t) = Len(s) + Len(n)
      /\ \A i \in 1..Len(s) : t[i] = s[i]
      /\ \A i \in 1..Len(n) : t[Len(s) + i] = n[i]
      /\ \A x : Has(t, x) <=> Has(s, x) \/ Has(n, x)
  <2>1. Joined(OwnerNews, s, n, t)
    BY <1>1, ConcatHas
  <2> QED BY <2>1 DEF Joined
<1>3. \A i \in 1..Len(t) : i \in 1..Len(s) \/ i - Len(s) \in 1..Len(n)
  BY <1>2
<1>4. \A i \in 1..Len(t) : i \notin 1..Len(s) => t[i][1] \in watching /\ t[i][2] = b
  <2>1. \A i \in 1..Len(t) : i - Len(s) \in 1..Len(n) => t[i] = n[i - Len(s)]
    BY <1>2
  <2> QED BY <1>1, <1>3, <2>1
<1>5. ASSUME NEW w \in watching PROVE \E i \in 1..Len(t) : t[i][1] = w /\ i > Len(s)
  <2>1. PICK i \in 1..Len(n) : n[i][1] = w
    BY <1>1
  <2>2. Len(s) + i \in 1..Len(t) /\ t[Len(s) + i] = n[i] /\ Len(s) + i > Len(s)
    BY <1>2
  <2> QED BY <2>1, <2>2
<1>6. ASSUME NEW w \in watching, NEW i \in 1..Len(t), t[i][1] = w,
             \A j \in 1..Len(t) : j > i => t[j][1] # w
      PROVE  t[i][2] = b
  <2>1. PICK j \in 1..Len(t) : t[j][1] = w /\ j > Len(s)
    BY <1>5
  <2>2. ~(j > i)
    BY <1>6, <2>1
  <2>3. i \notin 1..Len(s)
    BY <1>2, <2>1, <2>2
  <2> QED BY <1>4, <2>3
<1>7. ASSUME NEW w \in Watcher \ watching, NEW i \in 1..Len(t), t[i][1] = w
      PROVE  \E j \in 1..Len(s) : s[j][1] = w
  <2>1. i \in 1..Len(s)
    BY <1>4, <1>7
  <2> QED BY <1>2, <1>7, <2>1
<1>8. Reports(s, t, b)
  BY <1>2, <1>5, <1>6, <1>7 DEF Reports
<1> QED BY <1>8
-----------------------------------------------------------------------------
(* What steps leave alone.                                                 *)

LEMMA OwnerTypes ==
    ASSUME OwnerTypeInv
    PROVE  /\ calls \in Seq(OwnerCalls) /\ ownerRequests \in Seq(OwnerOps) /\ ownerEvents \in Seq(OwnerNews)
           /\ owner \in Acquire \cup {"app", None} /\ watching \subseteq Watcher /\ active \subseteq Watcher
           /\ reply \in Acquire \cup {"app", None, "none"} /\ life \in [Acquire -> {"new", "live", "dead"}]
           /\ acquired \subseteq Acquire /\ registered \in Acquire \cup {None}
           /\ told \in [Watcher -> BOOLEAN \cup {None}]
           /\ behind \in BOOLEAN /\ confused \in BOOLEAN /\ outdated \subseteq Watcher
  BY DEF OwnerTypeInv, SelectionOwnerTypeOK, OwnerCalls, OwnerNews

LEMMA TopCall ==
    ASSUME OwnerTypeInv
    PROVE  /\ Len(calls) \in Nat
           /\ calls = <<>> => Innermost[1] = "main loop" /\ Len(calls) = 0
           /\ calls # <<>> => /\ Len(calls) > 0 /\ Innermost = calls[Len(calls)]
                              /\ Innermost[1] \in {"asked", "register", "release"} /\ Innermost[2] \in Acquire
                              /\ Innermost = <<Innermost[1], Innermost[2]>>
           /\ \A o \in Acquire : Asked(o) <=> calls # <<>> /\ Innermost[1] = "asked" /\ Innermost[2] = o
           /\ \A i \in 1..Len(calls) : /\ calls[i][2] \in Acquire /\ calls[i] = <<calls[i][1], calls[i][2]>>
                                       /\ calls[i][1] \in {"asked", "register", "release"}
<1>1. calls \in Seq(OwnerCalls)
  BY OwnerTypes
<1>2. Len(calls) \in Nat /\ (calls = <<>> <=> Len(calls) = 0)
  BY <1>1, LenProperties, EmptySeq
<1>3. \A i \in 1..Len(calls) : calls[i] \in OwnerCalls
  BY <1>1, ElementOfSeq
<1>4. \A i \in 1..Len(calls) : /\ calls[i][2] \in Acquire /\ calls[i] = <<calls[i][1], calls[i][2]>>
                               /\ calls[i][1] \in {"asked", "register", "release"}
  BY <1>3 DEF OwnerCalls
<1>5. calls = <<>> => Innermost[1] = "main loop" /\ Len(calls) = 0
  BY <1>2 DEF Innermost
<1>6. ASSUME calls # <<>>
      PROVE  /\ Len(calls) > 0 /\ Innermost = calls[Len(calls)]
             /\ Innermost[1] \in {"asked", "register", "release"} /\ Innermost[2] \in Acquire
             /\ Innermost = <<Innermost[1], Innermost[2]>>
  <2>1. Innermost = calls[Len(calls)] /\ Len(calls) \in 1..Len(calls) /\ Len(calls) > 0
    BY <1>2, <1>6 DEF Innermost, Last
  <2> QED BY <1>4, <2>1
<1>7. ASSUME NEW o \in Acquire
      PROVE  Asked(o) <=> calls # <<>> /\ Innermost[1] = "asked" /\ Innermost[2] = o
  <2>1. CASE calls = <<>>
    BY <1>2, <2>1 DEF Asked
  <2>2. CASE calls # <<>>
    <3>1. calls[Len(calls)] = <<"asked", o>> <=> Innermost[1] = "asked" /\ Innermost[2] = o
      BY <1>6, <2>2
    <3> QED BY <1>6, <2>2, <3>1 DEF Asked
  <2> QED BY <2>1, <2>2
<1> QED BY <1>2, <1>4, <1>5, <1>6, <1>7

LEMMA HeldStays ==
    ASSUME HeldInv, calls' = calls, life' = life, acquired' = acquired, registered' = registered,
           \A o \in Acquire : life[o] = "live" /\ Knows(o) => Knows(o)'
    PROVE  HeldInv'
<1>1. \A o \in Acquire : registered' = o =>
           life'[o] = "live" /\ (Knows(o)' \/ Has(calls', <<"release", o>>))
  BY DEF HeldInv
<1>2. \A o \in Acquire : life'[o] = "live" => registered' = o \/ Asked(o)' \/ Has(calls', <<"register", o>>)
  BY DEF HeldInv, Asked
<1>3. \A o \in Acquire : Has(calls', <<"release", o>>) /\ o \in acquired' => registered' = o
  BY DEF HeldInv
<1>4. \A o \in Acquire : Has(calls', <<"register", o>>) =>
           life'[o] = "live" /\ registered' # o /\ Knows(o)' /\ ~Asked(o)'
  BY DEF HeldInv, Asked
<1>5. \A i \in 1..Len(calls') : calls'[i][1] = "register" =>
           IF i = Len(calls') THEN registered' = None
           ELSE calls'[i + 1][1] = "release" /\ MadeWayFor(i)'
  BY DEF HeldInv, MadeWayFor
<1> QED BY <1>1, <1>2, <1>3, <1>4, <1>5 DEF HeldInv

\* Requests for a watcher come and go as its invariant says.
LEMMA WatchStays ==
    ASSUME NEW w, WatchInv(w), told'[w] = told[w], w \in watching' <=> w \in watching,
           owner' = None <=> owner = None, ownerEvents' = ownerEvents,
           Has(ownerRequests', <<"unwatch", w>>) => Has(ownerRequests, <<"unwatch", w>>),
           Has(ownerRequests, <<"watch", w>>) => Has(ownerRequests', <<"watch", w>>)
    PROVE  WatchInv(w)'
<1>1. Speaks(w)' <=> Speaks(w)
  BY DEF Speaks
<1>2. (owner' # None) = (owner # None)
  OBVIOUS
<1>3. ~Has(ownerRequests', <<"unwatch", w>>) /\ (w \in watching' \/ Has(ownerRequests', <<"watch", w>>))
  BY DEF WatchInv
<1>4. w \notin watching' => told'[w] = None /\ ~Speaks(w)'
  BY <1>1 DEF WatchInv
<1>5. \A i \in 1..Len(ownerEvents') :
           ownerEvents'[i][1] = w /\ (\A j \in 1..Len(ownerEvents') : j > i => ownerEvents'[j][1] # w) =>
               ownerEvents'[i][2] = (owner' # None)
  BY <1>2 DEF WatchInv
<1>6. ~Speaks(w)' /\ told'[w] # None => told'[w] = (owner' # None)
  BY <1>1, <1>2 DEF WatchInv
<1> QED BY <1>3, <1>4, <1>5, <1>6 DEF WatchInv

\* An event that is not for the watcher.
LEMMA WatchPasses ==
    ASSUME NEW w, WatchInv(w), OwnerTypeInv, NEW e \in OwnerNews, e[1] # w,
           ownerEvents' = Append(ownerEvents, e),
           told' = told, watching' = watching, owner' = None <=> owner = None, ownerRequests' = ownerRequests
    PROVE  WatchInv(w)'
<1>1. /\ Len(ownerEvents) \in Nat /\ Len(ownerEvents') = Len(ownerEvents) + 1
      /\ \A i \in 1..Len(ownerEvents) : ownerEvents'[i] = ownerEvents[i]
      /\ ownerEvents'[Len(ownerEvents) + 1] = e
  BY OwnerTypes, AppendHas
<1>2. \A i \in 1..Len(ownerEvents') : i \in 1..Len(ownerEvents) \/ i = Len(ownerEvents) + 1
  BY <1>1
<1>3. 1..Len(ownerEvents) \subseteq 1..Len(ownerEvents')
  BY <1>1
<1>4. Speaks(w)' <=> Speaks(w)
  BY <1>1, <1>2, <1>3 DEF Speaks
<1>5. (owner' # None) = (owner # None)
  OBVIOUS
<1>6. ASSUME NEW i \in 1..Len(ownerEvents'), ownerEvents'[i][1] = w,
             \A j \in 1..Len(ownerEvents') : j > i => ownerEvents'[j][1] # w
      PROVE  ownerEvents'[i][2] = (owner' # None)
  <2>1. i \in 1..Len(ownerEvents) /\ ownerEvents'[i] = ownerEvents[i]
    BY <1>1, <1>2, <1>6
  <2>2. \A j \in 1..Len(ownerEvents) : j > i => ownerEvents[j][1] # w
    BY <1>1, <1>3, <1>6
  <2>3. ownerEvents[i][2] = (owner # None)
    BY <1>6, <2>1, <2>2 DEF WatchInv
  <2> QED BY <1>5, <2>1, <2>3
<1>7. ~Has(ownerRequests', <<"unwatch", w>>) /\ (w \in watching' \/ Has(ownerRequests', <<"watch", w>>))
  BY DEF WatchInv
<1>8. w \notin watching' => told'[w] = None /\ ~Speaks(w)'
  BY <1>4 DEF WatchInv
<1>9. ~Speaks(w)' /\ told'[w] # None => told'[w] = (owner' # None)
  BY <1>4, <1>5 DEF WatchInv
<1> QED BY <1>6, <1>7, <1>8, <1>9 DEF WatchInv

\* The server reports a change to the watchers.
LEMMA WatchLearns ==
    ASSUME NEW w \in Watcher, WatchInv(w), OwnerTypeInv, NEW kind \in ChangeKinds, NEW b \in BOOLEAN,
           NEW s \in Seq(OwnerNews), (\E j \in 1..Len(s) : s[j][1] = w) => Speaks(w),
           ownerEvents' = s \o Notices(kind, b), b = (owner' # None),
           told' = told, watching' = watching,
           Has(ownerRequests', <<"unwatch", w>>) => Has(ownerRequests, <<"unwatch", w>>),
           Has(ownerRequests, <<"watch", w>>) => Has(ownerRequests', <<"watch", w>>)
    PROVE  WatchInv(w)'
<1> PICK t : t = ownerEvents'
  OBVIOUS
<1>1. /\ t \in Seq(OwnerNews)
      /\ \A v \in watching : \E i \in 1..Len(t) : t[i][1] = v
      /\ \A v \in watching, i \in 1..Len(t) :
             t[i][1] = v /\ (\A j \in 1..Len(t) : j > i => t[j][1] # v) => t[i][2] = b
      /\ \A v \in Watcher \ watching, i \in 1..Len(t) : t[i][1] = v => \E j \in 1..Len(s) : s[j][1] = v
  <2>1. watching \subseteq Watcher /\ t = s \o Notices(kind, b)
    BY OwnerTypes
  <2>2. Reports(s, t, b)
    BY <2>1, AddNotices
  <2> QED BY <2>2 DEF Reports
<1>2. ~Has(ownerRequests', <<"unwatch", w>>) /\ (w \in watching' \/ Has(ownerRequests', <<"watch", w>>))
  BY DEF WatchInv
<1>3. Speaks(w)' <=> \E i \in 1..Len(t) : t[i][1] = w
  BY DEF Speaks
<1>4. CASE w \in watching
  <2>1. Speaks(w)'
    BY <1>1, <1>3, <1>4
  <2>2. \A i \in 1..Len(t) : t[i][1] = w /\ (\A j \in 1..Len(t) : j > i => t[j][1] # w) => t[i][2] = (owner' # None)
    BY <1>1, <1>4, ZenonT(60)
  <2> QED BY <1>2, <1>4, <2>1, <2>2 DEF WatchInv
<1>5. CASE w \notin watching
  <2>1. ~Speaks(w) /\ told[w] = None
    BY <1>5 DEF WatchInv
  <2>2. \A i \in 1..Len(t) : t[i][1] # w
    BY <1>1, <1>5, <2>1
  <2> QED BY <1>2, <1>3, <1>5, <2>1, <2>2 DEF WatchInv
<1> QED BY <1>4, <1>5
-----------------------------------------------------------------------------
(* The server and the applications.                                        *)

\* Changes of the owner that awesome has not asked for.
LEMMA AppTakesKeeps == ASSUME OwnershipIInv, AppTakes PROVE OwnershipIInv'
<1> PICK s : s = IF owner \in Acquire THEN Append(ownerEvents, <<"clear", owner>>) ELSE ownerEvents
  OBVIOUS
<1>1. /\ owner' = "app" /\ behind' \in BOOLEAN /\ ownerEvents' = s \o Notices("set", TRUE)
      /\ watching' = watching /\ ownerRequests' = ownerRequests /\ reply' = reply /\ confused' = confused
      /\ life' = life /\ acquired' = acquired /\ registered' = registered /\ calls' = calls
      /\ active' = active /\ told' = told /\ outdated' = outdated
  BY DEF AppTakes, acquireVars, watcherVars
<1>2. OwnerTypeInv /\ AskingInv /\ LivesInv /\ (~confused => HeldInv)
  BY DEF OwnershipIInv
<1>3. /\ s \in Seq(OwnerNews)
      /\ \A o \in Acquire : owner = o \/ Has(ownerEvents, <<"clear", o>>) => Has(s, <<"clear", o>>)
      /\ \A w \in Watcher : (\E j \in 1..Len(s) : s[j][1] = w) => Speaks(w)
  <2>1. CASE owner \in Acquire
    <3> PICK e \in OwnerNews : e = <<"clear", owner>>
      BY <2>1 DEF OwnerNews
    <3>1. s = Append(ownerEvents, e)
      BY <2>1
    <3>2. /\ s \in Seq(OwnerNews) /\ Len(ownerEvents) \in Nat /\ Len(s) = Len(ownerEvents) + 1
          /\ \A i \in 1..Len(ownerEvents) : s[i] = ownerEvents[i]
          /\ s[Len(ownerEvents) + 1] = e
          /\ \A x : Has(s, x) <=> Has(ownerEvents, x) \/ x = e
      <4>1. ownerEvents \in Seq(OwnerNews)
        BY <1>2, OwnerTypes
      <4> PICK n : n = Append(ownerEvents, e)
        OBVIOUS
      <4>2. /\ n \in Seq(OwnerNews) /\ Len(ownerEvents) \in Nat /\ Len(n) = Len(ownerEvents) + 1
            /\ \A i \in 1..Len(ownerEvents) : n[i] = ownerEvents[i]
            /\ n[Len(ownerEvents) + 1] = e
        BY <4>1, AppendHas
      <4>3. \A x : Has(n, x) <=> Has(ownerEvents, x) \/ x = e
        BY <4>1, AppendHas
      <4> QED BY <3>1, <4>2, <4>3
    <3>3. ASSUME NEW w \in Watcher, NEW j \in 1..Len(s), s[j][1] = w PROVE Speaks(w)
      <4>1. w # "clear"
        BY OwnershipAssumption
      <4>2. j # Len(ownerEvents) + 1
        BY <3>2, <3>3, <4>1
      <4>3. j \in 1..Len(ownerEvents) /\ ownerEvents[j][1] = w
        BY <3>2, <3>3, <4>2
      <4> QED BY <4>3 DEF Speaks
    <3> QED BY <3>2, <3>3
  <2>2. CASE owner \notin Acquire
    BY <1>2, <2>2, OwnerTypes DEF Speaks
  <2> QED BY <2>1, <2>2
<1>4. "set" \in ChangeKinds /\ TRUE \in BOOLEAN
  BY DEF ChangeKinds
<1>5. watching \subseteq Watcher
  BY <1>2, OwnerTypes
<1>6. /\ ownerEvents' \in Seq(OwnerNews)
      /\ \A o \in Acquire : owner = o \/ Has(ownerEvents, <<"clear", o>>) => Has(ownerEvents', <<"clear", o>>)
  <2> PICK t : t = ownerEvents'
    OBVIOUS
  <2>1. Reports(s, t, TRUE)
    BY <1>1, <1>3, <1>4, <1>5, AddNotices
  <2> QED BY <1>3, <2>1 DEF Reports
<1>7. owner' \notin Acquire /\ owner' # None
  BY <1>1, OwnershipAssumption
<1>8. OwnerTypeInv'
  BY <1>1, <1>2, <1>6 DEF OwnerTypeInv, SelectionOwnerTypeOK, OwnerNews
<1>9. \A o \in Acquire : Asked(o)' <=> Asked(o)
  BY <1>1 DEF Asked
<1>10. AskingInv'
  BY <1>1, <1>2, <1>6, <1>7, <1>9 DEF AskingInv
<1>11. LivesInv'
  BY <1>1, <1>2, <1>7, <1>9 DEF LivesInv
<1>12. \A o \in Acquire : Knows(o) => Knows(o)'
  BY <1>6, <1>9 DEF Knows, Overtaken
<1>13. ~confused' => HeldInv'
  BY <1>1, <1>2, <1>12, HeldStays
<1>14. ASSUME NEW w \in active' \ outdated' PROVE WatchInv(w)'
  <2>1. w \in Watcher /\ WatchInv(w)
    BY <1>1, <1>2, OwnerTypes DEF OwnershipIInv
  <2>2. TRUE = (owner' # None)
    BY <1>7
  <2> QED BY <1>1, <1>2, <1>3, <1>4, <2>1, <2>2, WatchLearns
<1> QED BY <1>8, <1>10, <1>11, <1>13, <1>14 DEF OwnershipIInv

LEMMA AppLosesKeeps == ASSUME OwnershipIInv, AppLoses PROVE OwnershipIInv'
<1> PICK kind \in ChangeKinds : ownerEvents' = ownerEvents \o Notices(kind, FALSE)
  BY DEF AppLoses
<1>1. /\ owner = "app" /\ owner' = None
      /\ UNCHANGED <<watching, ownerRequests, reply, confused, life, acquired, registered, calls, active,
                     told, outdated, behind>>
  BY DEF AppLoses, acquireVars, watcherVars
<1>2. OwnerTypeInv /\ AskingInv /\ LivesInv /\ (~confused => HeldInv)
  BY DEF OwnershipIInv
<1>3. watching \subseteq Watcher /\ ownerEvents \in Seq(OwnerNews) /\ FALSE \in BOOLEAN
  BY <1>2, OwnerTypes
<1>4. /\ ownerEvents' \in Seq(OwnerNews)
      /\ \A o \in Acquire : Has(ownerEvents, <<"clear", o>>) => Has(ownerEvents', <<"clear", o>>)
  <2> PICK t : t = ownerEvents'
    OBVIOUS
  <2>1. Reports(ownerEvents, t, FALSE)
    BY <1>3, AddNotices
  <2> QED BY <2>1 DEF Reports
<1>5. \A o \in Acquire : owner # o /\ owner' # o
  BY <1>1, OwnershipAssumption
<1>6. OwnerTypeInv'
  BY <1>1, <1>2, <1>4 DEF OwnerTypeInv, SelectionOwnerTypeOK, OwnerNews
<1>7. \A o \in Acquire : Asked(o)' <=> Asked(o)
  BY <1>1 DEF Asked
<1>8. AskingInv'
  BY <1>1, <1>2, <1>4, <1>5, <1>7 DEF AskingInv
<1>9. LivesInv'
  BY <1>1, <1>2, <1>5, <1>7 DEF LivesInv
<1>10. \A o \in Acquire : Knows(o) => Knows(o)'
  BY <1>4, <1>5, <1>7 DEF Knows, Overtaken
<1>11. ~confused' => HeldInv'
  BY <1>1, <1>2, <1>10, HeldStays
<1>12. ASSUME NEW w \in active' \ outdated' PROVE WatchInv(w)'
  <2>1. w \in Watcher /\ WatchInv(w)
    BY <1>1, <1>2, OwnerTypes DEF OwnershipIInv
  <2>2. FALSE = (owner' # None)
    BY <1>1
  <2>3. (\E j \in 1..Len(ownerEvents) : ownerEvents[j][1] = w) => Speaks(w)
    BY DEF Speaks
  <2> QED BY <1>1, <1>2, <1>3, <2>1, <2>2, <2>3, WatchLearns
<1> QED BY <1>6, <1>8, <1>9, <1>11, <1>12 DEF OwnershipIInv

LEMMA AppAsksKeeps == ASSUME OwnershipIInv, AppAsks PROVE OwnershipIInv'
<1>1. /\ owner \in Acquire /\ ownerEvents' = Append(ownerEvents, <<"request", owner>>)
      /\ UNCHANGED <<owner, behind, watching, ownerRequests, reply, confused, life, acquired, registered,
                     calls, active, told, outdated>>
  BY DEF AppAsks, serverOwnerVars, acquireVars, watcherVars
<1>2. OwnerTypeInv /\ AskingInv /\ LivesInv /\ (~confused => HeldInv)
  BY DEF OwnershipIInv
<1>3. <<"request", owner>> \in OwnerNews
  BY <1>1 DEF OwnerNews
<1>4. /\ ownerEvents' \in Seq(OwnerNews)
      /\ \A x : Has(ownerEvents', x) <=> Has(ownerEvents, x) \/ x = <<"request", owner>>
  <2>1. ownerEvents \in Seq(OwnerNews)
    BY <1>2, OwnerTypes
  <2>2. Appended(OwnerNews, ownerEvents, <<"request", owner>>, ownerEvents')
    BY <1>1, <1>3, <2>1, AppendIs
  <2> QED BY <2>2 DEF Appended
<1>5. OwnerTypeInv'
  BY <1>1, <1>2, <1>4 DEF OwnerTypeInv, SelectionOwnerTypeOK, OwnerNews
<1>6. \A o \in Acquire : Asked(o)' <=> Asked(o)
  BY <1>1 DEF Asked
<1>7. AskingInv'
  BY <1>1, <1>2, <1>4, <1>6 DEF AskingInv
<1>8. LivesInv'
  BY <1>1, <1>2, <1>6 DEF LivesInv
<1>9. \A o \in Acquire : Knows(o) => Knows(o)'
  BY <1>1, <1>4, <1>6 DEF Knows, Overtaken
<1>10. ~confused' => HeldInv'
  BY <1>1, <1>2, <1>9, HeldStays
<1>11. ASSUME NEW w \in active' \ outdated' PROVE WatchInv(w)'
  <2>1. w \in Watcher /\ WatchInv(w)
    BY <1>1, <1>2, OwnerTypes DEF OwnershipIInv
  <2>2. <<"request", owner>>[1] # w
    BY <2>1, OwnershipAssumption
  <2> QED BY <1>1, <1>2, <1>3, <2>1, <2>2, WatchPasses
<1> QED BY <1>5, <1>7, <1>8, <1>10, <1>11 DEF OwnershipIInv

-----------------------------------------------------------------------------
(* The server executes a request.                                          *)

LEMMA ExecuteOwnerRequestKeeps == ASSUME OwnershipIInv, ExecuteOwnerRequest PROVE OwnershipIInv'
<1> PICK op, x : op = Head(ownerRequests)[1] /\ x = Head(ownerRequests)[2]
  OBVIOUS
<1>1. /\ ownerRequests # <<>> /\ ownerRequests' = Tail(ownerRequests)
      /\ \/ op = "own" /\ Own(x)
         \/ op = "destroy" /\ Destroy(x)
         \/ op \in {"who", "watch", "unwatch"} /\ UNCHANGED <<owner, ownerEvents>>
      /\ reply' = IF op = "who" THEN owner ELSE reply
      /\ watching' = CASE op = "watch" -> watching \cup {x}
                       [] op = "unwatch" -> watching \ {x}
                       [] OTHER -> watching
      /\ UNCHANGED <<behind, confused, life, acquired, registered, calls, active, told, outdated>>
  BY DEF ExecuteOwnerRequest, acquireVars, watcherVars
<1>2. OwnerTypeInv /\ AskingInv /\ LivesInv /\ (~confused => HeldInv)
  BY DEF OwnershipIInv
<1>3. /\ ownerRequests' \in Seq(OwnerOps) /\ Len(ownerRequests) \in Nat \ {0}
      /\ Len(ownerRequests') = Len(ownerRequests) - 1
      /\ Head(ownerRequests) = ownerRequests[1] /\ Head(ownerRequests) \in OwnerOps
      /\ \A i \in 1..Len(ownerRequests') : ownerRequests'[i] = ownerRequests[i + 1]
      /\ \A r : Has(ownerRequests, r) <=> Has(ownerRequests', r) \/ r = Head(ownerRequests)
  BY <1>1, <1>2, OwnerTypes, TailHas
<1>4. /\ Head(ownerRequests) = <<op, x>> /\ Has(ownerRequests, <<op, x>>)
      /\ op \in {"own", "who", "destroy"} => x \in Acquire
      /\ op \in {"watch", "unwatch"} => x \in Watcher
      /\ op \in {"own", "who", "destroy", "watch", "unwatch"}
  <2>1. Head(ownerRequests) = <<op, x>>
    BY <1>3 DEF OwnerOps
  <2>2. /\ op \in {"own", "who", "destroy"} => x \in Acquire
        /\ op \in {"watch", "unwatch"} => x \in Watcher
        /\ op \in {"own", "who", "destroy", "watch", "unwatch"}
    BY <1>3 DEF OwnerOps
  <2> QED BY <1>3, <2>1, <2>2
<1>5. \A o \in Acquire : Asked(o)' <=> Asked(o)
  BY <1>1 DEF Asked
<1>6. /\ op \in {"own", "who"} => Asked(x) /\ reply = "none" /\ life[x] = "live"
      /\ op = "destroy" => life[x] = "dead"
      /\ op = "who" => Len(ownerRequests) = 1
  <2>1. op \in {"own", "who"} => Asked(x) /\ reply = "none"
    BY <1>2, <1>4 DEF AskingInv
  <2>2. op = "who" => Len(ownerRequests) = 1
    BY <1>2, <1>3, <1>4 DEF AskingInv
  <2>3. op \in {"own", "who"} => life[x] = "live"
    BY <2>1, <1>2, <1>4 DEF LivesInv
  <2>4. op = "destroy" => life[x] = "dead"
    BY <1>2, <1>4 DEF LivesInv
  <2> QED BY <2>1, <2>2, <2>3, <2>4
\* How the owner changes.
<1>7. \/ owner' = owner /\ ownerEvents' = ownerEvents
      \/ op = "own" /\ owner' = x /\ ownerEvents' = ownerEvents \o Notices("set", TRUE)
      \/ op = "destroy" /\ owner = x /\ owner' = None /\ ownerEvents' = ownerEvents \o Notices("destroy", FALSE)
  BY <1>1 DEF Own, Destroy
<1>8. op = "destroy" => owner' # x
  BY <1>1, <1>4, OwnershipAssumption DEF Destroy
<1>9. watching \subseteq Watcher /\ ownerEvents \in Seq(OwnerNews) /\ FALSE \in BOOLEAN /\ TRUE \in BOOLEAN
      /\ "set" \in ChangeKinds /\ "destroy" \in ChangeKinds
  BY <1>2, OwnerTypes DEF ChangeKinds
<1>10. /\ ownerEvents' \in Seq(OwnerNews)
       /\ \A o \in Acquire : Has(ownerEvents, <<"clear", o>>) => Has(ownerEvents', <<"clear", o>>)
  <2> PICK t : t = ownerEvents'
    OBVIOUS
  <2>1. CASE t = ownerEvents
    BY <1>9, <2>1
  <2>2. ASSUME NEW kind \in ChangeKinds, NEW b \in BOOLEAN, t = ownerEvents \o Notices(kind, b)
        PROVE  t \in Seq(OwnerNews) /\ \A o \in Acquire : Has(ownerEvents, <<"clear", o>>) => Has(t, <<"clear", o>>)
    <3>1. Reports(ownerEvents, t, b)
      BY <1>9, <2>2, AddNotices
    <3> QED BY <3>1 DEF Reports
  <2>3. t \in Seq(OwnerNews) /\ \A o \in Acquire : Has(ownerEvents, <<"clear", o>>) => Has(t, <<"clear", o>>)
    BY <1>7, <1>9, <2>1, <2>2
  <2> QED BY <2>3
<1>11. owner' \in Acquire \cup {"app", None} /\ watching' \subseteq Watcher
       /\ reply' \in Acquire \cup {"app", None, "none"}
  <2>1. owner' \in Acquire \cup {"app", None}
    BY <1>2, <1>4, <1>7, OwnerTypes
  <2>2. watching' \subseteq Watcher
    BY <1>1, <1>4, <1>9
  <2>3. reply' \in Acquire \cup {"app", None, "none"}
    BY <1>1, <1>2, OwnerTypes
  <2> QED BY <2>1, <2>2, <2>3
<1>12. OwnerTypeInv'
  BY <1>1, <1>2, <1>3, <1>10, <1>11 DEF OwnerTypeInv, SelectionOwnerTypeOK, OwnerNews
<1>13. AskingInv'
  <2>1. \A i \in 1..Len(calls') : calls'[i][1] = "asked" => i = Len(calls')
    BY <1>1, <1>2 DEF AskingInv
  <2>2. reply' # "none" => \E o \in Acquire : Asked(o)'
    <3>1. CASE op = "who"
      BY <1>4, <1>5, <1>6, <3>1
    <3>2. CASE op # "who"
      BY <1>1, <1>2, <1>5, <3>2 DEF AskingInv
    <3> QED BY <3>1, <3>2
  <2>3. ASSUME NEW o \in Acquire, Has(ownerRequests', <<"own", o>>) \/ Has(ownerRequests', <<"who", o>>)
        PROVE  Asked(o)' /\ reply' = "none"
    <3>1. Asked(o) /\ reply = "none"
      BY <1>2, <1>3, <2>3 DEF AskingInv
    <3>2. op # "who"
      BY <1>3, <1>6, <2>3 DEF Has
    <3> QED BY <1>1, <1>5, <3>1, <3>2
  <2>4. \A i \in 1..Len(ownerRequests') : ownerRequests'[i][1] = "who" => i = Len(ownerRequests')
    <3>1. SUFFICES ASSUME NEW i \in 1..Len(ownerRequests'), ownerRequests'[i][1] = "who"
                   PROVE  i = Len(ownerRequests')
      OBVIOUS
    <3>2. i + 1 \in 1..Len(ownerRequests) /\ ownerRequests[i + 1][1] = "who"
      BY <1>3, <3>1
    <3>3. i + 1 = Len(ownerRequests)
      BY <1>2, <3>2 DEF AskingInv
    <3> QED BY <1>3, <3>3
  <2>5. ASSUME NEW o \in Acquire, Asked(o), reply' # "none"
        PROVE  IF reply' = o THEN owner' = o \/ Has(ownerEvents', <<"clear", o>>) ELSE owner' # o
    <3>1. CASE op = "who"
      BY <1>1, <1>7, <3>1
    <3>2. CASE op # "who"
      <4>1. reply' = reply /\ reply # "none" /\ op # "own"
        BY <1>1, <1>6, <2>5, <3>2
      <4>2. IF reply = o THEN owner = o \/ Has(ownerEvents, <<"clear", o>>) ELSE owner # o
        BY <1>2, <2>5, <4>1 DEF AskingInv
      <4>3. life[o] = "live"
        BY <1>2, <2>5 DEF LivesInv
      <4>4. CASE owner' = owner
        BY <1>10, <4>1, <4>2, <4>4
      <4>5. CASE op = "destroy" /\ owner = x /\ owner' = None
        <5>1. x # o /\ owner' # o
          BY <1>6, <4>3, <4>5, OwnershipAssumption
        <5> QED BY <1>10, <4>1, <4>2, <4>5, <5>1
      <4> QED BY <1>7, <4>1, <4>4, <4>5
    <3> QED BY <3>1, <3>2
  <2>6. \A o \in Acquire : Asked(o)' /\ reply' # "none" =>
           IF reply' = o THEN owner' = o \/ Has(ownerEvents', <<"clear", o>>) ELSE owner' # o
    BY <1>5, <2>5
  <2> QED BY <2>1, <2>2, <2>3, <2>4, <2>6 DEF AskingInv
<1>14. LivesInv'
  <2>1. ASSUME NEW o \in Acquire, owner' = o
        PROVE  life'[o] # "new" /\ (life'[o] = "dead" => Has(ownerRequests', <<"destroy", o>>))
    <3>1. CASE op = "own" /\ o = x
      BY <1>1, <1>6, <3>1
    <3>2. CASE owner' = owner
      <4>1. life[o] # "new" /\ (life[o] = "dead" => Has(ownerRequests, <<"destroy", o>>))
        BY <1>2, <2>1, <3>2 DEF LivesInv
      <4>2. <<"destroy", o>> # <<op, x>>
        BY <1>8, <2>1
      <4> QED BY <1>1, <1>3, <1>4, <4>1, <4>2
    <3>3. owner' # None
      BY <2>1, OwnershipAssumption
    <3> QED BY <1>7, <2>1, <3>1, <3>2, <3>3
  <2>2. \A o \in Acquire : Has(ownerRequests', <<"destroy", o>>) => life'[o] = "dead"
    BY <1>1, <1>2, <1>3 DEF LivesInv
  <2>3. \A o \in Acquire : /\ life'[o] = "live" => o \in acquired'
                           /\ o \in acquired' => life'[o] # "new"
                           /\ Asked(o)' => life'[o] = "live" /\ registered' # o
                           /\ registered' = o => life'[o] # "new"
    BY <1>1, <1>2, <1>5 DEF LivesInv
  <2>4. \A i \in 1..Len(calls') : life'[calls'[i][2]] # "new"
    BY <1>1, <1>2 DEF LivesInv
  <2> QED BY <2>1, <2>2, <2>3, <2>4 DEF LivesInv
<1>15. ASSUME NEW o \in Acquire, life[o] = "live", Knows(o) PROVE Knows(o)'
  <2>1. ASSUME NEW q \in Acquire, life[q] = "live", owner = q PROVE owner' = q \/ Overtaken'
    <3>1. CASE op = "own" /\ owner' = x
      BY <1>4, <1>5, <1>6, <3>1 DEF Overtaken
    <3>2. CASE op = "destroy" /\ owner = x
      BY <1>6, <2>1, <3>2
    <3> QED BY <1>7, <2>1, <3>1, <3>2
  <2>2. CASE owner = o
    BY <1>15, <2>1, <2>2 DEF Knows
  <2>3. CASE Has(ownerEvents, <<"clear", o>>)
    BY <1>10, <2>3 DEF Knows
  <2>4. CASE Overtaken
    <3>1. PICK q \in Acquire : Asked(q) /\ (owner = q \/ Has(ownerEvents, <<"clear", q>>))
      BY <2>4 DEF Overtaken
    <3>2. life[q] = "live"
      BY <1>2, <3>1 DEF LivesInv
    <3>3. Overtaken'
      BY <1>5, <1>10, <2>1, <3>1, <3>2 DEF Overtaken
    <3> QED BY <3>3 DEF Knows
  <2> QED BY <1>15, <2>2, <2>3, <2>4 DEF Knows
<1>16. ~confused' => HeldInv'
  BY <1>1, <1>2, <1>15, HeldStays
<1>17. ASSUME NEW w \in active' \ outdated' PROVE WatchInv(w)'
  <2>0. w \in Watcher /\ WatchInv(w)
    BY <1>1, <1>2, OwnerTypes DEF OwnershipIInv
  <2>1. Has(ownerRequests', <<"unwatch", w>>) => Has(ownerRequests, <<"unwatch", w>>)
    BY <1>3
  <2>2. <<op, x>> # <<"watch", w>> => (Has(ownerRequests, <<"watch", w>>) => Has(ownerRequests', <<"watch", w>>))
    BY <1>3, <1>4
  <2>3. CASE op = "own" /\ owner' = x /\ ownerEvents' = ownerEvents \o Notices("set", TRUE)
    <3>1. TRUE = (owner' # None) /\ watching' = watching
      BY <1>1, <1>4, <2>3, OwnershipAssumption
    <3>2. (\E j \in 1..Len(ownerEvents) : ownerEvents[j][1] = w) => Speaks(w)
      BY DEF Speaks
    <3>3. Has(ownerRequests, <<"watch", w>>) => Has(ownerRequests', <<"watch", w>>)
      BY <2>2, <2>3
    <3> QED BY <1>1, <1>2, <1>9, <2>0, <2>1, <2>3, <3>1, <3>2, <3>3, WatchLearns
  <2>4. CASE op = "destroy" /\ owner = x /\ owner' = None /\ ownerEvents' = ownerEvents \o Notices("destroy", FALSE)
    <3>1. FALSE = (owner' # None) /\ watching' = watching
      BY <1>1, <2>4
    <3>2. (\E j \in 1..Len(ownerEvents) : ownerEvents[j][1] = w) => Speaks(w)
      BY DEF Speaks
    <3>3. Has(ownerRequests, <<"watch", w>>) => Has(ownerRequests', <<"watch", w>>)
      BY <2>2, <2>4
    <3> QED BY <1>1, <1>2, <1>9, <2>0, <2>1, <2>4, <3>1, <3>2, <3>3, WatchLearns
  <2>5. CASE owner' = owner /\ ownerEvents' = ownerEvents /\ <<op, x>> # <<"watch", w>>
    <3>1. <<op, x>> # <<"unwatch", w>>
      BY <1>4, <2>0 DEF WatchInv
    <3>2. w \in watching' <=> w \in watching
      BY <1>1, <2>5, <3>1
    <3> QED BY <1>1, <2>0, <2>1, <2>2, <2>5, <3>2, WatchStays
  <2>6. CASE owner' = owner /\ ownerEvents' = ownerEvents /\ <<op, x>> = <<"watch", w>>
    <3>1. w \in watching' /\ ~Has(ownerRequests', <<"unwatch", w>>)
      BY <1>1, <2>0, <2>1, <2>6 DEF WatchInv
    <3>2. Speaks(w)' <=> Speaks(w)
      BY <2>6 DEF Speaks
    <3> QED BY <1>1, <2>0, <2>6, <3>1, <3>2 DEF WatchInv
  <2> QED BY <1>7, <2>3, <2>4, <2>5, <2>6
<1> QED BY <1>12, <1>13, <1>14, <1>16, <1>17 DEF OwnershipIInv
-----------------------------------------------------------------------------
(* Acquire objects.                                                        *)

\* Lua code calls something.
LEMMA Pushed ==
    ASSUME OwnerTypeInv, AskingInv, LuaRuns, NEW c \in OwnerCalls, calls' = Append(calls, c)
    PROVE  /\ calls' \in Seq(OwnerCalls) /\ Len(calls) \in Nat /\ Len(calls') = Len(calls) + 1
           /\ \A i \in 1..Len(calls) : calls'[i] = calls[i] /\ calls[i][1] # "asked"
           /\ calls'[Len(calls')] = c
           /\ \A x : Has(calls', x) <=> Has(calls, x) \/ x = c
           /\ \A o \in Acquire : ~Asked(o) /\ (Asked(o)' <=> c = <<"asked", o>>)
           /\ Len(calls) > 0 => calls[Len(calls)][1] = "release"
           /\ reply = "none"
           /\ \A o \in Acquire : ~Has(ownerRequests, <<"own", o>>) /\ ~Has(ownerRequests, <<"who", o>>)
<1>1. calls \in Seq(OwnerCalls)
  BY OwnerTypes
<1>2. /\ calls' \in Seq(OwnerCalls) /\ Len(calls) \in Nat /\ Len(calls') = Len(calls) + 1
      /\ \A i \in 1..Len(calls) : calls'[i] = calls[i]
      /\ calls'[Len(calls) + 1] = c
      /\ \A x : Has(calls', x) <=> Has(calls, x) \/ x = c
  BY <1>1, AppendHas
<1>3. Len(calls) > 0 => calls[Len(calls)][1] = "release"
  <2>1. calls # <<>> => Innermost = calls[Len(calls)] /\ Innermost[1] \in {"asked", "register", "release"}
    BY TopCall
  <2>2. calls = <<>> => Len(calls) = 0
    BY TopCall
  <2>3. Innermost[1] = "main loop" \/ Innermost[1] = "release"
    BY DEF LuaRuns
  <2>4. CASE calls = <<>>
    BY <2>2, <2>4
  <2>5. CASE calls # <<>>
    BY <2>1, <2>3, <2>5
  <2> QED BY <2>4, <2>5
<1>4. \A o \in Acquire : ~Asked(o)
  BY <1>3 DEF Asked
<1>5. \A i \in 1..Len(calls) : calls[i][1] # "asked"
  BY <1>2, <1>3 DEF AskingInv
<1>6. \A o \in Acquire : Asked(o)' <=> c = <<"asked", o>>
  BY <1>2 DEF Asked
<1>7. reply = "none" /\ \A o \in Acquire : ~Has(ownerRequests, <<"own", o>>) /\ ~Has(ownerRequests, <<"who", o>>)
  BY <1>4 DEF AskingInv
<1>8. calls'[Len(calls')] = c
  BY <1>2
<1> QED BY <1>2, <1>3, <1>4, <1>5, <1>6, <1>7, <1>8

\* A call ends.
LEMMA Popped ==
    ASSUME OwnerTypeInv, AskingInv, calls # <<>>, calls' = Front(calls)
    PROVE  /\ calls' \in Seq(OwnerCalls) /\ Len(calls) \in Nat \ {0} /\ Len(calls') = Len(calls) - 1
           /\ \A i \in 1..Len(calls') : calls'[i] = calls[i] /\ calls[i][1] # "asked"
           /\ Innermost = calls[Len(calls)]
           /\ \A x : Has(calls, x) <=> Has(calls', x) \/ x = Innermost
           /\ \A o \in Acquire : ~Asked(o)'
<1>1. calls \in Seq(OwnerCalls)
  BY OwnerTypes
<1>2. Innermost = calls[Len(calls)]
  BY TopCall
<1>3. /\ calls' \in Seq(OwnerCalls) /\ Len(calls) \in Nat \ {0} /\ Len(calls') = Len(calls) - 1
      /\ \A i \in 1..Len(calls') : calls'[i] = calls[i]
      /\ \A x : Has(calls, x) <=> Has(calls', x) \/ x = calls[Len(calls)]
  BY <1>1, FrontHas
<1>4. \A i \in 1..Len(calls') : calls[i][1] # "asked"
  BY <1>3 DEF AskingInv
<1>5. \A o \in Acquire : ~Asked(o)'
  <2>1. SUFFICES ASSUME NEW o \in Acquire, Len(calls') > 0, calls'[Len(calls')] = <<"asked", o>> PROVE FALSE
    BY DEF Asked
  <2>2. Len(calls') \in 1..Len(calls')
    BY <1>3, <2>1
  <2> QED BY <1>3, <1>4, <2>1, <2>2
<1> QED BY <1>2, <1>3, <1>4, <1>5

LEMMA AcquireBeginKeeps ==
    ASSUME OwnershipIInv, NEW o \in Acquire, AcquireBegin(o)
    PROVE  OwnershipIInv'
<1> PICK c \in OwnerCalls : c = <<"asked", o>>
  BY DEF OwnerCalls
<1> PICK a \in OwnerOps : a = <<"own", o>>
  BY DEF OwnerOps
<1> PICK b \in OwnerOps : b = <<"who", o>>
  BY DEF OwnerOps
<1>1. /\ LuaRuns /\ life[o] = "new" /\ life' = [life EXCEPT ![o] = "live"] /\ acquired' = acquired \cup {o}
      /\ ownerRequests' = ownerRequests \o <<a, b>> /\ calls' = Append(calls, c)
      /\ UNCHANGED <<owner, behind, watching, reply, ownerEvents, registered, active, told, outdated, confused>>
  BY DEF AcquireBegin, watcherVars
<1>2. OwnerTypeInv /\ AskingInv /\ LivesInv /\ (~confused => HeldInv)
  BY DEF OwnershipIInv
<1>3. /\ calls' \in Seq(OwnerCalls) /\ Len(calls) \in Nat /\ Len(calls') = Len(calls) + 1
      /\ \A i \in 1..Len(calls) : calls'[i] = calls[i] /\ calls[i][1] # "asked"
      /\ calls'[Len(calls')] = c
      /\ \A x : Has(calls', x) <=> Has(calls, x) \/ x = c
      /\ \A q \in Acquire : ~Asked(q) /\ (Asked(q)' <=> c = <<"asked", q>>)
      /\ Len(calls) > 0 => calls[Len(calls)][1] = "release"
      /\ reply = "none"
      /\ \A q \in Acquire : ~Has(ownerRequests, <<"own", q>>) /\ ~Has(ownerRequests, <<"who", q>>)
  BY <1>1, <1>2, Pushed
<1>4. /\ ownerRequests' \in Seq(OwnerOps) /\ Len(ownerRequests) \in Nat
      /\ Len(ownerRequests') = Len(ownerRequests) + 2
      /\ \A i \in 1..Len(ownerRequests) : ownerRequests'[i] = ownerRequests[i]
      /\ ownerRequests'[Len(ownerRequests) + 1] = a /\ ownerRequests'[Len(ownerRequests) + 2] = b
      /\ \A x : Has(ownerRequests', x) <=> Has(ownerRequests, x) \/ x = a \/ x = b
  <2>1. ownerRequests \in Seq(OwnerOps)
    BY <1>2, OwnerTypes
  <2>2. PutTwo(OwnerOps, ownerRequests, a, b, ownerRequests')
    BY <1>1, <2>1, TwoMore
  <2> QED BY <2>2 DEF PutTwo
<1>5. \A q \in Acquire : Asked(q)' <=> q = o
  BY <1>3
<1>6. /\ life' \in [Acquire -> {"new", "live", "dead"}] /\ life'[o] = "live"
      /\ \A q \in Acquire : q # o => life'[q] = life[q]
  BY <1>1, <1>2, OwnerTypes
<1>7. OwnerTypeInv'
  BY <1>1, <1>2, <1>3, <1>4, <1>6 DEF OwnerTypeInv, SelectionOwnerTypeOK, OwnerCalls
<1>8. AskingInv'
  <2>1. \A i \in 1..Len(calls') : calls'[i][1] = "asked" => i = Len(calls')
    <3>1. \A i \in 1..Len(calls') : i \in 1..Len(calls) \/ i = Len(calls')
      BY <1>3
    <3> QED BY <1>3, <3>1
  <2>2. ASSUME NEW i \in 1..Len(ownerRequests'), ownerRequests'[i][1] = "who"
        PROVE  i = Len(ownerRequests')
    <3>1. CASE i \in 1..Len(ownerRequests)
      <4>1. ownerRequests[i] \in OwnerOps /\ ownerRequests[i][1] = "who"
        BY <1>2, <1>4, <2>2, <3>1, OwnerTypes, ElementOfSeq
      <4>2. ownerRequests[i] = <<"who", ownerRequests[i][2]>> /\ ownerRequests[i][2] \in Acquire
        BY <4>1 DEF OwnerOps
      <4> QED BY <1>3, <3>1, <4>2 DEF Has
    <3>2. CASE i = Len(ownerRequests) + 1
      <4>1. a[1] = "who"
        BY <1>4, <2>2, <3>2
      <4> QED BY <4>1
    <3>3. CASE i = Len(ownerRequests) + 2
      BY <1>4, <3>3
    <3>4. i \in 1..Len(ownerRequests) \/ i = Len(ownerRequests) + 1 \/ i = Len(ownerRequests) + 2
      BY ONLY <1>4, <2>2, SMTT(30)
    <3>5. Len(ownerRequests') = Len(ownerRequests) + 2
      BY <1>4
    <3> QED BY ONLY <3>1, <3>2, <3>3, <3>4, <3>5
  <2>3. \A q \in Acquire : Has(ownerRequests', <<"own", q>>) \/ Has(ownerRequests', <<"who", q>>) =>
                               Asked(q)' /\ reply' = "none"
    BY <1>1, <1>3, <1>4, <1>5
  <2> QED BY <1>1, <1>3, <2>1, <2>2, <2>3 DEF AskingInv
<1>9. \A i \in 1..Len(calls) : calls[i][2] # o
  BY <1>1, <1>2 DEF LivesInv
<1>10. LivesInv'
  <2>1. \A q \in Acquire : owner' = q => life'[q] # "new" /\ (life'[q] = "dead" => Has(ownerRequests', <<"destroy", q>>))
    BY <1>1, <1>2, <1>4, <1>6 DEF LivesInv
  <2>2. \A q \in Acquire : Has(ownerRequests', <<"destroy", q>>) => life'[q] = "dead"
    BY <1>1, <1>2, <1>4, <1>6 DEF LivesInv
  <2>3. \A q \in Acquire : /\ life'[q] = "live" => q \in acquired'
                           /\ q \in acquired' => life'[q] # "new"
                           /\ Asked(q)' => life'[q] = "live" /\ registered' # q
                           /\ registered' = q => life'[q] # "new"
    BY <1>1, <1>2, <1>5, <1>6 DEF LivesInv
  <2>4. \A i \in 1..Len(calls') : life'[calls'[i][2]] # "new"
    <3>1. \A i \in 1..Len(calls') : i \in 1..Len(calls) \/ i = Len(calls')
      BY <1>3
    <3>2. \A i \in 1..Len(calls) : calls[i][2] \in Acquire /\ life[calls[i][2]] # "new"
      BY <1>2, TopCall DEF LivesInv
    <3> QED BY <1>3, <1>6, <1>9, <3>1, <3>2
  <2> QED BY <2>1, <2>2, <2>3, <2>4 DEF LivesInv
<1>11. ASSUME ~confused' PROVE HeldInv'
  <2>0. HeldInv /\ ~Overtaken
    BY <1>1, <1>2, <1>3, <1>11 DEF Overtaken
  <2>1. \A q \in Acquire : Knows(q) => Knows(q)'
    BY <1>1, <2>0 DEF Knows
  <2>2. \A q \in Acquire : q = o => /\ registered # q /\ ~Has(calls, <<"release", q>>)
                                    /\ ~Has(calls, <<"register", q>>)
    BY <1>1, <1>2, <1>9 DEF LivesInv, Has
  <2>3. \A q \in Acquire : registered' = q => life'[q] = "live" /\ (Knows(q)' \/ Has(calls', <<"release", q>>))
    BY <1>1, <1>3, <1>6, <2>0, <2>1 DEF HeldInv
  <2>4. \A q \in Acquire : life'[q] = "live" => registered' = q \/ Asked(q)' \/ Has(calls', <<"register", q>>)
    BY <1>1, <1>3, <1>5, <1>6, <2>0 DEF HeldInv
  <2>5. \A q \in Acquire : Has(calls', <<"release", q>>) /\ q \in acquired' => registered' = q
    BY <1>1, <1>3, <2>0, <2>2 DEF HeldInv
  <2>6. \A q \in Acquire : Has(calls', <<"register", q>>) =>
            life'[q] = "live" /\ registered' # q /\ Knows(q)' /\ ~Asked(q)'
    BY <1>1, <1>3, <1>5, <1>6, <2>0, <2>1, <2>2 DEF HeldInv
  <2>7. ASSUME NEW i \in 1..Len(calls'), calls'[i][1] = "register"
        PROVE  i # Len(calls') /\ calls'[i + 1][1] = "release" /\ MadeWayFor(i)'
    <3>1. i # Len(calls') /\ i \in 1..Len(calls) /\ calls[i][1] = "register"
      BY <1>3, <2>7
    <3>2. i # Len(calls) /\ i + 1 \in 1..Len(calls)
      BY <1>3, <3>1
    <3>3. calls[i + 1][1] = "release" /\ MadeWayFor(i)
      BY <2>0, <3>1, <3>2 DEF HeldInv
    <3>4. \A j \in 1..Len(calls') : calls'[j][1] = "asked" \/ (j \in 1..Len(calls) /\ calls'[j] = calls[j])
      <4>1. \A j \in 1..Len(calls') : j \in 1..Len(calls) \/ j = Len(calls')
        BY <1>3
      <4>2. calls'[Len(calls')][1] = "asked"
        BY <1>3
      <4> QED BY <1>3, <4>1, <4>2
    <3>5. MadeWayFor(i)'
      BY <1>1, <3>3, <3>4 DEF MadeWayFor
    <3>6. calls'[i + 1] = calls[i + 1]
      BY <1>3, <3>2
    <3> QED BY <3>1, <3>3, <3>5, <3>6
  <2> QED BY <2>3, <2>4, <2>5, <2>6, <2>7 DEF HeldInv
<1>12. ASSUME NEW w \in active' \ outdated' PROVE WatchInv(w)'
  <2>1. WatchInv(w) /\ w \in active \ outdated
    BY <1>1 DEF OwnershipIInv
  <2> QED BY <1>1, <1>4, <2>1, WatchStays
<1> QED BY <1>7, <1>8, <1>10, <1>11, <1>12 DEF OwnershipIInv
LEMMA RangeHas ==
    ASSUME NEW S, NEW s \in Seq(S), NEW x
    PROVE  x \in Range(s) <=> Has(s, x)
  BY LenProperties DEF Range, Has

\* What an acquire object is told: it is not the owner.
LEMMA AcquireFailsKeeps ==
    ASSUME OwnershipIInv, AcquireEnd, reply # Innermost[2]
    PROVE  OwnershipIInv'
<1> PICK o : o = Innermost[2]
  OBVIOUS
<1>1. /\ Innermost[1] = "asked" /\ reply # "none" /\ reply' = "none" /\ reply # o
      /\ life' = [life EXCEPT ![o] = "dead"]
      /\ ownerRequests' = Append(ownerRequests, <<"destroy", o>>)
      /\ calls' = Front(calls)
      /\ confused' = (confused \/ /\ registered # None \/ \E i \in DOMAIN calls : calls[i][1] = "register"
                                  /\ <<"clear", o>> \in Range(ownerEvents))
      /\ UNCHANGED <<owner, behind, watching, ownerEvents, acquired, active, told, outdated, registered>>
  BY DEF AcquireEnd, watcherVars
<1>2. OwnerTypeInv /\ AskingInv /\ LivesInv /\ (~confused => HeldInv)
  BY DEF OwnershipIInv
<1>3. calls # <<>> /\ o \in Acquire /\ Asked(o)
  <2>1. calls # <<>>
    BY <1>1, <1>2, TopCall
  <2> QED BY <1>1, <1>2, <2>1, TopCall
<1>4. /\ calls' \in Seq(OwnerCalls) /\ Len(calls) \in Nat \ {0} /\ Len(calls') = Len(calls) - 1
      /\ \A i \in 1..Len(calls') : calls'[i] = calls[i] /\ calls[i][1] # "asked"
      /\ Innermost = calls[Len(calls)]
      /\ \A x : Has(calls, x) <=> Has(calls', x) \/ x = Innermost
      /\ \A q \in Acquire : ~Asked(q)'
  BY <1>1, <1>2, <1>3, Popped
<1>5. \A q \in Acquire : Asked(q) => q = o
  BY <1>2, TopCall
<1> PICK e \in OwnerOps : e = <<"destroy", o>>
  BY <1>3 DEF OwnerOps
<1>6. /\ ownerRequests' \in Seq(OwnerOps)
      /\ Len(ownerRequests) \in Nat /\ Len(ownerRequests') = Len(ownerRequests) + 1
      /\ \A i \in 1..Len(ownerRequests) : ownerRequests'[i] = ownerRequests[i]
      /\ ownerRequests'[Len(ownerRequests) + 1] = e
      /\ \A x : Has(ownerRequests', x) <=> Has(ownerRequests, x) \/ x = e
  <2>1. ownerRequests' = Append(ownerRequests, e) /\ ownerRequests \in Seq(OwnerOps)
    BY <1>1, <1>2, OwnerTypes
  <2>2. Appended(OwnerOps, ownerRequests, e, ownerRequests')
    BY <2>1, AppendIs
  <2> QED BY <2>2 DEF Appended
<1>7. \A q \in Acquire : ~Has(ownerRequests, <<"own", q>>) /\ ~Has(ownerRequests, <<"who", q>>)
  BY <1>1, <1>2 DEF AskingInv
<1>8. /\ life' \in [Acquire -> {"new", "live", "dead"}] /\ life'[o] = "dead"
      /\ \A q \in Acquire : q # o => life'[q] = life[q]
  BY <1>1, <1>2, <1>3, OwnerTypes
<1>9. registered # o /\ owner # o /\ o \in acquired /\ life[o] = "live"
  BY <1>1, <1>2, <1>3 DEF AskingInv, LivesInv
<1>10. OwnerTypeInv'
  <2>1. confused' \in BOOLEAN
    BY <1>1, <1>2, OwnerTypes
  <2> QED BY <1>1, <1>2, <1>4, <1>6, <1>8, <2>1 DEF OwnerTypeInv, SelectionOwnerTypeOK, OwnerCalls
<1>11. AskingInv'
  <2>1. \A i \in 1..Len(calls') : calls'[i][1] # "asked"
    BY <1>4
  <2>2. \A q \in Acquire : ~Has(ownerRequests', <<"own", q>>) /\ ~Has(ownerRequests', <<"who", q>>)
    <3>1. \A q \in Acquire : e # <<"own", q>> /\ e # <<"who", q>>
      OBVIOUS
    <3> QED BY <1>6, <1>7, <3>1
  <2>3. ASSUME NEW i \in 1..Len(ownerRequests') PROVE ownerRequests'[i][1] # "who"
    <3>1. CASE i = Len(ownerRequests) + 1
      BY <1>6, <3>1
    <3>2. CASE i # Len(ownerRequests) + 1
      <4>1. i \in 1..Len(ownerRequests) /\ ownerRequests'[i] = ownerRequests[i]
        BY <1>6, <3>2
      <4>2. ownerRequests[i] \in OwnerOps
        BY <1>2, <4>1, OwnerTypes, ElementOfSeq
      <4>3. ownerRequests[i][1] = "who" => ownerRequests[i] = <<"who", ownerRequests[i][2]>>
                                           /\ ownerRequests[i][2] \in Acquire
        BY <4>2 DEF OwnerOps
      <4> QED BY <1>7, <4>1, <4>3 DEF Has
    <3> QED BY <3>1, <3>2
  <2> QED BY <1>1, <1>4, <2>1, <2>2, <2>3 DEF AskingInv
<1>12. LivesInv'
  <2>1. \A q \in Acquire : owner' = q => life'[q] # "new" /\ (life'[q] = "dead" => Has(ownerRequests', <<"destroy", q>>))
    BY <1>1, <1>2, <1>6, <1>8, <1>9 DEF LivesInv
  <2>2. \A q \in Acquire : Has(ownerRequests', <<"destroy", q>>) => life'[q] = "dead"
    BY <1>2, <1>6, <1>8 DEF LivesInv
  <2>3. \A q \in Acquire : /\ life'[q] = "live" => q \in acquired'
                           /\ q \in acquired' => life'[q] # "new"
                           /\ Asked(q)' => life'[q] = "live" /\ registered' # q
                           /\ registered' = q => life'[q] # "new"
    BY <1>1, <1>2, <1>4, <1>8 DEF LivesInv
  <2>4. ASSUME NEW i \in 1..Len(calls') PROVE life'[calls'[i][2]] # "new"
    <3>1. i \in 1..Len(calls) /\ calls'[i] = calls[i]
      BY <1>4
    <3>2. calls[i][2] \in Acquire /\ life[calls[i][2]] # "new"
      BY <1>2, <3>1, TopCall DEF LivesInv
    <3> QED BY <1>8, <3>1, <3>2
  <2> QED BY <2>1, <2>2, <2>3, <2>4 DEF LivesInv
<1>13. ASSUME ~confused' PROVE HeldInv'
  <2> PICK older \in BOOLEAN :
          older <=> (registered # None \/ \E i \in 1..Len(calls) : calls[i][1] = "register")
    OBVIOUS
  <2>0. HeldInv /\ (older => ~Has(ownerEvents, <<"clear", o>>))
    <3>1. DOMAIN calls = 1..Len(calls) /\ ownerEvents \in Seq(OwnerNews)
      BY <1>2, OwnerTypes, LenProperties
    <3> QED BY <1>1, <1>2, <1>13, <3>1, RangeHas
  <2>1. older => ~Overtaken
    BY <1>5, <1>9, <2>0 DEF Overtaken
  <2>2. \A q \in Acquire : older /\ Knows(q) => Knows(q)'
    BY <1>1, <2>1 DEF Knows
  <2>3. \A q \in Acquire, what \in {"register", "release"} :
            Has(calls, <<what, q>>) <=> Has(calls', <<what, q>>)
    BY <1>1, <1>4
  <2>4. \A q \in Acquire : registered' = q => life'[q] = "live" /\ (Knows(q)' \/ Has(calls', <<"release", q>>))
    BY <1>1, <1>8, <1>9, <2>0, <2>2, <2>3, OwnershipAssumption, ZenonT(60) DEF HeldInv
  <2>5. \A q \in Acquire : life'[q] = "live" => registered' = q \/ Asked(q)' \/ Has(calls', <<"register", q>>)
    BY <1>1, <1>5, <1>8, <2>0, <2>3 DEF HeldInv
  <2>6. \A q \in Acquire : Has(calls', <<"release", q>>) /\ q \in acquired' => registered' = q
    BY <1>1, <2>0, <2>3 DEF HeldInv
  <2>7. ASSUME NEW i \in 1..Len(calls'), calls'[i][1] = "register"
        PROVE  older /\ i # Len(calls') /\ calls'[i + 1][1] = "release" /\ MadeWayFor(i)'
    <3>1. i \in 1..Len(calls) /\ calls[i][1] = "register" /\ i # Len(calls)
      BY <1>4, <2>7
    <3>2. calls[i + 1][1] = "release" /\ MadeWayFor(i)
      BY <2>0, <3>1 DEF HeldInv
    <3>3. i + 1 # Len(calls)
      BY <1>1, <1>4, <3>2
    <3>4. i + 1 \in 1..Len(calls') /\ i # Len(calls')
      BY <1>4, <3>1, <3>3
    <3>5. \A j \in 1..Len(calls') : j \in 1..Len(calls)
      BY <1>4
    <3>6. MadeWayFor(i)'
      BY <1>1, <1>4, <3>2, <3>5 DEF MadeWayFor
    <3> QED BY <1>4, <3>1, <3>2, <3>4, <3>6
  <2>8. ASSUME NEW q \in Acquire, Has(calls', <<"register", q>>)
        PROVE  life'[q] = "live" /\ registered' # q /\ Knows(q)' /\ ~Asked(q)'
    <3>1. older
      <4>1. PICK i \in 1..Len(calls') : calls'[i] = <<"register", q>>
        BY <2>8 DEF Has
      <4> QED BY <2>7, <4>1
    <3>2. life[q] = "live" /\ registered # q /\ Knows(q) /\ ~Asked(q)
      BY <2>0, <2>3, <2>8 DEF HeldInv
    <3>3. q # o
      BY <1>3, <3>2
    <3> QED BY <1>1, <1>4, <1>8, <2>2, <3>1, <3>2, <3>3
  <2> QED BY <2>4, <2>5, <2>6, <2>7, <2>8 DEF HeldInv
<1>14. ASSUME NEW w \in active' \ outdated' PROVE WatchInv(w)'
  <2>1. WatchInv(w) /\ w \in active \ outdated
    BY <1>1 DEF OwnershipIInv
  <2>2. /\ Has(ownerRequests', <<"unwatch", w>>) => Has(ownerRequests, <<"unwatch", w>>)
        /\ Has(ownerRequests, <<"watch", w>>) => Has(ownerRequests', <<"watch", w>>)
    <3>1. e # <<"unwatch", w>>
      OBVIOUS
    <3> QED BY <1>6, <3>1
  <2> QED BY <1>1, <2>1, <2>2, WatchStays
<1> QED BY <1>10, <1>11, <1>12, <1>13, <1>14 DEF OwnershipIInv

\* It is, and either there is no other object or that one is released first.
LEMMA AcquireSucceedsKeeps ==
    ASSUME OwnershipIInv, AcquireEnd, reply = Innermost[2]
    PROVE  OwnershipIInv'
<1> PICK o : o = Innermost[2]
  OBVIOUS
<1>1. /\ Innermost[1] = "asked" /\ reply # "none" /\ reply' = "none" /\ reply = o
      /\ IF registered = None THEN registered' = o /\ calls' = Front(calls)
         ELSE calls' = Front(calls) \o <<<<"register", o>>, <<"release", registered>>>> /\ registered' = registered
      /\ confused' = (confused \/ \E i \in DOMAIN calls : calls[i][1] = "register")
      /\ UNCHANGED <<owner, behind, watching, ownerEvents, acquired, active, told, outdated, life,
                     ownerRequests>>
  BY DEF AcquireEnd, watcherVars, Supersede
<1>2. OwnerTypeInv /\ AskingInv /\ LivesInv /\ (~confused => HeldInv)
  BY DEF OwnershipIInv
<1>3. calls # <<>> /\ o \in Acquire /\ Asked(o) /\ Innermost = <<"asked", o>>
  <2>1. calls # <<>>
    BY <1>1, <1>2, TopCall
  <2> QED BY <1>1, <1>2, <2>1, TopCall
<1>5. \A q \in Acquire : Asked(q) => q = o
  BY <1>2, TopCall
<1>7. \A q \in Acquire : ~Has(ownerRequests, <<"own", q>>) /\ ~Has(ownerRequests, <<"who", q>>)
  BY <1>1, <1>2 DEF AskingInv
<1>8. life[o] = "live" /\ registered # o /\ o \in acquired /\ (owner = o \/ Has(ownerEvents, <<"clear", o>>))
  BY <1>1, <1>2, <1>3 DEF AskingInv, LivesInv
<1>9. ASSUME ~confused' PROVE HeldInv /\ \A q : ~Has(calls, <<"register", q>>)
  <2>1. ~confused /\ \A i \in DOMAIN calls : calls[i][1] # "register"
    BY <1>1, <1>9
  <2>2. DOMAIN calls = 1..Len(calls)
    BY <1>2, OwnerTypes, LenProperties
  <2> QED BY <1>2, <2>1, <2>2 DEF Has
<1>10. ASSUME NEW w \in active' \ outdated' PROVE WatchInv(w)'
  <2>1. WatchInv(w) /\ w \in active \ outdated
    BY <1>1 DEF OwnershipIInv
  <2> QED BY <1>1, <2>1, WatchStays
<1>11. confused' \in BOOLEAN
  BY <1>1, <1>2, OwnerTypes
<1>12. CASE registered = None
  <2>1. registered' = o /\ calls' = Front(calls)
    BY <1>1, <1>12
  <2>2. /\ calls' \in Seq(OwnerCalls) /\ Len(calls) \in Nat \ {0} /\ Len(calls') = Len(calls) - 1
        /\ \A i \in 1..Len(calls') : calls'[i] = calls[i] /\ calls[i][1] # "asked"
        /\ Innermost = calls[Len(calls)]
        /\ \A x : Has(calls, x) <=> Has(calls', x) \/ x = Innermost
        /\ \A q \in Acquire : ~Asked(q)'
    BY <1>2, <1>3, <2>1, Popped
  <2>3. OwnerTypeInv'
    BY <1>1, <1>2, <1>3, <1>11, <2>1, <2>2 DEF OwnerTypeInv, SelectionOwnerTypeOK, OwnerCalls
  <2>4. AskingInv'
    BY <1>1, <1>2, <1>7, <2>2 DEF AskingInv
  <2>5. LivesInv'
    <3>1. \A i \in 1..Len(calls') : life'[calls'[i][2]] # "new"
      <4>1. 1..Len(calls') \subseteq 1..Len(calls)
        BY <2>2
      <4> QED BY <1>1, <1>2, <2>2, <4>1 DEF LivesInv
    <3> QED BY <1>1, <1>2, <1>8, <2>1, <2>2, <3>1 DEF LivesInv
  <2>6. ASSUME ~confused' PROVE HeldInv'
    <3>1. Knows(o)'
      BY <1>1, <1>8 DEF Knows
    <3>2. \A q \in Acquire : ~Has(calls', <<"register", q>>)
      BY <1>9, <2>2, <2>6
    <3>3. \A q \in Acquire : life'[q] = "live" => registered' = q
      BY <1>1, <1>5, <1>9, <1>12, <2>1, <2>6, OwnershipAssumption DEF HeldInv
    <3>4. \A q \in Acquire : ~(Has(calls', <<"release", q>>) /\ q \in acquired')
      BY <1>1, <1>9, <1>12, <2>2, <2>6, OwnershipAssumption DEF HeldInv
    <3>5. \A i \in 1..Len(calls') : calls'[i][1] # "register"
      <4>1. \A i \in 1..Len(calls') : i \in 1..Len(calls)
        BY <2>2
      <4>2. \A i \in 1..Len(calls) : calls[i][1] # "register"
        BY <1>2, <1>9, <2>6, TopCall DEF Has
      <4> QED BY <2>2, <4>1, <4>2
    <3> QED BY <1>1, <1>8, <2>1, <2>2, <3>1, <3>2, <3>3, <3>4, <3>5 DEF HeldInv
  <2> QED BY <1>10, <2>3, <2>4, <2>5, <2>6 DEF OwnershipIInv
<1>13. CASE registered # None
  <2> PICK r \in Acquire : r = registered
    BY <1>2, <1>13, OwnerTypes
  <2> PICK a \in OwnerCalls : a = <<"register", o>>
    BY <1>3 DEF OwnerCalls
  <2> PICK b \in OwnerCalls : b = <<"release", r>>
    BY DEF OwnerCalls
  <2> PICK f : f = Front(calls)
    OBVIOUS
  <2>1. /\ f \in Seq(OwnerCalls) /\ Len(calls) \in Nat \ {0} /\ Len(f) = Len(calls) - 1
        /\ \A i \in 1..Len(f) : f[i] = calls[i]
        /\ \A x : Has(calls, x) <=> Has(f, x) \/ x = calls[Len(calls)]
    BY <1>2, <1>3, OwnerTypes, FrontHas
  <2>2. registered' = r /\ calls' = f \o <<a, b>>
    BY <1>1, <1>13
  <2>3. PutTwo(OwnerCalls, f, a, b, calls')
    BY <2>1, <2>2, TwoMore
  <2>4. /\ calls' \in Seq(OwnerCalls) /\ Len(calls') = Len(calls) + 1
        /\ \A i \in 1..Len(f) : calls'[i] = calls[i] /\ i \in 1..Len(calls)
        /\ calls'[Len(calls)] = a /\ calls'[Len(calls) + 1] = b
        /\ \A x : Has(calls', x) <=> Has(f, x) \/ x = a \/ x = b
        /\ \A i \in 1..Len(calls') : i \in 1..Len(f) \/ i = Len(calls) \/ i = Len(calls) + 1
    <3>1. /\ calls' \in Seq(OwnerCalls) /\ Len(calls') = Len(f) + 2
          /\ \A i \in 1..Len(f) : calls'[i] = f[i]
          /\ calls'[Len(f) + 1] = a /\ calls'[Len(f) + 2] = b
      BY <2>3 DEF PutTwo
    <3>2. \A x : Has(calls', x) <=> Has(f, x) \/ x = a \/ x = b
      BY <2>3 DEF PutTwo
    <3>3. Len(f) + 1 = Len(calls) /\ Len(f) + 2 = Len(calls) + 1
      BY <2>1
    <3>4. \A i \in 1..Len(f) : i \in 1..Len(calls)
      BY <2>1
    <3>5. \A i \in 1..Len(calls') : i \in 1..Len(f) \/ i = Len(calls) \/ i = Len(calls) + 1
      BY <2>1, <3>1
    <3> QED BY <2>1, <3>1, <3>2, <3>3, <3>4, <3>5
  <2>5. \A i \in 1..Len(calls') : calls'[i][1] # "asked"
    <3>1. \A i \in 1..Len(f) : calls[i][1] # "asked"
      BY <1>2, <2>1 DEF AskingInv
    <3> QED BY <2>4, <3>1
  <2>6. \A q \in Acquire : ~Asked(q)'
    <3>1. Len(calls') \in 1..Len(calls')
      BY <2>1, <2>4
    <3> QED BY <2>5, <3>1 DEF Asked
  <2>7. OwnerTypeInv'
    BY <1>1, <1>2, <1>11, <2>2, <2>4 DEF OwnerTypeInv, SelectionOwnerTypeOK, OwnerCalls
  <2>8. AskingInv'
    BY <1>1, <1>2, <1>7, <2>5, <2>6 DEF AskingInv
  <2>9. LivesInv'
    <3>1. \A i \in 1..Len(calls') : life'[calls'[i][2]] # "new"
      <4>1. \A i \in 1..Len(f) : life[calls[i][2]] # "new"
        BY <1>2, <2>4 DEF LivesInv
      <4>2. life[r] # "new" /\ life[o] # "new"
        BY <1>2, <1>8 DEF LivesInv
      <4> QED BY <1>1, <2>4, <4>1, <4>2
    <3> QED BY <1>1, <1>2, <2>2, <2>6, <3>1 DEF LivesInv
  <2>10. ASSUME ~confused' PROVE HeldInv'
    <3>1. Knows(o)'
      BY <1>1, <1>8 DEF Knows
    <3>2. \A q \in Acquire : Has(calls', <<"register", q>>) <=> q = o
      <4>1. \A q \in Acquire : ~Has(f, <<"register", q>>)
        BY <1>9, <2>1, <2>10
      <4>2. \A q \in Acquire : <<"register", q>> # b /\ (<<"register", q>> = a <=> q = o)
        OBVIOUS
      <4> QED BY <2>4, <4>1, <4>2
    <3>3. \A q \in Acquire : Has(calls', <<"release", q>>) <=> Has(calls, <<"release", q>>) \/ q = r
      BY <1>3, <2>1, <2>4, TopCall, <1>2
    <3>4. \A q \in Acquire : registered' = q => life'[q] = "live" /\ (Knows(q)' \/ Has(calls', <<"release", q>>))
      BY <1>1, <1>9, <2>2, <2>10, <3>3 DEF HeldInv
    <3>5. \A q \in Acquire : life'[q] = "live" => registered' = q \/ Asked(q)' \/ Has(calls', <<"register", q>>)
      BY <1>1, <1>5, <1>9, <2>2, <2>10, <3>2 DEF HeldInv
    <3>6. \A q \in Acquire : Has(calls', <<"release", q>>) /\ q \in acquired' => registered' = q
      BY <1>1, <1>9, <2>2, <2>10, <3>3 DEF HeldInv
    <3>7. \A q \in Acquire : Has(calls', <<"register", q>>) =>
              life'[q] = "live" /\ registered' # q /\ Knows(q)' /\ ~Asked(q)'
      BY <1>1, <1>8, <2>2, <2>6, <3>1, <3>2
    <3>8. \A i \in 1..Len(calls') : calls'[i][1] = "register" => i = Len(calls)
      <4>1. \A i \in 1..Len(f) : calls[i][1] # "register"
        <5>1. \A i \in 1..Len(calls) : calls[i] = <<calls[i][1], calls[i][2]>>
          BY <1>2, TopCall
        <5>2. \A i \in 1..Len(calls) : Has(calls, calls[i])
          BY DEF Has
        <5>3. \A q : ~Has(calls, <<"register", q>>)
          BY <1>9, <2>10
        <5>4. \A i \in 1..Len(calls) : calls[i][1] # "register"
          BY <5>1, <5>2, <5>3
        <5> QED BY <2>4, <5>4
      <4>2. \A i \in 1..Len(f) : calls'[i][1] # "register"
        BY <2>4, <4>1
      <4>3. calls'[Len(calls) + 1][1] = "release"
        BY <2>4
      <4> QED BY <2>4, <4>2, <4>3
    <3>9. ASSUME NEW i \in 1..Len(calls'), calls'[i][1] = "register"
          PROVE  i # Len(calls') /\ calls'[i + 1][1] = "release" /\ MadeWayFor(i)'
      <4>1. i = Len(calls) /\ b[1] = "release" /\ b[2] = r
        BY <3>8, <3>9
      <4>2. \A j \in 1..Len(calls') : j > i => j = Len(calls) + 1
        BY <2>1, <2>4, <4>1
      <4>3. calls'[Len(calls) + 1][1] = "release" /\ calls'[Len(calls) + 1][2] = r
        BY <2>4, <4>1
      <4>4. MadeWayFor(i)'
        BY <2>2, <4>2, <4>3 DEF MadeWayFor
      <4>5. i # Len(calls')
        BY <2>1, <2>4, <4>1
      <4> QED BY <4>1, <4>3, <4>4, <4>5
    <3> QED BY <3>4, <3>5, <3>6, <3>7, <3>9 DEF HeldInv
  <2> QED BY <1>10, <2>7, <2>8, <2>9, <2>10 DEF OwnershipIInv
<1> QED BY <1>12, <1>13
LEMMA RegisterEnds == ASSUME OwnershipIInv, Register PROVE OwnershipIInv'
<1> PICK o : o = Innermost[2]
  OBVIOUS
<1>1. /\ Innermost[1] = "register" /\ registered' = o /\ calls' = Front(calls)
      /\ UNCHANGED <<owner, behind, watching, ownerRequests, reply, ownerEvents, life, acquired, active, told,
                     outdated, confused>>
  BY DEF Register, watcherVars, serverOwnerVars
<1>2. OwnerTypeInv /\ AskingInv /\ LivesInv /\ (~confused => HeldInv)
  BY DEF OwnershipIInv
<1>3. calls # <<>> /\ o \in Acquire /\ Innermost = <<"register", o>>
  <2>1. calls # <<>>
    BY <1>1, <1>2, TopCall
  <2> QED BY <1>1, <1>2, <2>1, TopCall
<1>4. /\ calls' \in Seq(OwnerCalls) /\ Len(calls) \in Nat \ {0} /\ Len(calls') = Len(calls) - 1
      /\ \A i \in 1..Len(calls') : calls'[i] = calls[i] /\ calls[i][1] # "asked"
      /\ Innermost = calls[Len(calls)]
      /\ \A x : Has(calls, x) <=> Has(calls', x) \/ x = Innermost
      /\ \A q \in Acquire : ~Asked(q)'
  BY <1>1, <1>2, <1>3, Popped
<1>5. \A q \in Acquire : ~Asked(q)
  BY <1>1, <1>2, TopCall
<1>6. /\ Len(calls) \in 1..Len(calls) /\ calls[Len(calls)] = <<"register", o>>
      /\ \A i \in 1..Len(calls') : i \in 1..Len(calls) /\ i # Len(calls)
  <2>1. calls[Len(calls)] = <<"register", o>>
    BY <1>3, <1>4
  <2>2. Len(calls) \in 1..Len(calls)
    BY <1>4
  <2>3. \A i \in 1..Len(calls') : i \in 1..Len(calls) /\ i # Len(calls)
    BY <1>4
  <2> QED BY <2>1, <2>2, <2>3
<1>7. life[o] # "new"
  BY <1>2, <1>6 DEF LivesInv
<1>8. OwnerTypeInv'
  BY <1>1, <1>2, <1>3, <1>4 DEF OwnerTypeInv, SelectionOwnerTypeOK, OwnerCalls
<1>9. AskingInv'
  BY <1>1, <1>2, <1>4, <1>5 DEF AskingInv
<1>10. LivesInv'
  BY <1>1, <1>2, <1>4, <1>6, <1>7 DEF LivesInv
<1>11. ASSUME ~confused' PROVE HeldInv'
  <2>0. HeldInv
    BY <1>1, <1>2, <1>11
  <2>1. registered = None
    BY <1>6, <2>0 DEF HeldInv
  <2>2. Has(calls, <<"register", o>>)
    BY <1>6 DEF Has
  <2>3. life[o] = "live" /\ Knows(o)' /\ \A q \in Acquire : Knows(q) => Knows(q)'
    <3>1. \A q \in Acquire : Knows(q) => Knows(q)'
      BY <1>1, <1>5 DEF Knows, Overtaken
    <3> QED BY <1>3, <2>0, <2>2, <3>1 DEF HeldInv
  <2>4. \A i \in 1..Len(calls') : calls'[i][1] # "register"
    <3>1. SUFFICES ASSUME NEW i \in 1..Len(calls'), calls[i][1] = "register" PROVE FALSE
      BY <1>4
    <3>2. i \in 1..Len(calls) /\ i # Len(calls) /\ Len(calls) > i
      BY <1>4, <1>6
    <3>3. MadeWayFor(i)
      BY <2>0, <3>1, <3>2 DEF HeldInv
    <3> QED BY <1>6, <3>2, <3>3 DEF MadeWayFor
  <2>5. \A q \in Acquire : ~Has(calls', <<"register", q>>)
    BY <2>4 DEF Has
  <2>6. \A q \in Acquire : Has(calls, <<"register", q>>) => q = o
    BY <1>3, <1>4, <2>5
  <2>7. \A q \in Acquire : life'[q] = "live" => registered' = q
    BY <1>1, <1>5, <2>0, <2>1, <2>6, OwnershipAssumption DEF HeldInv
  <2>8. \A q \in Acquire : ~(Has(calls', <<"release", q>>) /\ q \in acquired')
    BY <1>1, <1>4, <2>0, <2>1, OwnershipAssumption DEF HeldInv
  <2> QED BY <1>1, <2>3, <2>4, <2>5, <2>7, <2>8 DEF HeldInv
<1>12. ASSUME NEW w \in active' \ outdated' PROVE WatchInv(w)'
  <2>1. WatchInv(w) /\ w \in active \ outdated
    BY <1>1 DEF OwnershipIInv
  <2> QED BY <1>1, <2>1, WatchStays
<1> QED BY <1>8, <1>9, <1>10, <1>11, <1>12 DEF OwnershipIInv

LEMMA ReleaseEndKeeps == ASSUME OwnershipIInv, ReleaseEnd PROVE OwnershipIInv'
<1> PICK o : o = Innermost[2]
  OBVIOUS
<1>1. /\ Innermost[1] = "release" /\ calls' = Front(calls)
      /\ ownerRequests' = IF life[o] = "live" THEN Append(ownerRequests, <<"destroy", o>>) ELSE ownerRequests
      /\ life' = [life EXCEPT ![o] = "dead"]
      /\ registered' = IF o \in acquired THEN None ELSE registered
      /\ acquired' = acquired \ {o}
      /\ UNCHANGED <<owner, behind, watching, reply, ownerEvents, active, told, outdated, confused>>
  BY DEF ReleaseEnd, watcherVars
<1>2. OwnerTypeInv /\ AskingInv /\ LivesInv /\ (~confused => HeldInv)
  BY DEF OwnershipIInv
<1>3. calls # <<>> /\ o \in Acquire /\ Innermost = <<"release", o>>
  <2>1. calls # <<>>
    BY <1>1, <1>2, TopCall
  <2> QED BY <1>1, <1>2, <2>1, TopCall
<1>4. /\ calls' \in Seq(OwnerCalls) /\ Len(calls) \in Nat \ {0} /\ Len(calls') = Len(calls) - 1
      /\ \A i \in 1..Len(calls') : calls'[i] = calls[i] /\ calls[i][1] # "asked"
      /\ Innermost = calls[Len(calls)]
      /\ \A x : Has(calls, x) <=> Has(calls', x) \/ x = Innermost
      /\ \A q \in Acquire : ~Asked(q)'
  BY <1>1, <1>2, <1>3, Popped
<1>5. \A q \in Acquire : ~Asked(q)
  BY <1>1, <1>2, TopCall
<1>6. /\ Len(calls) \in 1..Len(calls) /\ calls[Len(calls)] = <<"release", o>>
      /\ \A i \in 1..Len(calls') : i \in 1..Len(calls) /\ i # Len(calls)
  <2>1. calls[Len(calls)] = <<"release", o>>
    BY <1>3, <1>4
  <2>2. Len(calls) \in 1..Len(calls)
    BY <1>4
  <2>3. \A i \in 1..Len(calls') : i \in 1..Len(calls) /\ i # Len(calls)
    BY <1>4
  <2> QED BY <2>1, <2>2, <2>3
<1>7. life[o] # "new"
  BY <1>2, <1>6 DEF LivesInv
<1>8. reply = "none" /\ \A q \in Acquire : ~Has(ownerRequests, <<"own", q>>) /\ ~Has(ownerRequests, <<"who", q>>)
  BY <1>2, <1>5 DEF AskingInv
<1>9. /\ ownerRequests' \in Seq(OwnerOps)
      /\ \A x : Has(ownerRequests', x) <=>
                    Has(ownerRequests, x) \/ (life[o] = "live" /\ x = <<"destroy", o>>)
  <2> PICK e \in OwnerOps : e = <<"destroy", o>>
    BY <1>3 DEF OwnerOps
  <2>1. ownerRequests \in Seq(OwnerOps)
    BY <1>2, OwnerTypes
  <2>2. CASE life[o] = "live"
    <3>1. Appended(OwnerOps, ownerRequests, e, ownerRequests')
      BY <1>1, <2>1, <2>2, AppendIs
    <3> QED BY <2>2, <3>1 DEF Appended
  <2>3. CASE life[o] # "live"
    BY <1>1, <2>1, <2>3
  <2> QED BY <2>2, <2>3
<1>10. /\ life' \in [Acquire -> {"new", "live", "dead"}] /\ life'[o] = "dead"
       /\ \A q \in Acquire : q # o => life'[q] = life[q]
  BY <1>1, <1>2, <1>3, OwnerTypes
<1>11. OwnerTypeInv'
  <2>1. registered' \in Acquire \cup {None} /\ acquired' \subseteq Acquire
    BY <1>1, <1>2, OwnerTypes
  <2> QED BY <1>1, <1>2, <1>4, <1>9, <1>10, <2>1 DEF OwnerTypeInv, SelectionOwnerTypeOK, OwnerCalls
<1>12. AskingInv'
  <2>1. \A i \in 1..Len(calls') : calls'[i][1] # "asked"
    BY <1>4
  <2>2. \A q \in Acquire : ~Has(ownerRequests', <<"own", q>>) /\ ~Has(ownerRequests', <<"who", q>>)
    <3>1. \A q \in Acquire : <<"destroy", o>> # <<"own", q>> /\ <<"destroy", o>> # <<"who", q>>
      OBVIOUS
    <3> QED BY <1>8, <1>9, <3>1
  <2>3. ASSUME NEW i \in 1..Len(ownerRequests') PROVE ownerRequests'[i][1] # "who"
    <3>1. ownerRequests'[i] \in OwnerOps
      BY <1>9, ElementOfSeq
    <3>2. ownerRequests'[i][1] = "who" => /\ ownerRequests'[i] = <<"who", ownerRequests'[i][2]>>
                                          /\ ownerRequests'[i][2] \in Acquire
      BY <3>1 DEF OwnerOps
    <3>3. Has(ownerRequests', ownerRequests'[i])
      BY DEF Has
    <3> QED BY <2>2, <3>2, <3>3
  <2> QED BY <1>1, <1>4, <1>8, <2>1, <2>2, <2>3 DEF AskingInv
<1>13. LivesInv'
  <2>1. ASSUME NEW q \in Acquire, owner' = q
        PROVE  life'[q] # "new" /\ (life'[q] = "dead" => Has(ownerRequests', <<"destroy", q>>))
    <3>1. life[q] # "new" /\ (life[q] = "dead" => Has(ownerRequests, <<"destroy", q>>))
      BY <1>1, <1>2, <2>1 DEF LivesInv
    <3>2. CASE q = o
      <4>1. life[o] = "live" \/ life[o] = "dead"
        BY <1>2, <1>3, <1>7, OwnerTypes
      <4> QED BY <1>9, <1>10, <3>1, <3>2, <4>1
    <3>3. CASE q # o
      BY <1>9, <1>10, <3>1, <3>3
    <3> QED BY <3>2, <3>3
  <2>2. ASSUME NEW q \in Acquire, Has(ownerRequests', <<"destroy", q>>) PROVE life'[q] = "dead"
    <3>1. CASE q = o
      BY <1>10, <3>1
    <3>2. CASE q # o
      <4>1. Has(ownerRequests, <<"destroy", q>>)
        BY <1>9, <2>2, <3>2
      <4> QED BY <1>2, <1>10, <3>2, <4>1 DEF LivesInv
    <3> QED BY <3>1, <3>2
  <2>3. \A q \in Acquire : /\ life'[q] = "live" => q \in acquired'
                           /\ q \in acquired' => life'[q] # "new"
                           /\ Asked(q)' => life'[q] = "live" /\ registered' # q
                           /\ registered' = q => life'[q] # "new"
    BY <1>1, <1>2, <1>4, <1>10, OwnershipAssumption DEF LivesInv
  <2>4. ASSUME NEW i \in 1..Len(calls') PROVE life'[calls'[i][2]] # "new"
    <3>1. i \in 1..Len(calls) /\ calls'[i] = calls[i]
      BY <1>4
    <3>2. calls[i][2] \in Acquire /\ life[calls[i][2]] # "new"
      BY <1>2, <3>1, TopCall DEF LivesInv
    <3> QED BY <1>10, <3>1, <3>2
  <2> QED BY <2>1, <2>2, <2>3, <2>4 DEF LivesInv
<1>14. ASSUME ~confused' PROVE HeldInv'
  <2>0. HeldInv
    BY <1>1, <1>2, <1>14
  <2>1. \A q \in Acquire : Knows(q) => Knows(q)'
    BY <1>1, <1>5 DEF Knows, Overtaken
  <2>2. \A q \in Acquire : /\ Has(calls, <<"register", q>>) <=> Has(calls', <<"register", q>>)
                           /\ q # o => (Has(calls, <<"release", q>>) <=> Has(calls', <<"release", q>>))
    <3>1. \A q \in Acquire : <<"register", q>> # <<"release", o>> /\ (q # o => <<"release", q>> # <<"release", o>>)
      OBVIOUS
    <3> QED BY <1>3, <1>4, <3>1
  <2>3. Has(calls, <<"release", o>>)
    BY <1>3, <1>4
  <2>4. o \in acquired => registered = o
    BY <1>3, <2>0, <2>3 DEF HeldInv
  <2>5. o \notin acquired => life[o] = "dead" /\ registered # o
    BY <1>2, <1>3, <1>7, <2>0, OwnerTypes DEF LivesInv, HeldInv
  <2>6. \A q \in Acquire : registered' = q => registered = q /\ q # o /\ o \notin acquired
    BY <1>1, <2>4, <2>5, OwnershipAssumption
  <2>7. \A q \in Acquire : registered' = q => life'[q] = "live" /\ (Knows(q)' \/ Has(calls', <<"release", q>>))
    BY <1>10, <2>0, <2>1, <2>2, <2>6 DEF HeldInv
  <2>8. \A q \in Acquire : life'[q] = "live" => registered' = q \/ Has(calls', <<"register", q>>)
    <3>1. SUFFICES ASSUME NEW q \in Acquire, life'[q] = "live", ~Has(calls', <<"register", q>>)
                   PROVE  registered' = q
      OBVIOUS
    <3>2. q # o /\ life[q] = "live"
      BY <1>10, <3>1
    <3>3. registered = q
      BY <1>5, <2>0, <2>2, <3>1, <3>2 DEF HeldInv
    <3> QED BY <1>1, <2>4, <3>2, <3>3
  <2>9. \A q \in Acquire : Has(calls', <<"release", q>>) /\ q \in acquired' => registered' = q
    <3>1. SUFFICES ASSUME NEW q \in Acquire, Has(calls', <<"release", q>>), q \in acquired, q # o
                   PROVE  registered' = q
      BY <1>1
    <3>2. registered = q
      BY <2>0, <2>2, <3>1 DEF HeldInv
    <3> QED BY <1>1, <2>4, <3>1, <3>2
  <2>10. ASSUME NEW i \in 1..Len(calls'), calls'[i][1] = "register"
         PROVE  /\ registered' = None
                /\ i # Len(calls') => calls'[i + 1][1] = "release" /\ MadeWayFor(i)'
    <3>1. calls[i][1] = "register" /\ i \in 1..Len(calls) /\ i # Len(calls) /\ Len(calls) > i
      BY <1>4, <1>6, <2>10
    <3>2. calls[i + 1][1] = "release" /\ MadeWayFor(i)
      BY <2>0, <3>1 DEF HeldInv
    <3>3. registered \in {None, o}
      BY <1>6, <3>1, <3>2 DEF MadeWayFor
    <3>4. registered' = None
      BY <1>1, <2>5, <3>3
    <3>5. \A j \in 1..Len(calls') : j > i => calls'[j][1] # "register"
      BY <1>4, <1>6, <3>2 DEF MadeWayFor
    <3>6. i # Len(calls') => calls'[i + 1] = calls[i + 1]
      BY <1>4
    <3> QED BY <3>2, <3>4, <3>5, <3>6 DEF MadeWayFor
  <2>11. ASSUME NEW q \in Acquire, Has(calls', <<"register", q>>)
         PROVE  life'[q] = "live" /\ registered' # q /\ Knows(q)' /\ ~Asked(q)'
    <3>1. life[q] = "live" /\ registered # q /\ Knows(q)
      BY <2>0, <2>2, <2>11 DEF HeldInv
    <3>2. q # o
      BY <2>4, <2>5, <3>1
    <3> QED BY <1>4, <1>10, <2>1, <2>6, <3>1, <3>2
  <2> QED BY <2>7, <2>8, <2>9, <2>10, <2>11 DEF HeldInv
<1>15. ASSUME NEW w \in active' \ outdated' PROVE WatchInv(w)'
  <2>1. WatchInv(w) /\ w \in active \ outdated
    BY <1>1 DEF OwnershipIInv
  <2>2. /\ Has(ownerRequests', <<"unwatch", w>>) => Has(ownerRequests, <<"unwatch", w>>)
        /\ Has(ownerRequests, <<"watch", w>>) => Has(ownerRequests', <<"watch", w>>)
    <3>1. <<"destroy", o>> # <<"unwatch", w>>
      OBVIOUS
    <3> QED BY <1>9, <3>1
  <2> QED BY <1>1, <2>1, <2>2, WatchStays
<1> QED BY <1>11, <1>12, <1>13, <1>14, <1>15 DEF OwnershipIInv

\* An object is to be released that is registered.
LEMMA ReleaseBegins ==
    ASSUME OwnershipIInv, LuaRuns, NEW o \in Acquire, calls' = Append(calls, <<"release", o>>),
           life[o] # "new", ~confused => registered = o,
           UNCHANGED <<owner, life, acquired, registered, confused, ownerRequests, reply>>,
           \A q \in Acquire : Has(ownerEvents, <<"clear", q>>) /\ q # o => Has(ownerEvents', <<"clear", q>>)
    PROVE  calls' \in Seq(OwnerCalls) /\ AskingInv' /\ LivesInv' /\ (~confused' => HeldInv')
<1> PICK c \in OwnerCalls : c = <<"release", o>>
  BY DEF OwnerCalls
<1>1. calls' = Append(calls, c)
  OBVIOUS
<1>2. OwnerTypeInv /\ AskingInv /\ LivesInv /\ (~confused => HeldInv)
  BY DEF OwnershipIInv
<1>3. /\ calls' \in Seq(OwnerCalls) /\ Len(calls) \in Nat /\ Len(calls') = Len(calls) + 1
      /\ \A i \in 1..Len(calls) : calls'[i] = calls[i] /\ calls[i][1] # "asked"
      /\ calls'[Len(calls')] = c
      /\ \A x : Has(calls', x) <=> Has(calls, x) \/ x = c
      /\ \A q \in Acquire : ~Asked(q) /\ (Asked(q)' <=> c = <<"asked", q>>)
      /\ Len(calls) > 0 => calls[Len(calls)][1] = "release"
      /\ reply = "none"
      /\ \A q \in Acquire : ~Has(ownerRequests, <<"own", q>>) /\ ~Has(ownerRequests, <<"who", q>>)
  BY <1>1, <1>2, Pushed
<1>4. \A q \in Acquire : ~Asked(q)'
  <2>1. \A q \in Acquire : c # <<"asked", q>>
    OBVIOUS
  <2> QED BY <1>3, <2>1
<1>5. \A i \in 1..Len(calls') : i \in 1..Len(calls) \/ i = Len(calls')
  BY <1>3
<1>6. c[1] = "release" /\ c[2] = o
  OBVIOUS
<1>7. \A i \in 1..Len(calls') : calls'[i][1] # "asked"
  BY <1>3, <1>5, <1>6
<1>8. AskingInv'
  BY <1>2, <1>3, <1>4, <1>7 DEF AskingInv
<1>9. LivesInv'
  <2>1. \A i \in 1..Len(calls') : life'[calls'[i][2]] # "new"
    BY <1>2, <1>3, <1>5, <1>6 DEF LivesInv
  <2> QED BY <1>2, <1>4, <2>1 DEF LivesInv
<1>10. ASSUME ~confused' PROVE HeldInv'
  <2>0. HeldInv /\ registered = o
    BY <1>2, <1>10
  <2>1. \A q \in Acquire : <<"register", q>> # c /\ (<<"release", q>> = c <=> q = o)
    OBVIOUS
  <2>2. \A q \in Acquire : Has(calls', <<"register", q>>) <=> Has(calls, <<"register", q>>)
    BY <1>3, <2>1
  <2>3. ASSUME NEW i \in 1..Len(calls'), calls'[i][1] = "register"
        PROVE  i # Len(calls') /\ calls'[i + 1][1] = "release" /\ MadeWayFor(i)'
    <3>1. i \in 1..Len(calls) /\ calls[i][1] = "register" /\ i # Len(calls')
      BY <1>3, <1>5, <1>6, <2>3
    <3>2. i # Len(calls) /\ i + 1 \in 1..Len(calls)
      BY <1>3, <3>1
    <3>3. calls[i + 1][1] = "release" /\ MadeWayFor(i)
      BY <2>0, <3>1, <3>2 DEF HeldInv
    <3> QED BY <1>3, <1>5, <1>6, <2>0, <3>1, <3>2, <3>3 DEF MadeWayFor
  <2>4. \A q \in Acquire : Has(calls', <<"release", q>>) <=> Has(calls, <<"release", q>>) \/ q = o
    BY <1>3, <2>1
  <2>5. \A q \in Acquire : life'[q] = "live" => registered' = q \/ Has(calls', <<"register", q>>)
    BY <1>3, <2>0, <2>2 DEF HeldInv
  <2>6. \A q \in Acquire : registered' = q => life'[q] = "live" /\ Has(calls', <<"release", q>>)
    BY <2>0, <2>4 DEF HeldInv
  <2>7. \A q \in Acquire : Has(calls', <<"release", q>>) /\ q \in acquired' => registered' = q
    BY <2>0, <2>4 DEF HeldInv
  <2>8. ASSUME NEW q \in Acquire, Has(calls', <<"register", q>>)
        PROVE  life'[q] = "live" /\ registered' # q /\ Knows(q)' /\ ~Asked(q)'
    <3>1. life[q] = "live" /\ registered # q /\ Knows(q)
      BY <2>0, <2>2, <2>8 DEF HeldInv
    <3>2. owner = q \/ Has(ownerEvents, <<"clear", q>>)
      BY <1>3, <3>1 DEF Knows, Overtaken
    <3>3. owner' = q \/ Has(ownerEvents', <<"clear", q>>)
      BY <2>0, <3>1, <3>2
    <3> QED BY <1>4, <3>1, <3>3 DEF Knows
  <2> QED BY <2>3, <2>5, <2>6, <2>7, <2>8 DEF HeldInv
<1> QED BY <1>3, <1>8, <1>9, <1>10

LEMMA LuaReleasesKeeps == ASSUME OwnershipIInv, NEW o \in Acquire, LuaReleases(o) PROVE OwnershipIInv'
<1>1. /\ LuaRuns /\ life[o] = "live" /\ calls' = Append(calls, <<"release", o>>)
      /\ \A i \in DOMAIN calls : calls[i] \notin {<<"asked", o>>, <<"register", o>>}
      /\ UNCHANGED <<owner, behind, watching, ownerRequests, reply, ownerEvents, life, acquired, registered,
                     active, told, outdated, confused>>
  BY DEF LuaReleases, Release, watcherVars, serverOwnerVars
<1>2. OwnerTypeInv /\ AskingInv /\ LivesInv /\ (~confused => HeldInv)
  BY DEF OwnershipIInv
<1>3. Len(calls) \in Nat /\ DOMAIN calls = 1..Len(calls)
  BY <1>2, OwnerTypes, LenProperties
<1>4. ~Has(calls, <<"register", o>>) /\ ~Asked(o)
  <2>1. ~Has(calls, <<"register", o>>)
    BY <1>1, <1>3 DEF Has
  <2>2. Len(calls) > 0 => Len(calls) \in 1..Len(calls)
    BY <1>3
  <2> QED BY <1>1, <1>3, <2>1, <2>2 DEF Asked
<1>5. ~confused => registered = o
  BY <1>1, <1>2, <1>4 DEF HeldInv
<1>6. calls' \in Seq(OwnerCalls) /\ AskingInv' /\ LivesInv' /\ (~confused' => HeldInv')
  <2>1. \A q \in Acquire : Has(ownerEvents, <<"clear", q>>) /\ q # o => Has(ownerEvents', <<"clear", q>>)
    BY <1>1
  <2>2. life[o] # "new"
    BY <1>1
  <2> QED BY <1>1, <1>4, <1>5, <2>1, <2>2, ReleaseBegins
<1>7. OwnerTypeInv'
  BY <1>1, <1>2, <1>6 DEF OwnerTypeInv, SelectionOwnerTypeOK, OwnerCalls
<1>8. ASSUME NEW w \in active' \ outdated' PROVE WatchInv(w)'
  <2>1. WatchInv(w) /\ w \in active \ outdated
    BY <1>1 DEF OwnershipIInv
  <2> QED BY <1>1, <2>1, WatchStays
<1> QED BY <1>6, <1>7, <1>8 DEF OwnershipIInv
-----------------------------------------------------------------------------
(* Events.                                                                 *)

\* A watcher hears of an event, or it was for somebody else.
LEMMA WatchHears ==
    ASSUME NEW w \in Watcher, w \in active, WatchInv(w), OwnerTypeInv, ownerEvents # <<>>,
           ownerEvents' = Tail(ownerEvents),
           told'[w] = IF Head(ownerEvents)[1] = w THEN Head(ownerEvents)[2] ELSE told[w],
           UNCHANGED <<watching, owner, ownerRequests>>
    PROVE  WatchInv(w)'
<1> PICK e : e = Head(ownerEvents)
  OBVIOUS
<1>1. ownerEvents \in Seq(OwnerNews)
  BY OwnerTypes
<1>2. /\ Len(ownerEvents) \in Nat \ {0} /\ Len(ownerEvents') = Len(ownerEvents) - 1 /\ e = ownerEvents[1]
      /\ \A i \in 1..Len(ownerEvents') : ownerEvents'[i] = ownerEvents[i + 1]
  BY <1>1, TailHas
<1>3. \A i \in 1..Len(ownerEvents') : i + 1 \in 1..Len(ownerEvents)
  BY <1>2
<1>4. \A i \in 1..Len(ownerEvents) : i = 1 \/ (i - 1 \in 1..Len(ownerEvents') /\ ownerEvents'[i - 1] = ownerEvents[i])
  BY <1>2
<1>5. ASSUME NEW i \in 1..Len(ownerEvents'), ownerEvents'[i][1] = w,
             \A j \in 1..Len(ownerEvents') : j > i => ownerEvents'[j][1] # w
      PROVE  ownerEvents'[i][2] = (owner' # None)
  <2>1. i + 1 \in 1..Len(ownerEvents) /\ ownerEvents[i + 1][1] = w
    BY <1>2, <1>3, <1>5
  <2>2. ASSUME NEW j \in 1..Len(ownerEvents), j > i + 1 PROVE ownerEvents[j][1] # w
    <3>1. j # 1 /\ j - 1 > i
      BY <2>2
    <3>2. j - 1 \in 1..Len(ownerEvents') /\ ownerEvents'[j - 1] = ownerEvents[j]
      BY <1>4, <3>1
    <3> QED BY <1>5, <3>1, <3>2
  <2>3. ownerEvents[i + 1][2] = (owner # None)
    BY <2>1, <2>2 DEF WatchInv
  <2> QED BY <1>2, <2>3
<1>6. Speaks(w)' => Speaks(w)
  <2>1. SUFFICES ASSUME NEW i \in 1..Len(ownerEvents'), ownerEvents'[i][1] = w PROVE Speaks(w)
    BY DEF Speaks
  <2>2. i + 1 \in 1..Len(ownerEvents) /\ ownerEvents[i + 1][1] = w
    BY <1>2, <1>3, <2>1
  <2> QED BY <2>2 DEF Speaks
<1>7. e[1] = w => Speaks(w)
  BY <1>2 DEF Speaks
<1>8. e[1] # w /\ Speaks(w) => Speaks(w)'
  <2>1. SUFFICES ASSUME NEW i \in 1..Len(ownerEvents), ownerEvents[i][1] = w, e[1] # w PROVE Speaks(w)'
    BY DEF Speaks
  <2>2. i # 1
    BY <1>2, <2>1
  <2>3. i - 1 \in 1..Len(ownerEvents') /\ ownerEvents'[i - 1][1] = w
    BY <1>4, <2>1, <2>2
  <2> QED BY <2>3 DEF Speaks
<1>9. w \notin watching' => told'[w] = None /\ ~Speaks(w)'
  BY <1>6, <1>7 DEF WatchInv
<1>10. ASSUME ~Speaks(w)', told'[w] # None PROVE told'[w] = (owner' # None)
  <2>1. CASE e[1] = w
    <3>1. \A j \in 1..Len(ownerEvents) : j > 1 => ownerEvents[j][1] # w
      <4>1. SUFFICES ASSUME NEW j \in 1..Len(ownerEvents), j > 1, ownerEvents[j][1] = w PROVE FALSE
        OBVIOUS
      <4>2. j - 1 \in 1..Len(ownerEvents') /\ ownerEvents'[j - 1][1] = w
        BY <1>4, <4>1
      <4> QED BY <1>10, <4>2 DEF Speaks
    <3>2. 1 \in 1..Len(ownerEvents) /\ ownerEvents[1][1] = w
      BY <1>2, <2>1
    <3>3. ownerEvents[1][2] = (owner # None)
      BY <3>1, <3>2 DEF WatchInv
    <3> QED BY <1>2, <2>1, <3>3
  <2>2. CASE e[1] # w
    <3>1. ~Speaks(w) /\ told[w] # None /\ told'[w] = told[w]
      BY <1>8, <1>10, <2>2
    <3> QED BY <3>1 DEF WatchInv
  <2> QED BY <2>1, <2>2
<1>11. ~Has(ownerRequests', <<"unwatch", w>>) /\ (w \in watching' \/ Has(ownerRequests', <<"watch", w>>))
  BY DEF WatchInv
<1> QED BY <1>5, <1>9, <1>10, <1>11 DEF WatchInv

LEMMA HandleOwnerEventKeeps == ASSUME OwnershipIInv, HandleOwnerEvent PROVE OwnershipIInv'
<1> PICK e : e = Head(ownerEvents)
  OBVIOUS
<1>1. /\ calls = <<>> /\ ownerEvents # <<>> /\ ownerEvents' = Tail(ownerEvents)
      /\ \/ e[1] = "clear" /\ SelectionClear(e[2])
         \/ e[1] = "request" /\ SelectionRequest
         \/ e[1] \in Watcher /\ XFixesSelectionNotify(e[1], e[2])
      /\ UNCHANGED <<owner, behind, watching, ownerRequests, reply, confused, life, acquired, registered,
                     active, outdated>>
  BY DEF HandleOwnerEvent, serverOwnerVars, SelectionClear, SelectionRequest, XFixesSelectionNotify,
         watcherVars, acquireVars
<1>2. OwnerTypeInv /\ AskingInv /\ LivesInv /\ (~confused => HeldInv)
  BY DEF OwnershipIInv
<1>3. /\ ownerEvents' \in Seq(OwnerNews) /\ e \in OwnerNews
      /\ \A x : Has(ownerEvents, x) <=> Has(ownerEvents', x) \/ x = e
  BY <1>1, <1>2, OwnerTypes, TailHas
<1>4. Len(calls) = 0 /\ \A q \in Acquire : ~Asked(q)
  BY <1>1, <1>2, TopCall
<1>5. \A x : ~Has(calls, x)
  BY <1>4 DEF Has
<1>6. e[1] # "clear" => \A q \in Acquire : <<"clear", q>> # e
  OBVIOUS
<1>7. told' \in [Watcher -> BOOLEAN \cup {None}]
      /\ \A w \in active : told'[w] = IF e[1] = w THEN e[2] ELSE told[w]
  <2>1. CASE e[1] \in Watcher /\ XFixesSelectionNotify(e[1], e[2])
    <3>1. e[2] \in BOOLEAN
      BY <1>3, <2>1, OwnershipAssumption DEF OwnerNews
    <3>2. told \in [Watcher -> BOOLEAN \cup {None}] /\ active \subseteq Watcher
      BY <1>2, OwnerTypes
    <3> QED BY <2>1, <3>1, <3>2 DEF XFixesSelectionNotify
  <2>2. CASE e[1] \in {"clear", "request"} /\ told' = told
    <3>1. \A w \in active : e[1] # w
      BY <1>2, <2>2, OwnerTypes, OwnershipAssumption
    <3> QED BY <1>2, <2>2, <3>1, OwnerTypes
  <2>3. \/ e[1] \in {"clear", "request"} /\ told' = told
        \/ e[1] \in Watcher /\ XFixesSelectionNotify(e[1], e[2])
    BY <1>1 DEF SelectionClear, SelectionRequest, watcherVars
  <2> QED BY <2>1, <2>2, <2>3
<1>8. ASSUME NEW w \in active' \ outdated' PROVE WatchInv(w)'
  <2>1. WatchInv(w) /\ w \in active /\ w \in Watcher
    BY <1>1, <1>2, OwnerTypes DEF OwnershipIInv
  <2> QED BY <1>1, <1>2, <1>7, <2>1, WatchHears
<1>9. CASE calls' = calls /\ (e[1] = "clear" => registered # e[2])
  <2>1. OwnerTypeInv'
    BY <1>1, <1>2, <1>3, <1>7, <1>9 DEF OwnerTypeInv, SelectionOwnerTypeOK, OwnerNews
  <2>2. \A q \in Acquire : ~Asked(q)'
    BY <1>4, <1>9 DEF Asked
  <2>3. AskingInv'
    <3>1. reply = "none"
      BY <1>2, <1>4 DEF AskingInv
    <3>2. \A q \in Acquire : ~Has(ownerRequests, <<"own", q>>) /\ ~Has(ownerRequests, <<"who", q>>)
      BY <1>2, <1>4 DEF AskingInv
    <3>3. \A i \in 1..Len(ownerRequests') : ownerRequests'[i][1] = "who" => i = Len(ownerRequests')
      BY <1>1, <1>2 DEF AskingInv
    <3>4. \A i \in 1..Len(calls') : calls'[i][1] = "asked" => i = Len(calls')
      BY <1>2, <1>9 DEF AskingInv
    <3> QED BY <1>1, <2>2, <3>1, <3>2, <3>3, <3>4 DEF AskingInv
  <2>4. LivesInv'
    BY <1>1, <1>2, <1>9, <2>2 DEF LivesInv
  <2>5. ASSUME ~confused' PROVE HeldInv'
    <3>1. HeldInv
      BY <1>1, <1>2, <2>5
    <3>2. \A q \in Acquire : registered = q /\ Knows(q) => Knows(q)'
      <4>1. \A q \in Acquire : registered = q => <<"clear", q>> # e
        BY <1>9
      <4> QED BY <1>1, <1>3, <1>4, <4>1 DEF Knows, Overtaken
    <3>3. \A q \in Acquire : registered' = q => life'[q] = "live" /\ Knows(q)'
      BY <1>1, <1>5, <3>1, <3>2 DEF HeldInv
    <3>4. \A q \in Acquire : life'[q] = "live" => registered' = q
      BY <1>1, <1>4, <1>5, <3>1 DEF HeldInv
    <3> QED BY <1>4, <1>5, <1>9, <3>3, <3>4 DEF HeldInv
  <2> QED BY <1>8, <2>1, <2>3, <2>4, <2>5 DEF OwnershipIInv
<1>10. ASSUME NEW o \in Acquire, e = <<"clear", o>>, registered = o, calls' = Append(calls, <<"release", o>>)
       PROVE  OwnershipIInv'
  <2>1. LuaRuns
    BY <1>1, <1>2, TopCall DEF LuaRuns
  <2>2. \A q \in Acquire : Has(ownerEvents, <<"clear", q>>) /\ q # o => Has(ownerEvents', <<"clear", q>>)
    <3>1. \A q \in Acquire : q # o => <<"clear", q>> # e
      BY <1>10
    <3> QED BY <1>3, <3>1
  <2>3. life[o] # "new"
    BY <1>2, <1>10 DEF LivesInv
  <2>4. calls' \in Seq(OwnerCalls) /\ AskingInv' /\ LivesInv' /\ (~confused' => HeldInv')
    BY <1>1, <1>5, <1>10, <2>1, <2>2, <2>3, ReleaseBegins
  <2>5. OwnerTypeInv'
    BY <1>1, <1>2, <1>3, <1>7, <2>4 DEF OwnerTypeInv, SelectionOwnerTypeOK, OwnerNews, OwnerCalls
  <2> QED BY <1>8, <2>4, <2>5 DEF OwnershipIInv
<1>11. CASE e[1] = "clear" /\ SelectionClear(e[2])
  <2>1. e = <<"clear", e[2]>> /\ e[2] \in Acquire
    BY <1>3, <1>11, OwnershipAssumption DEF OwnerNews
  <2>2. FindByWindow(e[2]) = IF registered = e[2] THEN {e[2]} ELSE {}
    BY DEF FindByWindow
  <2>3. CASE registered = e[2]
    <3>1. calls' = Append(calls, <<"release", e[2]>>)
      BY <1>11, <2>2, <2>3 DEF SelectionClear, Release
    <3> QED BY <1>10, <2>1, <2>3, <3>1
  <2>4. CASE registered # e[2]
    <3>1. calls' = calls
      BY <1>11, <2>2, <2>4 DEF SelectionClear
    <3> QED BY <1>9, <2>4, <3>1
  <2> QED BY <2>3, <2>4
<1>12. CASE e[1] # "clear"
  <2>1. calls' = calls
    BY <1>1, <1>12 DEF SelectionRequest, XFixesSelectionNotify, acquireVars
  <2> QED BY <1>9, <1>12, <2>1
<1>13. e[1] = "clear" => SelectionClear(e[2])
  BY <1>1, OwnershipAssumption
<1> QED BY <1>11, <1>12, <1>13

-----------------------------------------------------------------------------
(* Watchers.                                                               *)

LEMMA SetActiveKeeps == ASSUME OwnershipIInv, NEW w \in Watcher, SetActive(w) PROVE OwnershipIInv'
<1> PICK op \in {"watch", "unwatch"} : op = IF w \in active THEN "unwatch" ELSE "watch"
  OBVIOUS
<1> PICK r \in OwnerOps : r = <<op, w>>
  BY DEF OwnerOps
<1>1. /\ LuaRuns /\ ownerRequests' = Append(ownerRequests, r)
      /\ active' = IF w \in active THEN active \ {w} ELSE active \cup {w}
      /\ told' = IF w \in active THEN told ELSE [told EXCEPT ![w] = None]
      /\ outdated' = IF w \notin active /\ (\/ w \in watching \/ w \in {q[2] : q \in Range(ownerRequests)}
                                            \/ w \in {e[1] : e \in Range(ownerEvents)})
                     THEN outdated \cup {w} ELSE outdated
      /\ UNCHANGED <<owner, behind, watching, reply, ownerEvents, life, acquired, registered, calls, confused>>
  BY DEF SetActive, acquireVars
<1>2. OwnerTypeInv /\ AskingInv /\ LivesInv /\ (~confused => HeldInv)
  BY DEF OwnershipIInv
<1>3. /\ ownerRequests' \in Seq(OwnerOps)
      /\ \A x : Has(ownerRequests', x) <=> Has(ownerRequests, x) \/ x = r
  <2>1. ownerRequests \in Seq(OwnerOps)
    BY <1>2, OwnerTypes
  <2>2. Appended(OwnerOps, ownerRequests, r, ownerRequests')
    BY <1>1, <2>1, AppendIs
  <2> QED BY <2>2 DEF Appended
<1>4. /\ told \in [Watcher -> BOOLEAN \cup {None}] /\ active \subseteq Watcher /\ outdated \subseteq Watcher
  BY <1>2, OwnerTypes
<1>5. OwnerTypeInv'
  <2>1. told' \in [Watcher -> BOOLEAN \cup {None}] /\ active' \subseteq Watcher /\ outdated' \subseteq Watcher
    BY <1>1, <1>4
  <2> QED BY <1>1, <1>2, <1>3, <2>1 DEF OwnerTypeInv, SelectionOwnerTypeOK
<1>6. (\A q \in Acquire : ~Asked(q)) /\ reply = "none"
  <2>1. \A q \in Acquire : ~Asked(q)
    BY <1>1, <1>2, TopCall DEF LuaRuns
  <2> QED BY <1>2, <2>1 DEF AskingInv
<1>7. \A q \in Acquire : Asked(q)' <=> Asked(q)
  BY <1>1 DEF Asked
<1>8. \A q \in Acquire : <<"own", q>> # r /\ <<"who", q>> # r /\ <<"destroy", q>> # r
  OBVIOUS
<1>9. \A q \in Acquire : ~Has(ownerRequests', <<"own", q>>) /\ ~Has(ownerRequests', <<"who", q>>)
  BY <1>2, <1>3, <1>6, <1>8 DEF AskingInv
<1>10. AskingInv'
  <2>1. ASSUME NEW i \in 1..Len(ownerRequests') PROVE ownerRequests'[i][1] # "who"
    <3>1. ownerRequests'[i] \in OwnerOps
      BY <1>3, ElementOfSeq
    <3>2. ownerRequests'[i][1] = "who" => /\ ownerRequests'[i] = <<"who", ownerRequests'[i][2]>>
                                          /\ ownerRequests'[i][2] \in Acquire
      BY <3>1 DEF OwnerOps
    <3>3. Has(ownerRequests', ownerRequests'[i])
      BY DEF Has
    <3> QED BY <1>9, <3>2, <3>3
  <2> QED BY <1>1, <1>2, <1>6, <1>7, <1>9, <2>1 DEF AskingInv
<1>11. LivesInv'
  BY <1>1, <1>2, <1>3, <1>7, <1>8 DEF LivesInv
<1>12. \A q \in Acquire : Knows(q) => Knows(q)'
  BY <1>1, <1>7 DEF Knows, Overtaken
<1>13. ~confused' => HeldInv'
  BY <1>1, <1>2, <1>12, HeldStays
<1>14. ASSUME NEW v \in active' \ outdated', v # w PROVE WatchInv(v)'
  <2>1. WatchInv(v) /\ told'[v] = told[v]
    BY <1>1, <1>4, <1>14 DEF OwnershipIInv
  <2>2. <<"watch", v>> # r /\ <<"unwatch", v>> # r
    BY <1>14
  <2> QED BY <1>1, <1>3, <2>1, <2>2, WatchStays
<1>15. ASSUME w \in active' \ outdated' PROVE WatchInv(w)'
  <2>1. /\ w \notin active /\ w \notin watching /\ op = "watch" /\ told'[w] = None
        /\ w \notin {q[2] : q \in Range(ownerRequests)} /\ w \notin {e[1] : e \in Range(ownerEvents)}
    BY <1>1, <1>4, <1>15
  <2>2. ~Speaks(w)
    <3>1. SUFFICES ASSUME NEW i \in 1..Len(ownerEvents), ownerEvents[i][1] = w PROVE FALSE
      BY DEF Speaks
    <3>2. ownerEvents[i] \in Range(ownerEvents)
      BY <1>2, OwnerTypes, LenProperties DEF Range
    <3> QED BY <2>1, <3>1, <3>2
  <2>3. ~Has(ownerRequests, <<"unwatch", w>>)
    <3>1. Has(ownerRequests, <<"unwatch", w>>) => <<"unwatch", w>> \in Range(ownerRequests)
      BY <1>2, OwnerTypes, RangeHas
    <3>2. <<"unwatch", w>>[2] = w
      OBVIOUS
    <3> QED BY <2>1, <3>1, <3>2
  <2>4. <<"unwatch", w>> # r /\ <<"watch", w>> = r
    BY <2>1
  <2>5. ~Has(ownerRequests', <<"unwatch", w>>) /\ Has(ownerRequests', <<"watch", w>>)
    BY <1>3, <2>3, <2>4
  <2>6. ~Speaks(w)' /\ \A i \in 1..Len(ownerEvents') : ownerEvents'[i][1] # w
    BY <1>1, <2>2 DEF Speaks
  <2> QED BY <1>1, <2>1, <2>5, <2>6 DEF WatchInv
<1> QED BY <1>5, <1>10, <1>11, <1>13, <1>14, <1>15 DEF OwnershipIInv

-----------------------------------------------------------------------------
\* Nothing that matters changes.
LEMMA OwnershipStays ==
    ASSUME OwnershipIInv, behind' \in BOOLEAN,
           UNCHANGED <<owner, watching, ownerRequests, reply, ownerEvents, life, acquired, registered,
                       calls, active, told, outdated, confused>>
    PROVE  OwnershipIInv'
<1>1. OwnerTypeInv /\ AskingInv /\ LivesInv /\ (~confused => HeldInv)
  BY DEF OwnershipIInv
<1>2. OwnerTypeInv'
  BY <1>1 DEF OwnerTypeInv, SelectionOwnerTypeOK
<1>3. \A q \in Acquire : Asked(q)' <=> Asked(q)
  BY DEF Asked
<1>4. AskingInv'
  BY <1>1, <1>3 DEF AskingInv
<1>5. LivesInv'
  BY <1>1, <1>3 DEF LivesInv
<1>6. \A q \in Acquire : Knows(q) => Knows(q)'
  BY <1>3 DEF Knows, Overtaken
<1>7. ~confused' => HeldInv'
  BY <1>1, <1>6, HeldStays
<1>8. ASSUME NEW w \in active' \ outdated' PROVE WatchInv(w)'
  <2>1. WatchInv(w)
    BY DEF OwnershipIInv
  <2> QED BY <2>1, WatchStays
<1> QED BY <1>2, <1>4, <1>5, <1>7, <1>8 DEF OwnershipIInv

LEMMA OwnershipStart == OwnershipInit => OwnershipIInv
<1> SUFFICES ASSUME OwnershipInit PROVE OwnershipIInv
  OBVIOUS
<1>1. /\ owner = None /\ behind = FALSE /\ watching = {} /\ ownerRequests = <<>> /\ reply = "none"
      /\ ownerEvents = <<>> /\ life = [o \in Acquire |-> "new"] /\ acquired = {} /\ registered = None
      /\ calls = <<>> /\ active = {} /\ told = [w \in Watcher |-> None] /\ outdated = {} /\ confused = FALSE
  BY DEF OwnershipInit, AcquireInit, WatcherInit
<1>2. OwnerTypeInv
  <2>1. /\ ownerRequests \in Seq(OwnerOps) /\ ownerEvents \in Seq(OwnerNews)
        /\ calls \in Seq(OwnerCalls)
    BY <1>1, EmptySeq
  <2>2. life \in [Acquire -> {"new", "live", "dead"}] /\ told \in [Watcher -> BOOLEAN \cup {None}]
    BY <1>1
  <2>3. SelectionOwnerTypeOK
    BY <1>1, <2>1, <2>2 DEF SelectionOwnerTypeOK, OwnerNews, OwnerCalls
  <2> QED BY <1>1, <2>1, <2>3 DEF OwnerTypeInv
<1>3. \A x : ~Has(calls, x) /\ ~Has(ownerRequests, x)
  BY <1>1, EmptyHas
<1>4. Len(calls) = 0 /\ Len(ownerRequests) = 0 /\ \A o \in Acquire : ~Asked(o)
  BY <1>1 DEF Asked
<1>5. \A o \in Acquire : owner # o /\ registered # o
  BY <1>1, OwnershipAssumption
<1>6. AskingInv
  BY <1>1, <1>3, <1>4 DEF AskingInv
<1>7. LivesInv
  BY <1>1, <1>3, <1>4, <1>5 DEF LivesInv
<1>8. HeldInv
  BY <1>1, <1>3, <1>4, <1>5 DEF HeldInv
<1> QED BY <1>1, <1>2, <1>6, <1>7, <1>8 DEF OwnershipIInv

LEMMA OwnershipStep == OwnershipIInv /\ [OwnershipNext]_ownershipVars => OwnershipIInv'
<1> SUFFICES ASSUME OwnershipIInv, [OwnershipNext]_ownershipVars PROVE OwnershipIInv'
  OBVIOUS
<1>1. CASE ExecuteOwnerRequest
  BY <1>1, ExecuteOwnerRequestKeeps
<1>2. CASE HandleOwnerEvent
  BY <1>2, HandleOwnerEventKeeps
<1>3. CASE HearTime
  BY <1>3, OwnershipStays DEF HearTime, acquireVars, watcherVars
<1>4. CASE AcquireEnd
  BY <1>4, AcquireFailsKeeps, AcquireSucceedsKeeps
<1>5. CASE Register
  BY <1>5, RegisterEnds
<1>6. CASE ReleaseEnd
  BY <1>6, ReleaseEndKeeps
<1>7. CASE AppTakes
  BY <1>7, AppTakesKeeps
<1>8. CASE AppLoses
  BY <1>8, AppLosesKeeps
<1>9. CASE AppAsks
  BY <1>9, AppAsksKeeps
<1>10. ASSUME NEW o \in Acquire, AcquireBegin(o) PROVE OwnershipIInv'
  BY <1>10, AcquireBeginKeeps
<1>11. ASSUME NEW o \in Acquire, LuaReleases(o) PROVE OwnershipIInv'
  BY <1>11, LuaReleasesKeeps
<1>12. ASSUME NEW w \in Watcher, SetActive(w) PROVE OwnershipIInv'
  BY <1>12, SetActiveKeeps
<1>13. CASE UNCHANGED ownershipVars
  <2>1. behind \in BOOLEAN
    BY OwnerTypes DEF OwnershipIInv
  <2> QED BY <1>13, <2>1, OwnershipStays DEF ownershipVars, serverOwnerVars, acquireVars, watcherVars
<1>14. CASE OwnershipNext
  BY <1>1, <1>2, <1>3, <1>4, <1>5, <1>6, <1>7, <1>8, <1>9, <1>10, <1>11, <1>12, <1>14 DEF OwnershipNext
<1> QED BY <1>13, <1>14

LEMMA OwnershipFollows == OwnershipIInv => OwnershipInv
<1> SUFFICES ASSUME OwnershipIInv PROVE OwnershipInv
  OBVIOUS
<1>1. OwnerTypeInv /\ AskingInv /\ LivesInv /\ (~confused => HeldInv)
  BY DEF OwnershipIInv
<1>2. SelectionOwnerTypeOK
  BY <1>1 DEF OwnerTypeInv
<1>3. ASSUME Quiet
      PROVE  (\A x : ~Has(calls, x) /\ ~Has(ownerRequests, x) /\ ~Has(ownerEvents, x)) /\ \A o \in Acquire : ~Asked(o)
  <2>1. calls = <<>> /\ ownerRequests = <<>> /\ ownerEvents = <<>>
    BY <1>3 DEF Quiet
  <2>2. \A x : ~Has(calls, x) /\ ~Has(ownerRequests, x) /\ ~Has(ownerEvents, x)
    BY <2>1, EmptyHas
  <2> QED BY <1>1, <2>1, <2>2, TopCall
<1>4. OwnershipAgrees
  <2>1. SUFFICES ASSUME Quiet, ~confused
                 PROVE  /\ {o \in Acquire : life[o] = "live"} = {owner} \cap Acquire
                        /\ {registered} \ {None} = {owner} \cap Acquire
    BY DEF OwnershipAgrees
  <2>2. HeldInv
    BY <1>1, <2>1
  <2>3. ASSUME NEW o \in Acquire PROVE life[o] = "live" <=> registered = o
    BY <1>3, <2>1, <2>2 DEF HeldInv
  <2>4. ASSUME NEW o \in Acquire PROVE registered = o => owner = o
    BY <1>3, <2>1, <2>2 DEF HeldInv, Knows, Overtaken
  <2>5. ASSUME NEW o \in Acquire PROVE owner = o => life[o] = "live"
    <3>1. life[o] \in {"new", "live", "dead"}
      BY <1>1, OwnerTypes
    <3> QED BY <1>1, <1>3, <2>1, <3>1 DEF LivesInv
  <2>6. registered \in Acquire \cup {None} /\ None \notin Acquire
    BY <1>1, OwnerTypes, OwnershipAssumption
  <2>7. {o \in Acquire : life[o] = "live"} = {owner} \cap Acquire
    BY <2>3, <2>4, <2>5
  <2>8. {registered} \ {None} = {owner} \cap Acquire
    BY <2>3, <2>4, <2>5, <2>6
  <2> QED BY <2>7, <2>8
<1>5. WatchersKnow
  <2>1. SUFFICES ASSUME Quiet, NEW w \in active \ outdated, told[w] # None PROVE told[w] = (owner # None)
    BY DEF WatchersKnow
  <2>2. ~Speaks(w)
    <3>1. ownerEvents = <<>>
      BY <2>1 DEF Quiet
    <3> QED BY <3>1 DEF Speaks
  <2>3. WatchInv(w)
    BY DEF OwnershipIInv
  <2> QED BY <2>1, <2>2, <2>3 DEF WatchInv
<1> QED BY <1>2, <1>4, <1>5 DEF OwnershipInv

\* At rest, the acquire object that is alive and registered is the one whose window owns the
\* selection, and the watchers know whether there is an owner (objects/selection_acquire.c and
\* objects/selection_watcher.c), for any number of objects and whatever applications do.
THEOREM OwnersAreKnown == OwnershipSpec => []OwnershipInv
<1>1. OwnershipSpec => []OwnershipIInv
  BY OwnershipStart, OwnershipStep, PTL DEF OwnershipSpec
<1> QED BY <1>1, OwnershipFollows, PTL
=============================================================================

--------------------------- MODULE Services_proofs ---------------------------
(***************************************************************************)
(* Proofs about the components that talk to other programs, by processes,  *)
(* properties and the input focus.                                         *)
(*                                                                         *)
(* Xproperties: who listens knows the value of a property or will be told, *)
(* and the window has what awful's object of the client has.  When awful   *)
(* has not asked the window yet, it may have more.                         *)
(*                                                                         *)
(* Focus: the last word about the focus is awesome's, once its requests    *)
(* are executed, and the server's, once its reports are read.              *)
(***************************************************************************)
EXTENDS Spawn, Xproperties, Focus, SequenceTheorems, FiniteSetTheorems, TLAPS

-----------------------------------------------------------------------------
(* Spawn: children.                                                        *)

\* A child that was spawned with a function has a number of its own; it is waited for as
\* long as it has its pid, and reported after that.
ChildrenInv ==
    /\ process \in [Pid -> {"free", "running", "zombie"}]
    /\ spawned \in 0..MaxSpawns
    /\ child \in [Pid -> 0..spawned] /\ runningChildren = child
    /\ reported \in Seq(1..spawned) /\ IsInjective(reported)
    /\ \A p \in Pid : process[p] = "free" => child[p] = 0
    /\ \A p, q \in Pid : child[p] = child[q] /\ p # q => child[p] = 0
    /\ \A p \in Pid, i \in DOMAIN reported : child[p] # reported[i]
    /\ sigchld \in BOOLEAN /\ reaping \in BOOLEAN /\ pipe \in 0..MaxPipe
    /\ (\E p \in Pid : process[p] = "zombie") => sigchld \/ pipe > 0 \/ reaping

LEMMA InitChildren == SpawnInit => ChildrenInv
<1> SUFFICES ASSUME SpawnInit PROVE ChildrenInv
  OBVIOUS
<1>1. reported \in Seq(1..spawned) /\ DOMAIN reported = {}
  BY EmptySeq DEF SpawnInit
<1>2. \A p \in Pid : child[p] = 0 /\ process[p] = "free"
  BY DEF SpawnInit
<1>3. child \in [Pid -> 0..spawned] /\ spawned \in 0..MaxSpawns /\ pipe \in 0..MaxPipe
  BY SpawnAssumption DEF SpawnInit
<1> QED BY <1>1, <1>2, <1>3 DEF SpawnInit, ChildrenInv, IsInjective

LEMMA ExitChildren == ASSUME ChildrenInv, NEW p \in Pid, Exit(p) PROVE ChildrenInv'
  BY DEF ChildrenInv, Exit, IsInjective

LEMMA SignalChildren == ChildrenInv /\ (SignalChild \/ ReapBegin) => ChildrenInv'
<1>1. ASSUME ChildrenInv, SignalChild \/ ReapBegin
      PROVE  /\ UNCHANGED <<process, spawned, runningChildren, child, reported>>
             /\ sigchld' \in BOOLEAN /\ reaping' \in BOOLEAN /\ pipe' \in 0..MaxPipe
             /\ pipe' > 0 \/ reaping'
  <2>1. pipe \in 0..MaxPipe /\ sigchld \in BOOLEAN /\ reaping \in BOOLEAN
    BY <1>1 DEF ChildrenInv
  <2>2. CASE SignalChild
    <3>1. sigchld' = FALSE /\ reaping' = reaping
      BY <2>2 DEF SignalChild
    <3>2. pipe' \in 0..MaxPipe /\ pipe' > 0
      BY <2>1, <2>2, SpawnAssumption DEF SignalChild
    <3> QED BY <2>1, <2>2, <3>1, <3>2 DEF SignalChild
  <2>3. CASE ReapBegin
    <3>1. pipe' \in 0..MaxPipe
      BY <2>3, SpawnAssumption DEF ReapBegin
    <3> QED BY <2>1, <2>3, <3>1 DEF ReapBegin
  <2> QED BY <1>1, <2>2, <2>3
<1> QED BY <1>1 DEF ChildrenInv, IsInjective

LEMMA ReapEndChildren == ChildrenInv /\ ReapEnd => ChildrenInv'
  BY DEF ChildrenInv, ReapEnd, IsInjective

LEMMA ReapChildren == ASSUME ChildrenInv, NEW p \in Pid, ReapChild(p) PROVE ChildrenInv'
<1>1. /\ process' \in [Pid -> {"free", "running", "zombie"}] /\ child' \in [Pid -> 0..spawned']
      /\ spawned' \in 0..MaxSpawns
      /\ runningChildren' = child'
      /\ \A q \in Pid : process'[q] = "free" => child'[q] = 0
      /\ \A q, r \in Pid : child'[q] = child'[r] /\ q # r => child'[q] = 0
      /\ sigchld' \in BOOLEAN /\ reaping' \in BOOLEAN /\ pipe' \in 0..MaxPipe
      /\ reaping'
  BY DEF ChildrenInv, ReapChild, GoesOn
<1>2. CASE child[p] = 0
  <2>1. reported' = reported /\ child' = child /\ spawned' = spawned
    BY <1>2 DEF ChildrenInv, ReapChild
  <2> QED BY <1>1, <2>1 DEF ChildrenInv, IsInjective
<1>3. CASE child[p] # 0
  <2> DEFINE n == child[p]
  <2>1. reported' = Append(reported, n) /\ spawned' = spawned /\ n \in 1..spawned
    BY <1>3 DEF ChildrenInv, ReapChild
  <2>2. /\ reported' \in Seq(1..spawned') /\ Len(reported') = Len(reported) + 1
        /\ \A i \in 1..Len(reported) : reported'[i] = reported[i]
        /\ reported'[Len(reported) + 1] = n
        /\ DOMAIN reported = 1..Len(reported) /\ DOMAIN reported' = 1..Len(reported) + 1
        /\ Len(reported) \in Nat
    BY <2>1, AppendProperties, LenProperties DEF ChildrenInv
  <2>3. \A i \in 1..Len(reported) : reported'[i] # n
    BY <2>2 DEF ChildrenInv
  <2>4. IsInjective(reported')
    BY <2>2, <2>3 DEF ChildrenInv, IsInjective
  <2>5. ASSUME NEW q \in Pid, NEW i \in DOMAIN reported' PROVE child'[q] # reported'[i]
    <3>1. CASE q = p
      <4>1. child'[q] = 0 /\ reported'[i] \in 1..spawned
        BY <3>1, <2>1, <2>2, ElementOfSeq DEF ReapChild, ChildrenInv
      <4> QED BY <4>1
    <3>2. CASE q # p
      <4>1. child'[q] = child[q] /\ child[q] # n
        BY <3>2, <1>3 DEF ReapChild, ChildrenInv
      <4> QED BY <4>1, <2>2 DEF ChildrenInv
    <3> QED BY <3>1, <3>2
  <2> QED BY <1>1, <2>2, <2>4, <2>5 DEF ChildrenInv
<1> QED BY <1>2, <1>3

LEMMA SpawnChildren ==
    ASSUME ChildrenInv, NEW s \in Launch, NEW useSn \in BOOLEAN, LuaSpawn(s, useSn)
    PROVE  ChildrenInv'
<1>1. UNCHANGED <<reported, pipe, reaping>>
  BY DEF LuaSpawn
<1>2. CASE UNCHANGED <<process, spawned, runningChildren, child>> /\ sigchld' \in BOOLEAN
           /\ (sigchld => sigchld')
  BY <1>1, <1>2 DEF ChildrenInv, IsInjective
<1>3. ASSUME spawned < MaxSpawns, NEW p \in Pid, process[p] = "free",
             process' = [process EXCEPT ![p] = "running"],
             runningChildren' = Inserted(p, spawned + 1),
             child' = [child EXCEPT ![p] = spawned + 1],
             spawned' = spawned + 1, UNCHANGED sigchld
      PROVE  ChildrenInv'
  <2>1. reported' \in Seq(1..spawned')
    BY <1>1, <1>3, SeqMonotonic, 1..spawned \subseteq 1..spawned + 1 DEF ChildrenInv
  <2>2. \A i \in DOMAIN reported : reported[i] \in 1..spawned
    BY LenProperties, ElementOfSeq DEF ChildrenInv
  <2>3. child[p] = 0 /\ runningChildren' = child'
    BY <1>3 DEF ChildrenInv, Inserted
  <2>4. \A q \in Pid : child'[q] = IF q = p THEN spawned + 1 ELSE child[q]
    BY <1>3 DEF ChildrenInv
  <2>5. \A q \in Pid, i \in DOMAIN reported' : child'[q] # reported'[i]
    BY <1>1, <2>2, <2>4 DEF ChildrenInv
  <2>6. ASSUME NEW q \in Pid, NEW r \in Pid, child'[q] = child'[r], q # r PROVE child'[q] = 0
    <3>1. child[q] \in 0..spawned /\ child[r] \in 0..spawned /\ spawned \in Nat
      BY DEF ChildrenInv
    <3>2. child'[q] = child[q] /\ child'[r] = child[r]
      BY <2>4, <2>6, <3>1
    <3> QED BY <2>6, <3>2 DEF ChildrenInv
  <2>7. /\ process' \in [Pid -> {"free", "running", "zombie"}] /\ spawned' \in 0..MaxSpawns
        /\ child' \in [Pid -> 0..spawned']
        /\ \A q \in Pid : process'[q] = "free" => child'[q] = 0
        /\ \A q \in Pid : process'[q] = "zombie" => process[q] = "zombie"
    BY <1>3, SpawnAssumption DEF ChildrenInv
  <2> QED BY <1>1, <1>3, <2>1, <2>3, <2>5, <2>6, <2>7 DEF ChildrenInv, IsInjective
<1>4. CASE UNCHANGED <<process, spawned, runningChildren, child>>
  <2>1. sigchld' = TRUE \/ sigchld' = sigchld
    BY <1>4 DEF LuaSpawn, ChildrenInv
  <2> QED BY <1>2, <1>4, <2>1 DEF ChildrenInv
<1> QED BY <1>3, <1>4 DEF LuaSpawn

LEMMA NextChildren == ChildrenInv /\ [SpawnNext]_spawnVars => ChildrenInv'
<1>1. ASSUME ChildrenInv, UNCHANGED childVars PROVE ChildrenInv'
  BY <1>1 DEF ChildrenInv, childVars, IsInjective
<1>2. ASSUME NEW s \in Launch, LauncheeTimeout(s) \/ MonitorTimeout(s) PROVE UNCHANGED childVars
  BY <1>2 DEF LauncheeTimeout, MonitorTimeout
<1>3. ASSUME NEW kind \in {"new", "remove"}, NEW s \in Launch, OthersSend(kind, s) PROVE UNCHANGED childVars
  BY <1>3 DEF OthersSend
<1>4. MonitorEvent => UNCHANGED childVars
  BY DEF MonitorEvent
<1>5. ASSUME NEW own, NEW alike, SpawnStartNotify(own, alike) PROVE UNCHANGED childVars
  BY <1>5 DEF SpawnStartNotify
<1>6. UNCHANGED spawnVars => UNCHANGED childVars
  BY DEF spawnVars, childVars
<1> QED
  BY <1>1, <1>2, <1>3, <1>4, <1>5, <1>6, ExitChildren, SignalChildren, ReapEndChildren, ReapChildren,
     SpawnChildren DEF SpawnNext
-----------------------------------------------------------------------------
(* Spawn: startup sequences.                                               *)

\* Without duplicates, RemoveFirst is the removal of an element.
LEMMA RemoveFirstRemoves ==
    ASSUME NEW S, NEW q \in Seq(S), IsInjective(q), NEW e
    PROVE  /\ RemoveFirst(q, e) \in Seq(S) /\ IsInjective(RemoveFirst(q, e))
           /\ Range(RemoveFirst(q, e)) = Range(q) \ {e}
<1>1. Len(q) \in Nat /\ DOMAIN q = 1..Len(q) /\ \A i \in 1..Len(q) : q[i] \in S
  BY LenProperties, ElementOfSeq
<1>2. CASE \A i \in 1..Len(q) : q[i] # e
  <2>1. RemoveFirst(q, e) = q
    BY <1>2 DEF RemoveFirst
  <2> QED BY <1>1, <1>2, <2>1 DEF Range
<1>3. ASSUME NEW k \in 1..Len(q), q[k] = e
      PROVE  /\ RemoveFirst(q, e) \in Seq(S) /\ IsInjective(RemoveFirst(q, e))
             /\ Range(RemoveFirst(q, e)) = Range(q) \ {e}
  <2> DEFINE a == SubSeq(q, 1, k - 1)
             b == SubSeq(q, k + 1, Len(q))
             r == a \o b
  <2>1. {i \in 1..Len(q) : q[i] = e} = {k}
    BY <1>1, <1>3 DEF IsInjective
  <2>2. Min({k}) = k
    BY <1>1 DEF Min
  <2>3. RemoveFirst(q, e) = r
    BY <1>3, <2>1, <2>2 DEF RemoveFirst, RemoveAt, SelectInSeq
  <2>4. a \in Seq(S) /\ Len(a) = k - 1 /\ \A i \in 1..k - 1 : a[i] = q[i]
    BY <1>1, SubSeqProperties, k - 1 \in Int, \A i \in 1..k - 1 : 1 + i - 1 = i
  <2>5. b \in Seq(S) /\ Len(b) = Len(q) - k /\ \A i \in 1..Len(q) - k : b[i] = q[k + i]
    <3>1. \A i \in k + 1..Len(q) : q[i] \in S
      BY <1>1
    <3>2. /\ b \in Seq(S) /\ Len(b) = IF k + 1 <= Len(q) THEN Len(q) - (k + 1) + 1 ELSE 0
          /\ \A i \in 1..Len(q) - (k + 1) + 1 : b[i] = q[k + 1 + i - 1]
      BY <1>1, <3>1, SubSeqProperties, k + 1 \in Int
    <3>3. Len(q) - (k + 1) + 1 = Len(q) - k
      BY <1>1
    <3>4. \A i \in 1..Len(q) - k : k + 1 + i - 1 = k + i
      BY <1>1
    <3>5. Len(b) = Len(q) - k
      <4>1. Len(b) = IF k + 1 <= Len(q) THEN Len(q) - (k + 1) + 1 ELSE 0
        BY <3>2
      <4>2. \A n \in Nat : \A m \in 1..n : (IF m + 1 <= n THEN n - (m + 1) + 1 ELSE 0) = n - m
        OBVIOUS
      <4>3. (IF k + 1 <= Len(q) THEN Len(q) - (k + 1) + 1 ELSE 0) = Len(q) - k
        BY ONLY <1>1, <4>2, k \in 1..Len(q)
      <4> QED BY ONLY <4>1, <4>3
    <3>6. \A i \in 1..Len(q) - k : b[i] = q[k + i]
      BY ONLY <3>2, <3>3, <3>4
    <3> QED BY ONLY <3>2, <3>5, <3>6
  <2> HIDE DEF a, b
  <2>6. /\ r \in Seq(S) /\ Len(r) = Len(q) - 1
        /\ \A i \in 1..Len(q) - 1 : r[i] = IF i < k THEN q[i] ELSE q[i + 1]
    <3>1. /\ r \in Seq(S) /\ Len(r) = Len(a) + Len(b)
          /\ \A i \in 1..Len(a) + Len(b) : r[i] = IF i <= Len(a) THEN a[i] ELSE b[i - Len(a)]
      BY <2>4, <2>5, ConcatProperties
    <3> HIDE DEF r
    <3>2. Len(r) = Len(q) - 1
      BY <1>1, <2>4, <2>5, <3>1
    <3>3. ASSUME NEW i \in 1..Len(q) - 1 PROVE r[i] = IF i < k THEN q[i] ELSE q[i + 1]
      <4>1. r[i] = IF i <= k - 1 THEN a[i] ELSE b[i - (k - 1)]
        BY <1>1, <2>4, <2>5, <3>1, <3>2
      <4>2. CASE i < k
        BY <1>1, <2>4, <4>1, <4>2
      <4>3. CASE ~(i < k)
        <5>1. i - (k - 1) \in 1..Len(q) - k /\ k + (i - (k - 1)) = i + 1
          BY <1>1, <4>3
        <5>2. b[i - (k - 1)] = q[k + (i - (k - 1))]
          BY <2>5, <5>1
        <5> QED BY <1>1, <4>1, <4>3, <5>1, <5>2
      <4> QED BY <4>2, <4>3
    <3> QED BY <3>1, <3>2, <3>3
  <2> HIDE DEF r
  <2>7. DOMAIN r = 1..Len(q) - 1
    BY <2>6, LenProperties
  <2>8. IsInjective(r)
    <3>1. \A i, j \in 1..Len(q) : q[i] = q[j] => i = j
      BY <1>1 DEF IsInjective
    <3>2. ASSUME NEW i \in 1..Len(q) - 1, NEW j \in 1..Len(q) - 1, r[i] = r[j] PROVE i = j
      <4>1. /\ i \in 1..Len(q) /\ i + 1 \in 1..Len(q) /\ j \in 1..Len(q) /\ j + 1 \in 1..Len(q)
            /\ k \in 1..Len(q)
        BY <1>1
      <4> QED BY ONLY <4>1, <2>6, <3>1, <3>2, <1>1
    <3> QED BY ONLY <3>2, <2>7 DEF IsInjective
  <2>9. ASSUME NEW i \in 1..Len(q) - 1 PROVE r[i] \in Range(q) \ {e}
    <3>1. PICK j \in 1..Len(q) : j # k /\ r[i] = q[j]
      <4>1. i \in 1..Len(q) /\ i + 1 \in 1..Len(q) /\ (~(i < k) => i + 1 # k) /\ (i < k => i # k)
        BY <1>1
      <4> QED BY <2>6, <4>1
    <3> QED BY <1>1, <1>3, <3>1 DEF IsInjective, Range
  <2>10. ASSUME NEW x \in Range(q) \ {e} PROVE \E i \in 1..Len(q) - 1 : r[i] = x
    <3>1. PICK j \in 1..Len(q) : q[j] = x /\ j # k
      BY <1>1, <1>3 DEF Range
    <3>2. CASE j < k
      BY <1>1, <2>6, <3>1, <3>2
    <3>3. CASE j > k
      <4>1. j - 1 \in 1..Len(q) - 1 /\ ~(j - 1 < k) /\ (j - 1) + 1 = j
        BY <1>1, <3>1, <3>3
      <4> QED BY <2>6, <3>1, <4>1
    <3> QED BY <1>1, <3>1, <3>2, <3>3
  <2>11. Range(r) = Range(q) \ {e}
    <3>1. Range(r) = {r[i] : i \in 1..Len(q) - 1}
      BY <2>7 DEF Range
    <3> QED BY <2>9, <2>10, <3>1
  <2> QED BY <2>3, <2>6, <2>8, <2>11
<1> QED BY <1>2, <1>3

OneIf(b) == IF b THEN 1 ELSE 0

\* libsn, the list and the timeout hold one reference each.
StartupInv ==
    /\ messages \in Seq({"new", "remove"} \X Launch)
    /\ known \subseteq Launch /\ timers \subseteq Launch /\ launchers \subseteq Launch
    /\ waits \in Seq(Launch) /\ IsInjective(waits)
    /\ refs = [s \in Launch |-> OneIf(s \in known) + OneIf(s \in Range(waits)) + OneIf(s \in timers)]
    /\ others \in 0..MaxMessages

LEMMA InitStartup == SpawnInit => StartupInv
<1> SUFFICES ASSUME SpawnInit PROVE StartupInv
  OBVIOUS
<1>1. /\ messages \in Seq({"new", "remove"} \X Launch) /\ waits \in Seq(Launch)
      /\ DOMAIN waits = {}
  BY EmptySeq DEF SpawnInit
<1>2. Range(waits) = {}
  BY <1>1 DEF Range
<1>3. \A s \in Launch : OneIf(s \in known) + OneIf(s \in Range(waits)) + OneIf(s \in timers) = 0
  BY <1>2 DEF SpawnInit, OneIf
<1> QED BY <1>1, <1>3, SpawnAssumption DEF SpawnInit, StartupInv, IsInjective

\* The references of a sequence whose timeout or libsn's part ends.
LEMMA MonitorTimeoutStartup ==
    ASSUME StartupInv, NEW s \in Launch, MonitorTimeout(s) PROVE StartupInv'
<1>1. /\ waits' \in Seq(Launch) /\ IsInjective(waits') /\ Range(waits') = Range(waits) \ {s}
  BY RemoveFirstRemoves DEF StartupInv, MonitorTimeout
<1>2. ASSUME NEW t \in Launch
      PROVE  refs'[t] = OneIf(t \in known') + OneIf(t \in Range(waits')) + OneIf(t \in timers')
  BY <1>1 DEF StartupInv, MonitorTimeout, OneIf, RemovedRefs, InWaits
<1>3. refs' = [t \in Launch |-> refs'[t]]
  BY DEF StartupInv, MonitorTimeout
<1> QED BY <1>1, <1>2, <1>3 DEF StartupInv, MonitorTimeout

LEMMA MonitorEventStartup == StartupInv /\ MonitorEvent => StartupInv'
<1> SUFFICES ASSUME StartupInv, MonitorEvent PROVE StartupInv'
  OBVIOUS
<1>1. messages' \in Seq({"new", "remove"} \X Launch) /\ Head(messages) \in {"new", "remove"} \X Launch
  BY HeadTailProperties DEF StartupInv, MonitorEvent
<1> DEFINE kind == Head(messages)[1]
           s == Head(messages)[2]
<1>2. s \in Launch
  BY <1>1
<1>3. CASE /\ kind = "new" /\ s \notin known /\ refs[s] = 0
           /\ known' = known \cup {s}
           /\ waits' = Append(waits, s)
           /\ timers' = timers \cup {s}
           /\ refs' = [refs EXCEPT ![s] = 1 + InitiatedRefs]
  <2>1. s \notin Range(waits) /\ s \notin timers
    BY <1>2, <1>3 DEF StartupInv, OneIf
  <2>2. /\ waits' \in Seq(Launch) /\ DOMAIN waits = 1..Len(waits) /\ DOMAIN waits' = 1..Len(waits) + 1
        /\ Len(waits) \in Nat
        /\ \A i \in 1..Len(waits) : waits'[i] = waits[i]
        /\ waits'[Len(waits) + 1] = s
    BY <1>2, <1>3, AppendProperties, LenProperties DEF StartupInv
  <2>3. \A i \in 1..Len(waits) : waits[i] # s
    BY <2>1, <2>2 DEF Range
  <2>4. IsInjective(waits')
    <3>1. \A i, j \in 1..Len(waits) : waits[i] = waits[j] => i = j
      BY <2>2 DEF IsInjective, StartupInv
    <3>2. ASSUME NEW i \in 1..Len(waits) + 1, NEW j \in 1..Len(waits) + 1, waits'[i] = waits'[j]
          PROVE  i = j
      <4>1. \A k \in 1..Len(waits) + 1 : k = Len(waits) + 1 \/ k \in 1..Len(waits)
        BY <2>2
      <4> QED BY ONLY <4>1, <2>2, <2>3, <3>1, <3>2
    <3> QED BY ONLY <3>2, <2>2 DEF IsInjective
  <2>5. Range(waits') = Range(waits) \cup {s}
    BY <2>2 DEF Range
  <2>6. ASSUME NEW t \in Launch
        PROVE  refs'[t] = OneIf(t \in known') + OneIf(t \in Range(waits')) + OneIf(t \in timers')
    BY <1>2, <1>3, <2>5 DEF StartupInv, OneIf, InitiatedRefs
  <2>7. refs' = [t \in Launch |-> refs'[t]]
    BY <1>3 DEF StartupInv
  <2>8. known' \subseteq Launch /\ timers' \subseteq Launch /\ launchers' \subseteq Launch
        /\ others' \in 0..MaxMessages
    BY <1>2, <1>3 DEF StartupInv, MonitorEvent
  <2> QED BY <1>1, <2>2, <2>4, <2>6, <2>7, <2>8 DEF StartupInv
<1>4. CASE /\ kind = "remove" /\ s \in known
           /\ waits' = RemoveFirst(waits, s)
           /\ known' = known \ {s}
           /\ refs' = [refs EXCEPT ![s] = IF @ >= RemovedRefs(s) + 1
                                          THEN @ - RemovedRefs(s) - 1 ELSE 0]
           /\ UNCHANGED timers
  <2>1. /\ waits' \in Seq(Launch) /\ IsInjective(waits') /\ Range(waits') = Range(waits) \ {s}
    BY <1>4, RemoveFirstRemoves DEF StartupInv
  <2>2. ASSUME NEW t \in Launch
        PROVE  refs'[t] = OneIf(t \in known') + OneIf(t \in Range(waits')) + OneIf(t \in timers')
    BY <1>2, <1>4, <2>1, SMTT(30) DEF StartupInv, OneIf, RemovedRefs, InWaits
  <2>3. refs' = [t \in Launch |-> refs'[t]]
    BY <1>4 DEF StartupInv
  <2>4. launchers' = launchers /\ others' = others
    BY DEF MonitorEvent
  <2>5. known' \subseteq Launch /\ timers' \subseteq Launch /\ launchers' \subseteq Launch
        /\ others' \in 0..MaxMessages
    BY <1>4, <2>4 DEF StartupInv
  <2> QED BY <1>1, <2>1, <2>2, <2>3, <2>5 DEF StartupInv
<1>5. CASE UNCHANGED <<known, waits, timers, refs>>
  BY <1>1, <1>5 DEF StartupInv, MonitorEvent
<1> QED BY <1>3, <1>4, <1>5 DEF MonitorEvent

\* The other actions announce something, at most.
LEMMA MessageStartup ==
    ASSUME StartupInv, NEW m \in {"new", "remove"} \X Launch, messages' = Append(messages, m),
           UNCHANGED <<known, waits, timers, refs>>, launchers' \subseteq Launch, others' \in 0..MaxMessages
    PROVE  StartupInv'
<1>1. messages' \in Seq({"new", "remove"} \X Launch)
  BY AppendProperties DEF StartupInv
<1> QED BY <1>1 DEF StartupInv

LEMMA SpawnStartup ==
    ASSUME StartupInv, NEW s \in Launch, NEW useSn \in BOOLEAN, LuaSpawn(s, useSn)
    PROVE  StartupInv'
<1>1. messages' \in Seq({"new", "remove"} \X Launch)
  <2>1. <<"new", s>> \in {"new", "remove"} \X Launch /\ <<"remove", s>> \in {"new", "remove"} \X Launch
    OBVIOUS
  <2>2. Append(messages, <<"new", s>>) \in Seq({"new", "remove"} \X Launch)
    BY <2>1, AppendProperties DEF StartupInv
  <2>3. << <<"new", s>>, <<"remove", s>> >> \in Seq({"new", "remove"} \X Launch)
    BY <2>1
  <2>4. messages \o << <<"new", s>>, <<"remove", s>> >> \in Seq({"new", "remove"} \X Launch)
    BY <2>3, ConcatProperties DEF StartupInv
  <2> QED BY <2>2, <2>4 DEF StartupInv, LuaSpawn
<1>2. launchers' \subseteq Launch
  BY DEF LuaSpawn, Announce, StartupInv
<1> QED BY <1>1, <1>2 DEF StartupInv, LuaSpawn

LEMMA StartNotifyStartup ==
    ASSUME StartupInv, NEW own, NEW alike, SpawnStartNotify(own, alike) PROVE StartupInv'
<1>1. PICK i \in DOMAIN waits : messages' = Append(messages, <<"remove", waits[i]>>)
  BY DEF SpawnStartNotify
<1>2. waits[i] \in Launch
  BY LenProperties, ElementOfSeq DEF StartupInv
<1>3. <<"remove", waits[i]>> \in {"new", "remove"} \X Launch
  BY <1>2
<1> QED BY <1>1, <1>3, MessageStartup DEF SpawnStartNotify, StartupInv

LEMMA NextStartup == StartupInv /\ [SpawnNext]_spawnVars => StartupInv'
<1> SUFFICES ASSUME StartupInv, [SpawnNext]_spawnVars PROVE StartupInv'
  OBVIOUS
<1>1. CASE UNCHANGED snVars
  BY <1>1 DEF StartupInv, snVars
<1>2. ASSUME NEW p \in Pid, Exit(p) \/ ReapChild(p) PROVE UNCHANGED snVars
  BY <1>2 DEF Exit, ReapChild
<1>3. SignalChild \/ ReapBegin \/ ReapEnd => UNCHANGED snVars
  BY DEF SignalChild, ReapBegin, ReapEnd
<1>4. ASSUME NEW s \in Launch, LauncheeTimeout(s) PROVE StartupInv'
  BY <1>4, MessageStartup DEF LauncheeTimeout, StartupInv
<1>5. ASSUME NEW kind \in {"new", "remove"}, NEW s \in Launch, OthersSend(kind, s) PROVE StartupInv'
  BY <1>5, MessageStartup, SpawnAssumption DEF OthersSend, StartupInv
<1>6. UNCHANGED spawnVars => UNCHANGED snVars
  BY DEF spawnVars, snVars
<1> QED
  BY <1>1, <1>2, <1>3, <1>4, <1>5, <1>6, MonitorTimeoutStartup, MonitorEventStartup, SpawnStartup,
     StartNotifyStartup DEF SpawnNext

LEMMA ChildrenAndStartup == ChildrenInv /\ StartupInv => SpawnInv
<1> SUFFICES ASSUME ChildrenInv, StartupInv PROVE SpawnInv
  OBVIOUS
<1>1. SpawnTypeOK
  <2>1. Range(reported) \subseteq 1..MaxSpawns
    BY LenProperties, ElementOfSeq, SpawnAssumption DEF ChildrenInv, Range
  <2>2. Range(waits) \subseteq Launch /\ \A i \in DOMAIN messages : messages[i] \in {"new", "remove"} \X Launch
    BY LenProperties, ElementOfSeq DEF StartupInv, Range
  <2>3. refs \in [Launch -> 0..3]
    BY DEF StartupInv, OneIf
  <2>4. child \in [Pid -> 0..MaxSpawns]
    BY SpawnAssumption DEF ChildrenInv
  <2> QED BY <2>1, <2>2, <2>3, <2>4 DEF ChildrenInv, StartupInv, SpawnTypeOK
<1>2. NoChildIsForgotten
  BY DEF ChildrenInv, NoChildIsForgotten
<1>3. ASSUME NEW s \in Launch
      PROVE  refs[s] = Cardinality({w \in {"libsn"} : s \in known})
                         + Cardinality({i \in DOMAIN waits : waits[i] = s})
                         + Cardinality({w \in {"timer"} : s \in timers})
  <2>1. Cardinality({w \in {"libsn"} : s \in known}) = OneIf(s \in known)
    <3>1. {w \in {"libsn"} : s \in known} = IF s \in known THEN {"libsn"} ELSE {}
      OBVIOUS
    <3> QED BY <3>1, FS_EmptySet, FS_Singleton DEF OneIf
  <2>2. Cardinality({w \in {"timer"} : s \in timers}) = OneIf(s \in timers)
    <3>1. {w \in {"timer"} : s \in timers} = IF s \in timers THEN {"timer"} ELSE {}
      OBVIOUS
    <3> QED BY <3>1, FS_EmptySet, FS_Singleton DEF OneIf
  <2>3. Cardinality({i \in DOMAIN waits : waits[i] = s}) = OneIf(s \in Range(waits))
    <3>1. CASE s \in Range(waits)
      <4>1. PICK k \in DOMAIN waits : waits[k] = s
        BY <3>1 DEF Range
      <4>2. {i \in DOMAIN waits : waits[i] = s} = {k}
        BY <4>1 DEF StartupInv, IsInjective
      <4> QED BY <3>1, <4>2, FS_Singleton DEF OneIf
    <3>2. CASE s \notin Range(waits)
      <4>1. {i \in DOMAIN waits : waits[i] = s} = {}
        BY <3>2 DEF Range
      <4> QED BY <3>2, <4>1, FS_EmptySet DEF OneIf
    <3> QED BY <3>1, <3>2
  <2> QED BY <2>1, <2>2, <2>3 DEF StartupInv
<1> QED BY <1>1, <1>2, <1>3 DEF SpawnInv, SequencesLiveLongEnough

\* For any number of processes, children and startup sequences: a zombie never waits
\* without a wakeup on its way, every exit function is called once and for its own child,
\* and the memory of a startup sequence lives exactly as long as something points to it.
THEOREM SpawnsAreFollowed == SpawnSpec => []SpawnInv
<1>1. SpawnSpec => [](ChildrenInv /\ StartupInv)
  BY InitChildren, NextChildren, InitStartup, NextStartup, PTL DEF SpawnSpec
<1> QED BY <1>1, ChildrenAndStartup, PTL

-----------------------------------------------------------------------------
LEMMA SetToSeqFacts ==
    ASSUME NEW S, IsFiniteSet(S)
    PROVE  /\ SetToSeq(S) \in Seq(S)
           /\ \A x \in S : \E i \in 1..Len(SetToSeq(S)) : SetToSeq(S)[i] = x
<1> DEFINE n == Cardinality(S)
           q == SetToSeq(S)
<1>1. n \in Nat /\ ExistsBijection(1..n, S)
  BY FS_CardinalityType
<1>2. \E f \in [1..n -> S] : IsInjective(f)
  BY <1>1 DEF ExistsBijection, Bijection, Injection
<1>3. q \in [1..n -> S] /\ IsInjective(q)
  BY <1>2 DEF SetToSeq
<1> HIDE DEF q
<1>4. q \in Seq(S)
  BY <1>1, <1>3, SeqDef
<1>5. DOMAIN q = 1..Len(q) /\ DOMAIN q = 1..n
  BY <1>3, <1>4, LenProperties
<1>6. q \in Injection(1..n, S)
  BY <1>3 DEF Injection
<1>7. IsFiniteSet(1..n) /\ Cardinality(1..n) = n
  BY <1>1, FS_Interval
<1>8. q \in Surjection(1..n, S)
  BY <1>6, <1>7, FS_Injection
<1>9. \A x \in S : \E i \in 1..Len(q) : q[i] = x
  BY <1>5, <1>8 DEF Surjection
<1> QED BY <1>4, <1>9 DEF q

-----------------------------------------------------------------------------
(* Xproperties.                                                            *)

XKey == Shared \cup Own

XTypeInv ==
    /\ registered \in [XName \cup Kept -> XType \cup {Nil}]
    /\ DOMAIN xprop = XKey /\ DOMAIN heard = XKey /\ DOMAIN lastSet = XKey /\ DOMAIN private = Own
    /\ xEvents \in Seq(XKey)
    /\ Root \in objects /\ objects \subseteq XWindow
    /\ loaded \subseteq objects \ {Root} /\ persistent \subseteq Kept
    /\ \A n \in Kept : registered[n] = IF n \in persistent THEN TypeOf[n] ELSE Nil

IsAnnounced(k) == \E i \in 1..Len(xEvents) : xEvents[i] = k

\* Who listens knows the value or will be told.
IsFollowedBy(k) == IsHeard(k) => heard[k] = Get(k) \/ IsAnnounced(k)

\* The property of a window that value v of a type is kept in.
IsKept(p, type, v) ==
    IF v = Nil THEN p = Nil ELSE v \in ValueOf[type] /\ p = Wire(type, v)

SharedInv(k) ==
    lastSet[k] # Foreign =>
        /\ IsKept(xprop[k], registered[k[2]], lastSet[k])
        /\ lastSet[k] # Nil => registered[k[2]] # Nil

\* A property that was set to nil has no value, or has been read as the empty string.
OwnInv(k) ==
    LET type == TypeOf[k[2]]
    IN  IF k[2] \in persistent
        THEN /\ xprop[k] = Nil \/ \E v \in ValueOf[type] : xprop[k] = Wire(type, v)
             /\ private[k] # Nil => IsKept(xprop[k], type, private[k])
             /\ k[1] \in loaded /\ private[k] = Nil => xprop[k] = Nil
             /\ k \notin unwritten =>
                   \/ IsKept(xprop[k], type, lastSet[k])
                   \/ lastSet[k] = Nil /\ type = "string" /\ xprop[k] = Wire(type, "")
        ELSE /\ xprop[k] = Nil /\ lastSet[k] = private[k]
             /\ private[k] \in ValueOf[type] \cup {Nil}

XpropertiesIInv ==
    /\ XTypeInv
    /\ \A k \in XKey : IsFollowedBy(k)
    /\ \A k \in Shared : SharedInv(k)
    /\ \A k \in Own : OwnInv(k)
-----------------------------------------------------------------------------
(* Reading and writing.                                                    *)

LEMMA Keys ==
    /\ \A k \in Shared : k[1] \in XWindow /\ k[2] \in XName /\ k[2] \notin Kept /\ k \in XKey /\ k \notin Own
    /\ \A k \in Own : k[1] \in XWindow /\ k[1] # Root /\ k[2] \in Kept /\ k \in XKey /\ k \notin Shared
                      /\ TypeOf[k[2]] \in XType
    /\ IsFiniteSet(Own)
<1>1. IsFiniteSet(Clients)
  BY XpropertiesAssumption, FS_Subset DEF Clients
<1>2. IsFiniteSet(Own)
  BY <1>1, XpropertiesAssumption, FS_Product DEF Own
<1>3. \A k \in Shared : k[1] \in XWindow /\ k[2] \in XName /\ k[2] \notin Kept /\ k \in XKey
  BY XpropertiesAssumption DEF Shared, XKey
<1>4. \A k \in Own : k[1] \in XWindow /\ k[1] # Root /\ k[2] \in Kept /\ k \in XKey /\ TypeOf[k[2]] \in XType
  BY XpropertiesAssumption DEF Own, Clients, XKey
<1> QED BY <1>2, <1>3, <1>4

\* What is written is read back.
LEMMA ReadBack ==
    ASSUME NEW type \in XType, NEW v \in ValueOf[type], NEW props, NEW k, props[k] = Wire(type, v)
    PROVE  GetXproperty(props, k, type) = v
<1> PICK p : p = props[k]
  OBVIOUS
<1>0. /\ p = [type |-> X11Type(type), value |-> IF type # "boolean" THEN v ELSE IF v THEN 1 ELSE 0]
      /\ Wire(type, v) # Nil
  BY ValuesAssumption, Zenon DEF Wire
<1>1. /\ p # Nil /\ p.type = X11Type(type)
      /\ p.value = IF type # "boolean" THEN v ELSE IF v THEN 1 ELSE 0
  BY <1>0 DEF Wire
<1>2. CASE type = "string" \/ type = "number"
  BY <1>1, <1>2 DEF GetXproperty
<1>3. CASE type = "boolean"
  <2>1. v \in BOOLEAN /\ props[k].value = IF v THEN 1 ELSE 0
    BY <1>1, <1>3, ValuesAssumption
  <2>2. GetXproperty(props, k, type) = (props[k].value # 0)
    BY <1>1, <1>3 DEF GetXproperty
  <2> QED BY <2>1, <2>2
<1> QED BY <1>2, <1>3 DEF XType

LEMMA ReadNothing ==
    ASSUME NEW type \in XType, NEW props, NEW k, props[k] = Nil
    PROVE  GetXproperty(props, k, type) = IF type = "string" THEN "" ELSE Nil
  BY DEF GetXproperty, XType

LEMMA SameRead ==
    ASSUME NEW type, NEW props, NEW other, NEW k, props[k] = other[k]
    PROVE  GetXproperty(props, k, type) = GetXproperty(other, k, type)
  BY DEF GetXproperty

LEMMA SetFacts ==
    ASSUME XTypeInv, NEW values, DOMAIN values \subseteq XKey, IsFiniteSet(DOMAIN values),
           SetXproperties(values)
    PROVE  /\ DOMAIN xprop' = XKey /\ xEvents' \in Seq(XKey)
           /\ \A k \in XKey : xprop'[k] = IF k \notin DOMAIN values THEN xprop[k]
                                          ELSE IF values[k] = Nil THEN Nil
                                          ELSE Wire(registered'[k[2]], values[k])
           /\ \A k \in XKey : IsAnnounced(k) => IsAnnounced(k)'
           /\ \A k \in XKey : k[1] \in objects /\ xprop'[k] # xprop[k] => IsAnnounced(k)'
<1> DEFINE new == [k \in DOMAIN xprop |-> IF k \notin DOMAIN values THEN xprop[k]
                                    ELSE IF values[k] = Nil THEN Nil
                                    ELSE Wire(registered'[k[2]], values[k])]
           T == {k \in DOMAIN values : k[1] \in objects /\ (xprop[k] # Nil \/ new[k] # Nil)}
           told == SetToSeq(T)
<1>1. xprop' = new /\ xEvents' = xEvents \o told
  BY DEF SetXproperties, Becomes
<1>2. DOMAIN xprop = XKey /\ xEvents \in Seq(XKey)
  BY DEF XTypeInv
<1>3. /\ DOMAIN xprop' = XKey
      /\ \A k \in XKey : xprop'[k] = IF k \notin DOMAIN values THEN xprop[k]
                                          ELSE IF values[k] = Nil THEN Nil
                                          ELSE Wire(registered'[k[2]], values[k])
  BY <1>1, <1>2
<1>4. T \subseteq XKey /\ IsFiniteSet(T)
  BY FS_Subset
<1>5. told \in Seq(T) /\ \A x \in T : \E i \in 1..Len(told) : told[i] = x
  <2> HIDE DEF T
  <2> QED BY <1>4, SetToSeqFacts
<1> HIDE DEF told
<1>6. told \in Seq(XKey)
  <2> HIDE DEF T
  <2> QED BY <1>4, <1>5, SeqMonotonic
<1>7. /\ xEvents' \in Seq(XKey) /\ Len(xEvents') = Len(xEvents) + Len(told)
      /\ \A i \in 1..Len(xEvents) : xEvents'[i] = xEvents[i]
      /\ \A i \in 1..Len(told) : xEvents'[Len(xEvents) + i] = told[i]
      /\ Len(xEvents) \in Nat /\ Len(told) \in Nat
  <2> HIDE DEF XKey, new
  <2> QED BY <1>1, <1>2, <1>6, ConcatProperties, LenProperties
<1>8. ASSUME NEW k \in XKey, IsAnnounced(k) PROVE IsAnnounced(k)'
  <2>1. PICK i \in 1..Len(xEvents) : xEvents[i] = k
    BY <1>8 DEF IsAnnounced
  <2>2. xEvents'[i] = k /\ i \in 1..Len(xEvents')
    BY <1>7, <2>1
  <2> QED BY <2>2 DEF IsAnnounced
<1>9. ASSUME NEW k \in XKey, k[1] \in objects, xprop'[k] # xprop[k] PROVE IsAnnounced(k)'
  <2>1. k \in T
    BY <1>1, <1>2, <1>9
  <2>2. PICK i \in 1..Len(told) : told[i] = k
    BY <1>5, <2>1
  <2>3. xEvents'[Len(xEvents) + i] = k /\ Len(xEvents) + i \in 1..Len(xEvents')
    BY <1>7, <2>2
  <2> QED BY <2>3 DEF IsAnnounced
<1> QED BY <1>3, <1>7, <1>8, <1>9
-----------------------------------------------------------------------------
(* Listeners.                                                              *)

\* Listeners of other names and windows are told of what changes.
LEMMA ListenersFollow ==
    ASSUME XpropertiesIInv, NEW read,
           \A k \in XKey : IsAnnounced(k) => IsAnnounced(k)',
           \A k \in XKey : k[1] \in objects /\ xprop'[k] # xprop[k] => IsAnnounced(k)',
           \A k \in XKey : heard'[k] = IF k \in read /\ registered'[k[2]] # Nil
                                       THEN GetXproperty(xprop', k, registered'[k[2]]) ELSE heard[k],
           \A k \in XKey \ read : registered'[k[2]] = registered[k[2]] /\ (k[1] \in objects' => k[1] \in objects)
    PROVE  \A k \in XKey : IsFollowedBy(k)'
<1> SUFFICES ASSUME NEW k \in XKey, registered'[k[2]] # Nil, k[1] \in objects'
             PROVE  heard'[k] = Get(k)' \/ IsAnnounced(k)'
  BY DEF IsFollowedBy, IsHeard
<1>1. Get(k)' = GetXproperty(xprop', k, registered'[k[2]])
  BY DEF Get
<1>2. CASE k \in read
  BY <1>1, <1>2
<1>3. CASE k \notin read
  <2>1. registered'[k[2]] = registered[k[2]] /\ k[1] \in objects /\ heard'[k] = heard[k]
    BY <1>3
  <2>2. CASE IsAnnounced(k)
    BY <2>2
  <2>3. CASE xprop'[k] # xprop[k]
    BY <2>1, <2>3
  <2>4. CASE ~IsAnnounced(k) /\ xprop'[k] = xprop[k]
    <3>1. heard[k] = GetXproperty(xprop, k, registered[k[2]])
      BY <2>1, <2>4 DEF XpropertiesIInv, IsFollowedBy, IsHeard, Get
    <3>2. GetXproperty(xprop', k, registered'[k[2]]) = GetXproperty(xprop, k, registered[k[2]])
      BY <2>1, <2>4, SameRead
    <3> QED BY <1>1, <2>1, <3>1, <3>2
  <2> QED BY <2>2, <2>3, <2>4
<1> QED BY <1>2, <1>3

\* Nothing is read then.
LEMMA ListenersWait ==
    ASSUME XpropertiesIInv,
           \A k \in XKey : IsAnnounced(k) => IsAnnounced(k)',
           \A k \in XKey : k[1] \in objects /\ xprop'[k] # xprop[k] => IsAnnounced(k)',
           heard' = heard, registered' = registered, objects' \subseteq objects
    PROVE  \A k \in XKey : IsFollowedBy(k)'
<1> PICK read : read = {}
  OBVIOUS
<1>1. \A k \in XKey : heard'[k] = IF k \in read /\ registered'[k[2]] # Nil
                                  THEN GetXproperty(xprop', k, registered'[k[2]]) ELSE heard[k]
  OBVIOUS
<1>2. \A k \in XKey \ read : registered'[k[2]] = registered[k[2]] /\ (k[1] \in objects' => k[1] \in objects)
  OBVIOUS
<1> QED BY <1>1, <1>2, ListenersFollow

LEMMA SharedStays ==
    ASSUME NEW k \in Shared, SharedInv(k), xprop'[k] = xprop[k], lastSet'[k] = lastSet[k],
           registered'[k[2]] = registered[k[2]]
    PROVE  SharedInv(k)'
  BY DEF SharedInv, IsKept

LEMMA OwnStays ==
    ASSUME NEW k \in Own, OwnInv(k), xprop'[k] = xprop[k], lastSet'[k] = lastSet[k],
           private'[k] = private[k], k[2] \in persistent' <=> k[2] \in persistent,
           k[1] \in loaded' => k[1] \in loaded, k \in unwritten' <=> k \in unwritten
    PROVE  OwnInv(k)'
  BY DEF OwnInv, IsKept

-----------------------------------------------------------------------------
(* Properties that programs share.                                         *)

LEMMA LuaSetsKeeps ==
    ASSUME XpropertiesIInv, NEW k \in Shared, registered[k[2]] # Nil,
           NEW v \in ValueOf[registered[k[2]]] \cup {Nil}, LuaSets(k, v)
    PROVE  XpropertiesIInv'
<1> PICK values : values = One(k, v)
  OBVIOUS
<1>1. /\ SetXproperties(values) /\ lastSet' = [lastSet EXCEPT ![k] = v] /\ registered' = registered
      /\ UNCHANGED <<objects, heard, private, loaded, persistent, unwritten>> /\ XTypeInv
  BY DEF LuaSets, XpropertiesIInv
<1>2. DOMAIN values = {k} /\ values[k] = v /\ IsFiniteSet(DOMAIN values) /\ DOMAIN values \subseteq XKey
  BY Keys, FS_Singleton DEF One
<1>3. /\ DOMAIN xprop' = XKey /\ xEvents' \in Seq(XKey)
      /\ \A q \in XKey : xprop'[q] = IF q # k THEN xprop[q]
                                     ELSE IF v = Nil THEN Nil ELSE Wire(registered[k[2]], v)
      /\ \A q \in XKey : IsAnnounced(q) => IsAnnounced(q)'
      /\ \A q \in XKey : q[1] \in objects /\ xprop'[q] # xprop[q] => IsAnnounced(q)'
  BY <1>1, <1>2, SetFacts
<1>4. XTypeInv'
  BY <1>1, <1>3 DEF XTypeInv
<1>5. \A q \in XKey : IsFollowedBy(q)'
  BY <1>1, <1>3, ListenersWait
<1>6. ASSUME NEW q \in Shared PROVE SharedInv(q)'
  <2>1. CASE q = k
    <3>1. xprop'[k] = IF v = Nil THEN Nil ELSE Wire(registered[k[2]], v)
      BY <1>3, Keys
    <3>2. lastSet'[k] = v
      BY <1>1, Keys DEF XTypeInv
    <3> QED BY <1>1, <2>1, <3>1, <3>2 DEF SharedInv, IsKept
  <2>2. CASE q # k
    <3>1. xprop'[q] = xprop[q] /\ lastSet'[q] = lastSet[q] /\ SharedInv(q)
      BY <1>1, <1>3, <2>2, Keys DEF XpropertiesIInv
    <3> QED BY <1>1, <3>1, SharedStays
  <2> QED BY <2>1, <2>2
<1>7. ASSUME NEW q \in Own PROVE OwnInv(q)'
  <2>1. q # k /\ xprop'[q] = xprop[q] /\ lastSet'[q] = lastSet[q] /\ OwnInv(q)
    BY <1>1, <1>3, Keys DEF XpropertiesIInv
  <2> QED BY <1>1, <2>1, OwnStays
<1> QED BY <1>4, <1>5, <1>6, <1>7 DEF XpropertiesIInv

LEMMA RegisterKeeps ==
    ASSUME XpropertiesIInv, NEW n \in XName, NEW type \in XType, Register(n, type)
    PROVE  XpropertiesIInv'
<1>1. /\ registered' = IF registered[n] = Nil THEN [registered EXCEPT ![n] = type] ELSE registered
      /\ UNCHANGED <<xprop, xEvents, objects, private, loaded, persistent, lastSet, unwritten>>
      /\ heard' = [k \in DOMAIN heard |-> IF k \in {q \in DOMAIN heard : q[2] = n} /\ registered'[k[2]] # Nil
                                   THEN GetXproperty(xprop', k, registered'[k[2]]) ELSE heard[k]]
      /\ XTypeInv /\ n \notin Kept /\ type # Nil
  BY XpropertiesAssumption, ValuesAssumption DEF Register, RegisterXproperty, ReadBy, XpropertiesIInv
<1>2. \A m \in XName \cup Kept : m # n => registered'[m] = registered[m]
  BY <1>1 DEF XTypeInv
<1>3. XTypeInv'
  BY <1>1, <1>2 DEF XTypeInv
<1>4. \A k \in XKey : IsFollowedBy(k)'
  <2> DEFINE read == {q \in DOMAIN heard : q[2] = n}
  <2>1. \A k \in XKey : k[2] \in XName \cup Kept
    BY Keys DEF XKey
  <2>2. \A k \in XKey \ read : registered'[k[2]] = registered[k[2]]
    BY <1>1, <1>2, <2>1 DEF XTypeInv
  <2>3. \A k \in XKey : heard'[k] = IF k \in read /\ registered'[k[2]] # Nil
                                    THEN GetXproperty(xprop', k, registered'[k[2]]) ELSE heard[k]
    BY <1>1 DEF XTypeInv
  <2>4. \A k \in XKey : IsAnnounced(k) => IsAnnounced(k)'
    BY <1>1 DEF IsAnnounced
  <2> HIDE DEF read
  <2> QED BY <1>1, <2>2, <2>3, <2>4, ListenersFollow
<1>5. ASSUME NEW k \in Shared PROVE SharedInv(k)'
  <2>1. SharedInv(k)
    BY DEF XpropertiesIInv
  <2>2. CASE k[2] = n /\ registered[n] = Nil
    <3>1. lastSet[k] # Foreign => lastSet[k] = Nil /\ xprop[k] = Nil
      BY <2>1, <2>2 DEF SharedInv, IsKept
    <3> QED BY <1>1, <3>1 DEF SharedInv, IsKept
  <2>3. CASE ~(k[2] = n /\ registered[n] = Nil)
    <3>1. registered'[k[2]] = registered[k[2]]
      BY <1>1, <1>2, <2>3, Keys
    <3> QED BY <1>1, <2>1, <3>1, SharedStays
  <2> QED BY <2>2, <2>3
<1>6. ASSUME NEW k \in Own PROVE OwnInv(k)'
  BY <1>1, OwnStays DEF XpropertiesIInv
<1> QED BY <1>3, <1>4, <1>5, <1>6 DEF XpropertiesIInv

LEMMA OtherSetsKeeps ==
    ASSUME XpropertiesIInv, NEW k \in Shared, NEW p, OtherSets(k, p)
    PROVE  XpropertiesIInv'
<1> DEFINE new == [xprop EXCEPT ![k] = p]
           T == {q \in {k} : q[1] \in objects /\ (xprop[q] # Nil \/ new[q] # Nil)}
           told == SetToSeq(T)
<1>1. /\ xprop' = new /\ xEvents' = xEvents \o told /\ lastSet' = [lastSet EXCEPT ![k] = Foreign]
      /\ UNCHANGED <<registered, objects, heard, private, loaded, persistent, unwritten>> /\ XTypeInv
  BY DEF OtherSets, Becomes, XpropertiesIInv
<1>2. k \in XKey /\ DOMAIN xprop = XKey /\ xEvents \in Seq(XKey)
  BY <1>1, Keys DEF XTypeInv
<1>3. T \subseteq {k} /\ IsFiniteSet(T)
  BY FS_Singleton, FS_Subset
<1>4. told \in Seq(T) /\ \A x \in T : \E i \in 1..Len(told) : told[i] = x
  <2> HIDE DEF T
  <2> QED BY <1>3, SetToSeqFacts
<1> HIDE DEF told
<1>5. told \in Seq(XKey)
  <2>1. T \subseteq XKey
    BY <1>2
  <2> HIDE DEF T
  <2> QED BY <2>1, <1>4, SeqMonotonic
<1>6. /\ xEvents' \in Seq(XKey) /\ Len(xEvents') = Len(xEvents) + Len(told)
      /\ \A i \in 1..Len(xEvents) : xEvents'[i] = xEvents[i]
      /\ \A i \in 1..Len(told) : xEvents'[Len(xEvents) + i] = told[i]
      /\ Len(xEvents) \in Nat /\ Len(told) \in Nat
  <2> HIDE DEF XKey, new
  <2> QED BY <1>1, <1>2, <1>5, ConcatProperties, LenProperties
<1>7. ASSUME NEW q \in XKey, IsAnnounced(q) PROVE IsAnnounced(q)'
  <2>1. PICK i \in 1..Len(xEvents) : xEvents[i] = q
    BY <1>7 DEF IsAnnounced
  <2>2. xEvents'[i] = q /\ i \in 1..Len(xEvents')
    BY <1>6, <2>1
  <2> QED BY <2>2 DEF IsAnnounced
<1>8. ASSUME NEW q \in XKey, q[1] \in objects, xprop'[q] # xprop[q] PROVE IsAnnounced(q)'
  <2>1. q \in T
    BY <1>1, <1>2, <1>8
  <2>2. PICK i \in 1..Len(told) : told[i] = q
    BY <1>4, <2>1
  <2>3. xEvents'[Len(xEvents) + i] = q /\ Len(xEvents) + i \in 1..Len(xEvents')
    BY <1>6, <2>2
  <2> QED BY <2>3 DEF IsAnnounced
<1>9. XTypeInv'
  BY <1>1, <1>2, <1>6 DEF XTypeInv
<1>10. \A q \in XKey : IsFollowedBy(q)'
  BY <1>1, <1>7, <1>8, ListenersWait
<1>11. ASSUME NEW q \in Shared PROVE SharedInv(q)'
  <2>1. CASE q = k
    <3>1. lastSet'[q] = Foreign
      BY <1>1, <1>2, <2>1 DEF XTypeInv
    <3> QED BY <3>1 DEF SharedInv
  <2>2. CASE q # k
    <3>1. xprop'[q] = xprop[q] /\ lastSet'[q] = lastSet[q] /\ SharedInv(q)
      BY <1>1, <2>2, Keys DEF XpropertiesIInv, XTypeInv
    <3> QED BY <1>1, <3>1, SharedStays
  <2> QED BY <2>1, <2>2
<1>12. ASSUME NEW q \in Own PROVE OwnInv(q)'
  <2>1. q # k /\ xprop'[q] = xprop[q] /\ lastSet'[q] = lastSet[q] /\ OwnInv(q)
    BY <1>1, Keys DEF XpropertiesIInv, XTypeInv
  <2> QED BY <1>1, <2>1, OwnStays
<1> QED BY <1>9, <1>10, <1>11, <1>12 DEF XpropertiesIInv
-----------------------------------------------------------------------------
(* Events, clients that come and go.                                       *)

LEMMA HandleXEventKeeps == ASSUME XpropertiesIInv, HandleXEvent PROVE XpropertiesIInv'
<1>1. /\ xEvents # <<>> /\ xEvents' = Tail(xEvents) /\ XTypeInv
      /\ heard' = IF IsHeard(Head(xEvents)) THEN [heard EXCEPT ![Head(xEvents)] = Get(Head(xEvents))] ELSE heard
      /\ UNCHANGED <<registered, xprop, objects, private, loaded, persistent, lastSet, unwritten>>
  BY DEF HandleXEvent, XpropertiesIInv
<1>2. xEvents \in Seq(XKey)
  BY <1>1 DEF XTypeInv
<1>3. /\ xEvents' \in Seq(XKey) /\ Head(xEvents) = xEvents[1] /\ xEvents[1] \in XKey
      /\ Len(xEvents') = Len(xEvents) - 1 /\ Len(xEvents) \in Nat /\ Len(xEvents) > 0
      /\ \A i \in 1..Len(xEvents') : xEvents'[i] = xEvents[i + 1]
  <2> HIDE DEF XKey
  <2> QED BY <1>1, <1>2, HeadTailProperties, LenProperties, EmptySeq, ElementOfSeq
<1>4. XTypeInv'
  BY <1>1, <1>3 DEF XTypeInv
<1>5. ASSUME NEW k \in XKey, IsHeard(k)' PROVE heard'[k] = Get(k)' \/ IsAnnounced(k)'
  <2>1. IsHeard(k) /\ Get(k)' = Get(k)
    BY <1>1, <1>5, Zenon DEF IsHeard, Get
  <2>2. CASE k = xEvents[1]
    <3>1. heard'[k] = Get(k)
      BY <1>1, <1>3, <2>1, <2>2 DEF XTypeInv
    <3> QED BY <2>1, <3>1
  <2>3. CASE k # xEvents[1]
    <3>1. heard'[k] = heard[k]
      BY <1>1, <1>3, <2>3 DEF XTypeInv
    <3>2. heard[k] = Get(k) \/ IsAnnounced(k)
      BY <2>1 DEF XpropertiesIInv, IsFollowedBy
    <3>3. CASE IsAnnounced(k)
      <4>1. PICK i \in 1..Len(xEvents) : xEvents[i] = k
        BY <3>3 DEF IsAnnounced
      <4>2. i - 1 \in 1..Len(xEvents') /\ xEvents'[i - 1] = k
        BY <1>3, <2>3, <4>1
      <4> QED BY <4>2 DEF IsAnnounced
    <3> QED BY <2>1, <3>1, <3>2, <3>3
  <2> QED BY <2>2, <2>3
<1>6. \A k \in XKey : IsFollowedBy(k)'
  BY <1>5 DEF IsFollowedBy
<1>7. \A k \in Shared : SharedInv(k)'
  BY <1>1, SharedStays DEF XpropertiesIInv
<1>8. \A k \in Own : OwnInv(k)'
  BY <1>1, OwnStays DEF XpropertiesIInv
<1> QED BY <1>4, <1>6, <1>7, <1>8 DEF XpropertiesIInv

LEMMA ManageWindowKeeps ==
    ASSUME XpropertiesIInv, NEW c \in Clients, ManageWindow(c)
    PROVE  XpropertiesIInv'
<1>1. /\ objects' = objects \cup {c} /\ c \notin objects /\ XTypeInv
      /\ heard' = [k \in DOMAIN heard |-> IF k \in {q \in DOMAIN heard : q[1] = c} /\ registered'[k[2]] # Nil
                                   THEN GetXproperty(xprop', k, registered'[k[2]]) ELSE heard[k]]
      /\ UNCHANGED <<registered, xprop, xEvents, private, loaded, persistent, lastSet, unwritten>>
  BY DEF ManageWindow, ReadBy, XpropertiesIInv
<1>2. XTypeInv'
  BY <1>1 DEF XTypeInv, Clients
<1>3. \A k \in XKey : IsFollowedBy(k)'
  <2> DEFINE read == {q \in DOMAIN heard : q[1] = c}
  <2>1. \A k \in XKey \ read : k[1] \in objects' => k[1] \in objects
    BY <1>1 DEF XTypeInv
  <2>2. \A k \in XKey : heard'[k] = IF k \in read /\ registered'[k[2]] # Nil
                                    THEN GetXproperty(xprop', k, registered'[k[2]]) ELSE heard[k]
    BY <1>1 DEF XTypeInv
  <2>3. \A k \in XKey : IsAnnounced(k) => IsAnnounced(k)'
    BY <1>1 DEF IsAnnounced
  <2> HIDE DEF read
  <2> QED BY <1>1, <2>1, <2>2, <2>3, ListenersFollow
<1>4. \A k \in Shared : SharedInv(k)'
  BY <1>1, SharedStays DEF XpropertiesIInv
<1>5. \A k \in Own : OwnInv(k)'
  BY <1>1, OwnStays DEF XpropertiesIInv
<1> QED BY <1>2, <1>3, <1>4, <1>5 DEF XpropertiesIInv

LEMMA UnmanageWindowKeeps ==
    ASSUME XpropertiesIInv, NEW c \in Clients, UnmanageWindow(c)
    PROVE  XpropertiesIInv'
<1>1. /\ objects' = objects \ {c} /\ loaded' = loaded \ {c} /\ XTypeInv
      /\ private' = [k \in Own |-> IF k[1] = c THEN Nil ELSE private[k]]
      /\ lastSet' = [k \in DOMAIN lastSet |-> IF k[1] = c /\ k[2] \in Kept \ persistent THEN Nil ELSE lastSet[k]]
      /\ UNCHANGED <<registered, xprop, xEvents, heard, persistent, unwritten>>
  BY DEF UnmanageWindow, XpropertiesIInv
<1>2. XTypeInv'
  BY <1>1 DEF XTypeInv, Clients
<1>3. \A k \in XKey : IsFollowedBy(k)'
  <2>1. \A k \in XKey : IsAnnounced(k) => IsAnnounced(k)'
    BY <1>1 DEF IsAnnounced
  <2> QED BY <1>1, <2>1, ListenersWait
<1>4. ASSUME NEW k \in Shared PROVE SharedInv(k)'
  <2>1. lastSet'[k] = lastSet[k] /\ SharedInv(k)
    BY <1>1, Keys DEF XTypeInv, XpropertiesIInv
  <2> QED BY <1>1, <2>1, SharedStays
<1>5. ASSUME NEW k \in Own PROVE OwnInv(k)'
  <2>0. OwnInv(k) /\ k \in XKey /\ k[2] \in Kept
    BY Keys DEF XpropertiesIInv
  <2>1. CASE k[1] # c
    <3>1. lastSet'[k] = lastSet[k] /\ private'[k] = private[k]
      BY <1>1, <2>0, <2>1 DEF XTypeInv
    <3> QED BY <1>1, <2>0, <3>1, OwnStays
  <2>2. CASE k[1] = c /\ k[2] \in persistent
    <3>1. lastSet'[k] = lastSet[k] /\ private'[k] = Nil /\ k[1] \notin loaded'
      BY <1>1, <2>0, <2>2 DEF XTypeInv
    <3> QED BY <1>1, <2>0, <2>2, <3>1 DEF OwnInv, IsKept
  <2>3. CASE k[1] = c /\ k[2] \notin persistent
    <3>1. lastSet'[k] = Nil /\ private'[k] = Nil
      BY <1>1, <2>0, <2>3 DEF XTypeInv
    <3> QED BY <1>1, <2>0, <2>3, <3>1 DEF OwnInv, IsKept
  <2> QED BY <2>1, <2>2, <2>3
<1> QED BY <1>2, <1>3, <1>4, <1>5 DEF XpropertiesIInv

-----------------------------------------------------------------------------
(* Properties that survive.                                                *)

LEMMA PersistKeeps ==
    ASSUME XpropertiesIInv, NEW n \in Kept, Persist(n)
    PROVE  XpropertiesIInv'
<1> PICK values : values = [k \in {q \in Own : q[2] = n /\ private[q] # Nil} |-> private[k]]
  OBVIOUS
<1>1. /\ n \notin persistent /\ persistent' = persistent \cup {n} /\ XTypeInv
      /\ registered' = IF registered[n] = Nil THEN [registered EXCEPT ![n] = TypeOf[n]] ELSE registered
      /\ SetXproperties(values)
      /\ heard' = [k \in DOMAIN heard |-> IF k \in {q \in DOMAIN heard : q[2] = n} /\ registered'[k[2]] # Nil
                                   THEN GetXproperty(xprop', k, registered'[k[2]]) ELSE heard[k]]
      /\ UNCHANGED <<objects, private, loaded, lastSet, unwritten>>
  BY DEF Persist, RegisterXproperty, ReadBy, XpropertiesIInv
<1>2. DOMAIN values = {q \in Own : q[2] = n /\ private[q] # Nil}
  OBVIOUS
<1>3. DOMAIN values \subseteq XKey /\ IsFiniteSet(DOMAIN values)
  BY <1>2, Keys, FS_Subset DEF XKey
<1>4. /\ DOMAIN xprop' = XKey /\ xEvents' \in Seq(XKey)
      /\ \A k \in XKey : xprop'[k] = IF k \notin DOMAIN values THEN xprop[k]
                                     ELSE IF values[k] = Nil THEN Nil
                                     ELSE Wire(registered'[k[2]], values[k])
      /\ \A k \in XKey : IsAnnounced(k) => IsAnnounced(k)'
      /\ \A k \in XKey : k[1] \in objects /\ xprop'[k] # xprop[k] => IsAnnounced(k)'
  BY <1>1, <1>3, SetFacts
<1>5. registered[n] = Nil /\ TypeOf[n] \in XType
  BY <1>1, XpropertiesAssumption DEF XTypeInv
<1>6. /\ registered'[n] = TypeOf[n]
      /\ \A m \in XName \cup Kept : m # n => registered'[m] = registered[m]
      /\ registered' \in [XName \cup Kept -> XType \cup {Nil}]
  BY <1>1, <1>5 DEF XTypeInv
<1>7. XTypeInv'
  <2>1. \A m \in Kept : registered'[m] = IF m \in persistent' THEN TypeOf[m] ELSE Nil
    BY <1>1, <1>6 DEF XTypeInv
  <2> QED BY <1>1, <1>4, <1>6, <2>1 DEF XTypeInv
<1>8. \A k \in XKey : IsFollowedBy(k)'
  <2> DEFINE read == {q \in DOMAIN heard : q[2] = n}
  <2>1. \A k \in XKey : k[2] \in XName \cup Kept
    BY Keys DEF XKey
  <2>2. \A k \in XKey \ read : registered'[k[2]] = registered[k[2]] /\ (k[1] \in objects' => k[1] \in objects)
    BY <1>1, <1>6, <2>1 DEF XTypeInv
  <2>3. \A k \in XKey : heard'[k] = IF k \in read /\ registered'[k[2]] # Nil
                                    THEN GetXproperty(xprop', k, registered'[k[2]]) ELSE heard[k]
    BY <1>1 DEF XTypeInv
  <2> HIDE DEF read
  <2> QED BY <1>1, <1>4, <2>2, <2>3, ListenersFollow
<1>9. ASSUME NEW k \in Shared PROVE SharedInv(k)'
  <2>1. k \in XKey /\ k \notin DOMAIN values /\ k[2] # n /\ k[2] \in XName /\ SharedInv(k)
    BY <1>2, Keys DEF XpropertiesIInv
  <2>2. xprop'[k] = xprop[k] /\ registered'[k[2]] = registered[k[2]]
    BY <1>4, <1>6, <2>1
  <2> QED BY <1>1, <2>1, <2>2, SharedStays
<1>10. ASSUME NEW k \in Own PROVE OwnInv(k)'
  <2>0. k \in XKey /\ OwnInv(k)
    BY Keys DEF XpropertiesIInv
  <2>1. CASE k[2] # n
    <3>1. xprop'[k] = xprop[k]
      BY <1>2, <1>4, <2>0, <2>1
    <3> QED BY <1>1, <2>0, <2>1, <3>1, OwnStays
  <2>2. CASE k[2] = n /\ private[k] = Nil
    <3>1. xprop'[k] = xprop[k] /\ xprop[k] = Nil /\ lastSet[k] = Nil
      BY <1>1, <1>2, <1>4, <2>0, <2>2 DEF OwnInv
    <3> QED BY <1>1, <2>2, <3>1 DEF OwnInv, IsKept
  <2>3. CASE k[2] = n /\ private[k] # Nil
    <3>1. values[k] = private[k] /\ k \in DOMAIN values
      BY <2>3
    <3>2. xprop'[k] = Wire(TypeOf[k[2]], private[k])
      BY <1>4, <1>6, <2>0, <2>3, <3>1
    <3>3. private[k] \in ValueOf[TypeOf[k[2]]] /\ lastSet[k] = private[k]
      BY <1>1, <2>0, <2>3 DEF OwnInv
    <3> QED BY <1>1, <2>3, <3>2, <3>3 DEF OwnInv, IsKept
  <2> QED BY <2>1, <2>2, <2>3
<1> QED BY <1>7, <1>8, <1>9, <1>10 DEF XpropertiesIInv

LEMMA PropertySetKeeps ==
    ASSUME XpropertiesIInv, NEW k \in Own, NEW v \in ValueOf[TypeOf[k[2]]] \cup {Nil}, PropertySet(k, v)
    PROVE  XpropertiesIInv'
<1> PICK values : values = IF IsNews(k, v) /\ k[2] \in persistent THEN One(k, v) ELSE <<>>
  OBVIOUS
<1>1. /\ SetXproperties(values) /\ registered' = registered /\ XTypeInv
      /\ private' = [private EXCEPT ![k] = v] /\ lastSet' = [lastSet EXCEPT ![k] = v]
      /\ unwritten' = IF v = Nil /\ k[1] \notin loaded /\ ~IsNews(k, v) THEN unwritten \cup {k}
                      ELSE unwritten \ {k}
      /\ UNCHANGED <<objects, heard, loaded, persistent>>
  BY DEF PropertySet, XpropertiesIInv
<1>2. /\ DOMAIN values = IF private[k] # v /\ k[2] \in persistent THEN {k} ELSE {}
      /\ private[k] # v /\ k[2] \in persistent => values[k] = v
  BY DEF IsNews, One
<1>3. DOMAIN values \subseteq XKey /\ IsFiniteSet(DOMAIN values) /\ k \in XKey
  <2>1. k \in XKey
    BY Keys
  <2>2. DOMAIN values = {k} \/ DOMAIN values = {}
    BY <1>2
  <2>3. IsFiniteSet(DOMAIN values)
    <3>1. CASE DOMAIN values = {k}
      BY <3>1, FS_Singleton
    <3>2. CASE DOMAIN values = {}
      BY <3>2, FS_EmptySet
    <3> QED BY <2>2, <3>1, <3>2
  <2> QED BY <2>1, <2>2, <2>3
<1>4. /\ DOMAIN xprop' = XKey /\ xEvents' \in Seq(XKey)
      /\ \A q \in XKey : xprop'[q] = IF q \notin DOMAIN values THEN xprop[q]
                                     ELSE IF values[q] = Nil THEN Nil
                                     ELSE Wire(registered'[q[2]], values[q])
      /\ \A q \in XKey : IsAnnounced(q) => IsAnnounced(q)'
      /\ \A q \in XKey : q[1] \in objects /\ xprop'[q] # xprop[q] => IsAnnounced(q)'
  BY <1>1, <1>3, SetFacts
<1>5. XTypeInv'
  BY <1>1, <1>4 DEF XTypeInv
<1>6. \A q \in XKey : IsFollowedBy(q)'
  BY <1>1, <1>4, ListenersWait
<1>7. \A q \in XKey : q # k => xprop'[q] = xprop[q] /\ lastSet'[q] = lastSet[q]
  BY <1>1, <1>2, <1>4 DEF XTypeInv
<1>8. ASSUME NEW q \in Shared PROVE SharedInv(q)'
  <2>1. xprop'[q] = xprop[q] /\ lastSet'[q] = lastSet[q] /\ SharedInv(q)
    BY <1>7, Keys DEF XpropertiesIInv
  <2> QED BY <1>1, <2>1, SharedStays
<1>9. ASSUME NEW q \in Own, q # k PROVE OwnInv(q)'
  <2>1. xprop'[q] = xprop[q] /\ lastSet'[q] = lastSet[q] /\ OwnInv(q)
    BY <1>7, <1>9, Keys DEF XpropertiesIInv
  <2>2. private'[q] = private[q] /\ (q \in unwritten' <=> q \in unwritten)
    BY <1>1, <1>9 DEF XTypeInv
  <2> QED BY <1>1, <2>1, <2>2, OwnStays
<1>10. OwnInv(k)'
  <2>0. private'[k] = v /\ lastSet'[k] = v /\ OwnInv(k) /\ k[2] \in Kept /\ v \in ValueOf[TypeOf[k[2]]] \cup {Nil}
    BY <1>1, <1>3, Keys DEF XTypeInv, XpropertiesIInv
  <2>1. CASE k[2] \notin persistent
    <3>1. xprop'[k] = xprop[k] /\ xprop[k] = Nil
      BY <1>2, <1>3, <1>4, <2>0, <2>1 DEF OwnInv
    <3> QED BY <1>1, <2>0, <2>1, <3>1 DEF OwnInv
  <2>2. CASE k[2] \in persistent /\ private[k] # v
    <3>1. registered'[k[2]] = TypeOf[k[2]]
      BY <1>1, <2>0, <2>2 DEF XTypeInv
    <3>2. xprop'[k] = IF v = Nil THEN Nil ELSE Wire(TypeOf[k[2]], v)
      BY <1>2, <1>3, <1>4, <2>2, <3>1
    <3>3. IsKept(xprop'[k], TypeOf[k[2]], v)
      BY <2>0, <3>2 DEF IsKept
    <3> QED BY <1>1, <2>0, <2>2, <3>2, <3>3 DEF OwnInv
  <2>3. CASE k[2] \in persistent /\ private[k] = v
    <3>1. xprop'[k] = xprop[k]
      BY <1>2, <1>3, <1>4, <2>3
    <3>2. CASE v # Nil
      BY <1>1, <2>0, <2>3, <3>1, <3>2 DEF OwnInv
    <3>3. CASE v = Nil /\ k[1] \in loaded
      BY <1>1, <2>0, <2>3, <3>1, <3>3 DEF OwnInv, IsKept
    <3>4. CASE v = Nil /\ k[1] \notin loaded
      <4>1. k \in unwritten'
        BY <1>1, <2>3, <3>4 DEF IsNews
      <4> QED BY <1>1, <2>0, <2>3, <3>1, <3>4, <4>1 DEF OwnInv
    <3> QED BY <3>2, <3>3, <3>4
  <2> QED BY <2>1, <2>2, <2>3
<1> QED BY <1>5, <1>6, <1>8, <1>9, <1>10 DEF XpropertiesIInv

\* What the window of a client has for a property that is persistent.
LEMMA WindowGives ==
    ASSUME XpropertiesIInv, NEW k \in Own, k[2] \in persistent
    PROVE  /\ xprop[k] = Nil => Get(k) = IF TypeOf[k[2]] = "string" THEN "" ELSE Nil
           /\ xprop[k] # Nil => Get(k) \in ValueOf[TypeOf[k[2]]] /\ xprop[k] = Wire(TypeOf[k[2]], Get(k))
           /\ private[k] # Nil => Get(k) = private[k]
<1> PICK type \in XType : type = TypeOf[k[2]]
  BY Keys
<1>1. Get(k) = GetXproperty(xprop, k, type) /\ OwnInv(k)
  BY Keys DEF Get, XpropertiesIInv, XTypeInv
<1>2. xprop[k] = Nil => Get(k) = IF type = "string" THEN "" ELSE Nil
  BY <1>1, ReadNothing
<1>3. \A v \in ValueOf[type] : xprop[k] = Wire(type, v) => Get(k) = v
  BY <1>1, ReadBack
<1>4. xprop[k] # Nil => Get(k) \in ValueOf[type] /\ xprop[k] = Wire(type, Get(k))
  BY <1>1, <1>3 DEF OwnInv
<1>5. private[k] # Nil => Get(k) = private[k]
  BY <1>1, <1>3 DEF OwnInv, IsKept
<1> QED BY <1>2, <1>4, <1>5

LEMMA PropertyGetKeeps ==
    ASSUME XpropertiesIInv, NEW c \in Clients, PropertyGet(c)
    PROVE  XpropertiesIInv'
<1> PICK found : found = {k \in Own : k[1] = c /\ k[2] \in persistent /\ Get(k) # Nil}
  OBVIOUS
<1> PICK values : values = [k \in {q \in found : IsNews(q, Get(q))} |-> Get(k)]
  OBVIOUS
<1>1. /\ c \in objects /\ loaded' = loaded \cup {c} /\ registered' = registered /\ XTypeInv
      /\ private' = [k \in Own |-> IF k \in found THEN Get(k) ELSE private[k]]
      /\ SetXproperties(values)
      /\ UNCHANGED <<objects, heard, persistent, lastSet, unwritten>>
  BY DEF PropertyGet, XpropertiesIInv
<1>2. DOMAIN values = {q \in found : private[q] # Get(q)} /\ \A k \in DOMAIN values : values[k] = Get(k)
  BY DEF IsNews
<1>3. DOMAIN values \subseteq XKey /\ IsFiniteSet(DOMAIN values)
  BY <1>2, Keys, FS_Subset DEF XKey
<1>4. /\ DOMAIN xprop' = XKey /\ xEvents' \in Seq(XKey)
      /\ \A k \in XKey : xprop'[k] = IF k \notin DOMAIN values THEN xprop[k]
                                     ELSE IF values[k] = Nil THEN Nil
                                     ELSE Wire(registered'[k[2]], values[k])
      /\ \A k \in XKey : IsAnnounced(k) => IsAnnounced(k)'
      /\ \A k \in XKey : k[1] \in objects /\ xprop'[k] # xprop[k] => IsAnnounced(k)'
  BY <1>1, <1>3, SetFacts
<1>5. XTypeInv'
  BY <1>1, <1>4 DEF XTypeInv, Clients
<1>6. \A k \in XKey : IsFollowedBy(k)'
  BY <1>1, <1>4, ListenersWait
<1>7. ASSUME NEW k \in Shared PROVE SharedInv(k)'
  <2>1. k \in XKey /\ k \notin DOMAIN values /\ SharedInv(k)
    BY <1>2, Keys DEF XpropertiesIInv
  <2>2. xprop'[k] = xprop[k]
    BY <1>4, <2>1
  <2> QED BY <1>1, <2>1, <2>2, SharedStays
<1>8. ASSUME NEW k \in Own PROVE OwnInv(k)'
  <2>0. k \in XKey /\ OwnInv(k)
    BY Keys DEF XpropertiesIInv
  <2>1. CASE ~(k[1] = c /\ k[2] \in persistent)
    <3>1. k \notin found /\ k \notin DOMAIN values
      BY <1>2, <2>1
    <3>2. xprop'[k] = xprop[k] /\ private'[k] = private[k]
      BY <1>1, <1>4, <2>0, <3>1
    <3>3. CASE k[1] = c
      BY <1>1, <2>0, <2>1, <3>2, <3>3 DEF OwnInv
    <3>4. CASE k[1] # c
      BY <1>1, <2>0, <3>2, <3>4, OwnStays
    <3> QED BY <3>3, <3>4
  <2>2. CASE k[1] = c /\ k[2] \in persistent /\ Get(k) = Nil
    <3>1. k \notin found /\ k \notin DOMAIN values
      BY <1>2, <2>2
    <3>2. xprop'[k] = xprop[k] /\ private'[k] = private[k]
      BY <1>1, <1>4, <2>0, <3>1
    <3>3. xprop[k] = Nil
      <4>1. \A v \in ValueOf[TypeOf[k[2]]] : v # Nil
        BY Keys, ValuesAssumption
      <4> QED BY <2>2, <4>1, WindowGives
    <3> QED BY <1>1, <2>0, <2>2, <3>2, <3>3 DEF OwnInv
  <2>3. CASE k[1] = c /\ k[2] \in persistent /\ Get(k) # Nil
    <3>1. k \in found /\ private'[k] = Get(k) /\ registered'[k[2]] = TypeOf[k[2]]
      BY <1>1, <2>3, Keys DEF XTypeInv
    <3>2. CASE xprop[k] # Nil
      <4>1. Get(k) \in ValueOf[TypeOf[k[2]]] /\ xprop[k] = Wire(TypeOf[k[2]], Get(k))
        BY <2>3, <3>2, WindowGives
      <4>2. xprop'[k] = xprop[k]
        BY <1>2, <1>4, <2>0, <2>3, <3>1, <4>1
      <4>3. IsKept(xprop'[k], TypeOf[k[2]], private'[k])
        BY <2>3, <3>1, <4>1, <4>2 DEF IsKept
      <4> QED BY <1>1, <2>0, <2>3, <3>1, <4>2, <4>3 DEF OwnInv
    <3>3. CASE xprop[k] = Nil
      <4>1. TypeOf[k[2]] = "string" /\ Get(k) = "" /\ Get(k) \in ValueOf[TypeOf[k[2]]]
        BY <2>3, <3>3, WindowGives, ValuesAssumption
      <4>2. private[k] = Nil
        <5>1. CASE private[k] # Nil
          BY <2>0, <2>3, <3>3, <5>1, Keys, ValuesAssumption DEF OwnInv, IsKept
        <5> QED BY <5>1
      <4>3. xprop'[k] = Wire("string", "")
        <5>1. k \in DOMAIN values /\ values[k] = "" /\ values[k] # Nil
          BY <1>2, <2>3, <3>1, <4>1, <4>2
        <5>2. xprop'[k] = Wire(registered'[k[2]], values[k])
          BY <1>4, <2>0, <5>1
        <5> QED BY <3>1, <4>1, <5>1, <5>2
      <4>4. k \notin unwritten => lastSet[k] = Nil
        BY <2>0, <2>3, <3>3, Keys, ValuesAssumption DEF OwnInv, IsKept
      <4>5. IsKept(xprop'[k], TypeOf[k[2]], private'[k])
        BY <2>3, <3>1, <4>1, <4>3 DEF IsKept
      <4> QED BY <1>1, <2>3, <3>1, <4>1, <4>3, <4>4, <4>5 DEF OwnInv
    <3> QED BY <3>2, <3>3
  <2> QED BY <2>1, <2>2, <2>3
<1> QED BY <1>5, <1>6, <1>7, <1>8 DEF XpropertiesIInv

-----------------------------------------------------------------------------
LEMMA XpropertiesStart == XpropertiesInit => XpropertiesIInv
<1> SUFFICES ASSUME XpropertiesInit PROVE XpropertiesIInv
  OBVIOUS
<1>1. /\ registered = [n \in XName \cup Kept |-> Nil] /\ xprop = [k \in XKey |-> Nil] /\ xEvents = <<>>
      /\ heard = xprop /\ objects = {Root} /\ private = [k \in Own |-> Nil] /\ loaded = {}
      /\ persistent = {} /\ lastSet = xprop /\ unwritten = {}
  BY DEF XpropertiesInit, XKey
<1>2. XTypeInv
  BY <1>1, XpropertiesAssumption DEF XTypeInv
<1>3. \A k \in XKey : k[2] \in XName \cup Kept
  BY Keys DEF XKey
<1>4. \A k \in XKey : IsFollowedBy(k)
  BY <1>1, <1>3 DEF IsFollowedBy, IsHeard
<1>5. \A k \in Shared : SharedInv(k)
  BY <1>1, Keys DEF SharedInv, IsKept
<1>6. \A k \in Own : OwnInv(k)
  BY <1>1, Keys DEF OwnInv
<1> QED BY <1>2, <1>4, <1>5, <1>6 DEF XpropertiesIInv

LEMMA XpropertiesStep == XpropertiesIInv /\ [XpropertiesNext]_xpropertiesVars => XpropertiesIInv'
<1> SUFFICES ASSUME XpropertiesIInv, [XpropertiesNext]_xpropertiesVars PROVE XpropertiesIInv'
  OBVIOUS
<1>1. CASE HandleXEvent
  BY <1>1, HandleXEventKeeps
<1>2. ASSUME NEW n \in XName, NEW type \in XType, Register(n, type) PROVE XpropertiesIInv'
  BY <1>2, RegisterKeeps
<1>3. ASSUME NEW k \in Shared, registered[k[2]] # Nil,
             NEW v \in ValueOf[registered[k[2]]] \cup {Nil}, LuaSets(k, v) PROVE XpropertiesIInv'
  BY <1>3, LuaSetsKeeps
<1>4. ASSUME NEW k \in Shared, NEW p, OtherSets(k, p) PROVE XpropertiesIInv'
  BY <1>4, OtherSetsKeeps
<1>5. ASSUME NEW n \in Kept, Persist(n) PROVE XpropertiesIInv'
  BY <1>5, PersistKeeps
<1>6. ASSUME NEW k \in Own, NEW v \in ValueOf[TypeOf[k[2]]] \cup {Nil}, PropertySet(k, v)
      PROVE  XpropertiesIInv'
  BY <1>6, PropertySetKeeps
<1>7. ASSUME NEW c \in Clients, PropertyGet(c) \/ ManageWindow(c) \/ UnmanageWindow(c)
      PROVE  XpropertiesIInv'
  BY <1>7, PropertyGetKeeps, ManageWindowKeeps, UnmanageWindowKeeps
<1>8. CASE UNCHANGED xpropertiesVars
  <2>1. /\ registered' = registered /\ xprop' = xprop /\ xEvents' = xEvents /\ heard' = heard
        /\ objects' = objects /\ private' = private /\ loaded' = loaded /\ persistent' = persistent
        /\ lastSet' = lastSet /\ unwritten' = unwritten
    BY <1>8 DEF xpropertiesVars
  <2>2. XTypeInv'
    BY <2>1 DEF XTypeInv, XpropertiesIInv
  <2>3. \A k \in XKey : IsAnnounced(k) => IsAnnounced(k)'
    BY <2>1 DEF IsAnnounced
  <2>4. \A k \in XKey : IsFollowedBy(k)'
    BY <2>1, <2>3, ListenersWait
  <2>5. \A k \in Shared : SharedInv(k)'
    BY <2>1, SharedStays DEF XpropertiesIInv
  <2>6. \A k \in Own : OwnInv(k)'
    BY <2>1, OwnStays DEF XpropertiesIInv
  <2> QED BY <2>2, <2>4, <2>5, <2>6 DEF XpropertiesIInv
<1>9. CASE XpropertiesNext
  BY <1>1, <1>2, <1>3, <1>4, <1>5, <1>6, <1>7, <1>9 DEF XpropertiesNext
<1> QED BY <1>8, <1>9

LEMMA XpropertiesFollow == XpropertiesIInv => XpropertiesInv
<1> SUFFICES ASSUME XpropertiesIInv PROVE XpropertiesInv
  OBVIOUS
<1>1. XpropertiesTypeOK
  BY DEF XpropertiesIInv, XTypeInv, XpropertiesTypeOK, XKey
<1>2. ListenersKnow
  <2>1. SUFFICES ASSUME xEvents = <<>>, NEW k \in XKey, IsHeard(k) PROVE heard[k] = Get(k)
    BY DEF ListenersKnow, XpropertiesIInv, XTypeInv
  <2>2. ~IsAnnounced(k)
    BY <2>1, EmptySeq DEF IsAnnounced
  <2> QED BY <2>1, <2>2 DEF XpropertiesIInv, IsFollowedBy
<1>3. SetIsGot
  <2>1. SUFFICES ASSUME NEW k \in Shared, registered[k[2]] # Nil, lastSet[k] # Foreign
                 PROVE  IsKnownAs(Get(k), lastSet[k], registered[k[2]])
    BY DEF SetIsGot
  <2>2. IsKept(xprop[k], registered[k[2]], lastSet[k])
    BY <2>1 DEF XpropertiesIInv, SharedInv
  <2>3. registered[k[2]] \in XType
    BY <2>1, Keys DEF XpropertiesIInv, XTypeInv
  <2>4. CASE lastSet[k] = Nil
    BY <2>2, <2>3, <2>4, ReadNothing DEF IsKept, Get, IsKnownAs
  <2>5. CASE lastSet[k] # Nil
    BY <2>2, <2>3, <2>5, ReadBack DEF IsKept, Get, IsKnownAs
  <2> QED BY <2>4, <2>5
<1>4. PersistentIsKept
  <2>1. SUFFICES ASSUME NEW k \in Own, k[1] \in loaded, k[2] \in persistent, k \notin unwritten
                 PROVE  IsKnownAs(private[k], lastSet[k], TypeOf[k[2]])
    BY DEF PersistentIsKept
  <2> PICK type \in XType : type = TypeOf[k[2]]
    BY Keys
  <2>2. /\ private[k] # Nil => IsKept(xprop[k], type, private[k])
        /\ private[k] = Nil => xprop[k] = Nil
        /\ \/ IsKept(xprop[k], type, lastSet[k])
           \/ lastSet[k] = Nil /\ type = "string" /\ xprop[k] = Wire(type, "")
    BY <2>1 DEF XpropertiesIInv, OwnInv
  <2>3. \A v \in ValueOf[type] : xprop[k] = Wire(type, v) => GetXproperty(xprop, k, type) = v /\ xprop[k] # Nil
    BY ReadBack, ValuesAssumption
  <2>4. CASE lastSet[k] = Nil /\ type = "string" /\ xprop[k] = Wire(type, "")
    <3>1. "" \in ValueOf[type] /\ xprop[k] # Nil /\ GetXproperty(xprop, k, type) = ""
      BY <2>3, <2>4, ValuesAssumption
    <3>2. private[k] # Nil /\ private[k] = ""
      BY <2>2, <2>3, <3>1 DEF IsKept
    <3> QED BY <2>4, <3>2 DEF IsKnownAs
  <2>5. CASE IsKept(xprop[k], type, lastSet[k])
    <3>1. CASE lastSet[k] = Nil
      BY <2>2, <2>3, <2>5, <3>1 DEF IsKept, IsKnownAs
    <3>2. CASE lastSet[k] # Nil
      BY <2>2, <2>3, <2>5, <3>2 DEF IsKept, IsKnownAs
    <3> QED BY <3>1, <3>2
  <2> QED BY <2>2, <2>4, <2>5
<1> QED BY <1>1, <1>2, <1>3, <1>4 DEF XpropertiesInv

\* Properties of windows are known to who listens, read back as they were set, and those of
\* clients that are persistent survive a restart (property.c, objects/window.c,
\* lib/awful/client.lua), for any number of names, windows and programs that change them.
THEOREM PropertiesAreKept == XpropertiesSpec => []XpropertiesInv
<1>1. XpropertiesSpec => []XpropertiesIInv
  BY XpropertiesStart, XpropertiesStep, PTL DEF XpropertiesSpec
<1> QED BY <1>1, XpropertiesFollow, PTL

-----------------------------------------------------------------------------
(* Focus: the last word.                                                   *)

\* The windows that awesome asks the server to focus.
FocusTarget == {InputWindow(c) : c \in Client \cup {None}}

FocusRequest ==
    [op : {"focus"}, win : FocusTarget, time : 0..timestamp]
    \cup [op : {"take"}, win : TakesFocus, time : 0..timestamp]
    \cup {DestroyFrame(c) : c \in Client}

ServerEvent ==
    {FocusIn(w) : w \in Client \cup {RootWindow}}
    \cup {DestroyNotify(c) : c \in Client}
    \cup {Input(time) : time \in timestamp..now}

FocusTypeInv ==
    /\ managed \subseteq Client /\ focus \in managed \cup {None} /\ needUpdate \in BOOLEAN
    /\ timestamp \in Nat /\ now \in Nat /\ timestamp <= now /\ xfocusTime \in 0..now /\ changes \in Nat
    /\ dying \subseteq Client \ managed /\ IsFiniteSet(dying)
    /\ taking \subseteq TakesFocus \X (0..now)
    /\ existing \subseteq managed /\ xfocus \in Windows
    /\ disturbed \subseteq {"nil", "death", "take", "self"}
    /\ requests \in Seq(FocusRequest)
    /\ events \in Seq(ServerEvent)

IsComing(e) == \E i \in 1..Len(events) : events[i] = e
IsReport(e) == e.type = "focusin"
NoReport == \A i \in 1..Len(events) : ~IsReport(events[i])

\* The death of a window is known or told of.
DeathsInv ==
    /\ \A c \in existing : ~IsComing(DestroyNotify(c))
    /\ \A c \in managed \ existing : IsComing(DestroyNotify(c))

\* The frame that keeps the focus of a dead client is to be destroyed.
FramesInv ==
    \A c \in Client : xfocus = Frame(c) =>
        \/ c \in managed \ existing
        \/ c \in dying
        \/ \E i \in 1..Len(requests) : requests[i] = DestroyFrame(c)

\* Of the windows that awesome hears of, the last one that it is told of has the focus.
LatestReport ==
    \A i \in 1..Len(events) :
        /\ IsReport(events[i])
        /\ \A j \in 1..Len(events) : j > i => ~IsReport(events[j])
        /\ xfocus \in Client \cup {RootWindow}
        => events[i].win = xfocus
ReportsInv == (xfocus \in Client => xfocus \in existing) /\ LatestReport

IsWord(r) == r.op = "focus"
IsAskedFor(w) == \E i \in 1..Len(requests) : IsWord(requests[i]) /\ requests[i].win = w

\* Without a report on its way, awesome knows, has asked for something else, or is to be told of a death.
BelievedInv ==
    "self" \notin disturbed /\ ~needUpdate /\ NoReport /\ xfocus \in Client \cup {RootWindow} =>
        \/ focus = xfocus
        \/ focus \in managed \ existing
        \/ IsAskedFor(InputWindow(focus))

\* Times go up: those of the user's events, and those of requests behind the server's.
TimesInv ==
    /\ \A i, j \in 1..Len(events) :
           i < j /\ events[i].type = "input" /\ events[j].type = "input" => events[i].time <= events[j].time
    /\ "self" \notin disturbed =>
           /\ xfocusTime <= timestamp
           /\ \A t \in taking : t[2] <= timestamp
           /\ \A i \in 1..Len(requests) : requests[i].op # "destroy" =>
                  /\ xfocusTime <= requests[i].time
                  /\ \A t \in taking : t[2] <= requests[i].time
                  /\ \A j \in 1..Len(requests) : i < j /\ requests[j].op # "destroy" =>
                         requests[i].time <= requests[j].time

\* The window that has the focus when all requests are executed, if none is refused.
LastWordIs(w) ==
    /\ \A i \in 1..Len(requests) :
           IsWord(requests[i]) /\ (\A j \in 1..Len(requests) : j > i => ~IsWord(requests[j]))
           => requests[i].win = w
    /\ (\A i \in 1..Len(requests) : ~IsWord(requests[i])) => xfocus = w

\* While only Lua code moves the focus.
UndisturbedInv ==
    disturbed = {} =>
        /\ managed = Client /\ existing = Client /\ dying = {}
        /\ xfocus # RootWindow /\ ~IsComing(FocusIn(RootWindow))
        /\ \A i \in 1..Len(requests) : requests[i].op # "destroy"
        /\ changes = 0 => requests = <<>> /\ NoReport /\ ~needUpdate /\ focus = None
        /\ changes > 0 => /\ wanted \in Client
                          /\ IF needUpdate THEN focus = wanted ELSE LastWordIs(InputWindow(wanted))

FocusIInv == /\ FocusTypeInv /\ DeathsInv /\ FramesInv /\ ReportsInv
             /\ BelievedInv /\ TimesInv /\ UndisturbedInv

USE FocusAssumption

\* The windows are told apart, and a client that takes input has its own.
LEMMA WindowFacts ==
    /\ None \notin Client /\ RootWindow \notin Client /\ None # RootWindow
    /\ \A c \in Client : Frame(c) \notin Client \cup {RootWindow}
    /\ \A f \in Client \cup {None} :
           /\ InputWindow(f) \in Windows \ {RootWindow}
           /\ \A c \in Client : InputWindow(f) # Frame(c)
           /\ InputWindow(f) \in Client => f = InputWindow(f)
<1>1. None \notin Client /\ RootWindow \notin Client /\ None # RootWindow /\ NoFocus # RootWindow
  OBVIOUS
<1>2. \A c \in Client : Frame(c) \notin Client \cup {RootWindow, NoFocus}
  OBVIOUS
<1>3. \A c \in Client : NofocusWindow(c) \notin Client \cup {RootWindow, NoFocus}
  OBVIOUS
<1>4. \A c, d : NofocusWindow(c) # Frame(d)
  BY DEF NofocusWindow, Frame
<1>5. ASSUME NEW f \in Client \cup {None}
      PROVE  /\ InputWindow(f) \in Windows \ {RootWindow}
             /\ \A c \in Client : InputWindow(f) # Frame(c)
             /\ InputWindow(f) \in Client => f = InputWindow(f)
  <2>1. CASE f = None
    BY <2>1, <1>1, <1>2 DEF InputWindow, Windows
  <2>2. CASE f \in NoInput
    <3>1. f \in Client /\ InputWindow(f) = NofocusWindow(f)
      BY <2>2, <1>1 DEF InputWindow
    <3> QED BY <3>1, <1>3, <1>4 DEF Windows
  <2>3. CASE f \in Client /\ f \notin NoInput
    BY <2>3, <1>1, <1>2 DEF InputWindow, Windows
  <2> QED BY <2>1, <2>2, <2>3
<1> QED BY <1>1, <1>2, <1>5

LEMMA FocusTail ==
    ASSUME NEW S, NEW s \in Seq(S), s # <<>>
    PROVE  /\ Len(s) \in Nat /\ Len(s) >= 1 /\ Len(Tail(s)) = Len(s) - 1
           /\ Tail(s) \in Seq(S) /\ Head(s) \in S /\ Head(s) = s[1]
           /\ \A i \in 1..Len(Tail(s)) : i + 1 \in 1..Len(s) /\ Tail(s)[i] = s[i + 1]
           /\ \A i \in 1..Len(s) : i # 1 => i - 1 \in 1..Len(Tail(s)) /\ Tail(s)[i - 1] = s[i]
<1>1. Len(s) \in Nat /\ Len(s) # 0
  BY LenProperties, EmptySeq
<1>2. /\ Tail(s) \in Seq(S) /\ Head(s) \in S /\ Head(s) = s[1] /\ Len(Tail(s)) = Len(s) - 1
      /\ \A i \in 1..Len(Tail(s)) : Tail(s)[i] = s[i + 1]
  BY <1>1, HeadTailProperties
<1> DEFINE t == Tail(s)
<1> HIDE DEF t
<1>3. Len(t) = Len(s) - 1 /\ \A i \in 1..Len(t) : t[i] = s[i + 1]
  BY <1>2 DEF t
<1>4. /\ \A i \in 1..Len(t) : i + 1 \in 1..Len(s)
      /\ \A i \in 1..Len(s) : i # 1 => i - 1 \in 1..Len(t) /\ (i - 1) + 1 = i
  BY <1>1, <1>3
<1>5. \A i \in 1..Len(s) : i # 1 => t[i - 1] = s[i]
  BY <1>3, <1>4
<1> QED BY <1>1, <1>2, <1>3, <1>4, <1>5 DEF t

LEMMA FocusAppend ==
    ASSUME NEW S, NEW s \in Seq(S), NEW e \in S
    PROVE  /\ Len(s) \in Nat /\ Len(Append(s, e)) = Len(s) + 1
           /\ Append(s, e) \in Seq(S)
           /\ \A i \in 1..Len(s) : i \in 1..Len(Append(s, e)) /\ Append(s, e)[i] = s[i]
           /\ \A i \in 1..Len(Append(s, e)) :
                  IF i = Len(s) + 1 THEN Append(s, e)[i] = e ELSE i \in 1..Len(s) /\ Append(s, e)[i] = s[i]
           /\ Append(s, e)[Len(s) + 1] = e
<1>1. Len(s) \in Nat
  BY LenProperties
<1>2. /\ Append(s, e) \in Seq(S) /\ Len(Append(s, e)) = Len(s) + 1
      /\ \A i \in 1..Len(s) : Append(s, e)[i] = s[i]
      /\ Append(s, e)[Len(s) + 1] = e
  BY AppendProperties
<1> QED BY <1>1, <1>2

\* What stays of a queue when it is extended.
Extended(old, new) == Len(new) >= Len(old) /\ \A i \in 1..Len(old) : new[i] = old[i]

LEMMA ConcatExtends ==
    ASSUME NEW S, NEW s \in Seq(S), NEW t \in Seq(S)
    PROVE  /\ s \o t \in Seq(S) /\ Extended(s, s \o t)
           /\ Len(s) \in Nat /\ Len(t) \in Nat /\ Len(s \o t) = Len(s) + Len(t)
           /\ \A i \in 1..Len(s \o t) : i > Len(s) => i - Len(s) \in 1..Len(t) /\ (s \o t)[i] = t[i - Len(s)]
           /\ \A i \in 1..Len(t) : Len(s) + i \in 1..Len(s \o t) /\ (s \o t)[Len(s) + i] = t[i]
<1>1. Len(s) \in Nat /\ Len(t) \in Nat
  BY LenProperties
<1>2. /\ s \o t \in Seq(S) /\ Len(s \o t) = Len(s) + Len(t)
      /\ \A i \in 1..Len(s) + Len(t) : (s \o t)[i] = IF i <= Len(s) THEN s[i] ELSE t[i - Len(s)]
  BY ConcatProperties
<1> DEFINE u == s \o t
<1> HIDE DEF u
<1>3. Len(u) = Len(s) + Len(t) /\ \A i \in 1..Len(s) + Len(t) : u[i] = IF i <= Len(s) THEN s[i] ELSE t[i - Len(s)]
  BY <1>2 DEF u
<1>4. Extended(s, u)
  BY <1>1, <1>3 DEF Extended
<1>5. \A i \in 1..Len(u) : i > Len(s) => i - Len(s) \in 1..Len(t) /\ u[i] = t[i - Len(s)]
  BY <1>1, <1>3
<1>6. ASSUME NEW i \in 1..Len(t) PROVE Len(s) + i \in 1..Len(u) /\ u[Len(s) + i] = t[i]
  <2>1. Len(s) + i \in 1..Len(u) /\ ~(Len(s) + i <= Len(s)) /\ (Len(s) + i) - Len(s) = i
    BY <1>1, <1>3
  <2> QED BY <2>1, <1>3
<1> QED BY <1>1, <1>2, <1>4, <1>5, <1>6 DEF u

\* A sequence whose elements are in T is one over T.
LEMMA SequenceOver ==
    ASSUME NEW S, NEW T, NEW q \in Seq(S), \A i \in 1..Len(q) : q[i] \in T PROVE q \in Seq(T)
<1>1. Len(q) \in Nat /\ q \in [1..Len(q) -> S]
  BY LenProperties
<1>2. q \in [1..Len(q) -> T]
  BY <1>1
<1> QED BY <1>1, <1>2, SeqDef

-----------------------------------------------------------------------------
(* The queue of events.                                                    *)

\* The times that TimesInv says of events and of requests.
EventTimes ==
    \A i, j \in 1..Len(events) :
        i < j /\ events[i].type = "input" /\ events[j].type = "input" => events[i].time <= events[j].time
RequestTimes ==
    "self" \notin disturbed =>
        /\ xfocusTime <= timestamp
        /\ \A t \in taking : t[2] <= timestamp
        /\ \A i \in 1..Len(requests) : requests[i].op # "destroy" =>
               /\ xfocusTime <= requests[i].time
               /\ \A t \in taking : t[2] <= requests[i].time
               /\ \A j \in 1..Len(requests) : i < j /\ requests[j].op # "destroy" =>
                      requests[i].time <= requests[j].time

LEMMA TimesParts == TimesInv <=> EventTimes /\ RequestTimes
BY DEF TimesInv, EventTimes, RequestTimes

LEMMA EventShapes ==
    ASSUME NEW e \in ServerEvent
    PROVE  /\ e.type \in {"focusin", "destroyed", "input"}
           /\ e.type = "focusin" => e.win \in Client \cup {RootWindow} /\ e = FocusIn(e.win)
           /\ e.type = "destroyed" => e.win \in Client /\ e = DestroyNotify(e.win)
           /\ e.type = "input" => e.time \in timestamp..now /\ e = Input(e.time)
<1>1. CASE \E w \in Client \cup {RootWindow} : e = FocusIn(w)
  BY <1>1 DEF FocusIn
<1>2. CASE \E c \in Client : e = DestroyNotify(c)
  BY <1>2 DEF DestroyNotify
<1>3. CASE \E time \in timestamp..now : e = Input(time)
  BY <1>3 DEF Input
<1> QED BY <1>1, <1>2, <1>3 DEF ServerEvent

\* Handling an event.
LEMMA EventHandled ==
    ASSUME events \in Seq(ServerEvent), events # <<>>, events' = Tail(events)
    PROVE  /\ Head(events) \in ServerEvent
           /\ events' \in Seq(ServerEvent)
           /\ IsComing(Head(events))
           /\ \A e : IsComing(e)' => IsComing(e)
           /\ \A e : IsComing(e) /\ e # Head(events) => IsComing(e)'
           /\ NoReport => NoReport'
           /\ NoReport' /\ ~IsReport(Head(events)) => NoReport
           /\ EventTimes => EventTimes'
           /\ EventTimes /\ Head(events).type = "input" =>
                 \A i \in 1..Len(events') : events'[i].type = "input" => Head(events).time <= events'[i].time
           /\ xfocus' = xfocus /\ LatestReport => LatestReport'
           /\ NoReport' /\ IsReport(Head(events)) /\ LatestReport /\ xfocus \in Client \cup {RootWindow} =>
                 Head(events).win = xfocus
<1> DEFINE s == events
           t == events'
<1>1. /\ Len(s) \in Nat /\ Len(s) >= 1 /\ Len(t) = Len(s) - 1
      /\ t \in Seq(ServerEvent) /\ Head(s) \in ServerEvent /\ Head(s) = s[1]
      /\ \A i \in 1..Len(t) : i + 1 \in 1..Len(s) /\ t[i] = s[i + 1]
      /\ \A i \in 1..Len(s) : i # 1 => i - 1 \in 1..Len(t) /\ t[i - 1] = s[i]
  BY FocusTail
<1> DEFINE h == Head(s)
<1>h. h = s[1] /\ 1 \in 1..Len(s)
  BY <1>1
<1> HIDE DEF s, t, h
<1>2. IsComing(h)
  BY <1>h DEF IsComing, s
<1>3. ASSUME NEW e, IsComing(e)' PROVE IsComing(e)
  BY <1>1, <1>3 DEF IsComing, s, t
<1>4. ASSUME NEW e, IsComing(e), e # h PROVE IsComing(e)'
  <2>1. PICK i \in 1..Len(s) : s[i] = e
    BY <1>4 DEF IsComing, s
  <2>2. i - 1 \in 1..Len(t) /\ t[i - 1] = e
    BY <2>1, <1>1, <1>4, <1>h
  <2> QED BY <2>2 DEF IsComing, t
<1>5. NoReport => NoReport'
  BY <1>1 DEF NoReport, s, t
<1>6. ASSUME NoReport', ~IsReport(h) PROVE NoReport
  <2>1. ASSUME NEW i \in 1..Len(s) PROVE ~IsReport(s[i])
    BY <1>6, <1>1, <1>h DEF NoReport, t
  <2> QED BY <2>1 DEF NoReport, s
<1>7. EventTimes => EventTimes'
  <2>1. SUFFICES ASSUME EventTimes, NEW i \in 1..Len(t), NEW j \in 1..Len(t), i < j,
                        t[i].type = "input", t[j].type = "input"
                 PROVE  t[i].time <= t[j].time
    BY DEF EventTimes, t
  <2>2. i + 1 \in 1..Len(s) /\ j + 1 \in 1..Len(s) /\ i + 1 < j + 1 /\ t[i] = s[i + 1] /\ t[j] = s[j + 1]
    BY <1>1, <2>1
  <2> QED BY <2>1, <2>2 DEF EventTimes, s
<1>8. ASSUME EventTimes, h.type = "input", NEW i \in 1..Len(t), t[i].type = "input" PROVE h.time <= t[i].time
  <2>1. i + 1 \in 1..Len(s) /\ 1 < i + 1 /\ t[i] = s[i + 1]
    BY <1>1
  <2> QED BY <2>1, <1>8, <1>h DEF EventTimes, s
<1>9. ASSUME xfocus' = xfocus, LatestReport PROVE LatestReport'
  <2>1. SUFFICES ASSUME NEW i \in 1..Len(t), IsReport(t[i]), \A j \in 1..Len(t) : j > i => ~IsReport(t[j]),
                        xfocus \in Client \cup {RootWindow}
                 PROVE  t[i].win = xfocus
    BY <1>9 DEF LatestReport, IsReport, t
  <2>2. i + 1 \in 1..Len(s) /\ t[i] = s[i + 1]
    BY <1>1
  <2>3. ASSUME NEW j \in 1..Len(s), j > i + 1 PROVE ~IsReport(s[j])
    <3>1. j - 1 \in 1..Len(t) /\ t[j - 1] = s[j] /\ j - 1 > i
      BY <1>1, <2>3
    <3> QED BY <3>1, <2>1
  <2>4. IsReport(s[i + 1])
    BY <2>1, <2>2
  <2> QED BY <1>9, <2>1, <2>2, <2>3, <2>4 DEF LatestReport, s
<1>10. ASSUME NoReport', IsReport(h), LatestReport, xfocus \in Client \cup {RootWindow} PROVE h.win = xfocus
  <2>1. ASSUME NEW j \in 1..Len(s), j > 1 PROVE ~IsReport(s[j])
    <3>1. j - 1 \in 1..Len(t) /\ t[j - 1] = s[j]
      BY <1>1, <2>1
    <3> QED BY <3>1, <1>10 DEF NoReport, t
  <2> QED BY <1>10, <1>h, <2>1 DEF LatestReport, s
<1> QED BY <1>1, <1>2, <1>3, <1>4, <1>5, <1>6, <1>7, <1>8, <1>9, <1>10 DEF s, t, h

\* An event that is sent.
LEMMA EventSent ==
    ASSUME NEW S, events \in Seq(S), NEW e \in S, events' = Append(events, e)
    PROVE  /\ events' \in Seq(S)
           /\ \A f : IsComing(f) => IsComing(f)'
           /\ IsComing(e)'
           /\ \A f : IsComing(f)' /\ f # e => IsComing(f)
           /\ NoReport' => NoReport /\ ~IsReport(e)
           /\ NoReport /\ ~IsReport(e) => NoReport'
           /\ EventTimes /\ (e.type = "input" =>
                  \A i \in 1..Len(events) : events[i].type = "input" => events[i].time <= e.time) => EventTimes'
           /\ ~IsReport(e) /\ xfocus' = xfocus /\ LatestReport => LatestReport'
           /\ IsReport(e) /\ xfocus' = e.win => LatestReport'
<1> DEFINE s == events
           t == events'
<1>1. /\ Len(s) \in Nat /\ Len(t) = Len(s) + 1
      /\ t \in Seq(S)
      /\ \A i \in 1..Len(s) : i \in 1..Len(t) /\ t[i] = s[i]
      /\ \A i \in 1..Len(t) : IF i = Len(s) + 1 THEN t[i] = e ELSE i \in 1..Len(s) /\ t[i] = s[i]
      /\ t[Len(s) + 1] = e
  BY FocusAppend
<1>n. Len(t) \in 1..Len(t) /\ t[Len(t)] = e
  BY <1>1
<1> HIDE DEF s, t
<1>2. ASSUME NEW f, IsComing(f) PROVE IsComing(f)'
  BY <1>1, <1>2 DEF IsComing, s, t
<1>3. IsComing(e)'
  BY <1>n DEF IsComing, t
<1>4. ASSUME NEW f, IsComing(f)', f # e PROVE IsComing(f)
  <2>1. PICK i \in 1..Len(t) : t[i] = f
    BY <1>4 DEF IsComing, t
  <2>2. i \in 1..Len(s) /\ s[i] = f
    BY <2>1, <1>1, <1>4
  <2> QED BY <2>2 DEF IsComing, s
<1>5. NoReport' => NoReport /\ ~IsReport(e)
  <2>1. SUFFICES ASSUME NoReport' PROVE NoReport /\ ~IsReport(e)
    OBVIOUS
  <2>2. \A i \in 1..Len(t) : ~IsReport(t[i])
    BY <2>1 DEF NoReport, t
  <2> QED BY <2>2, <1>1, <1>n DEF NoReport, s
<1>6. NoReport /\ ~IsReport(e) => NoReport'
  <2>1. SUFFICES ASSUME NoReport, ~IsReport(e), NEW i \in 1..Len(t) PROVE ~IsReport(t[i])
    BY DEF NoReport, IsReport, t
  <2>2. \A k \in 1..Len(s) : ~IsReport(s[k])
    BY <2>1 DEF NoReport, s
  <2> QED BY <1>1, <2>1, <2>2
<1>7. ASSUME EventTimes, e.type = "input" => \A i \in 1..Len(s) : s[i].type = "input" => s[i].time <= e.time
      PROVE  EventTimes'
  <2>1. SUFFICES ASSUME NEW i \in 1..Len(t), NEW j \in 1..Len(t), i < j,
                        t[i].type = "input", t[j].type = "input"
                 PROVE  t[i].time <= t[j].time
    BY DEF EventTimes, t
  <2>2. i \in 1..Len(s) /\ t[i] = s[i]
    BY <1>1, <2>1
  <2>3. CASE j = Len(s) + 1
    BY <2>1, <2>2, <2>3, <1>1, <1>7
  <2>4. CASE j # Len(s) + 1
    <3>1. j \in 1..Len(s) /\ t[j] = s[j]
      BY <2>4, <1>1
    <3> QED BY <2>1, <2>2, <3>1, <1>7 DEF EventTimes, s
  <2> QED BY <2>3, <2>4
<1>8. ASSUME ~IsReport(e), xfocus' = xfocus, LatestReport PROVE LatestReport'
  <2>1. SUFFICES ASSUME NEW i \in 1..Len(t), IsReport(t[i]), \A j \in 1..Len(t) : j > i => ~IsReport(t[j]),
                        xfocus \in Client \cup {RootWindow}
                 PROVE  t[i].win = xfocus
    BY <1>8 DEF LatestReport, IsReport, t
  <2>2. i \in 1..Len(s) /\ t[i] = s[i]
    BY <2>1, <1>1, <1>8
  <2>3. \A j \in 1..Len(s) : j > i => ~IsReport(s[j])
    BY <2>1, <1>1
  <2>4. IsReport(s[i])
    BY <2>1, <2>2
  <2> QED BY <1>8, <2>1, <2>2, <2>3, <2>4 DEF LatestReport, s
<1>9. ASSUME IsReport(e), xfocus' = e.win PROVE LatestReport'
  <2>1. SUFFICES ASSUME NEW i \in 1..Len(t), IsReport(t[i]), \A j \in 1..Len(t) : j > i => ~IsReport(t[j])
                 PROVE  t[i].win = e.win
    BY <1>9 DEF LatestReport, IsReport, t
  <2>2. i = Len(t)
    BY <2>1, <1>1, <1>n, <1>9
  <2> QED BY <2>2, <1>n
<1> QED BY <1>1, <1>2, <1>3, <1>4, <1>5, <1>6, <1>7, <1>8, <1>9 DEF s, t

-----------------------------------------------------------------------------
(* The queue of requests.                                                  *)

LEMMA RequestShapes ==
    ASSUME NEW r \in FocusRequest, timestamp \in Nat
    PROVE  /\ r.op \in {"focus", "take", "destroy"}
           /\ r.op = "focus" => r.win \in FocusTarget /\ r.time \in 0..timestamp
           /\ r.op = "take" => r.win \in TakesFocus /\ r.time \in 0..timestamp
           /\ r.op = "destroy" => r.win \in Client /\ r = DestroyFrame(r.win)
<1>1. CASE r \in [op : {"focus"}, win : FocusTarget, time : 0..timestamp]
  BY <1>1
<1>2. CASE r \in [op : {"take"}, win : TakesFocus, time : 0..timestamp]
  BY <1>2
<1>3. CASE \E c \in Client : r = DestroyFrame(c)
  BY <1>3 DEF DestroyFrame
<1> QED BY <1>1, <1>2, <1>3 DEF FocusRequest

IsToBeDestroyed(c) == \E i \in 1..Len(requests) : requests[i] = DestroyFrame(c)
NoneIsDestroyed == \A i \in 1..Len(requests) : requests[i].op # "destroy"

LEMMA FramesByRequests ==
    FramesInv <=> \A c \in Client : xfocus = Frame(c) =>
                      c \in managed \ existing \/ c \in dying \/ IsToBeDestroyed(c)
BY DEF FramesInv, IsToBeDestroyed

\* The server executes a request.
LEMMA RequestServed ==
    ASSUME requests \in Seq(FocusRequest), requests # <<>>, requests' = Tail(requests)
    PROVE  /\ Head(requests) \in FocusRequest
           /\ requests' \in Seq(FocusRequest)
           /\ \A w : IsAskedFor(w) /\ ~(IsWord(Head(requests)) /\ Head(requests).win = w) => IsAskedFor(w)'
           /\ \A c : IsToBeDestroyed(c) /\ Head(requests) # DestroyFrame(c) => IsToBeDestroyed(c)'
           /\ NoneIsDestroyed => NoneIsDestroyed' /\ Head(requests).op # "destroy"
           /\ IsWord(Head(requests)) /\ xfocus' = Head(requests).win =>
                 \A w : LastWordIs(w) => LastWordIs(w)'
           /\ ~IsWord(Head(requests)) /\ xfocus' = xfocus =>
                 \A w : LastWordIs(w) => LastWordIs(w)'
<1> DEFINE s == requests
           t == requests'
<1>1. /\ Len(s) \in Nat /\ Len(s) >= 1 /\ Len(t) = Len(s) - 1
      /\ t \in Seq(FocusRequest) /\ Head(s) \in FocusRequest /\ Head(s) = s[1]
      /\ \A i \in 1..Len(t) : i + 1 \in 1..Len(s) /\ t[i] = s[i + 1]
      /\ \A i \in 1..Len(s) : i # 1 => i - 1 \in 1..Len(t) /\ t[i - 1] = s[i]
  BY FocusTail
<1> DEFINE h == Head(s)
<1>h. h = s[1] /\ 1 \in 1..Len(s)
  BY <1>1
<1> HIDE DEF s, t, h
<1>2. ASSUME NEW w, IsAskedFor(w), ~(IsWord(h) /\ h.win = w) PROVE IsAskedFor(w)'
  <2>1. PICK i \in 1..Len(s) : IsWord(s[i]) /\ s[i].win = w
    BY <1>2 DEF IsAskedFor, s
  <2>2. i - 1 \in 1..Len(t) /\ t[i - 1] = s[i]
    BY <1>1, <1>h, <1>2, <2>1
  <2>3. IsWord(t[i - 1]) /\ t[i - 1].win = w
    BY <2>1, <2>2
  <2> QED BY <2>2, <2>3 DEF IsAskedFor, IsWord, t
<1>3. ASSUME NEW c, IsToBeDestroyed(c), h # DestroyFrame(c) PROVE IsToBeDestroyed(c)'
  <2>1. PICK i \in 1..Len(s) : s[i] = DestroyFrame(c)
    BY <1>3 DEF IsToBeDestroyed, s
  <2>2. i - 1 \in 1..Len(t) /\ t[i - 1] = s[i]
    BY <1>1, <1>h, <1>3, <2>1
  <2> QED BY <2>1, <2>2 DEF IsToBeDestroyed, DestroyFrame, t
<1>4. NoneIsDestroyed => NoneIsDestroyed' /\ h.op # "destroy"
  BY <1>1, <1>h DEF NoneIsDestroyed, s, t
<1>5. ASSUME NEW w, LastWordIs(w),
             IF IsWord(h) THEN xfocus' = h.win ELSE xfocus' = xfocus
      PROVE  LastWordIs(w)'
  <2>1. ASSUME NEW i \in 1..Len(t), IsWord(t[i]), \A j \in 1..Len(t) : j > i => ~IsWord(t[j])
        PROVE  t[i].win = w
    <3>1. i + 1 \in 1..Len(s) /\ t[i] = s[i + 1]
      BY <1>1
    <3>2. ASSUME NEW j \in 1..Len(s), j > i + 1 PROVE ~IsWord(s[j])
      <4>1. j - 1 \in 1..Len(t) /\ t[j - 1] = s[j] /\ j - 1 > i
        BY <1>1, <3>2
      <4> QED BY <4>1, <2>1
    <3>3. IsWord(s[i + 1])
      BY <2>1, <3>1
    <3> QED BY <1>5, <3>1, <3>2, <3>3 DEF LastWordIs, s
  <2>2. ASSUME \A i \in 1..Len(t) : ~IsWord(t[i]) PROVE xfocus' = w
    <3>1. ASSUME NEW i \in 1..Len(s), i > 1 PROVE ~IsWord(s[i])
      <4>1. i - 1 \in 1..Len(t) /\ t[i - 1] = s[i]
        BY <1>1, <3>1
      <4> QED BY <4>1, <2>2
    <3>2. CASE IsWord(h)
      <4>1. s[1].win = w
        BY <1>5, <1>h, <3>1, <3>2 DEF LastWordIs, s
      <4> QED BY <4>1, <1>5, <1>h, <3>2
    <3>3. CASE ~IsWord(h)
      <4>1. \A i \in 1..Len(s) : ~IsWord(s[i])
        BY <3>1, <3>3, <1>h, <1>1
      <4> QED BY <4>1, <1>5, <3>3 DEF LastWordIs, s
    <3> QED BY <3>2, <3>3
  <2> QED BY <2>1, <2>2 DEF LastWordIs, IsWord, t
<1>6. IsWord(h) /\ xfocus' = h.win => \A w : LastWordIs(w) => LastWordIs(w)'
  BY <1>5
<1>7. ~IsWord(h) /\ xfocus' = xfocus => \A w : LastWordIs(w) => LastWordIs(w)'
  BY <1>5
<1> QED BY <1>1, <1>2, <1>3, <1>4, <1>6, <1>7 DEF s, t, h

\* What awesome sends: a pending change, and perhaps the ends of frames.
Sent(new) ==
    /\ new \in Seq(FocusRequest)
    /\ Extended(requests, new)
    /\ \A i \in 1..Len(new) : i > Len(requests) =>
           \/ needUpdate /\ new[i] = SetInputFocus(InputWindow(focus), timestamp)
           \/ needUpdate /\ focus \in TakesFocus /\ new[i] = TakeFocus(focus, timestamp)
           \/ \E c \in dying : new[i] = DestroyFrame(c)
    /\ needUpdate => \E i \in 1..Len(new) :
                         i > Len(requests) /\ new[i] = SetInputFocus(InputWindow(focus), timestamp)

LEMMA FocusRequestsFacts ==
    ASSUME FocusTypeInv
    PROVE  Sent(requests \o FocusRequests) /\ FocusRequests \in Seq(FocusRequest)
<1> DEFINE set == SetInputFocus(InputWindow(focus), timestamp)
           take == TakeFocus(focus, timestamp)
           before == IF focus \in TakesFocus THEN <<take>> ELSE <<>>
           sent == before \o <<set>>
<1>1. requests \in Seq(FocusRequest) /\ focus \in Client \cup {None} /\ timestamp \in Nat
  BY DEF FocusTypeInv
<1>2. set \in FocusRequest
  <2>1. InputWindow(focus) \in FocusTarget /\ timestamp \in 0..timestamp
    BY <1>1 DEF FocusTarget
  <2> QED BY <2>1 DEF FocusRequest, SetInputFocus
<1>3. focus \in TakesFocus => take \in FocusRequest
  <2>1. timestamp \in 0..timestamp
    BY <1>1
  <2> QED BY <2>1 DEF FocusRequest, TakeFocus
<1>4. CASE ~needUpdate
  <2>1. FocusRequests = <<>>
    BY <1>4 DEF FocusRequests
  <2>2. requests \o FocusRequests = requests
    BY <2>1, <1>1, ConcatEmptySeq
  <2>3. Len(requests) \in Nat
    BY <1>1, LenProperties
  <2> QED BY <1>1, <1>4, <2>1, <2>2, <2>3 DEF Sent, Extended
<1>5. CASE needUpdate
  <2>1. FocusRequests = sent
    BY <1>5 DEF FocusRequests
  <2> HIDE DEF set, take
  <2>2. /\ before \in Seq(FocusRequest) /\ Len(before) \in Nat
        /\ \A i \in 1..Len(before) : focus \in TakesFocus /\ before[i] = take
    BY <1>3
  <2>3. <<set>> \in Seq(FocusRequest) /\ Len(<<set>>) = 1 /\ <<set>>[1] = set
    BY <1>2
  <2> HIDE DEF before
  <2>4. /\ sent \in Seq(FocusRequest) /\ Len(sent) = Len(before) + 1 /\ Len(sent) \in Nat
        /\ \A i \in 1..Len(sent) : sent[i] = set \/ (focus \in TakesFocus /\ sent[i] = take)
        /\ \E i \in 1..Len(sent) : sent[i] = set
    <3>1. /\ sent \in Seq(FocusRequest) /\ Len(sent) = Len(before) + 1
          /\ \A i \in 1..Len(before) : sent[i] = before[i]
          /\ sent[Len(before) + 1] = set
      <4>1. sent = Append(before, set)
        BY <2>2, <1>2, AppendIsConcat
      <4> QED BY <4>1, <2>2, <1>2, FocusAppend
    <3>2. ASSUME NEW i \in 1..Len(sent) PROVE sent[i] = set \/ (focus \in TakesFocus /\ sent[i] = take)
      <4>1. i \in 1..Len(before) \/ i = Len(before) + 1
        BY <2>2, <3>1
      <4> QED BY <4>1, <3>1, <2>2
    <3>3. Len(before) + 1 \in 1..Len(sent)
      BY <2>2, <3>1
    <3> QED BY <2>2, <3>1, <3>2, <3>3
  <2> HIDE DEF sent
  <2> DEFINE new == requests \o sent
  <2>5. /\ new \in Seq(FocusRequest) /\ Extended(requests, new)
        /\ Len(requests) \in Nat
        /\ \A i \in 1..Len(new) : i > Len(requests) =>
               i - Len(requests) \in 1..Len(sent) /\ new[i] = sent[i - Len(requests)]
        /\ \A i \in 1..Len(sent) : Len(requests) + i \in 1..Len(new) /\ new[Len(requests) + i] = sent[i]
    BY <1>1, <2>4, ConcatExtends
  <2> HIDE DEF new
  <2>6. \E i \in 1..Len(new) : i > Len(requests) /\ new[i] = set
    <3>1. PICK i \in 1..Len(sent) : sent[i] = set
      BY <2>4
    <3>2. Len(requests) + i \in 1..Len(new) /\ Len(requests) + i > Len(requests) /\ new[Len(requests) + i] = set
      BY <3>1, <2>5, <2>4
    <3> QED BY <3>2
  <2>7. \A i \in 1..Len(new) : i > Len(requests) => new[i] = set \/ (focus \in TakesFocus /\ new[i] = take)
    BY <2>4, <2>5
  <2>8. Sent(new)
    BY <1>5, <2>5, <2>6, <2>7 DEF Sent, set, take
  <2> QED BY <2>1, <2>4, <2>8 DEF new
<1> QED BY <1>4, <1>5

LEMMA RefreshSends ==
    ASSUME FocusTypeInv, NEW new,
           new = requests \o FocusRequests \o SetToSeq({DestroyFrame(c) : c \in dying})
    PROVE  Sent(new) /\ \A c \in dying : \E i \in 1..Len(new) : new[i] = DestroyFrame(c)
<1> DEFINE frames == {DestroyFrame(c) : c \in dying}
           first == requests \o FocusRequests
           last == SetToSeq(frames)
<1>1. IsFiniteSet(frames)
  <2>1. IsFiniteSet(dying)
    BY DEF FocusTypeInv
  <2> DEFINE f == [c \in dying |-> DestroyFrame(c)]
  <2>2. f \in Surjection(dying, frames)
    BY DEF Surjection
  <2> QED BY <2>1, <2>2, FS_Surjection
<1>2. last \in Seq(frames) /\ \A x \in frames : \E i \in 1..Len(last) : last[i] = x
  BY <1>1, SetToSeqFacts
<1>3. frames \subseteq FocusRequest
  BY DEF FocusTypeInv, FocusRequest
<1> HIDE DEF frames, last
<1>4. last \in Seq(FocusRequest) /\ \A i \in 1..Len(last) : last[i] \in frames
  <2>1. last \in Seq(FocusRequest)
    BY <1>2, <1>3, SeqMonotonic
  <2> QED BY <2>1, <1>2, ElementOfSeq, LenProperties
<1>5. Sent(first)
  BY FocusRequestsFacts
<1> HIDE DEF first
<1>6. new = first \o last
  BY DEF first, last, frames
<1>7. first \in Seq(FocusRequest) /\ Extended(requests, first) /\ Len(requests) \in Nat /\ Len(first) \in Nat
  BY <1>5, LenProperties DEF Sent, FocusTypeInv
<1>8. /\ new \in Seq(FocusRequest) /\ Extended(first, new) /\ Len(new) = Len(first) + Len(last) /\ Len(last) \in Nat
      /\ \A i \in 1..Len(new) : i > Len(first) => i - Len(first) \in 1..Len(last) /\ new[i] = last[i - Len(first)]
      /\ \A i \in 1..Len(last) : Len(first) + i \in 1..Len(new) /\ new[Len(first) + i] = last[i]
  <2>1. first \in Seq(FocusRequest) /\ last \in Seq(FocusRequest)
    BY <1>4, <1>7
  <2>2. /\ first \o last \in Seq(FocusRequest) /\ Extended(first, first \o last)
        /\ Len(last) \in Nat /\ Len(first \o last) = Len(first) + Len(last)
        /\ \A i \in 1..Len(first \o last) : i > Len(first) =>
               i - Len(first) \in 1..Len(last) /\ (first \o last)[i] = last[i - Len(first)]
        /\ \A i \in 1..Len(last) : Len(first) + i \in 1..Len(first \o last) /\ (first \o last)[Len(first) + i] = last[i]
    BY <2>1, ConcatExtends
  <2> QED BY <2>2, <1>6
<1>n. Len(new) \in Nat /\ Len(new) >= Len(first)
  BY <1>7, <1>8
<1>e. \A i \in 1..Len(first) : i \in 1..Len(new) /\ new[i] = first[i]
  <2>1. \A i \in 1..Len(first) : new[i] = first[i]
    BY <1>8 DEF Extended
  <2>2. \A i \in 1..Len(first) : i \in 1..Len(new)
    BY <1>7, <1>n
  <2> QED BY <2>1, <2>2
<1>9. Extended(requests, new)
  BY <1>7, <1>n, <1>e DEF Extended
<1>10. ASSUME NEW i \in 1..Len(new), i > Len(requests)
       PROVE  \/ needUpdate /\ new[i] = SetInputFocus(InputWindow(focus), timestamp)
              \/ needUpdate /\ focus \in TakesFocus /\ new[i] = TakeFocus(focus, timestamp)
              \/ \E c \in dying : new[i] = DestroyFrame(c)
  <2>0. i \in Nat /\ i > Len(requests)
    BY <1>10
  <2>1. CASE i > Len(first)
    <3>1. new[i] \in frames
      BY <1>4, <1>8, <2>1
    <3> QED BY <3>1 DEF frames
  <2>2. CASE i <= Len(first)
    <3>1. i \in 1..Len(first) /\ new[i] = first[i]
      BY <1>7, <1>e, <2>0, <2>2
    <3> QED BY <3>1, <1>5, <1>10 DEF Sent
  <2>3. i > Len(first) \/ i <= Len(first)
    BY <2>0, <1>7
  <2> QED BY <2>1, <2>2, <2>3
<1>11. ASSUME needUpdate
       PROVE  \E i \in 1..Len(new) : i > Len(requests) /\ new[i] = SetInputFocus(InputWindow(focus), timestamp)
  <2>1. PICK i \in 1..Len(first) : i > Len(requests) /\ first[i] = SetInputFocus(InputWindow(focus), timestamp)
    BY <1>5, <1>11 DEF Sent
  <2>2. i \in 1..Len(new) /\ new[i] = first[i]
    BY <2>1, <1>e
  <2> QED BY <2>1, <2>2
<1>12. ASSUME NEW c \in dying PROVE \E i \in 1..Len(new) : new[i] = DestroyFrame(c)
  <2>1. DestroyFrame(c) \in frames
    BY DEF frames
  <2>2. PICK i \in 1..Len(last) : last[i] = DestroyFrame(c)
    BY <2>1, <1>2
  <2> QED BY <2>2, <1>8
<1> QED BY <1>8, <1>9, <1>10, <1>11, <1>12 DEF Sent

\* What Sent keeps and gives.
LEMMA SentFacts ==
    ASSUME FocusTypeInv, Sent(requests'), UNCHANGED <<xfocus, xfocusTime, timestamp, taking, disturbed>>
    PROVE  /\ \A w : IsAskedFor(w) => IsAskedFor(w)'
           /\ \A c : IsToBeDestroyed(c) => IsToBeDestroyed(c)'
           /\ needUpdate => \A w : w = InputWindow(focus) => IsAskedFor(w)' /\ LastWordIs(w)'
           /\ ~needUpdate => \A w : LastWordIs(w) => LastWordIs(w)'
           /\ NoneIsDestroyed /\ dying = {} => NoneIsDestroyed'
           /\ RequestTimes => RequestTimes'
<1> DEFINE s == requests
           t == requests'
           set == SetInputFocus(InputWindow(focus), timestamp)
<1>1. /\ s \in Seq(FocusRequest) /\ t \in Seq(FocusRequest) /\ Len(s) \in Nat /\ Len(t) \in Nat
      /\ Len(t) >= Len(s) /\ timestamp \in Nat
      /\ \A i \in 1..Len(s) : i \in 1..Len(t) /\ t[i] = s[i]
  BY LenProperties DEF Sent, Extended, FocusTypeInv
<1>2. ASSUME NEW i \in 1..Len(t), i > Len(s)
      PROVE  /\ t[i].op \in {"focus", "take"} => needUpdate /\ t[i].time = timestamp
             /\ t[i].op = "focus" => t[i].win = InputWindow(focus)
             /\ t[i].op = "destroy" => dying # {}
  <2>1. \/ needUpdate /\ t[i] = SetInputFocus(InputWindow(focus), timestamp)
        \/ needUpdate /\ focus \in TakesFocus /\ t[i] = TakeFocus(focus, timestamp)
        \/ \E c \in dying : t[i] = DestroyFrame(c)
    BY <1>2 DEF Sent
  <2>2. CASE needUpdate /\ t[i] = SetInputFocus(InputWindow(focus), timestamp)
    BY <2>2 DEF SetInputFocus
  <2>3. CASE needUpdate /\ t[i] = TakeFocus(focus, timestamp)
    BY <2>3 DEF TakeFocus
  <2>4. CASE \E c \in dying : t[i] = DestroyFrame(c)
    BY <2>4 DEF DestroyFrame
  <2> QED BY <2>1, <2>2, <2>3, <2>4
<1>3. needUpdate => \E i \in 1..Len(t) : i > Len(s) /\ IsWord(t[i]) /\ t[i].win = InputWindow(focus)
  BY DEF Sent, SetInputFocus, IsWord
<1>4. \A i \in 1..Len(t) : i > Len(s) \/ (i \in 1..Len(s) /\ t[i] = s[i])
  BY <1>1
<1> HIDE DEF s, t
<1>5. ASSUME NEW w, IsAskedFor(w) PROVE IsAskedFor(w)'
  BY <1>1, <1>5 DEF IsAskedFor, IsWord, s, t
<1>6. ASSUME NEW c, IsToBeDestroyed(c) PROVE IsToBeDestroyed(c)'
  BY <1>1, <1>6 DEF IsToBeDestroyed, DestroyFrame, s, t
<1>7. ASSUME needUpdate, NEW w, w = InputWindow(focus) PROVE IsAskedFor(w)' /\ LastWordIs(w)'
  <2>1. PICK k \in 1..Len(t) : k > Len(s) /\ IsWord(t[k]) /\ t[k].win = w
    BY <1>3, <1>7
  <2>2. IsAskedFor(w)'
    BY <2>1 DEF IsAskedFor, IsWord, t
  <2>3. ASSUME NEW i \in 1..Len(t), IsWord(t[i]), \A j \in 1..Len(t) : j > i => ~IsWord(t[j])
        PROVE  t[i].win = w
    <3>1. ~(k > i)
      BY <2>1, <2>3
    <3>2. i > Len(s)
      BY <3>1, <2>1, <1>1
    <3> QED BY <3>2, <1>2, <1>7, <2>3 DEF IsWord
  <2>4. LastWordIs(w)'
    BY <2>1, <2>3 DEF LastWordIs, IsWord, t
  <2> QED BY <2>2, <2>4
<1>8. ASSUME ~needUpdate, NEW w, LastWordIs(w) PROVE LastWordIs(w)'
  <2>1. \A i \in 1..Len(t) : i > Len(s) => ~IsWord(t[i])
    BY <1>2, <1>8 DEF IsWord
  <2>2. ASSUME NEW i \in 1..Len(t), IsWord(t[i]), \A j \in 1..Len(t) : j > i => ~IsWord(t[j])
        PROVE  t[i].win = w
    <3>1. i \in 1..Len(s) /\ t[i] = s[i]
      BY <2>1, <2>2, <1>4
    <3>2. \A j \in 1..Len(s) : j > i => ~IsWord(s[j])
      BY <2>2, <1>1
    <3>3. IsWord(s[i])
      BY <2>2, <3>1
    <3> QED BY <1>8, <3>1, <3>2, <3>3 DEF LastWordIs, s
  <2>3. ASSUME \A i \in 1..Len(t) : ~IsWord(t[i]) PROVE xfocus' = w
    <3>1. \A i \in 1..Len(s) : ~IsWord(s[i])
      BY <2>3, <1>1
    <3> QED BY <3>1, <1>8 DEF LastWordIs, s
  <2> QED BY <2>2, <2>3 DEF LastWordIs, IsWord, t
<1>9. NoneIsDestroyed /\ dying = {} => NoneIsDestroyed'
  <2>1. SUFFICES ASSUME NoneIsDestroyed, dying = {}, NEW i \in 1..Len(t) PROVE t[i].op # "destroy"
    BY DEF NoneIsDestroyed, t
  <2>2. \A k \in 1..Len(s) : s[k].op # "destroy"
    BY <2>1 DEF NoneIsDestroyed, s
  <2> QED BY <1>2, <1>4, <2>1, <2>2
<1>10. ASSUME RequestTimes PROVE RequestTimes'
  <2>1. SUFFICES ASSUME "self" \notin disturbed PROVE RequestTimes'
    BY DEF RequestTimes
  <2>2. /\ xfocusTime <= timestamp
        /\ \A u \in taking : u[2] <= timestamp
        /\ \A i \in 1..Len(s) : s[i].op # "destroy" =>
               /\ xfocusTime <= s[i].time
               /\ \A u \in taking : u[2] <= s[i].time
               /\ \A j \in 1..Len(s) : i < j /\ s[j].op # "destroy" => s[i].time <= s[j].time
    BY <1>10, <2>1 DEF RequestTimes, s
  <2>3. \A i \in 1..Len(t) : t[i].op # "destroy" => t[i].op \in {"focus", "take"} /\ t[i].time \in 0..timestamp
    BY <1>1, RequestShapes, ElementOfSeq
  <2>4. ASSUME NEW i \in 1..Len(t), t[i].op # "destroy"
        PROVE  /\ xfocusTime <= t[i].time
               /\ \A u \in taking : u[2] <= t[i].time
               /\ \A j \in 1..Len(t) : i < j /\ t[j].op # "destroy" => t[i].time <= t[j].time
    <3>1. CASE i > Len(s)
      <4>1. t[i].time = timestamp
        BY <3>1, <1>2, <2>3, <2>4
      <4>2. ASSUME NEW j \in 1..Len(t), i < j, t[j].op # "destroy" PROVE t[j].time = timestamp
        <5>1. j > Len(s)
          BY <4>2, <3>1, <1>1
        <5> QED BY <5>1, <1>2, <2>3, <4>2
      <4> QED BY <4>1, <4>2, <2>2, <1>1
    <3>2. CASE i \in 1..Len(s) /\ t[i] = s[i]
      <4>1. ASSUME NEW j \in 1..Len(t), i < j, t[j].op # "destroy" PROVE t[i].time <= t[j].time
        <5>1. CASE j > Len(s)
          <6>1. t[j].time = timestamp
            BY <5>1, <1>2, <2>3, <4>1
          <6> QED BY <6>1, <2>3, <2>4, <1>1
        <5>2. CASE j \in 1..Len(s) /\ t[j] = s[j]
          BY <5>2, <3>2, <2>2, <2>4, <4>1
        <5> QED BY <5>1, <5>2, <1>4
      <4> QED BY <4>1, <3>2, <2>2, <2>4
    <3> QED BY <3>1, <3>2, <1>4
  <2> QED BY <2>1, <2>2, <2>4 DEF RequestTimes, t
<1> QED BY <1>5, <1>6, <1>7, <1>8, <1>9, <1>10

-----------------------------------------------------------------------------
(* What awesome does.                                                      *)

LEMMA SameShapes ==
    /\ UNCHANGED timestamp => FocusRequest' = FocusRequest
    /\ UNCHANGED <<timestamp, now>> => ServerEvent' = ServerEvent
BY DEF FocusRequest, ServerEvent

LEMMA PartsKept ==
    /\ UNCHANGED <<events, existing, managed>> => (DeathsInv => DeathsInv')
    /\ UNCHANGED <<requests, dying, existing, managed, xfocus>> => (FramesInv => FramesInv')
    /\ UNCHANGED <<events, xfocus, existing>> => (ReportsInv => ReportsInv')
    /\ UNCHANGED events => (EventTimes => EventTimes')
    /\ UNCHANGED <<requests, disturbed, xfocusTime, timestamp, taking>> => (RequestTimes => RequestTimes')
    /\ UNCHANGED events => (NoReport => NoReport') /\ (NoReport' => NoReport) /\ \A e : IsComing(e)' <=> IsComing(e)
    /\ UNCHANGED requests => /\ NoneIsDestroyed => NoneIsDestroyed'
                             /\ \A c : IsToBeDestroyed(c) => IsToBeDestroyed(c)'
                             /\ \A w : IsAskedFor(w) => IsAskedFor(w)'
                             /\ UNCHANGED xfocus => \A w : LastWordIs(w) => LastWordIs(w)'
<1>1. UNCHANGED <<events, existing, managed>> => (DeathsInv => DeathsInv')
  BY DEF DeathsInv, IsComing
<1>2. UNCHANGED <<requests, dying, existing, managed, xfocus>> => (FramesInv => FramesInv')
  BY DEF FramesInv
<1>3. UNCHANGED <<events, xfocus, existing>> => (ReportsInv => ReportsInv')
  BY DEF ReportsInv, LatestReport, IsReport
<1>4. UNCHANGED events => (EventTimes => EventTimes')
  BY DEF EventTimes
<1>5. UNCHANGED <<requests, disturbed, xfocusTime, timestamp, taking>> => (RequestTimes => RequestTimes')
  BY DEF RequestTimes
<1>6. UNCHANGED events => (NoReport => NoReport') /\ (NoReport' => NoReport)
  BY DEF NoReport, IsReport
<1>7. UNCHANGED events => \A e : IsComing(e)' <=> IsComing(e)
  BY DEF IsComing
<1>8. UNCHANGED requests => /\ NoneIsDestroyed => NoneIsDestroyed'
                            /\ \A c : IsToBeDestroyed(c) => IsToBeDestroyed(c)'
                            /\ \A w : IsAskedFor(w) => IsAskedFor(w)'
  BY DEF NoneIsDestroyed, IsToBeDestroyed, IsAskedFor, IsWord
<1>9. UNCHANGED <<requests, xfocus>> => \A w : LastWordIs(w) => LastWordIs(w)'
  BY DEF LastWordIs, IsWord
<1> QED BY <1>1, <1>2, <1>3, <1>4, <1>5, <1>6, <1>7, <1>8, <1>9

\* UndisturbedInv by its parts.
Calm == /\ managed = Client /\ existing = Client /\ dying = {}
        /\ xfocus # RootWindow /\ ~IsComing(FocusIn(RootWindow))
        /\ NoneIsDestroyed
NothingYet == requests = <<>> /\ NoReport /\ ~needUpdate /\ focus = None
Assigned == /\ wanted \in Client
            /\ needUpdate => focus = wanted
            /\ ~needUpdate => LastWordIs(InputWindow(wanted))

LEMMA UndisturbedParts ==
    UndisturbedInv <=> (disturbed = {} => /\ Calm
                                          /\ changes = 0 => NothingYet
                                          /\ changes > 0 => Assigned)
BY DEF UndisturbedInv, Calm, NothingYet, Assigned, NoneIsDestroyed

LEMMA FocusParts ==
    FocusIInv <=> /\ FocusTypeInv /\ DeathsInv /\ FramesInv /\ ReportsInv
                  /\ BelievedInv /\ EventTimes /\ RequestTimes /\ UndisturbedInv
BY TimesParts DEF FocusIInv

LEMMA ClientFocusKeeps == ASSUME FocusIInv, NEW c \in Client, ClientFocus(c) PROVE FocusIInv'
<1> USE DEF ClientFocus, serverVars
<1>0. FocusTypeInv /\ DeathsInv /\ FramesInv /\ ReportsInv /\ BelievedInv /\ EventTimes /\ RequestTimes /\ UndisturbedInv
  BY FocusParts
<1>1. FocusTypeInv'
  BY <1>0, SameShapes DEF FocusTypeInv
<1>2. DeathsInv' /\ FramesInv' /\ ReportsInv' /\ EventTimes' /\ RequestTimes'
  BY <1>0, PartsKept
<1>3. BelievedInv'
  <2>1. CASE needUpdate'
    BY <2>1 DEF BelievedInv
  <2>2. CASE ~needUpdate'
    <3>1. ~needUpdate /\ focus' = focus
      BY <2>2
    <3> QED BY <3>1, <1>0, PartsKept DEF BelievedInv, InputWindow
  <2> QED BY <2>1, <2>2
<1>4. UndisturbedInv'
  <2>1. SUFFICES ASSUME disturbed = {} PROVE Calm' /\ Assigned' /\ ~(changes' = 0)
    BY DEF UndisturbedInv, Calm, Assigned, NoneIsDestroyed
  <2>2. Calm /\ (changes = 0 => NothingYet) /\ (changes > 0 => Assigned) /\ changes \in Nat
    BY <1>0, <2>1, UndisturbedParts DEF FocusTypeInv
  <2>3. Calm'
    BY <2>2, PartsKept DEF Calm, FocusIn
  <2>4. CASE focus # c
    <3>1. Assigned'
      BY <2>4, WindowFacts DEF Assigned
    <3>2. changes' # 0
      BY <2>2
    <3> QED BY <2>3, <3>1, <3>2
  <2>5. CASE focus = c
    <3>1. changes > 0
      BY <2>2, <2>5, WindowFacts DEF NothingYet
    <3>2. Assigned'
      BY <2>2, <2>5, <3>1, PartsKept DEF Assigned, InputWindow
    <3> QED BY <2>2, <2>3, <3>2
  <2> QED BY <2>2, <2>3, <2>4, <2>5
<1> QED BY <1>1, <1>2, <1>3, <1>4, FocusParts, PTL

LEMMA ClientUnfocusKeeps == ASSUME FocusIInv, ClientUnfocus PROVE FocusIInv'
<1> USE DEF ClientUnfocus, serverVars
<1>0. FocusTypeInv /\ DeathsInv /\ FramesInv /\ ReportsInv /\ BelievedInv /\ EventTimes /\ RequestTimes /\ UndisturbedInv
  BY FocusParts
<1>1. FocusTypeInv'
  BY <1>0, SameShapes DEF FocusTypeInv
<1>2. DeathsInv' /\ FramesInv' /\ ReportsInv' /\ EventTimes'
  BY <1>0, PartsKept
<1>3. RequestTimes'
  BY <1>0 DEF RequestTimes
<1>4. BelievedInv' /\ UndisturbedInv'
  BY DEF BelievedInv, UndisturbedInv
<1> QED BY <1>1, <1>2, <1>3, <1>4, FocusParts, PTL

LEMMA HandleInputKeeps == ASSUME FocusIInv, HandleInput PROVE FocusIInv'
<1> USE DEF HandleInput, serverVars, historyVars
<1>0. FocusTypeInv /\ DeathsInv /\ FramesInv /\ ReportsInv /\ BelievedInv /\ EventTimes /\ RequestTimes /\ UndisturbedInv
  BY FocusParts
<1> DEFINE e == Head(events)
<1>e. /\ events \in Seq(ServerEvent) /\ events # <<>> /\ events' = Tail(events)
      /\ e \in ServerEvent /\ e.type = "input" /\ ~IsReport(e)
      /\ e.time \in timestamp..now /\ timestamp' = e.time
  <2>1. events \in Seq(ServerEvent) /\ events # <<>> /\ events' = Tail(events)
    BY <1>0 DEF FocusTypeInv
  <2> QED BY <2>1, EventHandled, EventShapes DEF IsReport
<1>h. /\ events' \in Seq(ServerEvent)
      /\ \A f : f # e => (IsComing(f)' <=> IsComing(f))
      /\ NoReport <=> NoReport'
      /\ EventTimes'
      /\ \A i \in 1..Len(events') : events'[i].type = "input" => e.time <= events'[i].time
      /\ LatestReport'
  BY <1>0, <1>e, EventHandled DEF ReportsInv
<1>d. (\A c : e # DestroyNotify(c)) /\ \A w : e # FocusIn(w)
  BY <1>e DEF DestroyNotify, FocusIn
<1>1. FocusTypeInv'
  <2>1. timestamp \in Nat /\ now \in Nat /\ timestamp' \in timestamp..now
    BY <1>0, <1>e DEF FocusTypeInv
  <2>2. requests' \in Seq(FocusRequest')
    <3>1. FocusRequest \subseteq FocusRequest'
      <4>1. 0..timestamp \subseteq 0..timestamp'
        BY <2>1
      <4> QED BY <4>1 DEF FocusRequest
    <3>2. requests \in Seq(FocusRequest)
      BY <1>0 DEF FocusTypeInv
    <3>3. requests \in Seq(FocusRequest')
      BY <3>1, <3>2, SeqMonotonic
    <3> QED BY <3>3
  <2>3. events' \in Seq(ServerEvent')
    <3>1. ASSUME NEW i \in 1..Len(events') PROVE events'[i] \in ServerEvent'
      <4>1. events'[i] \in ServerEvent
        BY <1>h, ElementOfSeq
      <4>2. CASE events'[i].type = "input"
        <5>1. events'[i] = Input(events'[i].time) /\ events'[i].time \in timestamp..now
          BY <4>1, <4>2, EventShapes
        <5>2. events'[i].time \in timestamp'..now'
          BY <5>1, <2>1, <1>h, <4>2, <1>e
        <5> QED BY <5>1, <5>2 DEF ServerEvent
      <4>3. CASE events'[i].type # "input"
        BY <4>1, <4>3 DEF ServerEvent, Input
      <4> QED BY <4>2, <4>3
    <3> QED BY <3>1, <1>h, SequenceOver
  <2> QED BY <2>1, <2>2, <2>3, <1>0 DEF FocusTypeInv
<1>2. DeathsInv'
  BY <1>0, <1>h, <1>d DEF DeathsInv, DestroyNotify
<1>3. FramesInv'
  BY <1>0, PartsKept
<1>4. ReportsInv'
  BY <1>0, <1>h DEF ReportsInv
<1>5. BelievedInv'
  BY <1>0, <1>h, PartsKept DEF BelievedInv, InputWindow
<1>6. RequestTimes'
  <2>1. SUFFICES ASSUME "self" \notin disturbed PROVE RequestTimes'
    BY DEF RequestTimes
  <2>2. /\ xfocusTime <= timestamp
        /\ \A t \in taking : t[2] <= timestamp /\ t[2] \in Int
        /\ xfocusTime \in Nat /\ timestamp \in Nat /\ timestamp' \in Nat /\ timestamp <= timestamp'
    BY <2>1, <1>0, <1>e DEF RequestTimes, FocusTypeInv
  <2>3. xfocusTime <= timestamp' /\ \A t \in taking : t[2] <= timestamp'
    BY <2>2
  <2> QED BY <1>0, <2>1, <2>3 DEF RequestTimes
<1>7. UndisturbedInv'
  <2>1. SUFFICES ASSUME disturbed = {} PROVE Calm' /\ (changes = 0 => NothingYet') /\ (changes > 0 => Assigned')
    BY DEF UndisturbedInv, Calm, NothingYet, Assigned, NoneIsDestroyed
  <2>2. Calm /\ (changes = 0 => NothingYet) /\ (changes > 0 => Assigned)
    BY <1>0, <2>1, UndisturbedParts
  <2>3. Calm'
    BY <2>2, <1>h, <1>d, PartsKept DEF Calm, FocusIn
  <2>4. changes = 0 => NothingYet'
    BY <2>2, <1>h DEF NothingYet
  <2>5. changes > 0 => Assigned'
    BY <2>2, PartsKept DEF Assigned, InputWindow
  <2> QED BY <2>3, <2>4, <2>5
<1> QED BY <1>1, <1>2, <1>3, <1>4, <1>5, <1>6, <1>7, <1>h, FocusParts, PTL

LEMMA HandleDestroyNotifyKeeps == ASSUME FocusIInv, HandleDestroyNotify PROVE FocusIInv'
<1> USE DEF HandleDestroyNotify, serverVars, historyVars
<1>0. FocusTypeInv /\ DeathsInv /\ FramesInv /\ ReportsInv /\ BelievedInv /\ EventTimes /\ RequestTimes /\ UndisturbedInv
  BY FocusParts
<1> DEFINE e == Head(events)
           c == e.win
<1>e. /\ events \in Seq(ServerEvent) /\ events # <<>> /\ events' = Tail(events)
      /\ e \in ServerEvent /\ ~IsReport(e) /\ e.type # "input"
      /\ c \in Client /\ e = DestroyNotify(c)
  <2>1. events \in Seq(ServerEvent) /\ events # <<>> /\ events' = Tail(events)
    BY <1>0 DEF FocusTypeInv
  <2> QED BY <2>1, EventHandled, EventShapes DEF IsReport
<1>h. /\ events' \in Seq(ServerEvent) /\ IsComing(e)
      /\ \A f : f # e => (IsComing(f)' <=> IsComing(f))
      /\ NoReport <=> NoReport'
      /\ EventTimes'
      /\ LatestReport'
  BY <1>0, <1>e, EventHandled DEF ReportsInv
<1>c. c \notin existing /\ managed' = managed \ {c} /\ dying' = dying \cup {c}
  BY <1>0, <1>e, <1>h DEF DeathsInv
<1> HIDE DEF e, c
<1>d. \A d : d # c => DestroyNotify(d) # e
  BY <1>e DEF DestroyNotify
<1>u. /\ focus' = (IF focus = c THEN None ELSE focus) /\ needUpdate' = (needUpdate \/ focus = c)
      /\ UNCHANGED <<timestamp, requests, taking, existing, xfocus, xfocusTime, now, wanted, changes, disturbed>>
  BY DEF c, e
<1>1. FocusTypeInv'
  <2>1. IsFiniteSet(dying')
    <3>1. IsFiniteSet(dying)
      BY <1>0 DEF FocusTypeInv
    <3>2. IsFiniteSet(dying \cup {c})
      BY <3>1, FS_AddElement
    <3> QED BY <3>2, <1>c
  <2>2. FocusRequest' = FocusRequest /\ ServerEvent' = ServerEvent
    BY <1>u, SameShapes
  <2> QED BY <1>0, <1>c, <1>e, <1>h, <1>u, <2>1, <2>2 DEF FocusTypeInv
<1>2. DeathsInv'
  <2>1. ASSUME NEW d \in existing PROVE ~IsComing(DestroyNotify(d))'
    BY <2>1, <1>0, <1>c, <1>d, <1>h DEF DeathsInv
  <2>2. ASSUME NEW d \in managed' \ existing PROVE IsComing(DestroyNotify(d))'
    BY <2>2, <1>0, <1>c, <1>d, <1>h DEF DeathsInv
  <2> QED BY <2>1, <2>2, <1>u DEF DeathsInv, DestroyNotify
<1>3. FramesInv'
  BY <1>0, <1>c, <1>u DEF FramesInv
<1>4. ReportsInv'
  BY <1>0, <1>h, <1>u DEF ReportsInv
<1>5. BelievedInv'
  BY <1>0, <1>c, <1>h, <1>u, PartsKept DEF BelievedInv, InputWindow
<1>6. RequestTimes'
  BY <1>0, <1>u, PartsKept
<1>7. UndisturbedInv'
  BY <1>0, <1>c, <1>e, <1>u DEF UndisturbedInv
<1> QED BY <1>1, <1>2, <1>3, <1>4, <1>5, <1>6, <1>7, <1>h, FocusParts, PTL

LEMMA HandleFocusInKeeps == ASSUME FocusIInv, HandleFocusIn PROVE FocusIInv'
<1>0. FocusTypeInv /\ DeathsInv /\ FramesInv /\ ReportsInv /\ BelievedInv /\ EventTimes /\ RequestTimes /\ UndisturbedInv
  BY FocusParts
<1> DEFINE e == Head(events)
           w == e.win
<1>e. /\ events \in Seq(ServerEvent) /\ events # <<>> /\ events' = Tail(events)
      /\ e \in ServerEvent /\ IsReport(e)
      /\ w \in Client \cup {RootWindow} /\ e = FocusIn(w)
  <2>1. events \in Seq(ServerEvent) /\ events # <<>> /\ events' = Tail(events) /\ e.type = "focusin"
    BY <1>0 DEF FocusTypeInv, HandleFocusIn
  <2> QED BY <2>1, EventHandled, EventShapes DEF IsReport
<1>u. UNCHANGED <<managed, existing, timestamp, dying, taking, xfocus, xfocusTime, now, wanted, changes, disturbed>>
  BY DEF HandleFocusIn, serverVars, historyVars
<1>h. /\ events' \in Seq(ServerEvent) /\ IsComing(e)
      /\ \A f : f # e => (IsComing(f)' <=> IsComing(f))
      /\ \A f : IsComing(f)' => IsComing(f)
      /\ NoReport' /\ xfocus \in Client \cup {RootWindow} => w = xfocus
      /\ EventTimes'
      /\ LatestReport'
  BY <1>0, <1>e, <1>u, EventHandled DEF ReportsInv
<1>c. \/ w = RootWindow /\ needUpdate' = TRUE /\ UNCHANGED <<focus, requests>>
      \/ w \in managed /\ requests' = requests \o FocusRequests /\ needUpdate' = FALSE /\ focus' = w
      \/ w \notin managed \cup {RootWindow} /\ UNCHANGED <<focus, needUpdate, requests>>
  BY DEF HandleFocusIn
<1>n. ~NoReport
  BY <1>e, <1>h DEF NoReport, IsComing
<1> HIDE DEF e, w
<1>d. \A c : DestroyNotify(c) # e
  BY <1>e DEF DestroyNotify, FocusIn
<1>s. Sent(requests') \/ requests' = requests
  BY <1>0, <1>c, FocusRequestsFacts
<1>1. FocusTypeInv'
  <2>1. FocusRequest' = FocusRequest /\ ServerEvent' = ServerEvent
    BY <1>u, SameShapes
  <2>2. requests' \in Seq(FocusRequest)
    BY <1>0, <1>s DEF Sent, FocusTypeInv
  <2>3. focus' \in managed \cup {None} /\ needUpdate' \in BOOLEAN
    BY <1>0, <1>c DEF FocusTypeInv
  <2> QED BY <1>0, <1>u, <1>h, <2>1, <2>2, <2>3 DEF FocusTypeInv
<1>2. DeathsInv'
  BY <1>0, <1>u, <1>h, <1>d DEF DeathsInv, DestroyNotify
<1>3. FramesInv'
  <2>1. \A c : IsToBeDestroyed(c) => IsToBeDestroyed(c)'
    BY <1>0, <1>s, <1>u, SentFacts, PartsKept
  <2> QED BY <2>1, <1>0, <1>u DEF FramesInv, IsToBeDestroyed, Frame, DestroyFrame
<1>4. ReportsInv'
  BY <1>0, <1>h, <1>u DEF ReportsInv
<1>5. BelievedInv'
  <2>1. SUFFICES ASSUME ~needUpdate', NoReport', xfocus \in Client \cup {RootWindow} PROVE focus' = xfocus
    BY <1>u DEF BelievedInv
  <2>2. w = xfocus
    BY <2>1, <1>h
  <2>3. w \in managed \cup {RootWindow}
    BY <2>2, <2>1, <1>0 DEF ReportsInv, FocusTypeInv
  <2> QED BY <2>1, <2>2, <2>3, <1>c
<1>6. RequestTimes'
  BY <1>0, <1>s, <1>u, SentFacts, PartsKept
<1>7. UndisturbedInv'
  <2>1. SUFFICES ASSUME disturbed = {} PROVE Calm' /\ (changes > 0 => Assigned') /\ changes # 0
    BY <1>u DEF UndisturbedInv, Calm, NothingYet, Assigned, NoneIsDestroyed
  <2>2. Calm /\ (changes = 0 => NothingYet) /\ (changes > 0 => Assigned) /\ changes \in Nat
    BY <1>0, <2>1, UndisturbedParts DEF FocusTypeInv
  <2>3. changes # 0
    BY <2>2, <1>n DEF NothingYet
  <2>4. w \in managed
    BY <2>2, <1>e, <1>h DEF Calm
  <2>5. requests' = requests \o FocusRequests /\ needUpdate' = FALSE /\ Sent(requests')
    BY <2>4, <1>c, <1>0, FocusRequestsFacts, WindowFacts DEF FocusTypeInv
  <2>6. Calm'
    BY <2>2, <2>5, <1>0, <1>u, <1>h, SentFacts DEF Calm, FocusIn
  <2>7. LastWordIs(InputWindow(wanted))'
    <3>1. CASE needUpdate
      <4>1. focus = wanted
        BY <3>1, <2>2, <2>3 DEF Assigned
      <4>2. PICK x : x = InputWindow(focus)
        OBVIOUS
      <4>3. LastWordIs(x)'
        BY <3>1, <4>2, <1>0, <1>u, <2>5, SentFacts
      <4> QED BY <4>1, <4>2, <4>3, <1>u DEF InputWindow
    <3>2. CASE ~needUpdate
      <4>1. PICK x : x = InputWindow(wanted)
        OBVIOUS
      <4>2. LastWordIs(x)'
        BY <3>2, <4>1, <2>2, <2>3, <1>0, <1>u, <2>5, SentFacts DEF Assigned
      <4> QED BY <4>1, <4>2, <1>u DEF InputWindow
    <3> QED BY <3>1, <3>2
  <2>8. Assigned'
    BY <2>2, <2>3, <2>5, <2>7, <1>u DEF Assigned
  <2> QED BY <2>3, <2>6, <2>8
<1> QED BY <1>1, <1>2, <1>3, <1>4, <1>5, <1>6, <1>7, <1>h, FocusParts, PTL

LEMMA FocusRefreshKeeps == ASSUME FocusIInv, Refresh PROVE FocusIInv'
<1>0. FocusTypeInv /\ DeathsInv /\ FramesInv /\ ReportsInv /\ BelievedInv /\ EventTimes /\ RequestTimes /\ UndisturbedInv
  BY FocusParts
<1>u. UNCHANGED <<managed, focus, timestamp, events, taking, existing, xfocus, xfocusTime, now, wanted, changes, disturbed>>
  BY DEF Refresh, serverVars, historyVars
<1>g. (needUpdate \/ dying # {}) /\ needUpdate' = FALSE /\ dying' = {}
  BY DEF Refresh
<1>s. Sent(requests') /\ \A c \in dying : \E i \in 1..Len(requests') : requests'[i] = DestroyFrame(c)
  <2>1. requests' = requests \o FocusRequests \o SetToSeq({DestroyFrame(c) : c \in dying})
    BY DEF Refresh
  <2> QED BY <2>1, <1>0, RefreshSends
<1>1. FocusTypeInv'
  <2>1. FocusRequest' = FocusRequest /\ ServerEvent' = ServerEvent
    BY <1>u, SameShapes
  <2>2. requests' \in Seq(FocusRequest)
    BY <1>s DEF Sent
  <2> QED BY <1>0, <1>u, <1>g, <2>1, <2>2, FS_EmptySet DEF FocusTypeInv
<1>2. DeathsInv' /\ ReportsInv' /\ EventTimes'
  BY <1>0, <1>u, PartsKept
<1>3. FramesInv'
  <2>1. \A c : IsToBeDestroyed(c) => IsToBeDestroyed(c)'
    BY <1>0, <1>s, <1>u, SentFacts
  <2>2. \A c \in dying : IsToBeDestroyed(c)'
    BY <1>s DEF IsToBeDestroyed, DestroyFrame
  <2> QED BY <2>1, <2>2, <1>0, <1>u DEF FramesInv, IsToBeDestroyed, Frame, DestroyFrame
<1>5. BelievedInv'
  <2>1. SUFFICES ASSUME "self" \notin disturbed, NoReport, xfocus \in Client \cup {RootWindow}, focus # xfocus,
                        focus \notin managed \ existing
                 PROVE  IsAskedFor(InputWindow(focus))'
    BY <1>u, PartsKept DEF BelievedInv
  <2>2. PICK x : x = InputWindow(focus)
    OBVIOUS
  <2>3. IsAskedFor(x)'
    <3>1. CASE needUpdate
      BY <3>1, <2>2, <1>0, <1>s, <1>u, SentFacts
    <3>2. CASE ~needUpdate
      BY <3>2, <2>1, <2>2, <1>0, <1>s, <1>u, SentFacts DEF BelievedInv
    <3> QED BY <3>1, <3>2
  <2> QED BY <2>2, <2>3, <1>u DEF InputWindow
<1>6. RequestTimes'
  BY <1>0, <1>s, <1>u, SentFacts
<1>7. UndisturbedInv'
  <2>1. SUFFICES ASSUME disturbed = {} PROVE Calm' /\ (changes > 0 => Assigned') /\ changes # 0
    BY <1>u DEF UndisturbedInv, Calm, NothingYet, Assigned, NoneIsDestroyed
  <2>2. Calm /\ (changes = 0 => NothingYet) /\ (changes > 0 => Assigned) /\ changes \in Nat
    BY <1>0, <2>1, UndisturbedParts DEF FocusTypeInv
  <2>3. changes # 0 /\ needUpdate
    BY <2>2, <1>g DEF NothingYet, Calm
  <2>6. Calm'
    BY <2>2, <1>0, <1>g, <1>s, <1>u, SentFacts, PartsKept DEF Calm, FocusIn
  <2>7. LastWordIs(InputWindow(wanted))'
    <3>1. focus = wanted
      BY <2>2, <2>3 DEF Assigned
    <3>2. PICK x : x = InputWindow(focus)
      OBVIOUS
    <3>3. LastWordIs(x)'
      BY <2>3, <3>2, <1>0, <1>u, <1>s, SentFacts
    <3> QED BY <3>1, <3>2, <3>3, <1>u DEF InputWindow
  <2>8. Assigned'
    BY <2>2, <2>3, <2>7, <1>g, <1>u DEF Assigned
  <2> QED BY <2>3, <2>6, <2>8
<1> QED BY <1>1, <1>2, <1>3, <1>5, <1>6, <1>7, FocusParts, PTL

-----------------------------------------------------------------------------
(* What the server and the applications do.                                *)

LEMMA WindowsThatExist ==
    /\ \A w \in Client : WindowExists(w) => w \in existing
    /\ FocusTypeInv /\ ~WindowExists(InputWindow(focus)) => focus \in managed \ existing
    /\ managed = Client /\ existing = Client => \A c \in Client : WindowExists(InputWindow(c))
    /\ WindowExists(NoFocus)
<1>1. ASSUME NEW w \in Client, WindowExists(w) PROVE w \in existing
  BY <1>1 DEF WindowExists
<1>2. WindowExists(NoFocus)
  BY DEF WindowExists
<1>3. \A c \in existing : WindowExists(c)
  BY DEF WindowExists
<1>4. \A c \in managed : c \in Client => WindowExists(NofocusWindow(c))
  BY DEF WindowExists, FrameExists
<1>5. ASSUME FocusTypeInv, ~WindowExists(InputWindow(focus)) PROVE focus \in managed \ existing
  BY <1>2, <1>3, <1>4, <1>5 DEF InputWindow, FocusTypeInv
<1>6. ASSUME managed = Client, existing = Client, NEW c \in Client PROVE WindowExists(InputWindow(c))
  BY <1>2, <1>3, <1>4, <1>6 DEF InputWindow
<1> QED BY <1>1, <1>2, <1>5, <1>6

\* A request to move the focus, from awesome or an application.
LEMMA FocusServed ==
    ASSUME FocusTypeInv, ReportsInv, DeathsInv, EventTimes, NEW w \in Windows \ {RootWindow}, NEW time,
           ServeSetInputFocus(w, time), UNCHANGED <<managed, existing>>
    PROVE  /\ xfocus' \in Windows /\ events' \in Seq(ServerEvent) /\ DeathsInv' /\ ReportsInv' /\ EventTimes'
           /\ IsComing(FocusIn(RootWindow))' => IsComing(FocusIn(RootWindow))
           /\ \/ ~WindowExists(w) /\ UNCHANGED <<xfocus, xfocusTime, events>>
              \/ ~(time >= xfocusTime) /\ UNCHANGED <<xfocus, xfocusTime, events>>
              \/ /\ WindowExists(w) /\ time >= xfocusTime /\ xfocus' = w /\ xfocusTime' = time
                 /\ NoReport' => NoReport /\ (w = xfocus \/ w \notin Client \cup {RootWindow})
<1>t. events \in Seq(ServerEvent) /\ xfocus \in Windows
  BY DEF FocusTypeInv
<1>1. CASE UNCHANGED <<xfocus, xfocusTime, events>> /\ (~WindowExists(w) \/ ~(time >= xfocusTime))
  <2>1. DeathsInv' /\ ReportsInv' /\ EventTimes'
    BY <1>1, PartsKept
  <2>2. IsComing(FocusIn(RootWindow))' => IsComing(FocusIn(RootWindow))
    BY <1>1 DEF IsComing, FocusIn
  <2> QED BY <2>1, <2>2, <1>1, <1>t
<1>2. CASE WindowExists(w) /\ time >= xfocusTime /\ MoveFocus(w, events) /\ xfocusTime' = time
  <2>0. xfocus' = w /\ (w \in Client => w \in existing)
    BY <1>2, WindowsThatExist DEF MoveFocus
  <2>1. CASE w # xfocus /\ w \in Client
    <3> DEFINE e == FocusIn(w)
    <3>1. events' = Append(events, e) /\ e \in ServerEvent /\ IsReport(e) /\ e.win = w /\ e.type # "input"
      BY <1>2, <2>1 DEF MoveFocus, ServerEvent, FocusIn, IsReport
    <3>2. /\ events' \in Seq(ServerEvent)
          /\ \A f : IsComing(f) => IsComing(f)'
          /\ \A f : IsComing(f)' /\ f # e => IsComing(f)
          /\ ~NoReport' /\ EventTimes' /\ LatestReport'
      BY <3>1, <2>0, <1>t, EventSent
    <3>3. DeathsInv'
      <4>1. \A c : DestroyNotify(c) # e
        BY DEF FocusIn, DestroyNotify
      <4> HIDE DEF e
      <4> QED BY <3>2, <4>1 DEF DeathsInv, DestroyNotify
    <3>4. ReportsInv'
      BY <3>2, <2>0, <2>1 DEF ReportsInv
    <3>5. FocusIn(RootWindow) # e
      BY <2>1, WindowFacts DEF FocusIn
    <3>6. IsComing(FocusIn(RootWindow))' => IsComing(FocusIn(RootWindow))
      <4> HIDE DEF e
      <4>1. PICK f : f = FocusIn(RootWindow)
        OBVIOUS
      <4>2. IsComing(f)' => IsComing(f)
        BY <3>2, <3>5, <4>1
      <4> QED BY <4>1, <4>2 DEF FocusIn
    <3> QED BY <3>2, <3>3, <3>4, <3>6, <2>0, <1>2
  <2>2. CASE w = xfocus \/ w \notin Client
    <3>1. events' = events
      BY <1>2, <2>2 DEF MoveFocus
    <3>2. DeathsInv' /\ EventTimes' /\ (NoReport' => NoReport)
      BY <3>1, PartsKept
    <3>3. IsComing(FocusIn(RootWindow))' => IsComing(FocusIn(RootWindow))
      BY <3>1 DEF IsComing, FocusIn
    <3>4. ReportsInv'
      <4>1. CASE w = xfocus
        BY <4>1, <2>0, <3>1, PartsKept
      <4>2. CASE w \notin Client
        BY <4>2, <2>0 DEF ReportsInv, LatestReport
      <4> QED BY <4>1, <4>2, <2>2
    <3> QED BY <3>1, <3>2, <3>3, <3>4, <2>0, <2>2, <1>2, <1>t
  <2> QED BY <2>1, <2>2
<1> QED BY <1>1, <1>2 DEF ServeSetInputFocus

LEMMA RequestTimesServed ==
    ASSUME FocusTypeInv, RequestTimes, requests # <<>>, requests' = Tail(requests),
           UNCHANGED <<timestamp, disturbed>>,
           \A t \in taking' : t \in taking \/ (Head(requests).op # "destroy" /\ t[2] = Head(requests).time),
           xfocusTime' = xfocusTime \/ (Head(requests).op # "destroy" /\ xfocusTime' = Head(requests).time)
    PROVE  RequestTimes'
<1> DEFINE s == requests
           r == requests'
           h == Head(s)
<1>1. /\ Len(s) \in Nat /\ Len(s) >= 1 /\ Len(r) = Len(s) - 1
      /\ h \in FocusRequest /\ h = s[1]
      /\ \A i \in 1..Len(r) : i + 1 \in 1..Len(s) /\ r[i] = s[i + 1]
  BY FocusTail DEF FocusTypeInv
<1>2. h.op # "destroy" => h.time \in Nat /\ h.time <= timestamp
  BY <1>1, RequestShapes DEF FocusTypeInv
<1>3. 1 \in 1..Len(s)
  BY <1>1
<1> HIDE DEF s, r, h
<1>4. SUFFICES ASSUME "self" \notin disturbed PROVE RequestTimes'
  BY DEF RequestTimes
<1>5. /\ xfocusTime <= timestamp
      /\ \A u \in taking : u[2] <= timestamp
      /\ \A i \in 1..Len(s) : s[i].op # "destroy" =>
             /\ xfocusTime <= s[i].time
             /\ \A u \in taking : u[2] <= s[i].time
             /\ \A j \in 1..Len(s) : i < j /\ s[j].op # "destroy" => s[i].time <= s[j].time
  BY <1>4 DEF RequestTimes, s
<1>6. xfocusTime' <= timestamp /\ \A u \in taking' : u[2] <= timestamp
  BY <1>2, <1>5 DEF h, s
<1>7. ASSUME NEW i \in 1..Len(r), r[i].op # "destroy"
      PROVE  /\ xfocusTime' <= r[i].time
             /\ \A u \in taking' : u[2] <= r[i].time
             /\ \A j \in 1..Len(r) : i < j /\ r[j].op # "destroy" => r[i].time <= r[j].time
  <2>1. i + 1 \in 1..Len(s) /\ r[i] = s[i + 1] /\ 1 < i + 1 /\ i \in Nat
    BY <1>1
  <2>2. h.op # "destroy" => h.time <= r[i].time
    BY <2>1, <1>1, <1>3, <1>5, <1>7
  <2>3. xfocusTime <= r[i].time /\ \A u \in taking : u[2] <= r[i].time
    BY <2>1, <1>5, <1>7
  <2>4. ASSUME NEW j \in 1..Len(r), i < j, r[j].op # "destroy" PROVE r[i].time <= r[j].time
    <3>1. j + 1 \in 1..Len(s) /\ r[j] = s[j + 1] /\ i + 1 < j + 1
      BY <1>1, <2>1, <2>4
    <3> QED BY <3>1, <2>1, <1>5, <1>7, <2>4
  <2> QED BY <2>2, <2>3, <2>4 DEF h, s
<1> QED BY <1>4, <1>6, <1>7 DEF RequestTimes, r

LEMMA ServeFacts ==
    ASSUME FocusIInv, Serve
    PROVE  /\ Head(requests) \in FocusRequest /\ requests # <<>> /\ requests' = Tail(requests)
           /\ requests' \in Seq(FocusRequest)
           /\ \A w : IsAskedFor(w) /\ ~(IsWord(Head(requests)) /\ Head(requests).win = w) => IsAskedFor(w)'
           /\ \A c : IsToBeDestroyed(c) /\ Head(requests) # DestroyFrame(c) => IsToBeDestroyed(c)'
           /\ NoneIsDestroyed => NoneIsDestroyed' /\ Head(requests).op # "destroy"
           /\ UNCHANGED <<managed, focus, needUpdate, timestamp, dying, existing, now, wanted, changes, disturbed>>
           /\ Head(requests).op # "destroy" => xfocusTime <= Head(requests).time \/ "self" \in disturbed
<1>1. requests \in Seq(FocusRequest) /\ requests # <<>> /\ requests' = Tail(requests)
  BY DEF FocusIInv, FocusTypeInv, Serve
<1>2. UNCHANGED <<managed, focus, needUpdate, timestamp, dying, existing, now, wanted, changes, disturbed>>
  BY DEF Serve, awesomeVars, historyVars
<1>3. Head(requests) = requests[1] /\ 1 \in 1..Len(requests)
  BY <1>1, FocusTail
<1>4. Head(requests).op # "destroy" => xfocusTime <= Head(requests).time \/ "self" \in disturbed
  BY <1>3, FocusParts DEF RequestTimes
<1> QED BY <1>1, <1>2, <1>4, RequestServed

LEMMA ServeFocusKeeps ==
    ASSUME FocusIInv, Serve, Head(requests).op = "focus",
           ServeSetInputFocus(Head(requests).win, Head(requests).time), UNCHANGED taking
    PROVE  FocusIInv'
<1>0. FocusTypeInv /\ DeathsInv /\ FramesInv /\ ReportsInv /\ BelievedInv /\ EventTimes /\ RequestTimes /\ UndisturbedInv
  BY FocusParts
<1> DEFINE r == Head(requests)
           w == r.win
<1>r. /\ r \in FocusRequest /\ requests # <<>> /\ requests' = Tail(requests) /\ requests' \in Seq(FocusRequest)
      /\ \A v : IsAskedFor(v) /\ ~(IsWord(r) /\ w = v) => IsAskedFor(v)'
      /\ \A c : IsToBeDestroyed(c) /\ r # DestroyFrame(c) => IsToBeDestroyed(c)'
      /\ NoneIsDestroyed => NoneIsDestroyed' /\ r.op # "destroy"
      /\ r.op # "destroy" => xfocusTime <= r.time \/ "self" \in disturbed
  BY ServeFacts
<1>u. UNCHANGED <<managed, focus, needUpdate, timestamp, dying, existing, now, wanted, changes, disturbed>>
  BY ServeFacts
<1>w. IsWord(r) /\ w \in FocusTarget /\ r.time \in 0..timestamp /\ r.op = "focus"
  BY <1>r, <1>0, RequestShapes DEF IsWord, FocusTypeInv
<1>f. w \in Windows \ {RootWindow} /\ (\A c \in Client : w # Frame(c))
      /\ \A f \in Client \cup {None} : InputWindow(f) = w /\ w \in Client => f = w
  BY <1>w, WindowFacts DEF FocusTarget
<1>s. /\ xfocus' \in Windows /\ events' \in Seq(ServerEvent) /\ DeathsInv' /\ ReportsInv' /\ EventTimes'
      /\ IsComing(FocusIn(RootWindow))' => IsComing(FocusIn(RootWindow))
      /\ \/ ~WindowExists(w) /\ UNCHANGED <<xfocus, xfocusTime, events>>
         \/ ~(r.time >= xfocusTime) /\ UNCHANGED <<xfocus, xfocusTime, events>>
         \/ /\ WindowExists(w) /\ r.time >= xfocusTime /\ xfocus' = w /\ xfocusTime' = r.time
            /\ NoReport' => NoReport /\ (w = xfocus \/ w \notin Client \cup {RootWindow})
  BY <1>0, <1>f, <1>u, FocusServed
<1>l. xfocus' = w => \A v : LastWordIs(v) => LastWordIs(v)'
  BY <1>r, <1>w, <1>0, RequestServed DEF FocusTypeInv
<1>i. r.time \in Nat /\ xfocusTime \in Nat
  BY <1>w, <1>0 DEF FocusTypeInv
<1> HIDE DEF r, w
<1>1. FocusTypeInv'
  <2>1. FocusRequest' = FocusRequest /\ ServerEvent' = ServerEvent
    BY <1>u, SameShapes
  <2>2. xfocusTime' \in 0..now
    BY <1>0, <1>s, <1>w DEF FocusTypeInv
  <2> QED BY <1>0, <1>u, <1>r, <1>s, <2>1, <2>2 DEF FocusTypeInv
<1>2. FramesInv'
  <2>1. \A c : r # DestroyFrame(c)
    BY <1>w DEF DestroyFrame
  <2>2. \A c : IsToBeDestroyed(c) => IsToBeDestroyed(c)'
    BY <2>1, <1>r
  <2>3. xfocus' = xfocus \/ xfocus' = w
    BY <1>s
  <2> QED BY <2>2, <2>3, <1>0, <1>u, <1>f DEF FramesInv, IsToBeDestroyed, Frame, DestroyFrame
<1>3. BelievedInv'
  <2>1. SUFFICES ASSUME "self" \notin disturbed, ~needUpdate, NoReport', xfocus' \in Client \cup {RootWindow},
                        focus # xfocus', focus \notin managed \ existing
                 PROVE  IsAskedFor(InputWindow(focus))'
    BY <1>u DEF BelievedInv
  <2>2. PICK x : x = InputWindow(focus)
    OBVIOUS
  <2>3. NoReport /\ xfocus' = xfocus
    BY <2>1, <1>s, <1>i, PartsKept
  <2>4. IsAskedFor(x)
    BY <2>1, <2>2, <2>3, <1>0 DEF BelievedInv
  <2>5. x # w
    <3>1. SUFFICES ASSUME x = w PROVE FALSE
      OBVIOUS
    <3>2. WindowExists(w)
      BY <3>1, <2>1, <2>2, <1>0, WindowsThatExist
    <3>3. xfocus' = w
      BY <3>2, <1>s, <1>r, <1>w, <1>i, <2>1
    <3>4. w \in Client
      BY <3>3, <2>1, <1>f
    <3> QED BY <3>1, <3>3, <3>4, <2>1, <2>2, <1>f, <1>0 DEF FocusTypeInv
  <2>6. IsAskedFor(x)'
    BY <2>4, <2>5, <1>r
  <2> QED BY <2>2, <2>6, <1>u DEF InputWindow
<1>4. RequestTimes'
  <2>1. xfocusTime' = xfocusTime \/ (r.op # "destroy" /\ xfocusTime' = r.time)
    BY <1>s, <1>w
  <2> QED BY <2>1, <1>0, <1>r, <1>u, RequestTimesServed DEF r
<1>5. UndisturbedInv'
  <2>1. SUFFICES ASSUME disturbed = {} PROVE Calm' /\ (changes > 0 => Assigned') /\ changes # 0
    BY <1>u DEF UndisturbedInv, Calm, NothingYet, Assigned, NoneIsDestroyed
  <2>2. Calm /\ (changes = 0 => NothingYet) /\ (changes > 0 => Assigned) /\ changes \in Nat
    BY <1>0, <2>1, UndisturbedParts DEF FocusTypeInv
  <2>3. changes # 0
    BY <2>2, <1>r DEF NothingYet
  <2>4. WindowExists(w)
    BY <2>2, <1>w, WindowsThatExist DEF Calm, FocusTarget, InputWindow
  <2>5. xfocus' = w
    BY <2>1, <2>4, <1>s, <1>r, <1>w, <1>i
  <2>6. Calm'
    BY <2>2, <2>5, <1>u, <1>r, <1>s, <1>f DEF Calm, FocusIn
  <2>7. Assigned'
    <3>1. PICK x : x = InputWindow(wanted)
      OBVIOUS
    <3>2. ~needUpdate => LastWordIs(x)'
      BY <3>1, <2>2, <2>3, <2>5, <1>l DEF Assigned
    <3>3. ~needUpdate => LastWordIs(InputWindow(wanted))'
      BY <3>1, <3>2, <1>u DEF InputWindow
    <3> QED BY <3>3, <2>2, <2>3, <1>u DEF Assigned
  <2> QED BY <2>3, <2>6, <2>7
<1> QED BY <1>1, <1>2, <1>3, <1>4, <1>5, <1>s, FocusParts, PTL

LEMMA ServeTakeKeeps ==
    ASSUME FocusIInv, Serve, Head(requests).op = "take",
           taking' = (IF Head(requests).win \in existing
                      THEN taking \cup {<<Head(requests).win, Head(requests).time>>} ELSE taking),
           UNCHANGED <<xfocus, xfocusTime, events>>
    PROVE  FocusIInv'
<1>0. FocusTypeInv /\ DeathsInv /\ FramesInv /\ ReportsInv /\ BelievedInv /\ EventTimes /\ RequestTimes /\ UndisturbedInv
  BY FocusParts
<1> DEFINE r == Head(requests)
<1>r. /\ r \in FocusRequest /\ requests # <<>> /\ requests' = Tail(requests) /\ requests' \in Seq(FocusRequest)
      /\ \A v : IsAskedFor(v) /\ ~(IsWord(r) /\ r.win = v) => IsAskedFor(v)'
      /\ \A c : IsToBeDestroyed(c) /\ r # DestroyFrame(c) => IsToBeDestroyed(c)'
      /\ NoneIsDestroyed => NoneIsDestroyed' /\ r.op # "destroy"
  BY ServeFacts
<1>u. UNCHANGED <<managed, focus, needUpdate, timestamp, dying, existing, now, wanted, changes, disturbed>>
  BY ServeFacts
<1>w. ~IsWord(r) /\ r.win \in TakesFocus /\ r.time \in 0..timestamp /\ r.op # "destroy"
  BY <1>r, <1>0, RequestShapes DEF IsWord, FocusTypeInv
<1>l. \A v : LastWordIs(v) => LastWordIs(v)'
  BY <1>r, <1>w, <1>0, RequestServed DEF FocusTypeInv
<1>t. \A t \in taking' : t \in taking \/ t = <<r.win, r.time>>
  OBVIOUS
<1> HIDE DEF r
<1>1. FocusTypeInv'
  <2>1. FocusRequest' = FocusRequest /\ ServerEvent' = ServerEvent
    BY <1>u, SameShapes
  <2>2. r.time \in 0..now
    BY <1>0, <1>w DEF FocusTypeInv
  <2>3. <<r.win, r.time>> \in TakesFocus \X (0..now)
    BY <2>2, <1>w
  <2>4. taking' \subseteq TakesFocus \X (0..now)
    BY <2>3, <1>t, <1>0 DEF FocusTypeInv
  <2> QED BY <1>0, <1>u, <1>r, <2>1, <2>4 DEF FocusTypeInv
<1>2. FramesInv'
  <2>1. \A c : r # DestroyFrame(c)
    BY <1>w DEF DestroyFrame
  <2>2. \A c : IsToBeDestroyed(c) => IsToBeDestroyed(c)'
    BY <2>1, <1>r
  <2> QED BY <2>2, <1>0, <1>u DEF FramesInv, IsToBeDestroyed, Frame, DestroyFrame
<1>3. BelievedInv'
  <2>1. PICK x : x = InputWindow(focus)
    OBVIOUS
  <2>2. IsAskedFor(x) => IsAskedFor(x)'
    BY <1>r, <1>w
  <2>3. IsAskedFor(InputWindow(focus)) => IsAskedFor(InputWindow(focus))'
    BY <2>1, <2>2, <1>u DEF InputWindow
  <2> QED BY <2>3, <1>0, <1>u, PartsKept DEF BelievedInv
<1>4. RequestTimes'
  <2>1. \A t \in taking' : t \in taking \/ (r.op # "destroy" /\ t[2] = r.time)
    BY <1>t, <1>w
  <2> QED BY <2>1, <1>0, <1>r, <1>u, RequestTimesServed DEF r
<1>5. UndisturbedInv'
  <2>1. SUFFICES ASSUME disturbed = {} PROVE Calm' /\ (changes > 0 => Assigned') /\ changes # 0
    BY <1>u DEF UndisturbedInv, Calm, NothingYet, Assigned, NoneIsDestroyed
  <2>2. Calm /\ (changes = 0 => NothingYet) /\ (changes > 0 => Assigned) /\ changes \in Nat
    BY <1>0, <2>1, UndisturbedParts DEF FocusTypeInv
  <2>3. changes # 0
    BY <2>2, <1>r DEF NothingYet
  <2>6. Calm'
    BY <2>2, <1>u, <1>r, PartsKept DEF Calm, FocusIn
  <2>7. Assigned'
    <3>1. PICK x : x = InputWindow(wanted)
      OBVIOUS
    <3>2. ~needUpdate => LastWordIs(x)'
      BY <3>1, <2>2, <2>3, <1>l DEF Assigned
    <3>3. ~needUpdate => LastWordIs(InputWindow(wanted))'
      BY <3>1, <3>2, <1>u DEF InputWindow
    <3> QED BY <3>3, <2>2, <2>3, <1>u DEF Assigned
  <2> QED BY <2>3, <2>6, <2>7
<1>6. DeathsInv' /\ ReportsInv' /\ EventTimes'
  BY <1>0, <1>u, PartsKept
<1> QED BY <1>1, <1>2, <1>3, <1>4, <1>5, <1>6, FocusParts, PTL

LEMMA ServeDestroyKeeps ==
    ASSUME FocusIInv, Serve, Head(requests).op = "destroy",
           IF xfocus \in {Frame(Head(requests).win), NofocusWindow(Head(requests).win)}
           THEN MoveFocus(RootWindow, events) ELSE UNCHANGED <<xfocus, events>>,
           UNCHANGED <<xfocusTime, taking>>
    PROVE  FocusIInv'
<1>0. FocusTypeInv /\ DeathsInv /\ FramesInv /\ ReportsInv /\ BelievedInv /\ EventTimes /\ RequestTimes /\ UndisturbedInv
  BY FocusParts
<1> DEFINE r == Head(requests)
           c == r.win
           e == FocusIn(RootWindow)
<1>r. /\ r \in FocusRequest /\ requests # <<>> /\ requests' = Tail(requests) /\ requests' \in Seq(FocusRequest)
      /\ \A v : IsAskedFor(v) /\ ~(IsWord(r) /\ r.win = v) => IsAskedFor(v)'
      /\ \A d : IsToBeDestroyed(d) /\ r # DestroyFrame(d) => IsToBeDestroyed(d)'
      /\ NoneIsDestroyed => r.op # "destroy"
  BY ServeFacts
<1>u. UNCHANGED <<managed, focus, needUpdate, timestamp, dying, existing, now, wanted, changes, disturbed>>
  BY ServeFacts
<1>w. ~IsWord(r) /\ c \in Client /\ r.op = "destroy"
  BY <1>r, <1>0, RequestShapes DEF IsWord, FocusTypeInv
<1>c. \/ xfocus \in {Frame(c), NofocusWindow(c)} /\ xfocus' = RootWindow /\ events' = Append(events, e)
      \/ xfocus \notin {Frame(c), NofocusWindow(c)} /\ UNCHANGED <<xfocus, events>>
  BY <1>w DEF MoveFocus
<1>e. /\ e \in ServerEvent /\ IsReport(e) /\ e.win = RootWindow /\ e.type # "input"
      /\ events \in Seq(ServerEvent) /\ RootWindow \in Windows
  BY <1>0 DEF ServerEvent, FocusIn, IsReport, FocusTypeInv, Windows
<1>d. \A d : DestroyNotify(d) # e
  BY DEF DestroyNotify, FocusIn
<1> HIDE DEF r, c, e
<1>1. events' \in Seq(ServerEvent) /\ DeathsInv' /\ ReportsInv' /\ EventTimes' /\ xfocus' \in Windows
  <2>1. CASE xfocus' = RootWindow /\ events' = Append(events, e)
    <3>1. /\ events' \in Seq(ServerEvent)
          /\ \A f : IsComing(f) => IsComing(f)'
          /\ \A f : IsComing(f)' /\ f # e => IsComing(f)
          /\ EventTimes' /\ LatestReport'
      BY <2>1, <1>0, <1>e, EventSent
    <3>2. DeathsInv'
      BY <3>1, <1>0, <1>d, <1>u DEF DeathsInv, DestroyNotify
    <3>3. ReportsInv'
      BY <3>1, <2>1, WindowFacts DEF ReportsInv
    <3> QED BY <3>1, <3>2, <3>3, <2>1, <1>e
  <2>2. CASE UNCHANGED <<xfocus, events>>
    BY <2>2, <1>0, <1>e, <1>u, PartsKept DEF FocusTypeInv
  <2> QED BY <2>1, <2>2, <1>c
<1>2. FocusTypeInv'
  <2>1. FocusRequest' = FocusRequest /\ ServerEvent' = ServerEvent
    BY <1>u, SameShapes
  <2> QED BY <1>0, <1>u, <1>r, <1>1, <2>1 DEF FocusTypeInv
<1>3. FramesInv'
  <2>1. SUFFICES ASSUME NEW d \in Client, xfocus' = Frame(d)
                 PROVE  d \in managed \ existing \/ d \in dying \/ IsToBeDestroyed(d)'
    BY <1>u DEF FramesInv, IsToBeDestroyed, Frame, DestroyFrame
  <2>2. xfocus' = xfocus /\ xfocus # Frame(c)
    BY <2>1, <1>c, WindowFacts
  <2>3. r # DestroyFrame(d)
    <3>1. r = DestroyFrame(d) => c = d
      BY DEF DestroyFrame, c
    <3> QED BY <3>1, <2>1, <2>2
  <2> QED BY <2>1, <2>2, <2>3, <1>0, <1>r DEF FramesInv, IsToBeDestroyed
<1>4. BelievedInv'
  <2>1. CASE xfocus' = RootWindow /\ events' = Append(events, e)
    <3>1. ~NoReport'
      BY <2>1, <1>e, EventSent
    <3> QED BY <3>1 DEF BelievedInv
  <2>2. CASE UNCHANGED <<xfocus, events>>
    <3>1. PICK x : x = InputWindow(focus)
      OBVIOUS
    <3>2. IsAskedFor(x) => IsAskedFor(x)'
      BY <1>r, <1>w
    <3>3. IsAskedFor(InputWindow(focus)) => IsAskedFor(InputWindow(focus))'
      BY <3>1, <3>2, <1>u DEF InputWindow
    <3> QED BY <3>3, <2>2, <1>0, <1>u, PartsKept DEF BelievedInv
  <2> QED BY <2>1, <2>2, <1>c
<1>5. RequestTimes'
  BY <1>0, <1>r, <1>u, RequestTimesServed
<1>6. UndisturbedInv'
  BY <1>0, <1>r, <1>w, <1>u, UndisturbedParts DEF UndisturbedInv, Calm
<1> QED BY <1>1, <1>2, <1>3, <1>4, <1>5, <1>6, FocusParts, PTL

LEMMA ServeKeeps == ASSUME FocusIInv, Serve PROVE FocusIInv'
BY ServeFocusKeeps, ServeTakeKeeps, ServeDestroyKeeps DEF Serve

LEMMA AppTakesFocusKeeps == ASSUME FocusIInv, AppTakesFocus PROVE FocusIInv'
<1>0. FocusTypeInv /\ DeathsInv /\ FramesInv /\ ReportsInv /\ BelievedInv /\ EventTimes /\ RequestTimes /\ UndisturbedInv
  BY FocusParts
<1>1. PICK t \in taking : /\ taking' = taking \ {t} /\ ServeSetInputFocus(t[1], t[2])
                          /\ disturbed' = disturbed \cup {"take"}
                          /\ UNCHANGED <<managed, focus, needUpdate, timestamp, dying, requests, existing, now,
                                         wanted, changes>>
  BY DEF AppTakesFocus, awesomeVars
<1> DEFINE w == t[1]
<1>w. w \in Client /\ w \in Windows \ {RootWindow} /\ t[2] \in 0..now /\ t \in taking
  BY <1>1, <1>0, WindowFacts DEF FocusTypeInv, Windows
<1>s. /\ xfocus' \in Windows /\ events' \in Seq(ServerEvent) /\ DeathsInv' /\ ReportsInv' /\ EventTimes'
      /\ \/ UNCHANGED <<xfocus, xfocusTime, events>>
         \/ xfocus' = w /\ xfocusTime' = t[2] /\ (NoReport' => NoReport /\ w = xfocus)
  BY <1>0, <1>1, <1>w, FocusServed
<1> HIDE DEF w
<1>2. FocusTypeInv'
  <2>1. FocusRequest' = FocusRequest /\ ServerEvent' = ServerEvent
    BY <1>1, SameShapes
  <2>2. xfocusTime' \in 0..now
    BY <1>0, <1>s, <1>w DEF FocusTypeInv
  <2>3. taking' \subseteq TakesFocus \X (0..now)
    BY <1>0, <1>1 DEF FocusTypeInv
  <2> QED BY <1>0, <1>1, <1>s, <2>1, <2>2, <2>3 DEF FocusTypeInv
<1>3. FramesInv'
  <2>1. \A c \in Client : xfocus' = Frame(c) => xfocus = Frame(c)
    BY <1>s, <1>w, WindowFacts
  <2>2. \A c : IsToBeDestroyed(c) => IsToBeDestroyed(c)'
    BY <1>1, PartsKept
  <2> QED BY <2>1, <2>2, <1>0, <1>1 DEF FramesInv, IsToBeDestroyed, Frame, DestroyFrame
<1>4. BelievedInv'
  <2>1. NoReport' => NoReport /\ xfocus' = xfocus
    BY <1>s, PartsKept
  <2>2. PICK x : x = InputWindow(focus)
    OBVIOUS
  <2>3. IsAskedFor(x) => IsAskedFor(x)'
    BY <1>1, PartsKept
  <2>4. IsAskedFor(InputWindow(focus)) => IsAskedFor(InputWindow(focus))'
    BY <2>2, <2>3, <1>1 DEF InputWindow
  <2> QED BY <2>1, <2>4, <1>0, <1>1 DEF BelievedInv
<1>5. RequestTimes'
  <2>1. SUFFICES ASSUME "self" \notin disturbed PROVE RequestTimes'
    BY <1>1 DEF RequestTimes
  <2>2. xfocusTime' = xfocusTime \/ xfocusTime' = t[2]
    BY <1>s
  <2>3. \A u \in taking' : u \in taking
    BY <1>1
  <2> QED BY <2>1, <2>2, <2>3, <1>0, <1>1, <1>w DEF RequestTimes
<1>6. UndisturbedInv'
  BY <1>1 DEF UndisturbedInv
<1> QED BY <1>2, <1>3, <1>4, <1>5, <1>6, <1>s, FocusParts, PTL

LEMMA AppFocusesKeeps == ASSUME FocusIInv, NEW c \in Client, AppFocuses(c) PROVE FocusIInv'
<1>0. FocusTypeInv /\ DeathsInv /\ FramesInv /\ ReportsInv /\ BelievedInv /\ EventTimes /\ RequestTimes /\ UndisturbedInv
  BY FocusParts
<1>1. /\ ServeSetInputFocus(c, now) /\ disturbed' = disturbed \cup {"self"}
      /\ UNCHANGED <<managed, focus, needUpdate, timestamp, dying, requests, taking, existing, now, wanted, changes>>
  BY DEF AppFocuses, awesomeVars
<1>w. c \in Windows \ {RootWindow}
  BY WindowFacts DEF Windows
<1>s. /\ xfocus' \in Windows /\ events' \in Seq(ServerEvent) /\ DeathsInv' /\ ReportsInv' /\ EventTimes'
      /\ (xfocus' = xfocus \/ xfocus' = c) /\ (xfocusTime' = xfocusTime \/ xfocusTime' = now)
  BY <1>0, <1>1, <1>w, FocusServed
<1>2. FocusTypeInv'
  <2>1. FocusRequest' = FocusRequest /\ ServerEvent' = ServerEvent
    BY <1>1, SameShapes
  <2>2. xfocusTime' \in 0..now
    BY <1>0, <1>s DEF FocusTypeInv
  <2> QED BY <1>0, <1>1, <1>s, <2>1, <2>2 DEF FocusTypeInv
<1>3. FramesInv'
  <2>1. \A d \in Client : xfocus' = Frame(d) => xfocus = Frame(d)
    BY <1>s, WindowFacts
  <2>2. \A d : IsToBeDestroyed(d) => IsToBeDestroyed(d)'
    BY <1>1, PartsKept
  <2> QED BY <2>1, <2>2, <1>0, <1>1 DEF FramesInv, IsToBeDestroyed, Frame, DestroyFrame
<1>4. BelievedInv' /\ RequestTimes' /\ UndisturbedInv'
  BY <1>1 DEF BelievedInv, RequestTimes, UndisturbedInv
<1> QED BY <1>2, <1>3, <1>4, <1>s, FocusParts, PTL

LEMMA AppDestroysKeeps == ASSUME FocusIInv, NEW c \in Client, AppDestroys(c) PROVE FocusIInv'
<1>0. FocusTypeInv /\ DeathsInv /\ FramesInv /\ ReportsInv /\ BelievedInv /\ EventTimes /\ RequestTimes /\ UndisturbedInv
  BY FocusParts
<1> DEFINE e == DestroyNotify(c)
<1>1. /\ c \in existing /\ existing' = existing \ {c} /\ events' = Append(events, e)
      /\ xfocus' = (IF xfocus = c THEN Frame(c) ELSE xfocus)
      /\ taking' = {t \in taking : t[1] # c} /\ disturbed' = disturbed \cup {"death"}
      /\ UNCHANGED <<managed, focus, needUpdate, timestamp, dying, requests, xfocusTime, now, wanted, changes>>
  BY DEF AppDestroys, awesomeVars
<1>e. e \in ServerEvent /\ ~IsReport(e) /\ e.type # "input" /\ events \in Seq(ServerEvent)
  BY <1>0 DEF ServerEvent, DestroyNotify, IsReport, FocusTypeInv
<1>s. /\ events' \in Seq(ServerEvent)
      /\ \A f : IsComing(f) => IsComing(f)'
      /\ \A f : IsComing(f)' /\ f # e => IsComing(f)
      /\ IsComing(e)' /\ EventTimes'
      /\ NoReport' => NoReport
      /\ xfocus' = xfocus => LatestReport'
  BY <1>0, <1>1, <1>e, EventSent DEF ReportsInv
<1>d. \A d : d # c => DestroyNotify(d) # e
  BY DEF DestroyNotify
<1>x. xfocus = c \/ xfocus' = xfocus
  BY <1>1
<1>2. FocusTypeInv'
  <2>1. FocusRequest' = FocusRequest /\ ServerEvent' = ServerEvent
    BY <1>1, SameShapes
  <2>2. xfocus' \in Windows
    BY <1>0, <1>1 DEF FocusTypeInv, Windows
  <2>3. taking' \subseteq TakesFocus \X (0..now)
    BY <1>0, <1>1 DEF FocusTypeInv
  <2> QED BY <1>0, <1>1, <1>s, <2>1, <2>2, <2>3 DEF FocusTypeInv
<1> HIDE DEF e
<1>3. DeathsInv'
  <2>1. ASSUME NEW d \in existing' PROVE ~IsComing(DestroyNotify(d))'
    <3>1. d # c /\ d \in existing
      BY <1>1
    <3>2. PICK f : f = DestroyNotify(d)
      OBVIOUS
    <3>3. ~IsComing(f)'
      BY <3>1, <3>2, <1>0, <1>d, <1>s DEF DeathsInv
    <3> QED BY <3>2, <3>3 DEF DestroyNotify
  <2>2. ASSUME NEW d \in managed' \ existing' PROVE IsComing(DestroyNotify(d))'
    <3>1. PICK f : f = DestroyNotify(d)
      OBVIOUS
    <3>2. IsComing(f)'
      <4>1. CASE d = c
        BY <4>1, <3>1, <1>s DEF e
      <4>2. CASE d # c
        BY <4>2, <3>1, <1>0, <1>1, <1>s DEF DeathsInv
      <4> QED BY <4>1, <4>2
    <3> QED BY <3>1, <3>2 DEF DestroyNotify
  <2> QED BY <2>1, <2>2 DEF DeathsInv
<1>4. FramesInv'
  <2>1. SUFFICES ASSUME NEW d \in Client, xfocus' = Frame(d)
                 PROVE  d \in managed \ existing' \/ d \in dying \/ IsToBeDestroyed(d)'
    BY <1>1 DEF FramesInv, IsToBeDestroyed, Frame, DestroyFrame
  <2>2. CASE xfocus = c
    <3>1. Frame(c) = Frame(d)
      BY <2>1, <2>2, <1>1
    <3>2. c = d
      BY <3>1 DEF Frame
    <3> QED BY <3>2, <1>0, <1>1 DEF FocusTypeInv
  <2>3. CASE xfocus' = xfocus
    <3>1. d \in managed \ existing \/ d \in dying \/ IsToBeDestroyed(d)
      BY <2>1, <2>3, <1>0 DEF FramesInv, IsToBeDestroyed
    <3>2. IsToBeDestroyed(d) => IsToBeDestroyed(d)'
      BY <1>1, PartsKept
    <3> QED BY <3>1, <3>2, <1>1
  <2> QED BY <2>2, <2>3, <1>x
<1>5. ReportsInv'
  <2>1. CASE xfocus = c
    <3>1. xfocus' \notin Client \cup {RootWindow}
      BY <2>1, <1>1, WindowFacts
    <3> QED BY <3>1 DEF ReportsInv, LatestReport
  <2>2. CASE xfocus # c
    BY <2>2, <1>0, <1>1, <1>s DEF ReportsInv
  <2> QED BY <2>1, <2>2
<1>6. BelievedInv'
  <2>1. xfocus' \in Client \cup {RootWindow} => xfocus' = xfocus
    BY <1>1, WindowFacts
  <2>2. PICK x : x = InputWindow(focus)
    OBVIOUS
  <2>3. IsAskedFor(x) => IsAskedFor(x)'
    BY <1>1, PartsKept
  <2>4. IsAskedFor(InputWindow(focus)) => IsAskedFor(InputWindow(focus))'
    BY <2>2, <2>3, <1>1 DEF InputWindow
  <2> QED BY <2>1, <2>4, <1>0, <1>1, <1>s DEF BelievedInv
<1>7. RequestTimes'
  <2>1. \A t \in taking' : t \in taking
    BY <1>1
  <2>2. "self" \notin disturbed' => "self" \notin disturbed
    BY <1>1
  <2> QED BY <2>1, <2>2, <1>0, <1>1 DEF RequestTimes
<1>8. UndisturbedInv'
  BY <1>1 DEF UndisturbedInv
<1> QED BY <1>2, <1>3, <1>4, <1>5, <1>6, <1>7, <1>8, <1>s, FocusParts, PTL

LEMMA UserInputKeeps == ASSUME FocusIInv, NEW told \in BOOLEAN, UserInput(told) PROVE FocusIInv'
<1>0. FocusTypeInv /\ DeathsInv /\ FramesInv /\ ReportsInv /\ BelievedInv /\ EventTimes /\ RequestTimes /\ UndisturbedInv
  BY FocusParts
<1> DEFINE e == Input(now + 1)
<1>1. /\ now' = now + 1 /\ (events' = Append(events, e) \/ events' = events)
      /\ UNCHANGED <<managed, focus, needUpdate, timestamp, dying, requests, taking, existing, xfocus, xfocusTime,
                     wanted, changes, disturbed>>
  BY DEF UserInput, awesomeVars, historyVars
<1>n. timestamp \in Nat /\ now \in Nat /\ timestamp <= now /\ now + 1 \in timestamp..now'
  BY <1>0, <1>1 DEF FocusTypeInv
<1>e. e \in ServerEvent' /\ ~IsReport(e) /\ e.time = now + 1
      /\ (\A d : e # DestroyNotify(d)) /\ (\A w : e # FocusIn(w))
  BY <1>1, <1>n DEF ServerEvent, Input, IsReport, DestroyNotify, FocusIn
<1>t. /\ events \in Seq(ServerEvent')
      /\ \A i \in 1..Len(events) : events[i].type = "input" => events[i].time <= now + 1
  <2>1. events \in Seq(ServerEvent)
    BY <1>0 DEF FocusTypeInv
  <2>2. timestamp..now \subseteq timestamp'..now'
    BY <1>1, <1>n
  <2>3. ServerEvent \subseteq ServerEvent'
    BY <2>2 DEF ServerEvent
  <2>4. events \in Seq(ServerEvent')
    BY <2>1, <2>3, SeqMonotonic
  <2>5. ASSUME NEW i \in 1..Len(events), events[i].type = "input" PROVE events[i].time <= now + 1
    <3>1. events[i] \in ServerEvent
      BY <2>1, ElementOfSeq
    <3>2. events[i].time \in timestamp..now
      BY <3>1, <2>5, EventShapes
    <3> QED BY <3>2, <1>n
  <2> QED BY <2>4, <2>5
<1>s. /\ events' \in Seq(ServerEvent')
      /\ \A f : f # e => (IsComing(f)' <=> IsComing(f))
      /\ EventTimes' /\ LatestReport' /\ (NoReport' <=> NoReport)
  <2>1. CASE events' = Append(events, e)
    <3> HIDE DEF e
    <3> QED BY <2>1, <1>0, <1>1, <1>e, <1>t, EventSent DEF ReportsInv
  <2>2. CASE events' = events
    <3>1. ReportsInv'
      BY <2>2, <1>0, <1>1, PartsKept
    <3> QED BY <3>1, <2>2, <1>0, <1>t, PartsKept DEF ReportsInv
  <2> QED BY <2>1, <2>2, <1>1
<1> HIDE DEF e
<1>2. FocusTypeInv'
  <2>1. FocusRequest' = FocusRequest
    BY <1>1, SameShapes
  <2>2. taking \subseteq TakesFocus \X (0..now') /\ xfocusTime \in 0..now' /\ timestamp <= now' /\ now' \in Nat
    <3>1. 0..now \subseteq 0..now'
      BY <1>1, <1>n
    <3> QED BY <3>1, <1>0, <1>1, <1>n DEF FocusTypeInv
  <2> QED BY <1>0, <1>1, <1>s, <2>1, <2>2 DEF FocusTypeInv
<1>3. DeathsInv'
  BY <1>0, <1>1, <1>s, <1>e DEF DeathsInv, DestroyNotify
<1>4. FramesInv' /\ RequestTimes'
  BY <1>0, <1>1, PartsKept
<1>5. ReportsInv'
  BY <1>0, <1>1, <1>s DEF ReportsInv
<1>6. BelievedInv'
  BY <1>0, <1>1, <1>s, PartsKept DEF BelievedInv, InputWindow
<1>7. UndisturbedInv'
  <2>1. SUFFICES ASSUME disturbed = {} PROVE Calm' /\ (changes = 0 => NothingYet') /\ (changes > 0 => Assigned')
    BY <1>1 DEF UndisturbedInv, Calm, NothingYet, Assigned, NoneIsDestroyed
  <2>2. Calm /\ (changes = 0 => NothingYet) /\ (changes > 0 => Assigned)
    BY <1>0, <2>1, UndisturbedParts
  <2>3. Calm'
    BY <2>2, <1>1, <1>s, <1>e, PartsKept DEF Calm, FocusIn
  <2>4. changes = 0 => NothingYet'
    BY <2>2, <1>1, <1>s DEF NothingYet
  <2>5. changes > 0 => Assigned'
    BY <2>2, <1>1, PartsKept DEF Assigned, InputWindow
  <2> QED BY <2>3, <2>4, <2>5
<1> QED BY <1>2, <1>3, <1>4, <1>5, <1>6, <1>7, <1>s, FocusParts, PTL

LEMMA FocusStart == Init => FocusIInv
<1> SUFFICES ASSUME Init PROVE FocusIInv
  OBVIOUS
<1> USE DEF Init
<1>1. requests = <<>> /\ events = <<>> /\ Len(requests) = 0 /\ Len(events) = 0
  BY EmptySeq
<1>2. FocusTypeInv
  <2>1. requests \in Seq(FocusRequest) /\ events \in Seq(ServerEvent)
    BY <1>1
  <2>2. xfocus \in Windows /\ IsFiniteSet(dying)
    BY FS_EmptySet DEF Windows
  <2>3. timestamp = 0 /\ now = 0 /\ xfocusTime = 0 /\ changes = 0 /\ taking = {} /\ dying = {} /\ disturbed = {}
        /\ managed = Client /\ existing = Client /\ focus = None /\ needUpdate = FALSE
    OBVIOUS
  <2>4. timestamp \in Nat /\ now \in Nat /\ timestamp <= now /\ changes \in Nat /\ xfocusTime \in 0..now
    BY <2>3
  <2> HIDE DEF Init
  <2> QED BY <2>1, <2>2, <2>3, <2>4, Zenon DEF FocusTypeInv
<1>3. (\A e : ~IsComing(e)) /\ NoReport /\ NoneIsDestroyed
  BY <1>1 DEF IsComing, NoReport, NoneIsDestroyed
<1>4. DeathsInv /\ FramesInv /\ ReportsInv /\ BelievedInv /\ EventTimes
  <2>1. xfocus \notin Client \cup {RootWindow} /\ \A c \in Client : xfocus # Frame(c)
    OBVIOUS
  <2> QED BY <1>1, <1>3, <2>1 DEF DeathsInv, FramesInv, ReportsInv, LatestReport, BelievedInv, EventTimes
<1>5. RequestTimes
  BY <1>1 DEF RequestTimes
<1>6. UndisturbedInv
  BY <1>1, <1>3 DEF UndisturbedInv, NoneIsDestroyed
<1> QED BY <1>2, <1>4, <1>5, <1>6, FocusParts

LEMMA FocusStep == FocusIInv /\ [Next]_vars => FocusIInv'
<1> SUFFICES ASSUME FocusIInv, [Next]_vars PROVE FocusIInv'
  OBVIOUS
<1>1. CASE UNCHANGED vars
  <2>1. UNCHANGED <<managed, focus, needUpdate, timestamp, dying, requests, events, taking, existing, xfocus, xfocusTime,
                    now, wanted, changes, disturbed>>
    BY <1>1 DEF vars, awesomeVars, serverVars, historyVars
  <2>2. FocusRequest' = FocusRequest /\ ServerEvent' = ServerEvent
    BY <2>1, SameShapes
  <2> QED BY <2>1, <2>2 DEF FocusIInv, FocusTypeInv, DeathsInv, FramesInv, ReportsInv, LatestReport, BelievedInv, NoReport, IsReport,
             IsAskedFor, IsWord, IsComing, InputWindow, TimesInv, UndisturbedInv, LastWordIs
<1>2. CASE Next
  BY <1>2, ClientFocusKeeps, AppFocusesKeeps, AppDestroysKeeps, ClientUnfocusKeeps, HandleFocusInKeeps,
     HandleDestroyNotifyKeeps, HandleInputKeeps, FocusRefreshKeeps, ServeKeeps, AppTakesFocusKeeps, UserInputKeeps
     DEF Next, HandleEvent
<1> QED BY <1>1, <1>2

LEMMA FocusSettles == FocusIInv => FocusInv
<1> SUFFICES ASSUME FocusIInv PROVE FocusInv
  OBVIOUS
<1>0. FocusTypeInv /\ DeathsInv /\ FramesInv /\ ReportsInv /\ BelievedInv /\ UndisturbedInv
  BY FocusParts
<1>1. TypeOK
  <2>1. timestamp \in 0..now /\ 0..timestamp \subseteq 0..now /\ 0 \in 0..now /\ timestamp..now \subseteq 0..now
    BY <1>0 DEF FocusTypeInv
  <2>2. FocusTarget \subseteq Windows /\ Client \subseteq Windows /\ RootWindow \in Windows
    BY WindowFacts DEF FocusTarget, Windows
  <2>3. FocusRequest \subseteq [op : {"focus", "take", "destroy"}, win : Windows, time : 0..now]
    BY <2>1, <2>2 DEF FocusRequest, DestroyFrame
  <2>4. ServerEvent \subseteq [type : {"focusin", "destroyed", "input"}, win : Windows, time : 0..now]
    BY <2>1, <2>2 DEF ServerEvent, FocusIn, DestroyNotify, Input
  <2> DEFINE R == [op : {"focus", "take", "destroy"}, win : Windows, time : 0..now]
             E == [type : {"focusin", "destroyed", "input"}, win : Windows, time : 0..now]
  <2>5. requests \in Seq(FocusRequest) /\ events \in Seq(ServerEvent)
    BY <1>0 DEF FocusTypeInv
  <2>6. FocusRequest \subseteq R /\ ServerEvent \subseteq E
    BY <2>3, <2>4
  <2> HIDE DEF R, E
  <2>7. requests \in Seq(R) /\ events \in Seq(E)
    BY <2>5, <2>6, SeqMonotonic
  <2> USE DEF R, E
  <2> QED BY <1>0, <2>1, <2>7 DEF FocusTypeInv, TypeOK
<1>2. SUFFICES ASSUME Quiet PROVE LastAssignmentWins /\ FocusIsKnown /\ FocusLeavesTheDead
  BY <1>1 DEF FocusInv, LastAssignmentWins, FocusIsKnown, FocusLeavesTheDead
<1>3. Len(requests) = 0 /\ Len(events) = 0 /\ ~needUpdate /\ dying = {}
  BY <1>2, EmptySeq DEF Quiet
<1>4. (\A e : ~IsComing(e)) /\ NoReport /\ (\A w : ~IsAskedFor(w)) /\ \A c : ~IsToBeDestroyed(c)
  BY <1>3 DEF IsComing, NoReport, IsAskedFor, IsToBeDestroyed
<1>5. managed = existing
  BY <1>0, <1>4 DEF DeathsInv, FocusTypeInv
<1>6. "self" \notin disturbed /\ xfocus \in Client \cup {RootWindow} => focus = xfocus
  BY <1>0, <1>3, <1>4, <1>5 DEF BelievedInv
<1>7. FocusIsKnown
  BY <1>0, <1>6 DEF FocusIsKnown, FocusTypeInv
<1>8. FocusLeavesTheDead
  <2>1. focus \in existing \cup {None} /\ focus # RootWindow
    BY <1>0, <1>5, WindowFacts DEF FocusTypeInv
  <2>2. \A c \in Client : xfocus # Frame(c)
    BY <1>0, <1>3, <1>4, <1>5, FramesByRequests
  <2> QED BY <2>1, <2>2, <1>6 DEF FocusLeavesTheDead
<1>9. LastAssignmentWins
  <2>1. SUFFICES ASSUME disturbed = {}, changes > 0
                 PROVE  xfocus = InputWindow(wanted) /\ (wanted \notin NoInput => focus = wanted)
    BY DEF LastAssignmentWins
  <2>2. Assigned
    BY <1>0, <2>1, UndisturbedParts
  <2>3. xfocus = InputWindow(wanted)
    BY <2>2, <1>3 DEF Assigned, LastWordIs
  <2>4. wanted \notin NoInput => xfocus = wanted /\ wanted \in Client
    BY <2>2, <2>3, WindowFacts DEF Assigned, InputWindow
  <2> QED BY <2>1, <2>3, <2>4, <1>6
<1> QED BY <1>7, <1>8, <1>9

\* However the queues are filled, and whoever dies, takes the focus when asked, or lets Lua
\* code assign it: once the queues are empty, the last undisturbed assignment has won,
\* awesome knows which client has the focus, and no dead client keeps it.
THEOREM FocusIsSettled == Spec => []FocusInv
<1> QED BY FocusStart, FocusStep, FocusSettles, PTL DEF Spec
=============================================================================

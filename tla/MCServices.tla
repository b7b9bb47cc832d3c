------------------------------ MODULE MCServices ------------------------------
(***************************************************************************)
(* Model checking of what awesome does with other programs and with Lua    *)
(* code.  As in MCWindows a behaviour is about one component, its part, and*)
(* the others stay in one of their initial states.                         *)
(***************************************************************************)
EXTENDS SelectionOwner, Spawn, Dbus, Objects, MCOptions

VARIABLE part      \* the component that a behaviour is about

otherThanOwnership == <<part, spawnVars, dbusVars, objectsVars, optionsVars>>
otherThanSpawn     == <<part, ownershipVars, dbusVars, objectsVars, optionsVars>>
otherThanDbus      == <<part, ownershipVars, spawnVars, objectsVars, optionsVars>>
otherThanObjects   == <<part, ownershipVars, spawnVars, dbusVars, optionsVars>>
otherThanOptions   == <<part, ownershipVars, spawnVars, dbusVars, objectsVars>>

ServicesInit ==
    /\ part \in {"ownership", "spawn", "D-Bus", "objects", "options"}
    /\ OwnershipInit /\ SpawnInit /\ DbusInit /\ ObjectsInit /\ OptionsInit
    /\ part # "options" => configs = <<[text |-> Marker \o <<"nl">>, runs |-> TRUE]>>

ServicesNext ==
    \/ part = "ownership" /\ OwnershipNext /\ UNCHANGED otherThanOwnership
    \/ part = "spawn" /\ SpawnNext /\ UNCHANGED otherThanSpawn
    \/ part = "D-Bus" /\ DbusNext /\ UNCHANGED otherThanDbus
    \/ part = "objects" /\ ObjectsNext /\ UNCHANGED otherThanObjects
    \/ part = "options" /\ OptionsNext /\ UNCHANGED otherThanOptions

ServicesSpec == ServicesInit /\ [][ServicesNext]_<<ownershipVars, otherThanOwnership>>

-----------------------------------------------------------------------------
(* Objects: one of the signals announces connections.                      *)

MCAnnounced == [s \in {"x"} |-> "x::connected"]

-----------------------------------------------------------------------------
(* D-Bus: values of every kind, nested twice.                              *)

Text(x) == [str |-> x]
Table(s) == [tab |-> {<<[num |-> i], s[i]>> : i \in DOMAIN s}]

Basic(v) == [kind |-> "basic", lua |-> v]
String(x) == Basic(Text(x))
Unknown == [kind |-> "unknown"]
Descriptors == [kind |-> "descriptors"]
Entry(x, value) == [kind |-> "entry", key |-> String(x), value |-> value]
Pair(x, v) == [kind |-> "struct", items |-> <<String(x), v>>]
Dictionaries(S) ==
    {[kind |-> "dict", items |-> e] :
        e \in {<<>>} \cup {<<Entry("k", v)>> : v \in S} \cup {<<Entry("k", v), Entry("l", w)>> : v, w \in S}}
UpToTwo(S) == {<<>>} \cup {<<v>> : v \in S} \cup {<<v, w>> : v, w \in S}
Over(S) == {[kind |-> "variant", of |-> v] : v \in S}
      \cup {[kind |-> "struct", items |-> s] : s \in UpToTwo(S) \ {<<>>}}
      \cup {[kind |-> "array", items |-> s] : s \in UpToTwo(S)}
      \cup Dictionaries(S)

Flat == {String("k"), Basic([num |-> 1]), Basic([bool |-> FALSE]), Unknown,
         [kind |-> "fixed", items |-> <<>>], [kind |-> "fixed", items |-> <<[num |-> 1], [num |-> 2]>>]}
Nested == {[kind |-> "array", items |-> <<String("l")>>], Pair("l", String("k")),
           [kind |-> "dict", items |-> <<Entry("k", String("k")), Entry("l", String("l"))>>]}

\* Dictionaries with a key that is not converted, by themselves and inside of others.
UnknownKeys ==
    LET entry == [kind |-> "entry", key |-> Unknown, value |-> String("k")]
        dicts == {[kind |-> "dict", items |-> e] :
                     e \in {<<entry>>, <<Entry("k", String("l")), entry>>, <<entry, Entry("k", Unknown)>>}}
    IN  dicts \cup {Pair("k", d) : d \in dicts} \cup {[kind |-> "dict", items |-> <<Entry("l", d)>>] : d \in dicts}

\* An array of descriptors, by itself and inside of others.
WithDescriptors ==
    {Descriptors, Pair("k", Descriptors), [kind |-> "variant", of |-> Descriptors],
     [kind |-> "array", items |-> <<Descriptors>>],
     [kind |-> "dict", items |-> <<Entry("k", Descriptors)>>],
     [kind |-> "dict", items |-> <<Entry("k", Descriptors), Entry("l", String("k"))>>]}

MCBody == {<<>>} \cup {<<v>> : v \in Flat \cup Over({String("k"), Unknown}) \cup Over(Nested)}
     \cup {<<v, w>> : v, w \in {Unknown} \cup Dictionaries({Unknown})}
     \cup {<<v>> : v \in UnknownKeys \cup WithDescriptors}
     \cup {<<String("l"), v>> : v \in UnknownKeys \cup WithDescriptors}
     \cup {<<v, String("l")>> : v \in UnknownKeys \cup WithDescriptors}

\* What handlers return: types, each followed by a value that has it or not.
TypedValue ==
    {<<Text("s"), Text("k")>>, <<Text("s"), [num |-> 1]>>, <<Text("s"), Text(InvalidText)>>,
     <<Text("b"), Null>>, <<Text("b"), Text("")>>, <<Text("d"), Text("2")>>, <<Text("d"), Table(<<>>)>>,
     <<Text("?"), Text("k")>>, <<Text(""), Text("k")>>, <<[num |-> 1], Text("k")>>, <<Null, Text("k")>>,
     <<Text("a"), Table(<<>>)>>, <<Text("a"), Null>>, <<Text("a"), Text("k")>>,
     <<Text("a"), Table(<<Text("s"), Text("k"), Text("b"), [bool |-> FALSE]>>)>>,
     <<Text("a"), Table(<<Text("s")>>)>>,
     <<Text("a"), Table(<<Text("s"), Text("k"), Text("s"), Table(<<>>)>>)>>,
     <<Text("a"), Table(<<Text("a"), Table(<<Text("s"), Text("k")>>), Text("a"), Text("")>>)>>}
MCResult == {<<>>, <<Text("s")>>} \cup TypedValue
       \cup {<<Text("a"), Table(<<Text("d"), [num |-> 1]>>)>> \o v : v \in TypedValue}
=============================================================================

---------------------------- MODULE Objects ----------------------------
(***************************************************************************)
(* Lua objects, their references and their signals (common/luaobject.c,   *)
(* common/luaclass.c, common/signal.h).                                    *)
(*                                                                         *)
(* The C structures keep plain pointers to Lua values: the functions       *)
(* connected to a signal, the keys or buttons of an object, the objects C  *)
(* itself holds.  Lua's collector does not see them; each pointer is       *)
(* backed by an entry of a Lua table with a count (incref and decref): the *)
(* environment table of the object that points, or the registry.  Handlers *)
(* of a signal run while the emission goes on and may do all of this       *)
(* again.                                                                  *)
(***************************************************************************)
EXTENDS Naturals, Sequences, FiniteSets, SequencesExt, Functions

CONSTANTS Obj,             \* addresses of objects of the class
          Func,            \* addresses of Lua functions
          Signal,          \* signal names; "new" is one of them
          Announced,       \* signal |-> its "::connected" signal, for those that have
                           \* handlers
          Class,           \* the class, which has handlers of its own
          Nil,             \* Lua's nil
          MaxObjectCalls,  \* bound on what Lua code and C do
          MaxEmissions     \* bound on emissions inside one another

ASSUME ObjectsAssumption ==
    /\ Obj \cap Func = {} /\ Nil \notin Obj \cup Func /\ Class \notin Obj
    /\ "new" \in Signal /\ DOMAIN Announced \subseteq Signal
    /\ \A s \in DOMAIN Announced : Announced[s] \in Signal
    /\ MaxObjectCalls \in Nat /\ MaxEmissions \in Nat

VARIABLES alive,      \* objects and functions that the collector has left
          checked,    \* objects the checker of the class accepts
          held,       \* objects and functions in variables of Lua code
          count,      \* table |-> pointer |-> the number of references
          handlers,   \* object or class |-> signal |-> its functions, in order
          items,      \* object |-> the keys or buttons it points to
          managed,    \* objects that C points to
          emissions,  \* running emissions, the innermost first
          objectCalls \* what Lua code and C did so far

objectsVars == <<alive, checked, held, count, handlers, items, managed,
                 emissions, objectCalls>>

Value == Obj \cup Func
Owner == Obj \cup {Class}       \* the table of Class is the registry
NoHandlers == [s \in Signal |-> <<>>]

ObjectsTypeOK ==
    /\ alive \subseteq Value
    /\ checked \subseteq Obj
    /\ held \subseteq Value
    /\ count \in [Owner -> [Value -> Nat]]
    /\ DOMAIN handlers = Owner
    /\ \A w \in Owner, s \in Signal : Range(handlers[w][s]) \subseteq Func
    /\ \A o \in Obj : Range(items[o]) \subseteq Obj
    /\ managed \subseteq Obj
    /\ \A i \in DOMAIN emissions :
          /\ emissions[i].self \in Obj \cup {Nil}
          /\ Range(emissions[i].due) \subseteq Func \cup {Nil}
    /\ objectCalls \in 0..MaxObjectCalls

ObjectsInit ==
    /\ alive = {} /\ checked = {} /\ held = {} /\ managed = {}
    /\ count = [w \in Owner |-> [v \in Value |-> 0]]
    /\ handlers = [w \in Owner |-> NoHandlers]
    /\ items = [o \in Obj |-> <<>>]
    /\ emissions = <<>>
    /\ objectCalls = 0

(***************************************************************************)
(* References.                                                             *)
(***************************************************************************)
IncRef(n, w, v) == [n EXCEPT ![w][v] = @ + 1]

\* luaA_object_decref: a pointer without references is only warned about.
DecRef(n, w, v) == [n EXCEPT ![w][v] = IF @ > 0 THEN @ - 1 ELSE 0]

\* The same for every element of a list.
Times(vs, v) == Cardinality({i \in DOMAIN vs : vs[i] = v})
IncRefs(n, w, vs) == [n EXCEPT ![w] = [v \in Value |-> @[v] + Times(vs, v)]]
DecRefs(n, w, vs) == [n EXCEPT ![w] = [v \in Value |-> IF @[v] > Times(vs, v) THEN @[v] - Times(vs, v) ELSE 0]]

\* What a lookup in the table finds: the value, or nil if it has no entry.
Pushed(n, w, vs) == [i \in DOMAIN vs |-> IF n[w][vs[i]] > 0 THEN vs[i] ELSE Nil]

(***************************************************************************)
(* The collector.  Roots are the variables of Lua code, the Lua stack and  *)
(* the registry; an object leads to what its environment table holds.      *)
(***************************************************************************)
OnStack ==
    UNION {Range(emissions[i].due) \cup {emissions[i].self}
              \cup {emissions[i].connecting[2]} : i \in DOMAIN emissions}

Roots == (held \cup OnStack \cup {v \in Value : count[Class][v] > 0}) \ {Nil}
LeadsOn(S) == \E o \in S \cap Obj, v \in Value \ S : count[o][v] > 0
Marked == LET closed == {S \in SUBSET Value : Roots \subseteq S /\ ~LeadsOn(S)}
          IN  {v \in Value : \A S \in closed : v \in S}

\* A collection; luaA_class_gc wipes the signals of the objects it ends and
\* takes their metatable, and with it their class, away.
Collect ==
    /\ ~(alive \subseteq Marked)
    /\ alive' = alive \cap Marked
    /\ LET gone == Obj \ Marked IN
         /\ checked' = checked \ gone
         /\ handlers' = [w \in Owner |-> IF w \in gone THEN NoHandlers ELSE handlers[w]]
         /\ items' = [o \in Obj |-> IF o \in gone THEN <<>> ELSE items[o]]
         /\ count' = [w \in Owner |->
                        IF w \in gone THEN [v \in Value |-> 0] ELSE count[w]]
    /\ UNCHANGED <<held, managed, emissions, objectCalls>>

(***************************************************************************)
(* Signals.                                                                *)
(***************************************************************************)
\* An emission: the functions it still has to call, whether the handlers of
\* the class come next, and the function a class connection announces.
Emission(o, s, due, classNext, connecting) ==
    [self |-> o, signal |-> s, due |-> due, classNext |-> classNext,
     connecting |-> connecting]

NotConnecting == <<Nil, Nil>>

Begin(e) ==
    /\ Len(emissions) < MaxEmissions
    /\ emissions' = <<e>> \o emissions

\* Lua code runs on its own or as the handler that an emission called last.
LuaCode(n) == objectCalls + n <= MaxObjectCalls /\ objectCalls' = objectCalls + n

\* The checker; a collected object has no class any more.
Usable(o) == o \in alive \cap checked

\* The constructor of the class, up to the "new" signal of the class.
NewObject(o) ==
    /\ o \notin alive
    /\ LuaCode(1)
    /\ alive' = alive \cup {o}
    /\ checked' = checked \cup {o}
    /\ held' = held \cup {o}
    /\ Begin(Emission(o, "new", Pushed(count, Class, handlers[Class]["new"]),
                      FALSE, NotConnecting))
    /\ UNCHANGED <<count, handlers, items, managed>>

\* A function appears in Lua code.
NewFunction(f) ==
    /\ f \notin alive
    /\ LuaCode(1)
    /\ alive' = alive \cup {f}
    /\ held' = held \cup {f}
    /\ UNCHANGED <<checked, count, handlers, items, managed, emissions>>

\* Lua code drops its last variable for a value.
Drop(v) ==
    /\ v \in held
    /\ held' = held \ {v}
    /\ UNCHANGED <<alive, checked, count, handlers, items, managed, emissions, objectCalls>>

\* object:connect_signal
Connect(o, s, f) ==
    /\ {o, f} \subseteq held
    /\ LuaCode(1)
    /\ count' = IncRef(count, o, f)
    /\ handlers' = [handlers EXCEPT ![o][s] = Append(@, f)]
    /\ UNCHANGED <<alive, checked, held, items, managed, emissions>>

\* signal_disconnect: the first occurrence goes, and the result tells if
\* there was one.
Without(fs, f) == RemoveFirst(fs, f)

\* A plausible slip: the reference is given back in any case.
DisconnectedAnyway(n, w, s, f) == DecRef(n, w, f)

Disconnected(n, w, s, f) ==
    IF f \in Range(handlers[w][s]) THEN DecRef(n, w, f) ELSE n

\* object:disconnect_signal and class.disconnect_signal
Disconnect(w, s, f) ==
    /\ f \in held
    /\ w \in held \cup {Class}
    /\ LuaCode(1)
    /\ count' = Disconnected(count, w, s, f)
    /\ handlers' = [handlers EXCEPT ![w][s] = Without(@, f)]
    /\ UNCHANGED <<alive, checked, held, items, managed, emissions>>

\* class.connect_signal: the class first announces the connection; if nobody
\* listens, the function is connected at once.
ConnectClass(s, f) ==
    /\ f \in held
    /\ LuaCode(1)
    /\ LET told == IF s \in DOMAIN Announced THEN handlers[Class][Announced[s]] ELSE <<>> IN
       IF told # <<>>
       THEN /\ Begin(Emission(Nil, Announced[s], Pushed(count, Class, told), FALSE, <<s, f>>))
            /\ UNCHANGED <<count, handlers>>
       ELSE /\ count' = IncRef(count, Class, f)
            /\ handlers' = [handlers EXCEPT ![Class][s] = Append(@, f)]
            /\ UNCHANGED emissions
    /\ UNCHANGED <<alive, checked, held, items, managed>>

\* object:emit_signal, or C emitting a signal of the object: nothing happens
\* for an invalid object.  All the functions are pushed before the first runs.
Emit(o, s) ==
    /\ o \in held \cup managed
    /\ Usable(o)
    /\ LuaCode(1)
    /\ Begin(Emission(o, s, Pushed(count, o, handlers[o][s]), TRUE, NotConnecting))
    /\ UNCHANGED <<alive, checked, held, count, handlers, items, managed>>

\* class.emit_signal
EmitOnClass(s) ==
    /\ handlers[Class][s] # <<>>
    /\ LuaCode(1)
    /\ Begin(Emission(Nil, s, Pushed(count, Class, handlers[Class][s]), FALSE, NotConnecting))
    /\ UNCHANGED <<alive, checked, held, count, handlers, items, managed>>

\* The next function is called; it is off the stack when it runs, and may
\* keep the object and itself.
Call ==
    /\ emissions # <<>>
    /\ LET e == Head(emissions) IN
         /\ e.due # <<>>
         /\ emissions' = [emissions EXCEPT ![1].due = Tail(@)]
         /\ \E kept \in SUBSET ({e.self, Head(e.due)} \ {Nil}) : held' = held \cup kept
    /\ UNCHANGED <<alive, checked, count, handlers, items, managed, objectCalls>>

\* The handlers of the object are done; those of its class follow.
ClassFollows ==
    /\ emissions # <<>>
    /\ LET e == Head(emissions) IN
         /\ e.due = <<>> /\ e.classNext
         /\ emissions' = [emissions EXCEPT ![1] =
              [e EXCEPT !.due = Pushed(count, Class, handlers[Class][e.signal]),
                        !.classNext = FALSE]]
    /\ UNCHANGED <<alive, checked, held, count, handlers, items, managed, objectCalls>>

\* The emission ends, and with it the connection it announced is made.
Return ==
    /\ emissions # <<>>
    /\ LET e == Head(emissions) IN
         /\ e.due = <<>> /\ ~e.classNext
         /\ emissions' = Tail(emissions)
         /\ IF e.connecting = NotConnecting
            THEN UNCHANGED <<count, handlers>>
            ELSE /\ count' = IncRef(count, Class, e.connecting[2])
                 /\ handlers' = [handlers EXCEPT ![Class][e.connecting[1]] =
                                   Append(@, e.connecting[2])]
    /\ UNCHANGED <<alive, checked, held, items, managed, objectCalls>>

(***************************************************************************)
(* Objects that C points to.                                               *)
(***************************************************************************)
\* luaA_key_array_set, luaA_button_array_set: the old list is given back and
\* the new one taken; the property of an invalid object cannot be set.
ItemsReplaced(o, new) == IncRefs(DecRefs(count, o, items[o]), o, new)

SetItems(o, new) ==
    /\ o \in held
    /\ Usable(o)
    /\ Range(new) \subseteq held
    /\ LuaCode(1)
    /\ count' = ItemsReplaced(o, new)
    /\ items' = [items EXCEPT ![o] = new]
    /\ UNCHANGED <<alive, checked, held, handlers, managed, emissions>>

\* Lua code reads the list.
GetItems(o) ==
    /\ o \in held
    /\ Usable(o)
    /\ held' = held \cup Range(items[o])
    /\ UNCHANGED <<alive, checked, count, handlers, items, managed, emissions, objectCalls>>

\* C takes an object up: luaA_object_ref_class.
Manage(o) ==
    /\ o \in held \ managed
    /\ Usable(o)
    /\ LuaCode(1)
    /\ managed' = managed \cup {o}
    /\ count' = IncRef(count, Class, o)
    /\ UNCHANGED <<alive, checked, held, handlers, items, emissions>>

\* C lets it go: the object becomes invalid, then the reference is given back.
Unmanage(o) ==
    /\ o \in managed
    /\ LuaCode(1)
    /\ managed' = managed \ {o}
    /\ checked' = checked \ {o}
    /\ count' = DecRef(count, Class, o)
    /\ UNCHANGED <<alive, held, handlers, items, emissions>>

ItemLists == {<<>>} \cup {<<a>> : a \in Obj} \cup {<<a, a>> : a \in Obj}

ObjectsNext ==
    \/ Collect \/ Call \/ ClassFollows \/ Return
    \/ \E o \in Obj : NewObject(o) \/ Manage(o) \/ Unmanage(o) \/ GetItems(o)
    \/ \E f \in Func : NewFunction(f)
    \/ \E v \in Value : Drop(v)
    \/ \E o \in Obj, s \in Signal, f \in Func : Connect(o, s, f)
    \/ \E w \in Owner, s \in Signal, f \in Func : Disconnect(w, s, f)
    \/ \E s \in Signal, f \in Func : ConnectClass(s, f)
    \/ \E o \in Obj, s \in Signal : Emit(o, s)
    \/ \E s \in Signal : EmitOnClass(s)
    \/ \E o \in Obj, new \in ItemLists : SetItems(o, new)

ObjectsSpec == ObjectsInit /\ [][ObjectsNext]_objectsVars

(***************************************************************************)
(* Properties.                                                             *)
(***************************************************************************)
PointersOf(w) == (UNION {Range(handlers[w][s]) : s \in Signal})
                   \cup (IF w = Class THEN managed ELSE Range(items[w]))

\* No pointer in C dangles and no emission calls nil, whatever handlers
\* connect, disconnect, emit or drop while they run and whenever Lua
\* collects: what the C structures of a living object or of the class point
\* to is alive, and so is what a running emission still has to call.
PointersAreAlive ==
    /\ \A w \in (alive \cap Obj) \cup {Class} : PointersOf(w) \subseteq alive
    /\ \A i \in DOMAIN emissions : Range(emissions[i].due) \subseteq alive

\* The same with the types.
ObjectsInv == ObjectsTypeOK /\ PointersAreAlive
=============================================================================

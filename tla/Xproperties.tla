------------------------------- MODULE Xproperties -------------------------------
(***************************************************************************)
(* Properties of X11 windows that Lua code uses as its own (property.c,    *)
(* objects/window.c): each has a type, is read and written by name, and    *)
(* changes are signals "xproperty::name".  Other programs change them too. *)
(* On top of them are awful's properties of clients that survive a restart *)
(* (lib/awful/client.lua): the object of a client is new after a restart,  *)
(* or when its window was withdrawn, and takes its properties from the     *)
(* window when one of them is first asked for.                             *)
(***************************************************************************)
EXTENDS Integers, SequencesExt

CONSTANTS XName,      \* names that programs share
          Kept,       \* names of awful's properties, which other programs leave alone
          XWindow,    \* windows; all but Root come and go as clients
          Root,       \* the root window
          TypeOf,     \* the types of awful's properties
          ValueOf,    \* values of each type, as they are in Lua
          Nil, Foreign, \* no value; a value of another program
          MaxXCalls

XType == {"string", "number", "boolean"}
Clients == XWindow \ {Root}
Shared == XWindow \X XName
Own == Clients \X Kept

ASSUME XpropertiesAssumption ==
    /\ Root \in XWindow /\ XName \cap Kept = {} /\ TypeOf \in [Kept -> XType]
    /\ IsFiniteSet(XWindow) /\ IsFiniteSet(Kept)

VARIABLES registered,  \* globalconf.xproperties: the type of a name, or Nil
          xprop,       \* the server: of a window and a name, [type, value] or Nil
          xEvents,     \* PropertyNotify events to be handled
          objects,     \* the windows of which awesome has an object
          heard,        \* what handlers of "xproperty::name" have read last
          private, loaded,  \* c._private: awful_client_properties, _persistent_properties_loaded
          persistent,  \* client.data.persistent_properties_registered
          lastSet,     \* history: what Lua code has set last; Foreign if another program did since
          unwritten,   \* history: set to nil when there seemed to be nothing to delete
          xCalls

xpropertiesVars == <<registered, xprop, xEvents, objects, heard, private, loaded, persistent,
                     lastSet, unwritten, xCalls>>

XpropertiesTypeOK ==
    /\ registered \in [XName \cup Kept -> XType \cup {Nil}]
    /\ DOMAIN xprop = Shared \cup Own /\ xEvents \in Seq(Shared \cup Own)
    /\ Root \in objects /\ objects \subseteq XWindow
    /\ loaded \subseteq objects \ {Root} /\ persistent \subseteq Kept
    /\ \A n \in Kept : registered[n] = IF n \in persistent THEN TypeOf[n] ELSE Nil

-----------------------------------------------------------------------------
(* objects/window.c and property.c                                         *)

X11Type(type) == IF type = "string" THEN "UTF8_STRING" ELSE "CARDINAL"

\* What is written: booleans are numbers.
Wire(type, v) == [type |-> X11Type(type), value |-> IF type # "boolean" THEN v ELSE IF v THEN 1 ELSE 0]

\* Nil is none of the types and values.
ASSUME ValuesAssumption ==
    /\ Nil \notin XType /\ ValueOf["boolean"] \subseteq BOOLEAN /\ "" \in ValueOf["string"]
    /\ \A type \in XType : \A v \in ValueOf[type] : v # Nil /\ Wire(type, v) # Nil

\* window_get_xproperty: of a property that is not there, or has another type, the server
\* gives an empty value, which is a string but no number.
GetXproperty(props, k, type) ==
    LET p == props[k]
        isGood == p # Nil /\ p.type = X11Type(type)
    IN  CASE type = "string" -> IF isGood THEN p.value ELSE ""
          [] type = "number" -> IF isGood THEN p.value ELSE Nil
          [] OTHER -> IF isGood THEN p.value # 0 ELSE Nil
Get(k) == GetXproperty(xprop, k, registered[k[2]])

\* The server announces every change to who manages the window, but not the deletion of
\* what is not there.
Becomes(new, written) ==
    /\ xprop' = new
    /\ xEvents' = xEvents \o SetToSeq({k \in written : k[1] \in objects /\ (xprop[k] # Nil \/ new[k] # Nil)})

\* window_set_xproperty, for the keys that have a new value of the right type; nil deletes.
SetXproperties(values) ==
    Becomes([k \in DOMAIN xprop |-> IF k \notin DOMAIN values THEN xprop[k]
                                    ELSE IF values[k] = Nil THEN Nil
                                    ELSE Wire(registered'[k[2]], values[k])], DOMAIN values)
One(k, v) == [key \in {k} |-> v]

XCall == xCalls < MaxXCalls /\ xCalls' = xCalls + 1

\* Whoever is interested in a name or in a window begins by reading.
ReadBy(read) ==
    heard' = [k \in DOMAIN heard |-> IF k \in read /\ registered'[k[2]] # Nil
                                   THEN GetXproperty(xprop', k, registered'[k[2]]) ELSE heard[k]]

\* luaA_set_xproperty and luaA_window_set_xproperty; names that are not known are errors.
LuaSets(k, v) ==
    /\ XCall /\ k[1] \in objects /\ registered[k[2]] # Nil /\ UNCHANGED registered
    /\ SetXproperties(One(k, v))
    /\ lastSet' = [lastSet EXCEPT ![k] = v]
    /\ UNCHANGED <<objects, heard, private, loaded, persistent, unwritten>>

\* luaA_register_xproperty: another type for a name that is known is an error.
RegisterXproperty(n, type) ==
    registered' = IF registered[n] = Nil THEN [registered EXCEPT ![n] = type] ELSE registered

Register(n, type) ==
    /\ XCall /\ RegisterXproperty(n, type) /\ UNCHANGED <<xprop, xEvents>>
    /\ ReadBy({k \in DOMAIN heard : k[2] = n})
    /\ UNCHANGED <<objects, private, loaded, persistent, lastSet, unwritten>>

\* property_handle_propertynotify_xproperty: a handler reads the property again.
IsHeard(k) == registered[k[2]] # Nil /\ k[1] \in objects
HandleXEvent ==
    /\ xEvents # <<>> /\ xEvents' = Tail(xEvents)
    /\ heard' = IF IsHeard(Head(xEvents)) THEN [heard EXCEPT ![Head(xEvents)] = Get(Head(xEvents))] ELSE heard
    /\ UNCHANGED <<registered, xprop, objects, private, loaded, persistent, lastSet, unwritten, xCalls>>

\* Another program changes a property, with a type that need not be the registered one.
OtherSets(k, p) ==
    /\ XCall /\ Becomes([xprop EXCEPT ![k] = p], {k})
    /\ lastSet' = [lastSet EXCEPT ![k] = Foreign]
    /\ UNCHANGED <<registered, objects, heard, private, loaded, persistent, unwritten>>

-----------------------------------------------------------------------------
(* lib/awful/client.lua                                                    *)

\* client.property.persist: what is set already is written.
Persist(n) ==
    /\ XCall /\ n \notin persistent
    /\ RegisterXproperty(n, TypeOf[n]) /\ persistent' = persistent \cup {n}
    /\ SetXproperties([k \in {q \in Own : q[2] = n /\ private[q] # Nil} |-> private[k]])
    /\ ReadBy({k \in DOMAIN heard : k[2] = n})
    /\ UNCHANGED <<objects, private, loaded, lastSet, unwritten>>

\* client.property.set: a value that the property has already is not written; and if nil
\* were taken for no value.
IsOtherValue(k, v) == v # Nil /\ private[k] # v
IsNews(k, v) == private[k] # v
PropertySet(k, v) ==
    /\ XCall /\ k[1] \in objects /\ UNCHANGED registered
    /\ SetXproperties(IF IsNews(k, v) /\ k[2] \in persistent THEN One(k, v) ELSE <<>>)
    /\ private' = [private EXCEPT ![k] = v]
    /\ lastSet' = [lastSet EXCEPT ![k] = v]
    /\ unwritten' = IF v = Nil /\ k[1] \notin loaded /\ ~IsNews(k, v) THEN unwritten \cup {k}
                    ELSE unwritten \ {k}
    /\ UNCHANGED <<objects, heard, loaded, persistent>>

\* client.property.get, for the first time: all persistent properties are set.
PropertyGet(c) ==
    /\ c \in objects \ (loaded \cup {Root}) /\ loaded' = loaded \cup {c} /\ UNCHANGED registered
    /\ LET found == {k \in Own : k[1] = c /\ k[2] \in persistent /\ Get(k) # Nil}
       IN  /\ private' = [k \in Own |-> IF k \in found THEN Get(k) ELSE private[k]]
           /\ SetXproperties([k \in {q \in found : IsNews(q, Get(q))} |-> Get(k)])
    /\ UNCHANGED <<objects, heard, persistent, lastSet, unwritten, xCalls>>

\* client_manage: the object is new.
ManageWindow(c) ==
    /\ c \notin objects /\ objects' = objects \cup {c} /\ UNCHANGED <<registered, xprop, xEvents>>
    /\ ReadBy({k \in DOMAIN heard : k[1] = c})
    /\ UNCHANGED <<private, loaded, persistent, lastSet, unwritten, xCalls>>

\* client_unmanage, because the window is withdrawn or awesome restarts: what is not
\* persistent is lost with the object.
UnmanageWindow(c) ==
    /\ XCall /\ c \in objects \ {Root} /\ objects' = objects \ {c} /\ loaded' = loaded \ {c}
    /\ private' = [k \in Own |-> IF k[1] = c THEN Nil ELSE private[k]]
    /\ lastSet' = [k \in DOMAIN lastSet |-> IF k[1] = c /\ k[2] \in Kept \ persistent THEN Nil ELSE lastSet[k]]
    /\ UNCHANGED <<registered, xprop, xEvents, heard, persistent, unwritten>>

-----------------------------------------------------------------------------
XpropertiesInit ==
    /\ registered = [n \in XName \cup Kept |-> Nil]
    /\ xprop = [k \in Shared \cup Own |-> Nil] /\ xEvents = <<>> /\ heard = xprop
    /\ objects = {Root} /\ private = [k \in Own |-> Nil] /\ loaded = {} /\ persistent = {}
    /\ lastSet = xprop /\ unwritten = {} /\ xCalls = 0

XpropertiesNext ==
    \/ HandleXEvent
    \/ \E n \in XName, type \in XType : Register(n, type)
    \/ \E k \in Shared : \/ registered[k[2]] # Nil /\ \E v \in ValueOf[registered[k[2]]] \cup {Nil} : LuaSets(k, v)
                         \/ \E type \in XType : \E v \in ValueOf[type] : OtherSets(k, Wire(type, v))
                         \/ OtherSets(k, Nil)
    \/ \E n \in Kept : Persist(n)
    \/ \E k \in Own : \E v \in ValueOf[TypeOf[k[2]]] \cup {Nil} : PropertySet(k, v)
    \/ \E c \in Clients : PropertyGet(c) \/ ManageWindow(c) \/ UnmanageWindow(c)

XpropertiesSpec == XpropertiesInit /\ [][XpropertiesNext]_xpropertiesVars

-----------------------------------------------------------------------------
\* Once the events are handled, who listens to "xproperty::name" knows the value, of the
\* root window and of every client, whoever changed it, and however often meanwhile.
ListenersKnow ==
    xEvents = <<>> => \A k \in DOMAIN heard : IsHeard(k) => heard[k] = Get(k)

\* What Lua code has set is what it gets, until another program changes it: false, zero and
\* the empty string are values.  A string that is not there is the empty one.
IsKnownAs(value, set, type) == value = set \/ (set = Nil /\ type = "string" /\ value = "")
SetIsGot ==
    \A k \in Shared : registered[k[2]] # Nil /\ lastSet[k] # Foreign =>
        IsKnownAs(Get(k), lastSet[k], registered[k[2]])

\* A persistent property of a client is, once it has been asked for, what it was last set
\* to, by this object of the client or by one before, and before or after it was declared
\* persistent.  There are two exceptions: a string that is not set is the empty string then,
\* and nil that is set before the first question is not written, so that the value before
\* comes back.
PersistentIsKept ==
    \A k \in Own : k[1] \in loaded /\ k[2] \in persistent /\ k \notin unwritten =>
        IsKnownAs(private[k], lastSet[k], TypeOf[k[2]])

\* Together: properties are known, read back and kept.
XpropertiesInv == XpropertiesTypeOK /\ ListenersKnow /\ SetIsGot /\ PersistentIsKept
================================================================================

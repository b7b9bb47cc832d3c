--------------------------------- MODULE Dbus ---------------------------------
(***************************************************************************)
(* dbus.c: messages from the D-Bus are given to the handlers that Lua code *)
(* has connected, what a handler returns is sent as the reply, and Lua code*)
(* may send signals.  The values are converted on the stack of Lua, where  *)
(* the functions count what they push and address values from its top, so  *)
(* the stack is modelled as it is.                                         *)
(*                                                                         *)
(* D-Bus values have a kind: basic (strings, numbers, booleans, bytes and  *)
(* arrays of bytes: whatever becomes one Lua value), fixed (an array of    *)
(* numbers or booleans), descriptors (an array of file descriptors),       *)
(* unknown (object paths and what else is not converted), variant, struct, *)
(* array, dict and, only in these, entry.  Lua values are [str], [num],    *)
(* [bool], [tab], a set of keys and values, and nil.  Strings have one     *)
(* character at most: of a type only the first is looked at.               *)
(***************************************************************************)
EXTENDS Integers, SequencesExt

CONSTANTS Body,        \* the arguments that messages have: sequences of D-Bus values
          Result,      \* what handlers return, and code emits: sequences of Lua values
          MaxInbox     \* bound: messages to be handled

VARIABLES inbox,     \* messages that have been read: [body, noReply]
          connected, \* Lua code has connected a handler for their interface
          stack,     \* of Lua
          last,      \* what has been done last: the message, what the handler was given and has
                     \* returned, and what was sent; or that awesome was restarted
          shifted    \* history: a handler was called for a message with an array of descriptors

dbusVars == <<inbox, connected, stack, last, shifted>>

Null == [nil |-> TRUE]
Nothing == [sent |-> FALSE]

-----------------------------------------------------------------------------
(* The stack; indices count from the top, which is -1.                     *)

At(st, i) == st[Len(st) + 1 + i]
SetTop(st, n) == SubSeq(st, 1, Min({n, Len(st)})) \o [k \in 1..(n - Len(st)) |-> Null]
DropLast(st, n) == SubSeq(st, 1, Len(st) - n)
LuaInsert(st, i) == InsertAt(Front(st), Len(st) + 1 + i, Last(st))
LuaRemove(st, i) == RemoveAt(st, Len(st) + 1 + i)

\* A table with a value set: nil is never in a table.
SetField(tab, key, value) == [tab |-> {e \in tab.tab : e[1] # key} \cup
                                  (IF value = Null THEN {} ELSE {<<key, value>>})]
RawSetI(st, i, n) == DropLast([st EXCEPT ![Len(st) + 1 + i] = SetField(@, [num |-> n], Last(st))], 1)
RawSet(st, i) == DropLast([st EXCEPT ![Len(st) + 1 + i] = SetField(@, At(st, -2), Last(st))], 2)

-----------------------------------------------------------------------------
(* From D-Bus to Lua.                                                      *)

\* Tables whose first index is 0.
GatheredFromZero(st, n) ==
    FoldLeft(LAMBDA s, k : RawSetI(s, -(n + 1 - k) - 1, n - k),
             LuaInsert(Append(st, [tab |-> {}]), -n - 1), [k \in 1..n |-> k])

\* The table of n values: they are put into it from the last.
Gathered(st, n) ==
    FoldLeft(LAMBDA s, k : RawSetI(s, -(n + 1 - k) - 1, n + 1 - k),
             LuaInsert(Append(st, [tab |-> {}]), -n - 1), [k \in 1..n |-> k])

\* The table of n keys, each followed by its value.
GatheredPairs(st, n) ==
    FoldLeft(LAMBDA s, k : RawSet(s, -(n * 2) - 1 + 2 * (k - 1)),
             LuaInsert(Append(st, [tab |-> {}]), -(n * 2) - 1), [k \in 1..n |-> k])

\* Of n entries one has a key of a type that is not converted: no table takes nil as a key.
HasNilKey(st, n) == \E k \in 1..n : At(st, -2 * k) = Null

FixedTable(items) == [tab |-> {<<[num |-> i], items[i]>> : i \in DOMAIN items}]

\* a_dbus_message_iter: values are pushed and counted; an entry of a dictionary counts one
\* and pushes two, and an array of descriptors counts one and pushes nothing.
RECURSIVE MessageIter(_, _)
Iterated(acc, w) ==
    LET sub == CASE w.kind = "variant" -> MessageIter(acc.stack, <<w.of>>)
                 [] w.kind = "entry"   -> MessageIter(acc.stack, <<w.key, w.value>>)
                 [] w.kind \in {"struct", "array", "dict"} -> MessageIter(acc.stack, w.items)
                 [] OTHER -> [stack |-> acc.stack, n |-> 0, raises |-> FALSE]
        pushed == CASE w.kind = "basic"   -> Append(acc.stack, w.lua)
                    [] w.kind = "unknown" -> Append(acc.stack, Null)
                    [] w.kind = "fixed"   -> Append(acc.stack, FixedTable(w.items))
                    [] w.kind = "dict"    -> GatheredPairs(sub.stack, sub.n)
                    [] w.kind \in {"struct", "array"} -> Gathered(sub.stack, sub.n)
                    [] OTHER -> sub.stack
    IN  [stack |-> pushed, n |-> acc.n + 1,
         raises |-> acc.raises \/ sub.raises \/ (w.kind = "dict" /\ HasNilKey(sub.stack, sub.n))]
MessageIter(st, values) == FoldLeft(Iterated, [stack |-> st, n |-> 0, raises |-> FALSE], values)

-----------------------------------------------------------------------------
(* From Lua to D-Bus.                                                      *)

\* lua_tostring, of strings and numbers; lua_tonumber, of numbers and the strings of them;
\* lua_toboolean; and lua_objlen, of tables and strings.
HasText(value) == "str" \in DOMAIN value \/ "num" \in DOMAIN value
TextOf(value) == IF "str" \in DOMAIN value THEN value.str ELSE ToString(value.num)
Digits == 0..9
NumberOf(value) == IF HasText(value) /\ \E d \in Digits : ToString(d) = TextOf(value)
                   THEN CHOOSE d \in Digits : ToString(d) = TextOf(value) ELSE 0
IsTrue(value) == value \notin {Null, [bool |-> FALSE]}
RawLen(value) == IF "tab" \in DOMAIN value THEN Cardinality(value.tab)
                 ELSE IF "str" \in DOMAIN value /\ value.str # "" THEN 1 ELSE 0
RawGet(value, k) == LET found == {e \in value.tab : e[1] = [num |-> k]}
                    IN  IF found = {} THEN Null ELSE (CHOOSE e \in found : TRUE)[2]

\* A character that is no UTF-8 by itself.
InvalidText == "\\xff"

NumberTypes == {"y", "n", "q", "i", "u", "x", "t", "d"}

\* a_dbus_convert_value: the type is at i and the value above it; what is appended, and
\* whether it worked.
RECURSIVE ConvertValue(_, _)
ConvertElements(st, value) ==
    LET n == RawLen(value)
        each == [k \in 1..(n \div 2) |->
                    ConvertValue(st \o <<value, RawGet(value, 2 * k - 1), RawGet(value, 2 * k)>>, -2)]
    IN  [ok  |-> \A k \in DOMAIN each : each[k].ok,
         out |-> <<[kind |-> "array", items |-> FoldLeft(LAMBDA s, r : s \o r.out, <<>>, each)]>>]
ConvertValue(st, i) ==
    LET type == At(st, i)
        value == At(st, i + 1)
        no == [ok |-> FALSE, out |-> <<>>]
        basic(lua) == [ok |-> TRUE, out |-> <<[kind |-> "basic", lua |-> lua]>>]
    IN  CASE ~HasText(type) \/ TextOf(type) = "" -> no
          [] TextOf(type) = "a" -> IF RawLen(value) % 2 = 0 THEN ConvertElements(st, value) ELSE no
          [] TextOf(type) = "b" -> basic([bool |-> IsTrue(value)])
          [] TextOf(type) = "s" -> IF HasText(value) /\ TextOf(value) # InvalidText
                                   THEN basic([str |-> TextOf(value)]) ELSE no
          [] TextOf(type) \in NumberTypes -> basic([num |-> NumberOf(value)])
          \* No type that is known: nothing is appended.
          [] OTHER -> [ok |-> TRUE, out |-> <<>>]

TakeResult(acc, i) ==
    IF ~acc.ok THEN acc
    ELSE LET r == ConvertValue(acc.stack, i)
         IN  [ok |-> r.ok, out |-> acc.out \o r.out,
              stack |-> LuaRemove(LuaRemove(acc.stack, i), i + 1)]

TakeResults(st, n) ==
    LET start == [ok |-> n % 2 = 0, out |-> <<>>, stack |-> st]
    IN  FoldLeft(TakeResult, start, [k \in 1..(n \div 2) |-> -n + 2 * (k - 1)])

\* The arguments of luaA_dbus_emit_signal, from the fifth on; the loop leaves them where they are.
TakeArguments(st, n) ==
    LET each == [k \in 1..(n \div 2) |-> ConvertValue(st, -n + 2 * (k - 1))]
    IN  [ok  |-> n % 2 = 0 /\ \A k \in DOMAIN each : each[k].ok,
         out |-> FoldLeft(LAMBDA s, r : s \o r.out, <<>>, each)]

-----------------------------------------------------------------------------
Receive(body, noReply) ==
    /\ Len(inbox) < MaxInbox
    /\ inbox' = Append(inbox, [body |-> body, noReply |-> noReply])
    /\ last = Nothing
    /\ UNCHANGED <<connected, stack, last, shifted>>

\* luaA_dbus_connect_signal: a signal has one handler at most.
ConnectSignal == last = Nothing /\ ~connected /\ connected' = TRUE /\ UNCHANGED <<inbox, stack, last, shifted>>
DisconnectSignal == last = Nothing /\ connected /\ connected' = FALSE /\ UNCHANGED <<inbox, stack, last, shifted>>

\* What the C function that waits for messages has on the stack.
Idle == <<[str |-> "o"]>>

RECURSIVE HasDescriptors(_)
HasDescriptors(w) ==
    CASE w.kind = "descriptors" -> TRUE
      [] w.kind = "variant" -> HasDescriptors(w.of)
      [] w.kind = "entry" -> HasDescriptors(w.value)
      [] w.kind \in {"struct", "array", "dict"} -> \E i \in DOMAIN w.items : HasDescriptors(w.items[i])
      [] OTHER -> FALSE

\* luaA_panic: an error that nothing catches, whether there is a handler or not.
RestartAfterError(message) ==
    /\ inbox' = <<>> /\ connected' = FALSE /\ stack' = Idle /\ shifted' = FALSE
    /\ last' = [restarted |-> message]

\* a_dbus_process_request, for messages that a_dbus_process_requests_on_bus takes one after
\* the other: the fields of the message are a table, the first argument.  What a handler
\* returns is left on the stack if there is a reply to send.
ProcessRequest(results) ==
    LET message == Head(inbox)
        given == MessageIter(Append(stack, [tab |-> {}]), message.body)
        nargs == given.n + 1
        args == SubSeq(given.stack, Len(given.stack) - nargs + 1, Len(given.stack))
        below == DropLast(given.stack, nargs)
        taken == TakeResults(below \o results, Len(results))
        answers == ~message.noReply
    IN  /\ inbox # <<>> /\ last = Nothing
        /\ \/ given.raises /\ RestartAfterError(message)
           \/ /\ ~given.raises /\ connected
              /\ last' = [message |-> message, args |-> Tail(args), results |-> results,
                          sent |-> answers /\ taken.ok, reply |-> taken.out]
              /\ stack' = SetTop(IF answers THEN taken.stack ELSE below, Len(stack))
              /\ shifted' = (shifted \/ \E i \in DOMAIN message.body : HasDescriptors(message.body[i]))
              /\ inbox' = Tail(inbox) /\ UNCHANGED connected
           \/ /\ ~given.raises /\ ~connected
              /\ stack' = SetTop(given.stack, Len(stack))
              /\ inbox' = Tail(inbox) /\ UNCHANGED <<connected, last, shifted>>

\* luaA_dbus_emit_signal.
EmitDbusSignal(results) ==
    LET taken == TakeArguments(stack \o results, Len(results))
    IN  /\ last = Nothing
        /\ last' = [results |-> results, sent |-> taken.ok, reply |-> taken.out]
        /\ UNCHANGED <<inbox, connected, stack, shifted>>

\* What has been done is remembered until the next thing is done.
Forget == last # Nothing /\ last' = Nothing /\ UNCHANGED <<inbox, connected, stack, shifted>>

DbusInit == inbox = <<>> /\ connected = FALSE /\ last = Nothing /\ stack = Idle /\ shifted = FALSE
DbusNext == \/ ConnectSignal \/ Forget \/ DisconnectSignal
            \/ \E b \in Body, n \in BOOLEAN : Receive(b, n)
            \/ \E r \in Result : ProcessRequest(r) \/ EmitDbusSignal(r)
DbusSpec == DbusInit /\ [][DbusNext]_dbusVars

-----------------------------------------------------------------------------
\* What the values mean, without a stack.
RECURSIVE Meaning(_)
TableOf(pairs) == [tab |-> {p \in pairs : p[2] # Null}]
Meaning(w) ==
    CASE w.kind = "basic"   -> w.lua
      [] w.kind = "unknown" -> Null
      [] w.kind = "fixed"   -> FixedTable(w.items)
      [] w.kind = "variant" -> Meaning(w.of)
      [] w.kind = "dict"    -> TableOf({<<Meaning(w.items[i].key), Meaning(w.items[i].value)>> :
                                             i \in DOMAIN w.items})
      [] OTHER              -> TableOf({<<[num |-> i], Meaning(w.items[i])>> : i \in DOMAIN w.items})

\* The elements of a table, or of what has none.
Elements(value) == [k \in 1..RawLen(value) |-> RawGet(value, k)]

RECURSIVE Wanted(_)
Wanted(values) ==
    IF values = <<>> THEN <<>>
    ELSE LET type == TextOf(values[1])
             value == values[2]
         IN  (CASE type = "s" -> <<[kind |-> "basic", lua |-> [str |-> TextOf(value)]]>>
                [] type = "b" -> <<[kind |-> "basic", lua |-> [bool |-> IsTrue(value)]]>>
                [] type \in NumberTypes -> <<[kind |-> "basic", lua |-> [num |-> NumberOf(value)]]>>
                [] type = "a" -> <<[kind |-> "array", items |-> Wanted(Elements(value))]>>
                [] OTHER -> <<>>) \o Wanted(SubSeq(values, 3, Len(values)))

\* Whether all types can be appended or are skipped: strings have to be text, and the elements
\* of an array again types and values.
RECURSIVE CanBeSent(_)
CanBeSent(values) ==
    /\ Len(values) % 2 = 0
    /\ values # <<>> =>
           LET value == values[2]
           IN  /\ HasText(values[1]) /\ TextOf(values[1]) # ""
               /\ TextOf(values[1]) = "s" => HasText(value) /\ TextOf(value) # InvalidText
               /\ TextOf(values[1]) = "a" => RawLen(value) % 2 = 0 /\ CanBeSent(Elements(value))
               /\ CanBeSent(SubSeq(values, 3, Len(values)))

\* A dictionary somewhere in a value has a key of a type that is not converted.
RECURSIVE HasUnknownKey(_)
HasUnknownKey(w) ==
    CASE w.kind = "variant" -> HasUnknownKey(w.of)
      [] w.kind = "entry" -> w.key.kind = "unknown" \/ HasUnknownKey(w.value)
      [] w.kind \in {"struct", "array", "dict"} -> \E i \in DOMAIN w.items : HasUnknownKey(w.items[i])
      [] OTHER -> FALSE

Some(Has(_), values) == \E i \in DOMAIN values : Has(values[i])

\* A handler is given one value for each argument of the message, with what the argument
\* contains, however arrays, dictionaries, structs and variants are nested in it.  Known
\* exceptions: an array of descriptors is counted and nothing is pushed, so that the values
\* below move into its place; and a key that is not converted, and nothing else, is an error
\* that restarts awesome.
HandlersGetTheArguments ==
    /\ "message" \in DOMAIN last =>
           /\ ~Some(HasUnknownKey, last.message.body)
           /\ ~Some(HasDescriptors, last.message.body) =>
                  last.args = [i \in DOMAIN last.message.body |-> Meaning(last.message.body[i])]
    /\ "restarted" \in DOMAIN last => Some(HasUnknownKey, last.restarted.body)

\* A reply or a signal is sent exactly if all values can be, and has these values in this
\* order; no message that wants no reply gets one.  Lua's stack is as it was, unless
\* arguments were counted that were not there.
RepliesAreRight ==
    /\ ~shifted => stack = Idle
    /\ "results" \in DOMAIN last =>
           /\ last.sent <=> /\ CanBeSent(last.results)
                            /\ "message" \in DOMAIN last => ~last.message.noReply
           /\ last.sent => last.reply = Wanted(last.results)

\* Together: values keep their meaning in both directions, and Lua's stack its balance.
DbusInv == HandlersGetTheArguments /\ RepliesAreRight
===============================================================================

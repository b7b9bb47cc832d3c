------------------------------ MODULE Selection ------------------------------
(***************************************************************************)
(* The transfer of a selection's contents between X clients, following     *)
(* section 2 of the ICCCM: objects/selection_transfer.c is the owner's     *)
(* side, objects/selection_getter.c the asker's.                           *)
(*                                                                         *)
(* Contents that do not fit into one property are sent piece by piece: the *)
(* owner writes a piece to a property of the asker's window, the asker     *)
(* reads and deletes it, and each learns of what the other has done by     *)
(* PropertyNotify events, provided that it has selected for them.  Either  *)
(* side may be awesome or an application, and when Lua code pastes what    *)
(* Lua code copied it is awesome on both sides, with one event mask.       *)
(***************************************************************************)
EXTENDS Naturals, SequencesExt

CONSTANTS Window,      \* the windows on whose behalf contents are asked for
          Property,    \* the properties to store them in
          AwesomeAsks, \* the windows of awesome's selection_getter objects
          AwesomeOwns, \* the windows that ask for a selection awesome owns
          MaxPiece,    \* max_property_length()
          MaxSend,     \* bound: the bytes in one call of transfer:send
          MaxData      \* bound: the bytes given in one transfer

\* A transfer is known by its window and property.  A getter's window has one
\* property only, AWESOME_SELECTION_ATOM.
Transfer == Window \X Property

ASSUME SelectionAssumption ==
    /\ AwesomeAsks \cup AwesomeOwns \subseteq Window
    /\ AwesomeAsks # {} => \A p, q \in Property : p = q
    /\ MaxPiece \in Nat \ {0} /\ MaxSend \in Nat /\ MaxData \in Nat

XClient == {"awesome", "app"}
Owner(t) == IF t[1] \in AwesomeOwns THEN "awesome" ELSE "app"
Asker(t) == IF t[1] \in AwesomeAsks THEN "awesome" ELSE "app"

VARIABLES asker,     \* "idle", "asked", "reading" (an application, after INCR), "refused" or "done"
          got,       \* the bytes the asker has got
          state,     \* transfer->state, "none" before there is a transfer object
          more,      \* transfer->more_data
          given,     \* how many bytes Lua has given
          put,       \* how many of them have been written; data_length - offset is the difference
          property,  \* the contents of the property
          masks,     \* <<client, window>>: who has selected for PropertyNotify events
          events     \* the events each client has not handled yet

askerVars == <<asker, got>>
ownerVars == <<state, more, given, put>>
vars == <<askerVars, ownerVars, property, masks, events>>

\* What a property may hold.  The type INCR comes with one number.
Missing == [type |-> "none", bytes |-> <<>>]
Incr == [type |-> "incr", bytes |-> <<0>>]
Data(bytes) == [type |-> "data", bytes |-> bytes]

Event(type, t) == [type |-> type, transfer |-> t]
EventTypes == {"request", "refused", "notify", "new", "deleted"}

TypeOK == /\ asker \in [Transfer -> {"idle", "asked", "reading", "refused", "done"}]
          /\ got \in [Transfer -> Seq(0..MaxData)]
          /\ state \in [Transfer -> {"none", "sending", "done"}]
          /\ more \in [Transfer -> BOOLEAN]
          /\ given \in [Transfer -> 0..MaxData] /\ put \in [Transfer -> 0..MaxData]
          /\ \A t \in Transfer : put[t] <= given[t] /\ Len(property[t].bytes) <= MaxPiece
          /\ masks \subseteq XClient \X Window
          /\ events \in [XClient -> Seq([type : EventTypes, transfer : Transfer])]

\* Applications select for the events on their own windows before they ask.
Init == /\ asker = [t \in Transfer |-> "idle"]
        /\ got = [t \in Transfer |-> <<>>]
        /\ state = [t \in Transfer |-> "none"]
        /\ more = [t \in Transfer |-> FALSE]
        /\ given = [t \in Transfer |-> 0] /\ put = [t \in Transfer |-> 0]
        /\ property = [t \in Transfer |-> Missing]
        /\ masks = {"app"} \X (Window \ AwesomeAsks)
        /\ events = [c \in XClient |-> <<>>]

-----------------------------------------------------------------------------
(* The X server.                                                           *)

\* The queues after the PropertyNotify event e has been sent to those who have
\* selected for it.
Told(queues, selected, e) ==
    [c \in XClient |-> IF <<c, e.transfer[1]>> \in selected THEN Append(queues[c], e) ELSE queues[c]]

\* The queues of a client that has read its next event.
Handled(c) == [events EXCEPT ![c] = Tail(@)]

\* GetProperty with delete set, whose reply is property[t].
GetAndDelete(t, queues, selected) ==
    /\ property' = [property EXCEPT ![t] = Missing]
    /\ events' = IF property[t] = Missing THEN queues ELSE Told(queues, selected, Event("deleted", t))

\* ChangeProperty.
Change(t, contents, queues, selected) ==
    /\ property' = [property EXCEPT ![t] = contents]
    /\ events' = Told(queues, selected, Event("new", t))

-----------------------------------------------------------------------------
(* The owner.                                                              *)

\* The bytes from i to j; the bytes of a transfer are numbered.
Bytes(i, j) == [k \in 1..(j - i + 1) |-> i + k - 1]

Smaller(m, n) == IF m < n THEN m ELSE n

\* selection_transfer_begin where the request handler does not call send, so
\* that the request is rejected.
Reject(t) ==
    /\ state' = [state EXCEPT ![t] = "done"]
    /\ events' = [Handled(Owner(t)) EXCEPT ![Asker(t)] = Append(@, Event("refused", t))]
    /\ UNCHANGED <<more, given, put, property, masks>>

\* As Send, without selecting for the events on the asker's window.
SendDeaf(t, n, continue) ==
    LET incr == continue \/ n >= MaxPiece
        told == Told(Handled(Owner(t)), masks, Event("new", t))
    IN  /\ property' = [property EXCEPT ![t] = IF incr THEN Incr ELSE Data(Bytes(1, n))]
        /\ events' = [told EXCEPT ![Asker(t)] = Append(@, Event("notify", t))]
        /\ state' = [state EXCEPT ![t] = IF incr THEN "sending" ELSE "done"]
        /\ more' = [more EXCEPT ![t] = continue]
        /\ given' = [given EXCEPT ![t] = n]
        /\ put' = [put EXCEPT ![t] = IF incr THEN 0 ELSE n]
        /\ UNCHANGED masks

\* transfer:send in the request handler: the data, or the announcement that it
\* will come in pieces.
Send(t, n, continue) ==
    LET incr == continue \/ n >= MaxPiece
        selected == IF incr THEN masks \cup {<<Owner(t), t[1]>>} ELSE masks
        told == Told(Handled(Owner(t)), selected, Event("new", t))
    IN  /\ masks' = selected
        /\ property' = [property EXCEPT ![t] = IF incr THEN Incr ELSE Data(Bytes(1, n))]
        /\ events' = [told EXCEPT ![Asker(t)] = Append(@, Event("notify", t))]
        /\ state' = [state EXCEPT ![t] = IF incr THEN "sending" ELSE "done"]
        /\ more' = [more EXCEPT ![t] = continue]
        /\ given' = [given EXCEPT ![t] = n]
        /\ put' = [put EXCEPT ![t] = IF incr THEN 0 ELSE n]

\* selection_handle_selectionrequest.
HandleRequest(t) ==
    /\ \/ Reject(t)
       \/ \E n \in 0..Smaller(MaxSend, MaxData), continue \in BOOLEAN : Send(t, n, continue)
    /\ UNCHANGED askerVars

\* The next piece of what has been given: the bytes up to the total.
Piece(t, total) == Bytes(put[t] + 1, Smaller(put[t] + MaxPiece, total))

\* As WritePiece, without advancing the offset.
WritePieceAgain(t, total) ==
    /\ Change(t, Data(Piece(t, total)), Handled(Owner(t)), masks)
    /\ UNCHANGED <<put, state, masks>>

\* The branch of transfer_continue_incremental that sends a piece.
WritePiece(t, total) ==
    /\ Change(t, Data(Piece(t, total)), Handled(Owner(t)), masks)
    /\ put' = [put EXCEPT ![t] = @ + Len(Piece(t, total))]
    /\ UNCHANGED <<state, masks>>

\* As EndTransfer, without giving up the event mask.
EndTransferListening(t) ==
    /\ Change(t, Data(<<>>), Handled(Owner(t)), masks)
    /\ state' = [state EXCEPT ![t] = "done"]
    /\ UNCHANGED <<more, given, put, masks>>

\* The end of the transfer: a piece of no bytes, and no more events.
EndTransfer(t) ==
    /\ Change(t, Data(<<>>), Handled(Owner(t)), masks)
    /\ masks' = masks \ {<<Owner(t), t[1]>>}
    /\ state' = [state EXCEPT ![t] = "done"]
    /\ UNCHANGED <<more, given, put>>

\* transfer_continue_incremental.  If all is written and there may be more data,
\* the "continue" signal lets Lua give some; the signal is emitted again for an
\* empty piece, and the transfer ends if Lua gives nothing.
Continue(t) ==
    \/ /\ put[t] < given[t]
       /\ WritePiece(t, given[t])
       /\ UNCHANGED <<more, given>>
    \/ /\ put[t] = given[t] /\ more[t]
       /\ \E n \in 1..Smaller(MaxSend, MaxData - given[t]), continue \in BOOLEAN :
            /\ given' = [given EXCEPT ![t] = @ + n]
            /\ more' = [more EXCEPT ![t] = continue]
            /\ WritePiece(t, given[t] + n)
    \/ /\ put[t] = given[t]
       /\ EndTransfer(t)

\* selection_transfer_handle_propertynotify, for the state XCB_PROPERTY_DELETE.
HandleDeleted(c, t) ==
    /\ IF c = Owner(t) /\ state[t] = "sending"
       THEN Continue(t)
       ELSE events' = Handled(c) /\ UNCHANGED <<ownerVars, property, masks>>
    /\ UNCHANGED askerVars

-----------------------------------------------------------------------------
(* The asker.                                                              *)

\* The bytes that were read reach the asker, and this is the end or not.
Receive(t, bytes, next) ==
    /\ got' = [got EXCEPT ![t] = @ \o bytes]
    /\ asker' = [asker EXCEPT ![t] = next]

\* luaA_selection_getter_new, or an application doing the same.
Ask(t) ==
    /\ asker[t] = "idle"
    /\ asker' = [asker EXCEPT ![t] = "asked"]
    /\ events' = [events EXCEPT ![Owner(t)] = Append(@, Event("request", t))]
    /\ UNCHANGED <<got, ownerVars, property, masks>>

\* selection_handle_selectionnotify with a property.  If it announces a transfer
\* in pieces, deleting it has asked for the first of them.
GetterNotify(t) ==
    LET selected == masks \cup {<<"awesome", t[1]>>}
    IN  /\ masks' = selected
        /\ GetAndDelete(t, Handled("awesome"), selected)
        /\ IF property[t].type = "incr"
           THEN UNCHANGED askerVars
           ELSE Receive(t, property[t].bytes, "done")

\* property_handle_awesome_selection_atom, for the state XCB_PROPERTY_NEW_VALUE:
\* an empty piece is the end.
GetterNew(t) ==
    /\ GetAndDelete(t, Handled("awesome"), masks)
    /\ Receive(t, property[t].bytes, IF property[t].bytes = <<>> THEN "done" ELSE "asked")
    /\ UNCHANGED masks

\* An application that waits for the notification and for the pieces in turn.
AppNotify(t) ==
    /\ GetAndDelete(t, Handled("app"), masks)
    /\ IF property[t].type = "incr" THEN Receive(t, <<>>, "reading")
                                    ELSE Receive(t, property[t].bytes, "done")
    /\ UNCHANGED masks

AppNew(t) ==
    /\ GetAndDelete(t, Handled("app"), masks)
    /\ Receive(t, property[t].bytes, IF property[t].bytes = <<>> THEN "done" ELSE "reading")
    /\ UNCHANGED masks

\* SelectionNotify and PropertyNotify events on the asker's window, which may come
\* too late or be none of the client's business.
Expects(c, t, type) ==
    /\ c = Asker(t)
    /\ \/ type \in {"notify", "refused"} /\ asker[t] = "asked"
       \/ type = "new" /\ asker[t] = IF c = "awesome" THEN "asked" ELSE "reading"

HandleReport(c, t, type) ==
    /\ \/ /\ ~Expects(c, t, type)
          /\ events' = Handled(c)
          /\ UNCHANGED <<askerVars, property, masks>>
       \/ /\ Expects(c, t, type)
          /\ \/ type = "notify" /\ c = "awesome" /\ GetterNotify(t)
             \/ type = "new" /\ c = "awesome" /\ GetterNew(t)
             \/ type = "notify" /\ c = "app" /\ AppNotify(t)
             \/ type = "new" /\ c = "app" /\ AppNew(t)
             \/ /\ type = "refused" /\ Receive(t, <<>>, "refused")
                /\ events' = Handled(c)
                /\ UNCHANGED <<property, masks>>
    /\ UNCHANGED ownerVars

-----------------------------------------------------------------------------

HandleEvent(c) ==
    /\ events[c] # <<>>
    /\ LET e == Head(events[c])
       IN  \/ e.type = "request" /\ HandleRequest(e.transfer)
           \/ e.type = "deleted" /\ HandleDeleted(c, e.transfer)
           \/ e.type \in {"notify", "refused", "new"} /\ HandleReport(c, e.transfer, e.type)

Next == \/ \E t \in Transfer : Ask(t)
        \/ \E c \in XClient : HandleEvent(c)

Spec == Init /\ [][Next]_vars

\* Every client handles its events.
FairSpec == Spec /\ \A c \in XClient : WF_vars(HandleEvent(c))

-----------------------------------------------------------------------------
(* Properties.                                                             *)

Ended == {t \in Transfer : asker[t] \in {"refused", "done"}}

\* When the asker believes that the transfer is over, it has everything, and the
\* owner's side is over too.
EndMeansAll == \A t \in Transfer : asker[t] = "done" => Len(got[t]) = given[t] /\ state[t] = "done"

\* Once its transfers to an application's window are over, awesome gets no more
\* events from that window.
NothingLeftSelected ==
    \A w \in Window \ AwesomeAsks :
        <<"awesome", w>> \in masks => \E t \in Transfer : t[1] = w /\ state[t] = "sending"

\* Whoever asks gets an answer, to the end.
TransfersEnd == \A t \in Transfer : asker[t] = "asked" ~> t \in Ended

\* The protocol implements a stream.
Abstract == INSTANCE Stream WITH ended <- Ended
ImplementsStream == Abstract!Spec

\* Together: a transfer that is over is over on both sides, and leaves nothing behind.
SelectionInv == TypeOK /\ EndMeansAll /\ NothingLeftSelected
=============================================================================

---------------------------- MODULE Banning_proofs ----------------------------
(***************************************************************************)
(* What is to be seen, and where, for any number of clients, tags and      *)
(* monitors.                                                               *)
(*                                                                         *)
(* Banning: as long as Lua code leaves inactive tags alone, a client is    *)
(* banned exactly when it is invisible whenever no banning is pending, and *)
(* the focus reaches the X server.  That a hidden client loses the focus at*)
(* once needs no such assumption.                                          *)
(*                                                                         *)
(* Screens: the list always has a screen for each monitor that the last    *)
(* refresh has found and no other of awesome's own, unless news of another *)
(* change is on its way; and clients are on screens that are in the list   *)
(* or whose signal "removed" is being handled.                             *)
(***************************************************************************)
EXTENDS Banning, Screens, SequenceTheorems, WellFoundedInduction, TLAPS

USE BanningAssumption

-----------------------------------------------------------------------------
(* Type correctness.                                                       *)

LEMMA RetagType ==
    ASSUME BanningTypeOK, NEW remove \in SUBSET (Client \X Tag), NEW add \in SUBSET (managed \X Tag),
           Retag(remove, add)
    PROVE  BanningTypeOK'
BY DEF BanningTypeOK, Retag, UnfocusIf

LEMMA NextType == BanningTypeOK /\ [BanningNext]_banningVars => BanningTypeOK'
<1>1. SUFFICES ASSUME BanningTypeOK, [BanningNext]_banningVars PROVE BanningTypeOK'
  OBVIOUS
<1>2. ASSUME NEW c \in Client, Manage(c) PROVE BanningTypeOK'
  BY <1>1, <1>2 DEF BanningTypeOK, Manage
<1>3. ASSUME NEW c \in Client, Unmanage(c) PROVE BanningTypeOK'
  BY <1>1, <1>3 DEF BanningTypeOK, Unmanage, UnfocusIf
<1>4. ASSUME NEW c \in Client, NEW tags \in SUBSET Tag, SetTags(c, tags) PROVE BanningTypeOK'
  <2>1. Retag({c} \X (active \ tags), {c} \X tags) /\ c \in managed
    BY <1>4 DEF SetTags
  <2>2. {c} \X (active \ tags) \in SUBSET (Client \X Tag) /\ {c} \X tags \in SUBSET (managed \X Tag)
    BY <1>1, <2>1 DEF BanningTypeOK
  <2>3. QED BY <1>1, <2>1, <2>2, RetagType
<1>5. ASSUME NEW t \in Tag, NEW cs \in SUBSET managed, SetClients(t, cs) PROVE BanningTypeOK'
  <2>1. Retag((Client \ cs) \X {t}, cs \X {t})
    BY <1>5 DEF SetClients
  <2>2. (Client \ cs) \X {t} \in SUBSET (Client \X Tag) /\ cs \X {t} \in SUBSET (managed \X Tag)
    OBVIOUS
  <2>3. QED BY <1>1, <2>1, <2>2, RetagType
<1>6. ASSUME NEW t \in Tag, NEW view \in BOOLEAN, TagView(t, view) PROVE BanningTypeOK'
  BY <1>1, <1>6 DEF BanningTypeOK, TagView, BanningNeedUpdate, UnfocusIf
<1>7. ASSUME NEW t \in Tag, Activate(t) \/ Deactivate(t) PROVE BanningTypeOK'
  BY <1>1, <1>7 DEF BanningTypeOK, Activate, Deactivate, BanningNeedUpdate, UnfocusIf
<1>8. ASSUME NEW c \in Client, NEW s \in BOOLEAN, SetSticky(c, s) PROVE BanningTypeOK'
  BY <1>1, <1>8 DEF BanningTypeOK, SetSticky, With, BanningNeedUpdate, UnfocusIf
<1>9. ASSUME NEW c \in Client, NEW s \in BOOLEAN, SetMinimized(c, s) PROVE BanningTypeOK'
  BY <1>1, <1>9 DEF BanningTypeOK, SetMinimized, With, BanningNeedUpdate, UnfocusIf
<1>10. ASSUME NEW c \in Client, NEW s \in BOOLEAN, SetHidden(c, s) PROVE BanningTypeOK'
  BY <1>1, <1>10 DEF BanningTypeOK, SetHidden, With, BanningNeedUpdate, UnfocusIf
<1>11. ASSUME NEW c \in Client, Focus(c) PROVE BanningTypeOK'
  BY <1>1, <1>11 DEF BanningTypeOK, Focus
<1>12. ASSUME Unfocus \/ RootFocusIn PROVE BanningTypeOK'
  BY <1>1, <1>12 DEF BanningTypeOK, Unfocus, UnfocusIf, RootFocusIn
<1>13. CASE Refresh
  BY <1>1, <1>13 DEF BanningTypeOK, Refresh, BanningRefresh
<1>14. CASE UNCHANGED banningVars
  BY <1>1, <1>14 DEF BanningTypeOK, banningVars
<1>15. TagsInUse \subseteq Tag
  BY <1>1 DEF BanningTypeOK, TagsInUse
<1>16. ASSUME NEW c \in Client, MapRequest(c) PROVE BanningTypeOK'
  BY <1>9, <1>16 DEF MapRequest
<1>17. QED
  BY <1>1, <1>2, <1>3, <1>4, <1>5, <1>6, <1>7, <1>8, <1>9, <1>10, <1>11, <1>12, <1>13, <1>14,
     <1>15, <1>16
  DEF BanningNext, Lua, Event

\* The types of the banning state, for any clients and tags.
THEOREM TypeCorrect == BanningSpec => []BanningTypeOK
<1>1. BanningInit => BanningTypeOK
  BY DEF BanningInit, BanningTypeOK
<1>2. QED BY <1>1, NextType, PTL DEF BanningSpec

-----------------------------------------------------------------------------
(* Banning follows visibility.                                             *)

InactiveTagsUnused == \A p \in tagged : p[2] \in active

\* What makes FocusReachesTheServer inductive: it must hold while a banning is
\* pending as well, for every focused client that is not banned, and such a
\* client is visible.  Then a client that is shown again while it is focused
\* was banned, and client_unban asks for the focus to be set.
FocusSettled ==
    (~needUpdate /\ focus # None /\ focus \notin banned) => (xfocus = focus /\ IsVisible(focus))

IInv == /\ BanningTypeOK
        /\ InactiveTagsUnused
        /\ TagsHoldManagedClients
        /\ BanningFollowsVisibility
        /\ FocusSettled

\* banning_need_update restores the invariant after any change of visibility
\* that leaves the list of clients and the banned clients alone, as long as the
\* X focus only changes when the focused client becomes invisible.
LEMMA BanningNeedUpdateKeeps ==
    ASSUME BanningTypeOK, FocusSettled, BanningNeedUpdate, UNCHANGED <<managed, banned>>,
           focus # None /\ IsVisible(focus)' => xfocus' = xfocus
    PROVE  BanningFollowsVisibility' /\ FocusSettled'
<1>1. BanningFollowsVisibility'
  BY DEF BanningNeedUpdate, BanningFollowsVisibility
<1>2. FocusSettled'
  BY DEF BanningTypeOK, BanningNeedUpdate, UnfocusIf, FocusSettled
<1>3. QED BY <1>1, <1>2

LEMMA RetagKeepsIInv ==
    ASSUME IInv, NEW remove \in SUBSET (Client \X Tag), NEW add \in SUBSET (managed \X active),
           Retag(remove, add)
    PROVE  IInv'
<1>1. BanningTypeOK'
  <2>1. add \in SUBSET (managed \X Tag)
    BY DEF IInv, BanningTypeOK
  <2>2. QED BY <2>1, RetagType DEF IInv
<1>2. InactiveTagsUnused' /\ TagsHoldManagedClients'
  BY DEF IInv, BanningTypeOK, InactiveTagsUnused, TagsHoldManagedClients, Retag
<1>3. BanningFollowsVisibility'
  BY DEF BanningFollowsVisibility, Retag
<1>4. FocusSettled'
  <2>1. SUFFICES ASSUME ~needUpdate', focus' # None, focus' \notin banned'
                 PROVE  xfocus' = focus' /\ IsVisible(focus)'
    BY DEF FocusSettled
  <2>2. ~needUpdate /\ focus' = focus /\ xfocus' = xfocus /\ focus \notin banned
    BY <2>1 DEF Retag, UnfocusIf, IInv, BanningTypeOK
  <2>3. xfocus = focus /\ IsVisible(focus) /\ focus \in managed
    BY <2>1, <2>2 DEF IInv, BanningTypeOK, FocusSettled
  <2>4. OnSelectedTagsWith(focus, tagged')
    <3> DEFINE kept == tagged \ remove
    <3>1. tagged' = kept \cup add
      BY DEF Retag
    <3>2. CASE remove \cap tagged = {}
      <4>1. tagged \subseteq tagged'
        BY <3>1, <3>2
      <4>2. QED BY <2>3, <4>1 DEF IsVisible, OnSelectedTags, OnSelectedTagsWith
    <3>3. CASE remove \cap tagged # {}
      <4>1. IsVisibleWith(focus, kept)
        BY <2>1, <2>3, <3>3 DEF Retag, UnfocusIf
      <4>2. QED BY <3>1, <4>1 DEF IsVisibleWith, OnSelectedTagsWith
    <3>4. QED BY <3>2, <3>3
  <2>5. UNCHANGED <<sticky, minimized, hidden, active, selected>>
    BY DEF Retag
  <2>6. QED BY <2>2, <2>3, <2>4, <2>5 DEF IsVisible, OnSelectedTags, OnSelectedTagsWith
<1>5. QED BY <1>1, <1>2, <1>3, <1>4 DEF IInv

LEMMA UnmanageKeepsIInv ==
    ASSUME IInv, NEW c \in Client, Unmanage(c), BanningTypeOK'
    PROVE  IInv'
<1>1. tagged' = tagged \ ({c} \X active) /\ managed' = managed \ {c}
  BY DEF Unmanage
<1>2. \A p \in tagged' : p[1] # c
  <2>1. SUFFICES ASSUME NEW p \in tagged', p[1] = c PROVE FALSE
    OBVIOUS
  <2>2. p \in Client \X Tag /\ p[2] \in active
    BY <1>1 DEF IInv, BanningTypeOK, InactiveTagsUnused
  <2>3. p \in {c} \X active
    BY <2>1, <2>2
  <2>4. QED BY <1>1, <2>3
<1>3. InactiveTagsUnused' /\ TagsHoldManagedClients'
  BY <1>1, <1>2 DEF IInv, InactiveTagsUnused, TagsHoldManagedClients, Unmanage
<1>4. ASSUME NEW d \in managed', BanningTypeOK PROVE IsVisible(d)' <=> IsVisible(d)
  <2>1. d # c
    BY <1>1
  <2>2. \A t \in Tag : <<d, t>> \in tagged' <=> <<d, t>> \in tagged
    BY <1>1, <2>1
  <2>3. QED
    BY <2>1, <2>2 DEF IInv, BanningTypeOK, Unmanage, IsVisible, OnSelectedTags, OnSelectedTagsWith
<1>5. BanningFollowsVisibility'
  BY <1>1, <1>4 DEF IInv, BanningFollowsVisibility, Unmanage
<1>6. FocusSettled'
  <2>1. SUFFICES ASSUME ~needUpdate', focus' # None, focus' \notin banned'
                 PROVE  xfocus' = focus' /\ IsVisible(focus)'
    BY DEF FocusSettled
  <2>2. ~needUpdate /\ focus' = focus /\ focus # c
    BY <2>1 DEF Unmanage, UnfocusIf
  <2>3. focus \in managed' /\ focus \notin banned
    BY <1>1, <2>1, <2>2 DEF IInv, BanningTypeOK, Unmanage
  <2>4. xfocus = focus /\ IsVisible(focus)
    BY <2>1, <2>2, <2>3 DEF IInv, FocusSettled
  <2>5. xfocus' = focus'
    BY <2>2, <2>4 DEF Unmanage
  <2>6. PICK d \in managed' : d = focus
    BY <2>3
  <2>7. IsVisible(d)'
    BY <1>4, <2>4, <2>6 DEF IInv
  <2>8. QED BY <2>2, <2>5, <2>6, <2>7 DEF IsVisible, OnSelectedTags, OnSelectedTagsWith
<1>7. QED BY <1>3, <1>5, <1>6 DEF IInv

LEMMA RefreshKeepsIInv ==
    ASSUME IInv, Refresh, BanningTypeOK'
    PROVE  IInv'
<1> DEFINE target == IF needUpdate /\ focus # None /\ OnSelectedTags(focus) THEN focus ELSE None
           unban == {target} \cap banned
           min == minimized \ unban
           hid == hidden \ unban
           ban == banned \ unban
           foc == IF target \in unban /\ target \in minimized \cap hidden THEN None ELSE focus
           lazy == lazyBanning \/ unban \cap (minimized \cup hidden) # {}
           xf == IF ~needUpdate \/ target \in min THEN xfocus ELSE target
           visible == {c \in managed : c \notin min /\ c \notin hid /\ OnSelectedTags(c)}
<1>1. /\ minimized' = min /\ hidden' = hid
      /\ UNCHANGED <<managed, active, selected, tagged, sticky>>
      /\ ~lazyBanning'
      /\ BanningRefresh(min, hid, ban, foc, FALSE, lazy, xf)
  BY DEF Refresh, BanningRefresh
<1>2. InactiveTagsUnused' /\ TagsHoldManagedClients'
  BY <1>1 DEF IInv, InactiveTagsUnused, TagsHoldManagedClients
<1>3. \A c \in managed : OnSelectedTags(c)' <=> OnSelectedTags(c)
  BY <1>1 DEF OnSelectedTags, OnSelectedTagsWith
<1>4. \A c \in managed' : IsVisible(c)' <=> c \in visible
  BY <1>1, <1>3 DEF IsVisible
<1>5. CASE lazy
  <2>1. /\ banned' = managed \ visible
        /\ focus' = IF foc \in (managed \ visible) \ ban THEN None ELSE foc
        /\ needUpdate' = (foc \in (visible \cap ban) \cup ((managed \ visible) \ ban))
        /\ xfocus' = IF xf \in (managed \ visible) \ ban THEN None ELSE xf
    BY <1>1, <1>5 DEF BanningRefresh
  <2>2. BanningFollowsVisibility'
    BY <1>1, <1>4, <2>1 DEF BanningFollowsVisibility
  <2>3. FocusSettled'
    <3>1. SUFFICES ASSUME ~needUpdate', focus' # None, focus' \notin banned'
                   PROVE  xfocus' = focus' /\ IsVisible(focus)'
      BY DEF FocusSettled
    <3>2. focus' = foc /\ foc = focus /\ focus \in managed
      BY <2>1, <3>1 DEF IInv, BanningTypeOK
    <3>3. focus \in visible /\ focus \notin ban
      BY <2>1, <3>1, <3>2
    <3>4. xf = focus
      <4>1. CASE needUpdate
        <5>1. target = focus /\ target \notin min
          BY <3>1, <3>2, <3>3, <4>1
        <5>2. QED BY <4>1, <5>1
      <4>2. CASE ~needUpdate
        <5>1. (target = None /\ unban = {}) \/ unban = {None}
          BY <4>2
        <5>2. focus \notin banned
          BY <3>1, <3>2, <3>3, <5>1
        <5>3. QED BY <3>1, <3>2, <4>2, <5>2 DEF IInv, FocusSettled
      <4>3. QED BY <4>1, <4>2
    <3>5. xfocus' = focus'
      BY <2>1, <3>2, <3>3, <3>4
    <3>6. QED
      BY <1>1, <3>2, <3>3, <3>5 DEF IsVisible, OnSelectedTags, OnSelectedTagsWith
  <2>4. QED BY <1>2, <2>2, <2>3 DEF IInv
<1>6. CASE ~lazy
  <2>1. banned' = ban /\ focus' = foc /\ ~needUpdate' /\ xfocus' = xf
    BY <1>1, <1>6 DEF BanningRefresh
  <2>2. ~lazyBanning /\ unban \cap (minimized \cup hidden) = {}
    BY <1>6
  <2>3. \A c \in managed : c \in banned <=> ~IsVisible(c)
    BY <2>2 DEF IInv, BanningFollowsVisibility
  \* Without a pending banning, a banned client on a selected tag is minimized
  \* or hidden, so there was nothing to unban.
  <2>4. unban = {}
    <3>1. SUFFICES ASSUME target \in banned PROVE FALSE
      OBVIOUS
    <3>2. target \in managed /\ target # None
      BY <3>1 DEF IInv, BanningTypeOK
    <3>3. OnSelectedTags(target)
      BY <3>2
    <3>4. QED BY <2>2, <2>3, <3>1, <3>2, <3>3 DEF IsVisible
  <2>5. min = minimized /\ hid = hidden /\ ban = banned /\ foc = focus
    BY <2>4
  <2>6. \A c \in managed : c \in visible <=> IsVisible(c)
    BY <2>5 DEF IsVisible
  <2>7. BanningFollowsVisibility'
    BY <1>1, <1>4, <2>1, <2>3, <2>5, <2>6 DEF BanningFollowsVisibility
  <2>8. FocusSettled'
    <3>1. SUFFICES ASSUME focus # None, focus \notin banned
                   PROVE  xf = focus /\ IsVisible(focus)
      BY <1>1, <2>1, <2>5 DEF FocusSettled, IsVisible, OnSelectedTags, OnSelectedTagsWith
    <3>2. focus \in managed /\ IsVisible(focus)
      BY <2>3, <3>1 DEF IInv, BanningTypeOK
    <3>3. CASE needUpdate
      BY <2>5, <3>1, <3>2, <3>3 DEF IsVisible
    <3>4. CASE ~needUpdate
      BY <3>1, <3>4 DEF IInv, FocusSettled
    <3>5. QED BY <3>2, <3>3, <3>4
  <2>9. QED BY <1>2, <2>7, <2>8 DEF IInv
<1>7. QED BY <1>5, <1>6

LEMMA InitIInv == BanningInit => IInv
BY DEF BanningInit, IInv, BanningTypeOK, InactiveTagsUnused, TagsHoldManagedClients,
       BanningFollowsVisibility, FocusSettled

LEMMA NextIInv == ~InactiveTagsInUse /\ IInv /\ [BanningNext]_banningVars => IInv'
<1>1. SUFFICES ASSUME ~InactiveTagsInUse, IInv, [BanningNext]_banningVars PROVE IInv'
  OBVIOUS
<1> USE <1>1
<1>2. BanningTypeOK'
  BY NextType DEF IInv
<1>3. TagsInUse = active
  BY DEF TagsInUse
<1>4. ASSUME NEW c \in Client, Manage(c) PROVE IInv'
  <2>1. \A d \in managed : IsVisible(d)' <=> IsVisible(d)
    BY <1>4 DEF Manage, IsVisible, OnSelectedTags, OnSelectedTagsWith
  <2>2. ~IsVisible(c)'
    BY <1>4 DEF IInv, BanningTypeOK, TagsHoldManagedClients, Manage,
                IsVisible, OnSelectedTags, OnSelectedTagsWith
  <2>3. BanningFollowsVisibility'
    BY <1>4, <2>1, <2>2 DEF IInv, BanningFollowsVisibility, Manage
  <2>4. FocusSettled'
    <3>1. focus' = focus /\ (IsVisible(focus) => IsVisible(focus)')
      BY <1>4 DEF Manage, IsVisible, OnSelectedTags, OnSelectedTagsWith
    <3>2. QED BY <1>4, <3>1 DEF IInv, FocusSettled, Manage
  <2>5. InactiveTagsUnused' /\ TagsHoldManagedClients'
    BY <1>4 DEF IInv, InactiveTagsUnused, TagsHoldManagedClients, Manage
  <2>6. QED BY <1>2, <2>3, <2>4, <2>5 DEF IInv
<1>5. ASSUME NEW c \in Client, Unmanage(c) PROVE IInv'
  BY <1>2, <1>5, UnmanageKeepsIInv
<1>6. ASSUME NEW c \in Client, NEW tags \in SUBSET active, SetTags(c, tags) PROVE IInv'
  <2>1. Retag({c} \X (active \ tags), {c} \X tags) /\ c \in managed
    BY <1>6 DEF SetTags
  <2>2. {c} \X (active \ tags) \in SUBSET (Client \X Tag) /\ {c} \X tags \in SUBSET (managed \X active)
    BY <2>1 DEF IInv, BanningTypeOK
  <2>3. QED BY <2>1, <2>2, RetagKeepsIInv
<1>7. ASSUME NEW t \in active, NEW cs \in SUBSET managed, SetClients(t, cs) PROVE IInv'
  <2>1. Retag((Client \ cs) \X {t}, cs \X {t})
    BY <1>7 DEF SetClients
  <2>2. (Client \ cs) \X {t} \in SUBSET (Client \X Tag) /\ cs \X {t} \in SUBSET (managed \X active)
    BY DEF IInv, BanningTypeOK
  <2>3. QED BY <2>1, <2>2, RetagKeepsIInv
<1>8. ASSUME BanningNeedUpdate, UNCHANGED <<managed, tagged, banned>>, InactiveTagsUnused',
             focus # None /\ IsVisible(focus)' => xfocus' = xfocus
      PROVE  IInv'
  <2>1. BanningFollowsVisibility' /\ FocusSettled'
    BY <1>8, BanningNeedUpdateKeeps DEF IInv
  <2>2. QED BY <1>2, <1>8, <2>1 DEF IInv, TagsHoldManagedClients
<1>9. ASSUME NEW t \in active, NEW view \in BOOLEAN, TagView(t, view) PROVE IInv'
  BY <1>8, <1>9 DEF TagView, IInv, InactiveTagsUnused
<1>10. ASSUME NEW t \in Tag, Deactivate(t) PROVE IInv'
  <2>1. InactiveTagsUnused'
    <3>1. \A p \in tagged : p[2] # t
      <4>1. SUFFICES ASSUME NEW p \in tagged, p[2] = t PROVE FALSE
        OBVIOUS
      <4>2. p = <<p[1], t>> /\ p[1] \in Client
        BY <4>1 DEF IInv, BanningTypeOK
      <4>3. QED BY <1>10, <4>2 DEF Deactivate
    <3>2. QED BY <1>10, <3>1 DEF IInv, InactiveTagsUnused, Deactivate
  <2>2. CASE t \in selected
    BY <1>8, <1>10, <2>1, <2>2 DEF Deactivate
  <2>3. CASE t \notin selected
    <3>1. active' \cap selected' = active \cap selected
      BY <1>10, <2>3 DEF Deactivate
    <3>2. UNCHANGED <<managed, tagged, sticky, minimized, hidden, banned, xfocus, focus,
                      needUpdate, lazyBanning>>
      BY <1>10, <2>3 DEF Deactivate
    <3>3. BanningFollowsVisibility' /\ FocusSettled' /\ TagsHoldManagedClients'
      BY <3>1, <3>2 DEF IInv, BanningFollowsVisibility, FocusSettled, TagsHoldManagedClients,
                        IsVisible, OnSelectedTags, OnSelectedTagsWith
    <3>4. QED BY <1>2, <2>1, <3>3 DEF IInv
  <2>4. QED BY <2>2, <2>3
<1>11. ASSUME NEW t \in Tag, Activate(t) PROVE IInv'
  <2>1. \A c \in Client : OnSelectedTags(c)' <=> OnSelectedTags(c)
    BY <1>11 DEF IInv, BanningTypeOK, InactiveTagsUnused, Activate, OnSelectedTags, OnSelectedTagsWith
  <2>2. InactiveTagsUnused' /\ TagsHoldManagedClients'
    BY <1>11 DEF IInv, InactiveTagsUnused, TagsHoldManagedClients, Activate
  <2>3. BanningFollowsVisibility'
    BY <1>11, <2>1 DEF IInv, BanningTypeOK, BanningFollowsVisibility, Activate, IsVisible
  <2>4. FocusSettled'
    <3>1. focus' = focus /\ (IsVisible(focus) => IsVisible(focus)')
      BY <1>11 DEF Activate, IsVisible, OnSelectedTags, OnSelectedTagsWith
    <3>2. QED BY <1>11, <3>1 DEF IInv, FocusSettled, Activate
  <2>5. QED BY <1>2, <2>2, <2>3, <2>4 DEF IInv
<1>12. ASSUME NEW c \in Client, NEW s \in BOOLEAN, SetSticky(c, s) \/ SetHidden(c, s) PROVE IInv'
  BY <1>8, <1>12 DEF SetSticky, SetHidden, IInv, InactiveTagsUnused
<1>13. ASSUME NEW c \in Client, NEW s \in BOOLEAN, SetMinimized(c, s) PROVE IInv'
  <2>1. InactiveTagsUnused'
    BY <1>13 DEF SetMinimized, IInv, InactiveTagsUnused
  <2>2. BanningNeedUpdate /\ UNCHANGED <<managed, tagged, banned>>
    BY <1>13 DEF SetMinimized
  <2>3. BanningFollowsVisibility'
    BY <2>2 DEF BanningNeedUpdate, BanningFollowsVisibility
  <2>4. FocusSettled'
    <3>1. SUFFICES ASSUME ~needUpdate', focus' # None, focus' \notin banned'
                   PROVE  xfocus' = focus' /\ IsVisible(focus)'
      BY DEF FocusSettled
    <3>2. ~needUpdate /\ focus' = focus /\ focus \in managed /\ xfocus = focus
      BY <2>2, <3>1 DEF BanningNeedUpdate, UnfocusIf, IInv, BanningTypeOK, FocusSettled
    <3>3. IsVisible(focus)'
      <4>1. PICK d \in managed' : d = focus'
        BY <2>2, <3>2
      <4>2. IsVisible(d)'
        BY <2>2, <3>1, <3>2, <4>1 DEF BanningNeedUpdate, UnfocusIf
      <4>3. QED BY <4>1, <4>2 DEF IsVisible, OnSelectedTags, OnSelectedTagsWith
    <3>4. focus' \notin minimized'
      BY <3>3 DEF IsVisible
    <3>5. xfocus' = xfocus
      BY <1>13, <3>2, <3>4 DEF SetMinimized, With, IInv, BanningTypeOK
    <3>6. QED BY <3>2, <3>3, <3>5
  <2>5. QED BY <1>2, <2>1, <2>2, <2>3, <2>4 DEF IInv, TagsHoldManagedClients
<1>14. ASSUME NEW c \in Client, Focus(c) PROVE IInv'
  BY <1>2, <1>14 DEF IInv, InactiveTagsUnused, TagsHoldManagedClients, BanningFollowsVisibility,
     FocusSettled, Focus, IsVisible, OnSelectedTags, OnSelectedTagsWith
<1>15. ASSUME Unfocus \/ RootFocusIn PROVE IInv'
  BY <1>2, <1>15 DEF IInv, InactiveTagsUnused, TagsHoldManagedClients, BanningFollowsVisibility,
     FocusSettled, Unfocus, UnfocusIf, RootFocusIn, IsVisible, OnSelectedTags, OnSelectedTagsWith
<1>16. CASE Refresh
  BY <1>2, <1>16, RefreshKeepsIInv
<1>17. CASE UNCHANGED banningVars
  BY <1>2, <1>17 DEF banningVars, IInv, InactiveTagsUnused, TagsHoldManagedClients,
     BanningFollowsVisibility, FocusSettled, IsVisible, OnSelectedTags, OnSelectedTagsWith
<1>18. ASSUME NEW c \in Client, MapRequest(c) PROVE IInv'
  BY <1>13, <1>18 DEF MapRequest
<1>19. QED
  BY <1>3, <1>4, <1>5, <1>6, <1>7, <1>9, <1>10, <1>11, <1>12, <1>13, <1>14, <1>15, <1>16, <1>17,
     <1>18
  DEF BanningNext, Lua, Event

LEMMA Inductive ==
    ASSUME ~InactiveTagsInUse
    PROVE  BanningSpec => []IInv
<1>1. IInv /\ [BanningNext]_banningVars => IInv'
  BY NextIInv
<1>2. QED BY <1>1, InitIInv, PTL DEF BanningSpec

\* As long as inactive tags are left alone, no operation forgets to announce a
\* change of visibility: whenever nothing is pending, banned means invisible.
THEOREM BannedIsInvisible ==
    ASSUME ~InactiveTagsInUse
    PROVE  BanningSpec => []BanningFollowsVisibility
<1>1. IInv => BanningFollowsVisibility
  BY DEF IInv
<1>2. QED BY <1>1, Inductive, PTL

\* Under the same condition, a focused client that is visible has the keyboard
\* as soon as nothing is pending.
THEOREM FocusSettles ==
    ASSUME ~InactiveTagsInUse
    PROVE  BanningSpec => []FocusReachesTheServer
<1>1. IInv => FocusReachesTheServer
  BY DEF IInv, BanningTypeOK, BanningFollowsVisibility, FocusSettled, FocusReachesTheServer
<1>2. QED BY <1>1, Inductive, PTL

\* Under the same condition, no tag remembers a client that is gone.
THEOREM NoDeadTaggedClient ==
    ASSUME ~InactiveTagsInUse
    PROVE  BanningSpec => []TagsHoldManagedClients
<1>1. IInv => TagsHoldManagedClients
  BY DEF IInv
<1>2. QED BY <1>1, Inductive, PTL

-----------------------------------------------------------------------------
(* Hiding a focused client.                                                *)

Hides(c) == focus = c /\ IsVisible(c) /\ c \in managed' /\ ~IsVisible(c)'

LEMMA HidingStep ==
    ASSUME BanningTypeOK, [BanningNext]_banningVars, NEW c \in managed, Hides(c)
    PROVE  focus' # c
<1>1. c \in Client /\ c # None /\ focus = c
  BY DEF BanningTypeOK, Hides
<1>2. CASE BanningNeedUpdate
  BY <1>1, <1>2 DEF BanningNeedUpdate, UnfocusIf, Hides
<1>3. ASSUME NEW d \in Client, Manage(d) PROVE FALSE
  BY <1>3 DEF Manage, Hides, IsVisible, OnSelectedTags, OnSelectedTagsWith
<1>4. ASSUME NEW d \in Client, Unmanage(d) PROVE FALSE
  <2>1. c # d
    BY <1>4 DEF Unmanage, Hides
  <2>2. \A t \in Tag : <<c, t>> \in tagged' <=> <<c, t>> \in tagged
    BY <1>4, <2>1 DEF Unmanage
  <2>3. QED
    BY <1>4, <2>1, <2>2 DEF Unmanage, Hides, BanningTypeOK, IsVisible, OnSelectedTags, OnSelectedTagsWith
<1>5. ASSUME NEW remove, NEW add, Retag(remove, add) PROVE focus' # c
  <2> DEFINE kept == tagged \ remove
  <2>1. tagged' = kept \cup add
    BY <1>5 DEF Retag
  <2>2. ~IsVisibleWith(c, tagged')
    BY <1>5 DEF Retag, Hides, IsVisible, OnSelectedTags, IsVisibleWith, OnSelectedTagsWith
  <2>3. IsVisibleWith(c, tagged)
    BY DEF Hides, IsVisible, OnSelectedTags, IsVisibleWith
  <2>4. remove \cap tagged # {}
    BY <2>1, <2>2, <2>3 DEF IsVisibleWith, OnSelectedTagsWith
  <2>5. ~IsVisibleWith(c, kept)
    BY <2>1, <2>2 DEF IsVisibleWith, OnSelectedTagsWith
  <2>6. QED BY <1>1, <1>5, <2>4, <2>5 DEF Retag, UnfocusIf
<1>6. ASSUME NEW t \in Tag, Deactivate(t) PROVE focus' # c
  <2>1. CASE t \in selected
    BY <1>2, <1>6, <2>1 DEF Deactivate
  <2>2. CASE t \notin selected
    <3>1. active' \cap selected' = active \cap selected
      BY <1>6, <2>2 DEF Deactivate
    <3>2. QED
      BY <1>6, <3>1 DEF Deactivate, Hides, IsVisible, OnSelectedTags, OnSelectedTagsWith
  <2>3. QED BY <2>1, <2>2
<1>7. ASSUME NEW t \in Tag, Activate(t) PROVE FALSE
  BY <1>7 DEF Activate, Hides, IsVisible, OnSelectedTags, OnSelectedTagsWith
<1>8. ASSUME NEW d \in Client, Focus(d) PROVE FALSE
  BY <1>8 DEF Focus, Hides, IsVisible, OnSelectedTags, OnSelectedTagsWith
<1>9. ASSUME Unfocus \/ RootFocusIn PROVE FALSE
  BY <1>9 DEF Unfocus, RootFocusIn, Hides, IsVisible, OnSelectedTags, OnSelectedTagsWith
<1>10. CASE Refresh
  BY <1>10 DEF Refresh, Hides, IsVisible, OnSelectedTags, OnSelectedTagsWith
<1>11. CASE UNCHANGED banningVars
  BY <1>11 DEF banningVars, Hides, IsVisible, OnSelectedTags, OnSelectedTagsWith
<1>12. ASSUME NEW d \in Client, NEW s \in BOOLEAN,
              SetSticky(d, s) \/ SetMinimized(d, s) \/ SetHidden(d, s) \/ MapRequest(d)
       PROVE  focus' # c
  BY <1>2, <1>12 DEF SetSticky, SetMinimized, SetHidden, MapRequest
<1>13. ASSUME NEW t, NEW view, TagView(t, view) PROVE focus' # c
  BY <1>2, <1>13 DEF TagView
<1>14. ASSUME NEW d, NEW tags, SetTags(d, tags) PROVE focus' # c
  BY <1>5, <1>14 DEF SetTags
<1>15. ASSUME NEW t, NEW cs, SetClients(t, cs) PROVE focus' # c
  BY <1>5, <1>15 DEF SetClients
<1>16. QED
  BY <1>3, <1>4, <1>6, <1>7, <1>8, <1>9, <1>10, <1>11, <1>12, <1>13, <1>14, <1>15
  DEF BanningNext, Lua, Event

\* Whatever Lua code does with tags, active or not, a focused client that
\* becomes invisible loses the focus in the very same step.
THEOREM HiddenIsUnfocused == BanningSpec => HidingUnfocuses
<1>1. BanningTypeOK /\ [BanningNext]_banningVars =>
        [\A c \in managed :
            (focus = c /\ IsVisible(c) /\ c \in managed' /\ ~IsVisible(c)') => focus' # c]_banningVars
  BY HidingStep DEF Hides
<1>2. QED BY <1>1, TypeCorrect, PTL DEF BanningSpec, HidingUnfocuses

-----------------------------------------------------------------------------
(***************************************************************************)
(* Screens.                                                                *)
(***************************************************************************)
HIDE BanningAssumption

-----------------------------------------------------------------------------
(* What is kept of a sequence.                                             *)

LEMMA LeastOf == ASSUME NEW T, T \subseteq Nat, T # {} PROVE \E x \in T : \A y \in T : x <= y
<1> DEFINE R == OpToRel(<, Nat)
<1>1. IsWellFoundedOn(R, Nat)
  BY NatLessThanWellFounded
<1>2. ASSUME NEW m \in Nat, NEW n \in Nat, m < n PROVE <<m, n>> \in R
  BY <1>2 DEF OpToRel
<1> HIDE DEF R
<1>3. PICK x \in T : \A y \in T : <<y, x>> \notin R
  BY <1>1, WFMin
<1>4. ASSUME NEW y \in T PROVE x <= y
  <2>1. x \in Nat /\ y \in Nat /\ ~(y < x)
    BY <1>2, <1>3
  <2> QED BY <2>1
<1> QED BY <1>4

KeptStep(s, S, f, n) ==
    IF n = 0 THEN <<>> ELSE IF s[n] \in S THEN Append(f[n - 1], s[n]) ELSE f[n - 1]

KeptSteps(s, S, f) == [n \in 0..Len(s) |-> KeptStep(s, S, f, n)]

LEMMA KeptExists == ASSUME NEW S, NEW s, Len(s) \in Nat PROVE \E f : f = KeptSteps(s, S, f)
<1> DEFINE Missing == {m \in 0..Len(s) : ~\E f : f = [n \in 0..m |-> KeptStep(s, S, f, n)]}
<1>1. Len(s) \in Nat
  OBVIOUS
<1>2. SUFFICES ASSUME Missing # {} PROVE FALSE
  BY <1>1 DEF KeptSteps
<1>3. Missing \subseteq Nat
  BY <1>1
<1>4. PICK m \in Missing : \A x \in Missing : m <= x
  <2> HIDE DEF Missing
  <2> QED BY <1>2, <1>3, LeastOf
<1>5. CASE m = 0
  <2>1. PICK f : f = [n \in 0..0 |-> <<>>]
    OBVIOUS
  <2>2. f = [n \in 0..0 |-> KeptStep(s, S, f, n)]
    BY <2>1 DEF KeptStep
  <2> QED BY <1>5, <2>2
<1>6. CASE m # 0
  <2>1. m \in Nat /\ m - 1 \in 0..Len(s) /\ ~(m <= m - 1) /\ m \in 0..Len(s)
    BY <1>1, <1>3, <1>6
  <2>2. m - 1 \notin Missing
    <3> HIDE DEF Missing
    <3> QED BY <1>4, <2>1
  <2>3. PICK f : f = [n \in 0..m - 1 |-> KeptStep(s, S, f, n)]
    BY <2>1, <2>2
  <2>4. PICK g : g = [n \in 0..m |-> IF n = m THEN KeptStep(s, S, f, m) ELSE f[n]]
    OBVIOUS
  <2>5. ASSUME NEW n \in 0..m PROVE g[n] = KeptStep(s, S, g, n)
    <3>1. CASE n = m
      <4>1. m - 1 \in 0..m /\ m - 1 # m
        BY <2>1
      <4>2. g[m - 1] = f[m - 1] /\ g[m] = KeptStep(s, S, f, m)
        BY <2>1, <2>4, <4>1
      <4> QED BY <3>1, <4>2 DEF KeptStep
    <3>2. CASE n # m
      <4>1. n \in 0..m - 1 /\ (n # 0 => n - 1 \in 0..m /\ n - 1 # m)
        BY <2>1, <3>2
      <4>2. g[n] = f[n] /\ (n # 0 => g[n - 1] = f[n - 1])
        BY <2>4, <3>2, <4>1
      <4>3. f[n] = KeptStep(s, S, f, n)
        BY <2>3, <4>1
      <4> QED BY <4>2, <4>3 DEF KeptStep
    <3> QED BY <3>1, <3>2
  <2>6. g = [n \in 0..m |-> g[n]]
    BY <2>4
  <2>7. g = [n \in 0..m |-> KeptStep(s, S, g, n)]
    BY <2>5, <2>6
  <2> QED BY <2>7
<1> QED BY <1>5, <1>6

\* t is what is kept of the first n elements of s, as far as the proofs need to know.
KeptOf(s, S, n, t, T) ==
    /\ t \in Seq(T) /\ Len(t) <= n
    /\ \A k \in 1..Len(t) : \E i \in 1..n : s[i] \in S /\ t[k] = s[i]
    /\ \A i \in 1..n : s[i] \in S => \E k \in 1..Len(t) : t[k] = s[i]
    /\ (\A i, j \in 1..n : s[i] = s[j] => i = j) => \A k, l \in 1..Len(t) : t[k] = t[l] => k = l
    /\ n > 0 /\ s[1] \in S => Len(t) > 0 /\ t[1] = s[1]

LEMMA KeptOneMore ==
    ASSUME NEW T, NEW S, NEW s \in Seq(T), NEW n \in Nat, n + 1 \in 1..Len(s), NEW t, KeptOf(s, S, n, t, T)
    PROVE  KeptOf(s, S, n + 1, IF s[n + 1] \in S THEN Append(t, s[n + 1]) ELSE t, T)
<1>1. /\ t \in Seq(T) /\ Len(t) \in Nat /\ s[n + 1] \in T /\ Len(t) <= n
      /\ 1..n \subseteq 1..n + 1 /\ n + 1 \in 1..n + 1 /\ \A i \in 1..n + 1 : i \in 1..n \/ i = n + 1
  BY LenProperties, ElementOfSeq DEF KeptOf
<1>2. CASE s[n + 1] \notin S
  <2>1. KeptOf(s, S, n + 1, t, T)
    <3>1. \A k \in 1..Len(t) : \E i \in 1..n + 1 : s[i] \in S /\ t[k] = s[i]
      BY <1>1 DEF KeptOf
    <3>2. \A i \in 1..n + 1 : s[i] \in S => \E k \in 1..Len(t) : t[k] = s[i]
      BY <1>1, <1>2 DEF KeptOf
    <3>3. (\A i, j \in 1..n + 1 : s[i] = s[j] => i = j) => \A k, l \in 1..Len(t) : t[k] = t[l] => k = l
      BY <1>1 DEF KeptOf
    <3>4. n + 1 > 0 /\ s[1] \in S => Len(t) > 0 /\ t[1] = s[1]
      <4>1. n = 0 \/ n > 0
        OBVIOUS
      <4> QED BY <1>2, <4>1 DEF KeptOf
    <3>5. Len(t) <= n + 1
      BY <1>1
    <3> QED BY <1>1, <3>1, <3>2, <3>3, <3>4, <3>5 DEF KeptOf
  <2> QED BY <1>2, <2>1
<1>3. CASE s[n + 1] \in S
  <2>1. PICK u : u = Append(t, s[n + 1])
    OBVIOUS
  <2>2. /\ u \in Seq(T) /\ Len(u) = Len(t) + 1 /\ u[Len(t) + 1] = s[n + 1] /\ \A k \in 1..Len(t) : u[k] = t[k]
        /\ 1..Len(t) \subseteq 1..Len(u) /\ Len(t) + 1 \in 1..Len(u)
        /\ \A k \in 1..Len(u) : k \in 1..Len(t) \/ k = Len(t) + 1
    BY <1>1, <2>1, AppendProperties
  <2>3. \A k \in 1..Len(u) : \E i \in 1..n + 1 : s[i] \in S /\ u[k] = s[i]
    <3>1. ASSUME NEW k \in 1..Len(t) PROVE \E i \in 1..n + 1 : s[i] \in S /\ u[k] = s[i]
      BY <1>1, <2>2 DEF KeptOf
    <3> QED BY <1>1, <1>3, <2>2, <3>1
  <2>4. \A i \in 1..n + 1 : s[i] \in S => \E k \in 1..Len(u) : u[k] = s[i]
    <3>1. ASSUME NEW i \in 1..n, s[i] \in S PROVE \E k \in 1..Len(u) : u[k] = s[i]
      <4>1. PICK k \in 1..Len(t) : t[k] = s[i]
        BY <3>1 DEF KeptOf
      <4> QED BY <2>2, <4>1
    <3> QED BY <1>1, <2>2, <3>1
  <2>5. ASSUME \A i, j \in 1..n + 1 : s[i] = s[j] => i = j, NEW k \in 1..Len(u), NEW l \in 1..Len(u), u[k] = u[l]
        PROVE  k = l
    <3>1. ASSUME NEW h \in 1..Len(t) PROVE u[h] # u[Len(t) + 1]
      <4>1. PICK i \in 1..n : t[h] = s[i]
        BY DEF KeptOf
      <4>2. i # n + 1
        OBVIOUS
      <4> QED BY <1>1, <2>2, <2>5, <4>1, <4>2
    <3>2. \A i, j \in 1..n : s[i] = s[j] => i = j
      BY <1>1, <2>5
    <3>3. \A h, g \in 1..Len(t) : t[h] = t[g] => h = g
      BY <3>2 DEF KeptOf
    <3>4. CASE k \in 1..Len(t) /\ l \in 1..Len(t)
      BY <2>2, <2>5, <3>3, <3>4
    <3>5. CASE k = Len(t) + 1 \/ l = Len(t) + 1
      BY <2>2, <2>5, <3>1, <3>5
    <3> QED BY <2>2, <3>4, <3>5
  <2>6. s[1] \in S => Len(u) > 0 /\ u[1] = s[1]
    <3>1. CASE n = 0
      <4>1. Len(t) = 0
        BY <1>1, <3>1
      <4> QED BY <2>2, <3>1, <4>1
    <3>2. CASE n # 0
      <4>1. s[1] \in S => Len(t) > 0 /\ t[1] = s[1]
        BY <3>2 DEF KeptOf
      <4> QED BY <1>1, <2>2, <4>1
    <3> QED BY <3>1, <3>2
  <2>7. Len(u) <= n + 1
    BY <1>1, <2>2
  <2>8. KeptOf(s, S, n + 1, u, T)
    BY <2>2, <2>3, <2>4, <2>5, <2>6, <2>7 DEF KeptOf
  <2> QED BY <1>3, <2>1, <2>8
<1> QED BY <1>2, <1>3

LEMMA KeptIsKept ==
    ASSUME NEW T, NEW S, NEW s \in Seq(T)
    PROVE  KeptOf(s, S, Len(s), Kept(s, S), T)
<1> DEFINE kept == CHOOSE f : f = [n \in 0..Len(s) |->
                       IF n = 0 THEN <<>> ELSE IF s[n] \in S THEN Append(f[n - 1], s[n]) ELSE f[n - 1]]
<1>1. Kept(s, S) = kept[Len(s)] /\ Len(s) \in Nat
  BY LenProperties DEF Kept
<1>2. \E f : f = [n \in 0..Len(s) |->
                     IF n = 0 THEN <<>> ELSE IF s[n] \in S THEN Append(f[n - 1], s[n]) ELSE f[n - 1]]
  <2>1. PICK f : f = KeptSteps(s, S, f)
    BY <1>1, KeptExists
  <2> QED BY <2>1 DEF KeptSteps, KeptStep
<1>3. kept = [n \in 0..Len(s) |->
                 IF n = 0 THEN <<>> ELSE IF s[n] \in S THEN Append(kept[n - 1], s[n]) ELSE kept[n - 1]]
  BY <1>2
<1> HIDE DEF kept
<1> DEFINE Wrong == {m \in 0..Len(s) : ~KeptOf(s, S, m, kept[m], T)}
<1>4. SUFFICES ASSUME Wrong # {} PROVE FALSE
  <2>1. Len(s) \in 0..Len(s)
    BY <1>1
  <2> QED BY <1>1, <2>1
<1>5. Wrong \subseteq Nat
  BY <1>1
<1>6. PICK m \in Wrong : \A x \in Wrong : m <= x
  <2> HIDE DEF Wrong
  <2> QED BY <1>4, <1>5, LeastOf
<1>7. CASE m = 0
  <2>1. kept[m] = <<>>
    BY <1>1, <1>3, <1>7
  <2>2. <<>> \in Seq(T) /\ Len(<<>>) = 0 /\ 1..0 = {}
    OBVIOUS
  <2>3. KeptOf(s, S, 0, <<>>, T)
    BY <2>2 DEF KeptOf
  <2>4. ~KeptOf(s, S, m, kept[m], T)
    BY <1>6
  <2> QED BY <1>7, <2>1, <2>3, <2>4
<1>8. CASE m # 0
  <2>1. m \in Nat /\ m - 1 \in 0..Len(s) /\ m - 1 \in Nat /\ ~(m <= m - 1) /\ m \in 0..Len(s) /\ (m - 1) + 1 = m
    BY <1>1, <1>5, <1>8
  <2>2. m - 1 \notin Wrong
    <3> HIDE DEF Wrong
    <3> QED BY <1>6, <2>1
  <2>3. PICK t : t = kept[m - 1]
    OBVIOUS
  <2>4. KeptOf(s, S, m - 1, t, T)
    BY <2>1, <2>2, <2>3
  <2>5. kept[m] = IF s[m] \in S THEN Append(t, s[m]) ELSE t
    BY <1>3, <1>8, <2>1, <2>3
  <2>6. m \in 1..Len(s)
    BY <1>1, <2>1, <1>8
  <2>7. KeptOf(s, S, m, IF s[m] \in S THEN Append(t, s[m]) ELSE t, T)
    BY <2>1, <2>4, <2>6, KeptOneMore
  <2>8. ~KeptOf(s, S, m, kept[m], T)
    BY <1>6
  <2> QED BY <2>5, <2>7, <2>8
<1> QED BY <1>7, <1>8

LEMMA KeptElements ==
    ASSUME NEW T, NEW S, NEW s \in Seq(T), NEW t, t = Kept(s, S)
    PROVE  /\ t \in Seq(T) /\ Len(t) \in Nat /\ Len(t) <= Len(s)
           /\ Range(s) \subseteq T /\ Range(t) = Range(s) \cap S
           /\ IsInjective(s) => IsInjective(t)
           /\ s # <<>> /\ s[1] \in S => t # <<>> /\ t[1] = s[1]
<1>1. KeptOf(s, S, Len(s), t, T)
  BY KeptIsKept
<1>2. /\ Len(s) \in Nat /\ DOMAIN s = 1..Len(s) /\ t \in Seq(T) /\ Len(t) \in Nat /\ DOMAIN t = 1..Len(t)
      /\ Len(t) <= Len(s) /\ \A i \in 1..Len(s) : s[i] \in T
  BY <1>1, LenProperties, ElementOfSeq DEF KeptOf
<1>3. Range(s) \subseteq T
  BY <1>2 DEF Range
<1>4. Range(t) = Range(s) \cap S
  <2>1. ASSUME NEW x \in Range(t) PROVE x \in Range(s) \cap S
    <3>1. PICK k \in 1..Len(t) : x = t[k]
      BY <1>2 DEF Range
    <3>2. PICK i \in 1..Len(s) : s[i] \in S /\ t[k] = s[i]
      BY <1>1 DEF KeptOf
    <3> QED BY <1>2, <3>1, <3>2 DEF Range
  <2>2. ASSUME NEW x \in Range(s), x \in S PROVE x \in Range(t)
    <3>1. PICK i \in 1..Len(s) : x = s[i]
      BY <1>2 DEF Range
    <3>2. PICK k \in 1..Len(t) : t[k] = s[i]
      BY <1>1, <2>2, <3>1 DEF KeptOf
    <3> QED BY <1>2, <3>1, <3>2 DEF Range
  <2> QED BY <2>1, <2>2
<1>5. IsInjective(s) => IsInjective(t)
  BY <1>1, <1>2 DEF KeptOf, IsInjective
<1>6. s # <<>> /\ s[1] \in S => t # <<>> /\ t[1] = s[1]
  <2>1. s # <<>> => Len(s) > 0
    BY <1>2, EmptySeq
  <2>2. Len(t) > 0 => t # <<>>
    BY <1>2
  <2> QED BY <1>1, <2>1, <2>2 DEF KeptOf
<1> QED BY <1>2, <1>3, <1>4, <1>5, <1>6

-----------------------------------------------------------------------------
(* Least and largest.                                                      *)

LEMMA MinOf == ASSUME NEW A, A \subseteq Nat, A # {} PROVE Min(A) \in A
<1>1. \E x \in A : \A y \in A : x =< y
  BY LeastOf
<1> QED BY <1>1 DEF Min

LEMMA MaxOf == ASSUME NEW n \in Nat, NEW A, A \subseteq 1..n, A # {} PROVE Max(A) \in A
<1> DEFINE B == {n - x : x \in A}
<1>1. B \subseteq Nat /\ B # {}
  <2>1. \A x \in A : n - x \in Nat
    OBVIOUS
  <2> QED BY <2>1
<1>2. PICK b \in B : \A y \in B : b <= y
  <2> HIDE DEF B
  <2> QED BY <1>1, LeastOf
<1>3. PICK x \in A : b = n - x
  OBVIOUS
<1>4. ASSUME NEW y \in A PROVE x >= y
  <2>1. n - y \in B
    OBVIOUS
  <2>2. b <= n - y
    <3> HIDE DEF B
    <3> QED BY <1>2, <2>1
  <2> QED BY <1>3, <2>2
<1> QED BY <1>4 DEF Max

-----------------------------------------------------------------------------
(* The screens that are found.                                             *)

\* What monitors are, when they have ids and when they have none.
AnyMonitor == [id : Output \cup {NONE}, x : Int, w : Nat \ {0}]

\* One of the largest monitors, the first of them, is not hidden.
LEMMA SomeIsLargest ==
    ASSUME NEW ms \in Seq(AnyMonitor), ms # <<>>
    PROVE  \E i \in 1..Len(ms) : \A j \in 1..Len(ms) : ms[j].w <= ms[i].w
<1>1. Len(ms) \in Nat \ {0} /\ \A i \in 1..Len(ms) : ms[i].w \in Nat
  <2>1. \A i \in 1..Len(ms) : ms[i] \in AnyMonitor
    BY ElementOfSeq
  <2> QED BY <2>1, LenProperties, EmptySeq DEF AnyMonitor
<1> DEFINE Without == {n \in 1..Len(ms) : ~\E i \in 1..n : \A j \in 1..n : ms[j].w <= ms[i].w}
<1>2. SUFFICES ASSUME Without # {} PROVE FALSE
  <2>1. Len(ms) \in 1..Len(ms)
    BY <1>1
  <2> QED BY <2>1
<1>3. Without \subseteq Nat
  OBVIOUS
<1>4. PICK n \in Without : \A x \in Without : n <= x
  <2> HIDE DEF Without
  <2> QED BY <1>2, <1>3, LeastOf
<1>5. n \in 1..Len(ms) /\ n \in Nat /\ ~\E i \in 1..n : \A j \in 1..n : ms[j].w <= ms[i].w
  OBVIOUS
<1>6. CASE n = 1
  BY <1>1, <1>5, <1>6
<1>7. CASE n # 1
  <2>1. n - 1 \in 1..Len(ms) /\ ~(n <= n - 1)
    BY <1>1, <1>5, <1>7
  <2>2. n - 1 \notin Without
    <3> HIDE DEF Without
    <3> QED BY <1>4, <2>1
  <2>3. PICK i \in 1..n - 1 : \A j \in 1..n - 1 : ms[j].w <= ms[i].w
    BY <2>1, <2>2
  <2>4. i \in 1..n /\ i \in 1..Len(ms) /\ n \in 1..n /\ \A j \in 1..n : j \in 1..n - 1 \/ j = n
    <3>1. \A j \in 1..n : j \in 1..n - 1 \/ j = n
      BY <1>5
    <3>2. i \in 1..n /\ n \in 1..n
      BY <1>5, <2>1
    <3>3. \A l \in 1..n : l \in 1..Len(ms)
      BY <1>1, <1>5
    <3> QED BY <3>1, <3>2, <3>3
  <2>5. ms[i].w \in Nat /\ ms[n].w \in Nat /\ \A j \in 1..n - 1 : ms[j].w \in Nat
    BY <1>1, <1>5, <2>4
  <2>6. CASE ms[n].w <= ms[i].w
    BY <1>5, <2>3, <2>4, <2>6
  <2>7. CASE ~(ms[n].w <= ms[i].w)
    <3>1. ASSUME NEW j \in 1..n PROVE ms[j].w <= ms[n].w
      <4>1. PICK a, b, d : a = ms[j].w /\ b = ms[n].w /\ d = ms[i].w
        OBVIOUS
      <4>2. b \in Nat /\ d \in Nat /\ ~(b <= d)
        BY <2>5, <2>7, <4>1
      <4>3. a = b \/ (a \in Nat /\ a <= d)
        BY <2>3, <2>4, <2>5, <4>1
      <4>4. CASE a = b
        <5>1. b <= b
          BY <4>2
        <5> QED BY <4>1, <4>4, <5>1
      <4>5. CASE a \in Nat /\ a <= d
        <5>1. a <= b
          BY <4>2, <4>5
        <5> QED BY <4>1, <5>1
      <4> QED BY <4>3, <4>4, <4>5
    <3> QED BY <1>5, <2>4, <3>1
  <2> QED BY <2>6, <2>7
<1> QED BY <1>6, <1>7

LEMMA SomeIsNotHidden ==
    ASSUME NEW ms \in Seq(AnyMonitor), ms # <<>>
    PROVE  \E i \in 1..Len(ms) : ~Hidden(ms, i)
<1>1. PICK l \in 1..Len(ms) : \A j \in 1..Len(ms) : ms[j].w <= ms[l].w
  BY SomeIsLargest
<1>2. Len(ms) \in Nat /\ DOMAIN ms = 1..Len(ms) /\ \A i \in 1..Len(ms) : ms[i].w \in Nat
  <2>1. \A i \in 1..Len(ms) : ms[i] \in AnyMonitor
    BY ElementOfSeq
  <2> QED BY <2>1, LenProperties DEF AnyMonitor
<1> DEFINE Largest == {i \in 1..Len(ms) : ms[i].w = ms[l].w}
<1>3. Largest \subseteq Nat /\ Largest # {}
  BY <1>1
<1>4. PICK i \in Largest : \A j \in Largest : i <= j
  <2> HIDE DEF Largest
  <2> QED BY <1>3, LeastOf
<1>5. i \in 1..Len(ms) /\ ms[i].w = ms[l].w
  OBVIOUS
<1>6. ASSUME NEW j \in 1..Len(ms) PROVE ~(ms[j].w > ms[i].w \/ (ms[j].w = ms[i].w /\ j < i))
  <2>1. ms[j].w <= ms[i].w /\ ms[j].w \in Nat /\ ms[i].w \in Nat
    BY <1>1, <1>2, <1>5
  <2>2. ms[j].w = ms[i].w => i <= j
    BY <1>4, <1>5
  <2> QED BY <1>5, <2>1, <2>2
<1>7. ~Hidden(ms, i)
  BY <1>2, <1>6 DEF Hidden
<1> QED BY <1>5, <1>7

\* What screen_scan finds: some of the monitors, one for each place.
FoundOf(ms, found) ==
    /\ found \in Seq(AnyMonitor) /\ found # <<>> /\ Len(found) \in Nat \ {0}
    /\ Len(found) <= Len(ms) \/ Len(found) = 1
    /\ ms # <<>> => \A k \in 1..Len(found) : \E i \in 1..Len(ms) : ~Hidden(ms, i) /\ found[k] = ms[i]
    /\ (\A i, j \in 1..Len(ms) : ms[i].id = ms[j].id => i = j) =>
          \A k, l \in 1..Len(found) : found[k].id = found[l].id => k = l
    /\ ms # <<>> /\ ~Hidden(ms, 1) => found[1] = ms[1]

LEMMA FoundAre ==
    ASSUME NEW ms \in Seq(AnyMonitor), NEW found, found = Scanned(ms)
    PROVE  FoundOf(ms, found)
<1>1. CASE ms = <<>>
  <2>1. found = <<RootWindow>> /\ RootWindow \in AnyMonitor
    BY <1>1 DEF Scanned, RootWindow, AnyMonitor
  <2>2. found \in Seq(AnyMonitor) /\ Len(found) = 1 /\ found # <<>>
    BY <2>1
  <2>3. \A k, l \in 1..Len(found) : k = l
    BY <2>2
  <2> QED BY <1>1, <2>1, <2>2, <2>3 DEF FoundOf
<1>2. CASE ms # <<>>
  <2>1. /\ Len(ms) \in Nat \ {0} /\ DOMAIN ms = 1..Len(ms) /\ \A i \in 1..Len(ms) : ms[i] \in AnyMonitor
    BY <1>2, LenProperties, EmptySeq, ElementOfSeq
  <2>2. PICK s : s = [i \in DOMAIN ms |-> i]
    OBVIOUS
  <2>3. PICK S : S = {i \in DOMAIN ms : ~Hidden(ms, i)}
    OBVIOUS
  <2>4. s \in Seq(1..Len(ms)) /\ Len(s) = Len(ms) /\ Range(s) = 1..Len(ms) /\ IsInjective(s) /\ s # <<>> /\ s[1] = 1
    <3>1. s \in [1..Len(ms) -> 1..Len(ms)] /\ \A i \in 1..Len(ms) : s[i] = i
      BY <2>1, <2>2
    <3>2. s \in Seq(1..Len(ms)) /\ Len(s) = Len(ms) /\ DOMAIN s = 1..Len(ms)
      BY <2>1, <3>1
    <3>3. Range(s) = 1..Len(ms) /\ IsInjective(s)
      BY <3>1, <3>2 DEF Range, IsInjective
    <3>4. s # <<>> /\ s[1] = 1
      BY <2>1, <3>1, <3>2
    <3> QED BY <3>2, <3>3, <3>4
  <2>5. PICK t : t = Kept(s, S)
    OBVIOUS
  <2>6. /\ t \in Seq(1..Len(ms)) /\ Len(t) \in Nat /\ Len(t) <= Len(ms) /\ Range(t) = 1..Len(ms) \cap S
        /\ IsInjective(t) /\ (1 \in S => t # <<>> /\ t[1] = 1)
    BY <2>4, <2>5, KeptElements
  <2>7. DOMAIN t = 1..Len(t) /\ \A k \in 1..Len(t) : t[k] \in 1..Len(ms) /\ t[k] \in S
    <3>1. DOMAIN t = 1..Len(t)
      BY <2>6, LenProperties
    <3> QED BY <2>6, <3>1 DEF Range
  <2>8. found = [k \in 1..Len(t) |-> ms[t[k]]]
    <3>1. found = [k \in DOMAIN t |-> ms[t[k]]]
      BY <1>2, <2>2, <2>3, <2>5 DEF Scanned, Deduplicated
    <3> QED BY <2>7, <3>1
  <2>9. found \in Seq(AnyMonitor) /\ Len(found) = Len(t) /\ \A k \in 1..Len(t) : found[k] = ms[t[k]]
    BY <2>1, <2>6, <2>7, <2>8
  <2>10. Len(t) # 0
    <3>1. PICK i \in 1..Len(ms) : ~Hidden(ms, i)
      BY <1>2, SomeIsNotHidden
    <3>2. i \in Range(t)
      BY <2>1, <2>3, <2>6, <3>1
    <3>3. PICK k \in 1..Len(t) : t[k] = i
      BY <2>7, <3>2 DEF Range
    <3> QED BY <2>6, <3>3
  <2>11. \A k \in 1..Len(found) : \E i \in 1..Len(ms) : ~Hidden(ms, i) /\ found[k] = ms[i]
    BY <2>3, <2>7, <2>9
  <2>12. ASSUME \A i, j \in 1..Len(ms) : ms[i].id = ms[j].id => i = j,
                NEW k \in 1..Len(found), NEW l \in 1..Len(found), found[k].id = found[l].id
         PROVE  k = l
    <3>1. t[k] = t[l]
      BY <2>7, <2>9, <2>12
    <3> QED BY <2>6, <2>7, <2>9, <3>1 DEF IsInjective
  <2>13. ~Hidden(ms, 1) => found[1] = ms[1]
    <3>1. 1 \in 1..Len(ms) /\ 1 \in 1..Len(t)
      BY <2>1, <2>6, <2>10
    <3> QED BY <2>1, <2>3, <2>6, <2>9, <3>1
  <2>14. found # <<>>
    BY <2>9, <2>10
  <2> QED BY <1>2, <2>6, <2>9, <2>10, <2>11, <2>12, <2>13, <2>14 DEF FoundOf
<1> QED BY <1>1, <1>2

-----------------------------------------------------------------------------
(* Finding a screen.                                                       *)

LEMMA CoordIsListed ==
    ASSUME NEW list \in Seq(Nat), list # <<>>, NEW inf, NEW x \in Int,
           \A s \in Range(list) : inf[s].x \in Int /\ inf[s].w \in Int
    PROVE  GetByCoord(list, inf, x) \in Range(list)
<1>1. /\ Len(list) \in Nat \ {0} /\ DOMAIN list = 1..Len(list) /\ \A i \in 1..Len(list) : list[i] \in Range(list)
  <2>1. Len(list) \in Nat \ {0} /\ DOMAIN list = 1..Len(list)
    BY LenProperties, EmptySeq
  <2> QED BY <2>1 DEF Range
<1> DEFINE inside == {i \in DOMAIN list : CoordInScreen(inf, list[i], x)}
           nearest == {i \in DOMAIN list : \A j \in DOMAIN list :
                           Distance(inf, list[i], x) <= Distance(inf, list[j], x)}
<1>2. inside # {} => Min(inside) \in inside
  <2>1. inside \subseteq Nat
    BY <1>1
  <2> HIDE DEF inside
  <2> QED BY <2>1, MinOf
<1>3. nearest # {}
  <2> DEFINE D == {Distance(inf, list[i], x) : i \in 1..Len(list)}
  <2>1. ASSUME NEW i \in 1..Len(list) PROVE Distance(inf, list[i], x) \in Nat
    <3>1. PICK a, b : a = inf[list[i]].x /\ b = inf[list[i]].w
      OBVIOUS
    <3>2. a \in Int /\ b \in Int
      BY <1>1, <3>1
    <3>3. Distance(inf, list[i], x) = IF x < a THEN a - x ELSE IF x < a + b THEN 0 ELSE x - a - b
      BY <3>1 DEF Distance
    <3> QED BY <3>2, <3>3
  <2>2. D \subseteq Nat
    BY <2>1
  <2>3. D # {}
    <3>1. 1 \in 1..Len(list)
      BY <1>1
    <3> QED BY <3>1
  <2>4. PICK d \in D : \A e \in D : d <= e
    <3> HIDE DEF D
    <3> QED BY <2>2, <2>3, LeastOf
  <2>5. PICK i \in 1..Len(list) : d = Distance(inf, list[i], x)
    OBVIOUS
  <2>6. \A j \in 1..Len(list) : Distance(inf, list[i], x) <= Distance(inf, list[j], x)
    <3>1. ASSUME NEW j \in 1..Len(list) PROVE Distance(inf, list[i], x) <= Distance(inf, list[j], x)
      <4>1. Distance(inf, list[j], x) \in D
        OBVIOUS
      <4> HIDE DEF D
      <4> QED BY <2>4, <2>5, <4>1
    <3> QED BY <3>1
  <2> QED BY <1>1, <2>6
<1>4. Min(nearest) \in nearest
  <2>1. nearest \subseteq Nat
    BY <1>1
  <2> HIDE DEF nearest
  <2> QED BY <1>3, <2>1, MinOf
<1>5. GetByCoord(list, inf, x) = IF inside # {} THEN list[Min(inside)] ELSE list[Min(nearest)]
  BY DEF GetByCoord
<1>6. inside \subseteq 1..Len(list) /\ nearest \subseteq 1..Len(list)
  BY <1>1
<1> HIDE DEF inside, nearest
<1> QED BY <1>1, <1>2, <1>4, <1>5, <1>6

LEMMA PrimaryIsListed ==
    ASSUME NEW list \in Seq(Nat), NEW inf, NEW views
    PROVE  UpdatedPrimary(list, inf, views) \in Range(list) \cup {primaryScreen}
<1>1. Len(list) \in Nat /\ DOMAIN list = 1..Len(list) /\ \A i \in 1..Len(list) : list[i] \in Range(list)
  <2>1. Len(list) \in Nat /\ DOMAIN list = 1..Len(list)
    BY LenProperties
  <2> QED BY <2>1 DEF Range
<1>2. Having(list, inf, views) \subseteq 1..Len(list)
  BY <1>1 DEF Having
<1>3. Having(list, inf, views) # {} => Max(Having(list, inf, views)) \in Having(list, inf, views)
  BY <1>1, <1>2, MaxOf
<1> QED BY <1>1, <1>2, <1>3 DEF UpdatedPrimary

-----------------------------------------------------------------------------
(* The invariant.                                                          *)

ScreenInfo == [xid : Output \cup {NONE, FAKE}, x : Int, w : Int, valid : BOOLEAN,
               view : (Int \X Int) \cup {NoScreen}]
Frame == [what : {"refresh", "fake"}, gone : Seq(Nat), found : Seq(AnyMonitor),
          stage : {"removed", "property::screen", "list"}, todo : SUBSET ScreenClient]

\* Screens that are in the list, and what is known of all that were ever made.
ListInv ==
    /\ screensMade \in 0..MaxScreens
    /\ info \in Seq(ScreenInfo) /\ Len(info) = screensMade
    /\ \A s \in 1..screensMade : info[s].xid = FAKE => info[s].view = NoScreen
    /\ screens \in Seq(Nat) /\ screens # <<>> /\ Range(screens) \subseteq 1..screensMade /\ IsInjective(screens)
    /\ meddled \subseteq 1..screensMade

\* A refresh begins in the main loop, and what is removed by Lua code is removed for good.
FramesInv ==
    /\ removing \in Seq(Frame)
    /\ \A i \in 1..Len(removing) :
          /\ removing[i].what = "refresh" => i = 1
          /\ Range(removing[i].gone) \subseteq 1..screensMade
          /\ removing[i].what = "fake" =>
                Len(removing[i].gone) = 1 /\ removing[i].gone[1] \in meddled \ Range(screens)
          /\ removing[i].stage = "removed" => removing[i].todo = ScreenClient
          /\ removing[i].stage = "list" => removing[i].what = "fake" /\ removing[i].todo = {}

\* What is not in the list, and is not leaving it either, is dead; for a client it is so when
\* the client has been looked at, and for the primary screen after the handlers of "removed".
Going == UNION {Range(removing[i].gone) : i \in 1..Len(removing)}
Due == {s \in Screen : \E i \in DOMAIN removing : \E k \in DOMAIN removing[i].gone :
                          removing[i].gone[k] = s /\ (k = 1 => removing[i].stage = "removed")}
DeadInv ==
    /\ \A c \in ScreenClient \ stranded : screenOf[c] \in Range(screens) \cup Coming(c)
    /\ primaryScreen \in Range(screens) \cup Due \cup {NoScreen}
    /\ \A s \in 1..screensMade : info[s].valid => s \in Range(screens) \cup Going

\* The screens of monitors found: there is one for each, unless Lua code has changed it, and no
\* other, and each is where its monitor is.
Present(list, inf, med, found) ==
    \A i \in 1..Len(found) : \E s \in Range(list) \cup med : inf[s].xid = found[i].id
Owned(list, inf, found) ==
    \A s \in Range(list) : inf[s].xid = FAKE \/ \E i \in 1..Len(found) : inf[s].xid = found[i].id
Placed(list, inf, med, found) ==
    \A s \in Range(list) \ med : inf[s].xid # FAKE =>
        /\ inf[s].view = Place(inf[s])
        /\ \E i \in 1..Len(found) : found[i].id = inf[s].xid /\ Place(found[i]) = Place(inf[s])
XidsDiffer(list, inf) ==
    \A s, t \in Range(list) : inf[s].xid # FAKE /\ inf[s].xid = inf[t].xid => s = t
ViewsFollow(views) ==
    LET ms == IF monitors = <<>> THEN <<RootWindow>> ELSE monitors
    IN  DOMAIN views = {Place(ms[i]) : i \in DOMAIN ms}

\* Monitors have changed, and a refresh will come of it.
News == refreshPending \/ \E i \in 1..Len(rootEvents) : rootEvents[i] = "configure"
Refreshing == removing # <<>> /\ removing[1].what = "refresh"

FollowInv ==
    /\ refreshPending => randr
    /\ randr => XidsDiffer(screens, info) /\ primaryOutput \in Output
    /\ randr /\ ~News =>
          /\ Present(screens, info, meddled, Scanned(monitors)) /\ Owned(screens, info, Scanned(monitors))
          /\ ViewsFollow(viewports)
          /\ Refreshing => removing[1].found = Scanned(monitors)
          /\ ~Refreshing => Placed(screens, info, meddled, Scanned(monitors))

Exact(views) ==
    \A p \in DOMAIN views : views[p] = {monitors[i].id : i \in {j \in DOMAIN monitors : Place(monitors[j]) = p}}

\* Nothing is under way that may change the primary screen.
NoOutputChange == \A i \in 1..Len(rootEvents) : rootEvents[i] # "output"
PrimaryInv ==
    randr /\ ~News /\ NoOutputChange /\ removing = <<>> /\ meddled = {} /\ Exact(viewports) =>
        \A s \in Range(screens) : info[s].xid = primaryOutput => primaryScreen = s

ScreensIndInv ==
    /\ monitors \in Layout /\ rootEvents \in Seq({"configure", "output"})
    /\ randr \in BOOLEAN /\ refreshPending \in BOOLEAN
    /\ screenOf \in [ScreenClient -> Screen] /\ position \in [ScreenClient -> Position]
    /\ ListInv /\ FramesInv /\ DeadInv /\ FollowInv /\ PrimaryInv

-----------------------------------------------------------------------------
(* The primary screen.                                                     *)

LEMMA LayoutIsOfMonitors ==
    ASSUME NEW ms \in Layout
    PROVE  /\ ms \in Seq(AnyMonitor) /\ \A i \in 1..Len(ms) : ms[i] \in Monitor /\ ms[i].id \in Output
           /\ Len(ms) \in Nat /\ DOMAIN ms = 1..Len(ms) /\ \A i, j \in 1..Len(ms) : ms[i].id = ms[j].id => i = j
           /\ \A id \in Output : id # NONE /\ id # FAKE
<1>1. ms \in Seq(Monitor)
  BY ScreensAssumption
<1>2. Len(ms) \in Nat /\ DOMAIN ms = 1..Len(ms) /\ \A i \in 1..Len(ms) : ms[i] \in Monitor
  BY <1>1, LenProperties, ElementOfSeq
<1>3. Monitor \subseteq AnyMonitor
  BY DEF Monitor, AnyMonitor
<1>4. ms \in Seq(AnyMonitor)
  BY <1>1, <1>3, SeqMonotonic
<1>5. \A m \in Monitor : m.id \in Output
  BY DEF Monitor
<1> QED BY <1>2, <1>4, <1>5, ScreensAssumption

LEMMA FoundInLayout ==
    ASSUME NEW ms \in Layout, NEW found, found = Scanned(ms)
    PROVE  /\ found \in Seq(AnyMonitor) /\ found # <<>> /\ Len(found) \in Nat \ {0} /\ Len(found) <= MaxScreens
           /\ \A k \in 1..Len(found) : found[k] \in AnyMonitor /\ found[k].id # FAKE
           /\ \A k, l \in 1..Len(found) : found[k].id = found[l].id => k = l
<1>1. found \in Seq(AnyMonitor) /\ found # <<>> /\ Len(found) \in Nat \ {0}
      /\ (Len(found) <= Len(ms) \/ Len(found) = 1)
      /\ \A k, l \in 1..Len(found) : found[k].id = found[l].id => k = l
  <2>1. ms \in Seq(AnyMonitor) /\ \A i, j \in 1..Len(ms) : ms[i].id = ms[j].id => i = j
    BY LayoutIsOfMonitors
  <2>2. FoundOf(ms, found)
    BY <2>1, FoundAre
  <2> QED BY <2>1, <2>2 DEF FoundOf
<1>2. Len(found) <= MaxScreens
  BY <1>1, ScreensAssumption, LayoutIsOfMonitors
<1>3. \A k \in 1..Len(found) : found[k] \in AnyMonitor
  BY <1>1, ElementOfSeq
<1>4. \A m \in AnyMonitor : m.id # FAKE
  BY LayoutIsOfMonitors DEF AnyMonitor, NONE, FAKE
<1> QED BY <1>1, <1>2, <1>3, <1>4

\* Of two monitors at the same place one is hidden.
LEMMA OnePerPlace ==
    ASSUME NEW ms \in Layout, NEW i \in 1..Len(ms), NEW j \in 1..Len(ms), Place(ms[i]) = Place(ms[j]),
           ~Hidden(ms, i), ~Hidden(ms, j)
    PROVE  i = j
<1>1. ms[i].x = ms[j].x /\ ms[i].w = ms[j].w
  BY DEF Place
<1>2. DOMAIN ms = 1..Len(ms) /\ i \in Nat /\ j \in Nat
  BY LayoutIsOfMonitors
<1>3. SUFFICES ASSUME i # j PROVE FALSE
  OBVIOUS
<1>4. i < j \/ j < i
  BY <1>2, <1>3
<1> QED BY <1>1, <1>2, <1>3, <1>4 DEF Hidden

\* screen_update_primary finds the screen of the primary output.
LEMMA PrimaryIsFound ==
    ASSUME monitors \in Layout, randr, NEW list \in Seq(Nat), NEW inf, NEW views,
           XidsDiffer(list, inf), Placed(list, inf, {}, Scanned(monitors)), ViewsFollow(views), Exact(views),
           \A t \in Range(list) : inf[t].xid = FAKE => inf[t].view = NoScreen,
           primaryOutput \in Output, NEW s \in Range(list), inf[s].xid = primaryOutput
    PROVE  UpdatedPrimary(list, inf, views) = s
<1>1. PICK found : found = Scanned(monitors)
  OBVIOUS
<1>2. /\ Len(monitors) \in Nat /\ DOMAIN monitors = 1..Len(monitors)
      /\ \A i, j \in 1..Len(monitors) : monitors[i].id = monitors[j].id => i = j
      /\ \A i \in 1..Len(monitors) : monitors[i] \in Monitor
      /\ primaryOutput # NONE /\ primaryOutput # FAKE
  BY LayoutIsOfMonitors
<1>3. PICK i \in 1..Len(found) : found[i].id = primaryOutput /\ Place(found[i]) = Place(inf[s])
      /\ inf[s].view = Place(inf[s])
  BY <1>1, <1>2 DEF Placed
<1>4. monitors # <<>>
  <2>1. SUFFICES ASSUME monitors = <<>> PROVE FALSE
    OBVIOUS
  <2>2. found = <<RootWindow>>
    BY <1>1, <2>1 DEF Scanned
  <2>3. found[i].id = NONE
    BY <1>3, <2>2 DEF RootWindow
  <2> QED BY <1>2, <1>3, <2>3
<1>5. \A k \in 1..Len(found) : \E m \in 1..Len(monitors) : ~Hidden(monitors, m) /\ found[k] = monitors[m]
  <2>1. FoundOf(monitors, found)
    <3>1. monitors \in Seq(AnyMonitor)
      BY LayoutIsOfMonitors
    <3> QED BY <1>1, <3>1, FoundAre
  <2> QED BY <1>4, <2>1 DEF FoundOf
<1>6. PICK j \in 1..Len(monitors) : ~Hidden(monitors, j) /\ found[i] = monitors[j]
  BY <1>5
<1>7. PICK p : p = Place(monitors[j])
  OBVIOUS
<1>8. inf[s].view = p /\ monitors[j].id = primaryOutput
  BY <1>3, <1>6, <1>7
<1>9. DOMAIN views = {Place(monitors[m]) : m \in 1..Len(monitors)}
  BY <1>2, <1>4 DEF ViewsFollow
<1>10. p \in DOMAIN views /\ primaryOutput \in views[p]
  <2>1. p \in DOMAIN views
    BY <1>7, <1>9
  <2> QED BY <1>2, <1>7, <1>8, <2>1 DEF Exact
<1>11. ASSUME NEW t \in Range(list), inf[t].view \in DOMAIN views, primaryOutput \in views[inf[t].view]
       PROVE  t = s
  <2>1. PICK m \in 1..Len(monitors) : monitors[m].id = primaryOutput /\ Place(monitors[m]) = inf[t].view
    BY <1>2, <1>11 DEF Exact
  <2>2. inf[t].view = p
    BY <1>2, <1>7, <1>8, <2>1
  <2>3. inf[t].xid # FAKE
    <3>1. p \in Int \X Int
      <4>1. monitors[j] \in Monitor
        BY <1>2
      <4>2. monitors[j].x \in Int /\ monitors[j].w \in Int
        BY <4>1 DEF Monitor
      <4> QED BY <1>7, <4>2 DEF Place
    <3> QED BY <2>2, <3>1, ScreensAssumption
  <2>4. PICK k \in 1..Len(found) : found[k].id = inf[t].xid /\ Place(found[k]) = Place(inf[t]) /\ inf[t].view = Place(inf[t])
    BY <1>1, <2>3 DEF Placed
  <2>5. PICK n \in 1..Len(monitors) : ~Hidden(monitors, n) /\ found[k] = monitors[n]
    BY <1>5
  <2>6. Place(monitors[n]) = Place(monitors[j])
    BY <1>7, <2>2, <2>4, <2>5
  <2>7. n = j
    BY <1>6, <2>5, <2>6, OnePerPlace
  <2>8. inf[t].xid = inf[s].xid
    BY <1>8, <2>4, <2>5, <2>7
  <2> QED BY <2>3, <2>8 DEF XidsDiffer
<1>12. Len(list) \in Nat /\ DOMAIN list = 1..Len(list) /\ \A k \in 1..Len(list) : list[k] \in Range(list)
  <2>1. Len(list) \in Nat /\ DOMAIN list = 1..Len(list)
    BY LenProperties
  <2> QED BY <2>1 DEF Range
<1>13. PICK H : H = Having(list, inf, views)
  OBVIOUS
<1>14. H \subseteq 1..Len(list) /\ \A k \in H : list[k] = s
  BY <1>11, <1>12, <1>13 DEF Having
<1>15. H # {}
  <2>1. PICK k \in 1..Len(list) : list[k] = s
    BY <1>12 DEF Range
  <2>2. k \in H
    BY <1>8, <1>10, <1>12, <1>13, <2>1 DEF Having
  <2> QED BY <2>2
<1>16. Max(H) \in H
  BY <1>12, <1>14, <1>15, MaxOf
<1> QED BY <1>13, <1>14, <1>15, <1>16 DEF UpdatedPrimary

-----------------------------------------------------------------------------
(* Steps that keep the screens' monitors.                                  *)

LEMMA ListFacts ==
    ASSUME ListInv
    PROVE  /\ screensMade \in Nat /\ screensMade <= MaxScreens /\ MaxScreens \in Nat
           /\ Len(screens) \in Nat \ {0} /\ DOMAIN screens = 1..Len(screens)
           /\ \A i \in 1..Len(screens) : screens[i] \in Range(screens)
           /\ \A s \in Range(screens) : s \in 1..screensMade /\ s \in Nat
           /\ DOMAIN info = 1..screensMade /\ \A s \in 1..screensMade : info[s] \in ScreenInfo
<1>1. Len(screens) \in Nat \ {0} /\ DOMAIN screens = 1..Len(screens)
  BY LenProperties, EmptySeq DEF ListInv
<1>2. \A i \in 1..Len(screens) : screens[i] \in Range(screens)
  BY <1>1 DEF Range
<1>3. MaxScreens \in Nat
  BY ScreensAssumption
<1>4. screensMade \in Nat /\ screensMade <= MaxScreens
  BY <1>3 DEF ListInv
<1>5. \A s \in Range(screens) : s \in 1..screensMade /\ s \in Nat
  BY <1>4 DEF ListInv
<1>6. DOMAIN info = 1..screensMade
  BY LenProperties DEF ListInv
<1>7. \A s \in 1..screensMade : info[s] \in ScreenInfo
  BY ElementOfSeq DEF ListInv
<1> QED BY <1>1, <1>2, <1>3, <1>4, <1>5, <1>6, <1>7

\* What Lua code does to screens is remembered, so the others are where they were.
LEMMA FollowKept ==
    ASSUME ListInv, FollowInv, monitors' = monitors, randr' = randr, viewports' = viewports,
           randr => primaryOutput' \in Output, refreshPending' => randr, randr /\ News => News',
           meddled \subseteq meddled',
           \A s \in 1..screensMade : info'[s].xid = info[s].xid,
           \A s \in 1..screensMade : s \notin meddled' =>
               info'[s].x = info[s].x /\ info'[s].w = info[s].w /\ info'[s].view = info[s].view,
           Range(screens) \subseteq Range(screens') \cup meddled',
           \A s \in Range(screens') : s \in Range(screens) \/ info'[s].xid = FAKE,
           Refreshing' <=> Refreshing, Refreshing => removing'[1].found = removing[1].found
    PROVE  FollowInv'
<1>1. Range(screens) \subseteq 1..screensMade /\ meddled \subseteq 1..screensMade
  BY DEF ListInv
<1>2. ASSUME randr PROVE XidsDiffer(screens', info')
  <2>1. XidsDiffer(screens, info)
    BY <1>2 DEF FollowInv
  <2>2. ASSUME NEW s \in Range(screens'), NEW t \in Range(screens'), info'[s].xid # FAKE, info'[s].xid = info'[t].xid
        PROVE  s = t
    <3>1. s \in Range(screens) /\ t \in Range(screens)
      BY <2>2
    <3>2. info[s].xid # FAKE /\ info[s].xid = info[t].xid
      BY <1>1, <2>2, <3>1
    <3> QED BY <2>1, <3>1, <3>2 DEF XidsDiffer
  <2> QED BY <2>2 DEF XidsDiffer
<1>3. ASSUME randr, ~News'
      PROVE  /\ Present(screens', info', meddled', Scanned(monitors))
             /\ Owned(screens', info', Scanned(monitors))
             /\ ViewsFollow(viewports)
             /\ Refreshing => removing[1].found = Scanned(monitors)
             /\ ~Refreshing => Placed(screens', info', meddled', Scanned(monitors))
  <2>1. PICK found : found = Scanned(monitors)
    OBVIOUS
  <2>2. /\ Present(screens, info, meddled, found) /\ Owned(screens, info, found)
        /\ ViewsFollow(viewports)
        /\ Refreshing => removing[1].found = found
        /\ ~Refreshing => Placed(screens, info, meddled, found)
    BY <1>3, <2>1 DEF FollowInv
  <2>3. Present(screens', info', meddled', found)
    <3>1. ASSUME NEW i \in 1..Len(found) PROVE \E s \in Range(screens') \cup meddled' : info'[s].xid = found[i].id
      <4>1. PICK s \in Range(screens) \cup meddled : info[s].xid = found[i].id
        BY <2>2 DEF Present
      <4>2. s \in 1..screensMade /\ s \in Range(screens') \cup meddled'
        BY <1>1
      <4> QED BY <4>1, <4>2
    <3> QED BY <3>1 DEF Present
  <2>4. Owned(screens', info', found)
    <3>1. ASSUME NEW s \in Range(screens'), info'[s].xid # FAKE
          PROVE  \E i \in 1..Len(found) : info'[s].xid = found[i].id
      <4>1. s \in Range(screens) /\ info'[s].xid = info[s].xid
        BY <1>1, <3>1
      <4> QED BY <2>2, <3>1, <4>1 DEF Owned
    <3> QED BY <3>1 DEF Owned
  <2>5. ASSUME ~Refreshing PROVE Placed(screens', info', meddled', found)
    <3>1. ASSUME NEW s \in Range(screens') \ meddled', info'[s].xid # FAKE
          PROVE  /\ info'[s].view = Place(info'[s])
                 /\ \E i \in 1..Len(found) : found[i].id = info'[s].xid /\ Place(found[i]) = Place(info'[s])
      <4>1. s \in Range(screens) \ meddled /\ s \in 1..screensMade
        BY <1>1, <3>1
      <4>2. info'[s].xid = info[s].xid /\ Place(info'[s]) = Place(info[s]) /\ info'[s].view = info[s].view
        BY <3>1, <4>1 DEF Place
      <4> QED BY <2>2, <2>5, <3>1, <4>1, <4>2 DEF Placed
    <3> QED BY <3>1 DEF Placed
  <2> QED BY <2>1, <2>2, <2>3, <2>4, <2>5
<1>4. ViewsFollow(viewports)' <=> ViewsFollow(viewports)
  BY DEF ViewsFollow
<1>5. Scanned(monitors)' = Scanned(monitors)
  OBVIOUS
<1> QED BY <1>2, <1>3, <1>4, <1>5 DEF FollowInv

\* The frames and what they remove, when no handler of "removed" is called or returns.
LEMMA FramesKept ==
    ASSUME FramesInv, removing' = removing, meddled \subseteq meddled', screensMade \in Nat, screensMade' \in Nat,
           screensMade <= screensMade', meddled \subseteq 1..screensMade,
           \A s \in Range(screens') : s \in Range(screens) \/ s \notin 1..screensMade
    PROVE  FramesInv' /\ Going' = Going /\ (Refreshing' <=> Refreshing)
<1>1. \A n \in 1..screensMade : n \in 1..screensMade'
  OBVIOUS
<1>2. ASSUME NEW i \in 1..Len(removing)
      PROVE  /\ removing[i].what = "refresh" => i = 1
             /\ Range(removing[i].gone) \subseteq 1..screensMade'
             /\ removing[i].what = "fake" =>
                   Len(removing[i].gone) = 1 /\ removing[i].gone[1] \in meddled' \ Range(screens')
             /\ removing[i].stage = "removed" => removing[i].todo = ScreenClient
             /\ removing[i].stage = "list" => removing[i].what = "fake" /\ removing[i].todo = {}
  BY <1>1 DEF FramesInv
<1>3. FramesInv'
  BY <1>2 DEF FramesInv
<1> QED BY <1>3 DEF Going, Refreshing

LEMMA NothingGoes ==
    ASSUME removing = <<>>
    PROVE  Going = {} /\ Due = {} /\ \A c \in ScreenClient : Coming(c) = {}
<1>1. Len(<<>>) = 0 /\ 1..0 = {} /\ DOMAIN <<>> = {}
  OBVIOUS
<1> QED BY <1>1 DEF Going, Due, Coming

LEMMA WaysKept ==
    ASSUME removing' = removing
    PROVE  Going' = Going /\ Due' = Due /\ \A c \in ScreenClient : Coming(c)' = Coming(c)
BY DEF Going, Due, Coming

\* A refresh and the end of an earlier one are what makes screens follow the monitors.
LEMMA PrimaryVacuous ==
    ASSUME randr' => News' \/ ~NoOutputChange' \/ removing' # <<>> \/ meddled' # {}
    PROVE  PrimaryInv'
BY DEF PrimaryInv

LEMMA ChangeMonitorsKeeps == ASSUME ScreensIndInv, ChangeMonitors PROVE ScreensIndInv'
<1>1. /\ monitors' \in Layout /\ rootEvents' = Append(rootEvents, "configure")
      /\ UNCHANGED <<primaryOutput, randr, refreshPending, screens, info, viewports, screensMade, primaryScreen,
                     screenOf, position, removing, meddled, stranded>>
  BY DEF ChangeMonitors, listVars, placeVars
<1>2. rootEvents \in Seq({"configure", "output"})
  BY DEF ScreensIndInv
<1>3. rootEvents' \in Seq({"configure", "output"}) /\ Len(rootEvents') \in Nat \ {0}
      /\ rootEvents'[Len(rootEvents')] = "configure"
  BY <1>1, <1>2
<1>4. News'
  BY <1>3 DEF News
<1>5. ListInv'
  BY <1>1 DEF ScreensIndInv, ListInv
<1>6. FramesInv' /\ Going' = Going
  BY <1>1 DEF ScreensIndInv, FramesInv, Going
<1>7. DeadInv'
  BY <1>1, <1>6, WaysKept DEF ScreensIndInv, DeadInv
<1>8. FollowInv'
  BY <1>1, <1>4 DEF ScreensIndInv, FollowInv, XidsDiffer
<1>9. PrimaryInv'
  BY <1>4, PrimaryVacuous
<1> QED BY <1>1, <1>3, <1>5, <1>6, <1>7, <1>8, <1>9 DEF ScreensIndInv

LEMMA ChangePrimaryKeeps == ASSUME ScreensIndInv, ChangePrimary PROVE ScreensIndInv'
<1>1. /\ primaryOutput' \in {monitors[i].id : i \in DOMAIN monitors}
      /\ rootEvents' = IF randr THEN Append(rootEvents, "output") ELSE rootEvents
      /\ UNCHANGED <<monitors, randr, refreshPending, screens, info, viewports, screensMade, primaryScreen,
                     screenOf, position, removing, meddled, stranded>>
  BY DEF ChangePrimary, listVars, placeVars
<1>2. /\ rootEvents \in Seq({"configure", "output"}) /\ monitors \in Layout /\ randr \in BOOLEAN
      /\ ListInv /\ FramesInv /\ DeadInv /\ FollowInv
  BY DEF ScreensIndInv
<1>3. /\ rootEvents' \in Seq({"configure", "output"}) /\ Len(rootEvents) \in Nat
      /\ randr => /\ Len(rootEvents') = Len(rootEvents) + 1 /\ rootEvents'[Len(rootEvents')] = "output"
                  /\ \A i \in 1..Len(rootEvents) : rootEvents'[i] = rootEvents[i]
  <2>1. Len(rootEvents) \in Nat
    BY <1>2, LenProperties
  <2>2. CASE randr
    BY <1>1, <1>2, <2>1, <2>2
  <2>3. CASE ~randr
    BY <1>1, <1>2, <2>1, <2>3
  <2> QED BY <2>1, <2>2, <2>3
<1>4. randr => ~NoOutputChange'
  <2>1. randr => Len(rootEvents') \in 1..Len(rootEvents')
    BY <1>3
  <2> QED BY <1>3, <2>1 DEF NoOutputChange
<1>5. randr /\ News => News'
  <2>1. randr => \A i \in 1..Len(rootEvents) : i \in 1..Len(rootEvents')
    BY <1>3
  <2> QED BY <1>1, <1>3, <2>1 DEF News
<1>6. ListInv'
  BY <1>1, <1>2 DEF ListInv
<1>7. FramesInv' /\ Going' = Going /\ (Refreshing' <=> Refreshing)
  BY <1>1, <1>2 DEF FramesInv, Going, Refreshing
<1>8. DeadInv'
  BY <1>1, <1>2, <1>7, WaysKept DEF DeadInv
<1>9. FollowInv'
  <2>1. primaryOutput' \in Output
    <3>1. PICK i \in DOMAIN monitors : primaryOutput' = monitors[i].id
      BY <1>1
    <3> QED BY <1>2, <3>1, LayoutIsOfMonitors
  <2>2. refreshPending => randr
    BY <1>2 DEF FollowInv
  <2> QED BY <1>1, <1>2, <1>5, <1>7, <2>1, <2>2, FollowKept
<1>10. PrimaryInv'
  BY <1>1, <1>4, PrimaryVacuous
<1>11. screenOf' \in [ScreenClient -> Screen] /\ position' \in [ScreenClient -> Position]
       /\ monitors' \in Layout /\ randr' \in BOOLEAN /\ refreshPending' \in BOOLEAN
  BY <1>1 DEF ScreensIndInv
<1> QED BY <1>3, <1>6, <1>7, <1>8, <1>9, <1>10, <1>11 DEF ScreensIndInv

LEMMA HandleRootEventKeeps == ASSUME ScreensIndInv, HandleRootEvent PROVE ScreensIndInv'
<1>1. /\ removing = <<>> /\ rootEvents # <<>> /\ rootEvents' = Tail(rootEvents)
      /\ HandleConfigureNotify \/ HandleOutputChange
      /\ UNCHANGED <<monitors, primaryOutput, randr, screens, info, viewports, screensMade,
                     screenOf, position, removing, meddled, stranded>>
  BY DEF HandleRootEvent, listVars, placeVars, monitorVars
<1>2. /\ rootEvents \in Seq({"configure", "output"}) /\ monitors \in Layout /\ randr \in BOOLEAN
      /\ refreshPending \in BOOLEAN
      /\ ListInv /\ FramesInv /\ DeadInv /\ FollowInv /\ PrimaryInv
  BY DEF ScreensIndInv
<1>3. /\ rootEvents' \in Seq({"configure", "output"}) /\ Len(rootEvents) \in Nat \ {0}
      /\ Len(rootEvents') = Len(rootEvents) - 1 /\ Head(rootEvents) = rootEvents[1]
      /\ \A i \in 1..Len(rootEvents') : i + 1 \in 1..Len(rootEvents) /\ rootEvents'[i] = rootEvents[i + 1]
      /\ \A i \in 1..Len(rootEvents) : i = 1 \/ (i - 1 \in 1..Len(rootEvents') /\ rootEvents'[i - 1] = rootEvents[i])
  <2>1. Len(rootEvents) \in Nat \ {0}
    BY <1>1, <1>2, LenProperties, EmptySeq
  <2>2. rootEvents' \in Seq({"configure", "output"}) /\ Len(rootEvents') = Len(rootEvents) - 1
        /\ \A i \in 1..Len(rootEvents') : rootEvents'[i] = rootEvents[i + 1]
    BY <1>1, <1>2, HeadTailProperties
  <2>3. \A i \in 1..Len(rootEvents') : i + 1 \in 1..Len(rootEvents)
    BY <2>1, <2>2
  <2>4. ASSUME NEW i \in 1..Len(rootEvents), i # 1
        PROVE  i - 1 \in 1..Len(rootEvents') /\ rootEvents'[i - 1] = rootEvents[i]
    <3>1. i - 1 \in 1..Len(rootEvents') /\ (i - 1) + 1 = i
      BY <2>1, <2>2, <2>4
    <3> QED BY <2>2, <3>1
  <2> QED BY <2>1, <2>2, <2>3, <2>4
<1>4. refreshPending' \in BOOLEAN /\ (refreshPending' => randr) /\ (refreshPending => refreshPending')
      /\ (rootEvents[1] = "configure" /\ randr => refreshPending')
  <2>1. refreshPending => randr
    BY <1>2 DEF FollowInv
  <2>2. CASE HandleConfigureNotify
    BY <1>2, <2>1, <2>2 DEF HandleConfigureNotify, ScheduleRefresh
  <2>3. CASE HandleOutputChange
    BY <1>2, <1>3, <2>1, <2>3 DEF HandleOutputChange
  <2> QED BY <1>1, <2>2, <2>3
<1>5. randr /\ News => News'
  <2>1. ASSUME randr, NEW i \in 1..Len(rootEvents), rootEvents[i] = "configure" PROVE News'
    <3>1. CASE i = 1
      BY <1>4, <2>1, <3>1 DEF News
    <3>2. CASE i # 1
      BY <1>3, <2>1, <3>2 DEF News
    <3> QED BY <3>1, <3>2
  <2> QED BY <1>4, <2>1 DEF News
<1>6. ListInv'
  BY <1>1, <1>2 DEF ListInv
<1>7. FramesInv' /\ Going' = Going /\ (Refreshing' <=> Refreshing)
  BY <1>1, <1>2 DEF FramesInv, Going, Refreshing
<1>8. primaryScreen' \in Range(screens) \cup {primaryScreen}
  <2>1. CASE HandleConfigureNotify
    BY <2>1 DEF HandleConfigureNotify
  <2>2. CASE HandleOutputChange
    <3>1. screens \in Seq(Nat)
      BY <1>2 DEF ListInv
    <3> QED BY <2>2, <3>1, PrimaryIsListed DEF HandleOutputChange
  <2> QED BY <1>1, <2>1, <2>2
<1>9. DeadInv'
  BY <1>1, <1>2, <1>7, <1>8, WaysKept DEF DeadInv
<1>10. FollowInv'
  <2>1. randr => primaryOutput \in Output
    BY <1>2 DEF FollowInv
  <2> QED BY <1>1, <1>2, <1>4, <1>5, <1>7, <2>1, FollowKept
<1>11. PrimaryInv'
  <2>1. SUFFICES ASSUME randr, ~News', NoOutputChange', meddled = {}, Exact(viewports)',
                        NEW s \in Range(screens), info[s].xid = primaryOutput
                 PROVE  primaryScreen' = s
    BY <1>1 DEF PrimaryInv
  <2>2. ~News /\ Exact(viewports)
    BY <1>1, <1>5, <2>1 DEF Exact
  <2>3. HandleOutputChange
    <3>1. SUFFICES ASSUME HandleConfigureNotify PROVE FALSE
      BY <1>1
    <3>2. rootEvents[1] = "configure" /\ 1 \in 1..Len(rootEvents)
      BY <1>3, <3>1 DEF HandleConfigureNotify
    <3> QED BY <2>2, <3>2 DEF News
  <2>4. /\ XidsDiffer(screens, info) /\ primaryOutput \in Output /\ ViewsFollow(viewports)
        /\ Placed(screens, info, {}, Scanned(monitors))
    BY <1>1, <1>2, <2>1, <2>2 DEF FollowInv, Refreshing
  <2>5. screens \in Seq(Nat) /\ \A t \in Range(screens) : info[t].xid = FAKE => info[t].view = NoScreen
    BY <1>2 DEF ListInv
  <2>6. UpdatedPrimary(screens, info, viewports) = s
    BY <1>2, <2>1, <2>2, <2>4, <2>5, PrimaryIsFound
  <2> QED BY <2>3, <2>6 DEF HandleOutputChange
<1>12. screenOf' \in [ScreenClient -> Screen] /\ position' \in [ScreenClient -> Position]
       /\ monitors' \in Layout /\ randr' \in BOOLEAN
  BY <1>1 DEF ScreensIndInv
<1> QED BY <1>3, <1>4, <1>6, <1>7, <1>9, <1>10, <1>11, <1>12 DEF ScreensIndInv

-----------------------------------------------------------------------------
(* Lua code.                                                               *)

\* A screen for a place is in the list.
LEMMA ByCoordIsListed ==
    ASSUME ListInv, NEW x \in Int
    PROVE  GetByCoord(screens, info, x) \in Range(screens)
<1>1. \A s \in Range(screens) : info[s].x \in Int /\ info[s].w \in Int
  <2>1. ASSUME NEW s \in Range(screens) PROVE info[s].x \in Int /\ info[s].w \in Int
    <3>1. info[s] \in ScreenInfo
      BY ListFacts
    <3> QED BY <3>1 DEF ScreenInfo
  <2> QED BY <2>1
<1> QED BY <1>1, CoordIsListed DEF ListInv

\* Nothing but places of clients and the primary screen changes.
LEMMA PlacesKeep ==
    ASSUME ScreensIndInv,
           UNCHANGED <<monitors, primaryOutput, randr, rootEvents, refreshPending, screens, info, viewports,
                       screensMade, removing, meddled>>,
           screenOf' \in [ScreenClient -> Screen], position' \in [ScreenClient -> Position],
           \A c \in ScreenClient \ stranded' : screenOf'[c] \in Range(screens) \cup Coming(c),
           primaryScreen' = primaryScreen \/ (primaryScreen = NoScreen /\ primaryScreen' \in Range(screens))
    PROVE  ScreensIndInv'
<1>1. ListInv /\ FramesInv /\ DeadInv /\ FollowInv /\ PrimaryInv
  BY DEF ScreensIndInv
<1>2. ListInv'
  BY <1>1 DEF ListInv
<1>3. FramesInv' /\ Going' = Going
  BY <1>1 DEF FramesInv, Going
<1>4. DeadInv'
  BY <1>1, <1>3, WaysKept DEF DeadInv
<1>5. FollowInv'
  BY <1>1 DEF FollowInv, Present, Owned, Placed, XidsDiffer, ViewsFollow, News, Refreshing
<1>6. PrimaryInv'
  <2>1. (randr /\ ~News /\ NoOutputChange /\ removing = <<>> /\ meddled = {} /\ Exact(viewports))'
        <=> (randr /\ ~News /\ NoOutputChange /\ removing = <<>> /\ meddled = {} /\ Exact(viewports))
    BY DEF News, NoOutputChange, Exact
  <2>2. \A s \in Range(screens) : s # NoScreen
    BY <1>1, ListFacts, ScreensAssumption
  <2> QED BY <1>1, <2>1, <2>2 DEF PrimaryInv
<1> QED BY <1>2, <1>3, <1>4, <1>5, <1>6 DEF ScreensIndInv

LEMMA GetPrimaryKeeps == ASSUME ScreensIndInv, GetPrimary PROVE ScreensIndInv'
<1>1. /\ primaryScreen = NoScreen /\ primaryScreen' = screens[1]
      /\ UNCHANGED <<monitors, primaryOutput, randr, rootEvents, refreshPending, screens, info, viewports,
                     screensMade, screenOf, position, removing, meddled, stranded>>
  BY DEF GetPrimary, monitorVars, listVars, placeVars
<1>2. ListInv /\ DeadInv
  BY DEF ScreensIndInv
<1>3. 1 \in 1..Len(screens) /\ screens[1] \in Range(screens)
  BY <1>2, ListFacts
<1>4. /\ screenOf' \in [ScreenClient -> Screen] /\ position' \in [ScreenClient -> Position]
      /\ \A c \in ScreenClient \ stranded' : screenOf'[c] \in Range(screens) \cup Coming(c)
  BY <1>1, <1>2 DEF ScreensIndInv, DeadInv
<1> QED BY <1>1, <1>3, <1>4, PlacesKeep

LEMMA GoingAreScreens == ASSUME ListInv, FramesInv PROVE Range(screens) \cup Going \subseteq Screen
<1>1. Going \subseteq 1..screensMade
  BY DEF Going, FramesInv
<1>2. \A s \in 1..screensMade : s \in Screen
  BY ListFacts DEF Screen
<1>3. \A s \in Range(screens) : s \in 1..screensMade
  BY ListFacts
<1> QED BY <1>1, <1>2, <1>3

LEMMA SetScreenKeeps ==
    ASSUME ScreensIndInv, NEW c \in ScreenClient, NEW s \in 1..screensMade, SetScreen(c, s) PROVE ScreensIndInv'
<1>1. /\ info[s].valid /\ screenOf' = [screenOf EXCEPT ![c] = s] /\ position' \in [ScreenClient -> Position]
      /\ stranded' = (IF s \in Range(screens) \cup Coming(c) THEN stranded \ {c} ELSE stranded \cup {c})
      /\ UNCHANGED <<monitors, primaryOutput, randr, rootEvents, refreshPending, screens, info, viewports,
                     screensMade, primaryScreen, removing, meddled>>
  BY DEF SetScreen, monitorVars, listVars, placeVars
<1>2. ListInv /\ FramesInv /\ DeadInv /\ screenOf \in [ScreenClient -> Screen]
  BY DEF ScreensIndInv
<1>3. s \in Screen
  BY <1>1, <1>2, GoingAreScreens DEF DeadInv
<1>4. screenOf' \in [ScreenClient -> Screen]
  BY <1>1, <1>2, <1>3
<1>5. \A d \in ScreenClient \ stranded' : screenOf'[d] \in Range(screens) \cup Coming(d)
  <2>1. ASSUME NEW d \in ScreenClient \ stranded' PROVE screenOf'[d] \in Range(screens) \cup Coming(d)
    <3>1. CASE d = c
      BY <1>1, <1>2, <2>1, <3>1
    <3>2. CASE d # c
      BY <1>1, <1>2, <2>1, <3>2 DEF DeadInv
    <3> QED BY <3>1, <3>2
  <2> QED BY <2>1
<1> QED BY <1>1, <1>4, <1>5, PlacesKeep

LEMMA MoveClientKeeps ==
    ASSUME ScreensIndInv, NEW c \in ScreenClient, NEW x \in Position, MoveClient(c, x) PROVE ScreensIndInv'
<1>1. /\ position' = [position EXCEPT ![c] = x]
      /\ screenOf' = [screenOf EXCEPT ![c] = IF AreaInScreen(info, @, x) THEN @ ELSE GetByCoord(screens, info, x)]
      /\ UNCHANGED <<monitors, primaryOutput, randr, rootEvents, refreshPending, screens, info, viewports,
                     screensMade, primaryScreen, removing, meddled>>
      /\ stranded' = (IF AreaInScreen(info, screenOf[c], x) THEN stranded ELSE stranded \ {c})
  BY DEF MoveClient, monitorVars, listVars, placeVars
<1>2. ListInv /\ DeadInv
  BY DEF ScreensIndInv
<1>3. x \in Int
  BY ScreensAssumption
<1>4. GetByCoord(screens, info, x) \in Range(screens)
  BY <1>2, <1>3, ByCoordIsListed
<1>5. screenOf' \in [ScreenClient -> Screen] /\ position' \in [ScreenClient -> Position]
  <2>1. GetByCoord(screens, info, x) \in Screen
    BY <1>2, <1>4, GoingAreScreens DEF ScreensIndInv
  <2> QED BY <1>1, <2>1 DEF ScreensIndInv
<1>6. \A d \in ScreenClient \ stranded' : screenOf'[d] \in Range(screens) \cup Coming(d)
  <2>1. ASSUME NEW d \in ScreenClient \ stranded' PROVE screenOf'[d] \in Range(screens) \cup Coming(d)
    <3>1. screenOf \in [ScreenClient -> Screen]
      BY DEF ScreensIndInv
    <3>2. CASE d = c /\ ~AreaInScreen(info, screenOf[c], x)
      BY <1>1, <1>4, <3>1, <3>2
    <3>3. CASE d # c \/ AreaInScreen(info, screenOf[c], x)
      BY <1>1, <1>2, <2>1, <3>1, <3>3 DEF DeadInv
    <3> QED BY <3>2, <3>3
  <2> QED BY <2>1
<1> QED BY <1>1, <1>5, <1>6, PlacesKeep

LEMMA FakeResizeKeeps ==
    ASSUME ScreensIndInv, NEW s \in 1..screensMade, FakeResize(s, 1, 2) PROVE ScreensIndInv'
<1>1. /\ info' = [info EXCEPT ![s].x = 1, ![s].w = 2] /\ meddled' = meddled \cup {s}
      /\ UNCHANGED <<monitors, primaryOutput, randr, rootEvents, refreshPending, screens, viewports,
                     screensMade, primaryScreen, screenOf, position, removing, stranded>>
  BY DEF FakeResize, monitorVars, placeVars
<1>2. ListInv /\ FramesInv /\ DeadInv /\ FollowInv /\ randr \in BOOLEAN
  BY DEF ScreensIndInv
<1>3. /\ screensMade \in Nat /\ DOMAIN info = 1..screensMade /\ meddled \subseteq 1..screensMade
      /\ \A t \in 1..screensMade : info[t] \in ScreenInfo
  BY <1>2, ListFacts DEF ListInv
<1>4. /\ info' \in Seq(ScreenInfo) /\ Len(info') = screensMade
      /\ \A t \in 1..screensMade : /\ info'[t].xid = info[t].xid /\ info'[t].valid = info[t].valid
                                   /\ info'[t].view = info[t].view
                                   /\ t # s => info'[t] = info[t]
  <2>1. \A t \in 1..screensMade : info'[t] = IF t = s THEN [[info[s] EXCEPT !.x = 1] EXCEPT !.w = 2] ELSE info[t]
    BY <1>1, <1>3
  <2>2. \A t \in 1..screensMade : info'[t] \in ScreenInfo
    <3>1. ASSUME NEW r \in ScreenInfo PROVE [[r EXCEPT !.x = 1] EXCEPT !.w = 2] \in ScreenInfo
      <4>1. PICK q : q = [r EXCEPT !.x = 1]
        OBVIOUS
      <4>2. q \in ScreenInfo
        BY <4>1 DEF ScreenInfo
      <4>3. [q EXCEPT !.w = 2] \in ScreenInfo
        BY <4>2 DEF ScreenInfo
      <4> QED BY <4>1, <4>3
    <3> QED BY <1>3, <2>1, <3>1
  <2>3. info' \in [1..screensMade -> ScreenInfo]
    BY <1>1, <1>3, <2>2
  <2>4. info' \in Seq(ScreenInfo) /\ Len(info') = screensMade
    BY <1>3, <2>3
  <2>5. \A r \in ScreenInfo : LET q == [[r EXCEPT !.x = 1] EXCEPT !.w = 2]
                               IN  q.xid = r.xid /\ q.valid = r.valid /\ q.view = r.view
    BY DEF ScreenInfo
  <2>6. ASSUME NEW t \in 1..screensMade
        PROVE  /\ info'[t].xid = info[t].xid /\ info'[t].valid = info[t].valid /\ info'[t].view = info[t].view
               /\ t # s => info'[t] = info[t]
    <3>1. CASE t = s
      BY <1>3, <2>1, <2>5, <3>1
    <3>2. CASE t # s
      BY <2>1, <3>2
    <3> QED BY <3>1, <3>2
  <2> QED BY <2>4, <2>6
<1>5. ListInv'
  BY <1>1, <1>2, <1>3, <1>4 DEF ListInv
<1>6. FramesInv' /\ Going' = Going /\ (Refreshing' <=> Refreshing)
  BY <1>1, <1>2, <1>3, FramesKept
<1>7. DeadInv'
  BY <1>1, <1>2, <1>4, <1>6, WaysKept DEF DeadInv
<1>8. FollowInv'
  <2>1. (refreshPending => randr) /\ (randr => primaryOutput \in Output)
    BY <1>2 DEF FollowInv
  <2>2. News' <=> News
    BY <1>1 DEF News
  <2> QED BY <1>1, <1>2, <1>4, <1>6, <2>1, <2>2, FollowKept
<1>9. PrimaryInv'
  BY <1>1, PrimaryVacuous
<1> QED BY <1>1, <1>5, <1>6, <1>7, <1>8, <1>9 DEF ScreensIndInv

LEMMA SwapScreensKeeps ==
    ASSUME ScreensIndInv, NEW i \in DOMAIN screens, NEW j \in DOMAIN screens, SwapScreens(i, j) PROVE ScreensIndInv'
<1>1. /\ screens' = [screens EXCEPT ![i] = screens[j], ![j] = screens[i]]
      /\ UNCHANGED <<monitors, primaryOutput, randr, rootEvents, refreshPending, info, viewports,
                     screensMade, primaryScreen, screenOf, position, removing, meddled, stranded>>
  BY DEF SwapScreens, monitorVars, placeVars
<1>2. ListInv /\ FramesInv /\ DeadInv /\ FollowInv /\ PrimaryInv
  BY DEF ScreensIndInv
<1>3. Len(screens) \in Nat \ {0} /\ DOMAIN screens = 1..Len(screens) /\ IsInjective(screens)
      /\ \A k \in 1..Len(screens) : screens[k] \in Nat
  <2>1. IsInjective(screens) /\ \A k \in 1..Len(screens) : screens[k] \in Nat
    BY <1>2, ElementOfSeq DEF ListInv
  <2> QED BY <1>2, <2>1, ListFacts
<1>4. /\ DOMAIN screens' = 1..Len(screens) /\ screens' \in [1..Len(screens) -> Nat]
      /\ \A k \in 1..Len(screens) : screens'[k] = IF k = j THEN screens[i] ELSE IF k = i THEN screens[j] ELSE screens[k]
  BY <1>1, <1>3
<1>5. screens' \in Seq(Nat) /\ Len(screens') = Len(screens) /\ screens' # <<>>
  <2>1. screens' \in Seq(Nat) /\ Len(screens') = Len(screens)
    BY <1>3, <1>4
  <2> QED BY <1>3, <2>1
<1>6. Range(screens') = Range(screens)
  <2>1. i \in 1..Len(screens) /\ j \in 1..Len(screens)
    BY <1>3
  <2>2. \A k \in 1..Len(screens) : \E l \in 1..Len(screens) : screens'[l] = screens[k]
    <3>1. screens'[j] = screens[i] /\ screens'[i] = screens[j]
      BY <1>4, <2>1
    <3> QED BY <1>4, <2>1, <3>1
  <2>3. \A k \in 1..Len(screens) : \E l \in 1..Len(screens) : screens'[k] = screens[l]
    BY <1>4, <2>1
  <2>4. ASSUME NEW x \in Range(screens') PROVE x \in Range(screens)
    <3>1. PICK k \in 1..Len(screens) : screens'[k] = x
      BY <1>4 DEF Range
    <3> QED BY <1>3, <2>3, <3>1 DEF Range
  <2>5. ASSUME NEW x \in Range(screens) PROVE x \in Range(screens')
    <3>1. PICK k \in 1..Len(screens) : screens[k] = x
      BY <1>3 DEF Range
    <3> QED BY <1>4, <2>2, <3>1 DEF Range
  <2> QED BY <2>4, <2>5
<1>7. IsInjective(screens')
  BY <1>3, <1>4 DEF IsInjective
<1>8. ListInv'
  BY <1>1, <1>2, <1>5, <1>6, <1>7 DEF ListInv
<1>9. FramesInv' /\ Going' = Going /\ (Refreshing' <=> Refreshing)
  BY <1>1, <1>2, <1>6 DEF FramesInv, Going, Refreshing
<1>10. DeadInv'
  BY <1>1, <1>2, <1>6, <1>9, WaysKept DEF DeadInv
<1>11. FollowInv'
  BY <1>1, <1>2, <1>6 DEF FollowInv, Present, Owned, Placed, XidsDiffer, ViewsFollow, News, Refreshing
<1>12. PrimaryInv'
  BY <1>1, <1>2, <1>6 DEF PrimaryInv, News, NoOutputChange, Exact
<1> QED BY <1>1, <1>8, <1>9, <1>10, <1>11, <1>12 DEF ScreensIndInv

LEMMA FakeAddKeeps == ASSUME ScreensIndInv, NEW x \in Position, FakeAdd(x, 1) PROVE ScreensIndInv'
<1>1. /\ screensMade < MaxScreens /\ screensMade' = screensMade + 1 /\ screens' = Append(screens, screensMade')
      /\ info' = Append(info, [xid |-> FAKE, x |-> x, w |-> 1, valid |-> TRUE, view |-> NoScreen])
      /\ screenOf' = [c \in ScreenClient |-> GetByCoord(screens', info', position[c])]
      /\ meddled' = meddled \cup {screensMade'} /\ stranded' = {}
      /\ UNCHANGED <<monitors, primaryOutput, randr, rootEvents, refreshPending, viewports,
                     primaryScreen, position, removing>>
  BY DEF FakeAdd, monitorVars
<1>2. ListInv /\ FramesInv /\ DeadInv /\ FollowInv /\ position \in [ScreenClient -> Position]
  BY DEF ScreensIndInv
<1>3. /\ screensMade \in Nat /\ MaxScreens \in Nat /\ Len(screens) \in Nat \ {0} /\ DOMAIN screens = 1..Len(screens)
      /\ info \in Seq(ScreenInfo) /\ Len(info) = screensMade /\ DOMAIN info = 1..screensMade
      /\ screens \in Seq(Nat) /\ Range(screens) \subseteq 1..screensMade /\ IsInjective(screens)
      /\ meddled \subseteq 1..screensMade
  BY <1>2, ListFacts DEF ListInv
<1>4. PICK n : n = screensMade + 1
  OBVIOUS
<1>5. n \in Nat /\ n \notin 1..screensMade /\ 1..n = 1..screensMade \cup {n} /\ screensMade' = n
  BY <1>1, <1>3, <1>4
<1>6. PICK m : m = [xid |-> FAKE, x |-> x, w |-> 1, valid |-> TRUE, view |-> NoScreen]
  OBVIOUS
<1>7. m \in ScreenInfo
  <2>1. x \in Int
    BY ScreensAssumption
  <2> QED BY <1>6, <2>1 DEF ScreenInfo
<1>8. /\ info' \in Seq(ScreenInfo) /\ Len(info') = n /\ info'[n] = m
      /\ \A s \in 1..screensMade : info'[s] = info[s]
  <2>1. info' = Append(info, m)
    BY <1>1, <1>6
  <2>2. /\ info' \in Seq(ScreenInfo) /\ Len(info') = Len(info) + 1 /\ info'[Len(info) + 1] = m
        /\ \A s \in 1..Len(info) : info'[s] = info[s]
    <3>1. \A i \in 1..Len(info) : Append(info, m)[i] = info[i]
      BY <1>3, <1>7, AppendProperties
    <3>2. /\ Append(info, m) \in Seq(ScreenInfo) /\ Len(Append(info, m)) = Len(info) + 1
          /\ Append(info, m)[Len(info) + 1] = m
      BY <1>3, <1>7, AppendProperties
    <3> QED BY <2>1, <3>1, <3>2
  <2> QED BY <1>3, <1>4, <2>2
<1>9. /\ screens' \in Seq(Nat) /\ screens' # <<>> /\ Range(screens') = Range(screens) \cup {n}
      /\ IsInjective(screens')
  <2>1. /\ screens' \in Seq(Nat) /\ Len(screens') = Len(screens) + 1 /\ DOMAIN screens' = 1..(Len(screens) + 1)
        /\ screens'[Len(screens) + 1] = n /\ \A k \in 1..Len(screens) : screens'[k] = screens[k]
    BY <1>1, <1>3, <1>5
  <2>2. 1..(Len(screens) + 1) = 1..Len(screens) \cup {Len(screens) + 1}
    BY <1>3
  <2>3. Range(screens') = Range(screens) \cup {n}
    BY <1>3, <2>1, <2>2 DEF Range
  <2>4. \A k \in 1..Len(screens) : screens[k] # n
    BY <1>3, <1>5 DEF Range
  <2>5. IsInjective(screens')
    <3>1. ASSUME NEW k \in 1..(Len(screens) + 1), NEW l \in 1..(Len(screens) + 1), screens'[k] = screens'[l]
          PROVE  k = l
      <4>1. CASE k \in 1..Len(screens) /\ l \in 1..Len(screens)
        BY <1>3, <2>1, <3>1, <4>1 DEF IsInjective
      <4>2. CASE k = Len(screens) + 1 \/ l = Len(screens) + 1
        BY <2>1, <2>2, <2>4, <3>1, <4>2
      <4> QED BY <2>2, <4>1, <4>2
    <3> QED BY <2>1, <3>1 DEF IsInjective
  <2>6. screens' # <<>>
    BY <1>3, <2>1
  <2> QED BY <2>1, <2>3, <2>5, <2>6
<1>10. m.xid = FAKE /\ m.view = NoScreen /\ m.x \in Int /\ m.w \in Int
  BY <1>6, <1>7, ScreensAssumption
<1>11. ListInv'
  <2>1. n \in 0..MaxScreens
    BY <1>1, <1>3, <1>4
  <2>2. \A s \in 1..n : info'[s].xid = FAKE => info'[s].view = NoScreen
    BY <1>2, <1>5, <1>8, <1>10 DEF ListInv
  <2>3. Range(screens') \subseteq 1..n /\ meddled' \subseteq 1..n
    BY <1>1, <1>3, <1>5, <1>9
  <2> QED BY <1>5, <1>8, <1>9, <2>1, <2>2, <2>3 DEF ListInv
<1>12. FramesInv' /\ Going' = Going /\ (Refreshing' <=> Refreshing)
  <2>1. screensMade <= screensMade' /\ screensMade' \in Nat
    BY <1>1, <1>3
  <2>2. meddled \subseteq meddled' /\ \A s \in Range(screens') : s \in Range(screens) \/ s \notin 1..screensMade
    BY <1>1, <1>5, <1>9
  <2> QED BY <1>1, <1>2, <1>3, <2>1, <2>2, FramesKept
<1>13. \A c \in ScreenClient : screenOf'[c] \in Range(screens')
  <2>1. ASSUME NEW s \in Range(screens') PROVE info'[s].x \in Int /\ info'[s].w \in Int
    <3>1. s \in 1..screensMade \/ s = n
      BY <1>3, <1>9
    <3>2. s \in 1..screensMade => info[s] \in ScreenInfo /\ info'[s] = info[s]
      BY <1>2, <1>8, ListFacts
    <3> QED BY <1>8, <1>10, <3>1, <3>2 DEF ScreenInfo
  <2>2. \A c \in ScreenClient : position[c] \in Int
    BY <1>2, ScreensAssumption
  <2>3. \A c \in ScreenClient : GetByCoord(screens', info', position[c]) \in Range(screens')
    BY <1>9, <2>1, <2>2, CoordIsListed
  <2> QED BY <1>1, <2>3
<1>14. DeadInv'
  <2>1. \A s \in 1..n : info'[s].valid => s \in Range(screens') \cup Going
    BY <1>2, <1>5, <1>8, <1>9 DEF DeadInv
  <2>2. primaryScreen \in Range(screens') \cup Due \cup {NoScreen}
    BY <1>2, <1>9 DEF DeadInv
  <2> QED BY <1>1, <1>5, <1>12, <1>13, <2>1, <2>2, WaysKept DEF DeadInv
<1>15. FollowInv'
  <2>1. (refreshPending => randr) /\ (randr => primaryOutput \in Output)
    BY <1>2 DEF FollowInv
  <2>2. News' <=> News
    BY <1>1 DEF News
  <2>3. meddled \subseteq meddled' /\ Range(screens) \subseteq Range(screens')
        /\ \A s \in Range(screens') : s \in Range(screens) \/ info'[s].xid = FAKE
    BY <1>1, <1>8, <1>9, <1>10
  <2> QED BY <1>1, <1>2, <1>8, <1>12, <2>1, <2>2, <2>3, FollowKept
<1>16. PrimaryInv'
  BY <1>1, PrimaryVacuous
<1>17. screenOf' \in [ScreenClient -> Screen]
  <2>1. n <= MaxScreens
    BY <1>1, <1>3, <1>4
  <2>2. \A s \in 1..n : s \in Screen
    BY <1>3, <1>5, <2>1 DEF Screen
  <2>3. Range(screens') \subseteq 1..n
    BY <1>3, <1>5, <1>9
  <2> QED BY <1>1, <1>13, <2>2, <2>3
<1> QED BY <1>1, <1>11, <1>12, <1>14, <1>15, <1>16, <1>17 DEF ScreensIndInv

\* The frame is entered with the screen out of the list, on its way to be removed.
LEMMA FakeRemoveKeeps == ASSUME ScreensIndInv, NEW s \in 1..screensMade, FakeRemove(s) PROVE ScreensIndInv'
<1>1. /\ Len(screens) > 1 /\ s \in Range(screens) /\ screens' = Kept(screens, Range(screens) \ {s})
      /\ removing' = Append(removing, [what |-> "fake", gone |-> <<s>>, found |-> <<>>, stage |-> "removed",
                                     todo |-> ScreenClient])
      /\ meddled' = meddled \cup {s}
      /\ UNCHANGED <<monitors, primaryOutput, randr, rootEvents, refreshPending, info, viewports, screensMade,
                     primaryScreen, screenOf, position, stranded>>
  BY DEF FakeRemove, monitorVars, placeVars
<1>2. ListInv /\ FramesInv /\ DeadInv /\ FollowInv
  BY DEF ScreensIndInv
<1>3. /\ screensMade \in Nat /\ Len(screens) \in Nat \ {0} /\ DOMAIN screens = 1..Len(screens)
      /\ screens \in Seq(Nat) /\ Range(screens) \subseteq 1..screensMade /\ IsInjective(screens)
      /\ meddled \subseteq 1..screensMade /\ removing \in Seq(Frame)
  BY <1>2, ListFacts DEF ListInv, FramesInv
<1>4. screens' \in Seq(Nat) /\ Range(screens') = Range(screens) \ {s} /\ IsInjective(screens')
  <2>1. PICK S : S = Range(screens) \ {s}
    OBVIOUS
  <2>2. screens' \in Seq(Nat) /\ Range(screens') = Range(screens) \cap S /\ IsInjective(screens')
    BY <1>1, <1>3, <2>1, KeptElements
  <2> QED BY <2>1, <2>2
<1>5. screens' # <<>>
  <2>1. 1 \in 1..Len(screens) /\ 2 \in 1..Len(screens)
    BY <1>1, <1>3
  <2>2. screens[1] # screens[2]
    BY <1>3, <2>1 DEF IsInjective
  <2>3. PICK k \in 1..Len(screens) : screens[k] # s
    BY <2>1, <2>2
  <2>4. screens[k] \in Range(screens')
    BY <1>3, <1>4, <2>3 DEF Range
  <2>5. SUFFICES ASSUME screens' = <<>> PROVE FALSE
    OBVIOUS
  <2>6. Range(screens') = {}
    BY <2>5 DEF Range
  <2> QED BY <2>4, <2>6
<1>6. PICK f : f = [what |-> "fake", gone |-> <<s>>, found |-> <<>>, stage |-> "removed",
                                     todo |-> ScreenClient]
  OBVIOUS
<1>7. f \in Frame /\ f.what = "fake" /\ f.stage = "removed" /\ f.todo = ScreenClient /\ f.gone = <<s>> /\ Len(f.gone) = 1 /\ f.gone[1] = s /\ Range(f.gone) = {s}
  <2>1. <<s>> \in Seq(Nat) /\ <<>> \in Seq(AnyMonitor)
    BY <1>3
  <2>2. f.gone = <<s>> /\ Range(<<s>>) = {s}
    BY <1>6 DEF Range
  <2> QED BY <1>6, <2>1, <2>2 DEF Frame
<1>8. PICK n : n = Len(removing)
  OBVIOUS
<1>9. /\ n \in Nat /\ removing' \in Seq(Frame) /\ Len(removing') = n + 1 /\ removing'[n + 1] = f
      /\ \A i \in 1..n : removing'[i] = removing[i]
      /\ 1..(n + 1) = 1..n \cup {n + 1}
  <2>1. n \in Nat
    BY <1>3, <1>8, LenProperties
  <2> QED BY <1>1, <1>3, <1>6, <1>7, <1>8, <2>1
<1>10. ListInv'
  BY <1>1, <1>2, <1>3, <1>4, <1>5 DEF ListInv
<1>11. FramesInv'
  <2>1. ASSUME NEW i \in 1..(n + 1)
        PROVE  /\ removing'[i].what = "refresh" => i = 1
               /\ Range(removing'[i].gone) \subseteq 1..screensMade
               /\ removing'[i].what = "fake" =>
                     Len(removing'[i].gone) = 1 /\ removing'[i].gone[1] \in meddled' \ Range(screens')
               /\ removing'[i].stage = "removed" => removing'[i].todo = ScreenClient
               /\ removing'[i].stage = "list" => removing'[i].what = "fake" /\ removing'[i].todo = {}
    <3>1. CASE i \in 1..n
      BY <1>1, <1>2, <1>4, <1>8, <1>9, <3>1 DEF FramesInv
    <3>2. CASE i = n + 1
      BY <1>1, <1>4, <1>7, <1>9, <3>2
    <3> QED BY <1>9, <2>1, <3>1, <3>2
  <2> QED BY <1>1, <1>9, <2>1 DEF FramesInv
<1>12. Going' = Going \cup {s}
  <2>1. Going' = UNION {Range(removing'[i].gone) : i \in 1..(n + 1)}
    BY <1>9 DEF Going
  <2>2. Going = UNION {Range(removing[i].gone) : i \in 1..n}
    BY <1>8 DEF Going
  <2>3. \A x : x \in Going' => x \in Going \cup {s}
    BY <1>7, <1>9, <2>1, <2>2
  <2>4. \A x \in Going : x \in Going'
    BY <1>9, <2>1, <2>2
  <2>5. s \in Going'
    BY <1>7, <1>9, <2>1
  <2> QED BY <2>3, <2>4, <2>5
<1>13. DeadInv'
  <2>1. /\ s \in Screen /\ DOMAIN removing = 1..n /\ DOMAIN removing' = 1..(n + 1) /\ DOMAIN f.gone = {1}
        /\ \A i \in 1..n : i \in 1..(n + 1)
    <3>1. DOMAIN removing = 1..n /\ DOMAIN removing' = 1..(n + 1)
      BY <1>3, <1>8, <1>9, LenProperties
    <3> QED BY <1>1, <1>2, <1>7, <1>9, <3>1, GoingAreScreens
  <2>2. Due \subseteq Due' /\ s \in Due'
    BY <1>7, <1>9, <2>1 DEF Due
  <2>3. \A c \in ScreenClient : Coming(c) \subseteq Coming(c)' /\ s \in Coming(c)'
    BY <1>7, <1>9, <2>1 DEF Coming
  <2>4. \A c \in ScreenClient \ stranded' : screenOf'[c] \in Range(screens') \cup Coming(c)'
    BY <1>1, <1>2, <1>4, <2>3 DEF DeadInv
  <2>5. primaryScreen' \in Range(screens') \cup Due' \cup {NoScreen}
    BY <1>1, <1>2, <1>4, <2>2 DEF DeadInv
  <2>6. \A x \in 1..screensMade' : info'[x].valid => x \in Range(screens') \cup Going'
    BY <1>1, <1>2, <1>4, <1>12 DEF DeadInv
  <2> QED BY <2>4, <2>5, <2>6 DEF DeadInv
<1>14. (Refreshing' <=> Refreshing) /\ (Refreshing => removing'[1].found = removing[1].found)
  <2>1. removing' # <<>>
    BY <1>9
  <2>2. CASE n = 0
    <3>1. removing = <<>>
      BY <1>3, <1>8, <2>2, EmptySeq
    <3>2. removing'[1] = f
      BY <1>9, <2>2
    <3> QED BY <1>7, <2>1, <3>1, <3>2 DEF Refreshing
  <2>3. CASE n # 0
    <3>1. 1 \in 1..n /\ removing # <<>>
      BY <1>8, <1>9, <2>3
    <3>2. removing'[1] = removing[1]
      BY <1>9, <3>1
    <3> QED BY <2>1, <3>1, <3>2 DEF Refreshing
  <2> QED BY <2>2, <2>3
<1>15. FollowInv'
  <2>1. (refreshPending => randr) /\ (randr => primaryOutput \in Output)
    BY <1>2 DEF FollowInv
  <2>2. News' <=> News
    BY <1>1 DEF News
  <2>3. meddled \subseteq meddled' /\ Range(screens) \subseteq Range(screens') \cup meddled'
        /\ Range(screens') \subseteq Range(screens)
    BY <1>1, <1>4
  <2> QED BY <1>1, <1>2, <1>14, <2>1, <2>2, <2>3, FollowKept
<1>16. PrimaryInv'
  BY <1>1, PrimaryVacuous
<1> QED BY <1>1, <1>10, <1>11, <1>13, <1>15, <1>16 DEF ScreensIndInv

-----------------------------------------------------------------------------
(* The end of a screen.                                                    *)

\* What becomes of the frames.
LEMMA FramesAfter ==
    ASSUME FramesInv, removing # <<>>, NEW n, n = Len(removing), NEW frame, frame = Last(removing)
    PROVE  /\ n \in Nat \ {0} /\ frame = removing[n] /\ frame \in Frame
           /\ Front(removing) \in Seq(Frame) /\ Len(Front(removing)) = n - 1
           /\ \A i \in 1..(n - 1) : i \in 1..n /\ Front(removing)[i] = removing[i]
           /\ \A i \in 1..n : i \in 1..(n - 1) \/ i = n
           /\ n = 1 => Front(removing) = <<>>
           /\ frame.what \in {"refresh", "fake"} /\ (frame.what = "refresh" => n = 1)
           /\ frame.what = "fake" => Len(frame.gone) = 1 /\ frame.gone[1] \in meddled \ Range(screens)
           /\ frame.gone \in Seq(Nat) /\ Range(frame.gone) \subseteq 1..screensMade
           /\ frame.stage = "list" => frame.what = "fake" /\ frame.todo = {}
<1>1. removing \in Seq(Frame) /\ n \in Nat \ {0}
  BY LenProperties, EmptySeq DEF FramesInv
<1>2. frame = removing[n] /\ n \in 1..n
  BY <1>1 DEF Last
<1>3. frame \in Frame
  BY <1>1, <1>2, ElementOfSeq
<1>4. Front(removing) \in Seq(Frame) /\ Len(Front(removing)) = n - 1
      /\ \A i \in 1..(n - 1) : Front(removing)[i] = removing[i]
  <2>1. Front(removing) = SubSeq(removing, 1, n - 1)
    BY DEF Front
  <2> QED BY <1>1, <2>1, SubSeqProperties
<1>5. n = 1 => Front(removing) = <<>>
  BY <1>4, EmptySeq
<1>6. /\ frame.what = "refresh" => n = 1
      /\ frame.what = "fake" => Len(frame.gone) = 1 /\ frame.gone[1] \in meddled \ Range(screens)
      /\ Range(frame.gone) \subseteq 1..screensMade
      /\ frame.stage = "list" => frame.what = "fake" /\ frame.todo = {}
  BY <1>2 DEF FramesInv
<1>7. frame.what \in {"refresh", "fake"} /\ frame.gone \in Seq(Nat)
  BY <1>3 DEF Frame
<1>8. \A i \in 1..(n - 1) : i \in 1..n
  BY <1>1
<1>9. \A i \in 1..n : i \in 1..(n - 1) \/ i = n
  BY <1>1
<1> QED BY <1>1, <1>2, <1>3, <1>4, <1>5, <1>6, <1>7, <1>8, <1>9

\* The elements of the sequence of screens that a frame removes.
LEMMA HeadOrTail ==
    ASSUME NEW gone \in Seq(Nat), gone # <<>>, NEW s, s = Head(gone)
    PROVE  /\ Len(gone) \in Nat \ {0} /\ s = gone[1] /\ DOMAIN gone = 1..Len(gone) /\ s \in Range(gone)
           /\ Tail(gone) \in Seq(Nat) /\ DOMAIN Tail(gone) = 1..(Len(gone) - 1)
           /\ Range(Tail(gone)) \subseteq Range(gone)
           /\ \A i \in 1..Len(gone) : i = 1 \/ (i - 1 \in DOMAIN Tail(gone) /\ Tail(gone)[i - 1] = gone[i])
<1>1. Len(gone) \in Nat \ {0} /\ DOMAIN gone = 1..Len(gone)
  BY LenProperties, EmptySeq
<1>2. s = gone[1]
  BY <1>1
<1>3. Tail(gone) \in Seq(Nat) /\ Len(Tail(gone)) = Len(gone) - 1
      /\ \A i \in 1..(Len(gone) - 1) : Tail(gone)[i] = gone[i + 1]
  BY <1>1, HeadTailProperties
<1>4. DOMAIN Tail(gone) = 1..(Len(gone) - 1)
  BY <1>3, LenProperties
<1>5. \A i \in 1..(Len(gone) - 1) : i + 1 \in 1..Len(gone)
  BY <1>1
<1>6. \A i \in 1..Len(gone) : i = 1 \/ (i - 1 \in 1..(Len(gone) - 1) /\ (i - 1) + 1 = i)
  BY <1>1
<1>7. Range(Tail(gone)) \subseteq Range(gone)
  BY <1>1, <1>3, <1>4, <1>5 DEF Range
<1>8. \A i \in 1..Len(gone) : i = 1 \/ (i - 1 \in DOMAIN Tail(gone) /\ Tail(gone)[i - 1] = gone[i])
  <2>1. ASSUME NEW i \in 1..Len(gone), i # 1 PROVE i - 1 \in DOMAIN Tail(gone) /\ Tail(gone)[i - 1] = gone[i]
    <3>1. i - 1 \in 1..(Len(gone) - 1) /\ (i - 1) + 1 = i
      BY <1>6, <2>1
    <3>2. Tail(gone)[i - 1] = gone[(i - 1) + 1]
      BY <1>3, <3>1
    <3> QED BY <1>4, <3>1, <3>2
  <2> QED BY <2>1
<1>9. 1 \in 1..Len(gone)
  BY <1>1
<1>10. s \in Range(gone)
  BY <1>1, <1>2, <1>9 DEF Range
<1> QED BY <1>1, <1>2, <1>3, <1>4, <1>7, <1>8, <1>10

\* What a frame lets go of: at most the first of its screens, if that was still to go.
LetsGo(f, b, x) == \E k \in DOMAIN f.gone : f.gone[k] = x /\ (k = 1 => b)

LEMMA MembershipIsBoolean == \A c, S : \E b \in BOOLEAN : b <=> c \in S
<1>1. ASSUME NEW c, NEW S PROVE \E b \in BOOLEAN : b <=> c \in S
  <2>1. CASE c \in S
    <3>1. TRUE \in BOOLEAN /\ (TRUE <=> c \in S)
      BY <2>1
    <3> QED BY <3>1
  <2>2. CASE c \notin S
    <3>1. FALSE \in BOOLEAN /\ (FALSE <=> c \in S)
      BY <2>2
    <3> QED BY <3>1
  <2> QED BY <2>1, <2>2
<1> QED BY <1>1

\* The last frame changes: it goes on with its first screen, or from it to the next.
LEMMA FrameChanges ==
    ASSUME FramesInv, screensMade \in Nat, removing # <<>>, NEW frame, frame = Last(removing), frame.gone # <<>>,
           NEW s, s = Head(frame.gone), NEW g \in Frame, g.what = frame.what, g.found = frame.found,
           g.gone = frame.gone \/ (frame.what = "refresh" /\ g.gone = Tail(frame.gone) /\ g.stage = "removed"),
           g.stage = "removed" => g.todo = ScreenClient, g.stage = "list" => g.what = "fake" /\ g.todo = {},
           removing' = Front(removing) \o <<g>>, UNCHANGED <<meddled, screens, screensMade>>
    PROVE  /\ s \in 1..screensMade /\ FramesInv'
           /\ (Refreshing' <=> Refreshing) /\ (Refreshing => removing'[1].found = removing[1].found)
           /\ removing' # <<>>
           /\ \A x \in Going : x \in Going' \/ (x = s /\ g.gone # frame.gone)
           /\ \A x \in Due : x \in Due' \/ (x = s /\ frame.stage = "removed")
           /\ \A c \in ScreenClient : \A x \in Coming(c) :
                 x \in Coming(c)' \/ (x = s /\ c \in frame.todo /\ (g.gone = frame.gone => c \notin g.todo))
<1>1. PICK n : n = Len(removing)
  OBVIOUS
<1>2. /\ n \in Nat \ {0} /\ frame = removing[n] /\ frame \in Frame
      /\ Front(removing) \in Seq(Frame) /\ Len(Front(removing)) = n - 1
      /\ \A i \in 1..(n - 1) : i \in 1..n /\ Front(removing)[i] = removing[i]
      /\ \A i \in 1..n : i \in 1..(n - 1) \/ i = n
      /\ frame.what \in {"refresh", "fake"} /\ (frame.what = "refresh" => n = 1)
      /\ frame.what = "fake" => Len(frame.gone) = 1 /\ frame.gone[1] \in meddled \ Range(screens)
      /\ frame.gone \in Seq(Nat) /\ Range(frame.gone) \subseteq 1..screensMade
  BY <1>1, FramesAfter
<1>3. PICK gone : gone = frame.gone
  OBVIOUS
<1>4. /\ s = gone[1] /\ DOMAIN gone = 1..Len(gone) /\ s \in Range(gone) /\ Range(Tail(gone)) \subseteq Range(gone)
      /\ \A i \in 1..Len(gone) : i = 1 \/ (i - 1 \in DOMAIN Tail(gone) /\ Tail(gone)[i - 1] = gone[i])
  BY <1>2, <1>3, HeadOrTail
<1>5. /\ removing' \in Seq(Frame) /\ Len(removing') = n /\ removing'[n] = g
      /\ \A i \in 1..(n - 1) : removing'[i] = removing[i]
      /\ DOMAIN removing = 1..n /\ DOMAIN removing' = 1..n /\ n \in 1..n /\ removing' # <<>>
  <2>1. PICK front : front = Front(removing)
    OBVIOUS
  <2>2. removing' = Append(front, g)
    BY <1>2, <2>1
  <2>3. /\ removing' \in Seq(Frame) /\ Len(removing') = (n - 1) + 1 /\ removing'[(n - 1) + 1] = g
        /\ \A i \in 1..(n - 1) : removing'[i] = front[i]
    <3>1. front \in Seq(Frame) /\ Len(front) = n - 1
      BY <1>2, <2>1
    <3>2. /\ Append(front, g) \in Seq(Frame) /\ Len(Append(front, g)) = Len(front) + 1
          /\ Append(front, g)[Len(front) + 1] = g /\ \A i \in 1..Len(front) : Append(front, g)[i] = front[i]
      BY <3>1, AppendProperties
    <3> QED BY <2>2, <3>1, <3>2
  <2>4. (n - 1) + 1 = n /\ n \in 1..n /\ n # 0
    BY <1>2
  <2>5. DOMAIN removing = 1..n /\ DOMAIN removing' = 1..n
    BY <1>1, <2>3, <2>4, LenProperties DEF FramesInv
  <2>6. removing' # <<>>
    BY <2>3, <2>4
  <2> QED BY <1>2, <2>1, <2>3, <2>4, <2>5, <2>6
<1>6. s \in 1..screensMade /\ Range(g.gone) \subseteq Range(gone)
  BY <1>2, <1>3, <1>4
<1>7. FramesInv'
  <2>1. ASSUME NEW i \in 1..n
        PROVE  /\ removing'[i].what = "refresh" => i = 1
               /\ Range(removing'[i].gone) \subseteq 1..screensMade
               /\ removing'[i].what = "fake" =>
                     Len(removing'[i].gone) = 1 /\ removing'[i].gone[1] \in meddled \ Range(screens)
               /\ removing'[i].stage = "removed" => removing'[i].todo = ScreenClient
               /\ removing'[i].stage = "list" => removing'[i].what = "fake" /\ removing'[i].todo = {}
    <3>1. CASE i = n
      <4>1. removing'[i] = g /\ (g.what = "fake" => g.gone = frame.gone)
        BY <1>5, <3>1
      <4>2. Range(g.gone) \subseteq 1..screensMade
        BY <1>2, <1>3, <1>6
      <4> QED BY <1>2, <3>1, <4>1, <4>2
    <3>2. CASE i \in 1..(n - 1)
      <4>1. i \in 1..Len(removing) /\ removing'[i] = removing[i]
        BY <1>1, <1>5, <3>2
      <4> QED BY <4>1 DEF FramesInv
    <3> QED BY <1>2, <3>1, <3>2
  <2>2. screensMade' = screensMade /\ meddled' = meddled /\ Range(screens') = Range(screens)
    OBVIOUS
  <2> QED BY <1>5, <2>1, <2>2 DEF FramesInv
<1>8. (Refreshing' <=> Refreshing) /\ (Refreshing => removing'[1].found = removing[1].found)
  <2>1. CASE n = 1
    BY <1>2, <1>5, <2>1 DEF Refreshing
  <2>2. CASE n # 1
    <3>1. 1 \in 1..(n - 1)
      BY <1>2, <2>2
    <3> QED BY <1>5, <3>1 DEF Refreshing
  <2> QED BY <2>1, <2>2
<1>9. ASSUME NEW b \in BOOLEAN, NEW d \in BOOLEAN, NEW x, LetsGo(frame, b, x), g.gone # frame.gone => d
      PROVE  LetsGo(g, d, x) \/ (x = s /\ b /\ (g.gone = frame.gone => ~d))
  <2>1. PICK k \in 1..Len(gone) : gone[k] = x /\ (k = 1 => b)
    BY <1>3, <1>4, <1>9 DEF LetsGo
  <2>2. CASE k = 1 /\ g.gone # frame.gone
    BY <1>4, <2>1, <2>2
  <2>3. CASE k = 1 /\ g.gone = frame.gone
    BY <1>3, <1>4, <2>1, <2>3 DEF LetsGo
  <2>4. CASE k # 1 /\ g.gone = frame.gone
    BY <1>3, <1>4, <2>1, <2>4 DEF LetsGo
  <2>5. CASE k # 1 /\ g.gone # frame.gone
    <3>1. k - 1 \in DOMAIN g.gone /\ g.gone[k - 1] = x
      BY <1>3, <1>4, <2>1, <2>5
    <3> QED BY <1>9, <2>5, <3>1 DEF LetsGo
  <2> QED BY <2>2, <2>3, <2>4, <2>5
<1>10. ASSUME NEW x \in Going PROVE x \in Going' \/ (x = s /\ g.gone # frame.gone)
  <2>1. PICK i \in 1..n : x \in Range(removing[i].gone)
    BY <1>1 DEF Going
  <2>2. CASE i \in 1..(n - 1)
    BY <1>2, <1>5, <2>1, <2>2 DEF Going
  <2>3. CASE i = n
    <3>1. PICK k \in DOMAIN frame.gone : frame.gone[k] = x
      BY <1>2, <2>1, <2>3 DEF Range
    <3>2. LetsGo(frame, TRUE, x)
      BY <3>1 DEF LetsGo
    <3>3. LetsGo(g, TRUE, x) \/ (x = s /\ g.gone # frame.gone)
      BY <1>9, <3>2
    <3>4. LetsGo(g, TRUE, x) => x \in Range(g.gone)
      BY DEF LetsGo, Range
    <3> QED BY <1>5, <3>3, <3>4 DEF Going
  <2> QED BY <1>2, <2>2, <2>3
<1>11. ASSUME NEW x \in Due PROVE x \in Due' \/ (x = s /\ frame.stage = "removed")
  <2>1. x \in Screen /\ \E i \in 1..n : LetsGo(removing[i], removing[i].stage = "removed", x)
    BY <1>5 DEF Due, LetsGo
  <2>2. PICK i \in 1..n : LetsGo(removing[i], removing[i].stage = "removed", x)
    BY <2>1
  <2>3. (\E j \in 1..n : LetsGo(removing'[j], removing'[j].stage = "removed", x)) => x \in Due'
    BY <1>5, <2>1 DEF Due, LetsGo
  <2>4. CASE i \in 1..(n - 1)
    BY <1>2, <1>5, <2>2, <2>3, <2>4
  <2>5. CASE i = n
    <3>1. LetsGo(frame, frame.stage = "removed", x)
      BY <1>2, <2>2, <2>5
    <3>2. g.gone # frame.gone => g.stage = "removed"
      OBVIOUS
    <3>3. LetsGo(g, g.stage = "removed", x) \/ (x = s /\ frame.stage = "removed")
      BY <1>9, <3>1, <3>2
    <3> QED BY <1>5, <2>3, <3>3
  <2> QED BY <1>2, <2>4, <2>5
<1>12. ASSUME NEW c \in ScreenClient, NEW x \in Coming(c)
       PROVE  x \in Coming(c)' \/ (x = s /\ c \in frame.todo /\ (g.gone = frame.gone => c \notin g.todo))
  <2>1. x \in Screen /\ \E i \in 1..n : LetsGo(removing[i], c \in removing[i].todo, x)
    BY <1>5 DEF Coming, LetsGo
  <2>2. PICK i \in 1..n : LetsGo(removing[i], c \in removing[i].todo, x)
    BY <2>1
  <2>3. (\E j \in 1..n : LetsGo(removing'[j], c \in removing'[j].todo, x)) => x \in Coming(c)'
    BY <1>5, <2>1 DEF Coming, LetsGo
  <2>4. CASE i \in 1..(n - 1)
    BY <1>2, <1>5, <2>2, <2>3, <2>4
  <2>5. CASE i = n
    <3>1. LetsGo(frame, c \in frame.todo, x)
      BY <1>2, <2>2, <2>5
    <3>2. g.gone # frame.gone => c \in g.todo
      OBVIOUS
    <3>3. LetsGo(g, c \in g.todo, x) \/ (x = s /\ c \in frame.todo /\ (g.gone = frame.gone => c \notin g.todo))
      <4>1. PICK b \in BOOLEAN, d \in BOOLEAN : (b <=> c \in frame.todo) /\ (d <=> c \in g.todo)
        BY MembershipIsBoolean, Zenon
      <4>2. LetsGo(frame, b, x) /\ (g.gone # frame.gone => d)
        BY <3>1, <3>2, <4>1
      <4>3. LetsGo(g, d, x) \/ (x = s /\ b /\ (g.gone = frame.gone => ~d))
        BY <1>9, <4>2
      <4> QED BY <4>1, <4>3
    <3> QED BY <1>5, <2>3, <3>3
  <2> QED BY <1>2, <2>4, <2>5
<1> QED BY <1>5, <1>6, <1>7, <1>8, <1>10, <1>11, <1>12

\* The end of a call of fake_remove: no client is on its screen any more, but those stranded.
LEMMA FrameEnds ==
    ASSUME FramesInv, screensMade \in Nat, removing # <<>>, NEW frame, frame = Last(removing),
           frame.stage = "list", NEW s, s = Head(frame.gone), removing' = Front(removing),
           UNCHANGED <<meddled, screens, screensMade>>
    PROVE  /\ s \in 1..screensMade /\ FramesInv'
           /\ (Refreshing' <=> Refreshing) /\ (Refreshing => removing'[1].found = removing[1].found)
           /\ meddled # {}
           /\ \A x \in Going : x \in Going' \/ x = s
           /\ Due \subseteq Due' /\ \A c \in ScreenClient : Coming(c) \subseteq Coming(c)'
<1>1. PICK n : n = Len(removing)
  OBVIOUS
<1>2. /\ n \in Nat \ {0} /\ frame = removing[n] /\ frame \in Frame
      /\ removing' \in Seq(Frame) /\ Len(removing') = n - 1
      /\ \A i \in 1..(n - 1) : i \in 1..n /\ removing'[i] = removing[i]
      /\ \A i \in 1..n : i \in 1..(n - 1) \/ i = n
      /\ n = 1 => removing' = <<>>
      /\ frame.what = "fake" /\ frame.todo = {}
      /\ Len(frame.gone) = 1 /\ frame.gone[1] \in meddled \ Range(screens)
      /\ frame.gone \in Seq(Nat) /\ Range(frame.gone) \subseteq 1..screensMade
  BY <1>1, FramesAfter
<1>3. DOMAIN frame.gone = {1} /\ s = frame.gone[1] /\ Range(frame.gone) = {s} /\ s \in 1..screensMade
  <2>1. DOMAIN frame.gone = 1..1 /\ 1..1 = {1}
    BY <1>2, LenProperties
  <2>2. s = frame.gone[1]
    BY <1>2
  <2>3. Range(frame.gone) = {s}
    BY <2>1, <2>2 DEF Range
  <2> QED BY <1>2, <2>1, <2>2, <2>3
<1>4. DOMAIN removing = 1..n /\ DOMAIN removing' = 1..(n - 1)
  BY <1>1, <1>2, LenProperties DEF FramesInv
<1>5. FramesInv'
  <2>1. ASSUME NEW i \in 1..(n - 1)
        PROVE  /\ removing'[i].what = "refresh" => i = 1
               /\ Range(removing'[i].gone) \subseteq 1..screensMade
               /\ removing'[i].what = "fake" =>
                     Len(removing'[i].gone) = 1 /\ removing'[i].gone[1] \in meddled \ Range(screens)
               /\ removing'[i].stage = "removed" => removing'[i].todo = ScreenClient
               /\ removing'[i].stage = "list" => removing'[i].what = "fake" /\ removing'[i].todo = {}
    <3>1. i \in 1..Len(removing) /\ removing'[i] = removing[i]
      BY <1>1, <1>2
    <3> QED BY <3>1 DEF FramesInv
  <2>2. screensMade' = screensMade /\ meddled' = meddled /\ Range(screens') = Range(screens)
    OBVIOUS
  <2> QED BY <1>2, <2>1, <2>2 DEF FramesInv
<1>6. (Refreshing' <=> Refreshing) /\ (Refreshing => removing'[1].found = removing[1].found)
  <2>1. CASE n = 1
    <3>1. removing' = <<>> /\ removing[1].what # "refresh"
      BY <1>2, <2>1
    <3> QED BY <3>1 DEF Refreshing
  <2>2. CASE n # 1
    <3>1. 1 \in 1..(n - 1) /\ removing'[1] = removing[1] /\ removing' # <<>>
      <4>1. 1 \in 1..(n - 1)
        BY <1>2, <2>2
      <4>2. Len(removing') # 0
        BY <1>2, <2>2
      <4> QED BY <1>2, <4>1, <4>2
    <3> QED BY <3>1 DEF Refreshing
  <2> QED BY <2>1, <2>2
<1>7. ASSUME NEW x \in Going PROVE x \in Going' \/ x = s
  <2>1. PICK i \in 1..n : x \in Range(removing[i].gone)
    BY <1>1 DEF Going
  <2>2. CASE i = n
    BY <1>2, <1>3, <2>1, <2>2
  <2>3. CASE i \in 1..(n - 1)
    BY <1>2, <2>1, <2>3 DEF Going
  <2> QED BY <1>2, <2>2, <2>3
<1>8. ASSUME NEW x \in Due PROVE x \in Due'
  <2>1. PICK i \in 1..n : \E k \in DOMAIN removing[i].gone : removing[i].gone[k] = x /\ (k = 1 => removing[i].stage = "removed")
    BY <1>4 DEF Due
  <2>2. i # n
    BY <1>2, <1>3, <2>1
  <2>3. i \in 1..(n - 1) /\ removing'[i] = removing[i]
    BY <1>2, <2>2
  <2> QED BY <1>4, <2>1, <2>3 DEF Due
<1>9. ASSUME NEW c \in ScreenClient, NEW x \in Coming(c) PROVE x \in Coming(c)'
  <2>1. PICK i \in 1..n : \E k \in DOMAIN removing[i].gone : removing[i].gone[k] = x /\ (k = 1 => c \in removing[i].todo)
    BY <1>4 DEF Coming
  <2>2. i # n
    BY <1>2, <1>3, <2>1
  <2>3. i \in 1..(n - 1) /\ removing'[i] = removing[i]
    BY <1>2, <2>2
  <2> QED BY <1>4, <2>1, <2>3 DEF Coming
<1> QED BY <1>2, <1>3, <1>5, <1>6, <1>7, <1>8, <1>9

\* A screen may end, and all else but its frame and the clients stays.
LEMMA ScreenEnds ==
    ASSUME ScreensIndInv, NEW s \in 1..screensMade, FramesInv',
           Refreshing' <=> Refreshing, Refreshing => removing'[1].found = removing[1].found,
           removing' = <<>> => meddled # {},
           \/ info' = info /\ Going \subseteq Going'
           \/ info' = [info EXCEPT ![s].valid = FALSE] /\ \A x \in Going : x \in Going' \/ x = s,
           UNCHANGED <<monitors, primaryOutput, randr, rootEvents, refreshPending, screens, viewports, screensMade,
                       position, meddled>>,
           screenOf' \in [ScreenClient -> Screen],
           \A c \in ScreenClient \ stranded' : screenOf'[c] \in Range(screens) \cup Coming(c)',
           primaryScreen' \in Range(screens) \cup Due' \cup {NoScreen}
    PROVE  ScreensIndInv'
<1>1. ListInv /\ FramesInv /\ DeadInv /\ FollowInv
  BY DEF ScreensIndInv
<1>2. /\ screensMade \in Nat /\ DOMAIN info = 1..screensMade
      /\ \A t \in 1..screensMade : info[t] \in ScreenInfo
  BY <1>1, ListFacts
<1>3. /\ info' \in Seq(ScreenInfo) /\ Len(info') = screensMade
      /\ \A t \in 1..screensMade : /\ info'[t].xid = info[t].xid /\ info'[t].x = info[t].x /\ info'[t].w = info[t].w
                                   /\ info'[t].view = info[t].view
                                   /\ info'[t].valid => info[t].valid /\ (info' = info \/ t # s)
  <2>1. CASE info' = info
    BY <1>1, <2>1 DEF ListInv
  <2>2. CASE info' = [info EXCEPT ![s].valid = FALSE]
    <3>1. \A t \in 1..screensMade : info'[t] = IF t = s THEN [info[s] EXCEPT !.valid = FALSE] ELSE info[t]
      BY <1>2, <2>2
    <3>2. \A t \in 1..screensMade : info'[t] \in ScreenInfo
      <4>1. ASSUME NEW r \in ScreenInfo PROVE [r EXCEPT !.valid = FALSE] \in ScreenInfo
        BY DEF ScreenInfo
      <4>2. info[s] \in ScreenInfo
        BY <1>2
      <4> QED BY <1>2, <3>1, <4>1, <4>2
    <3>3. info' \in [1..screensMade -> ScreenInfo]
      BY <1>2, <2>2, <3>2
    <3>4. info' \in Seq(ScreenInfo) /\ Len(info') = screensMade
      BY <1>2, <3>3
    <3>5. ASSUME NEW t \in 1..screensMade
          PROVE  /\ info'[t].xid = info[t].xid /\ info'[t].x = info[t].x /\ info'[t].w = info[t].w
                 /\ info'[t].view = info[t].view /\ (info'[t].valid => info[t].valid /\ t # s)
      <4>1. info[t] \in ScreenInfo /\ info[t].valid \in BOOLEAN
        BY <1>2 DEF ScreenInfo
      <4>2. CASE t = s
        BY <3>1, <4>1, <4>2 DEF ScreenInfo
      <4>3. CASE t # s
        BY <3>1, <4>1, <4>3
      <4> QED BY <4>2, <4>3
    <3> QED BY <3>4, <3>5
  <2> QED BY <2>1, <2>2
<1>4. ListInv'
  BY <1>1, <1>3 DEF ListInv
<1>5. DeadInv'
  <2>1. ASSUME NEW t \in 1..screensMade, info'[t].valid PROVE t \in Range(screens) \cup Going'
    <3>1. info[t].valid /\ (info' = info \/ t # s)
      BY <1>3, <2>1
    <3>2. t \in Range(screens) \cup Going
      BY <1>1, <3>1 DEF DeadInv
    <3>3. CASE info' = info /\ Going \subseteq Going'
      BY <3>2, <3>3
    <3>4. CASE info' = [info EXCEPT ![s].valid = FALSE] /\ \A x \in Going : x \in Going' \/ x = s
      <4>1. t # s
        <5>1. SUFFICES ASSUME t = s PROVE FALSE
          OBVIOUS
        <5>2. info'[s] = [info[s] EXCEPT !.valid = FALSE] /\ info[s] \in ScreenInfo
          BY <1>2, <3>4
        <5>3. ~info'[s].valid
          BY <5>2 DEF ScreenInfo
        <5> QED BY <2>1, <5>1, <5>3
      <4> QED BY <3>2, <3>4, <4>1
    <3> QED BY <3>3, <3>4
  <2> QED BY <2>1 DEF DeadInv
<1>6. FollowInv'
  <2>1. (refreshPending => randr) /\ (randr => primaryOutput \in Output)
    BY <1>1 DEF FollowInv
  <2>2. News' <=> News
    BY DEF News
  <2> QED BY <1>1, <1>3, <2>1, <2>2, FollowKept
<1>7. PrimaryInv'
  BY PrimaryVacuous
<1> QED BY <1>4, <1>5, <1>6, <1>7 DEF ScreensIndInv

\* screen_removed goes on after the handlers of "removed" or "property::screen".
LEMMA RemovedReturnsKeeps == ASSUME ScreensIndInv, RemovedReturns PROVE ScreensIndInv'
<1>1. PICK frame : frame = Last(removing)
  OBVIOUS
<1>2. PICK s : s = Head(frame.gone)
  OBVIOUS
<1>3. /\ removing # <<>> /\ frame.gone # <<>> /\ frame.stage # "list"
      /\ primaryScreen' = (IF frame.stage = "removed" /\ primaryScreen = s THEN NoScreen ELSE primaryScreen)
      /\ MoveNext(frame, s) \/ NoneLeft(frame, s)
      /\ UNCHANGED <<monitors, primaryOutput, randr, rootEvents, refreshPending, screens, viewports, screensMade,
                     position, meddled>>
  BY <1>1, <1>2 DEF RemovedReturns, monitorVars
<1>4. /\ ListInv /\ FramesInv /\ DeadInv /\ screensMade \in Nat
      /\ position \in [ScreenClient -> Position] /\ screenOf \in [ScreenClient -> Screen]
  BY ListFacts DEF ScreensIndInv
<1>5. frame \in Frame /\ frame.todo \subseteq ScreenClient /\ frame.gone \in Seq(Nat)
  <2>1. PICK n : n = Len(removing)
    OBVIOUS
  <2>2. frame \in Frame
    BY <1>1, <1>3, <1>4, <2>1, FramesAfter
  <2> QED BY <2>2 DEF Frame
<1>6. ASSUME NEW c \in frame.todo, NEW rest \in SUBSET frame.todo, screenOf[c] = s, c \notin rest,
             \A passed \in frame.todo \ (rest \cup {c}) : screenOf[passed] # s,
             screenOf' = MovedOff(s, c), stranded' = stranded \ {c}, info' = info,
             removing' = Front(removing) \o <<[frame EXCEPT !.stage = "property::screen", !.todo = rest]>>
      PROVE  ScreensIndInv'
  <2>1. PICK g : g = [frame EXCEPT !.stage = "property::screen", !.todo = rest]
    OBVIOUS
  <2>2. /\ g \in Frame /\ g.what = frame.what /\ g.found = frame.found /\ g.gone = frame.gone
        /\ g.stage = "property::screen" /\ g.todo = rest
    BY <1>5, <1>6, <2>1 DEF Frame
  <2>3. /\ s \in 1..screensMade /\ FramesInv'
        /\ (Refreshing' <=> Refreshing) /\ (Refreshing => removing'[1].found = removing[1].found)
        /\ removing' # <<>>
        /\ \A x \in Going : x \in Going' \/ (x = s /\ g.gone # frame.gone)
        /\ \A x \in Due : x \in Due' \/ (x = s /\ frame.stage = "removed")
        /\ \A d \in ScreenClient : \A x \in Coming(d) :
              x \in Coming(d)' \/ (x = s /\ d \in frame.todo /\ (g.gone = frame.gone => d \notin g.todo))
    <3>1. removing' = Front(removing) \o <<g>>
      BY <1>6, <2>1
    <3> QED BY <1>1, <1>2, <1>3, <1>4, <2>2, <3>1, FrameChanges
  <2>4. GetByCoord(screens, info, position[c]) \in Range(screens) /\ Range(screens) \subseteq Screen
    <3>1. position[c] \in Int
      BY <1>4, <1>5, ScreensAssumption
    <3> QED BY <1>4, <3>1, ByCoordIsListed, GoingAreScreens
  <2>5. screenOf' \in [ScreenClient -> Screen] /\ screenOf'[c] \in Range(screens)
        /\ \A d \in ScreenClient : d # c => screenOf'[d] = screenOf[d]
    BY <1>4, <1>5, <1>6, <2>4 DEF MovedOff
  <2>6. ASSUME NEW d \in ScreenClient \ stranded' PROVE screenOf'[d] \in Range(screens) \cup Coming(d)'
    <3>1. CASE d = c
      BY <2>5, <3>1
    <3>2. CASE d # c
      <4>1. screenOf'[d] = screenOf[d] /\ screenOf[d] \in Range(screens) \cup Coming(d)
        BY <1>4, <1>6, <2>5, <2>6, <3>2 DEF DeadInv
      <4>2. ~(screenOf[d] = s /\ d \in frame.todo /\ d \notin rest)
        BY <1>6, <3>2
      <4> QED BY <2>2, <2>3, <4>1, <4>2
    <3> QED BY <3>1, <3>2
  <2>7. primaryScreen' \in Range(screens) \cup Due' \cup {NoScreen}
    BY <1>3, <1>4, <2>3 DEF DeadInv
  <2>8. Going \subseteq Going'
    BY <2>2, <2>3
  <2> QED BY <1>3, <1>6, <2>3, <2>5, <2>6, <2>7, <2>8, ScreenEnds
<1>7. ASSUME \A c \in frame.todo : screenOf[c] # s, UNCHANGED <<screenOf, stranded>>, NEW g,
             \/ /\ frame.what = "fake" /\ g = [frame EXCEPT !.stage = "list", !.todo = {}] /\ info' = info
             \/ /\ frame.what # "fake" /\ g = [frame EXCEPT !.gone = Tail(@), !.stage = "removed", !.todo = ScreenClient]
                /\ info' = [info EXCEPT ![s].valid = FALSE],
             removing' = Front(removing) \o <<g>>
      PROVE  ScreensIndInv'
  <2>1. /\ g \in Frame /\ g.what = frame.what /\ g.found = frame.found
        /\ g.gone = frame.gone \/ (frame.what = "refresh" /\ g.gone = Tail(frame.gone) /\ g.stage = "removed")
        /\ (g.stage = "removed" => g.todo = ScreenClient) /\ (g.stage = "list" => g.what = "fake" /\ g.todo = {})
        /\ (info' = info /\ g.gone = frame.gone) \/ info' = [info EXCEPT ![s].valid = FALSE]
    <3>1. CASE frame.what = "fake" /\ g = [frame EXCEPT !.stage = "list", !.todo = {}] /\ info' = info
      BY <1>5, <3>1 DEF Frame
    <3>2. CASE /\ frame.what # "fake" /\ info' = [info EXCEPT ![s].valid = FALSE]
               /\ g = [frame EXCEPT !.gone = Tail(@), !.stage = "removed", !.todo = ScreenClient]
      <4>1. Tail(frame.gone) \in Seq(Nat)
        BY <1>2, <1>3, <1>5, HeadOrTail
      <4>2. frame.what = "refresh"
        BY <1>5, <3>2 DEF Frame
      <4> QED BY <1>5, <3>2, <4>1, <4>2 DEF Frame
    <3> QED BY <1>7, <3>1, <3>2
  <2>2. /\ s \in 1..screensMade /\ FramesInv'
        /\ (Refreshing' <=> Refreshing) /\ (Refreshing => removing'[1].found = removing[1].found)
        /\ removing' # <<>>
        /\ \A x \in Going : x \in Going' \/ (x = s /\ g.gone # frame.gone)
        /\ \A x \in Due : x \in Due' \/ (x = s /\ frame.stage = "removed")
        /\ \A d \in ScreenClient : \A x \in Coming(d) :
              x \in Coming(d)' \/ (x = s /\ d \in frame.todo /\ (g.gone = frame.gone => d \notin g.todo))
    BY <1>1, <1>2, <1>3, <1>4, <1>7, <2>1, FrameChanges
  <2>3. ASSUME NEW d \in ScreenClient \ stranded' PROVE screenOf'[d] \in Range(screens) \cup Coming(d)'
    <3>1. screenOf'[d] = screenOf[d] /\ screenOf[d] \in Range(screens) \cup Coming(d)
      BY <1>4, <1>7, <2>3 DEF DeadInv
    <3> QED BY <1>7, <2>2, <3>1
  <2>4. primaryScreen' \in Range(screens) \cup Due' \cup {NoScreen}
    BY <1>3, <1>4, <2>2 DEF DeadInv
  <2>5. \/ info' = info /\ Going \subseteq Going'
        \/ info' = [info EXCEPT ![s].valid = FALSE] /\ \A x \in Going : x \in Going' \/ x = s
    BY <2>1, <2>2
  <2>6. screenOf' \in [ScreenClient -> Screen]
    BY <1>4, <1>7
  <2> QED BY <1>3, <2>2, <2>3, <2>4, <2>5, <2>6, ScreenEnds
<1>8. CASE MoveNext(frame, s)
  BY <1>6, <1>8 DEF MoveNext
<1>9. CASE NoneLeft(frame, s)
  <2>1. CASE frame.what = "fake"
    BY <1>7, <1>9, <2>1 DEF NoneLeft
  <2>2. CASE frame.what # "fake"
    BY <1>7, <1>9, <2>2 DEF NoneLeft
  <2> QED BY <2>1, <2>2
<1> QED BY <1>3, <1>8, <1>9

LEMMA ListReturnsKeeps == ASSUME ScreensIndInv, ListReturns PROVE ScreensIndInv'
<1>1. PICK frame : frame = Last(removing)
  OBVIOUS
<1>2. PICK s : s = Head(frame.gone)
  OBVIOUS
<1>3. /\ removing # <<>> /\ frame.stage = "list" /\ info' = [info EXCEPT ![s].valid = FALSE]
      /\ removing' = Front(removing)
      /\ UNCHANGED <<monitors, primaryOutput, randr, rootEvents, refreshPending, screens, viewports, screensMade,
                     primaryScreen, screenOf, position, meddled, stranded>>
  BY <1>1, <1>2 DEF ListReturns, monitorVars, placeVars
<1>4. /\ ListInv /\ FramesInv /\ DeadInv /\ screensMade \in Nat /\ screenOf \in [ScreenClient -> Screen]
  BY ListFacts DEF ScreensIndInv
<1>5. /\ s \in 1..screensMade /\ FramesInv'
      /\ (Refreshing' <=> Refreshing) /\ (Refreshing => removing'[1].found = removing[1].found)
      /\ meddled # {}
      /\ \A x \in Going : x \in Going' \/ x = s
      /\ Due \subseteq Due' /\ \A c \in ScreenClient : Coming(c) \subseteq Coming(c)'
  BY <1>1, <1>2, <1>3, <1>4, FrameEnds
<1>6. \A c \in ScreenClient \ stranded' : screenOf'[c] \in Range(screens) \cup Coming(c)'
  BY <1>3, <1>4, <1>5 DEF DeadInv
<1>7. primaryScreen' \in Range(screens) \cup Due' \cup {NoScreen}
  BY <1>3, <1>4, <1>5 DEF DeadInv
<1>8. screenOf' \in [ScreenClient -> Screen]
  BY <1>3, <1>4
<1> QED BY <1>3, <1>5, <1>6, <1>7, <1>8, ScreenEnds

-----------------------------------------------------------------------------
(* A refresh.                                                              *)

LEMMA RefreshEndKeeps == ASSUME ScreensIndInv, RefreshEnd PROVE ScreensIndInv'
<1>1. PICK frame : frame = Last(removing)
  OBVIOUS
<1>2. PICK found : found = frame.found
  OBVIOUS
<1>3. PICK inf : inf = Modified(found)
  OBVIOUS
<1>4. /\ removing # <<>> /\ frame.gone = <<>> /\ info' = inf
      /\ primaryScreen' = UpdatedPrimary(screens, inf, viewports)
      /\ removing' = Front(removing) /\ meddled' = meddled \ Range(screens)
      /\ UNCHANGED <<monitors, primaryOutput, randr, rootEvents, refreshPending, screens, viewports, screensMade,
                     screenOf, position, stranded>>
  BY <1>1, <1>2, <1>3 DEF RefreshEnd, monitorVars, placeVars
<1>5. /\ ListInv /\ FramesInv /\ DeadInv /\ FollowInv /\ monitors \in Layout /\ randr \in BOOLEAN
  BY DEF ScreensIndInv
<1>6. /\ screensMade \in Nat /\ DOMAIN info = 1..screensMade /\ Range(screens) \subseteq 1..screensMade
      /\ screens \in Seq(Nat) /\ \A t \in 1..screensMade : info[t] \in ScreenInfo
      /\ \A t \in 1..screensMade : info[t].xid = FAKE => info[t].view = NoScreen
  BY <1>5, ListFacts DEF ListInv
<1>7. /\ removing' = <<>> /\ removing[1] = frame /\ frame \in Frame /\ Refreshing
      /\ Going = {} /\ Due = {} /\ \A c \in ScreenClient : Coming(c) = {}
  <2>1. PICK n : n = Len(removing)
    OBVIOUS
  <2>2. /\ n \in Nat \ {0} /\ frame = removing[n] /\ frame \in Frame
        /\ n = 1 => Front(removing) = <<>>
        /\ frame.what \in {"refresh", "fake"} /\ (frame.what = "refresh" => n = 1)
        /\ frame.what = "fake" => Len(frame.gone) = 1
    BY <1>1, <1>4, <1>5, <2>1, FramesAfter
  <2>3. frame.what = "refresh" /\ n = 1
    <3>1. Len(frame.gone) = 0
      BY <1>4
    <3> QED BY <2>2, <3>1
  <2>4. Going = {} /\ Due = {} /\ \A c \in ScreenClient : Coming(c) = {}
    <3>1. \A i \in 1..Len(removing) : removing[i].gone = <<>>
      BY <1>4, <2>1, <2>2, <2>3
    <3>2. Range(<<>>) = {} /\ DOMAIN <<>> = {}
      BY DEF Range
    <3>3. DOMAIN removing = 1..Len(removing)
      BY <1>5, LenProperties DEF FramesInv
    <3> QED BY <3>1, <3>2, <3>3 DEF Going, Due, Coming
  <2> QED BY <1>4, <2>2, <2>3, <2>4 DEF Refreshing
<1>8. /\ found \in Seq(AnyMonitor) /\ Len(found) \in Nat /\ DOMAIN found = 1..Len(found)
      /\ \A k \in 1..Len(found) : found[k] \in AnyMonitor
  <2>1. found \in Seq(AnyMonitor)
    BY <1>2, <1>7 DEF Frame
  <2> QED BY <2>1, LenProperties, ElementOfSeq
<1>9. ASSUME NEW t \in 1..screensMade
      PROVE  \/ inf[t] = info[t] /\ (t \in Range(screens) => \A k \in 1..Len(found) : found[k].id # info[t].xid)
             \/ t \in Range(screens) /\ \E k \in 1..Len(found) : inf[t] = ScreenAt(found[k]) /\ found[k].id = info[t].xid
  <2>1. PICK same : same = {i \in DOMAIN found : found[i].id = info[t].xid}
    OBVIOUS
  <2>2. inf[t] = IF t \in Range(screens) /\ same # {} THEN ScreenAt(found[Max(same)]) ELSE info[t]
    BY <1>3, <1>6, <2>1 DEF Modified
  <2>3. same \subseteq 1..Len(found) /\ \A k \in same : found[k].id = info[t].xid
    BY <1>8, <2>1
  <2>4. same # {} => Max(same) \in same
    BY <1>8, <2>3, MaxOf
  <2>5. CASE t \in Range(screens) /\ same # {}
    <3>1. Max(same) \in 1..Len(found) /\ found[Max(same)].id = info[t].xid
      BY <2>3, <2>4, <2>5
    <3> QED BY <2>2, <2>5, <3>1
  <2>6. CASE ~(t \in Range(screens) /\ same # {})
    BY <1>8, <2>1, <2>2, <2>6
  <2> QED BY <2>5, <2>6
<1>10. \A k \in 1..Len(found) : /\ ScreenAt(found[k]) \in ScreenInfo /\ ScreenAt(found[k]).xid = found[k].id
                               /\ found[k].id # FAKE /\ ScreenAt(found[k]).view = Place(ScreenAt(found[k]))
                               /\ Place(ScreenAt(found[k])) = Place(found[k])
  <2>1. ASSUME NEW m \in AnyMonitor
        PROVE  /\ ScreenAt(m) \in ScreenInfo /\ ScreenAt(m).xid = m.id /\ m.id # FAKE
               /\ ScreenAt(m).view = Place(ScreenAt(m)) /\ Place(ScreenAt(m)) = Place(m)
    <3>1. m.id \in Output \cup {NONE} /\ m.x \in Int /\ m.w \in Int
      BY DEF AnyMonitor
    <3>2. m.id # FAKE
      BY <3>1, ScreensAssumption DEF NONE, FAKE
    <3> QED BY <3>1, <3>2 DEF ScreenAt, ScreenInfo, Place
  <2> QED BY <1>8, <2>1
<1>11. ASSUME NEW t \in 1..screensMade
       PROVE  inf[t] \in ScreenInfo /\ inf[t].xid = info[t].xid /\ (inf[t].xid = FAKE => inf[t].view = NoScreen)
              /\ (inf[t].valid => info[t].valid \/ t \in Range(screens))
  BY <1>6, <1>9, <1>10
<1>12. inf \in Seq(ScreenInfo) /\ Len(inf) = screensMade
  <2>1. inf = [t \in 1..screensMade |-> inf[t]]
    BY <1>3, <1>6 DEF Modified
  <2>2. inf \in [1..screensMade -> ScreenInfo]
    BY <1>11, <2>1
  <2> QED BY <1>6, <2>2
<1>13. ListInv'
  BY <1>4, <1>5, <1>11, <1>12 DEF ListInv
<1>14. FramesInv' /\ Going' = {} /\ ~Refreshing'
  <2>1. Len(<<>>) = 0 /\ <<>> \in Seq(Frame) /\ 1..0 = {}
    OBVIOUS
  <2> QED BY <1>7, <2>1 DEF FramesInv, Going, Refreshing
<1>15. DeadInv'
  <2>1. primaryScreen' \in Range(screens) \cup {primaryScreen}
    BY <1>4, <1>6, PrimaryIsListed
  <2> QED BY <1>4, <1>5, <1>7, <1>11, <1>14, <2>1 DEF DeadInv
<1>16. News' <=> News
  BY <1>4 DEF News
<1>17. ASSUME randr PROVE XidsDiffer(screens, inf)
  <2>1. XidsDiffer(screens, info)
    BY <1>5, <1>17 DEF FollowInv
  <2> QED BY <1>6, <1>11, <2>1 DEF XidsDiffer
<1>18. ASSUME randr, ~News
       PROVE  /\ Present(screens, inf, meddled', found) /\ Owned(screens, inf, found) /\ ViewsFollow(viewports)
              /\ Placed(screens, inf, {}, found) /\ found = Scanned(monitors)
  <2>1. /\ found = Scanned(monitors) /\ Present(screens, info, meddled, found) /\ Owned(screens, info, found)
        /\ ViewsFollow(viewports)
    BY <1>2, <1>5, <1>7, <1>18 DEF FollowInv
  <2>2. meddled \subseteq 1..screensMade /\ Range(screens) \cup meddled' = Range(screens) \cup meddled
    BY <1>4, <1>5 DEF ListInv
  <2>3. \A t \in Range(screens) \cup meddled : inf[t].xid = info[t].xid
    BY <1>6, <1>11, <2>2
  <2>4. Present(screens, inf, meddled', found)
    BY <2>1, <2>2, <2>3 DEF Present
  <2>5. Owned(screens, inf, found)
    BY <2>1, <2>3 DEF Owned
  <2>6. Placed(screens, inf, {}, found)
    <3>1. ASSUME NEW t \in Range(screens), inf[t].xid # FAKE
          PROVE  /\ inf[t].view = Place(inf[t])
                 /\ \E i \in 1..Len(found) : found[i].id = inf[t].xid /\ Place(found[i]) = Place(inf[t])
      <4>1. PICK i \in 1..Len(found) : found[i].id = info[t].xid
        BY <2>1, <2>3, <3>1 DEF Owned
      <4>2. PICK k \in 1..Len(found) : inf[t] = ScreenAt(found[k]) /\ found[k].id = info[t].xid
        BY <1>6, <1>9, <3>1, <4>1
      <4> QED BY <1>10, <2>3, <3>1, <4>2
    <3> QED BY <3>1 DEF Placed
  <2> QED BY <2>1, <2>4, <2>5, <2>6
<1>19. FollowInv'
  <2>1. (refreshPending => randr) /\ (randr => primaryOutput \in Output)
    BY <1>5 DEF FollowInv
  <2>2. ASSUME randr, ~News
        PROVE  /\ Present(screens, inf, meddled', Scanned(monitors)) /\ Owned(screens, inf, Scanned(monitors))
               /\ ViewsFollow(viewports) /\ Placed(screens, inf, meddled', Scanned(monitors))
    <3>1. \A med : Placed(screens, inf, {}, found) => Placed(screens, inf, med, found)
      BY DEF Placed
    <3> QED BY <1>18, <2>2, <3>1
  <2>3. ViewsFollow(viewports)' <=> ViewsFollow(viewports)
    BY <1>4 DEF ViewsFollow
  <2>4. Scanned(monitors)' = Scanned(monitors)
    BY <1>4
  <2> QED BY <1>4, <1>14, <1>16, <1>17, <2>1, <2>2, <2>3, <2>4 DEF FollowInv
<1>20. PrimaryInv'
  <2>1. SUFFICES ASSUME randr, ~News, Exact(viewports), NEW s \in Range(screens), inf[s].xid = primaryOutput
                 PROVE  primaryScreen' = s
    <3>1. Exact(viewports)' <=> Exact(viewports)
      BY <1>4 DEF Exact
    <3> QED BY <1>4, <1>16, <3>1 DEF PrimaryInv
  <2>2. Placed(screens, inf, {}, Scanned(monitors)) /\ ViewsFollow(viewports) /\ XidsDiffer(screens, inf)
    BY <1>17, <1>18, <2>1
  <2>3. primaryOutput \in Output /\ \A t \in Range(screens) : inf[t].xid = FAKE => inf[t].view = NoScreen
    BY <1>5, <1>6, <1>11, <2>1 DEF FollowInv
  <2> QED BY <1>4, <1>5, <1>6, <2>1, <2>2, <2>3, PrimaryIsFound
<1>21. screenOf' \in [ScreenClient -> Screen] /\ position' \in [ScreenClient -> Position]
       /\ monitors' \in Layout /\ randr' \in BOOLEAN /\ refreshPending' \in BOOLEAN
       /\ rootEvents' \in Seq({"configure", "output"})
  BY <1>4 DEF ScreensIndInv
<1> QED BY <1>13, <1>14, <1>15, <1>19, <1>20, <1>21 DEF ScreensIndInv

\* One sequence after the other.
LEMMA Joined ==
    ASSUME NEW s \in Seq(Nat), NEW t \in Seq(Nat), NEW u, u = s \o t, IsInjective(s), IsInjective(t),
           \A x \in Range(s) : x \notin Range(t)
    PROVE  u \in Seq(Nat) /\ Range(u) = Range(s) \cup Range(t) /\ IsInjective(u)
<1>1. PICK m, n : m = Len(s) /\ n = Len(t)
  OBVIOUS
<1>2. /\ m \in Nat /\ n \in Nat /\ DOMAIN s = 1..m /\ DOMAIN t = 1..n /\ u \in Seq(Nat)
      /\ Len(u) = m + n /\ DOMAIN u = 1..(m + n)
      /\ \A i \in 1..(m + n) : u[i] = IF i <= m THEN s[i] ELSE t[i - m]
  <2>1. m \in Nat /\ n \in Nat /\ DOMAIN s = 1..m /\ DOMAIN t = 1..n
    BY <1>1, LenProperties
  <2>2. u \in Seq(Nat) /\ Len(u) = m + n
        /\ \A i \in 1..(m + n) : u[i] = IF i <= m THEN s[i] ELSE t[i - m]
    BY <1>1, <2>1, ConcatProperties
  <2> QED BY <2>1, <2>2, LenProperties
<1>3. \A i \in 1..m : i \in 1..(m + n) /\ u[i] = s[i]
  BY <1>2
<1>4. \A i \in 1..n : m + i \in 1..(m + n) /\ u[m + i] = t[i]
  <2>1. ASSUME NEW i \in 1..n PROVE m + i \in 1..(m + n) /\ u[m + i] = t[i]
    <3>1. m + i \in 1..(m + n) /\ ~(m + i <= m) /\ (m + i) - m = i
      BY <1>2
    <3> QED BY <1>2, <3>1
  <2> QED BY <2>1
<1>5. \A i \in 1..(m + n) : i \in 1..m \/ (i - m \in 1..n /\ m + (i - m) = i)
  BY <1>2
<1>6. Range(u) = Range(s) \cup Range(t)
  <2>1. Range(u) = {u[i] : i \in 1..(m + n)} /\ Range(s) = {s[i] : i \in 1..m} /\ Range(t) = {t[i] : i \in 1..n}
    BY <1>2 DEF Range
  <2>2. Range(u) \subseteq Range(s) \cup Range(t)
    <3>1. ASSUME NEW i \in 1..(m + n) PROVE u[i] \in Range(s) \cup Range(t)
      BY <1>3, <1>4, <1>5, <2>1
    <3> QED BY <2>1, <3>1
  <2>3. Range(s) \subseteq Range(u)
    BY <1>3, <2>1
  <2>4. Range(t) \subseteq Range(u)
    <3>1. ASSUME NEW i \in 1..n PROVE t[i] \in Range(u)
      BY <1>4, <2>1
    <3> QED BY <2>1, <3>1
  <2> QED BY <2>2, <2>3, <2>4
<1>7. ASSUME NEW i \in 1..(m + n), NEW j \in 1..(m + n), u[i] = u[j] PROVE i = j
  <2>1. CASE i \in 1..m /\ j \in 1..m
    BY <1>2, <1>3, <1>7, <2>1 DEF IsInjective
  <2>2. CASE i - m \in 1..n /\ m + (i - m) = i /\ j - m \in 1..n /\ m + (j - m) = j
    <3>1. t[i - m] = t[j - m]
      BY <1>4, <1>7, <2>2
    <3>2. i - m = j - m
      BY <1>2, <2>2, <3>1 DEF IsInjective
    <3> QED BY <2>2, <3>2
  <2>3. ASSUME NEW k \in 1..m, NEW l \in 1..n, u[k] = u[m + l] PROVE FALSE
    <3>1. s[k] = t[l]
      BY <1>3, <1>4, <2>3
    <3>2. s[k] \in Range(s) /\ t[l] \in Range(t)
      BY <1>2 DEF Range
    <3> QED BY <3>1, <3>2
  <2> QED BY <1>5, <1>7, <2>1, <2>2, <2>3
<1>8. IsInjective(u)
  BY <1>2, <1>7 DEF IsInjective
<1> QED BY <1>2, <1>6, <1>8

\* The refresh up to the signals: nothing is under way before, nor are there screens to remove.
LEMMA RefreshBeginKeeps == ASSUME ScreensIndInv, RefreshBegin PROVE ScreensIndInv'
<1>1. PICK found : found = Scanned(monitors)
  OBVIOUS
<1>2. PICK N : N = {m \in Range(found) : \A i \in DOMAIN screens : info[screens[i]].xid # m.id}
  OBVIOUS
<1>3. PICK new : new = Kept(found, N)
  OBVIOUS
<1>4. PICK made : made = [i \in DOMAIN new |-> screensMade + i]
  OBVIOUS
<1>5. PICK added : added = [i \in DOMAIN new |-> ScreenAt(new[i])]
  OBVIOUS
<1>6. PICK gone : gone = Vanished(screens, info, found)
  OBVIOUS
<1>7. PICK k : k = Len(new)
  OBVIOUS
<1>8. PICK frame : frame = [what |-> "refresh", gone |-> gone, found |-> found, stage |-> "removed",
                            todo |-> ScreenClient]
  OBVIOUS
<1>9. /\ refreshPending /\ removing = <<>> /\ ~refreshPending'
      /\ screensMade + k <= MaxScreens /\ screensMade' = screensMade + k /\ info' = info \o added
      /\ screens' = Kept(screens \o made, Range(screens \o made) \ Range(gone))
      /\ viewports' = Viewports(viewports, IF monitors = <<>> THEN <<RootWindow>> ELSE monitors)
      /\ removing' = <<frame>> /\ meddled' = {}
      /\ UNCHANGED <<monitors, primaryOutput, randr, rootEvents, primaryScreen, screenOf, position, stranded>>
  BY <1>1, <1>2, <1>3, <1>4, <1>5, <1>6, <1>7, <1>8 DEF RefreshBegin, monitorVars, placeVars
<1>10. ListInv /\ FramesInv /\ DeadInv /\ FollowInv /\ monitors \in Layout
  BY DEF ScreensIndInv
<1>11. /\ screensMade \in Nat /\ MaxScreens \in Nat /\ DOMAIN screens = 1..Len(screens)
       /\ \A i \in 1..Len(screens) : screens[i] \in Range(screens)
       /\ info \in Seq(ScreenInfo) /\ Len(info) = screensMade /\ DOMAIN info = 1..screensMade
       /\ \A s \in 1..screensMade : info[s] \in ScreenInfo
       /\ screens \in Seq(Nat) /\ Range(screens) \subseteq 1..screensMade /\ IsInjective(screens)
  BY <1>10, ListFacts DEF ListInv
<1>12. /\ found \in Seq(AnyMonitor) /\ Len(found) \in Nat \ {0} /\ DOMAIN found = 1..Len(found)
       /\ \A i \in 1..Len(found) : found[i] \in AnyMonitor /\ found[i].id # FAKE
       /\ \A i, j \in 1..Len(found) : found[i].id = found[j].id => i = j
  <2>1. /\ found \in Seq(AnyMonitor) /\ Len(found) \in Nat \ {0}
        /\ \A i \in 1..Len(found) : found[i] \in AnyMonitor /\ found[i].id # FAKE
        /\ \A i, j \in 1..Len(found) : found[i].id = found[j].id => i = j
    BY <1>1, <1>10, FoundInLayout
  <2> QED BY <2>1, LenProperties
<1>13. /\ N \subseteq Range(found) /\ \A m \in N : \A s \in Range(screens) : info[s].xid # m.id
       /\ \A m \in Range(found) : m \in N \/ \E s \in Range(screens) : info[s].xid = m.id
  <2>1. \A s \in Range(screens) : \E i \in DOMAIN screens : s = screens[i]
    BY DEF Range
  <2>2. \A i \in DOMAIN screens : screens[i] \in Range(screens)
    BY <1>11
  <2> QED BY <1>2, <2>1, <2>2
<1>14. /\ new \in Seq(AnyMonitor) /\ k \in Nat /\ DOMAIN new = 1..k /\ Range(new) = N
       /\ \A i \in 1..k : new[i] \in N /\ new[i] \in AnyMonitor
       /\ \A i, j \in 1..k : new[i].id = new[j].id => i = j
  <2>1. IsInjective(found)
    BY <1>12 DEF IsInjective
  <2>2. new \in Seq(AnyMonitor) /\ Len(new) \in Nat /\ Range(new) = Range(found) \cap N /\ IsInjective(new)
    BY <1>3, <1>12, <2>1, KeptElements
  <2>3. DOMAIN new = 1..k /\ k \in Nat
    BY <1>7, <2>2, LenProperties
  <2>4. Range(new) = N
    BY <1>13, <2>2
  <2>5. \A i \in 1..k : new[i] \in N
    BY <2>3, <2>4 DEF Range
  <2>6. \A i \in 1..k : new[i] \in AnyMonitor
    BY <1>7, <2>2, ElementOfSeq
  <2>7. ASSUME NEW i \in 1..k, NEW j \in 1..k, new[i].id = new[j].id PROVE i = j
    <3>1. new[i] \in Range(found) /\ new[j] \in Range(found)
      BY <1>13, <2>5
    <3>2. PICK a, b \in 1..Len(found) : new[i] = found[a] /\ new[j] = found[b]
      BY <1>12, <3>1 DEF Range
    <3>3. new[i] = new[j]
      BY <1>12, <2>7, <3>2
    <3> QED BY <2>2, <2>3, <3>3 DEF IsInjective
  <2> QED BY <2>2, <2>3, <2>4, <2>5, <2>6, <2>7
<1>15. PICK n : n = screensMade + k
  OBVIOUS
<1>16. /\ n \in Nat /\ n <= MaxScreens /\ \A s \in 1..screensMade : s \in 1..n
       /\ \A i \in 1..k : screensMade + i \in 1..n /\ screensMade + i \notin 1..screensMade
       /\ \A s \in 1..n : s \in 1..screensMade \/ (s - screensMade \in 1..k /\ screensMade + (s - screensMade) = s)
  BY <1>9, <1>11, <1>14, <1>15
<1>17. \A i \in 1..k : /\ ScreenAt(new[i]) \in ScreenInfo /\ ScreenAt(new[i]).xid = new[i].id
                       /\ new[i].id # FAKE
  <2>1. ASSUME NEW m \in AnyMonitor PROVE ScreenAt(m) \in ScreenInfo /\ ScreenAt(m).xid = m.id /\ m.id # FAKE
    <3>1. m.id \in Output \cup {NONE} /\ m.x \in Int /\ m.w \in Int
      BY DEF AnyMonitor
    <3>2. m.id # FAKE
      BY <3>1, ScreensAssumption DEF NONE, FAKE
    <3> QED BY <3>1, <3>2 DEF ScreenAt, ScreenInfo, Place
  <2> QED BY <1>14, <2>1
<1>18. /\ info' \in Seq(ScreenInfo) /\ Len(info') = n
       /\ \A s \in 1..screensMade : info'[s] = info[s]
       /\ \A i \in 1..k : info'[screensMade + i] = ScreenAt(new[i])
  <2>1. added \in Seq(ScreenInfo) /\ Len(added) = k /\ \A i \in 1..k : added[i] = ScreenAt(new[i])
    <3>1. added \in [1..k -> ScreenInfo] /\ \A i \in 1..k : added[i] = ScreenAt(new[i])
      BY <1>5, <1>14, <1>17
    <3> QED BY <1>14, <3>1
  <2>2. /\ info' \in Seq(ScreenInfo) /\ Len(info') = n
        /\ \A i \in 1..n : info'[i] = IF i <= screensMade THEN info[i] ELSE added[i - screensMade]
    BY <1>9, <1>11, <1>15, <2>1, ConcatProperties
  <2>3. \A s \in 1..screensMade : info'[s] = info[s]
    BY <1>11, <1>16, <2>2
  <2>4. ASSUME NEW i \in 1..k PROVE info'[screensMade + i] = ScreenAt(new[i])
    <3>1. screensMade + i \in 1..n /\ ~(screensMade + i <= screensMade) /\ (screensMade + i) - screensMade = i
      BY <1>11, <1>16
    <3> QED BY <2>1, <2>2, <3>1
  <2> QED BY <2>2, <2>3, <2>4
<1>19. /\ made \in Seq(Nat) /\ IsInjective(made)
       /\ Range(made) = {screensMade + i : i \in 1..k}
  <2>1. made \in [1..k -> Nat] /\ \A i \in 1..k : made[i] = screensMade + i
    BY <1>4, <1>11, <1>14
  <2>2. made \in Seq(Nat) /\ DOMAIN made = 1..k
    BY <1>14, <2>1
  <2>3. IsInjective(made)
    BY <1>11, <2>1, <2>2 DEF IsInjective
  <2> QED BY <2>1, <2>2, <2>3 DEF Range
<1>20. PICK list : list = screens \o made
  OBVIOUS
<1>21. list \in Seq(Nat) /\ Range(list) = Range(screens) \cup Range(made) /\ IsInjective(list)
  <2>1. \A x \in Range(screens) : x \notin Range(made)
    BY <1>11, <1>16, <1>19
  <2>2. screens \in Seq(Nat) /\ made \in Seq(Nat) /\ IsInjective(screens) /\ IsInjective(made)
    BY <1>11, <1>19
  <2> QED BY <1>20, <2>1, <2>2, Joined
<1>22. gone \in Seq(Nat) /\ Range(gone) = {s \in Range(screens) : IsGone(info, s, found)}
  <2>1. PICK G : G = {s \in Range(screens) : IsGone(info, s, found)}
    OBVIOUS
  <2>2. gone = Kept(screens, G)
    BY <1>6, <2>1 DEF Vanished
  <2>3. gone \in Seq(Nat) /\ Range(gone) = Range(screens) \cap G
    BY <1>11, <2>2, KeptElements
  <2> QED BY <2>1, <2>3
<1>23. screens' \in Seq(Nat) /\ Range(screens') = Range(list) \ Range(gone) /\ IsInjective(screens')
  <2>1. PICK S : S = Range(list) \ Range(gone)
    OBVIOUS
  <2>2. screens' = Kept(list, S)
    BY <1>9, <1>20, <2>1
  <2>3. screens' \in Seq(Nat) /\ Range(screens') = Range(list) \cap S /\ IsInjective(screens')
    BY <1>21, <2>2, KeptElements
  <2> QED BY <2>1, <2>3
<1>24. \A s \in Range(screens') : \/ s \in Range(screens) /\ ~IsGone(info, s, found) /\ info'[s] = info[s]
                                 \/ \E i \in 1..k : s = screensMade + i /\ info'[s] = ScreenAt(new[i])
  BY <1>11, <1>18, <1>19, <1>21, <1>22, <1>23
<1>25. \A i \in 1..k : screensMade + i \in Range(screens')
  <2>1. ASSUME NEW i \in 1..k PROVE screensMade + i \in Range(screens')
    <3>1. screensMade + i \notin Range(gone)
      BY <1>11, <1>16, <1>22
    <3> QED BY <1>19, <1>21, <1>23, <3>1
  <2> QED BY <2>1
<1>26. Present(screens', info', {}, found)
  <2>1. ASSUME NEW j \in 1..Len(found) PROVE \E s \in Range(screens') : info'[s].xid = found[j].id
    <3>1. found[j] \in Range(found)
      BY <1>12 DEF Range
    <3>2. CASE found[j] \in N
      <4>1. PICK i \in 1..k : new[i] = found[j]
        BY <1>14, <3>2 DEF Range
      <4> QED BY <1>17, <1>18, <1>25, <4>1
    <3>3. CASE found[j] \notin N
      <4>1. PICK s \in Range(screens) : info[s].xid = found[j].id
        BY <1>13, <3>1, <3>3
      <4>2. ~IsGone(info, s, found)
        BY <1>12, <4>1 DEF IsGone
      <4>3. s \in Range(screens')
        BY <1>21, <1>22, <1>23, <4>2
      <4> QED BY <1>11, <1>18, <4>1, <4>3
    <3> QED BY <3>2, <3>3
  <2> QED BY <2>1 DEF Present
<1>27. Owned(screens', info', found)
  <2>1. ASSUME NEW s \in Range(screens'), info'[s].xid # FAKE PROVE \E j \in 1..Len(found) : info'[s].xid = found[j].id
    <3>1. CASE s \in Range(screens) /\ ~IsGone(info, s, found) /\ info'[s] = info[s]
      BY <1>12, <2>1, <3>1 DEF IsGone
    <3>2. ASSUME NEW i \in 1..k, s = screensMade + i, info'[s] = ScreenAt(new[i])
          PROVE  \E j \in 1..Len(found) : info'[s].xid = found[j].id
      <4>1. PICK j \in 1..Len(found) : new[i] = found[j]
        BY <1>12, <1>13, <1>14 DEF Range
      <4> QED BY <1>17, <3>2, <4>1
    <3> QED BY <1>24, <3>1, <3>2
  <2> QED BY <2>1 DEF Owned
<1>28. ASSUME randr PROVE XidsDiffer(screens', info')
  <2>1. XidsDiffer(screens, info)
    BY <1>10, <1>28 DEF FollowInv
  <2>2. ASSUME NEW s \in Range(screens'), NEW t \in Range(screens'), info'[s].xid # FAKE, info'[s].xid = info'[t].xid
        PROVE  s = t
    <3>1. CASE s \in Range(screens) /\ info'[s] = info[s] /\ t \in Range(screens) /\ info'[t] = info[t]
      BY <2>1, <2>2, <3>1 DEF XidsDiffer
    <3>2. ASSUME NEW u \in Range(screens), info'[u] = info[u], NEW i \in 1..k, NEW v, info'[v] = ScreenAt(new[i]),
                 info'[u].xid = info'[v].xid
          PROVE  FALSE
      <4>1. info[u].xid = new[i].id
        BY <1>17, <3>2
      <4> QED BY <1>13, <1>14, <4>1
    <3>3. ASSUME NEW i \in 1..k, NEW j \in 1..k, s = screensMade + i, t = screensMade + j,
                 info'[s] = ScreenAt(new[i]), info'[t] = ScreenAt(new[j])
          PROVE  s = t
      <4>1. new[i].id = new[j].id
        BY <1>17, <2>2, <3>3
      <4> QED BY <1>14, <3>3, <4>1
    <3> QED BY <1>24, <2>2, <3>1, <3>2, <3>3
  <2> QED BY <2>2 DEF XidsDiffer
<1>29. ListInv'
  <2>1. screens' # <<>>
    <3>1. 1 \in 1..Len(found)
      BY <1>12
    <3>2. PICK s \in Range(screens') : TRUE
      BY <1>26, <3>1 DEF Present
    <3>3. SUFFICES ASSUME screens' = <<>> PROVE FALSE
      OBVIOUS
    <3>4. Range(screens') = {}
      BY <3>3 DEF Range
    <3> QED BY <3>2, <3>4
  <2>2. Range(screens') \subseteq 1..n
    BY <1>11, <1>16, <1>24
  <2>3. ASSUME NEW s \in 1..n, info'[s].xid = FAKE PROVE info'[s].view = NoScreen
    <3>1. CASE s \in 1..screensMade
      BY <1>10, <1>18, <2>3, <3>1 DEF ListInv
    <3>2. CASE s - screensMade \in 1..k /\ screensMade + (s - screensMade) = s
      BY <1>17, <1>18, <2>3, <3>2
    <3> QED BY <1>16, <3>1, <3>2
  <2>4. n \in 0..MaxScreens
    BY <1>11, <1>16
  <2> QED BY <1>9, <1>15, <1>18, <1>23, <2>1, <2>2, <2>3, <2>4 DEF ListInv
<1>30. /\ removing' \in Seq(Frame) /\ Len(removing') = 1 /\ removing'[1] = frame /\ removing' # <<>>
       /\ frame.what = "refresh" /\ frame.gone = gone /\ frame.found = found
       /\ frame.stage = "removed" /\ frame.todo = ScreenClient
  <2>1. /\ frame \in Frame /\ frame.what = "refresh" /\ frame.gone = gone /\ frame.found = found
        /\ frame.stage = "removed" /\ frame.todo = ScreenClient
    BY <1>8, <1>12, <1>22 DEF Frame
  <2>2. PICK u : u = <<frame>>
    OBVIOUS
  <2>3. u \in Seq(Frame) /\ Len(u) = 1 /\ u[1] = frame
    BY <2>1, <2>2
  <2>4. u # <<>>
    BY <2>3
  <2> QED BY <1>9, <2>1, <2>2, <2>3, <2>4
<1>31. FramesInv' /\ Refreshing' /\ Going' = Range(gone)
  <2>1. \A i \in 1..1 : i = 1
    OBVIOUS
  <2>2. Range(gone) \subseteq 1..n
    BY <1>11, <1>16, <1>22
  <2>3. Refreshing'
    BY <1>30 DEF Refreshing
  <2>4. Going' = Range(gone)
    <3>1. 1 \in 1..1
      OBVIOUS
    <3> QED BY <1>30, <2>1, <3>1 DEF Going
  <2> QED BY <1>9, <1>15, <1>30, <2>1, <2>2, <2>3, <2>4 DEF FramesInv
<1>32. DeadInv'
  <2>1. Going = {} /\ Due = {} /\ \A c \in ScreenClient : Coming(c) = {}
    BY <1>9, NothingGoes
  <2>2. Range(screens) \subseteq Range(screens') \cup Range(gone)
    BY <1>21, <1>23
  <2>3. \A s \in 1..n : info'[s].valid => s \in Range(screens') \cup Range(gone)
    <3>1. ASSUME NEW s \in 1..n, info'[s].valid PROVE s \in Range(screens') \cup Range(gone)
      <4>1. CASE s \in 1..screensMade
        BY <1>10, <1>18, <2>1, <2>2, <3>1, <4>1 DEF DeadInv
      <4>2. CASE s - screensMade \in 1..k /\ screensMade + (s - screensMade) = s
        BY <1>25, <4>2
      <4> QED BY <1>16, <4>1, <4>2
    <3> QED BY <3>1
  <2>4. Range(gone) \subseteq Due' /\ \A c \in ScreenClient : Range(gone) \subseteq Coming(c)'
    <3>1. DOMAIN removing' = {1} /\ \A x \in Range(gone) : \E j \in DOMAIN gone : gone[j] = x
      BY <1>30, LenProperties DEF Range
    <3>2. Range(gone) \subseteq Screen
      BY <1>10, <1>22, GoingAreScreens
    <3> QED BY <1>30, <3>1, <3>2 DEF Due, Coming
  <2>5. \A c \in ScreenClient \ stranded' : screenOf'[c] \in Range(screens') \cup Coming(c)'
    BY <1>9, <1>10, <2>1, <2>2, <2>4 DEF DeadInv
  <2>6. primaryScreen' \in Range(screens') \cup Due' \cup {NoScreen}
    BY <1>9, <1>10, <2>1, <2>2, <2>4 DEF DeadInv
  <2> QED BY <1>9, <1>15, <1>31, <2>3, <2>5, <2>6 DEF DeadInv
<1>33. FollowInv'
  <2>1. randr => primaryOutput \in Output
    BY <1>10 DEF FollowInv
  <2>2. ViewsFollow(viewports')
    BY <1>9 DEF ViewsFollow, Viewports
  <2>3. ViewsFollow(viewports)' <=> ViewsFollow(viewports')
    BY <1>9 DEF ViewsFollow
  <2>4. Scanned(monitors)' = found
    BY <1>1, <1>9
  <2> QED BY <1>9, <1>26, <1>27, <1>28, <1>30, <1>31, <2>1, <2>2, <2>3, <2>4 DEF FollowInv
<1>34. PrimaryInv'
  BY <1>30, PrimaryVacuous
<1>35. screenOf' \in [ScreenClient -> Screen] /\ position' \in [ScreenClient -> Position]
       /\ monitors' \in Layout /\ randr' \in BOOLEAN /\ refreshPending' \in BOOLEAN
       /\ rootEvents' \in Seq({"configure", "output"})
  <2>1. refreshPending' = FALSE
    BY DEF RefreshBegin
  <2> QED BY <1>9, <2>1 DEF ScreensIndInv
<1> QED BY <1>29, <1>31, <1>32, <1>33, <1>34, <1>35 DEF ScreensIndInv

-----------------------------------------------------------------------------
(* The theorem.                                                            *)

LEMMA ScreensBegin == ASSUME ScreensInit PROVE ScreensIndInv
<1>1. PICK ms : ms = IF randr THEN monitors ELSE Xinerama(monitors)
  OBVIOUS
<1>2. PICK found : found = Scanned(ms)
  OBVIOUS
<1>3. PICK n : n = Len(found)
  OBVIOUS
<1>4. /\ monitors \in Layout /\ primaryOutput = (IF monitors = <<>> THEN NoScreen ELSE monitors[1].id)
      /\ rootEvents = <<>> /\ refreshPending = FALSE
      /\ screens = [i \in DOMAIN found |-> i] /\ info = [i \in DOMAIN found |-> ScreenAt(found[i])]
      /\ viewports = Viewports(<<>>, IF monitors = <<>> THEN <<RootWindow>> ELSE monitors)
      /\ screensMade = n /\ primaryScreen = 1 /\ position \in [ScreenClient -> Position]
      /\ screenOf = [c \in ScreenClient |-> GetByCoord(screens, info, position[c])]
      /\ removing = <<>> /\ meddled = {} /\ stranded = {}
  BY <1>1, <1>2, <1>3 DEF ScreensInit
<1>5. randr \in BOOLEAN /\ (randr => monitors # <<>> /\ ms = monitors)
  BY <1>1 DEF ScreensInit, RandrWorks
<1>6. /\ Len(monitors) \in Nat /\ DOMAIN monitors = 1..Len(monitors) /\ monitors \in Seq(AnyMonitor)
      /\ \A i \in 1..Len(monitors) : monitors[i] \in Monitor /\ monitors[i].id \in Output
      /\ \A i, j \in 1..Len(monitors) : monitors[i].id = monitors[j].id => i = j
  BY <1>4, LayoutIsOfMonitors
<1>7. ms \in Seq(AnyMonitor) /\ Len(ms) = Len(monitors)
  <2>1. CASE randr
    BY <1>5, <1>6, <2>1
  <2>2. CASE ~randr
    <3>1. ms = [i \in 1..Len(monitors) |-> [monitors[i] EXCEPT !.id = NONE]]
      BY <1>1, <1>6, <2>2 DEF Xinerama
    <3>2. \A m \in Monitor : [m EXCEPT !.id = NONE] \in AnyMonitor
      BY DEF Monitor, AnyMonitor
    <3>3. ms \in [1..Len(monitors) -> AnyMonitor]
      BY <1>6, <3>1, <3>2
    <3> QED BY <1>6, <3>3
  <2> QED BY <1>5, <2>1, <2>2
<1>8. /\ found \in Seq(AnyMonitor) /\ n \in Nat \ {0} /\ DOMAIN found = 1..n /\ n <= MaxScreens
      /\ \A i \in 1..n : found[i] \in AnyMonitor
  <2>1. found \in Seq(AnyMonitor) /\ n \in Nat \ {0} /\ (n <= Len(monitors) \/ n = 1)
    <3>1. FoundOf(ms, found)
      BY <1>2, <1>7, FoundAre
    <3> QED BY <1>3, <1>7, <3>1 DEF FoundOf
  <2>2. n <= MaxScreens
    BY <1>4, <1>6, <2>1, ScreensAssumption
  <2> QED BY <1>3, <2>1, <2>2, LenProperties, ElementOfSeq
<1>9. \A i \in 1..n : /\ ScreenAt(found[i]) \in ScreenInfo /\ ScreenAt(found[i]).xid = found[i].id
                      /\ found[i].id # FAKE /\ ScreenAt(found[i]).view = Place(ScreenAt(found[i]))
                      /\ Place(ScreenAt(found[i])) = Place(found[i])
  <2>1. ASSUME NEW m \in AnyMonitor
        PROVE  /\ ScreenAt(m) \in ScreenInfo /\ ScreenAt(m).xid = m.id /\ m.id # FAKE
               /\ ScreenAt(m).view = Place(ScreenAt(m)) /\ Place(ScreenAt(m)) = Place(m)
    <3>1. m.id \in Output \cup {NONE} /\ m.x \in Int /\ m.w \in Int
      BY DEF AnyMonitor
    <3>2. m.id # FAKE
      BY <3>1, ScreensAssumption DEF NONE, FAKE
    <3> QED BY <3>1, <3>2 DEF ScreenAt, ScreenInfo, Place
  <2> QED BY <1>8, <2>1
<1>10. /\ info \in Seq(ScreenInfo) /\ Len(info) = n /\ \A i \in 1..n : info[i] = ScreenAt(found[i])
       /\ screens \in Seq(Nat) /\ Len(screens) = n /\ Range(screens) = 1..n /\ IsInjective(screens) /\ screens # <<>>
  <2>1. info \in [1..n -> ScreenInfo] /\ \A i \in 1..n : info[i] = ScreenAt(found[i])
    BY <1>4, <1>8, <1>9
  <2>2. screens \in [1..n -> Nat] /\ \A i \in 1..n : screens[i] = i
    BY <1>4, <1>8
  <2>3. screens \in Seq(Nat) /\ Len(screens) = n /\ DOMAIN screens = 1..n
    BY <1>8, <2>2
  <2>4. Range(screens) = 1..n /\ IsInjective(screens)
    BY <2>2, <2>3 DEF Range, IsInjective
  <2>5. screens # <<>>
    BY <1>8, <2>3
  <2>6. info \in Seq(ScreenInfo) /\ Len(info) = n
    BY <1>8, <2>1
  <2> QED BY <2>1, <2>3, <2>4, <2>5, <2>6
<1>11. ListInv
  <2>1. n \in 0..MaxScreens
    BY <1>8, ScreensAssumption
  <2> QED BY <1>4, <1>9, <1>10, <2>1 DEF ListInv
<1>12. FramesInv /\ ~Refreshing
  <2>1. Len(<<>>) = 0 /\ <<>> \in Seq(Frame) /\ 1..0 = {}
    OBVIOUS
  <2> QED BY <1>4, <2>1 DEF FramesInv, Refreshing
<1>13. \A c \in ScreenClient : screenOf[c] \in Range(screens)
  <2>1. \A c \in ScreenClient : position[c] \in Int
    BY <1>4, ScreensAssumption
  <2> QED BY <1>4, <1>11, <2>1, ByCoordIsListed
<1>14. DeadInv
  <2>1. primaryScreen \in Range(screens)
    BY <1>4, <1>8, <1>10
  <2>2. \A s \in 1..screensMade : s \in Range(screens)
    BY <1>4, <1>10
  <2> QED BY <1>4, <1>13, <2>1, <2>2 DEF DeadInv
<1>15. ASSUME randr
       PROVE  /\ XidsDiffer(screens, info) /\ primaryOutput \in Output
              /\ found = Scanned(monitors) /\ \A i, j \in 1..n : found[i].id = found[j].id => i = j
  <2>1. found = Scanned(monitors)
    BY <1>2, <1>5, <1>15
  <2>2. \A i, j \in 1..n : found[i].id = found[j].id => i = j
    BY <1>3, <1>4, <2>1, FoundInLayout
  <2>3. 1 \in 1..Len(monitors)
    <3>1. Len(monitors) # 0
      BY <1>5, <1>6, <1>15, EmptySeq
    <3> QED BY <1>6, <3>1
  <2>4. primaryOutput \in Output
    BY <1>4, <1>5, <1>6, <1>15, <2>3
  <2> QED BY <1>9, <1>10, <2>1, <2>2, <2>4 DEF XidsDiffer
<1>16. FollowInv
  <2>1. ASSUME randr
        PROVE  /\ Present(screens, info, meddled, found) /\ Owned(screens, info, found)
               /\ Placed(screens, info, meddled, found)
    BY <1>3, <1>9, <1>10 DEF Present, Owned, Placed
  <2>2. ViewsFollow(viewports)
    BY <1>4 DEF ViewsFollow, Viewports
  <2> QED BY <1>4, <1>12, <1>15, <2>1, <2>2 DEF FollowInv
<1>17. PrimaryInv
  <2>1. SUFFICES ASSUME randr, NEW s \in 1..n, info[s].xid = primaryOutput PROVE s = 1
    BY <1>4, <1>10 DEF PrimaryInv
  <2>2. found[s].id = monitors[1].id /\ 1 \in 1..Len(monitors)
    <3>1. Len(monitors) # 0
      BY <1>5, <1>6, <2>1, EmptySeq
    <3>2. primaryOutput = monitors[1].id
      BY <1>4, <1>5, <2>1
    <3>3. found[s].id = primaryOutput
      BY <1>9, <1>10, <2>1
    <3> QED BY <1>6, <3>1, <3>2, <3>3
  <2>3. /\ \E i \in 1..Len(monitors) : ~Hidden(monitors, i) /\ found[s] = monitors[i]
        /\ ~Hidden(monitors, 1) => found[1] = monitors[1]
    <3>1. monitors \in Seq(AnyMonitor) /\ monitors # <<>> /\ found = Scanned(monitors)
      BY <1>5, <1>6, <1>15, <2>1
    <3>2. /\ \A k \in 1..Len(found) : \E i \in 1..Len(monitors) : ~Hidden(monitors, i) /\ found[k] = monitors[i]
          /\ ~Hidden(monitors, 1) => found[1] = monitors[1]
      <4>1. FoundOf(monitors, found)
        BY <3>1, FoundAre
      <4> QED BY <3>1, <4>1 DEF FoundOf
    <3> QED BY <1>3, <2>1, <3>2
  <2>4. ~Hidden(monitors, 1)
    <3>1. PICK i \in 1..Len(monitors) : ~Hidden(monitors, i) /\ found[s] = monitors[i]
      BY <2>3
    <3>2. i = 1
      BY <1>6, <2>2, <3>1
    <3> QED BY <3>1, <3>2
  <2>5. found[1].id = found[s].id /\ 1 \in 1..n
    BY <1>8, <2>2, <2>3, <2>4
  <2> QED BY <1>15, <2>1, <2>5
<1>18. screenOf \in [ScreenClient -> Screen]
  <2>1. \A s \in 1..n : s \in Screen
    BY <1>8, ScreensAssumption DEF Screen
  <2> QED BY <1>4, <1>10, <1>13, <2>1
<1>19. rootEvents \in Seq({"configure", "output"})
  BY <1>4
<1> QED BY <1>4, <1>5, <1>11, <1>12, <1>14, <1>16, <1>17, <1>18, <1>19 DEF ScreensIndInv

LEMMA ScreensStep == ASSUME ScreensIndInv, [ScreensNext]_screensVars PROVE ScreensIndInv'
<1>1. CASE ChangeMonitors
  BY <1>1, ChangeMonitorsKeeps
<1>2. CASE ChangePrimary
  BY <1>2, ChangePrimaryKeeps
<1>3. CASE HandleRootEvent
  BY <1>3, HandleRootEventKeeps
<1>4. CASE RefreshBegin
  BY <1>4, RefreshBeginKeeps
<1>5. CASE RemovedReturns
  BY <1>5, RemovedReturnsKeeps
<1>14. CASE ListReturns
  BY <1>14, ListReturnsKeeps
<1>6. CASE RefreshEnd
  BY <1>6, RefreshEndKeeps
<1>7. CASE \E x \in Position : FakeAdd(x, 1)
  BY <1>7, FakeAddKeeps
<1>8. CASE \E s \in 1..screensMade : FakeRemove(s) \/ FakeResize(s, 1, 2)
  BY <1>8, FakeRemoveKeeps, FakeResizeKeeps
<1>9. CASE \E i, j \in DOMAIN screens : SwapScreens(i, j)
  BY <1>9, SwapScreensKeeps
<1>10. CASE GetPrimary
  BY <1>10, GetPrimaryKeeps
<1>11. CASE \E c \in ScreenClient : \E s \in 1..screensMade : SetScreen(c, s)
  BY <1>11, SetScreenKeeps
<1>12. CASE \E c \in ScreenClient : \E x \in Position : MoveClient(c, x)
  BY <1>12, MoveClientKeeps
<1>13. CASE UNCHANGED screensVars
  <2>1. UNCHANGED <<monitors, primaryOutput, randr, rootEvents, refreshPending, screens, info, viewports,
                    screensMade, primaryScreen, screenOf, position, removing, meddled, stranded>>
    BY <1>13 DEF screensVars, monitorVars, listVars, placeVars
  <2>2. /\ screenOf' \in [ScreenClient -> Screen] /\ position' \in [ScreenClient -> Position]
        /\ \A c \in ScreenClient \ stranded' : screenOf'[c] \in Range(screens) \cup Coming(c)
    BY <2>1 DEF ScreensIndInv, DeadInv
  <2> QED BY <2>1, <2>2, PlacesKeep
<1> QED BY <1>1, <1>2, <1>3, <1>4, <1>5, <1>6, <1>7, <1>8, <1>9, <1>10, <1>11, <1>12, <1>13, <1>14 DEF ScreensNext

LEMMA ScreensIndInvImplies == ASSUME ScreensIndInv PROVE ScreensInv
<1>1. ListInv /\ FramesInv /\ DeadInv /\ FollowInv /\ PrimaryInv
  BY DEF ScreensIndInv
<1>2. /\ screensMade \in Nat /\ MaxScreens \in Nat /\ screensMade <= MaxScreens /\ DOMAIN info = 1..screensMade
      /\ DOMAIN screens = 1..Len(screens) /\ Len(screens) \in Nat
      /\ \A s \in Range(screens) : s \in 1..screensMade
      /\ \A i \in 1..Len(screens) : screens[i] \in Range(screens)
  BY <1>1, ListFacts
<1>3. \A s \in 1..screensMade : s \in Screen
  BY <1>2 DEF Screen
<1>4. Due \subseteq Screen
  BY DEF Due
<1>5. ScreensTypeOK
  <2>1. primaryScreen \in Screen \cup {NoScreen}
    BY <1>1, <1>2, <1>3, <1>4 DEF DeadInv
  <2>2. screens \in [1..Len(screens) -> Screen]
    BY <1>1, <1>2, <1>3 DEF ListInv
  <2>3. screens \in Seq(Screen)
    BY <1>2, <2>2
  <2> QED BY <1>1, <1>2, <2>1, <2>3 DEF ScreensTypeOK, ListInv, ScreensIndInv
<1>6. NothingOnDeadScreens
  <2>1. removing = <<>> => Due = {} /\ \A c \in ScreenClient : Coming(c) = {}
    BY NothingGoes
  <2> QED BY <1>1, <2>1 DEF NothingOnDeadScreens, DeadInv
<1>7. UpToDate => randr /\ ~News /\ NoOutputChange /\ removing = <<>> /\ ~Refreshing
  <2>1. Len(<<>>) = 0 /\ 1..0 = {}
    OBVIOUS
  <2> QED BY <2>1 DEF UpToDate, News, NoOutputChange, Refreshing
<1>8. ScreensFollowMonitors
  <2>1. SUFFICES ASSUME UpToDate, NEW found, found = Scanned(monitors),
                        NEW own, own = {s \in Range(screens) : info[s].xid # FAKE}
                 PROVE  /\ \A s \in own \ meddled : <<info[s].xid, Place(info[s])>> \in
                                                        {<<found[i].id, Place(found[i])>> : i \in DOMAIN found}
                        /\ \A i \in DOMAIN found : \E s \in own \cup meddled : info[s].xid = found[i].id
    BY DEF ScreensFollowMonitors
  <2>2. Present(screens, info, meddled, found) /\ Placed(screens, info, meddled, found)
    BY <1>1, <1>7, <2>1 DEF FollowInv
  <2>3. DOMAIN found = 1..Len(found) /\ \A i \in 1..Len(found) : found[i].id # FAKE
    <3>1. found \in Seq(AnyMonitor) /\ \A i \in 1..Len(found) : found[i].id # FAKE
      BY <2>1, FoundInLayout DEF ScreensIndInv
    <3> QED BY <3>1, LenProperties
  <2>4. ASSUME NEW s \in own \ meddled
        PROVE  \E i \in DOMAIN found : <<info[s].xid, Place(info[s])>> = <<found[i].id, Place(found[i])>>
    BY <2>1, <2>2, <2>3 DEF Placed
  <2>5. ASSUME NEW i \in DOMAIN found PROVE \E s \in own \cup meddled : info[s].xid = found[i].id
    BY <2>1, <2>2, <2>3 DEF Present
  <2> QED BY <2>4, <2>5
<1>9. PrimaryFollowsServer
  BY <1>1, <1>7 DEF PrimaryFollowsServer, PrimaryInv, Exact
<1> QED BY <1>5, <1>6, <1>8, <1>9 DEF ScreensInv

\* objects/screen.c: for any monitors, clients and calls of Lua code, no client is left on a screen that
\* is gone, and the screens and the primary one follow what the server reports.
THEOREM ScreensFollowTheServer == ScreensSpec => []ScreensInv
<1>1. ScreensInit => ScreensIndInv
  BY ScreensBegin
<1>2. ScreensIndInv /\ [ScreensNext]_screensVars => ScreensIndInv'
  BY ScreensStep
<1>3. ScreensIndInv => ScreensInv
  BY ScreensIndInvImplies
<1> QED BY <1>1, <1>2, <1>3, PTL DEF ScreensSpec
==============================================================================

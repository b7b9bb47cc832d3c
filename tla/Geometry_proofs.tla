---------------------------- MODULE Geometry_proofs ----------------------------
(***************************************************************************)
(* For any sizes, hints and positions: the titlebars fit into the frame,   *)
(* every request is answered, and the application knows where it is.       *)
(***************************************************************************)
EXTENDS Geometry, TLAPS

\* Each ConfigureRequest that is not answered yet is recorded.
AskedIsRecorded == asked => client.gotRequest

\* What has been sent last: to the server, which takes it unless it is less than
\* a pixel wide, and to the application, with the border of that moment.
SentInv ==
    /\ client.x11Frame.width > 0 => server.frame = client.x11Frame
    /\ client.x11Client.width > 0 => server.window = client.x11Client
    /\ told # None =>
        /\ client.managed
        /\ told.area = [x |-> client.x11Frame.x + told.border + client.x11Client.x,
                        width |-> client.x11Client.width]

\* Nothing of a client survives its window's withdrawal.
WithdrawnIsClean == ~client.managed => client = NoClient

IInv == TypeOK /\ ContentFits /\ AskedIsRecorded /\ SentInv /\ WithdrawnIsClean

LEMMA HalfType == ASSUME NEW n \in Int PROVE Half(n) \in Int
BY DEF Half

LEMMA TranslateType ==
    ASSUME TypeOK, NEW before \in Int, NEW after \in Int
    PROVE  Translate(before, after) \in Int
<1>1. hints.gravity \in {"left", "center", "right", "static"}
  BY DEF TypeOK, Hints, Gravity
<1>2. Half(-(before + after)) \in Int
  BY HalfType
<1>3. QED BY <1>1, <1>2 DEF Translate

LEMMA FixedPointType ==
    ASSUME TypeOK, NEW x \in Int, NEW width \in Int, NEW border \in Int
    PROVE  FixedPoint(x, width, border) \in Int
<1>1. hints.gravity \in {"left", "center", "right", "static"}
  BY DEF TypeOK, Hints, Gravity
<1>2. Half(width) \in Int
  BY HalfType
<1>3. QED BY <1>1, <1>2 DEF FixedPoint

\* The clients that the steps below make.
Clients == [managed : BOOLEAN, geometry : Area, border : Nat, left : Nat, right : Nat,
            fullscreen : BOOLEAN, honor : BOOLEAN, gotRequest : BOOLEAN,
            x11Frame : Area, x11Client : [x : Int, width : Int]]

Fits(c) == c.geometry.width >= Bars(c)

LEMMA UndecoratedType ==
    ASSUME TypeOK, NEW c \in Clients
    PROVE  /\ Undecorated(c) \in [x : Int, width : Int]
           /\ AnchorOf(c) \in Int
<1>1. Translate(-c.left - c.border, -c.right - c.border) \in Int
  <2>1. -c.left - c.border \in Int /\ -c.right - c.border \in Int
    BY DEF Clients
  <2>2. QED BY <2>1, TranslateType
<1>2. Undecorated(c) \in [x : Int, width : Int]
  BY <1>1 DEF Undecorated, Clients, Area, Bars
<1>3. QED BY <1>2, FixedPointType DEF AnchorOf

LEMMA ApplySizeHintsType ==
    ASSUME TypeOK, NEW width \in Int
    PROVE  ApplySizeHints(width) \in Int
<1> DEFINE base == IF hints.base # None THEN hints.base
                   ELSE IF hints.min # None THEN hints.min ELSE 0
           min  == IF hints.min # None THEN hints.min ELSE base
           raised  == IF width < min THEN min ELSE width
           lowered == IF hints.max > 0 /\ raised > hints.max THEN hints.max ELSE raised
           above   == IF lowered > base THEN lowered - base ELSE 0
<1>1. base \in Nat /\ min \in Nat /\ hints.max \in Nat /\ hints.inc \in Nat
  BY DEF TypeOK, Hints
<1>2. lowered \in Int /\ above \in Nat
  BY <1>1
<1>3. hints.inc > 0 => above % hints.inc \in Int
  BY <1>1, <1>2
<1> HIDE DEF above, lowered, base
<1>4. (IF hints.inc > 0 THEN lowered - (above % hints.inc) ELSE lowered) \in Int
  BY <1>2, <1>3
<1>5. QED BY <1>4 DEF ApplySizeHints, above, lowered, base

\* client_resize keeps the titlebars inside of the frame, and so does Lua code
\* with it.
LEMMA ResizeFits ==
    ASSUME TypeOK, NEW c \in Clients, Fits(c), NEW area \in [x : Int, width : Int],
           NEW honor \in BOOLEAN
    PROVE  /\ Resize(c, area, honor) \in Area
           /\ Resize(c, area, honor).width >= Bars(c)
<1> DEFINE width == IF honor /\ ~c.fullscreen
                    THEN ApplySizeHints(area.width - Bars(c)) + Bars(c) ELSE area.width
<1>1. Bars(c) \in Nat /\ c.geometry \in Area
  BY DEF Clients, Bars
<1>2. area.width - Bars(c) \in Int
  BY <1>1
<1>3. ApplySizeHints(area.width - Bars(c)) \in Int
  BY <1>2, ApplySizeHintsType
<1>4. width \in Int
  BY <1>1, <1>3
<1> HIDE DEF width
<1>5. Resize(c, area, honor) = IF (honor /\ area.width < Bars(c)) \/ width < Bars(c) \/ width = 0
                               THEN c.geometry ELSE [x |-> area.x, width |-> width]
  BY DEF Resize, width
<1>6. CASE (honor /\ area.width < Bars(c)) \/ width < Bars(c) \/ width = 0
  BY <1>1, <1>5, <1>6 DEF Fits
<1>7. CASE ~((honor /\ area.width < Bars(c)) \/ width < Bars(c) \/ width = 0)
  <2>1. width >= Bars(c) /\ width \in Nat
    BY <1>1, <1>4, <1>7
  <2>2. QED BY <1>5, <1>7, <2>1 DEF Area
<1>8. QED BY <1>6, <1>7

LEMMA LuaGeometryFits ==
    ASSUME TypeOK, NEW c \in Clients, Fits(c), NEW area \in [x : Int, width : Int]
    PROVE  /\ LuaGeometry(c, area) \in Area
           /\ LuaGeometry(c, area).width >= Bars(c)
<1>1. [area EXCEPT !.width = c.geometry.width] \in [x : Int, width : Int]
  BY DEF Clients, Area
<1>2. c.honor \in BOOLEAN
  BY DEF Clients
<1>3. QED BY <1>1, <1>2, ResizeFits DEF LuaGeometry

LEMMA WithBorderFits ==
    ASSUME TypeOK, NEW c \in Clients, Fits(c), NEW border \in Nat
    PROVE  WithBorder(c, border) \in Clients /\ Fits(WithBorder(c, border))
<1>1. border - c.border \in Int
  BY DEF Clients
<1>2. Translate(border - c.border, border - c.border) \in Int
  BY <1>1, TranslateType
<1> DEFINE area == [x |-> c.geometry.x + Translate(border - c.border, border - c.border),
                    width |-> c.geometry.width]
<1>3. area \in Area /\ area.width = c.geometry.width
  BY <1>2 DEF Clients, Area
<1> HIDE DEF area
<1>4. [c EXCEPT !.border = border, !.geometry = area] \in Clients
  BY <1>3 DEF Clients
<1>5. Fits([c EXCEPT !.border = border, !.geometry = area])
  BY <1>3 DEF Clients, Fits, Bars
<1>6. QED BY <1>4, <1>5 DEF WithBorder, area

LEMMA ResizeDoFits ==
    ASSUME NEW c \in Clients, NEW area \in Area, area.width >= Bars(c)
    PROVE  ResizeDo(c, area) \in Clients /\ Fits(ResizeDo(c, area))
BY DEF ResizeDo, Clients, Area, Fits, Bars

\* A change of the client: what it must keep, whatever it changes it to.
LEMMA ChangeKeeps ==
    ASSUME IInv, client.managed, NEW c \in Clients, Fits(c), Change(c),
           c.managed = client.managed, c.x11Frame = client.x11Frame, c.x11Client = client.x11Client,
           client.gotRequest => c.gotRequest, asked' => asked \/ c.gotRequest,
           asked' \in BOOLEAN, anchor' \in Int, hints' \in Hints, UNCHANGED <<server, told>>
    PROVE  IInv'
<1>1. client' = c /\ pending' \in 0..MaxPending
  BY SizesAssumption DEF IInv, TypeOK, Change
<1>2. TypeOK'
  BY <1>1 DEF IInv, TypeOK, ClientTypeOK, Clients
<1>3. ContentFits'
  BY <1>1 DEF ContentFits, Fits
<1>4. AskedIsRecorded'
  BY <1>1 DEF IInv, AskedIsRecorded
<1>5. SentInv'
  BY <1>1 DEF IInv, SentInv
<1>6. WithdrawnIsClean'
  BY <1>1 DEF WithdrawnIsClean
<1>7. QED BY <1>2, <1>3, <1>4, <1>5, <1>6 DEF IInv

LEMMA ConfigureRequestKeeps ==
    ASSUME IInv, NEW x \in Place \cup {None}, NEW w \in Width \cup {None},
           NEW b \in BorderSize \cup {None}, ConfigureRequest(x, w, b)
    PROVE  IInv'
<1> DEFINE bordered == WithBorder(client, IF b = None THEN client.border ELSE b)
           c == [bordered EXCEPT !.gotRequest = TRUE]
           area == RequestedArea(c, x, w)
           granted == ResizeDo(c, LuaGeometry(c, area))
<1>1. client \in Clients /\ Fits(client) /\ TypeOK
  BY DEF IInv, TypeOK, ClientTypeOK, Clients, ContentFits, Fits
<1>2. (IF b = None THEN client.border ELSE b) \in Nat
  BY <1>1, SizesAssumption DEF Clients
<1>3. bordered \in Clients /\ Fits(bordered)
  BY <1>1, <1>2, WithBorderFits
<1>4. c \in Clients /\ Fits(c)
  BY <1>3 DEF Clients, Fits, Bars
<1>5. c.managed = client.managed /\ c.x11Frame = client.x11Frame
      /\ c.x11Client = client.x11Client /\ c.gotRequest
  BY <1>1, <1>3 DEF WithBorder, Clients
<1>6. area \in [x : Int, width : Int]
  <2> DEFINE asWide == IF w = None THEN c.geometry.width ELSE w + Bars(c)
  <2>1. asWide \in Int /\ c.geometry.x \in Int /\ c.geometry.width \in Int
    BY <1>4, SizesAssumption DEF Clients, Area, Bars
  <2>2. c.border + c.left \in Int /\ c.border + c.right \in Int
    BY <1>4 DEF Clients
  <2>3. Translate(0, asWide - c.geometry.width) \in Int
    <3>1. 0 \in Int /\ asWide - c.geometry.width \in Int
      BY <2>1
    <3> HIDE DEF c, asWide
    <3>2. QED BY <1>1, <3>1, TranslateType
  <2>4. Translate(c.border + c.left, c.border + c.right) \in Int
    BY <1>1, <2>2, TranslateType
  <2>5. x # None => x \in Int
    BY SizesAssumption
  <2> HIDE DEF c, asWide
  <2>6. (IF x = None THEN c.geometry.x + Translate(0, asWide - c.geometry.width)
         ELSE x + Translate(c.border + c.left, c.border + c.right)) \in Int
    BY <2>1, <2>3, <2>4, <2>5
  <2>7. QED BY <2>1, <2>6 DEF RequestedArea, asWide
<1> HIDE DEF c, area
<1>7. granted \in Clients /\ Fits(granted)
  BY <1>1, <1>4, <1>6, LuaGeometryFits, ResizeDoFits
<1>8. granted.managed = c.managed /\ granted.x11Frame = c.x11Frame
      /\ granted.x11Client = c.x11Client /\ granted.gotRequest = c.gotRequest
  BY <1>4 DEF ResizeDo, Clients
<1> HIDE DEF granted
<1>9. client.managed /\ asked' = TRUE /\ hints' = hints /\ UNCHANGED <<server, told>> /\ hints' \in Hints
  BY <1>1 DEF ConfigureRequest, TypeOK
<1>10. CASE Change(c) /\ UNCHANGED anchor
  <2>1. anchor' \in Int
    BY <1>1, <1>10 DEF TypeOK
  <2>2. QED BY <1>4, <1>5, <1>9, <1>10, <2>1, ChangeKeeps
<1>11. CASE /\ Change(granted)
            /\ anchor' = IF c.fullscreen THEN anchor
                         ELSE IF granted.geometry # area THEN AnchorOf(granted)
                         ELSE IF x = None THEN anchor
                         ELSE FixedPoint(x, area.width - Bars(c), 0)
  <2>1. anchor \in Int /\ AnchorOf(granted) \in Int
    BY <1>1, <1>7, UndecoratedType DEF TypeOK
  <2>2. x # None => FixedPoint(x, area.width - Bars(c), 0) \in Int
    <3>1. area.width - Bars(c) \in Int
      BY <1>4, <1>6 DEF Clients, Bars
    <3>2. SUFFICES ASSUME x # None PROVE FixedPoint(x, area.width - Bars(c), 0) \in Int
      OBVIOUS
    <3>3. x \in Int /\ 0 \in Int
      BY <3>2, SizesAssumption
    <3>4. QED BY <1>1, <3>1, <3>3, FixedPointType
  <2>3. anchor' \in Int
    BY <1>11, <2>1, <2>2
  <2>4. QED BY <1>5, <1>7, <1>8, <1>9, <1>11, <2>3, ChangeKeeps
<1>12. QED
  BY <1>10, <1>11 DEF ConfigureRequest, c, bordered, area, granted

LEMMA InitIInv == Init => IInv
<1>1. SUFFICES ASSUME Init PROVE IInv
  OBVIOUS
<1> USE <1>1
<1>2. PICK x \in Place, w \in Width, b \in BorderSize :
        /\ server = [frame |-> [x |-> x, width |-> w], border |-> b,
                     window |-> [x |-> 0, width |-> w]]
        /\ anchor = FixedPoint(x, w, b)
  BY DEF Init
<1>3. x \in Int /\ w \in Nat /\ b \in Nat /\ hints \in Hints
  BY SizesAssumption DEF Init
<1>4. FixedPoint(x, w, b) \in Int
  <2>1. hints.gravity \in {"left", "center", "right", "static"}
    BY <1>3 DEF Hints, Gravity
  <2>2. Half(w) \in Int
    BY <1>3, HalfType
  <2>3. QED BY <1>3, <2>1, <2>2 DEF FixedPoint
<1>5. ClientTypeOK
  BY DEF Init, ClientTypeOK, NoClient, NoArea, Area
<1>6. TypeOK
  <2>1. server \in [frame : Area, border : Nat, window : Area]
    BY <1>2, <1>3 DEF Area
  <2>2. anchor \in Int
    BY <1>2, <1>4
  <2>3. told = None /\ asked \in BOOLEAN /\ pending \in 0..MaxPending
    <3>1. told = None /\ asked = FALSE /\ pending = 0
      BY DEF Init
    <3>2. 0 \in 0..MaxPending
      BY SizesAssumption
    <3>3. QED BY <3>1, <3>2
  <2>4. QED BY <1>3, <1>5, <2>1, <2>2, <2>3 DEF TypeOK
<1>7. ContentFits
  BY DEF Init, ContentFits, NoClient, NoArea, Bars
<1>8. AskedIsRecorded
  BY DEF Init, AskedIsRecorded
<1>9. SentInv
  BY DEF Init, SentInv, NoClient, NoArea
<1>10. WithdrawnIsClean
  BY DEF Init, WithdrawnIsClean
<1>11. QED BY <1>6, <1>7, <1>8, <1>9, <1>10 DEF IInv

LEMMA SendGeometryKeeps ==
    ASSUME IInv, client.managed, SendGeometry, pending' = 0, UNCHANGED <<hints, anchor>>
    PROVE  IInv'
<1> DEFINE real == RealGeometry(client)
<1>1. client \in Clients /\ Fits(client) /\ TypeOK
  BY DEF IInv, TypeOK, ClientTypeOK, Clients, ContentFits, Fits
<1>2. real \in Area
  BY <1>1 DEF RealGeometry, Clients, Area, Fits, Bars
<1> DEFINE sent == [client EXCEPT !.x11Frame = client.geometry, !.gotRequest = FALSE,
                                 !.x11Client = real]
<1>3. client' = sent
  BY DEF SendGeometry
<1>3a. sent \in Clients /\ sent.managed
  <2>1. client.geometry \in Area /\ real \in [x : Int, width : Int]
    BY <1>1, <1>2 DEF Clients, Area
  <2> HIDE DEF real
  <2>2. QED BY <1>1, <2>1 DEF Clients
<1>3b. sent.geometry = client.geometry /\ Bars(sent) = Bars(client)
       /\ sent.x11Frame = client.geometry /\ sent.x11Client = real
  <2> HIDE DEF real
  <2>1. QED BY <1>1 DEF Clients, Bars
<1>4. /\ server' = [frame |-> Configured(server.frame, client.geometry),
                     border |-> client.border, window |-> Configured(server.window, real)]
      /\ told' = [area |-> [x |-> client.geometry.x + client.border + real.x,
                            width |-> real.width], border |-> client.border]
      /\ asked' = FALSE
  BY DEF SendGeometry, Notification
<1> HIDE DEF real, sent
<1>5. TypeOK'
  <2>1. server' \in [frame : Area, border : Nat, window : Area]
    BY <1>1, <1>2, <1>4 DEF TypeOK, Configured, Clients
  <2>2. told' \in [area : [x : Int, width : Int], border : Nat]
    BY <1>1, <1>2, <1>4 DEF Clients, Area
  <2>3. QED
    <3>1. ClientTypeOK'
      BY <1>3, <1>3a DEF ClientTypeOK, Clients
    <3>2. hints' \in Hints /\ anchor' \in Int /\ asked' \in BOOLEAN /\ pending' \in 0..MaxPending
      <4>1. 0 \in 0..MaxPending
        BY SizesAssumption
      <4>2. asked' \in BOOLEAN
        BY <1>4
      <4>3. QED BY <1>1, <4>1, <4>2 DEF TypeOK
    <3>3. QED BY <2>1, <2>2, <3>1, <3>2 DEF TypeOK
<1>6. ContentFits'
  BY <1>1, <1>3, <1>3b DEF ContentFits, Fits
<1>7. SentInv'
  BY <1>1, <1>2, <1>3, <1>3a, <1>3b, <1>4 DEF SentInv, Configured, Clients, Area
<1>8. WithdrawnIsClean'
  BY <1>3, <1>3a DEF WithdrawnIsClean
<1>9. QED BY <1>4, <1>5, <1>6, <1>7, <1>8 DEF IInv, AskedIsRecorded

\* The other branch of client_refresh: what it may tell again is what the server
\* has already been sent.
LEMMA UnchangedGeometryKeeps ==
    ASSUME IInv, client.managed,
           client.x11Frame = client.geometry, client.x11Client = RealGeometry(client),
           server' = [server EXCEPT !.border = client.border],
           told' = IF client.gotRequest THEN Notification ELSE told,
           asked' = (asked /\ ~client.gotRequest),
           client' = [client EXCEPT !.gotRequest = FALSE],
           pending' = 0, UNCHANGED <<hints, anchor>>
    PROVE  IInv'
<1>1. client \in Clients /\ Fits(client) /\ TypeOK
  BY DEF IInv, TypeOK, ClientTypeOK, Clients, ContentFits, Fits
<1>2. Notification \in [area : [x : Int, width : Int], border : Nat]
  BY <1>1 DEF Notification, RealGeometry, Clients, Area, Bars
<1>3. client' \in Clients /\ client'.geometry = client.geometry /\ Bars(client') = Bars(client)
      /\ client'.x11Frame = client.x11Frame /\ client'.x11Client = client.x11Client
      /\ client'.managed
  BY <1>1 DEF Clients, Bars
<1>4. TypeOK'
  <2>1. ClientTypeOK'
    BY <1>3 DEF ClientTypeOK, Clients
  <2>2. server' \in [frame : Area, border : Nat, window : Area]
    BY <1>1 DEF TypeOK, Clients
  <2>3. told' \in [area : [x : Int, width : Int], border : Nat] \cup {None}
    BY <1>1, <1>2 DEF TypeOK
  <2>4. asked' \in BOOLEAN
    OBVIOUS
  <2>5. hints' \in Hints /\ anchor' \in Int /\ pending' \in 0..MaxPending
    BY <1>1, SizesAssumption DEF TypeOK
  <2>6. QED BY <2>1, <2>2, <2>3, <2>4, <2>5 DEF TypeOK
<1>5. ContentFits'
  BY <1>1, <1>3 DEF ContentFits, Fits
<1>6. AskedIsRecorded'
  BY DEF IInv, AskedIsRecorded
<1>7. SentInv'
  <2>1. server'.frame = server.frame /\ server'.window = server.window
    BY <1>1 DEF TypeOK
  <2>2. Notification.area = [x |-> client.x11Frame.x + Notification.border + client.x11Client.x,
                             width |-> client.x11Client.width]
    BY DEF Notification
  <2>3. told' = Notification \/ told' = told
    OBVIOUS
  <2>4. QED BY <1>3, <2>1, <2>2, <2>3 DEF IInv, SentInv
<1>8. WithdrawnIsClean'
  BY <1>3 DEF WithdrawnIsClean
<1>9. QED BY <1>4, <1>5, <1>6, <1>7, <1>8 DEF IInv

LEMMA ManageKeeps == ASSUME IInv, Manage PROVE IInv'
<1> DEFINE c == [NoClient EXCEPT !.managed = TRUE, !.honor = TRUE,
                                 !.geometry = server.frame, !.border = server.border]
<1>1. client = NoClient /\ told = None /\ ~asked
  <2>1. client = NoClient /\ ~client.managed
    BY DEF Manage, IInv, WithdrawnIsClean
  <2>2. told = None
    BY <2>1 DEF IInv, SentInv
  <2>3. ~client.gotRequest
    BY <2>1 DEF NoClient
  <2>4. QED BY <2>1, <2>2, <2>3 DEF IInv, AskedIsRecorded
<1>2. server.frame \in Area /\ server.border \in Nat
  BY DEF IInv, TypeOK
<1>3. c \in Clients /\ Bars(c) = 0 /\ c.geometry = server.frame
      /\ c.x11Frame = NoArea /\ c.x11Client = NoArea /\ c.managed
  <2>1. NoArea \in Area /\ NoArea \in [x : Int, width : Int]
    BY DEF NoArea, Area
  <2>2. NoClient \in Clients /\ NoClient.left = 0 /\ NoClient.right = 0
        /\ NoClient.x11Frame = NoArea /\ NoClient.x11Client = NoArea
    BY <2>1 DEF Clients, NoClient
  <2>3. c \in Clients
    BY <1>2, <2>2 DEF Clients
  <2>4. c.managed /\ c.geometry = server.frame
        /\ c.left = NoClient.left /\ c.right = NoClient.right
        /\ c.x11Frame = NoClient.x11Frame /\ c.x11Client = NoClient.x11Client
    BY <2>2 DEF Clients
  <2> HIDE DEF c
  <2>5. QED BY <2>2, <2>3, <2>4 DEF Bars
<1>4. client' = c /\ pending' = 0 /\ UNCHANGED <<hints, server, told, asked, anchor>>
  BY DEF Manage
<1> HIDE DEF c
<1>5. 0 \in 0..MaxPending
  BY SizesAssumption
<1>6. ClientTypeOK'
  BY <1>3, <1>4 DEF ClientTypeOK, Clients
<1>7. TypeOK'
  BY <1>4, <1>5, <1>6 DEF IInv, TypeOK
<1>8. ContentFits'
  <2>1. client'.geometry.width \in Nat /\ Bars(client') = 0
    BY <1>2, <1>3, <1>4 DEF Area
  <2>2. QED BY <2>1 DEF ContentFits
<1>9. SentInv'
  BY <1>1, <1>3, <1>4 DEF SentInv, NoArea
<1>10. QED
  BY <1>1, <1>3, <1>4, <1>7, <1>8, <1>9 DEF IInv, AskedIsRecorded, WithdrawnIsClean

LEMMA UnmanageKeeps == ASSUME IInv, Unmanage PROVE IInv'
<1> DEFINE x == Undecorated(client).x
           width == server.window.width
<1>1. client \in Clients /\ TypeOK /\ width \in Nat
  BY DEF IInv, TypeOK, ClientTypeOK, Clients, Area
<1>2. x \in Int
  BY <1>1, UndecoratedType
<1>3. FixedPoint(x, width, 0) \in Int /\ 0 \in Int
  <2>1. 0 \in Int /\ width \in Int
    BY <1>1
  <2> HIDE DEF x, width
  <2>2. QED BY <1>1, <1>2, <2>1, FixedPointType
<1>4. /\ client' = NoClient
      /\ server' = [frame |-> [x |-> x, width |-> width], border |-> 0,
                    window |-> [x |-> 0, width |-> width]]
      /\ anchor' = anchor \/ anchor' = FixedPoint(x, width, 0)
      /\ told' = None /\ asked' = FALSE /\ pending' = 0 /\ hints' = hints
  BY DEF Unmanage
<1> HIDE DEF x, width
<1>5. TypeOK'
  <2>1. ClientTypeOK'
    BY <1>4 DEF ClientTypeOK, NoClient, NoArea, Area
  <2>2. server' \in [frame : Area, border : Nat, window : Area]
    BY <1>1, <1>2, <1>4 DEF Area
  <2>3. hints' \in Hints /\ anchor' \in Int
    BY <1>1, <1>3, <1>4 DEF TypeOK
  <2>4. 0 \in 0..MaxPending
    BY SizesAssumption
  <2>5. asked' \in BOOLEAN
    BY <1>4
  <2>6. QED BY <1>4, <2>1, <2>2, <2>3, <2>4, <2>5 DEF TypeOK
<1>6. ContentFits'
  BY <1>4 DEF ContentFits, NoClient, NoArea, Bars
<1>7. SentInv'
  BY <1>4 DEF SentInv, NoClient, NoArea
<1>8. QED
  BY <1>4, <1>5, <1>6, <1>7 DEF IInv, AskedIsRecorded, WithdrawnIsClean

\* A change that is not asked for by the application.
LEMMA UnaskedChangeKeeps ==
    ASSUME IInv, client.managed, NEW c \in Clients, Fits(c), Change(c),
           c.managed = client.managed, c.x11Frame = client.x11Frame,
           c.x11Client = client.x11Client, c.gotRequest = client.gotRequest,
           anchor' \in Int, UNCHANGED <<hints, server, told, asked>>
    PROVE  IInv'
<1>1. asked' = asked /\ asked' \in BOOLEAN /\ hints' \in Hints
  BY DEF IInv, TypeOK
<1>2. client.gotRequest => c.gotRequest
  OBVIOUS
<1>3. asked' => asked \/ c.gotRequest
  BY <1>1
<1>4. UNCHANGED <<server, told>>
  OBVIOUS
<1>5. QED BY <1>1, <1>2, <1>3, <1>4, ChangeKeeps

LEMMA ResizeDoShape ==
    ASSUME NEW c \in Clients, NEW area \in Area
    PROVE  /\ ResizeDo(c, area).managed = c.managed
           /\ ResizeDo(c, area).x11Frame = c.x11Frame
           /\ ResizeDo(c, area).x11Client = c.x11Client
           /\ ResizeDo(c, area).gotRequest = c.gotRequest
BY DEF ResizeDo, Clients

LEMMA LuaMovesKeeps ==
    ASSUME IInv, NEW area \in [x : Int, width : Int], LuaMoves(area)
    PROVE  IInv'
<1>1. client \in Clients /\ Fits(client) /\ TypeOK
  BY DEF IInv, TypeOK, ClientTypeOK, Clients, ContentFits, Fits
<1>2. PICK g \in {LuaGeometry(client, area), Resize(client, area, FALSE)} :
        Change(ResizeDo(client, g)) /\ anchor' = AnchorOf(ResizeDo(client, g))
  BY DEF LuaMoves
<1>3. g \in Area /\ g.width >= Bars(client)
  BY <1>1, LuaGeometryFits, ResizeFits
<1>4. ResizeDo(client, g) \in Clients /\ Fits(ResizeDo(client, g))
  BY <1>1, <1>3, ResizeDoFits
<1>5. anchor' \in Int
  BY <1>1, <1>2, <1>4, UndecoratedType
<1>6. client.managed /\ UNCHANGED <<hints, server, told, asked>>
  BY DEF LuaMoves
<1>7. QED BY <1>1, <1>2, <1>3, <1>4, <1>5, <1>6, ResizeDoShape, UnaskedChangeKeeps

LEMMA SetBorderWidthKeeps ==
    ASSUME IInv, NEW b \in BorderSize, SetBorderWidth(b)
    PROVE  IInv'
<1>1. client \in Clients /\ Fits(client) /\ TypeOK /\ b \in Nat
  BY SizesAssumption DEF IInv, TypeOK, ClientTypeOK, Clients, ContentFits, Fits
<1>2. WithBorder(client, b) \in Clients /\ Fits(WithBorder(client, b))
  BY <1>1, WithBorderFits
<1>3. /\ WithBorder(client, b).managed = client.managed
      /\ WithBorder(client, b).x11Frame = client.x11Frame
      /\ WithBorder(client, b).x11Client = client.x11Client
      /\ WithBorder(client, b).gotRequest = client.gotRequest
  BY <1>1 DEF WithBorder, Clients
<1>4. /\ client.managed /\ Change(WithBorder(client, b)) /\ anchor' \in Int
      /\ UNCHANGED <<hints, server, told, asked>>
  BY <1>1 DEF SetBorderWidth, TypeOK
<1>5. QED BY <1>2, <1>3, <1>4, UnaskedChangeKeeps

\* The only place where a width is computed without being checked.
LEMMA TitlebarResizeKeeps ==
    ASSUME IInv, NEW l \in BarSize, NEW r \in BarSize, TitlebarResize(l, r)
    PROVE  IInv'
<1> DEFINE area == [x |-> client.geometry.x + Translate(l - client.left, r - client.right),
                    width |-> client.geometry.width + l + r - Bars(client)]
           c == [client EXCEPT !.left = l, !.right = r]
<1>1. client \in Clients /\ Fits(client) /\ TypeOK /\ l \in Nat /\ r \in Nat
  BY SizesAssumption DEF IInv, TypeOK, ClientTypeOK, Clients, ContentFits, Fits
<1>2. Translate(l - client.left, r - client.right) \in Int
  <2>1. l - client.left \in Int /\ r - client.right \in Int
    BY <1>1 DEF Clients
  <2>2. QED BY <1>1, <2>1, TranslateType
<1>3. c \in Clients /\ Bars(c) = l + r
      /\ c.managed = client.managed /\ c.x11Frame = client.x11Frame
      /\ c.x11Client = client.x11Client /\ c.gotRequest = client.gotRequest
  BY <1>1 DEF Clients, Bars
<1>4. area \in Area /\ area.width >= l + r
  BY <1>1, <1>2 DEF Clients, Area, Bars, Fits
<1>5. /\ client.managed /\ Change(ResizeDo(c, area)) /\ anchor' \in Int
      /\ UNCHANGED <<hints, server, told, asked>>
  BY <1>1 DEF TitlebarResize, TypeOK
<1> HIDE DEF c, area
<1>6. ResizeDo(c, area) \in Clients /\ Fits(ResizeDo(c, area))
  BY <1>3, <1>4, ResizeDoFits
<1>7. QED BY <1>3, <1>4, <1>5, <1>6, ResizeDoShape, UnaskedChangeKeeps

LEMMA SetFullscreenKeeps ==
    ASSUME IInv, NEW f \in BOOLEAN, NEW area \in [x : Int, width : Int], SetFullscreen(f, area)
    PROVE  IInv'
<1> DEFINE c == [client EXCEPT !.fullscreen = f]
<1>1. client \in Clients /\ Fits(client) /\ TypeOK
  BY DEF IInv, TypeOK, ClientTypeOK, Clients, ContentFits, Fits
<1>2. c \in Clients /\ Fits(c)
      /\ c.managed = client.managed /\ c.x11Frame = client.x11Frame
      /\ c.x11Client = client.x11Client /\ c.gotRequest = client.gotRequest
  BY <1>1 DEF Clients, Fits, Bars
<1>3. PICK resized \in {c, ResizeDo(c, LuaGeometry(c, area))} :
        Change(resized) /\ anchor' = AnchorOf(resized)
  BY DEF SetFullscreen
<1>4. client.managed /\ UNCHANGED <<hints, server, told, asked>>
  BY DEF SetFullscreen
<1> HIDE DEF c
<1>5. LuaGeometry(c, area) \in Area /\ LuaGeometry(c, area).width >= Bars(c)
  BY <1>1, <1>2, LuaGeometryFits
<1>6. resized \in Clients /\ Fits(resized)
  BY <1>2, <1>3, <1>5, ResizeDoFits
<1>7. resized.managed = client.managed /\ resized.x11Frame = client.x11Frame
      /\ resized.x11Client = client.x11Client /\ resized.gotRequest = client.gotRequest
  BY <1>2, <1>3, <1>5, ResizeDoShape
<1>8. anchor' \in Int
  BY <1>1, <1>3, <1>6, UndecoratedType
<1>9. QED BY <1>3, <1>4, <1>6, <1>7, <1>8, UnaskedChangeKeeps

LEMMA SetSizeHintsHonorKeeps ==
    ASSUME IInv, NEW h \in BOOLEAN, SetSizeHintsHonor(h)
    PROVE  IInv'
<1> DEFINE c == [client EXCEPT !.honor = h]
<1>1. client \in Clients /\ Fits(client) /\ TypeOK
  BY DEF IInv, TypeOK, ClientTypeOK, Clients, ContentFits, Fits
<1>2. c \in Clients /\ Fits(c)
      /\ c.managed = client.managed /\ c.x11Frame = client.x11Frame
      /\ c.x11Client = client.x11Client /\ c.gotRequest = client.gotRequest
  BY <1>1 DEF Clients, Fits, Bars
<1>3. client.managed /\ Change(c) /\ anchor' \in Int /\ UNCHANGED <<hints, server, told, asked>>
  BY <1>1 DEF SetSizeHintsHonor, TypeOK
<1> HIDE DEF c
<1>4. QED BY <1>2, <1>3, UnaskedChangeKeeps

LEMMA UpdateNormalHintsKeeps ==
    ASSUME IInv, NEW h \in SizeHints, UpdateNormalHints(h)
    PROVE  IInv'
<1>1. h \in Hints
  BY SizesAssumption
<1>2. hints' = h /\ UNCHANGED <<client, pending, server, told, asked, anchor>>
  BY DEF UpdateNormalHints
<1>3. TypeOK'
  BY <1>1, <1>2 DEF IInv, TypeOK, ClientTypeOK
<1>4. QED
  BY <1>2, <1>3 DEF IInv, ContentFits, Bars, AskedIsRecorded, SentInv, WithdrawnIsClean

LEMMA NextIInv == IInv /\ [Next]_vars => IInv'
<1>1. SUFFICES ASSUME IInv, [Next]_vars PROVE IInv'
  OBVIOUS
<1> USE <1>1
<1>2. CASE Manage
  BY <1>2, ManageKeeps
<1>3. CASE Unmanage
  BY <1>3, UnmanageKeeps
<1>4. CASE Refresh
  <2>1. CASE client.x11Frame # client.geometry \/ client.x11Client # RealGeometry(client)
    BY <1>4, <2>1, SendGeometryKeeps DEF Refresh
  <2>2. CASE ~(client.x11Frame # client.geometry \/ client.x11Client # RealGeometry(client))
    BY <1>4, <2>2, UnchangedGeometryKeeps DEF Refresh
  <2>3. QED BY <2>1, <2>2
<1>5. ASSUME NEW x \in Place \cup {None}, NEW w \in Width \cup {None},
             NEW b \in BorderSize \cup {None}, ConfigureRequest(x, w, b)
      PROVE IInv'
  BY <1>5, ConfigureRequestKeeps
<1>6. ASSUME NEW x \in Place, NEW w \in Width, LuaMoves([x |-> x, width |-> w])
      PROVE IInv'
  <2>1. [x |-> x, width |-> w] \in [x : Int, width : Int]
    BY SizesAssumption
  <2>2. QED BY <1>6, <2>1, LuaMovesKeeps
<1>7. ASSUME NEW b \in BorderSize, SetBorderWidth(b) PROVE IInv'
  BY <1>7, SetBorderWidthKeeps
<1>8. ASSUME NEW l \in BarSize, NEW r \in BarSize, TitlebarResize(l, r) PROVE IInv'
  BY <1>8, TitlebarResizeKeeps
<1>9. ASSUME NEW f \in BOOLEAN, NEW x \in Place, NEW w \in Width,
             SetFullscreen(f, [x |-> x, width |-> w])
      PROVE IInv'
  <2>1. [x |-> x, width |-> w] \in [x : Int, width : Int]
    BY SizesAssumption
  <2>2. QED BY <1>9, <2>1, SetFullscreenKeeps
<1>10. ASSUME NEW h \in BOOLEAN, SetSizeHintsHonor(h) PROVE IInv'
  BY <1>10, SetSizeHintsHonorKeeps
<1>11. ASSUME NEW h \in SizeHints, UpdateNormalHints(h) PROVE IInv'
  BY <1>11, UpdateNormalHintsKeeps
<1>12. CASE UNCHANGED vars
  BY <1>12 DEF vars, IInv, TypeOK, ClientTypeOK, ContentFits, Bars, AskedIsRecorded, SentInv,
               WithdrawnIsClean
<1>13. QED
  BY <1>2, <1>3, <1>4, <1>5, <1>6, <1>7, <1>8, <1>9, <1>10, <1>11, <1>12 DEF Next

LEMMA IInvHolds == Spec => []IInv
BY InitIInv, NextIInv, PTL DEF Spec

\* The state always has its types: in particular no width that is stored for the
\* frame is ever negative, so none wraps around as an unsigned number.
THEOREM TypeCorrect == Spec => []TypeOK
<1>1. IInv => TypeOK
  BY DEF IInv
<1>2. QED BY <1>1, IInvHolds, PTL

\* The titlebars of a client fit into its frame (client_resize, titlebar_resize).
THEOREM TitlebarsFit == Spec => []ContentFits
<1>1. IInv => ContentFits
  BY DEF IInv
<1>2. QED BY <1>1, IInvHolds, PTL

\* When nothing is pending, every ConfigureRequest has been answered
\* (event_handle_configurerequest, client_geometry_refresh).
THEOREM NoRequestUnanswered == Spec => []RequestsAnswered
<1>1. IInv => RequestsAnswered
  BY DEF IInv, AskedIsRecorded, RequestsAnswered, Settled
<1>2. QED BY <1>1, IInvHolds, PTL

\* When nothing is pending, the application knows where its window is on the
\* screen, unless the border was changed behind its back (client_send_configure).
THEOREM PlaceIsKnown == Spec => []AppKnowsItsPlace
<1>1. ASSUME IInv, client.managed, Settled, RealGeometry(client).width > 0,
             told # None, told.border = client.border
      PROVE told.area = [x |-> server.frame.x + server.border + server.window.x,
                         width |-> server.window.width]
  <2>1. /\ client.x11Frame = client.geometry /\ client.x11Client = RealGeometry(client)
        /\ server.border = client.border
    BY <1>1 DEF Settled
  <2>2. client.geometry.width > 0
    BY <1>1 DEF IInv, TypeOK, ClientTypeOK, Area, RealGeometry, Bars
  <2>3. server.frame = client.x11Frame /\ server.window = client.x11Client
    BY <1>1, <2>1, <2>2 DEF IInv, SentInv
  <2>4. QED BY <1>1, <2>1, <2>3 DEF IInv, SentInv
<1>2. IInv => AppKnowsItsPlace
  BY <1>1 DEF AppKnowsItsPlace
<1>3. QED BY <1>2, IInvHolds, PTL

\* Together: when nothing is pending, the application has been told what it asked for and
\* where its window is (event_handle_configurerequest, client_geometry_refresh).
THEOREM AppStaysInformed == Spec => []AppIsInformed
<1>1. AppKnowsItsPlace /\ RequestsAnswered => AppIsInformed
  BY DEF AppIsInformed
<1>2. QED BY <1>1, PlaceIsKnown, NoRequestUnanswered, PTL
=============================================================================

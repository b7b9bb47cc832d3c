------------------------------- MODULE MCClients -------------------------------
(***************************************************************************)
(* Model checking of what awesome makes of a client's window: its place in *)
(* the stack, its icons, its border's colour, and the properties that Lua  *)
(* code keeps on it.  As in MCWindows a behaviour is about one component,  *)
(* its part, and the others stay in one of their initial states.           *)
(***************************************************************************)
EXTENDS Stacking, Icons, Colors, Xproperties, TLC

VARIABLE part      \* the component that a behaviour is about

\* The clients that may be dialogs, desktop windows or in a special layer are told apart:
\* only clients that may be the same things are interchangeable.
Symmetry == {p \in Permutations(Client) :
                \A c \in Client, S \in {Dialog, Desktop, Layered} : p[c] \in S <=> c \in S}

\* Lists of icons: one, two, none; cut off in an icon or in its header; with an empty icon.
MCData == {<<>>, <<1>>, <<1, 1, 7>>, <<1, 1, 7, 9>>, <<2, 1, 5, 6>>, <<2, 1, 5>>, <<1, 1, 7, 1, 2, 8, 9>>,
           <<0, 1, 2, 1, 1, 3>>, <<1, 1, 3, 2, 2, 4, 4, 4, 4, 1, 1, 5>>, <<2, 1, 7, 8, 3, 1, 4, 4, 4, 1, 1, 5>>}
MCPixmaps == {[width |-> w, height |-> 1, readable |-> r] : w \in {2, 3}, r \in BOOLEAN}
MCSurfaces == {[width |-> w, height |-> 2, pixels |-> <<>>] : w \in {0, 4}}

\* Visuals of 24, 16 and 30 bits, of 32 with an alpha channel, and with a colormap.
Widths(r, g, b) == [red |-> r, green |-> g, blue |-> b]
Plain == [direct |-> TRUE, width |-> Widths(8, 8, 8)]
MCVisuals == {Plain, [direct |-> FALSE, width |-> <<>>],
             [direct |-> TRUE, width |-> Widths(5, 6, 5)], [direct |-> TRUE, width |-> Widths(10, 10, 10)],
             [direct |-> TRUE, width |-> [red |-> 8, green |-> 8, blue |-> 8, alpha |-> 8]]}

\* Colours, opaque or not, and strings that are none: too short or long, or not of digits.
Hash(digits) == [hash |-> TRUE, digits |-> digits, rest |-> 0]
MCColors == {Hash(<<15, 15, 0, 1, 8, 9>>), Hash(<<0, 0, 15, 15, 1, 2, 15, 14>>),
             Hash(<<15, 15, 0, 1, 8, 9, 15, 15>>), Hash(<<1, 2, 3>>), Hash(<<1, 2, 3, 4, 5, 6, 7>>),
             [hash |-> TRUE, digits |-> <<1, 2, 3, 4, 5, 6>>, rest |-> 2],
             [hash |-> FALSE, digits |-> <<1, 2, 3, 4, 5, 6>>, rest |-> 0],
             [hash |-> FALSE, digits |-> <<>>, rest |-> 0]}

\* The two properties that awful declares persistent, floating and single_instance_id.
MCTypeOf == [n \in Kept |-> IF n = "floating" THEN "boolean" ELSE "string"]
MCValueOf == [string |-> {"", "a"}, number |-> {0, 1}, boolean |-> BOOLEAN]

-----------------------------------------------------------------------------
otherThanStacking    == <<part, iconsVars, colorsVars, xpropertiesVars>>
otherThanIcons       == <<part, stackingVars, colorsVars, xpropertiesVars>>
otherThanColors      == <<part, stackingVars, iconsVars, xpropertiesVars>>
otherThanXproperties == <<part, stackingVars, iconsVars, colorsVars>>

ClientsInit ==
    /\ part \in {"stacking", "icons", "colours", "properties"}
    /\ StackingInit /\ IconsInit /\ ColorsInit /\ XpropertiesInit
    /\ part # "icons" => netWmIcon = NoIcon /\ hint = NoIcon
    /\ part # "colours" => visual = Plain

ClientsNext ==
    \/ part = "stacking" /\ StackingNext /\ UNCHANGED otherThanStacking
    \/ part = "icons" /\ IconsNext /\ UNCHANGED otherThanIcons
    \/ part = "colours" /\ ColorsNext /\ UNCHANGED otherThanColors
    \/ part = "properties" /\ XpropertiesNext /\ UNCHANGED otherThanXproperties

ClientsSpec == ClientsInit /\ [][ClientsNext]_<<stackingVars, otherThanStacking>>

\* What others see of a client is what its application and Lua code have asked for last: its
\* icon and its border's colour, and the systray's background.
AppearanceInv == IconsInv /\ ColorsInv
===============================================================================

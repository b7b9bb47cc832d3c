--------------------------------- MODULE Colors ---------------------------------
(***************************************************************************)
(* Colours (color.c) of a window's border and of the systray: a string is  *)
(* parsed, becomes a pixel of the visual, by its masks or, in a visual with*)
(* a colormap, by a cell that the server allocates, and reaches the server *)
(* with the next refresh, or at once in the systray.  A pixel is given as  *)
(* the values of its fields, one for each mask.                            *)
(***************************************************************************)
EXTENDS Integers, SequencesExt

CONSTANTS ColorString,   \* [hash, digits, rest]: what is before the hexadecimal digits ("#" or
                         \* another character), the digits, and the number of characters after them
          Visual,        \* [direct, width]: whether it has masks, and their widths, by field;
                         \* "alpha" is one of them if the depth is 32
          Garbage,       \* what an uninitialized pixel may be
          MaxCells,      \* cells of the colormap
          MaxColorSteps, \* bound: changes of colours
          NoString, NoPixel

VARIABLES visual,       \* globalconf.visual and default_visual
          cells,        \* the server's colormap: the colours of the cells that are allocated
          borderColor,  \* window->border_color: [pixel, color, alpha, initialized]
          borderNeedUpdate,
          x11Border,    \* the server: the border's pixel
          backgroundPixel, x11Background, \* globalconf.systray.background_pixel; the server's
          borderString, trayString, \* history: the last colours that were accepted
          colorSteps

colorsVars == <<visual, cells, borderColor, borderNeedUpdate, x11Border, backgroundPixel, x11Background,
                borderString, trayString, colorSteps>>

Rgb == {"red", "green", "blue"}

ColorsTypeOK ==
    /\ visual \in Visual /\ Len(cells) <= MaxCells
    /\ borderColor.color \in [Rgb -> 0..65535] /\ borderColor.alpha \in 0..65535
    /\ {borderNeedUpdate, borderColor.initialized} \subseteq BOOLEAN
    /\ {borderString, trayString} \subseteq ColorString \cup {NoString}

-----------------------------------------------------------------------------
Byte(digits, i) == digits[2 * i - 1] * 16 + digits[2 * i]

\* color_parse.  It skips the first character, which must be "#" in the end, and takes what
\* follows if it is six or eight digits and nothing else.
Parses(s) == s.hash /\ s.rest = 0 /\ Len(s.digits) \in {6, 8}
Parsed(s) == [red |-> Byte(s.digits, 1), green |-> Byte(s.digits, 2), blue |-> Byte(s.digits, 3),
              alpha |-> IF Len(s.digits) = 8 THEN Byte(s.digits, 4) ELSE 255]

\* apply_mask: the component, scaled to the width of the mask.
ApplyMask(component, width) ==
    IF width < 8 THEN component \div 2 ^ (8 - width) ELSE component * 2 ^ (width - 8)

Pixel(bytes) == [field \in DOMAIN visual.width |-> ApplyMask(bytes[field], visual.width[field])]

\* Of bytes and 16 bits.
RGB_8TO16(i) == i * 257
RGB_16TO8(i) == i \div 257
Color16(bytes) == [field \in Rgb |-> RGB_8TO16(bytes[field])]

\* AllocColor: who asks for a colour that is allocated gets its cell; a full colormap has
\* no cell for another.
HasCell(color) == Contains(cells, color) \/ Len(cells) < MaxCells
CellsWith(color) == IF Contains(cells, color) \/ ~HasCell(color) THEN cells ELSE Append(cells, color)
Cell(color) == SelectInSeq(CellsWith(color), LAMBDA c : c = color)

\* color_init_unchecked and color_init_reply: what they make of a color_t, and NoPixel for
\* an error.  In a visual with a colormap, one that is initialized already is left alone.
IsDone(old) == old.initialized
InitColor(old, s) ==
    LET color == Color16(Parsed(s))
    IN  CASE ~Parses(s) -> NoPixel
          [] Parses(s) /\ visual.direct -> [pixel |-> Pixel(Parsed(s)), color |-> color,
                                            alpha |-> RGB_8TO16(Parsed(s).alpha), initialized |-> TRUE]
          [] Parses(s) /\ ~visual.direct /\ IsDone(old) -> old
          [] OTHER -> IF ~HasCell(color) THEN NoPixel
                      ELSE [pixel |-> Cell(color), color |-> color, alpha |-> 65535, initialized |-> TRUE]

Allocated(s) == cells' = IF visual.direct \/ ~Parses(s) THEN cells ELSE CellsWith(Color16(Parsed(s)))

\* luaA_pushcolor: the string that a colour is read as, six digits if it is opaque.
Digits(i) == <<i \div 16, i % 16>>
PushColor(c) ==
    LET rgb == Digits(RGB_16TO8(c.color["red"])) \o Digits(RGB_16TO8(c.color["green"]))
                 \o Digits(RGB_16TO8(c.color["blue"]))
        a == RGB_16TO8(c.alpha)
    IN  IF a >= 255 THEN rgb ELSE rgb \o Digits(a)

-----------------------------------------------------------------------------
ColorStep == colorSteps < MaxColorSteps /\ colorSteps' = colorSteps + 1

\* luaA_window_set_border_color, which tells by "property::border_color".
SetBorderColor(s) ==
    /\ ColorStep /\ Allocated(s)
    /\ LET new == InitColor(borderColor, s)
       IN  IF new = NoPixel THEN UNCHANGED <<borderColor, borderNeedUpdate, borderString>>
           ELSE borderColor' = new /\ borderNeedUpdate' = TRUE /\ borderString' = s
    /\ UNCHANGED <<visual, x11Border, backgroundPixel, x11Background, trayString>>

\* window_set_border_width: the refresh sets both.
ChangeBorderWidth ==
    /\ ColorStep /\ borderNeedUpdate' = TRUE
    /\ UNCHANGED <<visual, cells, borderColor, x11Border, backgroundPixel, x11Background,
                   borderString, trayString>>

\* window_border_refresh.
BorderRefresh ==
    /\ borderNeedUpdate /\ borderNeedUpdate' = FALSE
    /\ x11Border' = borderColor.pixel
    /\ UNCHANGED <<visual, cells, borderColor, backgroundPixel, x11Background, borderString,
                   trayString, colorSteps>>

\* luaA_systray: bg_color is not initialized.
SetBackground(s, garbage, isSet) ==
    /\ ColorStep /\ Allocated(s)
    /\ LET new == InitColor([pixel |-> garbage, initialized |-> isSet], s)
       IN  IF new = NoPixel THEN UNCHANGED <<backgroundPixel, x11Background, trayString>>
           ELSE /\ trayString' = s /\ backgroundPixel' = new.pixel
                /\ x11Background' = IF backgroundPixel # new.pixel THEN new.pixel ELSE x11Background
    /\ UNCHANGED <<visual, borderColor, borderNeedUpdate, x11Border, borderString>>

ColorsInit ==
    /\ visual \in Visual /\ cells = <<>>
    /\ borderColor = [pixel |-> NoPixel, color |-> [field \in Rgb |-> 0], alpha |-> 0, initialized |-> FALSE]
    /\ borderNeedUpdate = FALSE /\ x11Border = NoPixel
    /\ backgroundPixel = NoPixel /\ x11Background = NoPixel
    /\ borderString = NoString /\ trayString = NoString /\ colorSteps = 0

ColorsNext ==
    \/ ChangeBorderWidth \/ BorderRefresh
    \/ \E s \in ColorString : \/ SetBorderColor(s)
                              \/ \E garbage \in Garbage, isSet \in BOOLEAN : SetBackground(s, garbage, isSet)

ColorsSpec == ColorsInit /\ [][ColorsNext]_colorsVars

-----------------------------------------------------------------------------
\* A string's colour in the visual of the window, as near as the width of its field allows:
\* the component times 2^width, divided by 2^8.
Shows(pixel, s) ==
    IF visual.direct THEN \A field \in DOMAIN visual.width :
                              pixel[field] = (Parsed(s)[field] * 2 ^ visual.width[field]) \div 256
    ELSE cells[pixel] = Color16(Parsed(s))

\* After a refresh, the border has the colour that was accepted last, and so has the
\* background of the systray.
BorderIsAsked == ~borderNeedUpdate /\ borderString # NoString => Shows(x11Border, borderString)
BackgroundIsAsked == trayString # NoString => Shows(x11Background, trayString)

\* A colour is read as it was set, but for an alpha of ff, which is not written.
Canonical(digits) == IF Len(digits) = 8 /\ Byte(digits, 4) = 255 THEN SubSeq(digits, 1, 6) ELSE digits
BorderReadsBack == borderString # NoString => PushColor(borderColor) = Canonical(borderString.digits)

\* With a colormap the first colour of a border stays, but what is read is what is shown.
ShownIsRead == ~visual.direct /\ ~borderNeedUpdate /\ borderString # NoString => cells[x11Border] = borderColor.color

\* Together: in visuals with masks colours are shown and read as they were asked for.
ColorsInv ==
    /\ ColorsTypeOK /\ ShownIsRead
    /\ visual.direct => BorderIsAsked /\ BackgroundIsAsked /\ BorderReadsBack
=================================================================================

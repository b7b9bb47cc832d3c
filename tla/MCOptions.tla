------------------------------ MODULE MCOptions ------------------------------
(***************************************************************************)
(* Configurations for model checking of Options: the marker is <<"a", ":">>,*)
(* the buffers are short, and every line of up to three characters after   *)
(* the marker, or after a #!, is tried, with other lines before and after. *)
(***************************************************************************)
EXTENDS Options, TLC

OptionX == <<"-", "-", "x">>
OptionY == <<"-", "-", "y">>
OptionF == <<"-", "-", "f">>
MCHasArgument == (OptionX :> FALSE) @@ (OptionY :> TRUE) @@ (OptionF :> FALSE)
MCCommandLines == {<<>>, <<OptionF>>, <<OptionX>>}

MCName == <<"a", ":">>
Marker == <<"-", "-", " ">> \o MCName \o <<" ">>

\* A modeline or a #! line with up to n characters of options, the last of the file or not.
LinesUpTo(n) ==
    {head \o options \o end :
        head \in {Marker, <<" ", "-">> \o MCName, <<"#", "!", " ">>},
        options \in UNION {[1..k -> {"x", "y", ":", "="}] : k \in 0..n},
        end \in {<<"nl">>, <<>>}}

\* Two or three options as the documentation writes them.
SingleOption == {<<"x">>, <<"y">>, <<"x", "=", "y">>, <<"y", "=", "x", "y">>}
ProperLines ==
    {Marker \o options \o <<"nl">> :
        options \in {o \o <<":">> \o p : o, p \in SingleOption}
               \cup {o \o <<":">> \o p \o <<":">> \o q : o, p, q \in SingleOption}}

\* Another comment, an empty line, code, a character that is not ASCII, and a comment
\* that begins like the marker.
OtherLine == {<<"-", "-", " ", "a", "nl">>, <<"nl">>, <<"x", "nl">>, <<"utf">>,
              <<"-", "-", "a", " ", " ", "nl">>}

MCTexts == LinesUpTo(3) \cup ProperLines
      \cup {o \o l : o \in OtherLine, l \in LinesUpTo(2)}
      \cup {l \o o : l \in LinesUpTo(2), o \in OtherLine}
      \cup {l \o m : l, m \in LinesUpTo(1)}
      \cup {l \o <<" ", "x", ",", "x", "utf", "nl">> : l \in LinesUpTo(2)} \cup {<<>>}
=============================================================================

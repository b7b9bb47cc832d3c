---------------------------- MODULE Options ----------------------------
(***************************************************************************)
(* Options, the modeline and the configuration file (options.c; main in   *)
(* awesome.c; luaA_parserc in luaa.c).                                     *)
(*                                                                         *)
(* The options come from the command line and from the first lines of the  *)
(* configuration: a comment with key=value pairs, or a #! line.  A         *)
(* hand-written automaton turns these lines into an argument vector, a     *)
(* buffer at a time, and getopt reads that as it reads the command line.   *)
(* Then the configuration runs; if it fails, the next one is tried.        *)
(***************************************************************************)
EXTENDS Naturals, Sequences, FiniteSets, SequencesExt

CONSTANTS Texts,          \* what the configuration files may begin with
          Name,           \* the characters of "awesome_mode:"
          ReadMax,        \* READ_BUF_MAX
          KeyMax,         \* KEY_VALUE_BUF_MAX
          HasArgument,    \* option, with its dashes |-> whether it takes a value
          Force,          \* the option --force
          CommandLines,   \* arguments awesome may be started with
          MaxConfigs      \* bound on the configuration files

VARIABLES configs,   \* the configuration files, the one asked for first:
                     \* what each begins with and whether it runs
          stage,     \* "start", "read", "parse", "rc", "running" or "failed"
          chunk,     \* file_buf: what fgets returned last
          rest,      \* what it has not read yet
          parser,    \* state, mode, pos, key_buf and argv of options_init_config
          settings,  \* the options in force, in the order they were read
          tried,     \* how many configuration files were tried
          optionErrors \* startup_errors: the files that failed

optionsVars == <<configs, stage, chunk, rest, parser, settings, tried, optionErrors>>

ParserStates == {"INIT", "NEWLINE", "COMMENT", "MODELINE", "SHEBANG", "KEY_DELIM",
                 "KEY", "VALUE_DELIM", "VALUE", "COMPLETE", "INVALID", "ERROR"}

OptionsTypeOK ==
    /\ stage \in {"start", "read", "parse", "rc", "running", "failed"}
    /\ parser.state \in ParserStates
    /\ parser.mode \in {"NONE", "LINE", "SHEBANG"}
    /\ tried \in 0..MaxConfigs
    /\ optionErrors \subseteq 1..MaxConfigs

OptionsInit ==
    /\ \E n \in 1..MaxConfigs : \E first \in Texts : \E runs \in [1..n -> BOOLEAN] :
          configs = [i \in 1..n |-> [text |-> first, runs |-> runs[i]]]
    /\ stage = "start"
    /\ chunk = <<>> /\ rest = <<>>
    /\ parser = [state |-> "INIT", mode |-> "NONE", pos |-> 0, key |-> <<>>, args |-> <<>>]
    /\ settings = <<>>
    /\ tried = 0
    /\ optionErrors = {}

(***************************************************************************)
(* options_check_args: getopt_long over an argument vector.                *)
(***************************************************************************)
\* What is set: an option with the value it takes.  Other words and unknown
\* options are passed over.
Checked(args) ==
    LET word(i) == args[i] \in DOMAIN HasArgument
        from[i \in 1..(Len(args) + 1)] ==
            IF i > Len(args) THEN <<>>
            ELSE IF ~word(i) THEN from[i + 1]
            ELSE IF ~HasArgument[args[i]] THEN << <<args[i]>> >> \o from[i + 1]
            ELSE IF i = Len(args) THEN <<>>
            ELSE << <<args[i], args[i + 1]>> >> \o from[i + 2]
    IN from[1]

\* main, up to the configuration: an option --force leaves the modeline alone.
CommandLine(args) ==
    /\ stage = "start"
    /\ settings' = Checked(args)
    /\ IF <<Force>> \in ToSet(Checked(args))
       THEN stage' = "rc" /\ UNCHANGED rest
       ELSE stage' = "read" /\ rest' = configs[1].text
    /\ UNCHANGED <<configs, chunk, parser, tried, optionErrors>>

(***************************************************************************)
(* options_init_config.                                                    *)
(***************************************************************************)
\* fgets: up to a newline, the end of the file or the end of the buffer.
Newlines == {i \in DOMAIN rest : rest[i] = "nl"}
LineLength ==
    LET least == IF Newlines = {} THEN Len(rest)
                 ELSE CHOOSE i \in Newlines : \A j \in Newlines : i <= j
    IN IF least < ReadMax THEN least ELSE ReadMax - 1
Fetched == SubSeq(rest, 1, LineLength)
Left == SubSeq(rest, LineLength + 1, Len(rest))

\* feof: fgets met the end of the file.
AtEnd == rest = <<>> /\ Last(chunk) # "nl" /\ Len(chunk) < ReadMax - 1

To(p, state) == [p EXCEPT !.state = state]
Put(p, c) == [p EXCEPT !.key = SubSeq(@, 1, p.pos) \o <<c>>, !.pos = @ + 1]

\* push_arg
PushArg(p) == [p EXCEPT !.args = Append(@, SubSeq(p.key, 1, p.pos)), !.pos = 0]

\* The first character of a key; the keys of a modeline get their dashes.
\* A plausible slip: only those of a #! line, which have them already.
FirstOfKeyOfShebang(p, c) ==
    Put(IF p.mode = "SHEBANG" THEN [p EXCEPT !.key = <<"-", "-">>, !.pos = 2] ELSE p, c)

FirstOfKey(p, c) ==
    Put(IF p.mode = "LINE" THEN [p EXCEPT !.key = <<"-", "-">>, !.pos = 2] ELSE p, c)

InModeline(p, c) ==
    IF c = " " THEN p
    ELSE LET q == IF c = Name[p.pos + 1] THEN [p EXCEPT !.pos = @ + 1]
                  ELSE [p EXCEPT !.state = "INVALID", !.pos = 0]
         IN IF q.pos = Len(Name) THEN [q EXCEPT !.pos = 0, !.state = "KEY_DELIM", !.mode = "LINE"]
                                 ELSE q

\* One character in each state of the automaton.
Accepted(p, c) ==
    CASE p.state = "INIT" -> To(p, IF c = "#" THEN "SHEBANG"
                                   ELSE IF c \in {" ", "-"} THEN "COMMENT" ELSE "INVALID")
      [] p.state = "NEWLINE" -> To(p, IF c \in {" ", "-"} THEN "COMMENT" ELSE "INVALID")
      [] p.state = "COMMENT" -> To(p, IF c = "-" THEN "MODELINE" ELSE "INVALID")
      [] p.state = "MODELINE" -> InModeline(p, c)
      [] p.state = "SHEBANG" -> IF c = "!" THEN [p EXCEPT !.mode = "SHEBANG", !.state = "KEY_DELIM"]
                                ELSE To(p, "INVALID")
      [] p.state = "KEY_DELIM" -> IF c \in {" ", ":", "="} THEN p
                                  ELSE IF c = "nl" THEN To(p, "ERROR")
                                  ELSE To(FirstOfKey(p, c), "KEY")
      [] p.state = "KEY" -> IF c = "=" THEN To(PushArg(p), "VALUE_DELIM")
                            ELSE IF c \in {" ", ":"} THEN To(PushArg(p), "KEY_DELIM")
                            ELSE Put(p, c)
      [] p.state = "VALUE_DELIM" -> IF c = " " THEN p
                                    ELSE IF c = "nl" THEN To(p, "ERROR")
                                    ELSE IF c = ":" THEN To(p, "KEY_DELIM")
                                    ELSE To(Put(p, c), "VALUE")
      [] p.state = "VALUE" -> IF c \in {",", " ", ":"} THEN To(PushArg(p), "KEY_DELIM")
                              ELSE IF c = "nl" THEN To(PushArg(p), "COMPLETE")
                              ELSE Put(p, c)
      [] OTHER -> p

LengthChecked(p) == IF p.pos >= KeyMax THEN To(p, "ERROR") ELSE p

Finished(p) == p.state \in {"ERROR", "COMPLETE"}

\* A key or value that the end of the line or of the buffer cuts.
CutOff(p) == IF p.state \in {"KEY", "VALUE"} THEN PushArg(p) ELSE p

\* fgets until a line is not empty.
NextLine(p) ==
    LET filled == SelectInSeq(rest, LAMBDA c : c # "nl")
        from == SubSeq(rest, filled, Len(rest))
        ends == {i \in DOMAIN from : from[i] = "nl"} \cup {Len(from), ReadMax - 1}
        n == CHOOSE i \in ends : \A j \in ends : i <= j
    IN IF filled = 0
       THEN /\ parser' = To(p, "COMPLETE")
            /\ stage' = "rc" /\ settings' = settings \o Checked(p.args)
            /\ UNCHANGED <<chunk, rest>>
       ELSE /\ parser' = To(p, "NEWLINE")
            /\ chunk' = SubSeq(from, 1, n)
            /\ rest' = SubSeq(from, n + 1, Len(from))
            /\ UNCHANGED <<stage, settings>>

\* The parser is done: the argument vector is read like the command line,
\* whether the modeline was good or not.
ParserDone(p) ==
    /\ parser' = p
    /\ stage' = "rc"
    /\ settings' = settings \o Checked(p.args)
    /\ UNCHANGED <<chunk, rest>>

\* The first fgets; an empty file has no options.
ReadFirst ==
    /\ stage = "read"
    /\ IF rest = <<>>
       THEN stage' = "rc" /\ UNCHANGED <<chunk, rest>>
       ELSE stage' = "parse" /\ chunk' = Fetched /\ rest' = Left
    /\ UNCHANGED <<configs, parser, settings, tried, optionErrors>>

\* One turn of the loop, with a character and what follows it; characters
\* beyond ASCII are skipped, at the end of a buffer without looking further.
ParseCharacter ==
    /\ stage = "parse"
    /\ chunk # <<>>
    /\ LET c == Head(chunk)
           p == LengthChecked(Accepted(parser, c))
           lineOver == (Tail(chunk) = <<>> /\ ~AtEnd) \/ p.state = "INVALID"
       IN IF c = "utf" THEN chunk' = Tail(chunk) /\ UNCHANGED <<parser, stage, rest, settings>>
          ELSE IF Finished(p) THEN ParserDone(p)
          ELSE IF lineOver THEN NextLine(CutOff(p))
          ELSE parser' = p /\ chunk' = Tail(chunk) /\ UNCHANGED <<stage, rest, settings>>
    /\ UNCHANGED <<configs, tried, optionErrors>>

\* The end of the buffer ends the loop.
ParseEnd ==
    /\ stage = "parse"
    /\ chunk = <<>>
    /\ ParserDone(parser)
    /\ UNCHANGED <<configs, tried, optionErrors>>

(***************************************************************************)
(* luaA_parserc.                                                           *)
(***************************************************************************)
\* The next configuration is loaded and run; a failure is noted and leads to
\* the one after it.
LoadRc ==
    /\ stage = "rc"
    /\ tried' = tried + 1
    /\ IF configs[tried'].runs
       THEN stage' = "running" /\ UNCHANGED optionErrors
       ELSE /\ optionErrors' = optionErrors \cup {tried'}
            /\ stage' = IF tried' = Len(configs) THEN "failed" ELSE "rc"
    /\ UNCHANGED <<configs, chunk, rest, parser, settings>>

OptionsNext ==
    \/ \E args \in CommandLines : CommandLine(args)
    \/ ReadFirst \/ ParseCharacter \/ ParseEnd \/ LoadRc

OptionsSpec == OptionsInit /\ [][OptionsNext]_optionsVars

(***************************************************************************)
(* Properties.                                                             *)
(***************************************************************************)
\* The documented form (docs/09-options.md): "-- awesome_mode: ", then options
\* separated by ":", each a key or key=value.  What it stands for, read in
\* another way: cut at ":", then at "=".
Pieces(s, sep) ==
    LET cuts == {0, Len(s) + 1} \cup {i \in DOMAIN s : s[i] = sep}
        Next_(a) == CHOOSE b \in cuts : b > a /\ \A d \in cuts : d > a => b <= d
    IN {<<a, SubSeq(s, a + 1, Next_(a) - 1)>> : a \in cuts \ {Len(s) + 1}}

Prefix == <<"-", "-", " ">> \o Name \o <<" ">>
FirstLine(text) ==
    LET ends == {i \in DOMAIN text : text[i] = "nl"}
    IN SubSeq(text, 1, (CHOOSE i \in ends : \A j \in ends : i <= j) - 1)
ModelineText(text) == SubSeq(FirstLine(text), Len(Prefix) + 1, Len(FirstLine(text)))

WordOf(s) == s # <<>> /\ ToSet(s) \cap {":", "=", " ", ",", "nl", "utf"} = {} /\ Len(s) + 2 < KeyMax
PairOf(s) == Cardinality(Pieces(s, "=")) = 2 /\ \A w \in Pieces(s, "=") : WordOf(w[2])
Documented(text) ==
    /\ "nl" \in ToSet(text)
    /\ IsPrefix(Prefix, FirstLine(text))
    /\ Len(FirstLine(text)) < ReadMax - 1
    /\ \A w \in Pieces(ModelineText(text), ":") : WordOf(w[2]) \/ PairOf(w[2])

Words(s) == IF PairOf(s)
            THEN LET e == SelectInSeq(s, LAMBDA c : c = "=")
                 IN << <<"-", "-">> \o SubSeq(s, 1, e - 1), SubSeq(s, e + 1, Len(s))>>
            ELSE << <<"-", "-">> \o s>>
ModelineMeaning(text) ==
    LET pieces == SetToSortSeq(Pieces(ModelineText(text), ":"), LAMBDA a, b : a[1] < b[1])
    IN FlattenSeq([i \in DOMAIN pieces |-> Words(pieces[i][2])])

LastHasValue(text) ==
    \A w \in Pieces(ModelineText(text), ":") :
        w[1] + Len(w[2]) = Len(ModelineText(text)) => PairOf(w[2])

\* A documented modeline on the first line whose last option has a value
\* gives exactly the arguments that it lists.
ModelineIsRead ==
    parser.state = "COMPLETE" /\ Documented(configs[1].text) /\ LastHasValue(configs[1].text)
        => parser.args = ModelineMeaning(configs[1].text)

\* docs/09-options.md: "The options are separated by `:`", and not every
\* option has a value: any documented modeline is read.
OptionsAreSeparated ==
    parser.state = "COMPLETE" /\ Documented(configs[1].text)
        => IsPrefix(ModelineMeaning(configs[1].text), parser.args)

\* No line makes the parser write beyond key_buf, nor look beyond the name.
BuffersSuffice ==
    /\ Len(parser.key) <= KeyMax /\ parser.pos <= KeyMax
    /\ parser.state = "MODELINE" => parser.pos < Len(Name)

\* Together: modelines mean what they say, and no line of any length overruns the parser.
OptionsInv == OptionsTypeOK /\ ModelineIsRead /\ BuffersSuffice
=============================================================================

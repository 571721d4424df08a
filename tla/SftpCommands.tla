---------------------------- MODULE SftpCommands ----------------------------
(***************************************************************************)
(* The command line of sftp: how a line is split into words with quotes,   *)
(* escapes and glob characters (makeargv), what a command takes from the   *)
(* words (parse_args), and how the tab key completes a command or a file   *)
(* name (complete).  A line is a sequence of characters.  The typist       *)
(* enters a command and the names of files that exist, each in one of the  *)
(* ways sftp(1) allows, presses tab or not, and enters the line.           *)
(*                                                                         *)
(* The cursor is at the end of the line, and the line does not end in half *)
(* an escape.                                                              *)
(***************************************************************************)
EXTENDS Integers, Sequences, SequencesExt, FiniteSets

CONSTANTS Entries,    \* the names in the remote directory (no name starts with "-")
          Folders,    \* those of them that are directories
          Pwd,        \* remote_path
          MaxArgs,    \* MAXARGS
          Lines       \* what the typist may want: [cmd, flags, names, style, dash]

VARIABLE ed           \* the line being edited, and what it was parsed as
cmdVars == ed

Special == {"?", "[", "*"}
Quotes == {"'", "\""}
Space == " "

-----------------------------------------------------------------------------
\* The table of commands, one or more of each kind: the name, the kind, and what
\* its arguments are.
Cmd(c, n, t) == [c |-> c, n |-> n, t |-> t]
cmds == {Cmd(<<"g", "e", "t">>, "get", "REMOTE"), Cmd(<<"p", "u", "t">>, "put", "LOCAL"),
         Cmd(<<"r", "m">>, "rm", "REMOTE"), Cmd(<<"r", "m", "d", "i", "r">>, "rmdir", "REMOTE"),
         Cmd(<<"r", "e", "n">>, "rename", "REMOTE"), Cmd(<<"l", "n">>, "ln", "REMOTE"),
         Cmd(<<"s", "y", "m">>, "symlink", "REMOTE"), Cmd(<<"d", "f">>, "df", "REMOTE"),
         Cmd(<<"l", "s">>, "ls", "REMOTE"), Cmd(<<"c", "h", "m">>, "chmod", "REMOTE"),
         Cmd(<<"l", "l", "s">>, "lls", "LOCAL"), Cmd(<<"b", "y", "e">>, "quit", "NOARGS"),
         Cmd(<<"!">>, "shell", "NOARGS")}

-----------------------------------------------------------------------------
\* The words of a line, as the loop of makeargv builds them.  st.state is "start",
\* "unquoted" or the quote the scan is in; st.open says that a word is under way.
Scan0 == [i |-> 1, argv |-> <<>>, open |-> FALSE, state |-> "start", quote |-> "none",
          done |-> FALSE, ok |-> TRUE, terminated |-> TRUE]
Argc(st) == Len(st.argv) - (IF st.open THEN 1 ELSE 0)
OpenWord(st, state, quote) == [st EXCEPT !.argv = Append(@, <<>>), !.open = TRUE, !.state = state, !.quote = quote]
Opened(st) == IF st.state = "start" THEN OpenWord(st, "unquoted", "none") ELSE st
Emit(st, cs, n) == [st EXCEPT !.argv = [@ EXCEPT ![Len(@)] = @ \o cs], !.i = @ + n]
Advanced(st, n) == [st EXCEPT !.i = @ + n]
CloseWord(st) == IF st.state = "unquoted" THEN [st EXCEPT !.open = FALSE, !.state = "start"] ELSE st

ScanSpace(st) == IF st.state = "unquoted" THEN Advanced(CloseWord(st), 1)
                 ELSE IF st.state = "start" THEN Advanced(st, 1)
                 ELSE Emit(st, <<Space>>, 1)

ScanQuote(st, c) == IF st.state = "start" THEN Advanced(OpenWord(st, c, c), 1)
                    ELSE IF st.state = "unquoted" THEN Advanced([st EXCEPT !.state = c], 1)
                    ELSE IF st.state = c THEN Advanced([st EXCEPT !.state = "unquoted"], 1)
                    ELSE Emit(st, <<c>>, 1)

\* A backslash and the character d after it.
ScanEscape(st, d) ==
  IF st.state \in Quotes
  THEN IF d = st.state THEN Emit(st, <<d>>, 2)
       ELSE IF d \in Special THEN Emit(st, <<"\\", "\\", "\\", d>>, 2)
       ELSE Emit(st, <<"\\", d>>, 2)
  ELSE IF d \in Special \union {"\\"} THEN Emit(Opened(st), <<"\\", d>>, 2)
       ELSE Emit(Opened(st), <<d>>, 2)

ScanPlain(st, c) == IF st.state \in Quotes /\ c \in Special THEN Emit(st, <<"\\", c>>, 1)
                    ELSE Emit(Opened(st), <<c>>, 1)

ScanEnd(st, sloppy) ==
  IF st.state \in Quotes
  THEN IF sloppy THEN [CloseWord([st EXCEPT !.state = "unquoted"]) EXCEPT !.terminated = FALSE, !.done = TRUE]
       ELSE [st EXCEPT !.ok = FALSE, !.done = TRUE]
  ELSE [CloseWord(st) EXCEPT !.done = TRUE]

ScanStep(st, line, sloppy) ==
  IF Argc(st) > MaxArgs THEN [st EXCEPT !.ok = FALSE, !.done = TRUE]
  ELSE IF st.i > Len(line) THEN ScanEnd(st, sloppy)
  ELSE LET c == line[st.i] IN
       IF c = Space THEN ScanSpace(st)
       ELSE IF c \in Quotes THEN ScanQuote(st, c)
       ELSE IF c = "\\" THEN ScanEscape(st, line[st.i + 1])
       ELSE IF c = "#" /\ st.state \notin Quotes THEN [CloseWord(st) EXCEPT !.done = TRUE]
       ELSE ScanPlain(st, c)

makeargv(line, sloppy) ==
  LET scan[n \in Nat] == IF n = 0 THEN Scan0
                         ELSE LET st == scan[n - 1] IN IF st.done THEN st ELSE ScanStep(st, line, sloppy)
  IN scan[Len(line) + 1]

\* The text without the escapes that glob would undo.
undo_glob_escape(s) ==
  LET undo[n \in Nat] ==
        IF n = 0 THEN <<>>
        ELSE LET esc == n > 1 /\ s[n - 1] = "\\" /\ Cardinality({k \in 1..(n - 1) :
                              \A m \in k..(n - 1) : s[m] = "\\"}) % 2 = 1
             IN IF esc /\ s[n] \in Special \union {"\\"} THEN Front(undo[n - 1]) \o <<s[n]>>
                ELSE Append(undo[n - 1], s[n])
  IN undo[Len(s)]

-----------------------------------------------------------------------------
\* What glob makes of a pattern: each element a character, or a wildcard.
\* External: glob(3) with escapes.
Live(c) == [c |-> c, live |-> TRUE]
Char(c) == [c |-> c, live |-> FALSE]
Pattern(s) ==
  LET pat[n \in Nat] ==
        IF n = 0 THEN [esc |-> FALSE, out |-> <<>>]
        ELSE LET p == pat[n - 1] IN
             IF ~p.esc /\ s[n] = "\\" /\ n < Len(s) THEN [p EXCEPT !.esc = TRUE]
             ELSE [esc |-> FALSE,
                   out |-> Append(p.out, IF ~p.esc /\ s[n] \in {"?", "*"} THEN Live(s[n]) ELSE Char(s[n]))]
  IN pat[Len(s)].out
Literal(s) == LET p == Pattern(s) IN [k \in 1..Len(p) |-> p[k].c]
HasGlob(s) == LET p == Pattern(s) IN \E k \in 1..Len(p) : p[k].live

\* The pattern matches the name.  External: glob(3).
Matches(s, name) ==
  LET p == Pattern(s)
      m[i \in 0..Len(p), j \in 0..Len(name)] ==
        IF i = 0 THEN j = 0
        ELSE IF p[i].live /\ p[i].c = "*" THEN m[i - 1, j] \/ (j > 0 /\ m[i, j - 1])
        ELSE j > 0 /\ m[i - 1, j - 1] /\ (p[i].live \/ p[i].c = name[j])
  IN m[Len(p), Len(name)]

-----------------------------------------------------------------------------
\* The options of each command, and the index of the first word that is none
\* (0: a flag the command does not have).
Options(n) == CASE n \in {"get", "put"} -> {"a", "f", "P", "p", "R", "r"}
                [] n = "ln" -> {"s"}
                [] n = "rename" -> {"l"}
                [] n = "ls" -> {"1", "S", "a", "f", "h", "l", "n", "r", "t"}
                [] n = "df" -> {"h", "i"}
                [] OTHER -> {}
IsFlag(w) == Len(w) > 1 /\ w[1] = "-"
getopt(argv, allowed) ==
  LET first == CHOOSE k \in 2..(Len(argv) + 1) :
                 /\ k <= Len(argv) => ~IsFlag(argv[k])
                 /\ \A m \in 2..(k - 1) : IsFlag(argv[m])
  IN IF \E m \in 2..(first - 1) : \E x \in 2..Len(argv[m]) : argv[m][x] \notin allowed THEN 0 ELSE first

NoCommand == [cmd |-> "error", paths |-> <<>>, flags |-> {}, ignore |-> FALSE]
Numeric(w) == w # <<>> /\ \A k \in DOMAIN w : w[k] \in {"0", "7"}
FlagsOf(argv, first) == UNION {Range(Tail(argv[m])) : m \in 2..(first - 1)}

\* The paths of the command n in the words from first on, or <<"few">>.
Paths(n, argv, first) ==
  LET left == Len(argv) - first + 1
      word(k) == argv[first + k]
      bare(k) == undo_glob_escape(word(k))
  IN CASE n \in {"get", "put"} -> IF left < 1 THEN <<"few">>
                                  ELSE IF left > 1 THEN <<word(0), bare(1)>> ELSE <<word(0)>>
       [] n \in {"ln", "rename", "symlink"} -> IF left < 2 THEN <<"few">> ELSE <<bare(0), bare(1)>>
       [] n = "rm" -> IF left < 1 THEN <<"few">> ELSE <<word(0)>>
       [] n = "rmdir" -> IF left < 1 THEN <<"few">> ELSE <<bare(0)>>
       [] n = "df" -> IF left < 1 THEN <<>> ELSE <<bare(0)>>
       [] n = "ls" -> IF left < 1 THEN <<>> ELSE <<word(0)>>
       [] n = "chmod" -> IF left < 1 \/ ~Numeric(word(0)) \/ left < 2 THEN <<"few">> ELSE <<word(1)>>
       [] OTHER -> <<>>
\* The path k of the command n is given to glob.
Globbed(n, k) == n \in {"get", "put", "rm", "ls", "chmod"} /\ k = 1

parse_args(text) ==
  LET dash == text # <<>> /\ text[1] = "-"
      cp == IF dash THEN Tail(text) ELSE text
      st == makeargv(cp, FALSE)
      known == {c \in cmds : st.argv # <<>> /\ c.c = st.argv[1]}
      n == IF cp[1] = "!" THEN "shell" ELSE (CHOOSE c \in known : TRUE).n
      first == getopt(st.argv, Options(n))
  IN IF cp = <<>> \/ cp[1] = "#" THEN [NoCommand EXCEPT !.cmd = "none", !.ignore = dash]
     ELSE IF ~st.ok \/ (cp[1] # "!" /\ known = {}) THEN [NoCommand EXCEPT !.ignore = dash]
     ELSE IF n \in {"shell", "lls"}
          THEN [cmd |-> n, paths |-> <<IF n = "shell" THEN Tail(cp) ELSE SubSeq(cp, 4, Len(cp))>>,
                flags |-> {}, ignore |-> dash]
     ELSE IF first = 0 \/ Paths(n, st.argv, first) = <<"few">> THEN [NoCommand EXCEPT !.ignore = dash]
     ELSE [cmd |-> n, paths |-> Paths(n, st.argv, first), flags |-> FlagsOf(st.argv, first), ignore |-> dash]

-----------------------------------------------------------------------------
\* Completion.

make_absolute(p, pwd) == IF p # <<>> /\ p[1] = "/" THEN p ELSE pwd \o <<"/">> \o p
path_strip(path, strip) ==
  IF ~IsPrefix(strip, path) THEN path
  ELSE LET len == Len(strip)
           more == IF strip[len] # "/" /\ Len(path) > len /\ path[len + 1] = "/" THEN 1 ELSE 0
       IN SubSeq(path, len + more + 1, Len(path))

\* The characters common to the names of a nonempty set.
Stem(list) == LET l0 == CHOOSE l \in list : TRUE
              IN SubSeq(l0, 1, CHOOSE n \in 0..Len(l0) :
                    /\ \A l \in list : IsPrefix(SubSeq(l0, 1, n), l)
                    /\ \A k \in (n + 1)..Len(l0) : ~\A l \in list : IsPrefix(SubSeq(l0, 1, k), l))
complete_ambiguous(word, list) == IF Len(Stem(list)) > Len(word) THEN Stem(list) ELSE word

\* Mutant: the escapes in what was typed are taken for characters of the name.
CountEscapes_none(file) == 0
\* The escapes in a word, as the loop over file counts them.
CountEscapes(file) == Len(file) - Len(Pattern(file))

\* The text as it is inserted in the line, inside the quote or outside any.
Inserted(text, quote) ==
  FlattenSeq([k \in 1..Len(text) |->
     IF text[k] \in {"'", "\"", "\\", "[", " ", "#", "*"} /\ (quote = "none" \/ text[k] = quote)
     THEN <<"\\", text[k]>> ELSE <<text[k]>>])

\* The names the listing gives for a pattern: the ones of directories marked.  The
\* local directory has the same names, and its paths stay relative.
Place(n, remote) == IF remote THEN make_absolute(n, Pwd) ELSE n
Found(file, remote) == {Place(n, remote) \o (IF n \in Folders THEN <<"/">> ELSE <<>>) :
                          n \in {e \in Entries : Matches(Place(Append(file, "*"), remote), Place(e, remote))}}

complete_match(line, file, remote, st) ==
  LET found == Found(file, remote)
      stem == complete_ambiguous(file, found)
      word == IF file # <<>> /\ file[1] = "/" THEN stem ELSE path_strip(stem, Pwd)
      have == Len(file) - CountEscapes(file)
      longer == line \o (IF Len(word) > have THEN Inserted(SubSeq(word, have + 1, Len(word)), st.quote) ELSE <<>>)
      close == IF ~st.terminated /\ st.quote # "none" THEN <<st.quote>> ELSE <<>>
      blank == IF Last(longer) # "/" THEN <<Space>> ELSE <<>>
  IN IF found = {} \/ HasGlob(file) THEN line
     ELSE IF Cardinality(found) = 1 THEN longer \o close \o blank ELSE longer

complete_cmd_parse(line, cmd, st) ==
  LET list == {c.c : c \in {c \in cmds : IsPrefix(cmd, c.c)}}
      tmp == complete_ambiguous(cmd, list)
      longer == line \o SubSeq(tmp, Len(cmd) + 1, Len(tmp))
  IN IF list = {} THEN line
     ELSE IF Cardinality(list) > 1 THEN longer
     ELSE longer \o (IF st.terminated THEN <<>> ELSE <<st.quote>>) \o <<Space>>

complete_is_remote(cmd) == LET hit == {c \in cmds : IsPrefix(c.c, cmd)}
                           IN IF hit = {} THEN "none" ELSE (CHOOSE c \in hit : TRUE).t

\* The line after the tab key.
complete(line) ==
  LET st == makeargv(line, TRUE)
      carg == Len(st.argv)
      where == complete_is_remote(st.argv[1])
  IN IF carg = 0 THEN line
     ELSE IF carg = 1 /\ Last(line) # Space THEN complete_cmd_parse(line, st.argv[1], st)
     ELSE IF carg = 1 \/ Last(line) = Space \/ where = "NOARGS" THEN line
     ELSE complete_match(line, st.argv[carg], where # "LOCAL", st)

-----------------------------------------------------------------------------
\* The typist.  What sftp(1) says: a name with spaces is put in quotes, and what glob
\* knows is escaped with a backslash.  A quote, and a backslash in a quote, are
\* escaped too.  In the style "glob" the characters are meant for glob.
Typed(text, style) ==
  FlattenSeq([k \in 1..Len(text) |->
     IF \/ style = "plain" /\ text[k] \in Special \union Quotes \union {"\\", "#", Space}
        \/ style \in Quotes /\ text[k] \in {style, "\\"}
     THEN <<"\\", text[k]>> ELSE <<text[k]>>])
QuoteMark(style) == IF style \in Quotes THEN <<style>> ELSE <<>>

Words(l) == <<l.cmd>> \o l.names
Word == Words(ed.want)[ed.word]
Style == IF ed.word = 1 /\ ed.want.style = "glob" THEN "plain" ELSE ed.want.style
\* After the command come its flags.
Flags == IF ed.word = 1 THEN FlattenSeq([k \in 1..Len(ed.want.flags) |-> Append(ed.want.flags[k], Space)]) ELSE <<>>

CmdInit == \E l \in Lines :
             ed = [want |-> l, line |-> IF l.dash THEN <<"-">> ELSE <<>>, word |-> 1, typed |-> <<>>,
                   tabbed |-> FALSE, odd |-> FALSE, result |-> NoCommand, entered |-> FALSE]
Editing == ~ed.entered /\ ed.word <= Len(Words(ed.want))
WordDone(line) == [ed EXCEPT !.line = line \o Flags, !.word = @ + 1, !.typed = <<>>, !.tabbed = FALSE]

\* More of the word, up to its end or not.
TypeMore ==
  /\ Editing
  /\ \E k \in Len(ed.typed)..Len(Word) :
        LET open == IF ed.typed = <<>> /\ ~ed.tabbed THEN QuoteMark(Style) ELSE <<>>
            line == ed.line \o open \o Typed(SubSeq(Word, Len(ed.typed) + 1, k), Style)
        IN IF k = Len(Word) THEN ed' = WordDone(line \o QuoteMark(Style) \o <<Space>>)
           ELSE k > Len(ed.typed) /\ ed' = [ed EXCEPT !.line = line, !.typed = SubSeq(Word, 1, k)]

\* What the tab key should do: extend the word by what all the names that start with
\* it have in common.
Candidates == IF ed.word = 1 THEN {c.c : c \in cmds}
              ELSE {n \o (IF n \in Folders THEN <<"/">> ELSE <<>>) : n \in Entries}
Fitting == {n \in Candidates : IsPrefix(ed.typed, n)}
\* The completions that go wrong: a question mark is not escaped, a backslash in a
\* quote is not either, and a word with so many escapes that it is longer than what
\* all the names have in common is taken for the completion.
OddTab ==
  LET more == SubSeq(Stem(Fitting), Len(ed.typed) + 1, Len(Stem(Fitting)))
      st == makeargv(ed.line, TRUE)
      file == Last(st.argv)
      remote == complete_is_remote(st.argv[1]) # "LOCAL"
  IN \/ Style = "plain" /\ "?" \in Range(more)
     \/ Style \in Quotes /\ "\\" \in Range(more)
     \/ CountEscapes(file) > 0 /\ complete_ambiguous(file, Found(file, remote)) = file

Tab ==
  /\ Editing /\ ~ed.tabbed /\ ed.typed # <<>> /\ Last(ed.line) # Space
  /\ LET line == complete(ed.line)
         applies == IF ed.word = 1 THEN ~ed.want.dash ELSE complete_is_remote(ed.want.cmd) # "NOARGS"
         fit == IF applies /\ Style # "glob" THEN Fitting ELSE {}
         now == IF fit = {} THEN ed ELSE [ed EXCEPT !.odd = @ \/ (ed.word > 1 /\ OddTab)]
     IN IF Cardinality(fit) = 1
        THEN ed' = [WordDone(line \o (IF Last(line) = Space THEN <<>> ELSE <<Space>>)) EXCEPT !.odd = now.odd]
        ELSE ed' = [now EXCEPT !.line = line, !.tabbed = TRUE,
                               !.typed = IF fit = {} THEN @ ELSE Stem(fit)]

Enter == /\ ~ed.entered /\ ~Editing
         /\ ed' = [ed EXCEPT !.entered = TRUE, !.result = parse_args(ed.line)]

CmdNext == TypeMore \/ Tab \/ Enter

-----------------------------------------------------------------------------
\* The path p of a command is the name n: exactly it, or for a path given to glob, a
\* pattern that only it matches (unless the typist meant it for glob).
Means(p, n, globbed, style) ==
  IF globbed THEN Literal(p) \in {n, Append(n, "/")} /\ (HasGlob(p) <=> style = "glob" /\ Range(n) \cap {"*", "?"} # {})
  ELSE p \in {n, Append(n, "/")}

\* The command line does what its typist means: whatever mix of typing and tab (the
\* completions that OddTab lists excepted) entered the name of a file, escaped or in
\* either kind of quotes, the command is given exactly that name, whether it expands
\* wildcards or not, and a tab inserts exactly what the names have in common.
CommandsMeant ==
  /\ ed.entered /\ ~ed.odd /\ ed.result.cmd \notin {"error", "shell", "lls"} =>
       /\ Len(ed.result.paths) = Len(ed.want.paths)
       /\ \A k \in 1..Len(ed.result.paths) :
             Means(ed.result.paths[k], ed.want.names[ed.want.paths[k]], Globbed(ed.result.cmd, k), ed.want.style)
       /\ ed.result.flags = UNION {Range(Tail(f)) : f \in Range(ed.want.flags)}
  /\ ed.entered /\ ~ed.odd => (ed.result.cmd = "error" <=> ed.want.wrong)
  /\ Editing /\ ~ed.odd /\ ed.typed # <<>> /\ ~(ed.want.dash /\ ed.word = 1) =>
       Literal(Last(makeargv(ed.line, TRUE).argv)) = ed.typed
=============================================================================

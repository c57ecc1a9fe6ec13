------------------------------ MODULE Command ------------------------------
(***************************************************************************)
(* The command line of exec (internal/sshlayer/exec.go): SSH carries one   *)
(* string to the user's login shell, so each argument is quoted.  A string *)
(* is a sequence of characters, of which the quote, the backslash and the  *)
(* blank matter here.  What the shell makes of it is external, modelled as *)
(* far as POSIX quoting goes.                                              *)
(***************************************************************************)
EXTENDS SequencesExt, Integers

Quote == "'"
Backslash == "\\"
Space == " "

\* Mutant of QuoteArg: a quote is only escaped.
QuoteArgEscaped(s) ==
  FoldLeft(LAMBDA out, ch : out \o IF ch = Quote THEN <<Backslash, Quote>> ELSE <<ch>>,
           <<Quote>>, s) \o <<Quote>>

\* quoteArg: inside quotes, a quote ends them, is escaped, and opens them anew.
QuoteArg(s) ==
  FoldLeft(LAMBDA out, ch :
             out \o IF ch = Quote THEN <<Quote, Backslash, Quote, Quote>> ELSE <<ch>>,
           <<Quote>>, s) \o <<Quote>>

BuildCommand(cmd, args, cwd) ==
  LET quoted == FoldLeft(LAMBDA out, a : out \o <<Space>> \o QuoteArg(a),
                         QuoteArg(cmd), args)
  IN  IF cwd = <<>> THEN quoted
      ELSE <<"c", "d", Space>> \o QuoteArg(cwd) \o <<Space, "&", "&", Space>> \o quoted

-----------------------------------------------------------------------------
(***************************************************************************)
(* The shell: it reads character by character, and splits at blanks that   *)
(* are neither quoted nor escaped.  A word is its text, and whether all of *)
(* it was quoted or escaped, so that nothing in it means anything.         *)
(***************************************************************************)
NoWord == [text |-> <<>>, literal |-> TRUE, begun |-> FALSE]
Word(text, literal) == [text |-> text, literal |-> literal, begun |-> TRUE]

Grown(w, ch, literal) == Word(Append(w.text, ch), w.literal /\ literal)

\* The shell, between two characters.
Unquoted == "unquoted"
Quoted == "quoted"
Escaped == "escaped"
Shell(mode, word, words) == [mode |-> mode, word |-> word, words |-> words]

ShellStep(s, ch) ==
  CASE s.mode = Quoted /\ ch = Quote -> Shell(Unquoted, s.word, s.words)
    [] s.mode = Quoted /\ ch # Quote -> Shell(Quoted, Grown(s.word, ch, TRUE), s.words)
    [] s.mode = Escaped -> Shell(Unquoted, Grown(s.word, ch, TRUE), s.words)
    [] s.mode = Unquoted /\ ch = Quote ->
         Shell(Quoted, Word(s.word.text, s.word.literal), s.words)
    [] s.mode = Unquoted /\ ch = Backslash -> Shell(Escaped, s.word, s.words)
    [] s.mode = Unquoted /\ ch = Space ->
         Shell(Unquoted, NoWord, IF s.word.begun THEN Append(s.words, s.word) ELSE s.words)
    [] OTHER -> Shell(Unquoted, Grown(s.word, ch, FALSE), s.words)

\* The words of a line, and none at all if a quote is left open.
ShellWords(line) ==
  LET end == FoldLeft(ShellStep, Shell(Unquoted, NoWord, <<>>), Append(line, Space))
  IN  IF end.mode = Unquoted THEN end.words ELSE <<>>
=============================================================================

------------------------------ MODULE SqlLexer ------------------------------
(***************************************************************************)
(* The four hand-written lexers of src/lib/misc/parse.js.  They walk over  *)
(* a text character by character and keep a state: outside everything, in  *)
(* a string, in an identifier between backticks, in a comment.  They share *)
(* one automaton and differ in three details, the fields of a dialect:     *)
(*   slashes: two slashes start a comment;                                 *)
(*   anyDash: two dashes start a comment whatever follows them (otherwise  *)
(*            a blank, or the end of the text, must follow);               *)
(*   forgets: the slash that ends a comment cannot start another one.      *)
(* A character is a string of length one, except "dquote", "backtick",     *)
(* "backslash" and "newline"; "" stands for none.                          *)
(***************************************************************************)
EXTENDS Integers, Sequences, SequencesExt

Strings == {"'", "dquote"}
Quotes == Strings \cup {"backtick"}
Blanks == {"", " ", "newline"}

Dialect(slashes, anyDash, forgets) == [slashes |-> slashes, anyDash |-> anyDash, forgets |-> forgets]

\* State: the mode, a quote standing for what it opens, whether a backslash
\* came just before, and the previous character.
Outside == [mode |-> "normal", escaped |-> FALSE, last |-> ""]

\* The mode a character leads to from outside everything.
Opens(lex, c, next, dialect) ==
  CASE c \in Quotes -> c
    [] c = "*" /\ lex.last = "/" -> "comment"
    [] \/ c = "#"
       \/ c = "/" /\ lex.last = "/" /\ dialect.slashes
       \/ c = "-" /\ lex.last = "-" /\ (dialect.anyDash \/ next \in Blanks) -> "line"
    [] OTHER -> "normal"

Closes(lex, c) ==
  \/ lex.mode \in Quotes /\ c = lex.mode
  \/ lex.mode = "comment" /\ c = "/" /\ lex.last = "*"
  \/ lex.mode = "line" /\ c = "newline"

\* One turn of the loop: after a backslash every character is taken as it
\* is, the closing quote included.
Lex(lex, c, next, dialect) ==
  LET closes == ~lex.escaped /\ Closes(lex, c)
  IN [mode |-> IF closes THEN "normal"
               ELSE IF lex.mode = "normal" THEN Opens(lex, c, next, dialect)
               ELSE lex.mode,
      escaped |-> ~lex.escaped /\ c = "backslash" /\ lex.mode \in Strings,
      last |-> IF closes /\ lex.mode = "comment" /\ dialect.forgets THEN "" ELSE c]

----------------------------------------------------------------------------
(* parseQueries: the statements of a buffer that end with a semicolon, and *)
(* where the rest starts.                                                  *)

ScriptDialect == Dialect(TRUE, TRUE, FALSE)

ParseStep(held, scan, i) ==
  LET c == held[i]
      ends == c = ";" /\ scan.lex.mode = "normal"
  IN [lex |-> Lex(scan.lex, c, "", ScriptDialect),
      queries |-> IF ends THEN Append(scan.queries, SubSeq(held, scan.offset + 1, i - 1)) ELSE scan.queries,
      offset |-> IF ends THEN i ELSE scan.offset]

\* held: the bytes of the buffer up to its end; offset: how many are done with.
ParseQueries(held, offset) ==
  FoldLeft(LAMBDA scan, i : ParseStep(held, scan, i),
           [lex |-> Outside, queries |-> <<>>, offset |-> offset],
           [k \in 1..(Len(held) - offset) |-> offset + k])

=============================================================================

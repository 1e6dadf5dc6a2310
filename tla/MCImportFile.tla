---------------------------- MODULE MCImportFile ----------------------------
(***************************************************************************)
(* Files and situations for ImportFile.                                    *)
(***************************************************************************)
EXTENDS ImportFile

Script(statements, ended) == [statements |-> statements, ended |-> ended]

\* A semicolon and an escaped quote in a string; a semicolon and a quote in a
\* comment; semicolons behind two dashes, in an identifier, in a string; a
\* statement longer than the buffer.
Shapes == {
  Script(<<<<"'", "backslash", "'", ";", "'">>, <<"b">>>>, TRUE),
  Script(<<<<"/", "*", ";", "'", "*", "/", "a">>, <<"b">>>>, TRUE),
  Script(<<<<"a", "-", "-", ";", "newline">>, <<"backtick", ";", "backtick", "dquote", ";", "dquote">>>>, TRUE),
  Script(<<<<"a">>, <<"b", "b", "b", "b", "b", "b">>, <<"c">>>>, TRUE) }

Plain == Script(<<<<"a">>, <<"b">>, <<"c">>>>, FALSE)

Situation(contents, skip, wanted, first, imports, safe) ==
  [script |-> contents, pipelining |-> TRUE, skip |-> skip, early |-> FALSE, wanted |-> wanted, first |-> first,
   imports |-> imports, safe |-> safe]

MCCases ==
  {Situation(s, FALSE, "d2", "d1", 1, FALSE) : s \in Shapes \cup {Plain}} \cup {
  Situation(Plain, FALSE, "d2", "d1", 2, FALSE),
  Situation(Plain, FALSE, "none", "d1", 2, TRUE),
  Situation(Script(<<>>, TRUE), FALSE, "none", "d1", 2, TRUE),
  Situation(Plain, FALSE, "none", "none", 2, TRUE),
  [Situation(Plain, FALSE, "none", "d1", 1, FALSE) EXCEPT !.pipelining = FALSE],
  [Situation(Plain, FALSE, "d2", "d1", 2, TRUE) EXCEPT !.early = TRUE],
  [Situation(Plain, FALSE, "none", "d1", 2, TRUE) EXCEPT !.early = TRUE],
  Situation(Plain, FALSE, "d2", "none", 1, FALSE),
  Situation(Plain, TRUE, "d1", "d1", 1, FALSE),
  Situation(Plain, TRUE, "none", "none", 1, FALSE) }

=============================================================================

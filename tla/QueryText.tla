----------------------------- MODULE QueryText -----------------------------
(***************************************************************************)
(* The text of a COM_QUERY: where lib/misc/parse.js finds the placeholders *)
(* of the client's text, and how lib/cmd/query.js puts the values in their *)
(* place, those of a stream as they come.                                  *)
(*                                                                         *)
(* The text grows by fragments, so that every way to put them next to each *)
(* other is tried; Tokens is how the server reads a text, written without  *)
(* the driver's automaton.  Positions count from 1.                        *)
(***************************************************************************)
EXTENDS SqlLexer, FiniteSets

CONSTANTS
  Fragments,    (* sequences of characters                                 *)
  Letters,      (* the characters a name is made of                        *)
  Calls         (* named: namedPlaceholders; keys, values: the values in   *)
                (* their order, and their names; timeout: "none", "sent" or *)
                (* "unsupported"; longest: a bound, in fragments           *)

VARIABLES
  call, text, typed,
  stage,        \* "typing", "writing", "streaming", "sent", "refused"
  params,       \* paramPositions with the values
  valueIdx, sqlPos, out,
  chunk         \* of the stream being written

vars == <<call, text, typed, stage, params, valueIdx, sqlPos, out, chunk>>

----------------------------------------------------------------------------
(* parse.js.                                                               *)

QueryDialect == Dialect(FALSE, FALSE, TRUE)
NamedDialect == Dialect(TRUE, FALSE, TRUE)

NextOf(t, i) == IF i < Len(t) THEN t[i + 1] ELSE ""

\* variant: a question mark counts in a comment
QuestionStepInComment(t, scan, i) ==
  CASE scan.skip > 0 -> [scan EXCEPT !.skip = @ - 1]
    [] scan.skip = 0 /\ t[i] = "?" /\ scan.lex.mode \in {"normal", "comment"} ->
         [lex |-> [scan.lex EXCEPT !.last = "?"], skip |-> 1, found |-> Append(scan.found, i)]
    [] OTHER -> [scan EXCEPT !.lex = Lex(@, t[i], NextOf(t, i), QueryDialect)]

\* The loop jumps over the character after a question mark.
QuestionStep(t, scan, i) ==
  CASE scan.skip > 0 -> [scan EXCEPT !.skip = @ - 1]
    [] scan.skip = 0 /\ t[i] = "?" /\ scan.lex.mode = "normal" ->
         [lex |-> [scan.lex EXCEPT !.last = "?"], skip |-> 1, found |-> Append(scan.found, i)]
    [] OTHER -> [scan EXCEPT !.lex = Lex(@, t[i], NextOf(t, i), QueryDialect)]

SplitQuery(t) ==
  FoldLeft(LAMBDA scan, i : QuestionStep(t, scan, i),
           [lex |-> Outside, skip |-> 0, found |-> <<>>], [i \in DOMAIN t |-> i]).found

\* The name after a colon.
NameAt(t, i) ==
  LET ends == {j \in i..Len(t) : \A k \in (i + 1)..j : t[k] \in Letters}
  IN SubSeq(t, i + 1, i + Cardinality(ends) - 1)

\* A question mark takes the first value that is left, a name its own, used
\* or not. The character after a name is jumped over as well.
NamedStep(t, scan, i) ==
  LET name == NameAt(t, i)
  IN CASE scan.skip > 0 -> [scan EXCEPT !.skip = @ - 1]
       [] scan.skip = 0 /\ t[i] = "?" /\ scan.lex.mode = "normal" ->
            [lex |-> [scan.lex EXCEPT !.last = "?"], skip |-> 1,
             found |-> Append(scan.found, [at |-> i, until |-> i,
                        name |-> IF scan.left = <<>> THEN <<>> ELSE Head(scan.left)]),
             left |-> IF scan.left = <<>> THEN <<>> ELSE Tail(scan.left)]
       [] scan.skip = 0 /\ t[i] = ":" /\ scan.lex.mode = "normal" ->
            [lex |-> [scan.lex EXCEPT !.last = ":"], skip |-> Len(name) + 1,
             found |-> Append(scan.found, [at |-> i, until |-> i + Len(name), name |-> name]),
             left |-> SelectSeq(scan.left, LAMBDA k : k # name)]
       [] OTHER -> [scan EXCEPT !.lex = Lex(@, t[i], NextOf(t, i), NamedDialect)]

SplitQueryPlaceholder(t, keys) ==
  FoldLeft(LAMBDA scan, i : NamedStep(t, scan, i),
           [lex |-> Outside, skip |-> 0, found |-> <<>>, left |-> keys], [i \in DOMAIN t |-> i]).found

\* For a prepared statement: each name becomes a question mark. The
\* character after a name is looked at, with itself as the one before.
SearchStep(t, scan, i) ==
  LET name == NameAt(t, i)
  IN CASE scan.skip > 0 -> [scan EXCEPT !.skip = @ - 1]
       [] scan.skip = 0 /\ t[i] = ":" /\ scan.lex.mode = "normal" ->
            [lex |-> [scan.lex EXCEPT !.last = NextOf(t, i + Len(name))], skip |-> Len(name),
             names |-> Append(scan.names, name), sql |-> Append(scan.sql, "?")]
       [] OTHER -> [scan EXCEPT !.lex = Lex(@, t[i], NextOf(t, i), QueryDialect), !.sql = Append(@, t[i])]

SearchPlaceholder(t) ==
  FoldLeft(LAMBDA scan, i : SearchStep(t, scan, i),
           [lex |-> Outside, skip |-> 0, names |-> <<>>, sql |-> <<>>], [i \in DOMAIN t |-> i])

----------------------------------------------------------------------------
(* query.js.                                                               *)

Escaped(chars) ==
  FlattenSeq([i \in DOMAIN chars |->
    IF chars[i] \in {"'", "dquote", "backslash", "zero"} THEN <<"backslash", chars[i]>> ELSE <<chars[i]>>])

Quoted(chars) == <<"'">> \o Escaped(chars) \o <<"'">>

\* What is written for a value that is not a stream (arrays with the option
\* arrayParenthesis).
Literal(v) ==
  CASE v.kind = "null" -> <<"N">>
    [] v.kind = "number" -> <<"1">>
    [] v.kind = "string" -> Quoted(v.text)
    [] OTHER -> <<"(">> \o FlattenSeq([k \in DOMAIN v.items |->
                  (IF k = 1 THEN <<>> ELSE <<",">>) \o Quoted(v.items[k])]) \o <<")">>

KeyOf(name) == {k \in DOMAIN call.keys : call.keys[k] = name}
Null == [kind |-> "null"]

\* The placeholders with their values, as start() gets them.
Positional == LET at == SplitQuery(text)
              IN [k \in DOMAIN at |-> [at |-> at[k], until |-> at[k],
                   value |-> IF k <= Len(call.values) THEN call.values[k] ELSE Null]]
Named == LET found == SplitQueryPlaceholder(text, call.keys)
         IN [k \in DOMAIN found |-> [at |-> found[k].at, until |-> found[k].until,
              value |-> IF KeyOf(found[k].name) = {} THEN Null
                        ELSE call.values[CHOOSE n \in KeyOf(found[k].name) : TRUE]]]
Undefined ==
  \E k \in DOMAIN SplitQueryPlaceholder(text, call.keys) :
    LET p == SplitQueryPlaceholder(text, call.keys)[k]
    IN text[p.at] = ":" /\ KeyOf(p.name) = {}

Init ==
  /\ call \in Calls
  /\ text = <<>> /\ typed = 0
  /\ stage = "typing"
  /\ params = <<>> /\ valueIdx = 1 /\ sqlPos = 0 /\ out = <<>> /\ chunk = 0

Refused ==
  \/ call.named /\ Undefined
  \/ ~call.named /\ Len(SplitQuery(text)) > Len(call.values)
  \/ call.timeout = "unsupported"

Start ==
  /\ stage = "typing"
  /\ IF Refused THEN stage' = "refused" /\ UNCHANGED <<params, out>>
     ELSE
       /\ stage' = "writing"
       /\ params' = IF call.named THEN Named ELSE Positional
       /\ out' = IF call.timeout = "sent" THEN <<"T", " ">> ELSE <<>>
  /\ UNCHANGED <<call, text, typed, valueIdx, sqlPos, chunk>>

\* Up to the next placeholder, and its value: or the quote that opens a stream.
WriteParam ==
  /\ stage = "writing" /\ valueIdx <= Len(params)
  /\ LET p == params[valueIdx]
         upTo == out \o SubSeq(text, sqlPos + 1, p.at - 1)
     IN IF p.value.kind = "stream" THEN out' = Append(upTo, "'") /\ stage' = "streaming"
        ELSE out' = upTo \o Literal(p.value) /\ UNCHANGED stage
  /\ sqlPos' = params[valueIdx].until
  /\ valueIdx' = valueIdx + 1
  /\ UNCHANGED <<call, text, typed, params, chunk>>

Chunks == params[valueIdx - 1].value.chunks

\* variant: the chunk is written as it came
StreamDataRaw ==
  /\ stage = "streaming" /\ chunk < Len(Chunks)
  /\ out' = out \o Chunks[chunk + 1]
  /\ chunk' = chunk + 1
  /\ UNCHANGED <<call, text, typed, stage, params, valueIdx, sqlPos>>

StreamData ==
  /\ stage = "streaming" /\ chunk < Len(Chunks)
  /\ out' = out \o Escaped(Chunks[chunk + 1])
  /\ chunk' = chunk + 1
  /\ UNCHANGED <<call, text, typed, stage, params, valueIdx, sqlPos>>

StreamEnd ==
  /\ stage = "streaming" /\ chunk = Len(Chunks)
  /\ out' = Append(out, "'")
  /\ chunk' = 0
  /\ stage' = "writing"
  /\ UNCHANGED <<call, text, typed, params, valueIdx, sqlPos>>

Flush ==
  /\ stage = "writing" /\ valueIdx > Len(params)
  /\ out' = out \o SubSeq(text, sqlPos + 1, Len(text))
  /\ stage' = "sent"
  /\ UNCHANGED <<call, text, typed, params, valueIdx, sqlPos, chunk>>

----------------------------------------------------------------------------
(* The client's text, and how the server reads one.                        *)

Type(f) ==
  /\ stage = "typing" /\ typed < call.longest
  /\ text' = text \o f /\ typed' = typed + 1
  /\ UNCHANGED <<call, stage, params, valueIdx, sqlPos, out, chunk>>

\* Where the token that starts at i ends.
FirstOf(S, otherwise) == IF S = {} THEN otherwise ELSE CHOOSE j \in S : \A k \in S : j <= k
StringEnd(t, i) ==
  LET end[j \in 1..(Len(t) + 2)] ==
        CASE j > Len(t) -> Len(t)
          [] j <= Len(t) /\ t[j] = "backslash" /\ t[i] \in Strings -> end[j + 2]
          [] j <= Len(t) /\ t[j] = t[i] -> IF NextOf(t, j) = t[i] THEN end[j + 2] ELSE j
          [] OTHER -> end[j + 1]
  IN end[i + 1]
TokenEnd(t, i) ==
  CASE t[i] \in Quotes -> StringEnd(t, i)
    [] t[i] = "/" /\ NextOf(t, i) = "*" ->
         FirstOf({j \in (i + 3)..Len(t) : t[j - 1] = "*" /\ t[j] = "/"}, Len(t))
    [] t[i] = "#" \/ (t[i] = "-" /\ NextOf(t, i) = "-" /\ (i + 1 = Len(t) \/ t[i + 2] \in Blanks)) ->
         FirstOf({j \in i..Len(t) : t[j] = "newline"}, Len(t))
    [] t[i] = ":" /\ call.named -> i + Len(NameAt(t, i))
    [] OTHER -> i

\* Strings are compared by what they say.
Unescaped(chars) ==
  LET said[j \in 1..(Len(chars) + 2)] ==
        CASE j > Len(chars) -> <<>>
          [] j <= Len(chars) /\ chars[j] = "backslash" -> <<chars[j + 1]>> \o said[j + 2]
          [] OTHER -> <<chars[j]>> \o said[j + 1]
  IN said[1]
Token(t, i, e) ==
  IF t[i] \in Strings /\ e > i /\ t[e] = t[i]
  THEN [starts |-> t[i], says |-> Unescaped(SubSeq(t, i + 1, e - 1))]
  ELSE [starts |-> t[i], says |-> SubSeq(t, i, e)]
Spans(t) ==
  LET from[i \in 1..(Len(t) + 1)] ==
        IF i > Len(t) THEN <<>> ELSE <<[first |-> i, last |-> TokenEnd(t, i)]>> \o from[TokenEnd(t, i) + 1]
  IN from[1]
Tokens(t) == LET spans == Spans(t) IN [k \in DOMAIN spans |-> Token(t, spans[k].first, spans[k].last)]

Next ==
  \/ \E f \in Fragments : Type(f)
  \/ Start \/ WriteParam \/ StreamData \/ StreamEnd \/ Flush

Spec == Init /\ [][Next]_vars

----------------------------------------------------------------------------
(* Properties.                                                             *)

Placeholder(token) == token.starts = "?" \/ (token.starts = ":" /\ call.named)
Meant == SelectSeq(Tokens(text), Placeholder)

\* Where the driver reads a text as the server does not: a string, a comment,
\* an identifier or a placeholder begins right behind a placeholder, whose
\* loop jumps over its first character; a comment begins with slash, star,
\* slash; two slashes, which splitQueryPlaceholder takes for a comment.
Jumped(token) == token.starts \in Quotes \cup {"#", "?", ":"} \/ (token.starts \in {"/", "-"} /\ Len(token.says) > 1)
Misread(given) ==
  \/ \E k \in 2..Len(given) : Placeholder(given[k - 1]) /\ Jumped(given[k])
  \/ \E k \in DOMAIN given : IsPrefix(<<"/", "*", "/">>, given[k].says)
  \/ call.named /\ \E k \in 2..Len(given) : given[k - 1].says = <<"/">> /\ given[k].starts = "/"

\* The placeholders found are those the server would see: not the ones in a
\* string, an identifier or a comment (splitQuery, splitQueryPlaceholder),
\* in every text but those that Misread names: what begins right behind a
\* placeholder is not seen. What searchPlaceholder makes of a text with names
\* has its question marks where splitQuery looks for them.
PlaceholdersFound ==
  LET given == Tokens(text)
      meant == SelectSeq(given, Placeholder)
      named == SelectSeq(meant, LAMBDA token : token.starts = ":")
      searched == SearchPlaceholder(text)
  IN ~Misread(given) =>
       IF ~call.named THEN Len(SplitQuery(text)) = Len(meant)
       ELSE /\ Len(SplitQueryPlaceholder(text, call.keys)) = Len(meant)
            /\ Len(searched.names) = Len(named)
            /\ \A k \in DOMAIN named : searched.names[k] = Tail(named[k].says)
            /\ Len(SplitQuery(searched.sql)) = Len(meant)

\* What a placeholder stands for, read off the text.
Value(k) ==
  LET name == Tail(Meant[k].says)
  IN CASE Meant[k].starts = "?" /\ ~call.named -> call.values[k]
       [] Meant[k].starts = ":" -> call.values[CHOOSE n \in KeyOf(name) : TRUE]
       [] OTHER -> params[k].value  \* a question mark among names

\* A placeholder right behind a string, which its value would prolong.
Prolongs(given) == \E k \in 2..Len(given) : given[k - 1].starts \in Strings /\ Placeholder(given[k])

\* What the server reads is the client's text with every placeholder
\* replaced by its value, in one piece, whether the values were written at
\* once or as streams gave them (start and _paramWritten share paramPos,
\* sqlPos and valueIdx). Not of the texts that Misread and Prolongs name.
ReadAsMeant ==
  stage = "sent" /\ ~Misread(Tokens(text)) /\ ~Prolongs(Tokens(text)) =>
    LET given == Tokens(text)
        nth(i) == Len(SelectSeq(SubSeq(given, 1, i), Placeholder))
        written(v) == CASE v.kind = "stream" -> <<[starts |-> "'", says |-> FlattenSeq(v.chunks)]>>
                        [] v.kind = "string" -> <<[starts |-> "'", says |-> v.text]>>
                        [] OTHER -> Tokens(Literal(v))
    IN Tokens(out) =
         (IF call.timeout = "sent" THEN Tokens(<<"T", " ">>) ELSE <<>>)
         \o FlattenSeq([i \in DOMAIN given |->
              IF Placeholder(given[i]) THEN written(Value(nth(i))) ELSE <<given[i]>>])

=============================================================================

------------------------------ MODULE MCBytes ------------------------------
(***************************************************************************)
(* The sequential parts for TLC: CompressionInput, CompressionOutput and   *)
(* QueryText.  They share nothing: a behaviour is of one of them, which is *)
(* all there is to say of them with fewer states than of all at once.      *)
(*                                                                         *)
(* Reading, bytes have two values, so that a full frame has seven bytes.   *)
(* The packets are a small one, one a byte short of a full frame, a full   *)
(* one, and one of two full frames.  Writing, a block has 16 bytes, and    *)
(* the frames are on both sides of every size: of the smallest buffer and  *)
(* of what is not deflated (5 bytes behind the header), of the levels (8   *)
(* and 12), and of a block.                                                *)
(*                                                                         *)
(* The fragments of a text also make two dashes that start no comment,     *)
(* slash-star-slash, and what is left of a comment.                        *)
(***************************************************************************)
EXTENDS CompressionInput, CompressionOutput

CONSTANTS Fragments, Letters, Calls

VARIABLES
  side,        \* "reads", "writes", "texts"
  call, text, typed, stage, params, valueIdx, sqlPos, out, textChunk

Query == INSTANCE QueryText WITH chunk <- textChunk

queryVars == <<call, text, typed, stage, params, valueIdx, sqlPos, out, textChunk>>
allVars == <<vars, outputVars, queryVars, side>>

MCLevels == <<15, 19>>

MCFragments == {
  <<"?">>, <<":", "a">>, <<":", "b">>, <<" ">>, <<"a">>, <<"-">>, <<"/">>, <<"newline">>,
  <<"'", "backslash", "'", "?", "backslash", "backslash", "'">>, <<"dquote", "'", ":", "a", "dquote">>,
  <<"backtick", "?", "'", "backtick">>,
  <<"/", "*", "'", "?", "*", "/">>, <<"*", "/">>, <<"-", "-", " ", "?">>, <<"#", ":", "a", "'">> }

MCText(chars) == [kind |-> "string", text |-> chars]
MCStream(chunks) == [kind |-> "stream", chunks |-> chunks]

MCCalls == {
  [named |-> FALSE, keys |-> <<>>,
   values |-> <<MCStream(<<<<"'">>, <<"backslash", "zero">>>>), MCText(<<"a", "'">>)>>, timeout |-> "none", longest |-> 4],
  [named |-> FALSE, keys |-> <<>>, timeout |-> "sent", longest |-> 3,
   values |-> <<[kind |-> "array", items |-> <<<<"a">>, <<"'">>>>], MCStream(<<>>), MCStream(<<<<"a">>>>)>>],
  [named |-> TRUE, keys |-> <<<<"a">>, <<"b">>>>,
   values |-> <<MCText(<<"backslash">>), MCStream(<<<<"'">>>>)>>, timeout |-> "none", longest |-> 4],
  [named |-> TRUE, keys |-> <<<<"b">>>>, values |-> <<[kind |-> "number"]>>, timeout |-> "unsupported", longest |-> 2] }

\* Where it does not read, it would read the same answer in one chunk.
AllInit ==
  /\ side \in {"reads", "writes", "texts"} /\ OutputInit /\ Init /\ Query!Init
  /\ side # "reads" => packets = <<1>> /\ ~compress
  /\ side # "texts" => call = CHOOSE c \in Calls : TRUE

AllNext ==
  \/ side = "reads" /\ Next /\ UNCHANGED <<outputVars, queryVars, side>>
  \/ side = "writes" /\ OutputNext /\ UNCHANGED <<vars, queryVars, side>>
  \/ side = "texts" /\ Query!Next /\ UNCHANGED <<vars, outputVars, side>>

AllSpec == AllInit /\ [][AllNext]_allVars

\* The placeholders that splitQuery, splitQueryPlaceholder and
\* searchPlaceholder find are those the server would see (QueryText).
PlaceholdersFound == Query!PlaceholdersFound

\* The server reads the client's text with every placeholder replaced by its
\* value (QueryText).
ReadAsMeant == Query!ReadAsMeant

=============================================================================

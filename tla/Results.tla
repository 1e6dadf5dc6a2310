------------------------------- MODULE Results -------------------------------
(***************************************************************************)
(* How a query or an execute reads its answer: the onPacketReceive         *)
(* functions of lib/cmd/parser.js, and what is peculiar to a command whose *)
(* rows are streamed (lib/cmd/stream.js, lib/cmd/execute-stream.js).       *)
(*                                                                         *)
(* The answer is a sequence of results, each an OK packet or a set of rows *)
(* behind its columns, or ends with an error; for a LOAD DATA LOCAL, first *)
(* or behind other statements, the server has the client send a file       *)
(* before it goes on.  server is what the server does next, and a step is  *)
(* a packet handled by the client as soon as it is sent: what is under way *)
(* in the socket makes no difference to one command.  A packet is known by *)
(* its first byte, and by being long or not.                               *)
(***************************************************************************)
EXTENDS Integers, Sequences, SequencesExt

CONSTANTS
  MaxResults,   (* of an answer                                            *)
  MaxRows,      (* of a set                                                *)
  HighWater,    (* rows a stream buffers before the socket is paused       *)
  Options       (* the records of options to consider                      *)

ASSUME ResultsAssumption ==
  /\ MaxResults \in Nat \ {0} /\ MaxRows \in Nat /\ HighWater \in Nat \ {0}
  /\ Options \subseteq [metaAsArray : BOOLEAN, stream : BOOLEAN, binary : BOOLEAN,
                        eofDeprecated : BOOLEAN, permitLocalInfile : BOOLEAN]

Columns == 2     \* of every set
NoColumns == 0

VARIABLES
  opts,
  \* The server.
  server,         \* "respond", "column", "eof", "row", "file", "loaded", "over"
  left,           \* columns it has still to send
  outParameters,  \* the set it sends holds the OUT parameters of a procedure
  known,          \* the client's statement has the columns of the last execution
  sent,           \* the results it has sent
  failed,         \* it has ended with an error
  asked,          \* how many files it has asked for
  \* The command.
  handler,        \* onPacketReceive: what it reads next, "none" when the command is over
  responseIndex, rows, meta,
  columns,        \* how many it knows of the set being read
  isOutParameter,
  promise, value, \* "pending", "resolved" with value, "rejected"
  ends,           \* how often 'end' was emitted
  moreResults,    \* of info.status
  complaint,      \* an error that is not the server's has rejected the command
  trouble,        \* "redirect", "charset": an OK packet said so; "thrown": uncaught
  redirecting,    \* what info.redirect() will call: "ok", "lost", "set", "no"
  \* LOCAL INFILE.
  file,           \* "none", "reading", "done"
  empties,        \* empty packets written
  \* Streaming.
  pushed,         \* what was pushed to the stream
  consumed,       \* how much of it was read
  closed,         \* the client has closed the stream
  paused, more    \* the socket is; there are packets left in its last chunk

serverVars == <<server, left, outParameters, known, sent, failed, asked>>
promiseVars == <<promise, value, ends>>
parserVars == <<handler, responseIndex, rows, meta, columns, isOutParameter>>
redirectVars == <<trouble, redirecting>>
fileVars == <<file, empties>>
streamVars == <<pushed, consumed, closed, paused>>
vars == <<opts, serverVars, parserVars, promiseVars, moreResults, complaint, redirectVars,
          fileVars, streamVars, more>>

Ok == [kind |-> "ok", rows |-> <<>>]
Undefined == [kind |-> "undefined", rows |-> <<>>]
Set(r) == [kind |-> "set", rows |-> r]

Init ==
  /\ opts \in Options
  /\ server = "respond" /\ left = 0 /\ outParameters = FALSE
  /\ known \in BOOLEAN /\ (known => opts.binary)
  /\ sent = <<>> /\ failed = FALSE /\ asked = 0
  /\ handler = "respond" /\ responseIndex = 0 /\ rows = <<>> /\ meta = <<>>
  /\ columns = NoColumns /\ isOutParameter = FALSE
  /\ promise = "pending" /\ value = <<>> /\ ends = 0
  /\ moreResults = FALSE /\ complaint = FALSE
  /\ trouble = "none" /\ redirecting = "no"
  /\ file = "none" /\ empties = 0
  /\ pushed = <<>> /\ consumed = 0 /\ closed = FALSE /\ paused = FALSE /\ more = FALSE

(***************************************************************************)
(* The packets the server may send.  says: a session variable of an OK     *)
(* packet, an insert id beyond the safe integers, a redirection asked for  *)
(* before.  out: the set that follows holds OUT parameters, whose last EOF *)
(* does not say that an OK packet follows.  skips: no columns follow.      *)
(***************************************************************************)
NoPacket == [first |-> "none", long |-> FALSE, more |-> FALSE, out |-> FALSE, says |-> "nothing", skips |-> FALSE]
MayContinue == IF Len(sent) < MaxResults THEN BOOLEAN ELSE {FALSE}
\* A server that redirects is recent, and sends no EOF packets.
Redirects == IF opts.eofDeprecated THEN {"later"} ELSE {}
OkSays == {"nothing", "charset", "insertId"} \cup Redirects \cup IF opts.eofDeprecated THEN {"redirect"} ELSE {}
OkPackets(mores) == {[NoPacket EXCEPT !.first = "00", !.more = x[1], !.says = x[2]] : x \in mores \X OkSays}
ErrPacket == [NoPacket EXCEPT !.first = "ff"]
InfilePacket == [NoPacket EXCEPT !.first = "fb"]
SetPackets == {[NoPacket EXCEPT !.first = "count", !.skips = k] : k \in IF known THEN BOOLEAN ELSE {FALSE}}
ColumnPacket == [NoPacket EXCEPT !.first = "column"]
EofPackets == {[NoPacket EXCEPT !.first = "fe", !.out = o] :
                 o \in IF opts.binary /\ Len(sent) < MaxResults THEN BOOLEAN ELSE {FALSE}}
\* A row begins with 0x00 in the binary protocol; in the text protocol with 0xfe
\* when its first value is a string of 16 MB and with 0xfb when it is NULL.
RowPackets == IF opts.binary THEN {[NoPacket EXCEPT !.first = "00"]}
              ELSE {[NoPacket EXCEPT !.first = f, !.long = (f = "fe")] : f \in {"fb", "fe", "other"}}
EndPackets == {[NoPacket EXCEPT !.first = "fe", !.more = x[1], !.says = x[2]] :
                 x \in (IF outParameters THEN {FALSE} ELSE MayContinue) \X ({"nothing"} \cup Redirects)}

Sends ==
  CASE server = "respond" ->
         IF outParameters THEN OkPackets({FALSE})
         ELSE OkPackets(IF Len(sent) + 1 < MaxResults THEN BOOLEAN ELSE {FALSE}) \cup {ErrPacket} \cup SetPackets
              \cup {InfilePacket}
    [] server = "loaded" -> OkPackets(IF Len(sent) + 1 < MaxResults THEN BOOLEAN ELSE {FALSE}) \cup {ErrPacket}
    [] server = "column" -> {ColumnPacket}
    [] server = "eof" -> EofPackets
    [] server = "row" -> EndPackets \cup {ErrPacket} \cup IF Len(Last(sent).rows) < MaxRows THEN RowPackets ELSE {}
    [] OTHER -> {}

RowId == <<Len(sent), Len(Last(sent).rows) + 1>>
Grown == [sent EXCEPT ![Len(sent)] = Set(Append(@.rows, RowId))]
AfterColumns == IF opts.eofDeprecated THEN "row" ELSE "eof"
IsRow(p) == server = "row" /\ p.first # "ff" /\ (p.first = "fe" => p.long)

\* An exception nobody catches ends the program.
Running == trouble # "thrown"

\* What the server does next; p was in the socket if it is not paused, or in the last chunk.
Send(p) ==
  /\ p \in Sends /\ (paused => more) /\ more' \in BOOLEAN
  /\ server' = CASE p.first = "ff" -> "over"
                 [] p.first = "fb" /\ server = "respond" -> "file"
                 [] p.first = "count" -> IF p.skips THEN AfterColumns ELSE "column"
                 [] server = "column" -> IF left > 1 THEN "column" ELSE AfterColumns
                 [] server = "eof" \/ IsRow(p) -> "row"
                 [] OTHER -> IF p.more \/ (server = "row" /\ outParameters) THEN "respond" ELSE "over"
  /\ left' = IF p.first = "count" THEN Columns ELSE IF server = "column" THEN left - 1 ELSE left
  /\ outParameters' = IF server = "eof" THEN p.out ELSE IF server = "respond" THEN FALSE ELSE outParameters
  /\ sent' = CASE p.first = "ff" -> sent
               [] p.first = "count" -> Append(sent, Set(<<>>))
               [] IsRow(p) -> Grown
               [] server \in {"respond", "loaded"} /\ p.first = "00" -> Append(sent, Ok)
               [] OTHER -> sent
  /\ failed' = (failed \/ p.first = "ff")
  /\ asked' = IF server = "respond" /\ p.first = "fb" THEN asked + 1 ELSE asked
  /\ UNCHANGED <<opts, known>>

(***************************************************************************)
(* Command: the promise is settled once, 'end' is emitted every time.      *)
(***************************************************************************)
Reject == promise' = IF promise = "pending" THEN "rejected" ELSE promise
Resolve(v) == IF promise = "pending" THEN promise' = "resolved" /\ value' = v ELSE UNCHANGED <<promise, value>>

ThrowError == Reject /\ handler' = "none" /\ ends' = ends + 1 /\ UNCHANGED value
SuccessEnd(v) == Resolve(v) /\ handler' = "none" /\ ends' = ends + 1

\* success(), with the results and, with metaAsArray, what is known of their columns.
Success(r, m) == SuccessEnd([results |-> r, meta |-> m]) /\ columns' = NoColumns /\ rows' = <<>>

(***************************************************************************)
(* Rows: kept, or pushed to a stream, which pauses the socket when its     *)
(* buffer is full.  The end of the command resumes it.                     *)
(***************************************************************************)
Pushed(item) == IF opts.stream /\ ~closed THEN Append(pushed, item) ELSE pushed
PausedAfter(item, over) ==
  IF ~opts.stream \/ over THEN FALSE ELSE paused \/ Len(Pushed(item)) - consumed >= HighWater

HandleNewRows(item) ==
  /\ pushed' = Pushed(item) /\ paused' = (IF closed THEN paused ELSE PausedAfter(item, FALSE))
  /\ rows' = IF opts.stream THEN rows ELSE [rows EXCEPT ![responseIndex + 1] = Set(Append(@.rows, item))]
  /\ UNCHANGED <<consumed, closed>>

(***************************************************************************)
(* readResponsePacket.                                                     *)
(***************************************************************************)
\* What _meta becomes when index i is given m: what is before it stays empty.
MetaWith(i, m) == [j \in 1..(IF Len(meta) > i THEN Len(meta) ELSE i + 1) |->
                     IF j = i + 1 THEN m ELSE IF j <= Len(meta) THEN meta[j] ELSE NoColumns]

\* Variant: the index stays behind when an OK packet is followed by a result.
OkPacketSuccessBehind(ok, continues) ==
  /\ IF continues
     THEN rows' = Append(rows, ok) /\ handler' = "respond" /\ UNCHANGED <<promiseVars, columns, meta>>
     ELSE Success(Append(rows, ok), meta) /\ UNCHANGED meta
  /\ UNCHANGED responseIndex

OkPacketSuccess(ok, continues) ==
  IF continues
  THEN /\ rows' = Append(rows, ok) /\ responseIndex' = responseIndex + 1 /\ handler' = "respond"
       /\ UNCHANGED <<promiseVars, columns, meta>>
  ELSE /\ meta' = IF responseIndex > 0 /\ opts.metaAsArray THEN MetaWith(responseIndex, NoColumns) ELSE meta
       /\ Success(Append(rows, ok), meta') /\ UNCHANGED responseIndex

Stays == UNCHANGED <<parserVars, promiseVars>>

\* A redirection calls back at once when it cannot or must not be made.
ReadOKPacket(p) ==
  /\ handler = "respond" /\ p.first = "00" /\ Send(p)
  /\ moreResults' = p.more
  /\ LET continues == p.more IN
     CASE p.says = "redirect" ->
            /\ trouble' = "redirect" /\ UNCHANGED complaint
            /\ \/ redirecting' = "lost" /\ Stays
               \/ redirecting' = "no" /\ OkPacketSuccess(Undefined, continues) /\ UNCHANGED isOutParameter
       [] p.says = "charset" ->
            /\ trouble' = "charset" /\ complaint' = TRUE /\ Reject
            /\ IF continues
               THEN rows' = Append(rows, Ok) /\ responseIndex' = responseIndex + 1 /\ handler' = "respond"
                    /\ ends' = ends + 1 /\ UNCHANGED columns
               ELSE handler' = "none" /\ ends' = ends + 2 /\ rows' = <<>> /\ columns' = NoColumns
                    /\ UNCHANGED responseIndex
            /\ UNCHANGED <<value, meta, isOutParameter, redirecting>>
       [] p.says = "insertId" ->
            /\ complaint' = TRUE /\ Reject
            /\ IF continues
               THEN rows' = Append(rows, Ok) /\ responseIndex' = responseIndex + 1 /\ handler' = "respond"
                    /\ UNCHANGED <<ends, columns>>
               ELSE handler' = "none" /\ ends' = ends + 1 /\ rows' = <<>> /\ columns' = NoColumns
                    /\ UNCHANGED responseIndex
            /\ UNCHANGED <<value, meta, isOutParameter, redirectVars>>
       [] p.says = "later" /\ ~p.more ->
            /\ UNCHANGED <<trouble, complaint>>
            /\ \/ redirecting' = "ok" /\ Stays
               \/ redirecting' = "no" /\ OkPacketSuccess(Ok, continues) /\ UNCHANGED isOutParameter
       [] OTHER -> OkPacketSuccess(Ok, continues) /\ UNCHANGED <<redirectVars, complaint, isOutParameter>>
  /\ pushed' = Pushed(<<Len(sent) + 1, 0>>)
  /\ paused' = (IF closed THEN paused ELSE PausedAfter(<<Len(sent) + 1, 0>>, handler' = "none"))
  /\ UNCHANGED <<consumed, closed, fileVars>>

ResultSetEndingPacketResult(continues) ==
  IF continues \/ isOutParameter
  THEN /\ responseIndex' = responseIndex + 1 /\ handler' = "respond"
       /\ meta' = IF opts.metaAsArray THEN MetaWith(responseIndex, columns) ELSE meta
       /\ UNCHANGED <<rows, columns, promiseVars>>
  ELSE Success(rows, MetaWith(responseIndex, columns)) /\ UNCHANGED <<responseIndex, meta>>

\* info.redirect() calls back.
Redirected ==
  /\ Running /\ redirecting # "no" /\ redirecting' = "no"
  /\ CASE redirecting = "lost" -> OkPacketSuccess(Undefined, moreResults)
       [] redirecting = "ok" -> OkPacketSuccess(Ok, moreResults)
       [] OTHER -> ResultSetEndingPacketResult(moreResults)
  /\ paused' = (paused /\ handler' # "none")
  /\ UNCHANGED <<opts, serverVars, isOutParameter, moreResults, complaint, trouble, fileVars,
                 pushed, consumed, closed, more>>

\* handleErrorPacket, and the same in the middle of a set.
HandleErrorPacket(p) ==
  /\ handler \in {"respond", "row"} /\ p.first = "ff" /\ Send(p)
  /\ ThrowError /\ columns' = (IF handler = "respond" THEN NoColumns ELSE columns)
  /\ paused' = FALSE
  /\ UNCHANGED <<responseIndex, rows, meta, isOutParameter, moreResults, complaint, redirectVars, fileVars,
                 pushed, consumed, closed>>

\* setParser: a name is there twice, or may not be used, and the command is rejected.
SetParser == UNCHANGED <<promise, complaint>> \/ (Reject /\ complaint' = TRUE)

HandleSkippedMeta == columns' = Columns /\ SetParser /\ handler' = AfterColumns

ReadResultSet(p) ==
  /\ handler = "respond" /\ p.first = "count" /\ Send(p)
  /\ rows' = Append(rows, Set(<<>>))
  /\ IF p.skips THEN HandleSkippedMeta
     ELSE columns' = 0 /\ handler' = "column" /\ UNCHANGED <<promise, complaint>>
  /\ UNCHANGED <<responseIndex, meta, isOutParameter, value, ends, moreResults, redirectVars,
                 fileVars, streamVars>>

ReadColumn(p) ==
  /\ handler = "column" /\ Send(p)
  /\ columns' = columns + 1
  /\ IF columns' = Columns THEN SetParser /\ handler' = AfterColumns
     ELSE UNCHANGED <<promise, complaint, handler>>
  /\ UNCHANGED <<responseIndex, rows, meta, isOutParameter, value, ends, moreResults, redirectVars,
                 fileVars, streamVars>>

ReadIntermediateEOF(p) ==
  /\ handler = "eof" /\ p.first = "fe" /\ Send(p)
  /\ isOutParameter' = p.out /\ moreResults' = p.more /\ handler' = "row"
  /\ UNCHANGED <<responseIndex, rows, meta, columns, promiseVars, complaint, redirectVars, fileVars, streamVars>>

(***************************************************************************)
(* readResultSetRow.                                                       *)
(***************************************************************************)
\* Variant: a row is known by its first byte alone.
IsEndByByte(p) == p.first = "fe"

IsEnd(p) == p.first = "fe" /\ ~p.long

\* parseRow: a number is out of range, and the command is rejected.
ParseRow == UNCHANGED <<promise, complaint>> \/ (Reject /\ complaint' = TRUE)

ReadRow(p) ==
  /\ handler = "row" /\ p.first # "ff" /\ ~IsEnd(p) /\ Send(p)
  /\ ParseRow /\ HandleNewRows(RowId)
  /\ UNCHANGED <<handler, responseIndex, meta, columns, isOutParameter, value, ends, moreResults,
                 redirectVars, fileVars>>

ReadEnd(p) ==
  /\ handler = "row" /\ IsEnd(p) /\ Send(p)
  /\ moreResults' = p.more
  /\ \/ /\ p.says = "later" /\ ~p.more /\ redirecting' = "set"
        /\ UNCHANGED <<parserVars, promiseVars, paused>>
     \/ /\ ResultSetEndingPacketResult(p.more) /\ paused' = (paused /\ handler' # "none")
        /\ UNCHANGED <<redirecting, isOutParameter>>
  /\ UNCHANGED <<complaint, trouble, fileVars, pushed, consumed, closed>>

(***************************************************************************)
(* readLocalInfile, and the file's events.                                 *)
(***************************************************************************)
\* process.nextTick(this.reject, error): the function is null, and nextTick throws,
\* when an earlier error has rejected the command.
RejectUnguarded ==
  \/ promise = "pending" /\ promise' = "rejected" /\ complaint' = TRUE /\ UNCHANGED trouble
  \/ promise # "pending" /\ trouble' = "thrown" /\ UNCHANGED <<promise, complaint>>

\* The option, the name or infileStreamFactory says no.
Refuse == RejectUnguarded /\ empties' = empties + 1 /\ UNCHANGED file

ReadLocalInfile(p) ==
  /\ handler = "respond" /\ p.first = "fb" /\ Send(p)
  /\ \/ Refuse
     \/ opts.permitLocalInfile /\ file' = "reading" /\ UNCHANGED <<promise, complaint, trouble, empties>>
  /\ UNCHANGED <<parserVars, value, ends, moreResults, redirecting, streamVars>>

FileEnd ==
  /\ Running /\ file = "reading" /\ file' = "done" /\ empties' = empties + 1
  /\ UNCHANGED <<opts, serverVars, parserVars, promiseVars, moreResults, complaint, redirectVars, streamVars, more>>

FileError ==
  /\ Running /\ file = "reading" /\ file' = "done" /\ empties' = empties + 1
  /\ RejectUnguarded
  /\ UNCHANGED <<opts, serverVars, parserVars, value, ends, moreResults, redirecting, streamVars, more>>

ServerHasFile ==
  /\ Running /\ server = "file" /\ empties = asked /\ server' = "loaded"
  /\ UNCHANGED <<opts, left, outParameters, known, sent, failed, asked, parserVars, promiseVars, moreResults,
                 complaint, redirectVars, fileVars, streamVars, more>>

(***************************************************************************)
(* The reader of the stream.                                               *)
(***************************************************************************)
Consume ==
  /\ Running /\ opts.stream /\ ~closed /\ consumed < Len(pushed)
  /\ consumed' = consumed + 1 /\ paused' = FALSE
  /\ UNCHANGED <<opts, serverVars, parserVars, promiseVars, moreResults, complaint, redirectVars, fileVars,
                 pushed, closed, more>>

\* Variant: closing leaves the socket as it is.
CloseStreamPaused ==
  /\ Running /\ opts.stream /\ ~closed /\ closed' = TRUE
  /\ UNCHANGED <<opts, serverVars, parserVars, promiseVars, moreResults, complaint, redirectVars, fileVars,
                 pushed, consumed, paused, more>>

CloseStream ==
  /\ Running /\ opts.stream /\ ~closed /\ closed' = TRUE /\ paused' = FALSE
  /\ UNCHANGED <<opts, serverVars, parserVars, promiseVars, moreResults, complaint, redirectVars, fileVars,
                 pushed, consumed, more>>

Receive ==
  Running /\ \E p \in Sends :
    \/ ReadOKPacket(p) \/ HandleErrorPacket(p) \/ ReadResultSet(p) \/ ReadLocalInfile(p)
    \/ ReadColumn(p) \/ ReadIntermediateEOF(p) \/ ReadRow(p) \/ ReadEnd(p)

FileCloses == FileEnd \/ FileError

Next == Receive \/ Redirected \/ FileCloses \/ ServerHasFile \/ Consume \/ CloseStream

Spec == Init /\ [][Next]_vars

(* The server answers, a redirection calls back, a file ends or fails, and *)
(* who reads a stream goes on reading it.                                  *)
Fairness == WF_vars(Receive) /\ WF_vars(Redirected) /\ WF_vars(FileCloses) /\ WF_vars(ServerHasFile)
            /\ WF_vars(Consume)
FairSpec == Spec /\ Fairness

-----------------------------------------------------------------------------
(***************************************************************************)
(* Properties.                                                             *)
(***************************************************************************)
Expects(s) == IF s \in {"file", "loaded"} THEN "respond" ELSE IF s = "over" THEN "none" ELSE s

(* A file the server asks for is ended by one empty packet, whatever        *)
(* happens: without it the server would wait for ever, and a second one     *)
(* would be read as a command.                                              *)
OneEmptyPacket ==
  trouble = "none" =>
    /\ empties <= asked
    /\ server = "file" /\ file # "reading" => empties = asked

(* The command reads its answer to the end and no further: what it expects  *)
(* is what the server sends next, through every kind of result, OUT         *)
(* parameters, skipped columns, rows that look like an end, refused files   *)
(* and errors that are the client's own.  A command that ends early leaves  *)
(* its answer to the next one; one that ends late takes the next one's.     *)
(* Nor does the command leave the server behind, waiting for a file.        *)
InStep ==
  /\ OneEmptyPacket
  /\ trouble = "none" =>
       /\ handler = Expects(server) \/ (redirecting # "no" /\ server = "over")
       /\ ends = IF handler = "none" THEN 1 ELSE 0

StreamItems(r) == IF sent[r].kind = "ok" THEN <<<<r, 0>>>> ELSE sent[r].rows
Streamed == FlattenSeq([r \in DOMAIN sent |-> StreamItems(r)])

(* The client gets what the server sent: a command that is over is settled, *)
(* resolved only when the whole answer was read without an error, and then  *)
(* with every result in its place, the rows of each set and its columns; a  *)
(* stream that was not closed was pushed every row and OK packet, in order. *)
AnswerFaithful ==
  trouble = "none" =>
    /\ handler = "none" => promise # "pending"
    /\ promise = "rejected" => failed \/ complaint
    /\ promise = "resolved" =>
         /\ server = "over" /\ ~failed /\ Len(value.results) = Len(sent)
         /\ ~opts.stream => value.results = sent
         /\ opts.metaAsArray /\ Len(sent) > 1 =>
              \A r \in DOMAIN sent : r \in DOMAIN value.meta /\ value.meta[r] = IF sent[r].kind = "set" THEN Columns ELSE NoColumns
    /\ opts.stream /\ ~closed => pushed = Streamed

(* A command reads its answer to the end, although a stream whose reader is *)
(* slow pauses the socket, and whatever it was doing when it was closed.    *)
AnswerRead == <>(handler = "none" \/ trouble # "none")
=============================================================================

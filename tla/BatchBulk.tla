------------------------------ MODULE BatchBulk ------------------------------
(***************************************************************************)
(* A batch sent with COM_STMT_BULK_EXECUTE, lib/cmd/batch-bulk.js: rows    *)
(* are packed into as few packets as the types of their values and the     *)
(* size of a packet allow, all of them are sent, and then their answers    *)
(* are read.                                                               *)
(*                                                                         *)
(* A row has the type of its only parameter and writes its bytes in a few  *)
(* pieces; a byte is <<row, number>>, and those of row 0 are a packet's    *)
(* header, which says of which type the rows are.  start() is one step of  *)
(* the program: the answers come when it is over.                          *)
(***************************************************************************)
EXTENDS PacketOutput, FiniteSets, SequencesExt

CONSTANTS
  Batches,           (* the batches of rows to consider                    *)
  MaxAllowed         (* the values of maxAllowedPacket                     *)

ASSUME BatchAssumption ==
  /\ \A batch \in Batches : Len(batch) > 0 /\ \A i \in DOMAIN batch : batch[i].pieces \in Seq(Nat \ {0})
  /\ MaxAllowed \subseteq Nat

VARIABLES
  values,          \* the rows
  maxAllowedPacket,
  answers,         \* what the server answers with: "ok", "unit", "returning" (sets)
  out,
  pc,              \* of sendComStmtBulkExecute: "packet", "again", "row", "flush", "sent"
  rowIdx, piece,   \* the row being written, and how many of its pieces are
  parameterHeaderType,
  lastCmdData,     \* a row written already, that goes in the next packet
  unchecked,       \* rows written behind such a row
  bulkPacketNo, firstError,
  handler,         \* onPacketReceive
  kept,            \* _rows: the results, <<packet, number>>
  promise, value,
  ends,            \* how often 'end' was emitted
  sendEnds,        \* and 'send_end'
  answered,        \* packets the server has answered
  answer,          \* what it sends next of the answer it is giving
  lost             \* the connection is

input == <<values, maxAllowedPacket, answers>>
writing == <<out, pc, rowIdx, piece, parameterHeaderType, lastCmdData, unchecked>>
settling == <<promise, value, ends, sendEnds>>
bulkVars == <<input, writing, settling, bulkPacketNo, firstError, handler, kept, answered, answer, lost>>

BulkInit ==
  /\ values \in Batches /\ maxAllowedPacket \in MaxAllowed /\ answers \in {"ok", "unit", "returning"}
  /\ out = NewOutput /\ pc = "packet" /\ rowIdx = 1 /\ piece = 0 /\ lastCmdData = <<>> /\ unchecked = {}
  /\ parameterHeaderType = "none"
  /\ bulkPacketNo = 0 /\ firstError = "none" /\ handler = "respond" /\ kept = <<>>
  /\ promise = "pending" /\ value = <<>> /\ ends = 0 /\ sendEnds = 0
  /\ answered = 0 /\ answer = <<>> /\ lost = FALSE

(***************************************************************************)
(* Settling.                                                               *)
(***************************************************************************)
\* Variant: the packets that were sent are waited for on a connection that is lost.
ThrowErrorWaiting(fatal) ==
  /\ bulkPacketNo' = bulkPacketNo - 1
  /\ firstError' = IF firstError # "none" THEN firstError ELSE IF fatal THEN "fatal" ELSE "server"
  /\ IF bulkPacketNo' = 0
     THEN /\ promise' = "rejected" /\ handler' = "none"
          /\ ends' = ends + 1 /\ sendEnds' = sendEnds + 1 /\ UNCHANGED value
     ELSE handler' = "respond" /\ UNCHANGED settling

ThrowError(fatal) ==
  /\ bulkPacketNo' = IF firstError = "none" /\ fatal THEN 0 ELSE bulkPacketNo - 1
  /\ firstError' = IF firstError # "none" THEN firstError ELSE IF fatal THEN "fatal" ELSE "server"
  /\ IF bulkPacketNo' = 0
     THEN /\ promise' = "rejected" /\ handler' = "none"
          /\ ends' = ends + 1 /\ sendEnds' = sendEnds + 1 /\ UNCHANGED value
     ELSE handler' = "respond" /\ UNCHANGED settling

\* processRowResults: with unit results, a set of rows is followed by its units.
EveryOther(s) == [i \in 1..((Len(s) + 1) \div 2) |-> s[2 * i - 1]]
ProcessResults(r) == IF answers = "returning" /\ Len(r) > 1 THEN EveryOther(r) ELSE r

\* Variant: the next answer is read like the last one.
SuccessStays(r) ==
  /\ bulkPacketNo' = bulkPacketNo - 1
  /\ IF bulkPacketNo' = 0
     THEN /\ IF firstError # "none" THEN promise' = "rejected" /\ UNCHANGED value
             ELSE promise' = "resolved" /\ value' = ProcessResults(r)
          /\ handler' = "none" /\ ends' = ends + 1 /\ UNCHANGED sendEnds
     ELSE UNCHANGED <<settling, handler>>

Success(r) ==
  /\ bulkPacketNo' = bulkPacketNo - 1
  /\ IF bulkPacketNo' = 0
     THEN /\ IF firstError # "none" THEN promise' = "rejected" /\ UNCHANGED value
             ELSE promise' = "resolved" /\ value' = ProcessResults(r)
          /\ handler' = "none" /\ ends' = ends + 1 /\ UNCHANGED sendEnds
     ELSE /\ handler' = IF firstError = "none" THEN "respond" ELSE handler
          /\ UNCHANGED settling

(***************************************************************************)
(* sendComStmtBulkExecute.                                                 *)
(***************************************************************************)
\* parameterHeaderFromValue: NULL may be of any type.
HeaderFromValue(type) == IF type = "null" THEN "text" ELSE type

\* checkSameHeader: a date is compared with another type than the one it has.
SameHeader(header, type) == type = "null" \/ (type # "date" /\ header = type)

Header(type) == <<<<0, type>>, <<0, type>>>>
Total(pieces, n) == FoldLeft(+, 0, SubSeq(pieces, 1, n))
RowBytes(r) ==
  LET pieces == values[r].pieces
  IN [p \in DOMAIN pieces |-> [i \in 1..pieces[p] |-> <<r, Total(pieces, p - 1) + i>>]]

\* A new packet.
BeginPacket ==
  /\ pc = "packet"
  /\ parameterHeaderType' = (IF parameterHeaderType = "none" THEN HeaderFromValue(values[rowIdx].type) ELSE parameterHeaderType)
  /\ out' = WriteBuffer(StartPacket(out), Header(parameterHeaderType'))
  /\ bulkPacketNo' = bulkPacketNo + 1
  /\ pc' = IF lastCmdData = <<>> THEN "row" ELSE "again"
  /\ UNCHANGED <<input, rowIdx, piece, lastCmdData, unchecked, settling, firstError, handler, kept, answered, answer, lost>>

\* It begins with the row that was too much for the last one, unless that row is too large itself.
WriteAgain ==
  /\ pc = "again" /\ lastCmdData' = <<>>
  /\ IF CheckMaxAllowedLength(out, Len(lastCmdData), maxAllowedPacket)
     THEN /\ pc' = "sent" /\ firstError' = "size" /\ bulkPacketNo' = bulkPacketNo - 1
          /\ IF bulkPacketNo' = 0
             THEN promise' = "rejected" /\ handler' = "none" /\ ends' = ends + 1 /\ sendEnds' = sendEnds + 1
             ELSE handler' = "respond" /\ UNCHANGED <<promise, ends, sendEnds>>
          /\ UNCHANGED <<out, rowIdx, unchecked>>
     ELSE /\ out' = Mark(WriteBuffer(out, lastCmdData))
          /\ IF rowIdx = Len(values) THEN pc' = "flush" /\ UNCHANGED <<rowIdx, unchecked>>
             ELSE pc' = "row" /\ rowIdx' = rowIdx + 1 /\ unchecked' = unchecked \cup {rowIdx + 1}
          /\ UNCHANGED <<firstError, bulkPacketNo, handler, promise, ends, sendEnds>>
  /\ UNCHANGED <<input, piece, parameterHeaderType, value, kept, answered, answer, lost>>

WritePiece ==
  /\ pc = "row" /\ piece < Len(values[rowIdx].pieces) /\ piece' = piece + 1
  /\ out' = WriteBuffer(out, RowBytes(rowIdx)[piece'])
  /\ UNCHANGED <<input, pc, rowIdx, parameterHeaderType, lastCmdData, unchecked, settling, bulkPacketNo, firstError,
                 handler, kept, answered, answer, lost>>

SetBack(o) == out' = ResetMark(o) /\ lastCmdData' = DataAfterMark(o) /\ pc' = "packet" /\ UNCHANGED <<rowIdx, parameterHeaderType>>

\* Variant: the types of the next row are not looked at.
NextRowUnchecked ==
  out' = Mark(out) /\ rowIdx' = rowIdx + 1 /\ pc' = "row" /\ UNCHANGED <<parameterHeaderType, lastCmdData>>

\* The next row goes in the same packet if it is of the same types.
NextRow ==
  /\ rowIdx' = rowIdx + 1 /\ UNCHANGED lastCmdData
  /\ LET next == values[rowIdx + 1].type IN
     IF SameHeader(parameterHeaderType, next) THEN out' = Mark(out) /\ pc' = "row" /\ UNCHANGED parameterHeaderType
     ELSE out' = Flush(Mark(out)) /\ pc' = "packet" /\ parameterHeaderType' = HeaderFromValue(next)

TooLarge == IsMarked(out) /\ (out.after \/ BufIsAfterMaxPacketLength(out, maxAllowedPacket))

RowWritten ==
  /\ pc = "row" /\ piece = Len(values[rowIdx].pieces) /\ piece' = 0
  /\ IF TooLarge THEN SetBack(Mark(FlushBufferStopAtMark(out)))
     ELSE IF out.after THEN SetBack(Mark(out))
     ELSE IF rowIdx = Len(values)
     THEN out' = Mark(out) /\ pc' = "flush" /\ UNCHANGED <<rowIdx, parameterHeaderType, lastCmdData>>
     ELSE NextRow
  /\ UNCHANGED <<input, unchecked, settling, bulkPacketNo, firstError, handler, kept, answered, answer, lost>>

FlushLast ==
  /\ pc = "flush" /\ pc' = "sent" /\ out' = Flush(out) /\ sendEnds' = sendEnds + 1
  /\ UNCHANGED <<input, rowIdx, piece, parameterHeaderType, lastCmdData, unchecked, promise, value, ends, bulkPacketNo,
                 firstError, handler, kept, answered, answer, lost>>

(***************************************************************************)
(* The answers.                                                            *)
(***************************************************************************)
ASet(n) == <<<<"count", n>>, <<"row", n>>, <<"end", n>>>>
AnswersTo(n) ==
  {<<<<"err", n>>>>} \cup
  CASE answers = "ok" -> {<<<<"ok", n>>>>}
    [] answers = "unit" -> {ASet(n)}
    [] OTHER -> {<<<<"count", n>>, <<"row", n>>, <<"more", n>>>> \o ASet(n)}

ServerAnswers ==
  /\ pc = "sent" /\ ~lost /\ answer = <<>> /\ answered < Len(Packets(out.wire))
  /\ answered' = answered + 1 /\ answer' \in AnswersTo(answered + 1)
  /\ UNCHANGED <<input, writing, settling, bulkPacketNo, firstError, handler, kept, lost>>

\* A result is kept when it begins.
Receive ==
  /\ answer # <<>> /\ ~lost /\ answer' = Tail(answer)
  /\ LET p == Head(answer)
         keep == Append(kept, p)
     IN CASE handler = "none" -> UNCHANGED <<settling, bulkPacketNo, firstError, handler, kept>>
          [] p[1] = "err" -> ThrowError(FALSE) /\ UNCHANGED kept
          [] handler = "respond" /\ p[1] = "ok" -> Success(keep) /\ kept' = keep /\ UNCHANGED firstError
          [] handler = "respond" /\ p[1] # "ok" ->
               handler' = "row" /\ kept' = keep /\ UNCHANGED <<settling, bulkPacketNo, firstError>>
          [] handler = "row" /\ p[1] = "end" -> Success(kept) /\ UNCHANGED <<kept, firstError>>
          [] handler = "row" /\ p[1] = "more" -> handler' = "respond" /\ UNCHANGED <<settling, bulkPacketNo, firstError, kept>>
          [] OTHER -> UNCHANGED <<settling, bulkPacketNo, firstError, handler, kept>>   \* a row
  /\ UNCHANGED <<input, writing, answered, lost>>

\* socketErrorDispatchToQueries.
Lose ==
  /\ pc = "sent" /\ ~lost /\ lost' = TRUE
  /\ IF handler = "none" THEN UNCHANGED <<settling, bulkPacketNo, firstError, handler>> ELSE ThrowError(TRUE)
  /\ UNCHANGED <<input, writing, kept, answered, answer>>

SendComStmtBulkExecute == BeginPacket \/ WriteAgain \/ WritePiece \/ RowWritten \/ FlushLast
BulkNext == SendComStmtBulkExecute \/ ServerAnswers \/ Receive \/ Lose

-----------------------------------------------------------------------------
(***************************************************************************)
(* Properties.                                                             *)
(***************************************************************************)
Length(r) == Total(values[r].pieces, Len(values[r].pieces))
AllBytes == FlattenSeq([r \in DOMAIN values |-> FlattenSeq(RowBytes(r))])
Commands == Packets(out.wire)
RowsOf(command) == SubSeq(command, 3, Len(command))

(* Every row is sent once, in its place, however rows are packed, and      *)
(* although one that does not fit is written again in the next packet: the *)
(* server reads commands that begin with frame number zero and a header,   *)
(* end with a whole row, and together hold the rows, all of them unless    *)
(* one was refused.                                                        *)
RowsSentOnce ==
  ~out.torn =>
    LET sent == FlattenSeq([i \in DOMAIN Commands |-> RowsOf(Commands[i])]) IN
    /\ Numbered(out.wire)
    /\ sent = SubSeq(AllBytes, 1, Len(sent))
    /\ \A command \in Range(Commands) :
         /\ Len(command) > 2 /\ command[1][1] = 0 /\ command[2][1] = 0
         /\ LET last == Last(command) IN last[2] = Length(last[1])
    /\ pc = "sent" => /\ Ended(out.wire) /\ (firstError # "size" => sent = AllBytes)
                      /\ firstError # "size" /\ bulkPacketNo > 0 /\ answered = 0 => Len(Commands) = bulkPacketNo

Fits(header, type) == type = "null" \/ header = type
RowsDeclared(exempt) ==
  \A command \in Range(Commands) : \A i \in 3..Len(command) :
    command[i][1] \notin exempt => Fits(command[1][2], values[command[i][1]].type)

(* The values of a row are of the types its packet declares: the server    *)
(* would read something else.  The row that follows one written again is   *)
(* exempt: its types are not compared.                                     *)
RowsAsDeclared == ~out.torn => RowsDeclared(unchecked)

(* A packet of several rows is not larger than the server allows, which    *)
(* would close the connection.  Exempt is a packet whose first row filled  *)
(* a frame: what was sent of a packet is not counted when a row is added.  *)
PacketsAllowed ==
  ~out.torn =>
    \A command \in Range(Commands) :
      Last(command)[1] # command[3][1] /\ Length(command[3][1]) + 2 <= MaxLen => Len(command) <= maxAllowedPacket

(* The server can read every packet, and reads from them what was given.   *)
PacketsRight == RowsSentOnce /\ PacketsAllowed

Expected ==
  IF answer # <<>> THEN IF Head(answer)[1] \in {"count", "ok"} THEN {"respond"}
                        ELSE IF Head(answer)[1] = "err" THEN {"respond", "row"} ELSE {"row"}
  ELSE IF pc = "sent" /\ answered = Len(Commands) THEN {"none"} ELSE {"respond"}

(* As many answers are read as packets were sent, and then the promise is  *)
(* settled: resolved with the answer to each packet, in order, if none is  *)
(* an error.  Exempt are the sets read after an error, where the handler   *)
(* is not set back.                                                        *)
BatchInStep ==
  ~lost /\ ~out.torn /\ (firstError = "none" \/ answers = "ok") =>
    /\ handler \in Expected
    /\ ends = IF handler = "none" THEN 1 ELSE 0
    /\ handler = "none" <=> promise # "pending"
    /\ promise = "resolved" => firstError = "none" /\ [i \in DOMAIN value |-> value[i][2]] = [i \in DOMAIN Commands |-> i]
=============================================================================

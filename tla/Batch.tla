-------------------------------- MODULE Batch --------------------------------
(***************************************************************************)
(* batch() of lib/connection.js: the statement is prepared, the rows are   *)
(* sent in bulk (BatchBulk) if the server and the values permit it, or     *)
(* executed one by one, in chunks of ChunkSize sent at once, the next one  *)
(* when all of a chunk were answered; then the statement is closed.        *)
(***************************************************************************)
EXTENDS BatchBulk

CONSTANT ChunkSize

ASSUME ChunkAssumption == ChunkSize \in Nat \ {0}

VARIABLES
  fullResult, metaAsArray,   \* options
  path,       \* "prepare", "bulk", "chunks", "over"
  closes,     \* prepare.close() was called
  settled, result,           \* of batch()
  chunkIndex,
  sent,       \* how many rows were executed
  done,       \* the answers to them, sequences of rows, or Err
  results

optionVars == <<fullResult, metaAsArray>>
batchVars == <<optionVars, path, closes, settled, result, chunkIndex, sent, done, results>>
vars == <<bulkVars, batchVars>>

\* The server supports it when the rows suit: of one length, and without streams.
CanUseBulk == \A i \in DOMAIN values : values[i].suits

Init ==
  /\ BulkInit /\ fullResult \in BOOLEAN /\ metaAsArray \in BOOLEAN
  /\ CanUseBulk => fullResult /\ metaAsArray   \* they make no difference here
  /\ path = "prepare" /\ closes = 0 /\ settled = "pending" /\ result = <<>>
  /\ chunkIndex = 0 /\ sent = 0 /\ done = <<>> /\ results = <<>>

Rows == Len(values)
TotalBatches == (Rows + ChunkSize - 1) \div ChunkSize

ExecuteBatchChunk(index) == chunkIndex' = index /\ sent' = Smaller((index + 1) * ChunkSize, Rows)

PrepareOk ==
  /\ path = "prepare"
  /\ IF CanUseBulk THEN path' = "bulk" /\ UNCHANGED <<chunkIndex, sent>>
     ELSE path' = "chunks" /\ ExecuteBatchChunk(0)
  /\ UNCHANGED <<bulkVars, optionVars, closes, settled, result, done, results>>

PrepareFails ==
  /\ path = "prepare" /\ path' = "over" /\ settled' = "rejected"
  /\ UNCHANGED <<bulkVars, optionVars, closes, result, chunkIndex, sent, done, results>>

\* The callbacks of executeBulkPromise.
BulkOver ==
  /\ path = "bulk" /\ promise # "pending"
  /\ path' = "over" /\ closes' = closes + 1 /\ settled' = promise /\ result' = value
  /\ UNCHANGED <<bulkVars, optionVars, chunkIndex, sent, done, results>>

BulkStep == (path = "bulk" \/ promise # "pending") /\ BulkNext /\ UNCHANGED batchVars

(***************************************************************************)
(* One by one.  A row of a result is <<row of the batch, number>>.         *)
(***************************************************************************)
Err == <<<<0, 0>>>>
Undefined == <<0, 1>>
OutcomesOf(r) ==
  {Err} \cup
  CASE answers = "ok" -> {<<<<r, 0>>>>}
    [] answers = "unit" -> {<<<<r, 1>>>>}
    [] OTHER -> {[j \in 1..n |-> <<r, j>>] : n \in 0..2}

\* The server answers the next one, also when the batch is over.
ExecuteAnswered ==
  /\ Len(done) < sent
  /\ done' \in {Append(done, o) : o \in OutcomesOf(Len(done) + 1)}
  /\ UNCHANGED <<bulkVars, optionVars, path, closes, settled, result, chunkIndex, sent, results>>

\* processBatchResults: results in full keep the first row of a set, unless it has its metadata beside it.
FirstOf(s) == IF s = <<>> THEN <<Undefined>> ELSE <<s[1]>>
ProcessBatchResults(all) ==
  IF fullResult /\ ~metaAsArray THEN FlattenSeq([i \in DOMAIN all |-> FirstOf(all[i])])
  ELSE FlattenSeq(all)

\* Promise.all: the first error ends the batch.
ChunkFails ==
  /\ path = "chunks" /\ Err \in ToSet(done)
  /\ path' = "over" /\ closes' = closes + 1 /\ settled' = "rejected"
  /\ UNCHANGED <<bulkVars, optionVars, result, chunkIndex, sent, done, results>>

\* Variant: the answers of the last chunk are the ones of the batch.
KeepLastChunk(chunk) == results' = chunk

KeepResults(chunk) == results' = results \o chunk

ChunkDone ==
  /\ path = "chunks" /\ Len(done) = sent /\ Err \notin ToSet(done)
  /\ KeepResults(SubSeq(done, chunkIndex * ChunkSize + 1, sent))
  /\ IF chunkIndex = TotalBatches - 1
     THEN /\ settled' = "resolved" /\ result' = ProcessBatchResults(results')
          /\ closes' = closes + 1 /\ path' = "over" /\ UNCHANGED <<chunkIndex, sent>>
     ELSE ExecuteBatchChunk(chunkIndex + 1) /\ UNCHANGED <<settled, result, closes, path>>
  /\ UNCHANGED <<bulkVars, optionVars, done>>

Next == PrepareOk \/ PrepareFails \/ BulkOver \/ BulkStep \/ ExecuteAnswered \/ ChunkFails \/ ChunkDone

(* The server answers, and promises call back; start() is a function, and  *)
(* comes to its end.                                                       *)
Fairness ==
  /\ (path = "bulk" ~> pc = "sent")
  /\ WF_vars(PrepareOk) /\ WF_vars(BulkOver) /\ WF_vars(ExecuteAnswered) /\ WF_vars(ChunkFails) /\ WF_vars(ChunkDone)
  /\ WF_vars(path = "bulk" /\ (ServerAnswers \/ Receive) /\ UNCHANGED batchVars)

Spec == Init /\ [][Next]_vars /\ Fairness

-----------------------------------------------------------------------------
(***************************************************************************)
(* Properties.                                                             *)
(***************************************************************************)
(* One by one, a batch is resolved when every row was executed without an  *)
(* error, with their results in order and complete (of a full result only  *)
(* the first row of each set), and after an error no chunk is begun.  The  *)
(* statement is closed once, when the batch is over.                       *)
BatchFaithful ==
  /\ closes = IF path = "over" /\ (sent > 0 \/ promise # "pending") THEN 1 ELSE 0
  /\ settled = "pending" <=> path # "over"
  /\ sent > 0 /\ settled = "resolved" =>
       /\ Len(done) = Rows /\ Err \notin ToSet(done)
       /\ ~(fullResult /\ ~metaAsArray /\ answers = "returning") => result = FlattenSeq(done)
  /\ \A i \in DOMAIN done : done[i] = Err => sent <= ((i - 1) \div ChunkSize + 1) * ChunkSize

(* The caller of batch() gets an answer, in bulk and one by one, with any   *)
(* number of packets or chunks, and when the connection is lost while none *)
(* of the packets has failed.                                              *)
BatchEnds == <>(settled # "pending" \/ (lost /\ firstError # "fatal") \/ out.torn)
=============================================================================

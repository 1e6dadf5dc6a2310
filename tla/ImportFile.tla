----------------------------- MODULE ImportFile -----------------------------
(***************************************************************************)
(* importFile() of lib/connection.js: the statements of a file are sent    *)
(* over a connection that holds back the client's own commands until the   *)
(* import is over.  The file is read piece by piece into a buffer; what    *)
(* parseQueries finds complete is sent at once, the rest is kept.          *)
(*                                                                         *)
(* A command of an import is sent by the addCommand the connection had     *)
(* when the import was called (prevAddCommand), a command of the client by *)
(* the one it has now.  A promise rejected with nobody to handle it, and   *)
(* an exception nobody catches, end the process: `uncaught`.               *)
(***************************************************************************)
EXTENDS SqlLexer, FiniteSets

CONSTANTS
  Imports,    (* calls of importFile() on one connection: they may overlap *)
  Users,      (* the client's own queries                                  *)
  Cases,      (* situations: the script, its statements and whether the    *)
              (* last one has its semicolon; pipelining; skip:             *)
              (* skipDbCheck, a call of the module's own importFile();     *)
              (* early: called before the connection is ready; wanted,     *)
              (* first: the database asked for, and the one selected       *)
              (* before; imports: how many, on one connection; safe: the   *)
              (* connection is not lost                                    *)
  Half        (* 8192: half the first buffer, and the room always left     *)

ASSUME ImportAssumption ==
  /\ Imports = {1, 2} /\ Imports \cap Users = {}
  /\ \A c \in Cases : c.imports \in Imports /\ (c.skip => c.imports = 1 /\ ~c.early)
  /\ Half \in Nat \ {0}

NoDb == "none"

VARIABLES
  setting,
  script,      \* its complete statements, and the text of the file
  status, addCommand,
  waiting,     \* waitingAuthenticationQueue, and whether there is one
  queued,
  line,        \* commands handed over and not settled; on a closed connection, never
  doomed,      \* commands with a setImmediate(throwError) coming
  stage, prev, before, buffer, taken, failed, result,    \* of each import
  asked,       \* the client's queries: "no", "called", "answered", "rejected"
  db, log,     \* of the server: the database selected, what it has executed
  uncaught

link == <<status, addCommand, waiting, queued>>
constants == <<setting, script>>
calls == <<stage, prev, before, buffer, taken, failed, result>>
vars == <<constants, link, line, doomed, calls, asked, db, log, uncaught>>

Command(by, what, text) == [by |-> by, what |-> what, text |-> text]

\* The statements that end with a semicolon: the rest of a file is not sent.
Complete(s) == IF s.ended THEN s.statements ELSE Front(s.statements)
Text(s) == FlattenSeq([k \in DOMAIN s.statements |->
             IF k \in DOMAIN Complete(s) THEN Append(s.statements[k], ";") ELSE s.statements[k]])

EmptyBuffer == [held |-> <<>>, offset |-> 0, size |-> 2 * Half]

Init ==
  /\ setting \in Cases
  /\ script = [statements |-> Complete(setting.script), file |-> Text(setting.script)]
  /\ status = IF setting.early THEN "connecting" ELSE "connected"
  /\ addCommand = IF setting.early THEN "queue" ELSE "direct"
  /\ waiting = <<>> /\ queued = setting.early
  /\ line = <<>> /\ doomed = <<>>
  /\ stage = [i \in Imports |-> "idle"]
  /\ prev = [i \in Imports |-> "direct"]
  /\ before = [i \in Imports |-> NoDb]
  /\ buffer = [i \in Imports |-> EmptyBuffer]
  /\ taken = [i \in Imports |-> 0]
  /\ failed = [i \in Imports |-> FALSE]
  /\ result = [i \in Imports |-> "none"]
  /\ asked = [u \in Users |-> "no"]
  /\ db = setting.first /\ log = <<>>
  /\ uncaught = FALSE

----------------------------------------------------------------------------
(* Sending and ending.                                                     *)

\* The waiting queue is null, or the connection is closed: tmpQuery fails.
CannotSend(i) == prev[i] = "disabled" \/ (prev[i] = "queue" /\ ~queued)

\* What prevAddCommand adds to the line, and to the waiting queue there is
\* now, which may be another import's.
ToLine(i, commands) == IF prev[i] = "direct" THEN commands ELSE <<>>
ToQueue(i, commands) == IF prev[i] = "queue" /\ queued THEN commands ELSE <<>>

\* The commands that waited are sent, in their order.
Resume(now, held) ==
  /\ addCommand' = "direct" /\ queued' = FALSE
  /\ waiting' = <<>>
  /\ line' = now \o held

\* variant: the connection is not given back to its client
FinishHeld(i, how, now, held) ==
  /\ stage' = [stage EXCEPT ![i] = "over"]
  /\ result' = [result EXCEPT ![i] = how]
  /\ line' = now /\ waiting' = held
  /\ UNCHANGED <<status, addCommand, queued, uncaught>>

\* endingFunction, then resolve or reject. Without a waiting queue,
\* endingFunction throws, again when the handler of that error calls it.
Finish(i, how, now, held) ==
  IF status = "connected" /\ ~queued
  THEN uncaught' = TRUE /\ line' = now /\ UNCHANGED <<link, stage, result>>
  ELSE
    /\ IF status = "connected" THEN Resume(now, held)
       ELSE line' = now /\ waiting' = held /\ UNCHANGED <<addCommand, queued>>
    /\ stage' = [stage EXCEPT ![i] = "over"]
    /\ result' = [result EXCEPT ![i] = how]
    /\ UNCHANGED <<status, uncaught>>

----------------------------------------------------------------------------
(* From the call to the first byte.                                        *)

\* What follows the name of the current database: refused without any, USE
\* the one asked for, or open the file.
Choose(i, known, now) ==
  CASE setting.wanted = NoDb /\ known = NoDb ->
         /\ stage' = [stage EXCEPT ![i] = "over"]
         /\ result' = [result EXCEPT ![i] = "no database"]
         /\ line' = now /\ UNCHANGED <<waiting, uncaught>>
    [] setting.wanted = NoDb /\ known # NoDb ->
         /\ stage' = [stage EXCEPT ![i] = "opening"]
         /\ line' = now /\ UNCHANGED <<waiting, result, uncaught>>
    [] setting.wanted # NoDb /\ ~CannotSend(i) ->
         LET use == <<Command(i, "use", setting.wanted)>>
         IN /\ stage' = [stage EXCEPT ![i] = "choosing"]
            /\ line' = now \o ToLine(i, use) /\ waiting' = waiting \o ToQueue(i, use)
            /\ UNCHANGED <<result, uncaught>>
    [] OTHER -> \* no queue to push to: the rejection is nobody's
         /\ uncaught' = TRUE /\ line' = now
         /\ UNCHANGED <<waiting, stage, result>>

\* variant: the client's commands are not held back
ImportOpen(i) ==
  /\ stage[i] = "idle" /\ i <= setting.imports /\ (i = 2 => stage[1] # "idle")
  /\ ~setting.skip /\ addCommand = "direct"
  /\ stage' = [stage EXCEPT ![i] = "naming"]
  /\ line' = Append(line, Command(i, "name", NoDb))
  /\ UNCHANGED <<constants, link, doomed, prev, before, buffer, taken, failed, result, asked, db, log, uncaught>>

\* Nothing looks at the status. A queue that was there is lost.
Import(i) ==
  /\ stage[i] = "idle" /\ i <= setting.imports /\ (i = 2 => stage[1] # "idle")
  /\ prev' = [prev EXCEPT ![i] = addCommand]
  /\ addCommand' = "queue" /\ queued' = TRUE
  /\ IF setting.skip
     THEN /\ waiting' = <<>>
          /\ IF setting.wanted = NoDb
             THEN /\ stage' = [stage EXCEPT ![i] = "over"]
                  /\ result' = [result EXCEPT ![i] = "no database"]
                  /\ UNCHANGED line
             ELSE /\ stage' = [stage EXCEPT ![i] = "choosing"]
                  /\ line' = IF addCommand = "direct" THEN Append(line, Command(i, "use", setting.wanted)) ELSE line
                  /\ UNCHANGED result
          /\ uncaught' = (setting.wanted # NoDb /\ addCommand = "disabled")
     ELSE /\ stage' = [stage EXCEPT ![i] = "naming"]
          /\ waiting' = IF addCommand = "queue" THEN <<Command(i, "name", NoDb)>> ELSE <<>>
          /\ line' = IF addCommand = "direct" THEN Append(line, Command(i, "name", NoDb)) ELSE line
          /\ uncaught' = (addCommand = "disabled")
          /\ UNCHANGED result
  /\ UNCHANGED <<constants, status, doomed, before, buffer, taken, failed, asked, db, log>>

Answering(what) == status = "connected" /\ line # <<>> /\ Head(line).what = what

AnswerName ==
  /\ Answering("name")
  /\ LET i == Head(line).by
     IN /\ before' = [before EXCEPT ![i] = db]
        /\ Choose(i, db, Tail(line))
  /\ UNCHANGED <<constants, status, addCommand, queued, doomed, prev, buffer, taken, failed, asked, db, log>>

\* A database the server does not know rejects a promise that is nobody's.
AnswerUse ==
  /\ Answering("use")
  /\ line' = Tail(line)
  /\ \/ /\ db' = Head(line).text
        /\ stage' = [stage EXCEPT ![Head(line).by] = "opening"]
        /\ UNCHANGED uncaught
     \/ uncaught' = TRUE /\ UNCHANGED <<db, stage>>
  /\ UNCHANGED <<constants, link, doomed, prev, before, buffer, taken, failed, result, asked, log>>

Open(i) ==
  /\ stage[i] = "opening"
  /\ \/ /\ stage' = [stage EXCEPT ![i] = "reading"]
        /\ UNCHANGED <<link, line, result, uncaught>>
     \/ Finish(i, "rejected", line, waiting)
  /\ UNCHANGED <<constants, doomed, prev, before, buffer, taken, failed, asked, db, log>>

----------------------------------------------------------------------------
(* Reading and sending.                                                    *)

Free(b) == b.size - Len(b.held)
Rest(b) == SubSeq(b.held, b.offset + 1, Len(b.held))

\* variant: a full buffer is not made larger
TidyNoGrowth(b) ==
  CASE b.offset = Len(b.held) -> [b EXCEPT !.held = <<>>, !.offset = 0]
    [] b.offset # Len(b.held) /\ b.offset > Half -> [b EXCEPT !.held = Rest(b), !.offset = 0]
    [] OTHER -> b

\* Make room: start again, move what is left to the front, or take a buffer
\* twice as large.
Tidy(b) ==
  CASE b.offset = Len(b.held) -> [b EXCEPT !.held = <<>>, !.offset = 0]
    [] b.offset # Len(b.held) /\ b.offset > Half -> [b EXCEPT !.held = Rest(b), !.offset = 0]
    [] b.offset # Len(b.held) /\ b.offset <= Half /\ Free(b) < Half ->
         [held |-> Rest(b), offset |-> 0, size |-> 2 * b.size]
    [] OTHER -> b

\* A read fills the room there is, or returns less.
Reads(i) ==
  LET fits == {n \in 1..Free(buffer[i]) : taken[i] + n <= Len(script.file)}
  IN {n \in fits : n = 1 \/ n = Cardinality(fits)}

\* n characters are read: what is complete is sent. The loop goes on unless
\* a statement has failed before.
ReadSome(i, n) ==
  LET b == buffer[i]
      held == b.held \o SubSeq(script.file, taken[i] + 1, taken[i] + n)
      found == ParseQueries(held, b.offset)
      sent == IF CannotSend(i) THEN <<>> ELSE [k \in DOMAIN found.queries |-> Command(i, "statement", found.queries[k])]
  IN /\ stage[i] = "reading"
     /\ taken' = [taken EXCEPT ![i] = @ + n]
     /\ buffer' = [buffer EXCEPT ![i] = Tidy([b EXCEPT !.held = held, !.offset = found.offset])]
     /\ failed' = [failed EXCEPT ![i] = @ \/ Len(sent) < Len(found.queries)]
     /\ LET now == line \o ToLine(i, sent)
            waits == waiting \o ToQueue(i, sent)
        IN IF failed[i] THEN Finish(i, "rejected", now, waits)
           ELSE line' = now /\ waiting' = waits /\ UNCHANGED <<status, addCommand, queued, stage, result, uncaught>>
  /\ UNCHANGED <<constants, doomed, prev, before, asked, db, log>>

\* variant: a statement that failed meanwhile ends the loop without a word
ReadNothingSilent(i) ==
  /\ stage[i] = "reading"
  /\ taken[i] = Len(script.file) \/ Free(buffer[i]) = 0
  /\ stage' = [stage EXCEPT ![i] = IF failed[i] THEN "over" ELSE "settling"]
  /\ UNCHANGED <<constants, link, line, doomed, prev, before, buffer, taken, failed, result, asked, db, log, uncaught>>

\* A read returns 0: the end of the file, or no room to read into.
ReadNothing(i) ==
  /\ stage[i] = "reading"
  /\ taken[i] = Len(script.file) \/ Free(buffer[i]) = 0
  /\ IF failed[i] THEN Finish(i, "rejected", line, waiting)
     ELSE stage' = [stage EXCEPT ![i] = "settling"] /\ UNCHANGED <<link, line, result, uncaught>>
  /\ UNCHANGED <<constants, doomed, prev, before, buffer, taken, failed, asked, db, log>>

ReadFails(i) ==
  /\ stage[i] = "reading"
  /\ Finish(i, "rejected", line, waiting)
  /\ UNCHANGED <<constants, doomed, prev, before, buffer, taken, failed, asked, db, log>>

Entry(ok) == [by |-> Head(line).by, text |-> Head(line).text, db |-> db, ok |-> ok]

AnswerStatement(ok) ==
  /\ Answering("statement")
  /\ line' = Tail(line)
  /\ log' = Append(log, Entry(ok))
  /\ failed' = [failed EXCEPT ![Head(line).by] = @ \/ ~ok]
  /\ UNCHANGED <<constants, link, doomed, stage, prev, before, buffer, taken, result, asked, db, uncaught>>

\* Another database was selected before, and has to be again.
Elsewhere(i) == ~setting.skip /\ before[i] # NoDb /\ setting.wanted \notin {NoDb, before[i]}

\* Every statement sent is settled: the former database is selected again.
AllSettled(i) ==
  /\ stage[i] = "settling"
  /\ \A k \in DOMAIN (line \o waiting) : (line \o waiting)[k].by # i
  /\ \A k \in DOMAIN doomed : doomed[k].by # i
  /\ IF Elsewhere(i) /\ ~CannotSend(i)
     THEN LET restore == <<Command(i, "restore", before[i])>>
          IN /\ stage' = [stage EXCEPT ![i] = "restoring"]
             /\ line' = line \o ToLine(i, restore) /\ waiting' = waiting \o ToQueue(i, restore)
             /\ UNCHANGED <<status, addCommand, queued, result, uncaught>>
     ELSE Finish(i, IF failed[i] \/ Elsewhere(i) THEN "rejected" ELSE "resolved", line, waiting)
  /\ UNCHANGED <<constants, doomed, prev, before, buffer, taken, failed, asked, db, log>>

AnswerRestore ==
  /\ Answering("restore")
  /\ LET i == Head(line).by
     IN \/ db' = Head(line).text /\ Finish(i, IF failed[i] THEN "rejected" ELSE "resolved", Tail(line), waiting)
        \/ UNCHANGED db /\ Finish(i, "rejected", Tail(line), waiting)
  /\ UNCHANGED <<constants, doomed, prev, before, buffer, taken, failed, asked, log>>

----------------------------------------------------------------------------
(* The client, and the connection.                                         *)

Query(u) ==
  /\ asked[u] = "no" /\ ~setting.skip /\ addCommand # "disabled"
  /\ asked' = [asked EXCEPT ![u] = "called"]
  /\ LET now == <<Command(u, "query", <<>>)>>
     IN IF addCommand = "direct" THEN line' = line \o now /\ UNCHANGED waiting
        ELSE waiting' = waiting \o now /\ UNCHANGED line
  /\ UNCHANGED <<constants, status, addCommand, queued, doomed, calls, db, log, uncaught>>

AnswerQuery ==
  /\ Answering("query")
  /\ line' = Tail(line)
  /\ log' = Append(log, Entry(TRUE))
  /\ asked' = [asked EXCEPT ![Head(line).by] = "answered"]
  /\ UNCHANGED <<constants, link, doomed, calls, db, uncaught>>

\* The end of connect(): commands issued early are sent.
Ready ==
  /\ status = "connecting"
  /\ status' = "connected"
  /\ Resume(line, waiting)
  /\ UNCHANGED <<constants, doomed, calls, asked, db, log, uncaught>>

\* Commands that have not been started are forgotten: they stay in the line.
Lost ==
  /\ ~setting.safe /\ status = "connected"
  /\ status' = "closed" /\ addCommand' = "disabled"
  /\ LET started == IF setting.pipelining \/ line = <<>> THEN Len(line) ELSE 1
     IN /\ doomed' = SubSeq(line, 1, started)
        /\ line' = SubSeq(line, started + 1, Len(line))
  /\ UNCHANGED <<constants, waiting, queued, calls, asked, db, log, uncaught>>

RejectDoomed ==
  /\ doomed # <<>>
  /\ doomed' = Tail(doomed)
  /\ LET c == Head(doomed)
     IN CASE c.what \in {"name", "use"} ->
               uncaught' = TRUE /\ UNCHANGED <<link, line, stage, failed, result, asked>>
          [] c.what = "statement" ->
               failed' = [failed EXCEPT ![c.by] = TRUE] /\ UNCHANGED <<link, line, stage, result, asked, uncaught>>
          [] c.what = "restore" ->
               Finish(c.by, "rejected", line, waiting) /\ UNCHANGED <<failed, asked>>
          [] OTHER ->
               asked' = [asked EXCEPT ![c.by] = "rejected"] /\ UNCHANGED <<link, line, stage, failed, result, uncaught>>
  /\ UNCHANGED <<constants, prev, before, buffer, taken, db, log>>

\* The module's own importFile() ends the connection it has made.
EndConnection(i) ==
  /\ setting.skip /\ result[i] # "none" /\ status = "connected"
  /\ status' = "closed" /\ addCommand' = "disabled"
  /\ UNCHANGED <<constants, waiting, queued, line, doomed, calls, asked, db, log, uncaught>>

Progress ==
  \/ AnswerName \/ AnswerUse \/ AnswerRestore \/ AnswerQuery \/ Ready \/ RejectDoomed
  \/ \E ok \in BOOLEAN : AnswerStatement(ok)
  \/ \E i \in Imports :
       \/ Open(i) \/ ReadNothing(i) \/ ReadFails(i) \/ AllSettled(i)
       \/ \E n \in Reads(i) : ReadSome(i, n)

Next ==
  /\ ~uncaught
  /\ \/ Progress \/ Lost
     \/ \E i \in Imports : Import(i) \/ EndConnection(i)
     \/ \E u \in Users : Query(u)

Spec == Init /\ [][Next]_vars

\* The server answers, the disk is read, the event loop runs.
FairSpec == Spec /\ WF_vars(~uncaught /\ Progress)

----------------------------------------------------------------------------
(* Properties.                                                             *)

\* An import called before the connection was ready, and one when it was: the
\* first then finds the second's waiting queue.
QueueShared == prev[1] = "queue" /\ stage[2] # "idle" /\ prev[2] = "direct"

\* An import executes the statements of its file as they were written, in
\* their order, none twice, in the database it was asked to use, however
\* the reads cut the file (the loop of importFile with parseQueries); when
\* it is resolved it has executed all of them, and none has failed. Not so
\* of one that sends through the waiting queue of another: its first
\* statements fail before there is a queue.
ImportFaithful ==
  \A i \in {i \in Imports : ~(QueueShared /\ prev[i] = "queue")} :
    LET ran == SelectSeq(log, LAMBDA e : e.by = i)
    IN /\ Len(ran) <= Len(script.statements)
       /\ \A k \in DOMAIN ran :
            /\ ran[k].text = script.statements[k]
            /\ ran[k].db = IF setting.wanted = NoDb THEN before[i] ELSE setting.wanted
       /\ result[i] = "resolved" => Len(ran) = Len(script.statements) /\ \A k \in DOMAIN ran : ran[k].ok

\* A query of the client that has run ran in the database the client had
\* selected; without any, in the one an import has left behind. An import
\* that is rejected does not select the client's database again.
InItsDatabase ==
  \A k \in DOMAIN log : log[k].by \in Users =>
    \/ log[k].db = setting.first
    \/ setting.first = NoDb /\ log[k].db = setting.wanted /\ \E i \in Imports : result[i] = "resolved"
    \/ \E i \in Imports : result[i] = "rejected"

\* The client's queries run before or after all of an import, never between
\* two of its statements, and in the client's database (connection.js,
\* addCommand = addCommandQueue, the USE that restores and endingFunction);
\* where two imports share a waiting queue it may run in the import's.
ClientUntouched ==
  QueueShared \/
    /\ InItsDatabase
    /\ \A k \in DOMAIN log : log[k].by \in Users =>
         \A i \in Imports : ~ \E m, n \in DOMAIN log : m < k /\ k < n /\ log[m].by = i /\ log[n].by = i

\* An import called on a connection that is ready is settled, while the
\* connection is there and no promise is rejected with nobody to handle it.
ImportSettles ==
  \A i \in Imports :
    (stage[i] # "idle" /\ prev[i] = "direct") ~> (result[i] # "none" \/ status # "connected" \/ uncaught)

\* The client's queries held back by an import are sent when it is over, and
\* answered: unless two imports overlap, one was called too early or without
\* a database, or the connection is closed.
HeldQueriesServed ==
  \A u \in Users :
    (asked[u] = "called") ~>
      \/ asked[u] = "answered"
      \/ status = "closed" \/ uncaught
      \/ \E i \in Imports : prev[i] = "queue" \/ result[i] = "no database"

=============================================================================

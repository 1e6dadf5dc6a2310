---------------------------- MODULE CommandQueue ----------------------------
(***************************************************************************)
(* How one connection sends commands and hands each answer to the command  *)
(* it belongs to: the queues of lib/connection.js, the dispatch loop of    *)
(* lib/io/packet-input-stream.js and the life cycle of lib/cmd/command.js. *)
(*                                                                         *)
(* Commands are numbered in the order the client issues them: Setup stands *)
(* for the queries the driver sends itself once authenticated, 1..MaxCalls *)
(* are the client's calls, Quit is the COM_QUIT of end().  The server      *)
(* answers what it received in order, with one packet or several; the      *)
(* packets reach the client in chunks, each handled by one call of onData. *)
(* A step is one uninterrupted piece of JavaScript, except that a chunk is *)
(* handled packet by packet and the waiting queue is flushed command by    *)
(* command: nothing else happens meanwhile.                                *)
(***************************************************************************)
EXTENDS Integers, Sequences, FiniteSets, Functions, SequenceFilter

CONSTANTS
  MaxCalls,     (* how many commands the client issues                     *)
  Kinds,        (* what they may be: "query"; "prepare", whose answer may  *)
                (* end with a packet that looks like a row; "stream", a    *)
                (* query with a stream parameter; "ping", with a timeout;  *)
                (* "close", a COM_STMT_CLOSE, that has no answer;          *)
                (* "invalid", a query refused before anything is written   *)
  Settings,     (* the values of option pipelining to consider             *)
  EarlyCalls    (* what the client does before the connection is usable:   *)
                (* "connecting" and "init" are the states it issues        *)
                (* commands in, "destroy" that it calls destroy()          *)

ASSUME CommandQueueAssumption ==
  /\ MaxCalls \in Nat
  /\ Kinds \subseteq {"query", "prepare", "stream", "ping", "close", "invalid"}
  /\ Settings \subseteq BOOLEAN
  /\ EarlyCalls \subseteq {"connecting", "init", "destroy"}

Calls == 1..MaxCalls
Setup == 0
Quit == MaxCalls + 1
Cmds == 0..(MaxCalls + 1)
NoCmd == -1

VARIABLES
  pipelining,   \* option pipelining
  kind,         \* what each call will be
  issued,       \* how many calls the client has made
  handshake,    \* "auth", "setup", "answered", "flush", "done": how far connect() is
  status,       \* "connecting", "init", "connected", "ending", "closed"
  addCommand,   \* "queue", "enabled", "disabled": the function it points to
  waiting,      \* waitingAuthenticationQueue
  sendQueue,
  receiveQueue,
  stage,        \* of a command: "new", "active" (it has an onPacketReceive), "over"
  sending,      \* commands whose stream parameter is being written
  expired,      \* pings whose timer has rejected them
  doomed,       \* commands with a setImmediate(throwError) coming
  cached,       \* packet-input-stream._cmd
  direct,       \* the variable cmd of the loop in onData
  chunk,        \* how many commands the chunk being handled may still answer
  wire,         \* commands written, whose answer has not been read to its end
  tick,         \* nextTick(nextSendCmd) is pending
  quitDone,     \* nextTick(ended) is pending
  killing,      \* destroy() is connecting to the server to send its KILL
  socket,       \* "open", "lost", "none"
  closedBy      \* "nobody", "end", "destroy", "error", "ping"

queues == <<waiting, sendQueue, receiveQueue>>
commands == <<stage, sending, wire, quitDone>>
reader == <<cached, direct, chunk>>
fixed == <<pipelining, kind>>
link == <<handshake, status, addCommand, socket, closedBy>>
vars == <<fixed, issued, link, queues, commands, expired, doomed, reader, tick, killing>>

\* Queue.shift(), that leaves an empty queue empty.
Shifted(q) == SubSeq(q, 2, Len(q))

Init ==
  /\ pipelining \in Settings
  /\ kind \in [Cmds -> Kinds \cup {"query", "quit"}]
  /\ kind[Setup] = "query" /\ kind[Quit] = "quit"
  /\ \A c \in Calls : kind[c] \in Kinds
  /\ issued = 0
  /\ handshake = "auth" /\ status = "connecting" /\ addCommand = "queue"
  /\ socket = "open" /\ closedBy = "nobody"
  /\ waiting = <<>> /\ sendQueue = <<>> /\ receiveQueue = <<>>
  /\ stage = [c \in Cmds |-> "new"]
  /\ sending = {} /\ expired = {} /\ doomed = {}
  /\ cached = NoCmd /\ direct = NoCmd /\ chunk = 0
  /\ wire = <<>> /\ tick = FALSE /\ quitDone = FALSE /\ killing = FALSE

Active(c) == stage[c] = "active"
Settled(c) == stage[c] = "over" \/ c \in expired

(***************************************************************************)
(* Between two callbacks; and when every nextTick callback has run, so     *)
(* that the event loop turns to sockets, timers and immediates.            *)
(***************************************************************************)
Between == chunk = 0 /\ handshake # "flush"
LoopDrained == Between /\ ~tick /\ ~quitDone /\ handshake # "answered"

(***************************************************************************)
(* Sending.  Answered(c): the server answers c.  LetsNextGo(c): when it    *)
(* has been started, c emits the event that sends the next command:        *)
(* 'send_end' with pipelining, which a stream emits only when it is all    *)
(* written, and 'end' without, which comes with the answer.                *)
(***************************************************************************)
Answered(c) == kind[c] \in {"query", "prepare", "stream", "ping"}
LetsNextGo(c) == IF pipelining THEN kind[c] # "stream" ELSE ~Answered(c)

\* The commands of q that nextSendCmd starts, one inside the start of the other.
StartedFrom(q) ==
  IF q = <<>> \/ Head(q) \in sending THEN <<>>
  ELSE LET stops == {i \in DOMAIN q : ~LetsNextGo(q[i])} IN
       SubSeq(q, 1, IF stops = {} THEN Len(q) ELSE CHOOSE i \in stops : \A j \in stops : i <= j)

\* What stays queued: a stream does until it is written.
LeftOf(q, s) ==
  SubSeq(q, Len(s) + (IF s # <<>> /\ kind[s[Len(s)]] = "stream" THEN 0 ELSE 1), Len(q))

(***************************************************************************)
(* The commands of s are started, now being what holds just before.        *)
(***************************************************************************)
Now == [stage |-> stage, sending |-> sending, wire |-> wire]

Start(s, now) ==
  /\ stage' = [c \in Cmds |-> IF c \notin Range(s) THEN now.stage[c]
                              ELSE IF Answered(c) THEN "active" ELSE "over"]
  /\ sending' = now.sending \cup {c \in Range(s) : kind[c] = "stream"}
  /\ wire' = now.wire \o Filter(s, {c \in Cmds : Answered(c)})
  /\ quitDone' = (quitDone \/ Quit \in Range(s))

\* nextSendCmd, q being the sendQueue.
NextSendCmd(q, now) ==
  LET s == StartedFrom(q) IN Start(s, now) /\ sendQueue' = IF s = <<>> THEN q ELSE LeftOf(q, s)

(***************************************************************************)
(* addCommand(c), whichever function it is.                                *)
(***************************************************************************)
Expecting(c) == IF kind[c] = "close" THEN receiveQueue ELSE Append(receiveQueue, c)

\* Variant: the sendQueue is not looked at.
AddCommandPipelineEager(c) == receiveQueue' = Expecting(c) /\ Start(<<c>>, Now) /\ UNCHANGED sendQueue

AddCommandEnablePipeline(c) ==
  /\ receiveQueue' = Expecting(c)
  /\ IF sendQueue = <<>> THEN NextSendCmd(<<c>>, Now)
     ELSE sendQueue' = Append(sendQueue, c) /\ UNCHANGED commands

AddCommandEnable(c) ==
  /\ receiveQueue' = Expecting(c)
  /\ IF sendQueue = <<>> /\ receiveQueue = <<>> THEN Start(<<c>>, Now) /\ UNCHANGED sendQueue
     ELSE sendQueue' = Append(sendQueue, c) /\ UNCHANGED commands

AddCommandDisabled(c) ==
  /\ stage' = [stage EXCEPT ![c] = "over"]
  /\ UNCHANGED <<sendQueue, receiveQueue, sending, wire, quitDone>>

AddNow(c) ==
  CASE addCommand = "disabled" -> AddCommandDisabled(c)
    [] addCommand = "enabled" /\ pipelining -> AddCommandEnablePipeline(c)
    [] addCommand = "enabled" /\ ~pipelining -> AddCommandEnable(c)

\* The client calls query(), execute(), ping()... : its next call.
Call ==
  LET c == issued + 1 IN
  /\ Between /\ issued < MaxCalls
  /\ status \in {"connecting", "init"} => status \in EarlyCalls
  /\ issued' = c
  /\ IF addCommand = "queue"
     THEN waiting' = Append(waiting, c) /\ UNCHANGED <<sendQueue, receiveQueue, commands>>
     ELSE AddNow(c) /\ UNCHANGED waiting
  /\ UNCHANGED <<fixed, link, expired, doomed, reader, tick, killing>>

(***************************************************************************)
(* connect: authSucceedHandler, whose session queries are the command      *)
(* Setup, what follows them, and authFailHandler.                          *)
(***************************************************************************)
AuthSucceeds ==
  /\ LoopDrained /\ handshake = "auth" /\ socket = "open"
  /\ handshake' = "setup" /\ status' = "init" /\ addCommand' = "enabled"
  /\ IF pipelining THEN AddCommandEnablePipeline(Setup) ELSE AddCommandEnable(Setup)
  /\ UNCHANGED <<fixed, issued, socket, closedBy, waiting, expired, doomed, reader, tick, killing>>

\* Variant: the waiting commands are forgotten.
InitDoneForgetful ==
  /\ Between /\ handshake = "answered"
  /\ status' = "connected" /\ handshake' = "done"
  /\ UNCHANGED <<fixed, issued, addCommand, socket, closedBy, queues, commands, expired, doomed, reader, tick, killing>>

InitDone ==
  /\ Between /\ handshake = "answered"
  /\ status' = "connected"
  /\ handshake' = IF waiting = <<>> THEN "done" ELSE "flush"
  /\ UNCHANGED <<fixed, issued, addCommand, socket, closedBy, queues, commands, expired, doomed, reader, tick, killing>>

\* Variant: the waiting commands are taken from the end.
FlushWaitingBackwards ==
  /\ handshake = "flush"
  /\ AddNow(waiting[Len(waiting)])
  /\ waiting' = SubSeq(waiting, 1, Len(waiting) - 1)
  /\ handshake' = IF Len(waiting) = 1 THEN "done" ELSE "flush"
  /\ UNCHANGED <<fixed, issued, status, addCommand, socket, closedBy, expired, doomed, reader, tick, killing>>

\* One turn of the loop that hands the waiting commands to addCommand.
FlushWaiting ==
  /\ handshake = "flush"
  /\ AddNow(Head(waiting))
  /\ waiting' = Tail(waiting)
  /\ handshake' = IF Len(waiting) = 1 THEN "done" ELSE "flush"
  /\ UNCHANGED <<fixed, issued, status, addCommand, socket, closedBy, expired, doomed, reader, tick, killing>>

(***************************************************************************)
(* The end of a connection.                                                *)
(***************************************************************************)
Close(by) ==
  /\ status' = "closed" /\ addCommand' = "disabled" /\ socket' = "none"
  /\ sendQueue' = <<>>
  /\ closedBy' = IF closedBy = "nobody" THEN by ELSE closedBy

\* socketErrorDispatchToQueries, q being the receiveQueue.
Dispatch(q) ==
  /\ receiveQueue' = <<>>
  /\ doomed' = doomed \cup {c \in Range(q) : Active(c)}

SendQuit ==
  /\ sendQueue' = Append(sendQueue, Quit)
  /\ receiveQueue' = Append(receiveQueue, Quit)
  /\ tick' = (tick \/ sendQueue = <<>>)

Terminate(by) ==
  /\ status' = "ending" /\ addCommand' = "disabled"
  /\ closedBy' = by
  /\ UNCHANGED socket

\* end(), and the end() of the driver itself when a session query is refused.
End ==
  /\ Between /\ status \notin {"ending", "closed"}
  /\ handshake = "answered" => "init" \in EarlyCalls
  /\ Terminate("end") /\ SendQuit
  /\ UNCHANGED <<fixed, issued, handshake, waiting, commands, expired, doomed, reader, killing>>

InitRefused ==
  /\ Between /\ handshake = "answered" /\ status = "init"
  /\ handshake' = "done"
  /\ Terminate("end") /\ SendQuit
  /\ UNCHANGED <<fixed, issued, waiting, commands, expired, doomed, reader, killing>>

\* The same after a fatal error: authFailHandler shifts the receiveQueue.
InitFails ==
  /\ Between /\ handshake = "answered" /\ status = "init"
  /\ handshake' = "done"
  /\ Close("error") /\ Dispatch(Shifted(receiveQueue))
  /\ UNCHANGED <<fixed, issued, waiting, commands, expired, reader, tick, killing>>

NextSendTick ==
  /\ Between /\ tick
  /\ tick' = FALSE
  /\ NextSendCmd(sendQueue, Now)
  /\ UNCHANGED <<fixed, issued, link, waiting, receiveQueue, expired, doomed, reader, killing>>

QuitEnded ==
  /\ Between /\ quitDone
  /\ Close("end") /\ quitDone' = FALSE /\ receiveQueue' = <<>>
  /\ UNCHANGED <<fixed, issued, handshake, waiting, stage, sending, wire, expired, doomed, reader, tick, killing>>

\* With a command in flight, destroy() kills it by a connection of its own.
Destroy ==
  /\ Between /\ status \notin {"ending", "closed"}
  /\ handshake # "done" => "destroy" \in EarlyCalls
  /\ IF receiveQueue # <<>> \/ handshake = "auth"
     THEN Terminate("destroy") /\ killing' = TRUE /\ sendQueue' = <<>>
     ELSE Close("destroy") /\ UNCHANGED killing
  /\ UNCHANGED <<fixed, issued, handshake, waiting, receiveQueue, commands, expired, doomed, reader, tick>>

KillDone ==
  /\ LoopDrained /\ killing
  /\ killing' = FALSE
  /\ Close("destroy") /\ Dispatch(receiveQueue)
  /\ UNCHANGED <<fixed, issued, handshake, waiting, commands, expired, reader, tick>>

KillFails ==
  /\ LoopDrained /\ killing
  /\ killing' = FALSE
  /\ SendQuit
  /\ UNCHANGED <<fixed, issued, link, waiting, commands, expired, doomed, reader>>

(***************************************************************************)
(* Failures: fatalError, socketErrorHandler, which does nothing once the   *)
(* connection is ending, socketTimeoutReached and the timer of ping.       *)
(***************************************************************************)
LinkFails ==
  /\ LoopDrained /\ socket = "open" /\ status \notin {"ending", "closed"}
  /\ Close("error") /\ Dispatch(receiveQueue)
  /\ UNCHANGED <<fixed, issued, handshake, waiting, commands, expired, reader, tick, killing>>

LinkFailsUnheard ==
  /\ LoopDrained /\ socket = "open" /\ status = "ending"
  /\ socket' = "lost"
  /\ UNCHANGED <<fixed, issued, handshake, status, addCommand, closedBy, queues, commands, expired, doomed, reader, tick, killing>>

SocketTimeout ==
  /\ LoopDrained /\ socket = "open" /\ status = "ending"
  /\ Dispatch(receiveQueue)
  /\ UNCHANGED <<fixed, issued, link, waiting, sendQueue, commands, expired, reader, tick, killing>>

PingTimeout(c) ==
  /\ LoopDrained /\ ~killing
  /\ kind[c] = "ping" /\ c <= issued /\ ~Settled(c)
  /\ expired' = expired \cup {c}
  /\ IF status = "ending" THEN sendQueue' = <<>> /\ UNCHANGED link
     ELSE Close("ping") /\ UNCHANGED handshake
  /\ UNCHANGED <<fixed, issued, waiting, receiveQueue, commands, doomed, reader, tick, killing>>

\* The setImmediate(throwError) of a dispatched error.  Emitting 'end' sends the next command.
RejectDoomed(c) ==
  /\ LoopDrained /\ c \in doomed
  /\ doomed' = doomed \ {c}
  /\ IF stage[c] = "over" \/ pipelining
     THEN stage' = [stage EXCEPT ![c] = "over"] /\ UNCHANGED <<sendQueue, sending, wire, quitDone>>
     ELSE NextSendCmd(sendQueue, [Now EXCEPT !.stage[c] = "over"])
  /\ UNCHANGED <<fixed, issued, link, waiting, receiveQueue, expired, reader, tick, killing>>

(***************************************************************************)
(* A stream parameter is written to its end: 'send_end'.                   *)
(***************************************************************************)
StreamEndsSilently(c) == \* variant: 'send_end' wakes nobody
  /\ LoopDrained /\ c \in sending
  /\ Start(<<>>, [Now EXCEPT !.sending = @ \ {c}])
  /\ sendQueue' = IF sendQueue # <<>> /\ Head(sendQueue) = c THEN Tail(sendQueue) ELSE sendQueue
  /\ UNCHANGED <<fixed, issued, link, waiting, receiveQueue, expired, doomed, reader, tick, killing>>

StreamEnds(c) ==
  /\ LoopDrained /\ c \in sending
  /\ LET q == IF sendQueue # <<>> /\ Head(sendQueue) = c THEN Tail(sendQueue) ELSE sendQueue
         now == [Now EXCEPT !.sending = @ \ {c}] IN
     IF pipelining THEN NextSendCmd(q, now) ELSE Start(<<>>, now) /\ sendQueue' = q
  /\ UNCHANGED <<fixed, issued, link, waiting, receiveQueue, expired, doomed, reader, tick, killing>>

(***************************************************************************)
(* A packet arrives.  onData hands it straight to the command of its loop  *)
(* when its first byte is that of a row (low), and otherwise to            *)
(* receivePacket, which takes the command it cached or the first of the    *)
(* receiveQueue that expects packets, dropping those before it.            *)
(***************************************************************************)
FirstActive(q) ==
  LET at == {i \in DOMAIN q : Active(q[i])} IN
  IF at = {} THEN <<>> ELSE SubSeq(q, CHOOSE i \in at : \A j \in at : i <= j, Len(q))

Cached == cached # NoCmd /\ Active(cached)
ToDirectUnchecked(low) == low /\ direct # NoCmd \* variant: onPacketReceive is not tested
ToDirect(low) == low /\ direct # NoCmd /\ Active(direct)
CurrentQueue == IF Cached THEN receiveQueue ELSE FirstActive(receiveQueue)
CurrentCmd == IF Cached THEN cached ELSE IF CurrentQueue = <<>> THEN NoCmd ELSE Head(CurrentQueue)
Reader(low) == IF ToDirect(low) THEN direct ELSE CurrentCmd

\* unexpectedPacket: destroy(), the receiveQueue being empty, or end(), if the server says so.
UnexpectedPacket ==
  /\ receiveQueue' = <<>> /\ cached' = NoCmd
  /\ IF status = "ending" THEN UNCHANGED <<status, addCommand, socket, closedBy, sendQueue>> ELSE Close("error")
  /\ UNCHANGED <<handshake, stage, sending, quitDone, tick>>

ServerNotice ==
  /\ LoopDrained /\ socket = "open" /\ handshake # "auth" /\ wire = <<>> /\ CurrentCmd = NoCmd
  /\ \/ UnexpectedPacket /\ UNCHANGED wire
     \/ /\ status # "ending"
        /\ Terminate("end") /\ UNCHANGED <<handshake, commands>>
        /\ sendQueue' = Append(sendQueue, Quit)
        /\ receiveQueue' = <<Quit>> /\ cached' = NoCmd
        /\ tick' = (tick \/ sendQueue = <<>>)
  /\ UNCHANGED <<fixed, issued, waiting, expired, doomed, direct, chunk, killing>>

\* The last packet of an answer: the command calls successEnd or throwError.
LastPacket(c, low) ==
  LET now == [stage |-> [stage EXCEPT ![c] = "over"], sending |-> sending, wire |-> Tail(wire)] IN
  /\ handshake' = IF c = Setup THEN "answered" ELSE handshake
  /\ IF pipelining THEN Start(<<>>, now) /\ UNCHANGED sendQueue ELSE NextSendCmd(sendQueue, now)
  /\ receiveQueue' = IF ToDirect(low) THEN receiveQueue ELSE Shifted(CurrentQueue)
  /\ cached' = IF ToDirect(low) THEN cached ELSE NoCmd
  /\ UNCHANGED <<status, addCommand, socket, closedBy, tick>>

MorePackets(c) ==
  /\ receiveQueue' = CurrentQueue /\ cached' = c
  /\ UNCHANGED <<link, sendQueue, commands, tick>>

Arrives(k) ==
  /\ socket = "open" /\ handshake \notin {"auth", "flush"}
  /\ wire # <<>> /\ Head(wire) \notin sending
  /\ IF chunk = 0 THEN LoopDrained /\ k \in 1..Cardinality(Range(wire) \ sending) ELSE k = chunk

\* Only the answer of a prepare may end with a packet that looks like a row.
ReceiveLast(k, low) ==
  /\ Arrives(k)
  /\ low => direct # NoCmd /\ kind[Head(wire)] = "prepare"
  /\ chunk' \in {0, k - 1}
  /\ direct' = IF ToDirect(low) /\ chunk' # 0 THEN direct ELSE NoCmd
  /\ IF Reader(low) = NoCmd THEN UnexpectedPacket /\ wire' = Tail(wire)
     ELSE LastPacket(Reader(low), low)
  /\ UNCHANGED <<fixed, issued, waiting, expired, doomed, killing>>

ReceiveMore(k) ==
  /\ Arrives(k) /\ CurrentCmd # NoCmd
  /\ chunk' \in {0, k}
  /\ direct' = IF chunk' = 0 THEN NoCmd ELSE CurrentCmd
  /\ MorePackets(CurrentCmd)
  /\ UNCHANGED <<fixed, issued, waiting, expired, doomed, killing>>

Next ==
  \/ Call \/ AuthSucceeds \/ InitDone \/ FlushWaiting \/ InitRefused \/ InitFails
  \/ End \/ NextSendTick \/ QuitEnded \/ Destroy \/ KillDone \/ KillFails
  \/ LinkFails \/ LinkFailsUnheard \/ SocketTimeout \/ ServerNotice
  \/ \E c \in Cmds : PingTimeout(c) \/ RejectDoomed(c) \/ StreamEnds(c)
  \/ \E k \in Cmds : ReceiveMore(k) \/ \E low \in BOOLEAN : ReceiveLast(k, low)

(***************************************************************************)
(* Callbacks run, streams come to their end, the connection that kills     *)
(* succeeds or fails (connectTimeout), and the server ends every answer it *)
(* owes while the link is up.                                              *)
(***************************************************************************)
Fairness ==
  /\ WF_vars(AuthSucceeds) /\ WF_vars(InitDone) /\ WF_vars(FlushWaiting)
  /\ WF_vars(NextSendTick) /\ WF_vars(QuitEnded)
  /\ WF_vars(\E c \in Cmds : StreamEnds(c))
  /\ WF_vars(KillDone \/ KillFails)
  /\ \A c \in Cmds : WF_vars(RejectDoomed(c))
  /\ WF_vars(\E k \in Cmds, low \in BOOLEAN : ReceiveLast(k, low))

Spec == Init /\ [][Next]_vars
FairSpec == Spec /\ Fairness

-----------------------------------------------------------------------------
TypeOK ==
  /\ pipelining \in BOOLEAN
  /\ kind \in [Cmds -> Kinds \cup {"query", "quit"}]
  /\ issued \in 0..MaxCalls
  /\ handshake \in {"auth", "setup", "answered", "flush", "done"}
  /\ status \in {"connecting", "init", "connected", "ending", "closed"}
  /\ addCommand \in {"queue", "enabled", "disabled"}
  /\ socket \in {"open", "lost", "none"}
  /\ closedBy \in {"nobody", "end", "destroy", "error", "ping"}
  /\ waiting \in Seq(Cmds) /\ sendQueue \in Seq(Cmds) /\ receiveQueue \in Seq(Cmds) /\ wire \in Seq(Cmds)
  /\ handshake = "flush" => waiting # <<>>
  /\ stage \in [Cmds -> {"new", "active", "over"}]
  /\ sending \subseteq Cmds /\ expired \subseteq Cmds /\ doomed \subseteq Cmds
  /\ cached \in Cmds \cup {NoCmd} /\ direct \in Cmds \cup {NoCmd}
  /\ chunk \in 0..(MaxCalls + 2)
  /\ tick \in BOOLEAN /\ quitDone \in BOOLEAN /\ killing \in BOOLEAN

Usable == status \in {"init", "connected"}

\* The commands the server owes an answer are, in order, those of the receiveQueue that expect
\* packets, and the next packet goes to the first of them, by whichever of the three ways onData
\* and receivePacket have to find it.
AnswersMatch ==
  /\ Usable => wire = Filter(receiveQueue, {c \in Cmds : Active(c)})
  /\ (Usable /\ wire # <<>>) => \A low \in BOOLEAN : Reader(low) = Head(wire)

\* Commands reach the server in the order of the client's calls: none is written while an earlier
\* one is still queued.
StartOrder ==
  /\ \A i, j \in DOMAIN wire : i < j => wire[i] < wire[j]
  /\ \A c, d \in Calls : (c < d /\ Answered(d) /\ stage[d] = "active") =>
       ~(stage[c] = "new" /\ c \in Range(sendQueue) \cup Range(waiting))

\* Without pipelining the server is never sent a command before it has answered the one before.
SerialOneAtATime == (~pipelining /\ Usable) => Len(wire) <= 1

\* What the server is sent, and when: in the order of the calls, with pipelining and without.
SendOrder == StartOrder /\ SerialOneAtATime

\* With pipelining, a command stays queued only behind a stream that is being written, or until
\* the next tick.
PipelineNeverStuck ==
  (pipelining /\ sendQueue # <<>> /\ handshake # "flush") => tick \/ Head(sendQueue) \in sending

\* With pipelining nothing is written in the middle of a stream, the QUIT of end() included.
StreamNotInterrupted ==
  (pipelining /\ closedBy # "destroy" /\ sending # {} /\ wire # <<>> /\ status # "closed") =>
     /\ \A c \in sending : Active(c) => c = wire[Len(wire)]
     /\ stage[Quit] = "new"

\* When the link fails, every command the server was sent is rejected or about to be.
ErrorSettlesActive ==
  closedBy = "error" => \A c \in Calls : Active(c) => c \in doomed \cup expired

\* With pipelining every call is settled, unless the connection is being or has been closed.
CallsSettle == \A c \in Calls : (pipelining /\ c <= issued) ~> (Settled(c) \/ status \in {"ending", "closed"})

\* end() closes the connection, unless the link is lost or a ping expires meanwhile.
EndCompletes == (pipelining /\ closedBy = "end") ~> (status = "closed" \/ socket = "lost" \/ expired # {})

\* Every call, and end(), comes to its end; a failure of the link reaches all that was sent.
EverythingSettles == CallsSettle /\ EndCompletes /\ []ErrorSettlesActive
=============================================================================

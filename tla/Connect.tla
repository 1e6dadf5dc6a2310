------------------------------ MODULE Connect ------------------------------
(***************************************************************************)
(* A connection from connect() until it is usable, and changeUser() on it: *)
(* lib/connection.js with the commands of lib/cmd/handshake and            *)
(* lib/cmd/change-user.js.                                                 *)
(*                                                                         *)
(* The commands are "auth", the Authentication of connect(); "session",    *)
(* the session query under way; the changes of user in Users, each         *)
(* followed by "names", its SET NAMES; the queries of the client in        *)
(* Queries; and "quit".  exchange is the Authentication or ChangeUser that *)
(* talks to the server with its current plugin: reads names the function   *)
(* its onPacketReceive points to.  ticks are the callbacks of nextTick, in *)
(* their order; nothing else happens before they have run.                 *)
(***************************************************************************)
EXTENDS AuthPlugins, Integers, FiniteSets

CONSTANTS
  Configs,      (* the options to consider, see AuthPlugins; with session, *)
                (* the session queries they ask for, in order; compress;   *)
                (* pipelining                                              *)
  Servers,      (* the servers to consider: first, the plugin they greet   *)
                (* with; tls and compress, what they offer; mariadb; valid *)
                (* and named: the certificate can be verified, and is for  *)
                (* this host; tlsNamed: for the one tls.connect goes by;   *)
                (* genuine: it knows the password; redirects: it may send  *)
                (* the client to another host                              *)
  Users,        (* the changes of user the client asks for                 *)
  Queries,      (* the queries it issues                                   *)
  MaxPackets    (* what a server sends in one exchange, at most, before it *)
                (* gives its verdict                                       *)

ASSUME ConnectAssumption ==
  /\ Users \cap Queries = {}
  /\ (Users \cup Queries) \cap {"auth", "session", "timeout", "names", "quit", "fail", "end", "ended"} = {}
  /\ MaxPackets \in Nat
  /\ \A c \in Configs :
       c.session \in Seq({"charset", "autozone", "timezone", "version", "variables", "init", "timeout"})

VARIABLES
  config, server,
  socket,       \* "opening", "open", "closed"
  status, addCommand,
  timer,        \* the timer of connectTimeout is armed
  connect,      \* the promise of connect(): "pending", "resolved", "rejected"
  rejectFct,    \* connectRejectFct is set
  call,         \* of a change of user or a query: "none", "waits", "names", "resolved", "rejected"
  sendQueue, receiveQueue,
  onEnd,        \* commands whose 'end', and not 'send_end', sends the next one
  wire,         \* commands the server has not finished to answer
  doomed,       \* commands with a setImmediate(throwError) coming
  ticks,
  channel,      \* "plain", "starting" (TLS is being negotiated), "tls"
  exchange,     \* asked, said: the plugin the server has asked for last, the form of what it got;
                \* proven: the verdict came with a proof that the server knows the password
  clearOn,      \* the channels on which the password was written as it is
  session,      \* the session queries that are left
  accepted,     \* those the server has executed
  layers,       \* how many times the client inflates what it reads
  redirect,     \* "no", "asked", "failed", "done"
  uncaught      \* an exception has reached the event loop

setting == <<config, server>>
link == <<socket, status, addCommand, timer, connect, rejectFct>>
queues == <<sendQueue, receiveQueue, onEnd, wire, doomed>>
talk == <<exchange, clearOn>>
prepared == <<session, accepted, layers>>
vars == <<setting, link, queues, ticks, call, channel, talk, prepared, redirect, uncaught>>

Commands == {"auth", "session", "timeout", "names", "quit"} \cup Users \cup Queries
Settled == {"resolved", "rejected"}

Init ==
  /\ config \in Configs /\ server \in Servers
  /\ socket = "opening" /\ channel = "plain"
  /\ status = "CONNECTING" /\ addCommand = "queue" /\ timer = TRUE
  /\ connect = "pending" /\ rejectFct = TRUE
  /\ call = [c \in Users \cup Queries |-> "none"]
  /\ sendQueue = <<>> /\ receiveQueue = <<"auth">> /\ wire = <<"auth">>
  /\ onEnd = {} /\ doomed = {} /\ ticks = <<>>
  /\ exchange = [who |-> "auth", plugin |-> "handshake", reads |-> "greeting", stage |-> "",
                 asked |-> "handshake", said |-> "", packets |-> 0, proven |-> FALSE]
  /\ clearOn = {}
  /\ session = config.session /\ accepted = {} /\ layers = 0
  /\ redirect = "no" /\ uncaught = FALSE

LoopDrained == ticks = <<>> /\ ~uncaught
Shifted(q) == SubSeq(q, 2, Len(q))
Elements(q) == {q[i] : i \in DOMAIN q}
Terminating == status \in {"TERMINATING_SOCKET", "CLOSED"}

\* The driver had to be given a valid certificate and was given what tls.connect does not authorize:
\* one that cannot be verified, or another host's.
SelfSigned == RequireValidCert(config) /\ ~(server.valid /\ server.tlsNamed)
Mode == IF config.pipelining THEN "pipeline" ELSE "enable"

(***************************************************************************)
(* Sending commands: a command that is written lets the next one of the    *)
(* queue go when that waits for its 'send_end'; a change of user begins an *)
(* exchange.                                                               *)
(***************************************************************************)
StartedFrom(q, listeners) ==
  LET stops == {i \in DOMAIN q : q[i] \in listeners} IN
  SubSeq(q, 1, IF stops = {} THEN Len(q) ELSE CHOOSE i \in stops : \A j \in stops : i <= j)

Idle == [exchange EXCEPT !.plugin = "handshake", !.reads = "none", !.stage = "",
                         !.asked = "handshake", !.said = "", !.packets = 0]

\* What ChangeUser.start() says, by info.defaultPluginName, and the exchange it begins.
StartUser(u) ==
  [Idle EXCEPT !.who = u, !.reads = "result", !.proven = FALSE,
     !.said = IF server.first \in {"mysql_native_password", "client_ed25519"} THEN Proof(config) ELSE "empty"]

Written(started, answered, talking, more) ==
  /\ ticks' = more \o (IF "quit" \in Elements(started) THEN <<"ended">> ELSE <<>>)
  /\ wire' = answered \o started
  /\ exchange' \in (IF Users \cap Elements(started) = {} THEN {talking}
                    ELSE {StartUser(u) : u \in Users \cap Elements(started)})
  /\ UNCHANGED clearOn

\* Command c has emitted 'end': nextSendCmd, if that is what it was to send the next one.
SendNext(c, answered, talking, more) ==
  LET started == IF c \in onEnd THEN StartedFrom(sendQueue, onEnd) ELSE <<>> IN
  /\ Written(started, answered, talking, more)
  /\ sendQueue' = SubSeq(sendQueue, Len(started) + 1, Len(sendQueue))

Queued(c, more) == sendQueue' = Append(sendQueue, c) /\ ticks' = more /\ UNCHANGED <<wire, talk>>
WriteNow(c, more) == Written(<<c>>, wire, exchange, more) /\ UNCHANGED sendQueue

AddCommandEnable(c, more) ==
  /\ onEnd' = onEnd \cup {c}
  /\ receiveQueue' = Append(receiveQueue, c)
  /\ IF sendQueue = <<>> /\ receiveQueue = <<>> THEN WriteNow(c, more) ELSE Queued(c, more)

AddCommandEnablePipeline(c, more) ==
  /\ receiveQueue' = Append(receiveQueue, c)
  /\ IF sendQueue = <<>> THEN WriteNow(c, more) ELSE Queued(c, more)
  /\ UNCHANGED onEnd

AddCommand(c, how, more) ==
  IF how = "enable" THEN AddCommandEnable(c, more) ELSE AddCommandEnablePipeline(c, more)

(***************************************************************************)
(* Closing: fatalError with what is in the receiveQueue, the handler of a  *)
(* failed authentication, and the beginning of end().                      *)
(***************************************************************************)
FatalError(commands) ==
  /\ doomed' = doomed \cup {c \in Elements(commands) : c \in {"auth"} \cup Users \cup Elements(wire)}
  /\ receiveQueue' = <<>>
  /\ IF Terminating THEN UNCHANGED <<socket, status, addCommand, sendQueue>>
     ELSE socket' = "closed" /\ status' = "CLOSED" /\ addCommand' = "disabled" /\ sendQueue' = <<>>
  /\ UNCHANGED <<onEnd, wire>>

AuthFailHandlerOpen ==
  /\ timer' = FALSE
  /\ IF rejectFct THEN connect' = "rejected" /\ rejectFct' = FALSE /\ UNCHANGED <<queues, socket, status, addCommand>>
     ELSE UNCHANGED <<queues, socket, status, addCommand, connect, rejectFct>>

AuthFailHandler ==
  /\ timer' = FALSE
  /\ IF rejectFct
       THEN FatalError(Shifted(receiveQueue)) /\ connect' = "rejected" /\ rejectFct' = FALSE
       ELSE UNCHANGED <<queues, socket, status, addCommand, connect, rejectFct>>

\* end(), when the connection is not closing already.
End(more) ==
  /\ addCommand' = "disabled" /\ timer' = FALSE /\ status' = "TERMINATING_SOCKET"
  /\ sendQueue' = Append(sendQueue, "quit") /\ receiveQueue' = Append(receiveQueue, "quit")
  /\ ticks' = IF sendQueue = <<>> THEN Append(more, "quit") ELSE more
  /\ UNCHANGED <<socket, connect, rejectFct, onEnd, wire, doomed>>

(***************************************************************************)
(* authSucceedHandler: the session queries, each when the one before is    *)
(* answered, but for "timeout", the last, whose promise is not returned.   *)
(* "autozone" asks for the time zone, and sets it if it is not the client's.*)
(***************************************************************************)
Issue(commands, how) ==
  /\ receiveQueue' = commands /\ wire' = commands
  /\ onEnd' = IF how = "enable" THEN onEnd \cup Elements(commands) ELSE onEnd
  /\ UNCHANGED <<sendQueue, doomed>>

Ready(commands, how, more) ==
  /\ Issue(commands, how) /\ ticks' = more
  /\ timer' = FALSE /\ status' = "CONNECTED" /\ addCommand' = how
  /\ connect' = (IF connect = "pending" THEN "resolved" ELSE connect) /\ rejectFct' = FALSE
  /\ UNCHANGED socket

ExecuteSessionTimeout(how, more) == IF server.mariadb THEN Ready(<<"timeout">>, how, more) ELSE End(more)

NextSessionQueryUntimed(rest, how, more) ==
  /\ session' = rest
  /\ CASE rest = <<>> -> Ready(<<>>, how, more)
       [] rest = <<"timeout">> -> ExecuteSessionTimeout(how, more)
       [] OTHER -> /\ Issue(<<"session">>, how)
                   /\ status' = "INIT_CMD" /\ addCommand' = how /\ timer' = FALSE /\ ticks' = more
                   /\ UNCHANGED <<socket, connect, rejectFct>>

NextSessionQuery(rest, how, more) ==
  /\ session' = rest
  /\ CASE rest = <<>> -> Ready(<<>>, how, more)
       [] rest = <<"timeout">> -> ExecuteSessionTimeout(how, more)
       [] OTHER -> /\ Issue(<<"session">>, how)
                   /\ status' = "INIT_CMD" /\ addCommand' = how /\ ticks' = more
                   /\ UNCHANGED <<socket, timer, connect, rejectFct>>

AuthSucceedHandler(more) ==
  /\ layers' = layers + (IF config.compress /\ server.compress THEN 1 ELSE 0)
  /\ NextSessionQuery(session, Mode, more)
  /\ UNCHANGED <<accepted, talk>>

\* The error of a session query is fatal when it has been wrapped as such.
SessionRefusedIgnored ==
  /\ NextSessionQuery(Tail(session), addCommand, ticks)
  /\ UNCHANGED <<accepted, layers, talk>>

SessionRefused ==
  /\ IF Head(session) \in {"variables", "init"} THEN AuthFailHandler /\ UNCHANGED ticks ELSE End(ticks)
  /\ UNCHANGED <<prepared, talk>>

SessionAnswered(ok) ==
  /\ LoopDrained /\ socket = "open" /\ redirect # "done" /\ wire = <<"session">>
  /\ IF ~ok THEN SessionRefused
     ELSE /\ accepted' = accepted \cup {Head(session)}
          /\ \E rest \in {Tail(session)} \cup
                  (IF Head(session) = "autozone" THEN {<<"timezone">> \o Tail(session)} ELSE {}) :
               NextSessionQuery(rest, addCommand, ticks)
          /\ UNCHANGED <<layers, talk>>
  /\ UNCHANGED <<setting, call, channel, redirect, uncaught>>

(***************************************************************************)
(* The socket, and the timers.                                             *)
(***************************************************************************)
StillTalking == UNCHANGED <<setting, call, channel, talk, prepared, redirect, uncaught>>

\* A stream of the client may be connected already, and says nothing.
SocketConnects ==
  /\ LoopDrained /\ socket = "opening" /\ socket' = "open"
  /\ status' \in (IF config.via = "stream" THEN {status, "AUTHENTICATING"} ELSE {"AUTHENTICATING"})
  /\ UNCHANGED <<addCommand, timer, connect, rejectFct, queues, ticks>> /\ StillTalking

StreamRefused ==
  /\ LoopDrained /\ socket = "opening" /\ config.via = "stream"
  /\ AuthFailHandler /\ UNCHANGED ticks /\ StillTalking

ConnectTimeoutReached ==
  /\ LoopDrained /\ timer
  /\ AuthFailHandler /\ UNCHANGED ticks /\ StillTalking

SocketErrorHandler ==
  /\ LoopDrained /\ socket # "closed" /\ ~Terminating
  /\ IF status \in {"CONNECTING", "AUTHENTICATING"} THEN AuthFailHandler
     ELSE FatalError(receiveQueue) /\ UNCHANGED <<timer, connect, rejectFct>>
  /\ UNCHANGED ticks /\ StillTalking

SocketTimeoutReached ==
  /\ LoopDrained /\ socket = "open" /\ status \in {"AUTHENTICATING", "INIT_CMD", "CONNECTED"}
  /\ timer' = FALSE /\ FatalError(receiveQueue)
  /\ UNCHANGED <<connect, rejectFct, ticks>> /\ StillTalking

\* setImmediate(throwError) of a command that a fatal error found in the receiveQueue.
ThrowError(c) ==
  /\ LoopDrained /\ c \in doomed
  /\ doomed' = doomed \ {c}
  /\ ticks' = IF c \in {"auth", "session"} \cup Users THEN <<"fail">> ELSE <<>>
  /\ uncaught' = (c = "timeout")
  /\ call' = [d \in DOMAIN call |->
       IF c \in Queries \cap {d} \/ (c = "names" /\ call[d] = "names") THEN "rejected" ELSE call[d]]
  /\ UNCHANGED <<setting, link, sendQueue, receiveQueue, onEnd, wire, channel, talk, prepared, redirect>>

(***************************************************************************)
(* The exchange.  An error of a plugin, or one of the server, goes to      *)
(* authFailHandler and leaves the command in the receiveQueue; one of      *)
(* Authentication itself ends the command.                                 *)
(***************************************************************************)
PluginThrows ==
  /\ exchange' = Idle /\ ticks' = Append(ticks, "fail")
  /\ UNCHANGED <<link, queues, clearOn, redirect>>

CommandOver(tick, answered, talking) ==
  /\ receiveQueue' = Shifted(receiveQueue)
  /\ SendNext(exchange.who, answered, talking, Append(ticks, tick))
  /\ UNCHANGED <<onEnd, doomed>>

CommandThrows(answered) == CommandOver("fail", answered, Idle) /\ UNCHANGED <<link, redirect>>

Channel == IF channel = "plain" /\ config.via = "pipe" THEN "pipe" ELSE channel

WrittenOver(form, over) == clearOn' = IF form = "clear" THEN clearOn \cup {over} ELSE clearOn

\* What plugin p does, for the server that has asked for it: it speaks, waits, or fails.
Speak(reply, p, asked) ==
  IF reply.fails THEN PluginThrows
  ELSE /\ exchange' = [exchange EXCEPT !.plugin = p, !.reads = reply.reads, !.stage = reply.stage,
                          !.asked = asked, !.said = reply.says, !.packets = @ + 1]
       /\ WrittenOver(reply.says, Channel)
       /\ UNCHANGED <<link, queues, ticks, redirect>>

\* Handshake.send.
SendResponse(over) ==
  LET form == IF server.first = "mysql_clear_password" THEN ClearOrBlank(config) ELSE Proof(config) IN
  /\ exchange' = [exchange EXCEPT !.reads = "result", !.said = form]
  /\ WrittenOver(form, over)
  /\ UNCHANGED <<link, queues, ticks, redirect>>

\* The packet the server sends now, which the client handles.
Sends(packet) ==
  /\ LoopDrained /\ socket = "open" /\ redirect # "done" /\ channel # "starting"
  /\ exchange.reads # "none" /\ wire # <<>> /\ Head(wire) = exchange.who
  /\ packet \in (IF exchange.reads = "greeting" THEN {"greeting", "err"}
                 ELSE IF exchange.asked # exchange.plugin THEN {"err"}
                 ELSE ServerMaySend(exchange.asked, exchange.said))
  /\ exchange.packets >= MaxPackets => packet \notin {"switch", "question"}
  /\ UNCHANGED <<setting, call, prepared>>

ParseHandshakeInit ==
  /\ Sends("greeting")
  /\ IF \/ server.first = "mysql_clear_password" /\ ~IsSecureConnection(config)
        \/ config.ssl # "none" /\ ~server.tls
       THEN PluginThrows /\ UNCHANGED channel
     ELSE IF config.ssl # "none"
       THEN channel' = "starting" /\ UNCHANGED <<link, queues, ticks, talk, redirect>>
     ELSE SendResponse(Channel) /\ UNCHANGED channel
  /\ UNCHANGED uncaught

\* tls.connect checks the certificate itself, unless createSecureContext says not to.
TlsRejects ==
  /\ SelfSigned
  /\ ~(server.mariadb /\ config.via # "pipe" /\ config.password /\ config.ssl # "ca")

SecureConnected ==
  /\ LoopDrained /\ socket = "open" /\ channel = "starting"
  /\ IF TlsRejects THEN AuthFailHandler /\ UNCHANGED <<channel, talk, ticks, redirect>>
     ELSE /\ channel' = "tls"
          /\ IF SelfSigned /\ config.password /\ server.first = "mysql_clear_password"
               THEN PluginThrows ELSE SendResponse("tls")
  /\ UNCHANGED <<setting, call, prepared, uncaught>>

AuthError ==
  /\ Sends("err") /\ exchange.reads # "salt"
  /\ exchange' = Idle /\ ticks' = Append(ticks, "fail") /\ wire' = Tail(wire)
  /\ UNCHANGED <<link, sendQueue, receiveQueue, onEnd, doomed, channel, clearOn, redirect, uncaught>>

ProofAsked == config.password /\ exchange.plugin \in {"handshake"} \cup MitmProof

\* validateFingerPrint throws on a hash of another kind, and where hash() of the plugin throws.
FingerprintThrows(right) == SelfSigned /\ ProofAsked /\ (right => exchange.plugin = "client_ed25519")

\* Variant: any hash will do.
AcceptsUnproven(right) ==
  RequireValidCert(config) => IF SelfSigned THEN ProofAsked /\ exchange.plugin # "client_ed25519" ELSE server.named

\* The checks of handshakeResult on an OK packet, that may carry a proof.
Accepts(right) ==
  RequireValidCert(config) =>
    IF SelfSigned THEN right /\ ProofAsked /\ ~FingerprintThrows(right) ELSE server.named

SuccessEnd(right) == CommandOver(exchange.who, Tail(wire), [Idle EXCEPT !.proven = right])

\* A redirection is followed before the command ends.
AuthOk(right) ==
  /\ Sends("ok") /\ (right => server.genuine)
  /\ \/ /\ FingerprintThrows(right) /\ uncaught' = TRUE
        /\ UNCHANGED <<link, queues, ticks, talk, redirect>>
     \/ /\ ~Accepts(right) /\ (right => ~FingerprintThrows(right))
        /\ CommandThrows(Tail(wire)) /\ UNCHANGED uncaught
     \/ Accepts(right) /\ SuccessEnd(right) /\ UNCHANGED <<link, redirect, uncaught>>
     \/ /\ Accepts(right) /\ server.redirects /\ exchange.who = "auth"
        /\ redirect' = "asked" /\ exchange' = [Idle EXCEPT !.proven = right]
        /\ UNCHANGED <<link, queues, ticks, clearOn, uncaught>>
  /\ UNCHANGED channel

\* dispatchAuthSwitchRequest: a plugin the driver does not have is an exception, caught there.
AuthSwitch(p) ==
  /\ Sends("switch") /\ exchange.reads = "result"
  /\ IF config.allowed # {} /\ p \notin config.allowed THEN CommandThrows(wire)
     ELSE IF p \notin Plugins THEN
       /\ AuthFailHandler /\ exchange' = Idle
       /\ UNCHANGED <<ticks, clearOn, redirect>>
     ELSE IF \/ RequireSecure(p) /\ ~IsSecureConnection(config)
             \/ SelfSigned /\ config.password /\ p \notin MitmProof
       THEN CommandThrows(wire)
     ELSE Speak(Start(p, config), p, p)
  /\ UNCHANGED <<channel, uncaught>>

\* response(): anything but OK and an error, a request for another plugin included.
PluginResponse(packet) ==
  /\ Sends(packet) /\ packet \notin {"ok", "err"} /\ exchange.reads = "response"
  /\ Speak(Response(exchange.plugin, exchange.stage, packet, config, SelfSigned), exchange.plugin,
           IF packet = "switch" THEN "other" ELSE exchange.asked)
  /\ UNCHANGED <<channel, uncaught>>

\* requestForSalt() goes on after the error of a salt it cannot read, and fails on it.
RequestForSalt(packet) ==
  /\ Sends(packet) /\ exchange.reads = "salt"
  /\ IF packet = "salt" THEN Speak(SendScramble, "parsec", "parsec") ELSE PluginThrows
  /\ uncaught' = (packet # "salt")
  /\ UNCHANGED channel

(***************************************************************************)
(* redirect(), when the server asks for it in the answer of connect(): the *)
(* connection made to the other host replaces this one after its end().    *)
(***************************************************************************)
RedirectFails ==
  /\ LoopDrained /\ redirect = "asked" /\ status # "TERMINATING_SOCKET"
  /\ redirect' = "failed" /\ SuccessEnd(exchange.proven)
  /\ UNCHANGED <<setting, link, call, channel, prepared, uncaught>>

\* What the answer to end() does: streams and status of the other connection, not its queues.
Replaced ==
  /\ socket' = "open" /\ status' = "CONNECTED" /\ redirect' = "done"
  /\ layers' = IF config.compress /\ server.compress THEN 1 ELSE 0
  /\ sendQueue' = <<>> /\ receiveQueue' = <<>> /\ wire' = <<>> /\ ticks' = <<"auth">>

RedirectConnects ==
  /\ LoopDrained /\ redirect = "asked" /\ status # "TERMINATING_SOCKET"
  /\ IF Terminating THEN Replaced /\ UNCHANGED <<addCommand, timer, connect, rejectFct, onEnd, doomed>>
     ELSE End(ticks) /\ UNCHANGED <<layers, redirect>>
  /\ UNCHANGED <<setting, call, channel, talk, session, accepted, uncaught>>

\* The other connection reads the answers, and waits for none.
Misrouted ==
  /\ LoopDrained /\ redirect = "done" /\ wire # <<>>
  /\ uncaught' = TRUE
  /\ UNCHANGED <<setting, link, queues, ticks, call, channel, talk, prepared, redirect>>

(***************************************************************************)
(* The client, once connected.                                             *)
(***************************************************************************)
Query(q) ==
  /\ LoopDrained /\ connect = "resolved" /\ call[q] = "none"
  /\ IF addCommand = "disabled"
       THEN call' = [call EXCEPT ![q] = "rejected"] /\ UNCHANGED <<queues, talk, ticks>>
       ELSE /\ call' = [call EXCEPT ![q] = "waits"]
            /\ AddCommand(q, addCommand, ticks) /\ UNCHANGED doomed
  /\ UNCHANGED <<setting, link, channel, prepared, redirect, uncaught>>

ChangeUserPipelined(u, wrong) ==
  /\ LoopDrained /\ connect = "resolved" /\ call[u] = "none"
  /\ call' = [call EXCEPT ![u] = IF wrong \/ ~server.mariadb THEN "rejected" ELSE "waits"]
  /\ IF wrong \/ ~server.mariadb \/ Terminating THEN UNCHANGED <<queues, talk, ticks>>
     ELSE AddCommand(u, addCommand, ticks) /\ UNCHANGED doomed
  /\ UNCHANGED <<setting, link, channel, prepared, redirect, uncaught>>

\* A wrong option is found after addCommand has been set; a closed connection tells nobody.
ChangeUser(u, wrong) ==
  /\ LoopDrained /\ connect = "resolved" /\ call[u] = "none"
  /\ addCommand' = IF server.mariadb /\ ~Terminating THEN "enable" ELSE addCommand
  /\ call' = [call EXCEPT ![u] = IF wrong \/ ~server.mariadb THEN "rejected" ELSE "waits"]
  /\ IF wrong \/ ~server.mariadb \/ Terminating THEN UNCHANGED <<queues, talk, ticks>>
     ELSE AddCommandEnable(u, ticks) /\ UNCHANGED doomed
  /\ UNCHANGED <<setting, socket, status, timer, connect, rejectFct, channel, prepared, redirect, uncaught>>

\* The server answers a query; the answer to SET NAMES ends a change of user.
Answered(c, ok) ==
  /\ LoopDrained /\ socket = "open" /\ redirect # "done" /\ wire # <<>>
  /\ c = Head(wire) /\ c \in Queries \cup {"names", "timeout"}
  /\ call' = [d \in DOMAIN call |->
       IF d = c \/ (c = "names" /\ call[d] = "names") THEN (IF ok THEN "resolved" ELSE "rejected") ELSE call[d]]
  /\ uncaught' = (c = "timeout" /\ ~ok)
  /\ receiveQueue' = Shifted(receiveQueue)
  /\ SendNext(c, Tail(wire), exchange, IF c = "names" /\ ~ok THEN <<"end">> ELSE <<>>)
  /\ UNCHANGED <<setting, link, onEnd, doomed, channel, prepared, redirect>>

\* The user is changed: the mode of addCommand is restored, and the charset set if it has to be.
UserChanged(u, names, more) ==
  /\ addCommand' = IF ~Terminating THEN Mode ELSE addCommand
  /\ call' = [call EXCEPT ![u] = IF ~names THEN "resolved"
                                ELSE IF addCommand' = "disabled" THEN "rejected" ELSE "names"]
  /\ IF names /\ addCommand' # "disabled" THEN AddCommand("names", addCommand', more) /\ UNCHANGED doomed
     ELSE ticks' = more /\ UNCHANGED <<queues, talk>>
  /\ UNCHANGED <<socket, status, timer, connect, rejectFct, prepared, redirect>>

(***************************************************************************)
(* The callbacks of nextTick.                                              *)
(***************************************************************************)
\* The answer to end(): the socket is closed, and what was to be done next is done.
QuitEnded(more) ==
  IF redirect = "asked" THEN Replaced /\ UNCHANGED <<addCommand, timer, connect, rejectFct, onEnd, doomed>>
  ELSE /\ socket' = "closed" /\ status' = "CLOSED" /\ ticks' = more
       /\ connect' = (IF rejectFct THEN "rejected" ELSE connect) /\ rejectFct' = FALSE
       /\ sendQueue' = <<>> /\ receiveQueue' = <<>>
       /\ UNCHANGED <<addCommand, timer, onEnd, wire, doomed, layers, redirect>>

\* A redirection that fails comes back to a connection its timer may have closed: nothing to write on.
NoStream == socket = "closed" /\ (session # <<>> \/ (config.compress /\ server.compress))

NextTick ==
  /\ ticks # <<>> /\ ~uncaught
  /\ LET tick == Head(ticks)
         more == Tail(ticks)
     IN
     \/ /\ tick = "auth" /\ ~NoStream
        /\ AuthSucceedHandler(more) /\ UNCHANGED <<call, redirect, uncaught>>
     \/ /\ tick = "auth" /\ NoStream
        /\ ticks' = more /\ uncaught' = TRUE
        /\ UNCHANGED <<link, queues, call, talk, prepared, redirect>>
     \/ tick \in Users /\ \E names \in BOOLEAN : UserChanged(tick, names, more)
     \/ tick = "fail" /\ AuthFailHandler /\ ticks' = more /\ UNCHANGED <<call, talk, prepared, redirect>>
     \/ tick = "end" /\ End(more) /\ UNCHANGED <<call, talk, prepared, redirect>>
     \/ tick = "quit" /\ sendQueue' = <<>> /\ ticks' = Append(more, "ended")
        /\ UNCHANGED <<link, receiveQueue, onEnd, wire, doomed, call, talk, prepared, redirect>>
     \/ tick = "ended" /\ QuitEnded(more) /\ UNCHANGED <<call, talk, session, accepted>>
  /\ Head(ticks) # "auth" => UNCHANGED uncaught
  /\ UNCHANGED <<setting, channel>>

\* What the server does when it is its turn.
ServerAnswers ==
  \/ ParseHandshakeInit \/ SecureConnected \/ AuthError
  \/ \E right \in BOOLEAN : AuthOk(right)
  \/ \E p \in Plugins \cup {"other"} : AuthSwitch(p)
  \/ \E packet \in Packets : PluginResponse(packet) \/ RequestForSalt(packet)
  \/ \E ok \in BOOLEAN : SessionAnswered(ok)
  \/ \E c \in Queries \cup {"names", "timeout"}, ok \in BOOLEAN : Answered(c, ok)

Next ==
  \/ NextTick \/ ServerAnswers
  \/ SocketConnects \/ StreamRefused \/ ConnectTimeoutReached \/ SocketErrorHandler \/ SocketTimeoutReached
  \/ \E c \in Commands : ThrowError(c)
  \/ RedirectFails \/ RedirectConnects \/ Misrouted
  \/ \E q \in Queries : Query(q)
  \/ \E u \in Users, wrong \in BOOLEAN : ChangeUser(u, wrong)

Spec == Init /\ [][Next]_vars

\* The event loop goes on; nothing is asked of the server.
LoopSpec ==
  /\ Spec
  /\ WF_vars(NextTick) /\ WF_vars(ConnectTimeoutReached)
  /\ \A c \in Commands : WF_vars(ThrowError(c))

\* The server answers what it is asked as well.
FairSpec == LoopSpec /\ WF_vars(ServerAnswers)

(***************************************************************************)
(* Properties.                                                             *)
(***************************************************************************)
\* A connection that asked for a valid certificate is handed out only if it got one for its host, or
\* a proof that the server knows the password, whatever certificate it shows (handshakeResult,
\* createSecureContext).
ReadyOnlyIfVerified ==
  connect = "resolved" /\ redirect # "done" /\ RequireValidCert(config) =>
    channel = "tls" /\ ((server.valid /\ server.named) \/ (server.genuine /\ config.password))

\* The password itself is never written where it can be read on the way, nor to a server whose
\* certificate had to be authorized by tls.connect and is not, whatever plugins the server asks for in
\* whatever order.  (A certificate that only handshakeResult finds to be another host's is exempt.)
PasswordKept == "plain" \notin clearOn /\ (SelfSigned => "tls" \notin clearOn)

\* A connection is handed out with every session query accepted by the server, and with compression
\* on both sides or on none (authSucceedHandler).
SessionPrepared ==
  connect = "resolved" /\ redirect # "done" =>
    /\ Elements(config.session) \ {"timeout", "autozone"} \subseteq accepted
    /\ layers = (IF config.compress /\ server.compress THEN 1 ELSE 0)

\* What connect() has rejected stays closed: no later event of the handshake, of the session queries
\* or of a timer revives it (authFailHandler, fatalError, end).  Not so of a redirection that has
\* failed, or has replaced the connection.
RejectedStaysClosed ==
  connect = "rejected" /\ redirect \in {"no", "asked"} =>
    socket = "closed" /\ status = "CLOSED" /\ addCommand = "disabled" /\ sendQueue = <<>>

\* While a change of user talks with the server nothing is written behind it: the server would take
\* it for an answer to its own question (changeUser turns pipelining off).  For one change of user at
\* a time: of two, the first that is over turns pipelining on again while the second is talking.
NothingInsideExchange ==
  exchange.reads # "none" /\ wire # <<>> /\ Head(wire) = exchange.who => Len(wire) = 1

\* connect() settles, whatever the server and the socket do: the timer guards the handshake and the
\* session queries.  Not so after a redirection, whose queries nobody answers.
ConnectSettles == connect = "pending" ~> connect # "pending" \/ redirect = "done" \/ uncaught

\* "@returns {Promise} promise" of connection-promise.js, and the callback of changeUser that is
\* given "err: SqlError | null": a change of user that has been sent is answered, or refused.
ChangeUserReported ==
  \A u \in Users : (call[u] = "waits" /\ exchange.who = u) ~> (call[u] \in Settled \/ uncaught)

=============================================================================

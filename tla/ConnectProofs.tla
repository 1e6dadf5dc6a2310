---------------------------- MODULE ConnectProofs ----------------------------
(***************************************************************************)
(* Proofs about the establishment of a connection, for every set of        *)
(* options and servers, any users and queries, and exchanges of any length.*)
(***************************************************************************)
EXTENDS Connect, SequenceLemmas, TLAPS

-----------------------------------------------------------------------------
(***************************************************************************)
(* The plugins: what each can say.                                         *)
(***************************************************************************)
Forms == {"", "hash", "empty", "clear", "blank", "rsa", "key?", "literal", "nothing"}
Reads == {"greeting", "result", "response", "salt", "none"}
Stages == {"", "initial", "asked", "FAST_AUTH_RESULT", "REQUEST_SERVER_KEY", "SEND_AUTH"}
Replies == [says : Forms, reads : Reads \ {"greeting"}, stage : Stages, fails : BOOLEAN]

\* The plugins that go on when the server does: none of them proves who the server is.
Answering == {"mysql_clear_password", "dialog", "sha256_password", "caching_sha2_password"}

\* A plugin that is asked for says the password as it is only if it has one to say, and is one of
\* those that require a secure connection, or that looks for TLS itself.
LEMMA StartSays ==
  ASSUME NEW p \in Plugins, NEW o
  PROVE  /\ Start(p, o) \in Replies
         /\ Start(p, o).reads = "response" => p \in Answering
         /\ Start(p, o).says = "clear" =>
              o.password /\ p \in Answering /\ (RequireSecure(p) \/ IsSecureConnection(o))
<1> USE DEF Start, Says, Fails, Replies, Forms, Reads, Stages, Answering
<1>1. CASE p = "mysql_native_password"
  BY <1>1 DEF NativeStart, Proof
<1>2. CASE p = "client_ed25519"
  BY <1>2 DEF Ed25519Start, Proof
<1>3. CASE p = "mysql_clear_password"
  BY <1>3 DEF ClearStart, ClearOrBlank, RequireSecure
<1>4. CASE p = "dialog"
  BY <1>4 DEF PamExchange, ClearOrBlank, RequireSecure
<1>5. CASE p = "parsec"
  BY <1>5 DEF ParsecStart
<1>6. CASE p = "sha256_password"
  BY <1>6 DEF Sha256Start, IsSecureConnection
<1>7. CASE p = "caching_sha2_password"
  BY <1>7 DEF CachingStart, Proof
<1> QED
  BY <1>1, <1>2, <1>3, <1>4, <1>5, <1>6, <1>7 DEF Plugins

\* So does a plugin that goes on: clear text is for a secure connection.
LEMMA ResponseSays ==
  ASSUME NEW p \in Answering, NEW stage \in Stages, NEW packet, NEW o, NEW selfSigned
  PROVE  /\ Response(p, stage, packet, o, selfSigned) \in Replies
         /\ ~Response(p, stage, packet, o, selfSigned).fails => Response(p, stage, packet, o, selfSigned).reads = "response"
         /\ Response(p, stage, packet, o, selfSigned).says = "clear" =>
              o.password /\ (p = "dialog" \/ IsSecureConnection(o))
<1> USE DEF Response, Says, Fails, Replies, Forms, Reads, Stages
<1>1. CASE p = "mysql_clear_password"
  BY <1>1 DEF ClearResponse
<1>2. CASE p = "dialog"
  BY <1>2 DEF PamExchange, ClearOrBlank
<1>3. CASE p = "sha256_password"
  BY <1>3 DEF Sha256Response, Sha256Start, IsSecureConnection
<1>4. CASE p = "caching_sha2_password"
  BY <1>4 DEF CachingResponse, CachingFull, ClearOrBlank, Unheard
<1> QED
  BY <1>1, <1>2, <1>3, <1>4 DEF Answering

-----------------------------------------------------------------------------
(***************************************************************************)
(* The inductive invariant.  Unaccepted is the time before the driver has  *)
(* accepted a verdict of the server: nothing can be sent but by the        *)
(* exchange itself, and the only callback that can come is that of a       *)
(* failure.  It ends with a server that is Verified.  The password, or a   *)
(* proof of it, is spoken of only once the channel is Secured.             *)
(***************************************************************************)
ExchangeOK ==
  exchange \in [who : Commands, plugin : Plugins \cup {"handshake"}, reads : Reads, stage : Stages,
                asked : Plugins \cup {"handshake", "other"}, said : Forms, packets : Nat, proven : BOOLEAN]

Unaccepted ==
  /\ connect # "resolved" /\ redirect = "no" /\ sendQueue = <<>>
  /\ wire \in {<<>>, <<"auth">>} /\ receiveQueue \in {<<>>, <<"auth">>} /\ doomed \subseteq {"auth"}
  /\ ticks \in {<<>>, <<"fail">>} /\ exchange.who = "auth"

Verified == RequireValidCert(config) => (server.valid /\ server.named) \/ (server.genuine /\ config.password)

Secured == config.ssl = "none" \/ channel = "tls"

Staged ==
  /\ channel \in {"plain", "starting", "tls"} /\ (config.ssl = "none" => channel = "plain")
  /\ exchange.reads = "greeting" => channel # "tls"
  /\ Verified \/ Unaccepted
  /\ Secured \/ (Unaccepted /\ exchange.reads \in {"greeting", "none"})

\* The plugin that waits for the server may speak here.
PluginAllowed ==
  exchange.reads = "response" =>
    /\ exchange.plugin \in Answering
    /\ RequireSecure(exchange.plugin) => IsSecureConnection(config)
    /\ ~(SelfSigned /\ config.password)

ConnectInv == ExchangeOK /\ Staged /\ PluginAllowed /\ PasswordKept

-----------------------------------------------------------------------------
(***************************************************************************)
(* What is said.                                                           *)
(***************************************************************************)
\* Nothing is said, or the change of a user begins.
Quiet ==
  /\ clearOn' = clearOn
  /\ \/ exchange' = exchange
     \/ \E b \in BOOLEAN : exchange' = [Idle EXCEPT !.proven = b]
     \/ \E u \in Users : exchange' = StartUser(u)

\* What the exchange is when it is over.
LEMMA IdleOK == ASSUME ExchangeOK PROVE Idle = [Idle EXCEPT !.proven = exchange.proven] /\ exchange.proven \in BOOLEAN
BY DEF ExchangeOK, Idle

\* A quiet step says no password, and lets no plugin speak.
LEMMA QuietStep ==
  ASSUME ConnectInv, Quiet, UNCHANGED setting
  PROVE  ExchangeOK' /\ PluginAllowed' /\ PasswordKept'
<1> USE DEF ConnectInv
<1>1. SelfSigned' = SelfSigned /\ config' = config
  BY DEF SelfSigned, RequireValidCert, setting
<1>2. PasswordKept'
  BY <1>1 DEF PasswordKept, Quiet
<1>3. CASE exchange' = exchange
  BY <1>1, <1>2, <1>3 DEF ExchangeOK, PluginAllowed
<1>4. ASSUME NEW b \in BOOLEAN, exchange' = [Idle EXCEPT !.proven = b]
      PROVE  ExchangeOK' /\ PluginAllowed'
  BY <1>4 DEF ExchangeOK, PluginAllowed, Idle, Reads, Stages, Forms
<1>5. ASSUME NEW u \in Users, exchange' = StartUser(u)
      PROVE  ExchangeOK' /\ PluginAllowed'
  <2> DEFINE form == IF server.first \in {"mysql_native_password", "client_ed25519"} THEN Proof(config) ELSE "empty"
  <2>1. form \in Forms /\ u \in Commands
    BY DEF Forms, Proof, Commands
  <2>2. exchange' = [Idle EXCEPT !.who = u, !.reads = "result", !.proven = FALSE, !.said = form]
    BY <1>5 DEF StartUser
  <2> HIDE DEF form
  <2>3. Idle \in [who : Commands, plugin : Plugins \cup {"handshake"}, reads : Reads, stage : Stages,
                 asked : Plugins \cup {"handshake", "other"}, said : Forms, packets : Nat, proven : BOOLEAN]
    BY DEF ExchangeOK, Idle, Reads, Stages, Forms
  <2>4. exchange'.reads = "result" /\ ExchangeOK'
    BY <2>1, <2>2, <2>3 DEF ExchangeOK, Reads
  <2> QED
    BY <2>4 DEF PluginAllowed
<1> QED
  BY <1>2, <1>3, <1>4, <1>5 DEF Quiet

\* A plugin that may speak here, and its packet.
LEMMA SpeakStep ==
  ASSUME ConnectInv, UNCHANGED setting, NEW p \in Plugins, NEW asked \in Plugins \cup {"other"}, NEW reply \in Replies,
         Speak(reply, p, asked), Secured,
         reply.says = "clear" => config.password /\ p \in Answering /\ IsSecureConnection(config),
         ~reply.fails /\ reply.reads = "response" => p \in Answering,
         p \in Answering => ~(SelfSigned /\ config.password),
         RequireSecure(p) => IsSecureConnection(config)
  PROVE  ExchangeOK' /\ PluginAllowed' /\ PasswordKept'
<1> USE DEF ConnectInv
<1>1. SelfSigned' = SelfSigned /\ config' = config
  BY DEF SelfSigned, RequireValidCert, setting
<1>2. CASE reply.fails
  <2>1. exchange' = Idle /\ clearOn' = clearOn
    BY <1>2 DEF Speak, PluginThrows
  <2>2. Quiet
    BY <2>1, IdleOK DEF Quiet
  <2> QED
    BY <2>2, QuietStep
<1>3. CASE ~reply.fails
  <2>1. /\ exchange' = [exchange EXCEPT !.plugin = p, !.reads = reply.reads, !.stage = reply.stage,
                          !.asked = asked, !.said = reply.says, !.packets = @ + 1]
        /\ WrittenOver(reply.says, Channel)
    BY <1>3 DEF Speak
  <2>2. reply.reads \in Reads /\ reply.stage \in Stages /\ reply.says \in Forms
    BY DEF Replies
  <2>3. ExchangeOK' /\ exchange'.plugin = p /\ exchange'.reads = reply.reads
    <3> DEFINE n == exchange.packets + 1
    <3>1. n \in Nat /\ p \in Plugins \cup {"handshake"} /\ asked \in Plugins \cup {"handshake", "other"}
      BY DEF ExchangeOK
    <3>2. exchange' = [exchange EXCEPT !.plugin = p, !.reads = reply.reads, !.stage = reply.stage,
                          !.asked = asked, !.said = reply.says, !.packets = n]
      BY <2>1
    <3> HIDE DEF n
    <3> QED
      BY <2>2, <3>1, <3>2 DEF ExchangeOK
  <2>4. PluginAllowed'
    BY <1>1, <1>3, <2>3 DEF PluginAllowed
  <2>5. PasswordKept'
    <3>1. CASE reply.says = "clear"
      <4>1. Channel # "plain" /\ ~SelfSigned
        BY <3>1 DEF Channel, Secured, IsSecureConnection, Staged
      <4> QED
        BY <1>1, <2>1, <3>1, <4>1 DEF WrittenOver, PasswordKept
    <3>2. CASE reply.says # "clear"
      BY <1>1, <2>1, <3>2 DEF WrittenOver, PasswordKept
    <3> QED
      BY <3>1, <3>2
  <2> QED
    BY <2>3, <2>4, <2>5
<1> QED
  BY <1>2, <1>3

\* The answer to the greeting, over a channel that may carry it.
LEMMA SendResponseStep ==
  ASSUME ConnectInv, UNCHANGED setting, NEW over, SendResponse(over),
         server.first = "mysql_clear_password" /\ config.password => over # "plain" /\ (over = "tls" => ~SelfSigned)
  PROVE  ExchangeOK' /\ PluginAllowed' /\ PasswordKept' /\ exchange'.who = exchange.who
<1> USE DEF ConnectInv
<1> DEFINE form == IF server.first = "mysql_clear_password" THEN ClearOrBlank(config) ELSE Proof(config)
<1>1. SelfSigned' = SelfSigned /\ config' = config
  BY DEF SelfSigned, RequireValidCert, setting
<1>2. form \in Forms /\ (form = "clear" => server.first = "mysql_clear_password" /\ config.password)
  BY DEF ClearOrBlank, Proof, Forms
<1>3. exchange' = [exchange EXCEPT !.reads = "result", !.said = form] /\ WrittenOver(form, over)
  BY DEF SendResponse
<1> HIDE DEF form
<1>4. ExchangeOK' /\ PluginAllowed' /\ exchange'.who = exchange.who
  BY <1>2, <1>3 DEF ExchangeOK, PluginAllowed, Reads
<1>5. PasswordKept'
  BY <1>1, <1>2, <1>3 DEF WrittenOver, PasswordKept
<1> QED
  BY <1>4, <1>5

-----------------------------------------------------------------------------
(***************************************************************************)
(* What is sent and closed before the driver has accepted a verdict.       *)
(***************************************************************************)
\* A step of the exchange that leaves it where it was, or goes on to the server that is Verified.
LEMMA StagedStep ==
  ASSUME ConnectInv, UNCHANGED setting, channel' = channel, exchange'.reads = "greeting" => exchange' = exchange,
         Unaccepted => Verified \/ Unaccepted',
         Unaccepted /\ exchange.reads \in {"greeting", "none"} =>
           Secured \/ (Unaccepted' /\ exchange'.reads \in {"greeting", "none"})
  PROVE  Staged'
BY DEF ConnectInv, Staged, Verified, Secured, RequireValidCert, setting

\* Nothing is said and nothing has been accepted yet, or long ago.
LEMMA QuietInv ==
  ASSUME ConnectInv, Quiet, UNCHANGED setting, channel' = channel,
         Unaccepted => Unaccepted' /\ (exchange' = exchange \/ exchange'.reads = "none")
  PROVE  ConnectInv'
<1>1. exchange'.reads = "greeting" => exchange' = exchange
  BY DEF Quiet, Idle, StartUser, ConnectInv, ExchangeOK
<1>2. Staged'
  BY <1>1, StagedStep
<1> QED
  BY <1>2, QuietStep DEF ConnectInv

\* What is left of a queue of one.
LEMMA ShortQueues ==
  /\ Shifted(<<>>) = <<>>
  /\ \A x : Shifted(<<x>>) = <<>> /\ Head(<<x>>) = x /\ Tail(<<x>>) = <<>> /\ <<x>> # <<>>
<1>1. Shifted(<<>>) = <<>>
  BY DEF Shifted
<1>2. ASSUME NEW x PROVE Shifted(<<x>>) = <<>> /\ Head(<<x>>) = x /\ Tail(<<x>>) = <<>> /\ <<x>> # <<>>
  <2>1. <<x>> \in Seq({x}) /\ Len(<<x>>) = 1 /\ <<x>>[1] = x
    OBVIOUS
  <2>2. Head(<<x>>) = x /\ Tail(<<x>>) = <<>> /\ <<x>> # <<>>
    BY <2>1
  <2>3. SubSeq(<<x>>, 2, 1) = <<>>
    BY <2>1
  <2> QED
    BY <2>1, <2>2, <2>3 DEF Shifted
<1> QED
  BY <1>1, <1>2

\* A failed authentication closes what there is.
LEMMA FailUnaccepted ==
  ASSUME Unaccepted, AuthFailHandler
  PROVE  /\ connect' # "resolved" /\ sendQueue' = <<>> /\ wire' = wire /\ doomed' \subseteq {"auth"}
         /\ receiveQueue' \in {<<>>, <<"auth">>}
<1>1. CASE ~rejectFct
  BY <1>1 DEF AuthFailHandler, Unaccepted, queues
<1>2. CASE rejectFct
  <2>1. FatalError(Shifted(receiveQueue)) /\ connect' = "rejected"
    BY <1>2 DEF AuthFailHandler
  <2>2. Shifted(receiveQueue) = <<>>
    BY ShortQueues, Zenon DEF Unaccepted
  <2>3. Elements(Shifted(receiveQueue)) = {}
    BY <2>2 DEF Elements
  <2> QED
    BY <2>1, <2>3 DEF FatalError, Unaccepted
<1> QED
  BY <1>1, <1>2

\* The command that is answered leaves an empty queue behind.
LEMMA OverEmpty ==
  ASSUME sendQueue = <<>>, ticks = <<>>, NEW tick, NEW answered, NEW talking, CommandOver(tick, answered, talking)
  PROVE  sendQueue' = <<>> /\ wire' = answered \o <<>> /\ ticks' = <<tick>> /\ exchange' = talking
<1> DEFINE started == IF exchange.who \in onEnd THEN StartedFrom(sendQueue, onEnd) ELSE <<>>
<1>1. StartedFrom(<<>>, onEnd) = <<>>
  BY DEF StartedFrom
<1>2. started = <<>> /\ Elements(started) = {} /\ Len(started) = 0
  BY <1>1 DEF Elements
<1>3. /\ Written(started, answered, talking, Append(ticks, tick))
      /\ sendQueue' = SubSeq(sendQueue, Len(started) + 1, Len(sendQueue))
  BY DEF CommandOver, SendNext
<1> HIDE DEF started
<1>4. sendQueue' = <<>>
  BY <1>2, <1>3
<1>5. ticks' = <<tick>>
  BY <1>2, <1>3 DEF Written
<1>6. exchange' = talking /\ wire' = answered \o <<>>
  BY <1>2, <1>3 DEF Written
<1> QED
  BY <1>4, <1>5, <1>6

\* Before the verdict the queue of the answers is one command long.
LEMMA OverUnaccepted ==
  ASSUME Unaccepted, ticks = <<>>, NEW tick, NEW answered, NEW talking, CommandOver(tick, answered, talking)
  PROVE  /\ sendQueue' = <<>> /\ wire' = answered \o <<>> /\ ticks' = <<tick>> /\ doomed' = doomed
         /\ receiveQueue' \in {<<>>, <<"auth">>} /\ exchange' = talking
<1>1. sendQueue' = <<>> /\ wire' = answered \o <<>> /\ ticks' = <<tick>> /\ exchange' = talking
  BY OverEmpty DEF Unaccepted
<1>2. receiveQueue' = Shifted(receiveQueue) /\ doomed' = doomed
  BY DEF CommandOver
<1>3. receiveQueue' \in {<<>>, <<"auth">>}
  BY <1>2, ShortQueues DEF Unaccepted
<1> QED
  BY <1>1, <1>2, <1>3

\* Whatever commands are sent, the exchange goes on as it was told, or is one of a change of user.
LEMMA WrittenQuiet ==
  ASSUME NEW started, NEW answered, NEW talking, NEW more, Written(started, answered, talking, more)
  PROVE  clearOn' = clearOn /\ (exchange' = talking \/ \E u \in Users : exchange' = StartUser(u))
BY DEF Written

\* To add a command says nothing, unless it begins a change of user.
LEMMA AddCommandQuiet ==
  ASSUME NEW c, NEW how, NEW more, AddCommand(c, how, more) PROVE Quiet
<1>1. WriteNow(c, more) \/ Queued(c, more)
  BY DEF AddCommand, AddCommandEnable, AddCommandEnablePipeline
<1>2. CASE WriteNow(c, more)
  BY <1>2, WrittenQuiet DEF WriteNow, Quiet
<1>3. CASE Queued(c, more)
  BY <1>3 DEF Queued, talk, Quiet
<1> QED
  BY <1>1, <1>2, <1>3

-----------------------------------------------------------------------------
(***************************************************************************)
(* The steps.                                                              *)
(***************************************************************************)
\* The socket, the timers and the errors they come with.
LEMMA SocketInv ==
  ASSUME ConnectInv,
         SocketConnects \/ StreamRefused \/ ConnectTimeoutReached \/ SocketErrorHandler \/ SocketTimeoutReached
  PROVE  ConnectInv'
<1>1. UNCHANGED <<setting, call, channel, talk, prepared, redirect, uncaught>>
  BY DEF SocketConnects, StreamRefused, ConnectTimeoutReached, SocketErrorHandler, SocketTimeoutReached, StillTalking
<1>2. Quiet /\ exchange' = exchange
  BY <1>1 DEF Quiet, talk
<1>3. ASSUME Unaccepted PROVE Unaccepted'
  <2>1. ticks' = ticks /\ redirect' = redirect
    BY <1>1 DEF SocketConnects, StreamRefused, ConnectTimeoutReached, SocketErrorHandler, SocketTimeoutReached
  <2>2. CASE SocketConnects
    BY <1>2, <1>3, <2>1, <2>2 DEF SocketConnects, queues, Unaccepted
  <2>3. CASE AuthFailHandler
    BY <1>2, <1>3, <2>1, <2>3, FailUnaccepted DEF Unaccepted
  <2>4. CASE FatalError(receiveQueue) /\ connect' = connect
    <3>1. Elements(receiveQueue) \subseteq {"auth"}
      BY <1>3 DEF Unaccepted, Elements
    <3> QED
      BY <1>2, <1>3, <2>1, <2>4, <3>1 DEF FatalError, Unaccepted
  <2> QED
    BY <2>2, <2>3, <2>4 DEF StreamRefused, ConnectTimeoutReached, SocketErrorHandler, SocketTimeoutReached
<1> QED
  BY <1>1, <1>2, <1>3, QuietInv

\* An error thrown later on.
LEMMA ThrowErrorInv == ASSUME ConnectInv, NEW c \in Commands, ThrowError(c) PROVE ConnectInv'
<1>1. /\ UNCHANGED <<setting, link, sendQueue, receiveQueue, onEnd, wire, channel, talk, prepared, redirect>>
      /\ c \in doomed /\ doomed' = doomed \ {c}
      /\ ticks' = IF c \in {"auth", "session"} \cup Users THEN <<"fail">> ELSE <<>>
  BY DEF ThrowError
<1>2. Quiet /\ exchange' = exchange
  BY <1>1 DEF Quiet, talk
<1>3. Unaccepted => Unaccepted'
  BY <1>1, <1>2 DEF Unaccepted, link
<1> QED
  BY <1>1, <1>2, <1>3, QuietInv

\* A callback says nothing, unless a user has been changed and another change begins.
LEMMA NextTickQuiet ==
  ASSUME NextTick
  PROVE  /\ ticks # <<>> /\ UNCHANGED <<setting, channel>> /\ Quiet
         /\ redirect' \in {redirect, "done"} /\ (redirect' # "no" => redirect # "no")
<1> DEFINE tick == Head(ticks)
           more == Tail(ticks)
<1>1. /\ ticks # <<>> /\ UNCHANGED <<setting, channel>>
      /\ \/ AuthSucceedHandler(more) /\ UNCHANGED redirect
         \/ UNCHANGED <<talk, redirect>>
         \/ UNCHANGED talk /\ redirect = "asked" /\ redirect' = "done"
         \/ \E names \in BOOLEAN : UserChanged(tick, names, more)
  BY DEF NextTick, QuitEnded, Replaced
<1>2. ASSUME NEW names \in BOOLEAN, UserChanged(tick, names, more) PROVE Quiet /\ redirect' = redirect
  <2>1. CASE names /\ addCommand' # "disabled"
    BY <1>2, <2>1, AddCommandQuiet DEF UserChanged
  <2>2. CASE ~(names /\ addCommand' # "disabled")
    BY <1>2, <2>2 DEF UserChanged, talk, Quiet
  <2> QED
    BY <2>1, <2>2 DEF UserChanged
<1> QED
  BY <1>1, <1>2 DEF AuthSucceedHandler, talk, Quiet

\* A callback.
LEMMA NextTickInv == ASSUME ConnectInv, NextTick PROVE ConnectInv'
<1> DEFINE tick == Head(ticks)
           more == Tail(ticks)
<1>1. /\ ticks # <<>> /\ UNCHANGED <<setting, channel>>
      /\ \/ tick = "auth" /\ AuthSucceedHandler(more)
         \/ tick = "auth" /\ UNCHANGED talk
         \/ tick \in Users /\ \E names \in BOOLEAN : UserChanged(tick, names, more)
         \/ tick = "fail" /\ AuthFailHandler /\ ticks' = more /\ UNCHANGED <<call, talk, prepared, redirect>>
         \/ tick \in {"end", "quit", "ended"} /\ UNCHANGED talk
  BY DEF NextTick
<1>2. Quiet
  BY NextTickQuiet
<1>3. ASSUME Unaccepted PROVE Unaccepted' /\ exchange' = exchange
  <2>1. tick = "fail" /\ more = <<>>
    BY <1>1, <1>3, ShortQueues, Zenon DEF Unaccepted
  <2>2. tick \notin Users /\ tick # "auth" /\ tick \notin {"end", "quit", "ended"}
    BY <2>1, ConnectAssumption
  <2>3. AuthFailHandler /\ ticks' = more /\ UNCHANGED <<call, talk, prepared, redirect>>
    BY <1>1, <2>2
  <2> QED
    BY <1>3, <2>1, <2>3, FailUnaccepted DEF Unaccepted, talk
<1> QED
  BY <1>1, <1>2, <1>3, QuietInv

\* An error of a plugin.
LEMMA ThrowsStep ==
  ASSUME ConnectInv, PluginThrows, LoopDrained
  PROVE  Quiet /\ exchange'.reads = "none" /\ (Unaccepted => Unaccepted')
<1>1. exchange' = Idle /\ ticks' = Append(ticks, "fail") /\ UNCHANGED <<link, queues, clearOn, redirect>>
  BY DEF PluginThrows
<1>2. exchange'.reads = "none" /\ exchange'.who = exchange.who
  BY <1>1 DEF Idle, ConnectInv, ExchangeOK
<1>3. Quiet
  BY <1>1, IdleOK DEF Quiet, ConnectInv
<1>4. ticks' = <<"fail">>
  BY <1>1 DEF LoopDrained
<1> QED
  BY <1>1, <1>2, <1>3, <1>4 DEF Unaccepted, link, queues

\* The greeting.
LEMMA GreetingInv == ASSUME ConnectInv, ParseHandshakeInit PROVE ConnectInv'
<1>1. LoopDrained /\ channel # "starting" /\ exchange.reads = "greeting" /\ UNCHANGED setting
  BY DEF ParseHandshakeInit, Sends, ServerMaySend, Verdicts
<1>2. CASE PluginThrows /\ UNCHANGED channel
  BY <1>1, <1>2, ThrowsStep, QuietInv
<1>3. CASE config.ssl # "none" /\ channel' = "starting" /\ UNCHANGED <<link, queues, ticks, talk, redirect>>
  <2>1. Unaccepted' /\ exchange' = exchange /\ clearOn' = clearOn /\ exchange.reads = "greeting"
    BY <1>1, <1>3 DEF ConnectInv, Staged, Secured, link, queues, talk, Unaccepted
  <2>2. Staged'
    BY <1>1, <1>3, <2>1 DEF Staged, setting
  <2>3. Quiet
    BY <2>1 DEF Quiet
  <2> QED
    BY <1>1, <2>2, <2>3, QuietStep DEF ConnectInv
<1>4. CASE /\ ~(server.first = "mysql_clear_password" /\ ~IsSecureConnection(config))
           /\ config.ssl = "none" /\ SendResponse(Channel) /\ UNCHANGED channel
  <2>1. server.first = "mysql_clear_password" => Channel # "plain" /\ Channel # "tls"
    BY <1>4 DEF ConnectInv, Staged, Channel, IsSecureConnection
  <2>2. ExchangeOK' /\ PluginAllowed' /\ PasswordKept' /\ exchange'.who = exchange.who
    BY <1>1, <1>4, <2>1, SendResponseStep
  <2>3. exchange'.reads = "result" /\ UNCHANGED <<link, queues, ticks, redirect>>
    BY <1>4 DEF SendResponse, ConnectInv, ExchangeOK
  <2>4. Staged'
    BY <1>1, <1>4, <2>2, <2>3, StagedStep DEF Secured, Unaccepted, link, queues
  <2> QED
    BY <2>2, <2>4 DEF ConnectInv
<1> QED
  BY <1>2, <1>3, <1>4 DEF ParseHandshakeInit

\* TLS is there, or not.
LEMMA SecureConnectedInv == ASSUME ConnectInv, SecureConnected PROVE ConnectInv'
<1>1. LoopDrained /\ channel = "starting" /\ UNCHANGED setting
  BY DEF SecureConnected
<1>2. config.ssl # "none" /\ Unaccepted /\ exchange.reads \in {"greeting", "none"}
  BY <1>1 DEF ConnectInv, Staged, Secured
<1>3. CASE AuthFailHandler /\ UNCHANGED <<channel, talk, ticks, redirect>>
  <2>1. Unaccepted' /\ Quiet /\ exchange' = exchange
    BY <1>2, <1>3, FailUnaccepted DEF Unaccepted, talk, Quiet
  <2> QED
    BY <1>1, <1>3, <2>1, QuietInv
<1>4. ASSUME channel' = "tls", ExchangeOK' /\ PluginAllowed' /\ PasswordKept', Unaccepted', exchange'.reads # "greeting"
      PROVE  ConnectInv'
  BY <1>1, <1>2, <1>4 DEF ConnectInv, Staged, Secured, setting
<1>5. CASE channel' = "tls" /\ PluginThrows
  BY <1>1, <1>2, <1>4, <1>5, ThrowsStep, QuietStep
<1>6. CASE channel' = "tls" /\ SendResponse("tls") /\ ~(SelfSigned /\ config.password /\ server.first = "mysql_clear_password")
  <2>1. ExchangeOK' /\ PluginAllowed' /\ PasswordKept' /\ exchange'.who = exchange.who
    BY <1>1, <1>6, SendResponseStep
  <2>2. exchange'.reads = "result" /\ UNCHANGED <<link, queues, ticks, redirect>>
    BY <1>6 DEF SendResponse, ConnectInv, ExchangeOK
  <2> QED
    BY <1>2, <1>4, <1>6, <2>1, <2>2 DEF Unaccepted, link, queues
<1> QED
  BY <1>3, <1>5, <1>6 DEF SecureConnected

\* What the server may send in an exchange.
LEMMA SendsPacket ==
  ASSUME NEW packet, Sends(packet)
  PROVE  /\ LoopDrained /\ ticks = <<>> /\ UNCHANGED setting /\ exchange.reads # "none" /\ wire # <<>>
         /\ packet \notin {"greeting", "err"} => exchange.reads # "greeting"
BY DEF Sends, LoopDrained

\* An error of the server.
LEMMA AuthErrorInv == ASSUME ConnectInv, AuthError PROVE ConnectInv'
<1>1. /\ ticks = <<>> /\ UNCHANGED setting /\ wire # <<>>
      /\ exchange' = Idle /\ ticks' = Append(ticks, "fail") /\ wire' = Tail(wire)
      /\ UNCHANGED <<link, sendQueue, receiveQueue, onEnd, doomed, channel, clearOn, redirect, uncaught>>
  BY SendsPacket DEF AuthError
<1>2. Quiet /\ exchange'.reads = "none" /\ exchange'.who = exchange.who
  BY <1>1, IdleOK DEF Quiet, Idle, ConnectInv, ExchangeOK
<1>3. ticks' = <<"fail">>
  BY <1>1
<1>4. Unaccepted => wire' = <<>>
  BY <1>1, ShortQueues, Zenon DEF Unaccepted
<1>5. Unaccepted => Unaccepted'
  BY <1>1, <1>2, <1>3, <1>4 DEF Unaccepted, link
<1> QED
  BY <1>1, <1>2, <1>5, QuietInv

\* An error of the driver itself.
LEMMA CommandThrowsInv ==
  ASSUME ConnectInv, UNCHANGED <<setting, channel>>, ticks = <<>>, NEW answered,
         Unaccepted => answered \in {<<>>, <<"auth">>}, CommandThrows(answered)
  PROVE  ConnectInv'
<1>1. CommandOver("fail", answered, Idle) /\ UNCHANGED <<link, redirect>>
  BY DEF CommandThrows
<1>2. Quiet
  <2>1. PICK started, more : Written(started, answered, Idle, more)
    BY <1>1 DEF CommandOver, SendNext
  <2>2. clearOn' = clearOn /\ (exchange' = Idle \/ \E u \in Users : exchange' = StartUser(u))
    BY <2>1, WrittenQuiet
  <2> QED
    BY <2>2, IdleOK DEF Quiet, ConnectInv
<1>3. ASSUME Unaccepted PROVE Unaccepted' /\ exchange'.reads = "none"
  <2>1. /\ sendQueue' = <<>> /\ wire' = answered \o <<>> /\ ticks' = <<"fail">> /\ doomed' = doomed
        /\ receiveQueue' \in {<<>>, <<"auth">>} /\ exchange' = Idle
    BY <1>1, <1>3, OverUnaccepted
  <2>2. answered \o <<>> \in {<<>>, <<"auth">>}
    BY <1>3
  <2>3. exchange'.reads = "none" /\ exchange'.who = exchange.who
    BY <2>1 DEF Idle, ConnectInv, ExchangeOK
  <2> QED
    BY <1>1, <1>3, <2>1, <2>2, <2>3 DEF Unaccepted, link
<1> QED
  BY <1>2, <1>3, QuietInv

\* The verdict.
LEMMA AuthOkInv == ASSUME ConnectInv, NEW right \in BOOLEAN, AuthOk(right) PROVE ConnectInv'
<1>1. /\ ticks = <<>> /\ UNCHANGED <<setting, channel>> /\ exchange.reads \notin {"greeting", "none"} /\ wire # <<>>
      /\ right => server.genuine
  BY SendsPacket DEF AuthOk
<1>2. CASE ~Accepts(right) /\ CommandThrows(Tail(wire))
  <2>1. CommandThrows(Tail(wire))
    BY <1>2
  <2>2. Unaccepted => Tail(wire) \in {<<>>, <<"auth">>}
    BY <1>1, ShortQueues, Zenon DEF Unaccepted
  <2> QED
    BY <1>1, <2>1, <2>2, CommandThrowsInv
<1>3. CASE Accepts(right) /\ (SuccessEnd(right) \/ (exchange' = [Idle EXCEPT !.proven = right] /\ UNCHANGED clearOn))
  <2>1. Verified
    BY <1>1, <1>3 DEF Accepts, ProofAsked, Verified, SelfSigned
  <2>2. Quiet
    <3>1. CASE SuccessEnd(right)
      <4>1. PICK started, answered, more : Written(started, answered, [Idle EXCEPT !.proven = right], more)
        BY <3>1 DEF SuccessEnd, CommandOver, SendNext
      <4> QED
        BY <4>1, WrittenQuiet DEF Quiet
    <3>2. CASE exchange' = [Idle EXCEPT !.proven = right] /\ UNCHANGED clearOn
      BY <3>2 DEF Quiet
    <3> QED
      BY <1>3, <3>1, <3>2
  <2>3. ExchangeOK' /\ PluginAllowed' /\ PasswordKept'
    BY <1>1, <2>2, QuietStep
  <2>4. Staged'
    <3>1. exchange'.reads = "greeting" => exchange' = exchange
      BY <2>2 DEF Quiet, Idle, StartUser, ConnectInv, ExchangeOK
    <3> QED
      BY <1>1, <2>1, <3>1, StagedStep
  <2> QED
    BY <2>3, <2>4 DEF ConnectInv
<1>4. CASE FingerprintThrows(right) /\ UNCHANGED <<link, queues, ticks, talk, redirect>>
  <2>1. Quiet
    BY <1>4 DEF Quiet, talk
  <2>2. ExchangeOK' /\ PluginAllowed' /\ PasswordKept'
    BY <1>1, <2>1, QuietStep
  <2>3. exchange' = exchange /\ (Unaccepted => Unaccepted')
    BY <1>4 DEF Unaccepted, link, queues, talk
  <2>4. Staged'
    BY <1>1, <2>3, StagedStep
  <2> QED
    BY <2>2, <2>4 DEF ConnectInv
<1> QED
  BY <1>2, <1>3, <1>4 DEF AuthOk

\* A plugin speaks: nothing else is sent.
LEMMA SpeakInv ==
  ASSUME ConnectInv, UNCHANGED <<setting, channel>>, LoopDrained, exchange.reads \notin {"greeting", "none"},
         NEW p \in Plugins, NEW asked \in Plugins \cup {"other"}, NEW reply \in Replies,
         Speak(reply, p, asked),
         reply.says = "clear" => config.password /\ p \in Answering /\ IsSecureConnection(config),
         ~reply.fails /\ reply.reads = "response" => p \in Answering,
         p \in Answering => ~(SelfSigned /\ config.password),
         RequireSecure(p) => IsSecureConnection(config)
  PROVE  ConnectInv'
<1>1. Secured
  BY DEF ConnectInv, Staged
<1>2. ExchangeOK' /\ PluginAllowed' /\ PasswordKept'
  BY <1>1, SpeakStep
<1>3. exchange'.reads # "greeting" /\ (Unaccepted => Unaccepted')
  <2>1. CASE reply.fails
    BY <2>1, ThrowsStep DEF Speak
  <2>2. CASE ~reply.fails
    <3>1. exchange' = [exchange EXCEPT !.plugin = p, !.reads = reply.reads, !.stage = reply.stage,
                          !.asked = asked, !.said = reply.says, !.packets = @ + 1]
          /\ UNCHANGED <<link, queues, ticks, redirect>>
      BY <2>2 DEF Speak
    <3>2. exchange'.reads = reply.reads /\ exchange'.who = exchange.who /\ reply.reads # "greeting"
      BY <3>1 DEF ConnectInv, ExchangeOK, Replies
    <3> QED
      BY <3>1, <3>2 DEF Unaccepted, link, queues
  <2> QED
    BY <2>1, <2>2
<1>4. Staged'
  BY <1>1, <1>3, StagedStep
<1> QED
  BY <1>2, <1>4 DEF ConnectInv

\* The server asks for another plugin.
LEMMA AuthSwitchInv == ASSUME ConnectInv, NEW p \in Plugins \cup {"other"}, AuthSwitch(p) PROVE ConnectInv'
<1>1. LoopDrained /\ ticks = <<>> /\ UNCHANGED <<setting, channel>> /\ exchange.reads = "result"
  BY SendsPacket DEF AuthSwitch
<1>2. CASE CommandThrows(wire)
  BY <1>1, <1>2, CommandThrowsInv DEF Unaccepted
<1>3. CASE AuthFailHandler /\ exchange' = Idle /\ UNCHANGED <<ticks, clearOn, redirect>>
  <2>1. Quiet /\ exchange'.reads = "none" /\ exchange'.who = exchange.who
    BY <1>3, IdleOK DEF Quiet, Idle, ConnectInv, ExchangeOK
  <2>2. Unaccepted => Unaccepted'
    BY <1>1, <1>3, <2>1, FailUnaccepted DEF Unaccepted
  <2> QED
    BY <1>1, <2>1, <2>2, QuietInv
<1>4. CASE /\ p \in Plugins /\ Speak(Start(p, config), p, p)
           /\ ~(RequireSecure(p) /\ ~IsSecureConnection(config))
           /\ ~(SelfSigned /\ config.password /\ p \notin MitmProof)
  <2>1. /\ Start(p, config) \in Replies
        /\ Start(p, config).reads = "response" => p \in Answering
        /\ Start(p, config).says = "clear" =>
             config.password /\ p \in Answering /\ (RequireSecure(p) \/ IsSecureConnection(config))
    BY <1>4, StartSays
  <2>2. p \in Answering => p \notin MitmProof
    BY DEF Answering, MitmProof
  <2> QED
    BY <1>1, <1>4, <2>1, <2>2, SpeakInv
<1> QED
  BY <1>2, <1>3, <1>4 DEF AuthSwitch

\* The server goes on with the plugin, or sends the salt it has asked for.
LEMMA PluginResponseInv == ASSUME ConnectInv, NEW packet, PluginResponse(packet) PROVE ConnectInv'
<1> DEFINE p == exchange.plugin
           reply == Response(p, exchange.stage, packet, config, SelfSigned)
           asked == IF packet = "switch" THEN "other" ELSE exchange.asked
<1>1. LoopDrained /\ UNCHANGED <<setting, channel>> /\ exchange.reads = "response" /\ Speak(reply, p, asked)
  BY SendsPacket DEF PluginResponse
<1>2. /\ p \in Answering /\ (RequireSecure(p) => IsSecureConnection(config)) /\ ~(SelfSigned /\ config.password)
      /\ exchange.stage \in Stages
  BY <1>1 DEF ConnectInv, PluginAllowed, ExchangeOK
<1>3. /\ reply \in Replies /\ (~reply.fails => reply.reads = "response")
      /\ reply.says = "clear" => config.password /\ (p = "dialog" \/ IsSecureConnection(config))
  BY <1>2, ResponseSays
<1>4. p \in Plugins
  BY <1>2 DEF Answering, Plugins
<1>5. RequireSecure("dialog")
  BY DEF RequireSecure
<1>6. asked \in Plugins \cup {"other"}
  <2>1. exchange.asked = exchange.plugin \/ packet = "err"
    BY <1>1 DEF PluginResponse, Sends
  <2>2. packet # "err"
    BY DEF PluginResponse
  <2> QED
    BY <1>4, <2>1, <2>2
<1> HIDE DEF reply, asked
<1>7. p \in Plugins /\ exchange.reads \notin {"greeting", "none"}
  BY <1>1, <1>4
<1>8. reply.says = "clear" => config.password /\ p \in Answering /\ IsSecureConnection(config)
  BY <1>2, <1>3, <1>5
<1> HIDE DEF p
<1> QED
  BY <1>1, <1>2, <1>3, <1>6, <1>7, <1>8, SpeakInv

\* The salt of parsec, and what comes instead of it.
LEMMA RequestForSaltInv == ASSUME ConnectInv, NEW packet, RequestForSalt(packet) PROVE ConnectInv'
<1>1. LoopDrained /\ UNCHANGED <<setting, channel>> /\ exchange.reads = "salt"
  BY SendsPacket DEF RequestForSalt
<1>2. CASE PluginThrows
  BY <1>1, <1>2, ThrowsStep, QuietInv
<1>3. CASE Speak(SendScramble, "parsec", "parsec")
  <2>1. /\ SendScramble \in Replies /\ SendScramble.says = "hash" /\ SendScramble.reads = "result"
        /\ "parsec" \in Plugins /\ "parsec" \notin Answering /\ ~RequireSecure("parsec")
    BY DEF SendScramble, Says, Replies, Forms, Reads, Stages, Plugins, Answering, RequireSecure
  <2> QED
    BY <1>1, <1>3, <2>1, SpeakInv
<1> QED
  BY <1>2, <1>3 DEF RequestForSalt

\* Queries, before and after.
LEMMA AnswersInv ==
  ASSUME ConnectInv,
         \/ \E ok \in BOOLEAN : SessionAnswered(ok)
         \/ \E c \in Queries \cup {"names", "timeout"}, ok \in BOOLEAN : Answered(c, ok)
  PROVE  ConnectInv'
<1>1. CASE \E ok \in BOOLEAN : SessionAnswered(ok)
  <2>1. wire = <<"session">> /\ UNCHANGED <<setting, channel, talk>>
    BY <1>1 DEF SessionAnswered, SessionRefused
  <2>2. ~Unaccepted /\ Quiet
    <3>1. <<"session">> # <<>> /\ <<"session">> # <<"auth">>
      OBVIOUS
    <3> QED
      BY <2>1, <3>1 DEF Unaccepted, talk, Quiet
  <2> QED
    BY <2>1, <2>2, QuietInv
<1>2. ASSUME NEW c \in Queries \cup {"names", "timeout"}, NEW ok \in BOOLEAN, Answered(c, ok)
      PROVE  ConnectInv'
  <2>1. /\ wire # <<>> /\ c = Head(wire) /\ UNCHANGED <<setting, channel>>
        /\ \E more : SendNext(c, Tail(wire), exchange, more)
    BY <1>2 DEF Answered
  <2>2. ~Unaccepted
    <3>1. c # "auth"
      BY ConnectAssumption
    <3> QED
      BY <2>1, <3>1, ShortQueues, Zenon DEF Unaccepted
  <2>3. Quiet
    <3>1. PICK started, more : Written(started, Tail(wire), exchange, more)
      BY <2>1 DEF SendNext
    <3> QED
      BY <3>1, WrittenQuiet DEF Quiet
  <2> QED
    BY <2>1, <2>2, <2>3, QuietInv
<1> QED
  BY <1>1, <1>2

\* The client adds commands once the connection has been accepted.
LEMMA ClientQuiet ==
  ASSUME (\E q \in Queries : Query(q)) \/ (\E u \in Users, wrong \in BOOLEAN : ChangeUser(u, wrong))
  PROVE  connect = "resolved" /\ UNCHANGED <<setting, channel>> /\ Quiet
<1>1. connect = "resolved" /\ UNCHANGED <<setting, channel>>
  BY DEF Query, ChangeUser
<1>2. Quiet
  <2>1. CASE UNCHANGED talk
    BY <2>1 DEF talk, Quiet
  <2>2. CASE \E c, how, more : AddCommand(c, how, more)
    BY <2>2, AddCommandQuiet
  <2>3. ASSUME NEW u, AddCommandEnable(u, ticks) PROVE \E c, how, more : AddCommand(c, how, more)
    <3>1. AddCommand(u, "enable", ticks)
      BY <2>3 DEF AddCommand
    <3> QED
      BY <3>1
  <2> QED
    BY <2>1, <2>2, <2>3 DEF Query, ChangeUser
<1> QED
  BY <1>1, <1>2

\* So the invariant is kept.
LEMMA ClientInv ==
  ASSUME ConnectInv, (\E q \in Queries : Query(q)) \/ (\E u \in Users, wrong \in BOOLEAN : ChangeUser(u, wrong))
  PROVE  ConnectInv'
BY ClientQuiet, QuietInv DEF Unaccepted

\* A redirection follows a verdict that was accepted.
LEMMA RedirectQuiet ==
  ASSUME ConnectInv, RedirectFails \/ RedirectConnects \/ Misrouted
  PROVE  redirect # "no" /\ UNCHANGED <<setting, channel>> /\ Quiet
<1>1. redirect # "no" /\ UNCHANGED <<setting, channel>>
  BY DEF RedirectFails, RedirectConnects, Misrouted
<1>2. Quiet
  <2>1. CASE RedirectFails
    <3>1. PICK started, answered, more : Written(started, answered, [Idle EXCEPT !.proven = exchange.proven], more)
      BY <2>1 DEF RedirectFails, SuccessEnd, CommandOver, SendNext
    <3>2. exchange.proven \in BOOLEAN
      BY DEF ConnectInv, ExchangeOK
    <3> QED
      BY <3>1, <3>2, WrittenQuiet DEF Quiet
  <2>2. CASE RedirectConnects \/ Misrouted
    BY <2>2 DEF RedirectConnects, Misrouted, talk, Quiet
  <2> QED
    BY <2>1, <2>2
<1> QED
  BY <1>1, <1>2

\* So the invariant is kept.
LEMMA RedirectInv == ASSUME ConnectInv, RedirectFails \/ RedirectConnects \/ Misrouted PROVE ConnectInv'
BY RedirectQuiet, QuietInv DEF Unaccepted

\* Every step preserves the invariant.
LEMMA ConnectStep == ConnectInv /\ [Next]_vars => ConnectInv'
<1> SUFFICES ASSUME ConnectInv, [Next]_vars PROVE ConnectInv'
  OBVIOUS
<1>1. CASE UNCHANGED vars
  <2>1. UNCHANGED <<setting, channel, talk>> /\ UNCHANGED <<link, queues, ticks, redirect>>
    BY <1>1 DEF vars
  <2>2. Quiet /\ exchange' = exchange /\ (Unaccepted => Unaccepted')
    BY <2>1 DEF talk, Quiet, Unaccepted, link, queues
  <2> QED
    BY <2>1, <2>2, QuietInv
<1>2. CASE ServerAnswers
  BY <1>2, GreetingInv, SecureConnectedInv, AuthErrorInv, AuthOkInv, AuthSwitchInv, PluginResponseInv,
     RequestForSaltInv, AnswersInv DEF ServerAnswers
<1> QED
  BY <1>1, <1>2, NextTickInv, SocketInv, ThrowErrorInv, RedirectInv, ClientInv DEF Next

\* The connection begins with nothing said and nothing accepted.
LEMMA ConnectInit == Init => ConnectInv
<1> SUFFICES ASSUME Init PROVE ConnectInv
  OBVIOUS
<1>1. exchange = [who |-> "auth", plugin |-> "handshake", reads |-> "greeting", stage |-> "",
                  asked |-> "handshake", said |-> "", packets |-> 0, proven |-> FALSE]
  BY DEF Init
<1>2. ExchangeOK
  <2>1. /\ "auth" \in Commands /\ "greeting" \in Reads /\ "" \in Stages /\ "" \in Forms /\ 0 \in Nat
        /\ "handshake" \in Plugins \cup {"handshake"} /\ "handshake" \in Plugins \cup {"handshake", "other"}
    BY DEF Commands, Reads, Stages, Forms
  <2> QED
    BY <1>1, <2>1 DEF ExchangeOK
<1>3. channel = "plain" /\ exchange.reads = "greeting" /\ exchange.who = "auth" /\ clearOn = {}
  <2>1. channel = "plain" /\ clearOn = {}
    BY Zenon DEF Init
  <2> QED
    BY <1>1, <2>1
<1>5. Unaccepted
  <2>1. connect = "pending" /\ redirect = "no" /\ sendQueue = <<>> /\ doomed = {} /\ ticks = <<>>
    BY Zenon DEF Init
  <2>2. wire = <<"auth">> /\ receiveQueue = <<"auth">>
    BY Zenon DEF Init
  <2> QED
    BY <1>3, <2>1, <2>2, Zenon DEF Unaccepted
<1>4. Staged
  BY <1>3, <1>5 DEF Staged
<1> QED
  BY <1>2, <1>3, <1>4 DEF ConnectInv, PluginAllowed, PasswordKept

\* No plugin the server asks for, in whatever order, makes the driver write the password where it can
\* be read on the way, or to a server whose certificate had to be valid and is not: not in connect(),
\* and not in a change of user.
THEOREM ConnectPasswordKept == Spec => []PasswordKept
<1>1. ConnectInv => PasswordKept
  BY DEF ConnectInv
<1> QED
  BY <1>1, ConnectInit, ConnectStep, PTL DEF Spec

\* A connection that asked for a valid certificate is handed out only when it got one for its host,
\* or the server has proven that it knows the password, whatever certificate it showed.
THEOREM ConnectReadyOnlyIfVerified == Spec => []ReadyOnlyIfVerified
<1>1. ConnectInv => ReadyOnlyIfVerified
  BY DEF ConnectInv, ReadyOnlyIfVerified, Staged, Unaccepted, Verified, Secured, RequireValidCert
<1> QED
  BY <1>1, ConnectInit, ConnectStep, PTL DEF Spec

-----------------------------------------------------------------------------
(***************************************************************************)
(* What is rejected stays closed.  Until connect() settles, a connection   *)
(* is being opened and nothing waits to be sent (Opening), or it is shut   *)
(* and only a failure can be told of, or it says goodbye (Quitting).  A    *)
(* redirection is asked for once: after it connect() talks no more.        *)
(***************************************************************************)
Shut == socket = "closed" /\ status = "CLOSED" /\ addCommand = "disabled" /\ sendQueue = <<>>
Failing == ticks \in {<<>>, <<"fail">>}
Quitting ==
  /\ status = "TERMINATING_SOCKET" /\ addCommand = "disabled"
  /\ (sendQueue = <<"quit">> /\ ticks = <<"quit">>) \/ (sendQueue = <<>> /\ ticks = <<"ended">>)
Opening == ~Terminating /\ sendQueue = <<>> /\ ticks \in {<<>>, <<"fail">>, <<"auth">>}

Direct == redirect \in {"no", "asked"}
Connecting == exchange.who = "auth" /\ wire \in {<<>>, <<"auth">>, <<"session">>}

Closing ==
  Direct =>
    /\ connect \in {"pending", "resolved", "rejected"} /\ (rejectFct <=> connect = "pending")
    /\ connect = "rejected" => Shut /\ Failing
    /\ connect = "pending" => Connecting /\ (Quitting \/ (Shut /\ Failing) \/ Opening)

Over == channel # "starting" /\ exchange.reads # "greeting" /\ (exchange.who = "auth" => exchange.reads = "none")

Redirected == redirect # "no" => Over

CloseInv == ConnectInv /\ Redirected /\ Closing

\* The exchange stays, ends, begins with another user, or goes on.
GoesOn ==
  \/ exchange' = exchange
  \/ exchange'.reads = "none"
  \/ \E u \in Users : exchange' = StartUser(u)
  \/ exchange.reads # "none" /\ exchange'.who = exchange.who /\ exchange'.reads # "greeting"

\* What a change of user begins is not the exchange of connect().
LEMMA StartUserWho ==
  ASSUME ExchangeOK PROVE \A u \in Users : StartUser(u).who # "auth" /\ StartUser(u).reads = "result"
<1> SUFFICES ASSUME NEW u \in Users PROVE StartUser(u).who # "auth" /\ StartUser(u).reads = "result"
  OBVIOUS
<1>1. u # "auth"
  BY ConnectAssumption
<1> DEFINE form == IF server.first \in {"mysql_native_password", "client_ed25519"} THEN Proof(config) ELSE "empty"
<1>2. StartUser(u) = [Idle EXCEPT !.who = u, !.reads = "result", !.proven = FALSE, !.said = form]
  BY DEF StartUser
<1> HIDE DEF form
<1> QED
  BY <1>1, <1>2 DEF ExchangeOK, Idle

\* When the exchange of connect() is over it stays so.
LEMMA OverKept ==
  ASSUME ConnectInv, GoesOn, Over, channel' = "starting" => channel = "starting" PROVE Over'
<1>1. exchange'.reads # "greeting" /\ (exchange'.who = "auth" => exchange'.reads = "none")
  BY StartUserWho DEF GoesOn, Over, ConnectInv
<1> QED
  BY <1>1 DEF Over

\* Once a redirection has been asked for, the exchange of connect() is over.
LEMMA RedirectedKept ==
  ASSUME CloseInv, GoesOn,
         channel' = "starting" => channel = "starting" \/ redirect' = "no",
         redirect' # "no" => redirect # "no" \/ (exchange'.reads = "none" /\ channel' # "starting")
  PROVE  Redirected'
<1>1. ASSUME redirect' # "no", redirect # "no" PROVE Redirected'
  BY <1>1, OverKept DEF CloseInv, Redirected
<1> QED
  BY <1>1 DEF Redirected, Over

\* A quiet step is one of those.
LEMMA QuietGoesOn ==
  ASSUME ConnectInv, Quiet PROVE GoesOn
BY DEF Quiet, GoesOn, Idle, ConnectInv, ExchangeOK

\* Nothing happens to a connection that is resolved.
LEMMA ResolvedKept ==
  ASSUME Closing, Direct' => Direct /\ connect = "resolved" /\ connect' = connect /\ rejectFct' = rejectFct
  PROVE  Closing'
BY DEF Closing

\* A step of the exchange: the socket is open, so that connect() is pending and opening, or resolved.
LEMMA OpenKept ==
  ASSUME Closing, socket = "open", ticks = <<>>, UNCHANGED link, Direct' => Direct,
         Opening /\ Connecting => sendQueue' = <<>> /\ Connecting' /\ ticks' \in {<<>>, <<"fail">>, <<"auth">>}
  PROVE  Closing'
<1> SUFFICES ASSUME Direct, Direct' PROVE Closing'
  BY DEF Closing
<1>1. ~Quitting /\ ~Shut
  BY DEF Quitting, Shut
<1>2. CASE connect = "pending"
  <2>1. Opening /\ Connecting
    BY <1>1, <1>2 DEF Closing
  <2>2. Opening' /\ Connecting'
    BY <2>1 DEF Opening, Terminating, link
  <2> QED
    BY <1>2, <2>2 DEF Closing, link
<1>3. CASE connect # "pending"
  BY <1>1, <1>3 DEF Closing, link
<1> QED
  BY <1>2, <1>3

\* A failed authentication leaves the connection closed.
LEMMA FailCloses ==
  ASSUME Closing, AuthFailHandler, Direct' => Direct, connect # "resolved" => Failing /\ Failing'
  PROVE  Closing'
<1> SUFFICES ASSUME Direct, Direct' PROVE Closing'
  BY DEF Closing
<1>1. CASE connect = "pending"
  <2>1. Shut \/ ~Terminating
    BY <1>1 DEF Closing, Failing, Quitting, Opening
  <2>2. FatalError(Shifted(receiveQueue)) /\ connect' = "rejected" /\ rejectFct' = FALSE
    BY <1>1 DEF AuthFailHandler, Closing
  <2>3. Shut'
    BY <2>1, <2>2 DEF FatalError, Shut, Terminating
  <2> QED
    BY <1>1, <2>2, <2>3 DEF Closing
<1>2. CASE connect # "pending"
  <2>1. UNCHANGED <<queues, socket, status, addCommand, connect, rejectFct>>
    BY <1>2 DEF AuthFailHandler, Closing
  <2> QED
    BY <1>2, <2>1 DEF Closing, Shut, queues
<1> QED
  BY <1>1, <1>2

\* end() of a connection that is opening, or resolved.
LEMMA EndCloses ==
  ASSUME Closing, NEW more, End(more), exchange' = exchange, Direct' => Direct,
         connect # "resolved" => more = <<>> /\ connect = "pending" /\ ~Terminating /\ (Opening \/ sendQueue = <<>>)
  PROVE  Closing'
<1> SUFFICES ASSUME Direct, Direct' PROVE Closing'
  BY DEF Closing
<1>1. CASE connect = "resolved"
  BY <1>1, ResolvedKept DEF End
<1>2. CASE connect # "resolved"
  <2>1. connect = "pending" /\ sendQueue = <<>> /\ more = <<>>
    BY <1>2 DEF Opening
  <2>2. /\ addCommand' = "disabled" /\ status' = "TERMINATING_SOCKET" /\ connect' = connect /\ rejectFct' = rejectFct
        /\ sendQueue' = Append(<<>>, "quit") /\ ticks' = Append(<<>>, "quit") /\ wire' = wire
    BY <2>1 DEF End
  <2>3. Quitting'
    BY <2>2 DEF Quitting
  <2> QED
    BY <2>1, <2>2, <2>3 DEF Closing, Connecting
<1> QED
  BY <1>1, <1>2

\* The session queries go on, and end with a connection that is handed out, or closed.
LEMMA SessionCloses ==
  ASSUME Closing, NEW rest, NEW how, NEW more, NextSessionQuery(rest, how, more), exchange' = exchange,
         redirect' = redirect, Direct => connect # "rejected",
         Direct /\ connect = "pending" => more = <<>> /\ ~Terminating /\ sendQueue = <<>>
  PROVE  Closing'
<1> SUFFICES ASSUME Direct, Direct' PROVE Closing'
  BY DEF Closing, Direct
<1>1. ASSUME NEW commands, Ready(commands, how, more) PROVE Closing'
  BY <1>1 DEF Ready, Closing
<1>2. CASE End(more)
  BY <1>2, EndCloses DEF Closing
<1>3. CASE /\ Issue(<<"session">>, how) /\ status' = "INIT_CMD" /\ addCommand' = how /\ ticks' = more
           /\ UNCHANGED <<socket, timer, connect, rejectFct>>
  <2>1. connect = "pending" => Connecting' /\ Opening'
    BY <1>3 DEF Closing, Connecting, Opening, Issue, Terminating
  <2> QED
    BY <1>3, <2>1 DEF Closing
<1> QED
  <2>1. CASE rest = <<>>
    BY <1>1, <2>1 DEF NextSessionQuery
  <2>2. CASE rest # <<>> /\ rest = <<"timeout">>
    BY <1>1, <1>2, <2>2 DEF NextSessionQuery, ExecuteSessionTimeout
  <2>3. CASE rest # <<>> /\ rest # <<"timeout">>
    BY <1>3, <2>3 DEF NextSessionQuery
  <2> QED
    BY <2>1, <2>2, <2>3

\* The first steps of an exchange, when they do not fail.
LEMMA SpeakGoesOn ==
  ASSUME CloseInv, NEW p, NEW asked, NEW reply \in Replies, Speak(reply, p, asked),
         UNCHANGED channel, socket = "open", ticks = <<>>, exchange.reads # "none"
  PROVE  Redirected' /\ Closing'
<1> USE DEF CloseInv
<1>1. CASE PluginThrows
  <2>1. /\ exchange' = Idle /\ ticks' = <<"fail">> /\ UNCHANGED <<link, queues, clearOn, redirect>>
    BY <1>1 DEF PluginThrows
  <2>2. exchange'.reads = "none" /\ exchange'.who = exchange.who
    BY <2>1 DEF Idle, ConnectInv, ExchangeOK
  <2>3. Redirected'
    BY <2>1, <2>2, RedirectedKept DEF GoesOn
  <2>4. Closing'
    BY <2>1, <2>2, OpenKept DEF queues, Direct, Opening, Connecting
  <2> QED
    BY <2>3, <2>4
<1>2. CASE ~reply.fails
  <2>1. exchange' = [exchange EXCEPT !.plugin = p, !.reads = reply.reads, !.stage = reply.stage,
                          !.asked = asked, !.said = reply.says, !.packets = @ + 1]
          /\ UNCHANGED <<link, queues, ticks, redirect>>
    BY <1>2 DEF Speak
  <2>2. exchange'.reads = reply.reads /\ exchange'.who = exchange.who /\ reply.reads # "greeting"
    BY <2>1 DEF ConnectInv, ExchangeOK, Replies
  <2>3. Redirected'
    BY <2>1, <2>2, RedirectedKept DEF GoesOn
  <2>4. Closing'
    BY <2>1, <2>2, OpenKept DEF queues, Direct, Opening, Connecting
  <2> QED
    BY <2>3, <2>4
<1> QED
  BY <1>1, <1>2 DEF Speak

\* A plugin that throws, the answer to the greeting, and an exception of the command itself.
LEMMA ThrowsClosing ==
  ASSUME CloseInv, PluginThrows, socket = "open", ticks = <<>>
  PROVE  GoesOn /\ exchange'.reads = "none" /\ redirect' = redirect /\ Closing'
<1>1. /\ exchange' = Idle /\ ticks' = <<"fail">> /\ UNCHANGED <<link, queues, clearOn, redirect>>
  BY DEF PluginThrows
<1>2. exchange'.reads = "none" /\ exchange'.who = exchange.who
  BY <1>1 DEF Idle, ConnectInv, ExchangeOK, CloseInv
<1> QED
  BY <1>1, <1>2, OpenKept DEF queues, Direct, Opening, Connecting, CloseInv, GoesOn

\* The response to the greeting is written: nothing else moves.
LEMMA ResponseClosing ==
  ASSUME CloseInv, NEW over, SendResponse(over), socket = "open", ticks = <<>>
  PROVE  exchange'.who = exchange.who /\ exchange'.reads = "result" /\ redirect' = redirect /\ Closing'
<1>1. exchange'.who = exchange.who /\ exchange'.reads = "result" /\ UNCHANGED <<link, queues, ticks, redirect>>
  BY DEF SendResponse, ConnectInv, ExchangeOK, CloseInv
<1> QED
  BY <1>1, OpenKept DEF queues, Direct, Opening, Connecting, CloseInv

\* A command is over, and the next one may start: the connection stays as open or closed as it was.
LEMMA OverClosing ==
  ASSUME CloseInv, NEW tick, NEW answered, NEW talking, CommandOver(tick, answered, talking), UNCHANGED link,
         socket = "open", ticks = <<>>, UNCHANGED channel,
         redirect' \in {redirect, "failed"}, redirect' # "no" => redirect # "no",
         talking.reads = "none", talking.who = exchange.who, tick \in {exchange.who, "fail"},
         answered \in {wire, Tail(wire)}, wire # <<>>
  PROVE  Redirected' /\ Closing'
<1> USE DEF CloseInv
<1>1. exchange' = talking \/ \E u \in Users : exchange' = StartUser(u)
  BY WrittenQuiet DEF CommandOver, SendNext
<1>2. Redirected'
  BY <1>1, RedirectedKept DEF GoesOn
<1>3. ASSUME Opening, Connecting
      PROVE  sendQueue' = <<>> /\ Connecting' /\ ticks' \in {<<>>, <<"fail">>, <<"auth">>}
  <2>1. sendQueue' = <<>> /\ wire' = answered \o <<>> /\ ticks' = <<tick>> /\ exchange' = talking
    BY <1>3, OverEmpty DEF Opening
  <2>2. wire \in {<<"auth">>, <<"session">>}
    BY <1>3 DEF Connecting
  <2>3. answered \in {<<>>, <<"auth">>, <<"session">>}
    BY <2>2, ShortQueues, Zenon
  <2>4. answered \o <<>> = answered
    BY <2>3
  <2> QED
    BY <1>3, <2>1, <2>3, <2>4 DEF Connecting
<1> QED
  BY <1>2, <1>3, OpenKept DEF Direct

\* The greeting, and TLS.
LEMMA GreetingCloses ==
  ASSUME CloseInv, ParseHandshakeInit \/ SecureConnected PROVE Redirected' /\ Closing'
<1> USE DEF CloseInv
<1>1. socket = "open" /\ ticks = <<>>
  BY DEF ParseHandshakeInit, SecureConnected, Sends, LoopDrained
<1>2. redirect = "no" /\ (channel = "starting" \/ exchange.reads = "greeting")
  BY DEF ParseHandshakeInit, SecureConnected, Sends, ServerMaySend, Verdicts, Redirected, Over
<1>3. CASE PluginThrows
  BY <1>1, <1>2, <1>3, ThrowsClosing DEF Redirected, Over
<1>4. CASE \E over : SendResponse(over)
  BY <1>1, <1>2, <1>4, ResponseClosing DEF Redirected, Over
<1>5. CASE UNCHANGED <<link, queues, ticks, talk, redirect>>
  BY <1>1, <1>2, <1>5, OpenKept DEF Redirected, Over, Direct, Opening, Connecting, queues, talk
<1>6. CASE AuthFailHandler /\ UNCHANGED <<channel, talk, ticks, redirect>>
  BY <1>1, <1>2, <1>6, FailCloses DEF Redirected, Over, Failing, Direct
<1> QED
  BY <1>3, <1>4, <1>5, <1>6 DEF ParseHandshakeInit, SecureConnected

\* The verdict of the server.
LEMMA VerdictCloses ==
  ASSUME CloseInv, AuthError \/ \E right \in BOOLEAN : AuthOk(right) PROVE Redirected' /\ Closing'
<1> USE DEF CloseInv
<1>1. socket = "open" /\ ticks = <<>> /\ wire # <<>> /\ exchange.reads # "none" /\ channel # "starting" /\ UNCHANGED channel
  BY DEF AuthError, AuthOk, Sends, LoopDrained
<1>2. Idle.reads = "none" /\ Idle.who = exchange.who
      /\ \A b : [Idle EXCEPT !.proven = b].reads = "none" /\ [Idle EXCEPT !.proven = b].who = exchange.who
  BY DEF Idle, ConnectInv, ExchangeOK
<1>3. CASE AuthError
  <2>1. exchange' = Idle /\ ticks' = <<"fail">> /\ wire' = Tail(wire) /\ UNCHANGED <<link, sendQueue, redirect>>
    BY <1>1, <1>3 DEF AuthError
  <2>2. Connecting => Connecting'
    <3>1. wire \in {<<"auth">>, <<"session">>} => wire' = <<>>
      BY <2>1, ShortQueues, Zenon
    <3> QED
      BY <1>1, <1>2, <2>1, <3>1 DEF Connecting
  <2> QED
    BY <1>1, <1>2, <2>1, <2>2, RedirectedKept, OpenKept DEF GoesOn, Direct, Opening
<1>4. ASSUME NEW right \in BOOLEAN, AuthOk(right) PROVE Redirected' /\ Closing'
  <2>1. CASE CommandThrows(Tail(wire))
    BY <1>1, <1>2, <2>1, OverClosing DEF CommandThrows
  <2>2. CASE SuccessEnd(right) /\ UNCHANGED <<link, redirect>>
    BY <1>1, <1>2, <2>2, OverClosing DEF SuccessEnd
  <2>3. CASE /\ exchange.who = "auth" /\ redirect' = "asked" /\ exchange' = [Idle EXCEPT !.proven = right]
             /\ UNCHANGED <<link, queues, ticks, clearOn>>
    <3>1. Redirected'
      BY <1>1, <1>2, <2>3, RedirectedKept DEF GoesOn
    <3>2. redirect = "no"
      BY <1>1, <2>3 DEF Redirected, Over
    <3> QED
      BY <1>1, <1>2, <2>3, <3>1, <3>2, OpenKept DEF Direct, Opening, Connecting, queues
  <2>4. CASE UNCHANGED <<link, queues, ticks, talk, redirect>>
    BY <1>1, <2>4, RedirectedKept, OpenKept DEF GoesOn, Direct, Opening, Connecting, queues, talk
  <2> QED
    BY <1>4, <2>1, <2>2, <2>3, <2>4 DEF AuthOk
<1> QED
  BY <1>3, <1>4

\* The server asks for another plugin, or goes on with one.
LEMMA PluginCloses ==
  ASSUME CloseInv,
         \/ \E p \in Plugins \cup {"other"} : AuthSwitch(p)
         \/ \E packet \in Packets : PluginResponse(packet) \/ RequestForSalt(packet)
  PROVE  Redirected' /\ Closing'
<1> USE DEF CloseInv
<1>1. socket = "open" /\ ticks = <<>> /\ wire # <<>> /\ exchange.reads # "none" /\ channel # "starting" /\ UNCHANGED channel
  BY DEF AuthSwitch, PluginResponse, RequestForSalt, Sends, LoopDrained
<1>2. Idle.reads = "none" /\ Idle.who = exchange.who
  BY DEF Idle, ConnectInv, ExchangeOK
<1>3. ASSUME NEW p \in Plugins \cup {"other"}, AuthSwitch(p) PROVE Redirected' /\ Closing'
  <2>1. CASE CommandThrows(wire)
    BY <1>1, <1>2, <2>1, OverClosing DEF CommandThrows
  <2>2. CASE AuthFailHandler /\ exchange' = Idle /\ UNCHANGED <<ticks, clearOn, redirect>>
    <3>1. Redirected'
      BY <1>1, <1>2, <2>2, RedirectedKept DEF GoesOn
    <3>2. Closing'
      BY <1>1, <2>2, FailCloses DEF Failing, Direct
    <3> QED
      BY <3>1, <3>2
  <2>3. CASE p \in Plugins /\ Speak(Start(p, config), p, p)
    <3>1. Start(p, config) \in Replies
      BY <2>3, StartSays
    <3> QED
      BY <1>1, <2>3, <3>1, SpeakGoesOn
  <2> QED
    BY <1>3, <2>1, <2>2, <2>3 DEF AuthSwitch
<1>4. ASSUME NEW packet, PluginResponse(packet) PROVE Redirected' /\ Closing'
  <2> DEFINE reply == Response(exchange.plugin, exchange.stage, packet, config, SelfSigned)
             asked == IF packet = "switch" THEN "other" ELSE exchange.asked
  <2>1. exchange.reads = "response" /\ Speak(reply, exchange.plugin, asked)
    BY <1>4 DEF PluginResponse
  <2>2. exchange.plugin \in Answering /\ exchange.stage \in Stages
    BY <2>1 DEF ConnectInv, PluginAllowed, ExchangeOK
  <2>3. reply \in Replies
    BY <2>2, ResponseSays
  <2> HIDE DEF reply, asked
  <2> QED
    BY <1>1, <2>1, <2>3, SpeakGoesOn
<1>5. ASSUME NEW packet, RequestForSalt(packet) PROVE Redirected' /\ Closing'
  <2>1. CASE PluginThrows
    BY <1>1, <2>1, ThrowsClosing, RedirectedKept
  <2>2. CASE Speak(SendScramble, "parsec", "parsec")
    <3>1. SendScramble \in Replies
      BY DEF SendScramble, Says, Replies, Forms, Reads, Stages
    <3> QED
      BY <1>1, <2>2, <3>1, SpeakGoesOn
  <2> QED
    BY <1>5, <2>1, <2>2 DEF RequestForSalt
<1> QED
  BY <1>3, <1>4, <1>5

\* A step that says nothing, and asks for no redirection.
LEMMA QuietRedirected ==
  ASSUME CloseInv, Quiet, UNCHANGED channel, redirect' # "no" => redirect # "no" PROVE Redirected'
BY QuietGoesOn, RedirectedKept DEF CloseInv

\* The answers to the session queries, to SET NAMES and to queries.
LEMMA AnswersCloses ==
  ASSUME CloseInv,
         \/ \E ok \in BOOLEAN : SessionAnswered(ok)
         \/ \E c \in Queries \cup {"names", "timeout"}, ok \in BOOLEAN : Answered(c, ok)
  PROVE  Redirected' /\ Closing'
<1> USE DEF CloseInv
<1>1. ASSUME NEW ok \in BOOLEAN, SessionAnswered(ok) PROVE Redirected' /\ Closing'
  <2>1. socket = "open" /\ ticks = <<>> /\ UNCHANGED <<setting, channel, talk, redirect>>
    BY <1>1 DEF SessionAnswered, SessionRefused, LoopDrained
  <2>2. exchange' = exchange /\ Redirected'
    BY <2>1 DEF talk, Redirected, Over
  <2>3. Direct => /\ connect \in {"pending", "resolved"}
                  /\ connect = "pending" => ~Terminating /\ sendQueue = <<>>
    BY <2>1 DEF Closing, Shut, Quitting, Opening
  <2>4. CASE AuthFailHandler /\ UNCHANGED ticks
    BY <2>1, <2>2, <2>4, FailCloses DEF Failing, Direct
  <2>5. CASE End(ticks)
    <3>1. CASE Direct
      BY <2>1, <2>2, <2>3, <2>5, <3>1, EndCloses
    <3>2. CASE ~Direct
      BY <2>1, <2>2, <3>2 DEF Closing, Direct
    <3> QED
      BY <3>1, <3>2
  <2>6. CASE \E rest : NextSessionQuery(rest, addCommand, ticks)
    BY <2>1, <2>2, <2>3, <2>6, SessionCloses
  <2> QED
    BY <1>1, <2>4, <2>5, <2>6 DEF SessionAnswered, SessionRefused
<1>2. ASSUME NEW c \in Queries \cup {"names", "timeout"}, NEW ok \in BOOLEAN, Answered(c, ok)
      PROVE  Redirected' /\ Closing'
  <2>1. /\ socket = "open" /\ ticks = <<>> /\ wire # <<>> /\ c = Head(wire) /\ UNCHANGED <<link, channel, redirect>>
        /\ \E more : SendNext(c, Tail(wire), exchange, more)
    BY <1>2 DEF Answered, LoopDrained
  <2>2. ~Connecting
    <3>1. c # "auth" /\ c # "session"
      BY ConnectAssumption
    <3> QED
      BY <2>1, <3>1, ShortQueues, Zenon DEF Connecting
  <2>3. Quiet
    <3>1. PICK started, more : Written(started, Tail(wire), exchange, more)
      BY <2>1 DEF SendNext
    <3> QED
      BY <3>1, WrittenQuiet DEF Quiet
  <2>4. Closing'
    BY <2>1, <2>2, OpenKept DEF Direct
  <2> QED
    BY <2>1, <2>3, <2>4, QuietRedirected
<1> QED
  BY <1>1, <1>2

\* The socket, the timers, and the errors thrown later.
LEMMA SocketCloses ==
  ASSUME CloseInv,
         SocketConnects \/ StreamRefused \/ ConnectTimeoutReached \/ SocketErrorHandler \/ SocketTimeoutReached
  PROVE  Redirected' /\ Closing'
<1> USE DEF CloseInv
<1>1. UNCHANGED <<channel, talk, redirect, ticks>> /\ ticks = <<>>
  BY DEF SocketConnects, StreamRefused, ConnectTimeoutReached, SocketErrorHandler, SocketTimeoutReached, StillTalking, LoopDrained
<1>2. Redirected'
  BY <1>1 DEF talk, Redirected, Over
<1>3. CASE SocketConnects
  <2>1. UNCHANGED <<addCommand, connect, rejectFct, wire, sendQueue>> /\ socket = "opening" /\ status' \in {status, "AUTHENTICATING"}
    BY <1>3 DEF SocketConnects, queues
  <2>2. ~Shut /\ ~Quitting /\ (Opening => Opening') /\ (Connecting => Connecting')
    BY <1>1, <2>1 DEF Shut, Quitting, Opening, Terminating, Connecting, talk
  <2> QED
    BY <1>1, <1>2, <2>1, <2>2 DEF Closing, Direct
<1>4. CASE AuthFailHandler
  BY <1>1, <1>2, <1>4, FailCloses DEF Failing, Direct
<1>5. CASE FatalError(receiveQueue) /\ UNCHANGED <<connect, rejectFct>> /\ ~Terminating
  <2>1. Shut' /\ wire' = wire
    BY <1>5 DEF FatalError, Shut
  <2>2. Connecting => Connecting'
    BY <1>1, <2>1 DEF Connecting, talk
  <2>3. ~Quitting /\ ~Shut
    BY <1>5 DEF Quitting, Shut, Terminating
  <2> QED
    BY <1>1, <1>2, <1>5, <2>1, <2>2, <2>3 DEF Closing, Direct, Failing
<1> QED
  BY <1>3, <1>4, <1>5 DEF StreamRefused, ConnectTimeoutReached, SocketErrorHandler, SocketTimeoutReached, Terminating

\* The same when a command ends with an error.
LEMMA ThrowErrorCloses == ASSUME CloseInv, NEW c \in Commands, ThrowError(c) PROVE Redirected' /\ Closing'
<1> USE DEF CloseInv
<1>1. /\ UNCHANGED <<link, sendQueue, wire, channel, talk, redirect>> /\ ticks = <<>>
      /\ ticks' \in {<<>>, <<"fail">>}
  BY DEF ThrowError, LoopDrained
<1>2. Redirected'
  BY <1>1 DEF talk, Redirected, Over
<1>3. Failing' /\ ~Quitting /\ (Opening => Opening') /\ (Shut => Shut') /\ (Connecting => Connecting')
  BY <1>1 DEF Failing, Quitting, Opening, Shut, Connecting, talk, link, Terminating
<1> QED
  BY <1>1, <1>2, <1>3 DEF Closing, Direct, link

\* A redirection, and what the client does with a connection it was given.
LEMMA RedirectCloses ==
  ASSUME CloseInv, RedirectFails \/ RedirectConnects \/ Misrouted PROVE Redirected' /\ Closing'
<1> USE DEF CloseInv
<1>1. UNCHANGED channel /\ Quiet /\ redirect # "no"
  BY RedirectQuiet DEF RedirectFails, RedirectConnects, Misrouted
<1>2. Redirected'
  BY <1>1, QuietRedirected
<1>3. CASE redirect' \in {"failed", "done"}
  BY <1>2, <1>3 DEF Closing, Direct
<1>4. CASE Misrouted
  BY <1>2, <1>4 DEF Misrouted, Closing, Direct
<1>5. CASE RedirectConnects /\ redirect' # "done"
  <2>1. /\ ticks = <<>> /\ redirect = "asked" /\ ~Terminating /\ End(ticks) /\ UNCHANGED <<talk, redirect>>
    BY <1>5 DEF RedirectConnects, LoopDrained, Replaced
  <2>2. connect # "resolved" => connect = "pending" /\ Opening
    BY <2>1 DEF Closing, Direct, Shut, Quitting, Terminating
  <2> QED
    BY <1>2, <2>1, <2>2, EndCloses DEF talk, Direct
<1> QED
  BY <1>3, <1>4, <1>5 DEF RedirectFails

\* The same when the client makes a call.
LEMMA ClientCloses ==
  ASSUME CloseInv, (\E q \in Queries : Query(q)) \/ (\E u \in Users, wrong \in BOOLEAN : ChangeUser(u, wrong))
  PROVE  Redirected' /\ Closing'
<1> USE DEF CloseInv
<1>1. connect = "resolved" /\ UNCHANGED <<connect, rejectFct, redirect, channel>> /\ Quiet
  BY ClientQuiet DEF Query, ChangeUser, link
<1> QED
  BY <1>1, QuietRedirected, ResolvedKept DEF Direct

\* The callbacks.
LEMMA NextTickCloses == ASSUME CloseInv, NextTick PROVE Redirected' /\ Closing'
<1> USE DEF CloseInv
<1> DEFINE tick == Head(ticks)
           more == Tail(ticks)
<1>1. ticks # <<>> /\ UNCHANGED channel /\ Quiet /\ redirect' \in {redirect, "done"} /\ (redirect' # "no" => redirect # "no")
  BY NextTickQuiet
<1>2. Redirected'
  BY <1>1, QuietRedirected
<1> SUFFICES Closing'
  BY <1>2
<1> SUFFICES ASSUME Direct, Direct' PROVE Closing'
  BY <1>1 DEF Closing, Direct
<1>3. redirect' = redirect /\ \A x : ticks = <<x>> => tick = x /\ more = <<>>
  BY <1>1, ShortQueues, Zenon DEF Direct
<1>4. connect = "resolved" \/ ticks \in {<<"fail">>, <<"auth">>, <<"quit">>, <<"ended">>}
  BY <1>1 DEF Closing, Failing, Opening, Quitting
<1>5. /\ ticks = <<"auth">> /\ connect # "resolved" => Opening /\ connect = "pending"
      /\ ticks \in {<<"quit">>, <<"ended">>} /\ connect # "resolved" => Quitting /\ connect = "pending"
  BY DEF Closing, Failing, Opening, Quitting
<1>6. /\ "auth" \notin Users /\ "fail" \notin Users /\ "quit" \notin Users /\ "ended" \notin Users /\ "end" \notin Users
  BY ConnectAssumption
<1>7. CASE tick = "auth"
  <2>1. connect # "resolved" => more = <<>> /\ Opening /\ connect = "pending"
    BY <1>3, <1>4, <1>5, <1>7
  <2>2. CASE AuthSucceedHandler(more)
    BY <1>3, <2>1, <2>2, SessionCloses DEF AuthSucceedHandler, talk, Opening
  <2>3. CASE ticks' = more /\ UNCHANGED <<link, queues, call, talk, prepared, redirect>>
    <3>1. connect # "resolved" => Opening' /\ Connecting'
      BY <2>1, <2>3 DEF Opening, Terminating, Connecting, Closing, link, queues, talk
    <3> QED
      BY <2>1, <2>3, <3>1 DEF Closing, link
  <2> QED
    BY <1>6, <1>7, <2>2, <2>3 DEF NextTick
<1>8. CASE tick = "fail"
  <2>1. AuthFailHandler /\ ticks' = more
    BY <1>6, <1>8 DEF NextTick
  <2>2. connect # "resolved" => ticks = <<"fail">> /\ more = <<>>
    BY <1>3, <1>4, <1>8
  <2> QED
    BY <2>1, <2>2, FailCloses DEF Failing
<1>9. CASE tick = "quit"
  <2>1. sendQueue' = <<>> /\ ticks' = Append(more, "ended") /\ UNCHANGED <<link, wire, talk, redirect>>
    BY <1>6, <1>9 DEF NextTick
  <2>2. connect # "resolved" => Quitting /\ connect = "pending" /\ more = <<>>
    BY <1>3, <1>4, <1>5, <1>9
  <2>3. ASSUME connect # "resolved" PROVE Quitting' /\ Connecting'
    <3>1. ticks' = Append(<<>>, "ended") /\ sendQueue' = <<>>
      BY <2>1, <2>2, <2>3, Zenon
    <3>2. Connecting
      BY <2>2, <2>3 DEF Closing
    <3>3. ticks' = <<"ended">>
      BY <3>1
    <3>4. Quitting
      BY <2>2, <2>3
    <3>5. UNCHANGED <<status, addCommand, wire, exchange>>
      BY <2>1 DEF link, talk
    <3> QED
      BY <3>1, <3>2, <3>3, <3>4, <3>5 DEF Quitting, Connecting
  <2> QED
    BY <2>1, <2>2, <2>3 DEF Closing, link
<1>10. CASE tick = "ended"
  <2>1. /\ socket' = "closed" /\ status' = "CLOSED" /\ ticks' = more
        /\ connect' = (IF rejectFct THEN "rejected" ELSE connect) /\ rejectFct' = FALSE
        /\ sendQueue' = <<>> /\ addCommand' = addCommand
    BY <1>3, <1>6, <1>10 DEF NextTick, QuitEnded, Replaced, Direct
  <2>2. connect # "resolved" => Quitting /\ connect = "pending" /\ more = <<>>
    BY <1>3, <1>4, <1>5, <1>10
  <2> QED
    BY <2>1, <2>2 DEF Closing, Shut, Failing, Quitting
<1>11. CASE tick = "end"
  <2>1. connect = "resolved" /\ End(more)
    BY <1>3, <1>4, <1>6, <1>11 DEF NextTick
  <2> QED
    BY <2>1, ResolvedKept DEF End
<1>12. CASE tick \in Users
  <2>1. connect = "resolved" /\ UNCHANGED <<connect, rejectFct>>
    BY <1>3, <1>4, <1>6, <1>12 DEF NextTick, UserChanged
  <2> QED
    BY <2>1, ResolvedKept
<1> QED
  BY <1>7, <1>8, <1>9, <1>10, <1>11, <1>12 DEF NextTick

\* Every step preserves the invariant.
LEMMA CloseStep == CloseInv /\ [Next]_vars => CloseInv'
<1> SUFFICES ASSUME CloseInv, [Next]_vars PROVE CloseInv'
  OBVIOUS
<1>1. ConnectInv'
  BY ConnectStep DEF CloseInv
<1>2. CASE UNCHANGED vars
  BY <1>1, <1>2 DEF CloseInv, vars, Closing, Redirected, Over, Direct, Connecting, Quitting, Shut, Failing, Opening, Terminating,
                    link, queues, talk
<1>3. CASE ServerAnswers
  BY <1>1, <1>3, GreetingCloses, VerdictCloses, PluginCloses, AnswersCloses DEF CloseInv, ServerAnswers
<1> QED
  BY <1>1, <1>2, <1>3, NextTickCloses, SocketCloses, ThrowErrorCloses, RedirectCloses, ClientCloses DEF CloseInv, Next

\* The connection begins by opening.
LEMMA CloseInit == Init => CloseInv
<1> SUFFICES ASSUME Init PROVE CloseInv
  OBVIOUS
<1>1. /\ connect = "pending" /\ rejectFct = TRUE /\ redirect = "no" /\ sendQueue = <<>> /\ ticks = <<>>
      /\ wire = <<"auth">> /\ status = "CONNECTING"
  BY Zenon DEF Init
<1>2. exchange.who = "auth"
  BY DEF Init
<1>3. Connecting /\ Opening
  BY <1>1, <1>2 DEF Connecting, Opening, Terminating
<1> QED
  BY <1>1, <1>3, ConnectInit DEF CloseInv, Redirected, Over, Closing

\* What connect() has rejected stays closed: no later event of the handshake, of the session queries
\* or of a timer revives it; a redirection that has failed or replaced the connection is exempt.
THEOREM ConnectRejectedStaysClosed == Spec => []RejectedStaysClosed
<1>2. CloseInv => RejectedStaysClosed
  BY DEF CloseInv, Closing, RejectedStaysClosed, Direct, Shut
<1> QED
  BY <1>2, CloseInit, CloseStep, PTL DEF Spec

-----------------------------------------------------------------------------
(***************************************************************************)
(* What is handed out is prepared.  Before the verdict nothing has been    *)
(* done; After it compression is set, and no second verdict, session query *)
(* or redirection can come once connect() is resolved.                     *)
(***************************************************************************)
SessionQueries == {"charset", "autozone", "timezone", "version", "variables", "init", "timeout"}
Needed == Elements(config.session) \ {"timeout", "autozone"}
Layers == IF config.compress /\ server.compress THEN 1 ELSE 0
Calls == Commands \ {"auth", "session"}
Ticks == (Commands \cup {"fail", "end", "ended"}) \ {"auth"}

Live == connect # "rejected" /\ redirect # "done"
Said == Over /\ redirect # "asked"
Before ==
  /\ connect = "pending" /\ layers = 0 /\ wire # <<"session">> /\ (ticks = <<"auth">> => Said)
  /\ redirect = "asked" => wire = <<"auth">>
After ==
  /\ layers = Layers /\ Said /\ ticks # <<"auth">> /\ (wire = <<"session">> => session # <<>>)
  /\ connect = "resolved" => Elements(session) \subseteq {"timeout"} /\ wire \in Seq(Calls) /\ ticks \in Seq(Ticks)
Waiting ==
  /\ exchange.who = "auth" /\ wire \in {<<>>, <<"auth">>, <<"session">>}
  /\ ticks \in {<<>>, <<"fail">>, <<"auth">>, <<"quit">>, <<"ended">>}

Prepared ==
  Live =>
    /\ connect \in {"pending", "resolved"}
    /\ session \in Seq(SessionQueries) /\ Needed \subseteq accepted \cup Elements(session)
    /\ sendQueue \in Seq(Calls)
    /\ connect = "pending" => Waiting
    /\ Before \/ After

PrepInv == CloseInv /\ Prepared

\* Queues that differ.
LEMMA OtherQueues ==
  /\ \A x : <<x>> # <<>>
  /\ \A x, y : x # y => <<x>> # <<y>>
  /\ \A S, x : x \notin S => <<x>> \notin Seq(S)
<1>1. ASSUME NEW x PROVE <<x>> # <<>>
  BY ShortQueues
<1>2. ASSUME NEW x, NEW y, x # y PROVE <<x>> # <<y>>
  <2>1. <<x>>[1] = x /\ <<y>>[1] = y
    OBVIOUS
  <2> QED
    BY <1>2, <2>1
<1>3. ASSUME NEW S, NEW x, x \notin S PROVE <<x>> \notin Seq(S)
  <2> SUFFICES ASSUME NEW q \in Seq(S), q = <<x>> PROVE FALSE
    OBVIOUS
  <2>1. Len(q) = 1 /\ q[1] = x
    OBVIOUS
  <2>2. q[1] \in S
    BY <2>1
  <2> QED
    BY <1>3, <2>1, <2>2
<1> QED
  BY <1>1, <1>2, <1>3

\* A step that neither accepts a session query nor ends connect() but with a rejection.
LEMMA PreparedKept ==
  ASSUME PrepInv, UNCHANGED <<setting, prepared>>, GoesOn, connect' \in {connect, "rejected"},
         redirect = "done" => redirect' = "done",
         Live => sendQueue' \in Seq(Calls),
         Live /\ connect = "pending" =>
           /\ exchange'.who = "auth" /\ wire' \in {wire, <<>>}
           /\ ticks' \in {<<>>, <<"fail">>, <<"auth">>, <<"quit">>, <<"ended">>}
           /\ ticks' = <<"auth">> => Said' /\ Before
           /\ Before /\ redirect' = "asked" => wire' = <<"auth">>,
         Live /\ connect = "resolved" => wire' \in Seq(Calls) /\ ticks' \in Seq(Ticks),
         Live /\ After /\ ~Before => redirect' # "asked" /\ (channel' = "starting" => channel = "starting")
  PROVE  Prepared'
<1> SUFFICES ASSUME Live' PROVE Prepared'
  BY DEF Prepared
<1>1. Live /\ connect' = connect /\ Prepared
  BY DEF Live, PrepInv
<1>2. Needed' = Needed /\ Layers' = Layers /\ session' = session /\ accepted' = accepted /\ layers' = layers
  BY DEF Needed, Layers, Elements, setting, prepared
<1>3. Elements(session)' = Elements(session)
  BY <1>2 DEF Elements
<1>4. CASE connect = "pending"
  <2>1. Waiting'
    BY <1>1, <1>4 DEF Prepared, Waiting
  <2>2. CASE Before
    <3>1. wire' # <<"session">>
      <4>1. wire # <<"session">> /\ wire' \in {wire, <<>>}
        BY <1>1, <1>4, <2>2 DEF Before
      <4> QED
        BY <4>1, OtherQueues, Zenon
    <3> QED
      BY <1>1, <1>2, <1>3, <1>4, <2>1, <2>2, <3>1 DEF Before, Prepared
  <2>3. CASE After /\ ~Before
    <3>1. Said'
      BY <1>1, <2>3, OverKept DEF After, Said, PrepInv, CloseInv
    <3>2. wire' = <<"session">> => session' # <<>>
      BY <1>1, <1>2, <1>4, <2>3 DEF After
    <3>3. ticks' # <<"auth">>
      BY <1>1, <1>4, <2>3
    <3> QED
      BY <1>1, <1>2, <1>3, <1>4, <2>1, <2>3, <3>1, <3>2, <3>3 DEF After, Prepared
  <2> QED
    BY <1>1, <2>2, <2>3 DEF Prepared
<1>5. CASE connect = "resolved"
  <2>1. After /\ ~Before
    BY <1>1, <1>5 DEF Before, Prepared
  <2>2. Said'
    BY <1>1, <2>1, OverKept DEF After, Said, PrepInv, CloseInv
  <2>3. "auth" \notin Ticks /\ "session" \notin Calls
    BY DEF Ticks, Calls
  <2>4. wire' \in Seq(Calls) /\ ticks' \in Seq(Ticks)
    BY <1>1, <1>5
  <2>5. ticks' # <<"auth">> /\ wire' # <<"session">>
    BY <2>3, <2>4, OtherQueues, Zenon
  <2> QED
    BY <1>1, <1>2, <1>3, <1>5, <2>1, <2>2, <2>4, <2>5 DEF After, Prepared
<1> QED
  BY <1>1, <1>4, <1>5 DEF Prepared

\* The session queries that are left once the verdict is there.
LEMMA NextPrepared ==
  ASSUME PrepInv, NEW rest \in Seq(SessionQueries), NEW how, NextSessionQuery(rest, how, <<>>),
         UNCHANGED <<setting, channel, redirect, exchange>>, connect = "pending", redirect # "done", Said,
         exchange.who = "auth", sendQueue \in Seq(Calls), wire \in {<<>>, <<"auth">>, <<"session">>},
         Needed \subseteq accepted' \cup Elements(rest), layers' = Layers
  PROVE  Prepared'
<1>1. Said' /\ Needed' = Needed /\ Layers' = Layers
  BY DEF Said, Over, Needed, Layers, Elements, setting
<1>2. session' = rest /\ session' \in Seq(SessionQueries) /\ Needed' \subseteq accepted' \cup Elements(session)'
  BY <1>1 DEF NextSessionQuery, Elements
<1>3. /\ "timeout" \in Calls /\ "quit" \in Calls /\ <<"timeout">> \in Seq(Calls) /\ <<>> \in Seq(Calls)
      /\ <<>> \in Seq(Ticks)
  BY DEF Calls, Commands
<1>4. ASSUME NEW commands \in {<<>>, <<"timeout">>}, Ready(commands, how, <<>>), Elements(rest) \subseteq {"timeout"}
      PROVE  Prepared'
  <2>1. connect' = "resolved" /\ wire' = commands /\ ticks' = <<>> /\ sendQueue' = sendQueue
    BY <1>4 DEF Ready, Issue
  <2>2. wire' \in Seq(Calls) /\ wire' # <<"session">> /\ ticks' # <<"auth">>
    <3>1. "timeout" # "session"
      OBVIOUS
    <3> QED
      BY <1>3, <1>4, <2>1, <3>1, OtherQueues, Zenon
  <2>3. Elements(session)' \subseteq {"timeout"}
    BY <1>2, <1>4 DEF Elements
  <2>4. After'
    BY <1>1, <1>3, <2>1, <2>2, <2>3 DEF After
  <2> QED
    BY <1>2, <2>1, <2>4 DEF Prepared
<1>5. CASE End(<<>>) /\ rest # <<>>
  <2>1. /\ connect' = "pending" /\ wire' = wire /\ sendQueue' = Append(sendQueue, "quit")
        /\ ticks' \in {Append(<<>>, "quit"), <<>>}
    BY <1>5 DEF End
  <2>2. sendQueue' \in Seq(Calls)
    BY <1>3, <2>1
  <2>3. ticks' \in {<<"quit">>, <<>>}
    BY <2>1
  <2>4. ticks' # <<"auth">>
    <3>1. "quit" # "auth"
      OBVIOUS
    <3> QED
      BY <2>3, <3>1, OtherQueues, Zenon
  <2>5. Waiting'
    BY <2>1, <2>3 DEF Waiting
  <2>6. After'
    BY <1>1, <1>2, <1>5, <2>1, <2>4 DEF After
  <2> QED
    BY <1>2, <2>1, <2>2, <2>5, <2>6 DEF Prepared
<1>6. CASE Issue(<<"session">>, how) /\ ticks' = <<>> /\ connect' = connect /\ rest # <<>>
  <2>1. After' /\ Waiting' /\ sendQueue' = sendQueue
    BY <1>1, <1>2, <1>6 DEF After, Waiting, Issue
  <2> QED
    BY <1>2, <1>6, <2>1 DEF Prepared
<1>7. CASE rest = <<>>
  <2>1. Elements(rest) = {}
    BY <1>7 DEF Elements
  <2> QED
    BY <1>4, <1>7, <2>1 DEF NextSessionQuery
<1>8. CASE rest # <<>> /\ rest = <<"timeout">>
  <2>1. Elements(rest) \subseteq {"timeout"}
    BY <1>8 DEF Elements
  <2> QED
    BY <1>4, <1>5, <1>8, <2>1 DEF NextSessionQuery, ExecuteSessionTimeout
<1>9. CASE rest # <<>> /\ rest # <<"timeout">>
  BY <1>6, <1>9 DEF NextSessionQuery
<1> QED
  BY <1>7, <1>8, <1>9

\* What the client and the driver send, and tell of, once the connection is resolved.
LEMMA NamesTyped ==
  /\ Users \cup Queries \subseteq Calls /\ {"names", "timeout", "quit"} \subseteq Calls
  /\ Users \subseteq Ticks /\ {"fail", "end", "ended", "quit"} \subseteq Ticks
  /\ \A c \in Commands : c # "auth" => c \in Ticks
  /\ "auth" \notin Ticks /\ "session" \notin Calls /\ "auth" \notin Calls
BY ConnectAssumption DEF Calls, Ticks, Commands

\* What sending starts from a queue, and what it leaves, are made of what the queue is made of.
LEMMA StartedTyped ==
  ASSUME NEW S, NEW q \in Seq(S), NEW listeners
  PROVE  /\ StartedFrom(q, listeners) \in Seq(S)
         /\ SubSeq(q, Len(StartedFrom(q, listeners)) + 1, Len(q)) \in Seq(S)
<1> DEFINE stops == {i \in DOMAIN q : q[i] \in listeners}
           k == IF stops = {} THEN Len(q) ELSE CHOOSE i \in stops : \A j \in stops : i <= j
<1>1. k \in 0..Len(q)
  <2>1. CASE stops = {}
    BY <2>1
  <2>2. CASE stops # {}
    <3>0. stops \subseteq Nat
      OBVIOUS
    <3> HIDE DEF stops
    <3>1. \E i \in stops : \A j \in stops : i <= j
      BY <2>2, <3>0, NatMin
    <3>2. k \in stops
      BY <2>2, <3>1
    <3> QED
      BY <3>2 DEF stops
  <2> QED
    BY <2>1, <2>2
<1>2. StartedFrom(q, listeners) = SubSeq(q, 1, k)
  BY DEF StartedFrom
<1> HIDE DEF k
<1>3. StartedFrom(q, listeners) \in Seq(S) /\ Len(StartedFrom(q, listeners)) \in Nat
  BY <1>1, <1>2
<1> QED
  BY <1>3

\* Types of what writing commands assigns.
LEMMA WrittenTyped ==
  ASSUME NEW started \in Seq(Calls), NEW answered \in Seq(Calls), NEW talking, NEW more \in Seq(Ticks),
         Written(started, answered, talking, more)
  PROVE  wire' \in Seq(Calls) /\ ticks' \in Seq(Ticks)
<1>1. wire' = answered \o started /\ ticks' \in {more \o <<"ended">>, more \o <<>>}
  BY DEF Written
<1>2. <<"ended">> \in Seq(Ticks) /\ <<>> \in Seq(Ticks)
  BY NamesTyped
<1>3. more \o <<"ended">> \in Seq(Ticks) /\ more \o <<>> \in Seq(Ticks) /\ answered \o started \in Seq(Calls)
  BY <1>2
<1> QED
  BY <1>1, <1>3, Zenon

\* Types of what the end of a command assigns.
LEMMA SendNextTyped ==
  ASSUME sendQueue \in Seq(Calls), NEW c, NEW answered \in Seq(Calls), NEW talking, NEW more \in Seq(Ticks),
         SendNext(c, answered, talking, more)
  PROVE  wire' \in Seq(Calls) /\ ticks' \in Seq(Ticks) /\ sendQueue' \in Seq(Calls)
<1> DEFINE started == IF c \in onEnd THEN StartedFrom(sendQueue, onEnd) ELSE <<>>
<1>1. started \in Seq(Calls) /\ SubSeq(sendQueue, Len(started) + 1, Len(sendQueue)) \in Seq(Calls)
  <2>1. CASE c \in onEnd
    BY <2>1, StartedTyped
  <2>2. CASE c \notin onEnd
    BY <2>2
  <2> QED
    BY <2>1, <2>2
<1>2. Written(started, answered, talking, more) /\ sendQueue' = SubSeq(sendQueue, Len(started) + 1, Len(sendQueue))
  BY DEF SendNext
<1> HIDE DEF started
<1> QED
  BY <1>1, <1>2, WrittenTyped

\* Types of what addCommand assigns, whichever function it is.
LEMMA AddCommandTyped ==
  ASSUME sendQueue \in Seq(Calls), wire \in Seq(Calls), NEW c \in Calls, NEW how, NEW more \in Seq(Ticks),
         AddCommand(c, how, more)
  PROVE  wire' \in Seq(Calls) /\ ticks' \in Seq(Ticks) /\ sendQueue' \in Seq(Calls)
<1>1. WriteNow(c, more) \/ Queued(c, more)
  BY DEF AddCommand, AddCommandEnable, AddCommandEnablePipeline
<1>2. CASE WriteNow(c, more)
  <2>1. <<c>> \in Seq(Calls) /\ Written(<<c>>, wire, exchange, more) /\ sendQueue' = sendQueue
    BY <1>2 DEF WriteNow
  <2> QED
    BY <2>1, WrittenTyped
<1>3. CASE Queued(c, more)
  <2>1. wire' = wire /\ ticks' = more /\ sendQueue' = Append(sendQueue, c)
    BY <1>3 DEF Queued
  <2> QED
    BY <2>1
<1> QED
  BY <1>1, <1>2, <1>3

\* What a live connection is like: pending, or resolved and with nothing to prepare.
LEMMA LiveFacts ==
  ASSUME PrepInv, Live
  PROVE  /\ sendQueue \in Seq(Calls) /\ connect \in {"pending", "resolved"}
         /\ connect = "pending" => Waiting /\ (Before \/ After) /\ (ticks = <<"auth">> => Before /\ Said)
         /\ connect = "resolved" => /\ After /\ ~Before /\ wire \in Seq(Calls) /\ ticks \in Seq(Ticks)
                                    /\ wire # <<"session">>
         /\ After => Said
<1>1. Prepared
  BY DEF PrepInv
<1>2. connect = "resolved" => After /\ ~Before
  BY <1>1 DEF Prepared, Before
<1>3. connect = "resolved" => wire # <<"session">>
  BY <1>2, NamesTyped, OtherQueues, Zenon DEF After
<1> QED
  BY <1>1, <1>2, <1>3 DEF Prepared, Before, After

\* A step of an exchange: it is that of connect(), before the verdict, or another.
LEMMA ExchangeFacts ==
  ASSUME PrepInv, Live, exchange.reads # "none" \/ channel = "starting"
  PROVE  /\ connect = "pending" => Before /\ ~After /\ Direct /\ redirect # "asked"
         /\ connect = "resolved" => exchange.who # "auth" /\ channel # "starting" /\ exchange.reads # "greeting"
<1>1. connect = "pending" => ~Over
  BY LiveFacts DEF Over, Waiting
<1>2. connect = "pending" => redirect = "no" /\ ~After
  BY <1>1 DEF PrepInv, CloseInv, Redirected, After, Said
<1>3. connect = "resolved" => Over
  BY LiveFacts DEF After, Said
<1> QED
  BY <1>1, <1>2, <1>3, LiveFacts DEF Direct, Over

\* Nothing is sent, and nothing is told of but a failure.
LEMMA StillPrepared ==
  ASSUME PrepInv, UNCHANGED <<setting, prepared, sendQueue, wire, redirect>>, connect' \in {connect, "rejected"},
         GoesOn, exchange'.who = exchange.who, ticks' \in {<<>>, <<"fail">>},
         channel' = "starting" => channel = "starting" \/ ~(Live /\ After)
  PROVE  Prepared'
<1>1. <<"fail">> # <<"auth">> /\ <<>> # <<"auth">>
  <2>1. "fail" # "auth"
    OBVIOUS
  <2> QED
    BY <2>1, OtherQueues, Zenon
<1>2. <<>> \in Seq(Ticks) /\ <<"fail">> \in Seq(Ticks)
  BY NamesTyped
<1>3. Live => sendQueue' \in Seq(Calls)
  BY LiveFacts
<1>4. Live /\ connect = "pending" =>
           /\ exchange'.who = "auth" /\ wire' \in {wire, <<>>}
           /\ ticks' \in {<<>>, <<"fail">>, <<"auth">>, <<"quit">>, <<"ended">>}
           /\ ticks' # <<"auth">>
           /\ Before /\ redirect' = "asked" => wire' = <<"auth">>
  BY <1>1, LiveFacts DEF Waiting, Before
<1>5. Live /\ connect = "resolved" => wire' \in Seq(Calls) /\ ticks' \in Seq(Ticks)
  BY <1>2, LiveFacts
<1>6. Live /\ After => redirect' # "asked" /\ (channel' = "starting" => channel = "starting")
  BY LiveFacts DEF Said
<1> QED
  BY <1>3, <1>4, <1>5, <1>6, PreparedKept

\* An authentication that fails.
LEMMA FailPrepared ==
  ASSUME PrepInv, AuthFailHandler, UNCHANGED <<setting, prepared, redirect, channel>>, GoesOn,
         exchange'.who = exchange.who, ticks' = ticks \/ (ticks # <<>> /\ ticks' = Tail(ticks))
  PROVE  Prepared'
<1>1. CASE connect' = "rejected"
  BY <1>1 DEF Prepared, Live
<1>2. CASE connect' # "rejected"
  <2>1. UNCHANGED <<queues, connect>>
    BY <1>2 DEF AuthFailHandler
  <2>2. Live /\ connect = "pending" => ticks' = ticks \/ ticks' = <<>>
    BY LiveFacts, ShortQueues, Zenon DEF Waiting
  <2>3. ASSUME Live, connect = "resolved" PROVE ticks' \in Seq(Ticks)
    <3>1. ticks \in Seq(Ticks)
      BY <2>3, LiveFacts
    <3>2. ticks # <<>> => Tail(ticks) \in Seq(Ticks)
      BY <3>1
    <3> QED
      BY <3>1, <3>2, Zenon
  <2>4. Said /\ exchange' \in {exchange} => Said'
    BY DEF Said, Over
  <2>5. Said => Said'
    BY OverKept DEF Said, PrepInv, CloseInv
  <2>6. <<>> # <<"auth">>
    BY OtherQueues, Zenon
  <2>7. Live /\ connect = "pending" =>
           /\ exchange'.who = "auth" /\ wire' \in {wire, <<>>}
           /\ ticks' \in {<<>>, <<"fail">>, <<"auth">>, <<"quit">>, <<"ended">>}
           /\ ticks' = <<"auth">> => Said' /\ Before
           /\ Before /\ redirect' = "asked" => wire' = <<"auth">>
    BY <2>1, <2>2, <2>5, <2>6, LiveFacts DEF Waiting, Before, queues
  <2>8. Live /\ After => redirect' # "asked"
    BY LiveFacts DEF Said
  <2> QED
    BY <2>1, <2>3, <2>7, <2>8, PreparedKept, LiveFacts DEF queues
<1> QED
  BY <1>1, <1>2

\* end().
LEMMA EndPrepared ==
  ASSUME PrepInv, NEW more, End(more), UNCHANGED <<setting, prepared, redirect, channel, exchange>>,
         Live /\ connect = "pending" => more = <<>>, Live /\ connect = "resolved" => more \in Seq(Ticks)
  PROVE  Prepared'
<1>1. UNCHANGED <<connect, wire>> /\ sendQueue' = Append(sendQueue, "quit") /\ ticks' \in {Append(more, "quit"), more}
  BY DEF End
<1>2. Live => sendQueue' \in Seq(Calls)
  BY <1>1, NamesTyped, LiveFacts
<1>3. Live /\ connect = "pending" => ticks' \in {<<>>, <<"quit">>}
  BY <1>1
<1>4. <<>> # <<"auth">> /\ <<"quit">> # <<"auth">>
  <2>1. "quit" # "auth"
    OBVIOUS
  <2> QED
    BY <2>1, OtherQueues, Zenon
<1>5. ASSUME Live, connect = "resolved" PROVE wire' \in Seq(Calls) /\ ticks' \in Seq(Ticks)
  <2>1. wire' = wire /\ wire \in Seq(Calls) /\ more \in Seq(Ticks) /\ "quit" \in Ticks
    BY <1>1, <1>5, LiveFacts, NamesTyped
  <2>2. Append(more, "quit") \in Seq(Ticks)
    BY <2>1
  <2> QED
    BY <1>1, <2>1, <2>2, Zenon
<1>6. Live /\ connect = "pending" =>
           /\ exchange'.who = "auth" /\ wire' \in {wire, <<>>}
           /\ ticks' \in {<<>>, <<"fail">>, <<"auth">>, <<"quit">>, <<"ended">>}
           /\ ticks' # <<"auth">>
           /\ Before /\ redirect' = "asked" => wire' = <<"auth">>
  BY <1>1, <1>3, <1>4, LiveFacts DEF Waiting, Before
<1>7. Live /\ After => redirect' # "asked"
  BY LiveFacts DEF Said
<1> QED
  BY <1>1, <1>2, <1>5, <1>6, <1>7, PreparedKept DEF GoesOn

\* A command of an exchange is over: the verdict of connect(), or of a change of user.
LEMMA OverPrepared ==
  ASSUME PrepInv, NEW tick, NEW answered, NEW talking, CommandOver(tick, answered, talking), UNCHANGED link,
         ticks = <<>>, UNCHANGED <<setting, prepared, channel>>, redirect' \in {redirect, "failed"},
         redirect = "done" => redirect' = "done", redirect' # "asked",
         talking.reads = "none", talking.who = exchange.who, tick \in {exchange.who, "fail"},
         Live => wire # <<>>, answered \in {wire, Tail(wire)},
         Live /\ connect = "pending" => Direct /\ Before /\ channel # "starting",
         Live /\ connect = "resolved" => exchange.who # "auth"
  PROVE  Prepared'
<1>1. exchange' = talking \/ \E u \in Users : exchange' = StartUser(u)
  BY WrittenQuiet DEF CommandOver, SendNext
<1>2. GoesOn
  BY <1>1 DEF GoesOn
<1>3. ASSUME Live, connect = "pending"
      PROVE  /\ exchange'.who = "auth" /\ wire' \in {wire, <<>>} /\ sendQueue' = <<>> /\ ticks' \in {<<"fail">>, <<"auth">>}
             /\ ticks' = <<"auth">> => Said'
  <2>1. sendQueue = <<>>
    BY <1>3 DEF PrepInv, CloseInv, Closing, Quitting, Shut, Opening
  <2>2. sendQueue' = <<>> /\ wire' = answered \o <<>> /\ ticks' = <<tick>> /\ exchange' = talking
    BY <2>1, OverEmpty
  <2>3. wire \in {<<"auth">>, <<"session">>} /\ exchange.who = "auth"
    BY <1>3, LiveFacts DEF Waiting
  <2>4. answered \in {wire, <<>>}
    BY <2>3, ShortQueues, Zenon
  <2>5. answered \o <<>> = answered
    BY <2>3, <2>4
  <2>6. Said'
    BY <1>3, <2>2 DEF Said, Over
  <2> QED
    BY <2>2, <2>3, <2>4, <2>5, <2>6
<1>4. ASSUME Live, connect = "resolved"
      PROVE  wire' \in Seq(Calls) /\ ticks' \in Seq(Ticks) /\ sendQueue' \in Seq(Calls)
  <2>1. sendQueue \in Seq(Calls) /\ wire \in Seq(Calls) /\ wire # <<>>
    BY <1>4, LiveFacts
  <2>2. answered \in Seq(Calls)
    BY <2>1
  <2>3. exchange.who \in Commands
    BY DEF PrepInv, CloseInv, ConnectInv, ExchangeOK
  <2>4. tick \in Ticks
    BY <1>4, <2>3, NamesTyped
  <2>5. Append(ticks, tick) \in Seq(Ticks)
    BY <2>4
  <2>6. SendNext(exchange.who, answered, talking, Append(ticks, tick))
    BY DEF CommandOver
  <2> QED
    BY <2>1, <2>2, <2>5, <2>6, SendNextTyped
<1>5. Live => sendQueue' \in Seq(Calls)
  <2>1. <<>> \in Seq(Calls)
    OBVIOUS
  <2> QED
    BY <1>3, <1>4, <2>1, LiveFacts
<1>6. Live /\ connect = "pending" =>
           /\ exchange'.who = "auth" /\ wire' \in {wire, <<>>}
           /\ ticks' \in {<<>>, <<"fail">>, <<"auth">>, <<"quit">>, <<"ended">>}
           /\ ticks' = <<"auth">> => Said' /\ Before
           /\ Before /\ redirect' = "asked" => wire' = <<"auth">>
  BY <1>3
<1> QED
  BY <1>2, <1>4, <1>5, <1>6, PreparedKept DEF link

\* A plugin throws, speaks or is answered.
LEMMA ThrowsPrepared ==
  ASSUME PrepInv, PluginThrows, ticks = <<>>, UNCHANGED <<setting, prepared>>,
         channel' = "starting" => channel = "starting"
  PROVE  Prepared'
<1>1. exchange' = Idle /\ ticks' = <<"fail">> /\ UNCHANGED <<link, queues, redirect>>
  BY DEF PluginThrows
<1>2. exchange'.reads = "none" /\ exchange'.who = exchange.who
  BY <1>1 DEF Idle, ConnectInv, ExchangeOK, PrepInv, CloseInv
<1> QED
  BY <1>1, <1>2, StillPrepared DEF GoesOn, link, queues

\* A plugin that speaks, or throws, leaves the session as it was.
LEMMA SpeakPrepared ==
  ASSUME PrepInv, NEW p, NEW asked, NEW reply \in Replies, Speak(reply, p, asked), ticks = <<>>,
         UNCHANGED <<setting, prepared, channel>>, exchange.reads # "none"
  PROVE  Prepared'
<1>1. CASE PluginThrows
  BY <1>1, ThrowsPrepared
<1>2. CASE ~reply.fails
  <2>1. exchange' = [exchange EXCEPT !.plugin = p, !.reads = reply.reads, !.stage = reply.stage,
                          !.asked = asked, !.said = reply.says, !.packets = @ + 1]
          /\ UNCHANGED <<link, queues, ticks, redirect>>
    BY <1>2 DEF Speak
  <2>2. exchange'.who = exchange.who /\ exchange'.reads # "greeting"
    BY <2>1 DEF ConnectInv, ExchangeOK, Replies, PrepInv, CloseInv
  <2> QED
    BY <2>1, <2>2, StillPrepared DEF GoesOn, link, queues
<1> QED
  BY <1>1, <1>2 DEF Speak

\* The greeting, and TLS.
LEMMA GreetingPrepares ==
  ASSUME PrepInv, ParseHandshakeInit \/ SecureConnected PROVE Prepared'
<1>1. ticks = <<>> /\ UNCHANGED <<setting, prepared>>
  BY DEF ParseHandshakeInit, SecureConnected, Sends, LoopDrained
<1>2. (exchange.reads = "greeting" \/ channel = "starting") /\ (channel' = "starting" => exchange.reads = "greeting" \/ channel = "starting")
  BY DEF ParseHandshakeInit, SecureConnected, Sends, ServerMaySend, Verdicts
<1>3. Live => ~After
  <2>1. exchange.reads # "none" \/ channel = "starting"
    BY <1>2
  <2> QED
    BY <1>2, <2>1, ExchangeFacts, LiveFacts
<1>4. CASE PluginThrows /\ channel' # "starting"
  BY <1>1, <1>4, ThrowsPrepared
<1>5. CASE \E over : SendResponse(over)
  <2>1. exchange'.who = exchange.who /\ exchange'.reads = "result" /\ UNCHANGED <<link, queues, ticks, redirect>>
    BY <1>5 DEF SendResponse, ConnectInv, ExchangeOK, PrepInv, CloseInv
  <2>2. CASE exchange.reads # "none"
    BY <1>1, <1>2, <1>3, <2>1, <2>2, StillPrepared DEF GoesOn, link, queues
  <2>3. CASE exchange.reads = "none"
    <3> SUFFICES ASSUME Live' PROVE Prepared'
      BY DEF Prepared
    <3>1. Live /\ connect' = connect /\ UNCHANGED <<sendQueue, wire>>
      BY <2>1 DEF Live, link, queues
    <3>2. connect = "pending" /\ Before /\ Prepared
      BY <1>2, <1>3, <3>1, LiveFacts DEF PrepInv
    <3>3. Before'
      BY <1>1, <2>1, <3>1, <3>2, OtherQueues DEF Before, prepared
    <3> QED
      BY <1>1, <2>1, <3>1, <3>2, <3>3 DEF Prepared, Waiting, Needed, Elements, setting, prepared
  <2> QED
    BY <2>2, <2>3
<1>6. CASE UNCHANGED <<link, queues, ticks, talk, redirect>>
  BY <1>1, <1>3, <1>6, StillPrepared DEF GoesOn, link, queues, talk
<1>7. CASE AuthFailHandler /\ UNCHANGED <<channel, talk, ticks, redirect>>
  BY <1>1, <1>7, FailPrepared DEF talk, GoesOn
<1> QED
  BY <1>2, <1>4, <1>5, <1>6, <1>7 DEF ParseHandshakeInit, SecureConnected, Sends

\* The verdict of the server.
LEMMA VerdictPrepares ==
  ASSUME PrepInv, AuthError \/ \E right \in BOOLEAN : AuthOk(right) PROVE Prepared'
<1>1. /\ ticks = <<>> /\ wire # <<>> /\ exchange.reads # "none" /\ channel # "starting" /\ redirect # "done"
      /\ Head(wire) = exchange.who /\ UNCHANGED <<setting, prepared, channel>>
  BY DEF AuthError, AuthOk, Sends, LoopDrained
<1>2. Idle.reads = "none" /\ Idle.who = exchange.who
      /\ \A b : [Idle EXCEPT !.proven = b].reads = "none" /\ [Idle EXCEPT !.proven = b].who = exchange.who
  BY DEF Idle, ConnectInv, ExchangeOK, PrepInv, CloseInv
<1>3. /\ Live /\ connect = "pending" => Before /\ ~After /\ Direct /\ redirect # "asked"
      /\ Live /\ connect = "resolved" => exchange.who # "auth"
  BY <1>1, ExchangeFacts
<1>4. Live => redirect # "asked"
  BY <1>3, LiveFacts DEF After, Said
<1>5. CASE AuthError
  <2>1. exchange' = Idle /\ ticks' = <<"fail">> /\ wire' = Tail(wire) /\ UNCHANGED <<link, sendQueue, redirect>>
    BY <1>1, <1>5 DEF AuthError
  <2>2. Live /\ connect = "pending" => wire' = <<>>
    BY <1>1, <2>1, LiveFacts, ShortQueues, Zenon DEF Waiting
  <2>3. Live /\ connect = "resolved" => wire' \in Seq(Calls) /\ ticks' \in Seq(Ticks)
    BY <1>1, <2>1, LiveFacts, NamesTyped
  <2>4. ticks' # <<"auth">>
    <3>1. "fail" # "auth"
      OBVIOUS
    <3> QED
      BY <2>1, <3>1, OtherQueues, Zenon
  <2>5. Live /\ connect = "pending" =>
           /\ exchange'.who = "auth" /\ wire' \in {wire, <<>>}
           /\ ticks' \in {<<>>, <<"fail">>, <<"auth">>, <<"quit">>, <<"ended">>}
           /\ ticks' = <<"auth">> => Said' /\ Before
           /\ Before /\ redirect' = "asked" => wire' = <<"auth">>
    BY <1>2, <1>3, <2>1, <2>2, <2>4, LiveFacts DEF Waiting
  <2> QED
    BY <1>1, <1>2, <1>3, <1>4, <2>1, <2>3, <2>5, PreparedKept, LiveFacts DEF GoesOn, link
<1>6. ASSUME NEW right \in BOOLEAN, AuthOk(right) PROVE Prepared'
  <2>1. CASE CommandThrows(Tail(wire))
    <3>1. CASE redirect # "asked"
      BY <1>1, <1>2, <1>3, <2>1, <3>1, OverPrepared DEF CommandThrows
    <3>2. CASE redirect = "asked"
      BY <1>4, <2>1, <3>2 DEF CommandThrows, Prepared, Live, link
    <3> QED
      BY <3>1, <3>2
  <2>2. CASE SuccessEnd(right) /\ UNCHANGED <<link, redirect>>
    <3>1. CASE redirect # "asked"
      BY <1>1, <1>2, <1>3, <2>2, <3>1, OverPrepared DEF SuccessEnd
    <3>2. CASE redirect = "asked"
      BY <1>4, <2>2, <3>2 DEF Prepared, Live, link
    <3> QED
      BY <3>1, <3>2
  <2>3. CASE /\ exchange.who = "auth" /\ redirect' = "asked" /\ exchange' = [Idle EXCEPT !.proven = right]
             /\ UNCHANGED <<link, queues, ticks, clearOn>>
    <3>1. Live /\ connect = "pending" => wire = <<"auth">>
      <4>1. "session" # "auth"
        OBVIOUS
      <4> QED
        BY <1>1, <2>3, <4>1, LiveFacts, ShortQueues, Zenon DEF Waiting
    <3>2. <<>> # <<"auth">>
      BY OtherQueues, Zenon
    <3>3. Live => connect = "pending"
      BY <1>3, <2>3, LiveFacts
    <3>4. Live =>
           /\ exchange'.who = "auth" /\ wire' \in {wire, <<>>}
           /\ ticks' \in {<<>>, <<"fail">>, <<"auth">>, <<"quit">>, <<"ended">>}
           /\ ticks' # <<"auth">>
           /\ Before /\ redirect' = "asked" => wire' = <<"auth">>
      BY <1>1, <1>2, <2>3, <3>1, <3>2, <3>3, LiveFacts DEF Waiting, queues
    <3>5. GoesOn /\ UNCHANGED <<connect, sendQueue>>
      BY <1>2, <2>3 DEF GoesOn, link, queues
    <3>6. Live => sendQueue' \in Seq(Calls)
      BY <3>5, LiveFacts
    <3>7. /\ Live /\ connect = "resolved" => wire' \in Seq(Calls) /\ ticks' \in Seq(Ticks)
          /\ Live /\ After /\ ~Before => redirect' # "asked" /\ (channel' = "starting" => channel = "starting")
      BY <1>3, <3>3
    <3>8. /\ connect' \in {connect, "rejected"} /\ UNCHANGED <<setting, prepared>>
          /\ redirect = "done" => redirect' = "done"
      BY <1>1, <3>5
    <3>9. Live /\ connect = "pending" =>
           /\ exchange'.who = "auth" /\ wire' \in {wire, <<>>}
           /\ ticks' \in {<<>>, <<"fail">>, <<"auth">>, <<"quit">>, <<"ended">>}
           /\ ticks' = <<"auth">> => Said' /\ Before
           /\ Before /\ redirect' = "asked" => wire' = <<"auth">>
      BY <3>4, Zenon
    <3> QED
      BY <3>5, <3>6, <3>7, <3>8, <3>9, PreparedKept, Zenon
  <2>4. CASE UNCHANGED <<link, queues, ticks, talk, redirect>>
    <3>0. <<>> # <<"auth">>
      BY OtherQueues, Zenon
    <3>1. GoesOn /\ UNCHANGED <<connect, sendQueue, exchange, wire, ticks, redirect>> /\ channel' = channel
      BY <1>1, <2>4 DEF GoesOn, link, queues, talk
    <3>2. Live /\ connect = "pending" =>
           /\ exchange'.who = "auth" /\ wire' \in {wire, <<>>}
           /\ ticks' \in {<<>>, <<"fail">>, <<"auth">>, <<"quit">>, <<"ended">>}
           /\ ticks' = <<"auth">> => Said' /\ Before
           /\ Before /\ redirect' = "asked" => wire' = <<"auth">>
      BY <1>1, <1>3, <3>0, <3>1, LiveFacts DEF Waiting
    <3>3. Live => redirect' # "asked" /\ sendQueue' \in Seq(Calls)
      BY <1>4, <3>1, LiveFacts
    <3>4. Live /\ connect = "resolved" => wire' \in Seq(Calls) /\ ticks' \in Seq(Ticks)
      BY <3>1, LiveFacts
    <3> QED
      BY <1>1, <3>1, <3>2, <3>3, <3>4, PreparedKept, Zenon
  <2> QED
    BY <1>6, <2>1, <2>2, <2>3, <2>4 DEF AuthOk
<1> QED
  BY <1>5, <1>6

\* The server asks for another plugin, or goes on with one.
LEMMA PluginPrepares ==
  ASSUME PrepInv,
         \/ \E p \in Plugins \cup {"other"} : AuthSwitch(p)
         \/ \E packet \in Packets : PluginResponse(packet) \/ RequestForSalt(packet)
  PROVE  Prepared'
<1>1. /\ ticks = <<>> /\ wire # <<>> /\ exchange.reads # "none" /\ channel # "starting" /\ redirect # "done"
      /\ UNCHANGED <<setting, prepared, channel>>
  BY DEF AuthSwitch, PluginResponse, RequestForSalt, Sends, LoopDrained
<1>2. Idle.reads = "none" /\ Idle.who = exchange.who
  BY DEF Idle, ConnectInv, ExchangeOK, PrepInv, CloseInv
<1>3. /\ Live /\ connect = "pending" => Before /\ Direct
      /\ Live /\ connect = "resolved" => exchange.who # "auth"
      /\ Live => redirect # "asked"
  BY <1>1, ExchangeFacts, LiveFacts DEF After, Said
<1>4. ASSUME NEW p \in Plugins \cup {"other"}, AuthSwitch(p) PROVE Prepared'
  <2>1. CASE CommandThrows(wire)
    <3>1. CASE redirect # "asked"
      BY <1>1, <1>2, <1>3, <2>1, <3>1, OverPrepared DEF CommandThrows
    <3>2. CASE redirect = "asked"
      BY <1>3, <2>1, <3>2 DEF CommandThrows, Prepared, Live, link
    <3> QED
      BY <3>1, <3>2
  <2>2. CASE AuthFailHandler /\ exchange' = Idle /\ UNCHANGED <<ticks, clearOn, redirect>>
    BY <1>1, <1>2, <2>2, FailPrepared DEF GoesOn
  <2>3. CASE p \in Plugins /\ Speak(Start(p, config), p, p)
    <3>1. Start(p, config) \in Replies
      BY <2>3, StartSays
    <3> QED
      BY <1>1, <2>3, <3>1, SpeakPrepared
  <2> QED
    BY <1>4, <2>1, <2>2, <2>3 DEF AuthSwitch
<1>5. ASSUME NEW packet, PluginResponse(packet) PROVE Prepared'
  <2> DEFINE reply == Response(exchange.plugin, exchange.stage, packet, config, SelfSigned)
             asked == IF packet = "switch" THEN "other" ELSE exchange.asked
  <2>1. exchange.reads = "response" /\ Speak(reply, exchange.plugin, asked)
    BY <1>5 DEF PluginResponse
  <2>2. exchange.plugin \in Answering /\ exchange.stage \in Stages
    BY <2>1 DEF ConnectInv, PluginAllowed, ExchangeOK, PrepInv, CloseInv
  <2>3. reply \in Replies
    BY <2>2, ResponseSays
  <2> HIDE DEF reply, asked
  <2> QED
    BY <1>1, <2>1, <2>3, SpeakPrepared
<1>6. ASSUME NEW packet, RequestForSalt(packet) PROVE Prepared'
  <2>1. CASE PluginThrows
    BY <1>1, <2>1, ThrowsPrepared
  <2>2. CASE Speak(SendScramble, "parsec", "parsec")
    <3>1. SendScramble \in Replies
      BY DEF SendScramble, Says, Replies, Forms, Reads, Stages
    <3> QED
      BY <1>1, <2>2, <3>1, SpeakPrepared
  <2> QED
    BY <1>6, <2>1, <2>2 DEF RequestForSalt
<1> QED
  BY <1>4, <1>5, <1>6

\* The answers to the session queries, to SET NAMES and to queries.
LEMMA AnswersPrepares ==
  ASSUME PrepInv,
         \/ \E ok \in BOOLEAN : SessionAnswered(ok)
         \/ \E c \in Queries \cup {"names", "timeout"}, ok \in BOOLEAN : Answered(c, ok)
  PROVE  Prepared'
<1>1. ASSUME NEW ok \in BOOLEAN, SessionAnswered(ok) PROVE Prepared'
  <2>1. /\ ticks = <<>> /\ redirect # "done" /\ wire = <<"session">> /\ UNCHANGED <<setting, channel, talk, redirect>>
        /\ exchange' = exchange
    BY <1>1 DEF SessionAnswered, SessionRefused, LoopDrained, talk
  <2>2. CASE ~Live
    <3>1. connect = "rejected" /\ connect' = "rejected"
      BY <1>1, <2>1, <2>2 DEF Live, SessionAnswered, SessionRefused, AuthFailHandler, End, NextSessionQuery, Ready,
                              ExecuteSessionTimeout
    <3> QED
      BY <3>1 DEF Prepared, Live
  <2>3. CASE AuthFailHandler /\ UNCHANGED <<ticks, prepared>>
    BY <2>1, <2>3, FailPrepared DEF GoesOn
  <2>4. CASE End(ticks) /\ UNCHANGED prepared
    <3>1. ticks \in Seq(Ticks)
      BY <2>1
    <3> QED
      BY <2>1, <2>4, <3>1, EndPrepared
  <2>5. CASE /\ Live /\ accepted' = accepted \cup {Head(session)} /\ UNCHANGED layers
             /\ \E rest \in {Tail(session)} \cup
                  (IF Head(session) = "autozone" THEN {<<"timezone">> \o Tail(session)} ELSE {}) :
                  NextSessionQuery(rest, addCommand, ticks)
    <3>1. connect = "pending" /\ After /\ Said /\ Waiting /\ sendQueue \in Seq(Calls) /\ Prepared
      BY <2>1, <2>5, LiveFacts DEF Before, PrepInv
    <3>2. session \in Seq(SessionQueries) /\ session # <<>> /\ layers' = Layers
      BY <2>1, <2>5, <3>1 DEF After, Prepared
    <3>3. PICK rest \in {Tail(session)} \cup (IF Head(session) = "autozone" THEN {<<"timezone">> \o Tail(session)} ELSE {}) :
            NextSessionQuery(rest, addCommand, ticks)
      BY <2>5
    <3>4. Elements(session) \subseteq {Head(session)} \cup Elements(Tail(session))
      <4>1. ASSUME NEW i \in 1..Len(session), i # 1 PROVE \E j \in 1..Len(Tail(session)) : Tail(session)[j] = session[i]
        <5>1. i - 1 \in 1..Len(Tail(session)) /\ Tail(session)[i - 1] = session[i]
          BY <3>2, <4>1
        <5> QED
          BY <5>1
      <4>2. Head(session) = session[1] /\ DOMAIN session = 1..Len(session) /\ DOMAIN Tail(session) = 1..Len(Tail(session))
        BY <3>2
      <4> QED
        BY <4>1, <4>2 DEF Elements
    <3>5. rest \in Seq(SessionQueries) /\ Elements(Tail(session)) \subseteq Elements(rest)
      <4>1. CASE rest = Tail(session)
        BY <3>2, <4>1
      <4>2. CASE rest = <<"timezone">> \o Tail(session)
        <5> DEFINE left == Tail(session)
        <5>0. left \in Seq(SessionQueries)
          BY <3>2
        <5>a. "timezone" \in SessionQueries
          BY DEF SessionQueries
        <5>1. left \in Seq(SessionQueries) /\ <<"timezone">> \in Seq(SessionQueries) /\ Len(<<"timezone">>) = 1
          BY <5>0, <5>a
        <5> HIDE DEF left
        <5>b. \A r, l : l \in Seq(SessionQueries) /\ r = <<"timezone">> \o l =>
                r \in Seq(SessionQueries) /\ Len(r) = Len(l) + 1 /\ \A j \in 1..Len(l) : j + 1 \in 1..Len(r) /\ r[j + 1] = l[j]
          BY <5>1
        <5>c. rest = <<"timezone">> \o left
          BY <4>2 DEF left
        <5> USE DEF left
        <5>2. rest \in Seq(SessionQueries) /\ Len(rest) = Len(Tail(session)) + 1
          BY <5>1, <5>b, <5>c, Zenon
        <5>3. \A j \in 1..Len(Tail(session)) : j + 1 \in 1..Len(rest) /\ rest[j + 1] = Tail(session)[j]
          BY <5>1, <5>b, <5>c, Zenon
        <5>4. DOMAIN rest = 1..Len(rest) /\ DOMAIN Tail(session) = 1..Len(Tail(session))
          BY <5>1, <5>2
        <5> QED
          BY <5>2, <5>3, <5>4 DEF Elements
      <4> QED
        BY <3>3, <4>1, <4>2
    <3>6. Needed \subseteq accepted' \cup Elements(rest)
      BY <2>5, <3>1, <3>4, <3>5 DEF Prepared
    <3> QED
      BY <2>1, <2>5, <3>1, <3>2, <3>3, <3>5, <3>6, NextPrepared DEF Waiting
  <2> QED
    BY <1>1, <2>2, <2>3, <2>4, <2>5 DEF SessionAnswered, SessionRefused
<1>2. ASSUME NEW c \in Queries \cup {"names", "timeout"}, NEW ok \in BOOLEAN, Answered(c, ok)
      PROVE  Prepared'
  <2>1. /\ ticks = <<>> /\ wire # <<>> /\ c = Head(wire) /\ UNCHANGED <<setting, prepared, link, channel, redirect>>
        /\ redirect # "done"
        /\ \E more \in {<<"end">>, <<>>} : SendNext(c, Tail(wire), exchange, more)
    BY <1>2 DEF Answered, LoopDrained
  <2>2. Live => connect = "resolved"
    <3>1. c # "auth" /\ c # "session"
      BY ConnectAssumption
    <3> QED
      BY <2>1, <3>1, ShortQueues, LiveFacts, Zenon DEF Waiting
  <2>3. PICK more \in {<<"end">>, <<>>} : SendNext(c, Tail(wire), exchange, more)
    BY <2>1
  <2>4. Live => wire' \in Seq(Calls) /\ ticks' \in Seq(Ticks) /\ sendQueue' \in Seq(Calls)
    <3>1. <<"end">> \in Seq(Ticks) /\ <<>> \in Seq(Ticks)
      BY NamesTyped
    <3> SUFFICES ASSUME Live PROVE wire' \in Seq(Calls) /\ ticks' \in Seq(Ticks) /\ sendQueue' \in Seq(Calls)
      OBVIOUS
    <3>2. sendQueue \in Seq(Calls) /\ wire \in Seq(Calls)
      BY <2>2, LiveFacts
    <3>3. Tail(wire) \in Seq(Calls)
      BY <2>1, <3>2
    <3>4. more \in Seq(Ticks)
      BY <3>1, Zenon
    <3> QED
      BY <2>3, <3>2, <3>3, <3>4, SendNextTyped
  <2>5. GoesOn
    BY <2>3, WrittenQuiet DEF SendNext, GoesOn
  <2>6. Live /\ After => redirect' # "asked"
    BY <2>1, LiveFacts DEF Said
  <2> QED
    BY <2>1, <2>2, <2>4, <2>5, <2>6, PreparedKept DEF link
<1> QED
  BY <1>1, <1>2

\* The socket, the timers, and the errors thrown later.
LEMMA SocketPrepares ==
  ASSUME PrepInv,
         \/ SocketConnects \/ StreamRefused \/ ConnectTimeoutReached \/ SocketErrorHandler \/ SocketTimeoutReached
         \/ \E c \in Commands : ThrowError(c)
  PROVE  Prepared'
<1>1. UNCHANGED <<setting, prepared, channel, talk, redirect>> /\ ticks = <<>>
  BY DEF SocketConnects, StreamRefused, ConnectTimeoutReached, SocketErrorHandler, SocketTimeoutReached, StillTalking,
         LoopDrained, ThrowError
<1>2. exchange' = exchange /\ GoesOn
  BY <1>1 DEF talk, GoesOn
<1>3. CASE AuthFailHandler /\ UNCHANGED ticks
  BY <1>1, <1>2, <1>3, FailPrepared
<1>4. CASE UNCHANGED <<connect, sendQueue, wire>> /\ ticks' \in {<<>>, <<"fail">>}
  BY <1>1, <1>2, <1>4, StillPrepared
<1>5. CASE FatalError(receiveQueue) /\ UNCHANGED <<connect, ticks>>
  <2>1. wire' = wire /\ sendQueue' \in {sendQueue, <<>>}
    BY <1>5 DEF FatalError
  <2>2. <<>> # <<"auth">> /\ <<>> \in Seq(Calls) /\ <<>> \in Seq(Ticks)
    BY OtherQueues
  <2>3. Live => sendQueue' \in Seq(Calls)
    BY <2>1, <2>2, LiveFacts
  <2>4. Live /\ connect = "pending" =>
           /\ exchange'.who = "auth" /\ wire' \in {wire, <<>>}
           /\ ticks' \in {<<>>, <<"fail">>, <<"auth">>, <<"quit">>, <<"ended">>}
           /\ ticks' # <<"auth">>
           /\ Before /\ redirect' = "asked" => wire' = <<"auth">>
    BY <1>1, <1>2, <1>5, <2>1, <2>2, LiveFacts DEF Waiting, Before
  <2>5. Live /\ connect = "resolved" => wire' \in Seq(Calls) /\ ticks' \in Seq(Ticks)
    BY <1>1, <1>5, <2>1, <2>2, LiveFacts
  <2>6. Live /\ After => redirect' # "asked"
    BY <1>1, LiveFacts DEF Said
  <2> QED
    BY <1>1, <1>2, <1>5, <2>3, <2>4, <2>5, <2>6, PreparedKept
<1> QED
  BY <1>1, <1>3, <1>4, <1>5 DEF SocketConnects, StreamRefused, ConnectTimeoutReached, SocketErrorHandler,
       SocketTimeoutReached, ThrowError, link, queues

\* A redirection, and what the client does with a connection it was given.
LEMMA RedirectPrepares ==
  ASSUME PrepInv, RedirectFails \/ RedirectConnects \/ Misrouted PROVE Prepared'
<1>1. CASE redirect' = "done"
  BY <1>1 DEF Prepared, Live
<1>2. CASE RedirectFails
  <2>1. /\ ticks = <<>> /\ redirect = "asked" /\ redirect' = "failed" /\ SuccessEnd(exchange.proven)
        /\ UNCHANGED <<setting, prepared, link, channel>>
    BY <1>2 DEF RedirectFails, LoopDrained
  <2>2. Live => Before /\ connect = "pending" /\ wire = <<"auth">>
    BY <2>1, LiveFacts DEF Before, Said
  <2>3. /\ [Idle EXCEPT !.proven = exchange.proven].reads = "none"
        /\ [Idle EXCEPT !.proven = exchange.proven].who = exchange.who
    BY DEF Idle, ConnectInv, ExchangeOK, PrepInv, CloseInv
  <2>4. channel # "starting"
    BY <2>1 DEF PrepInv, CloseInv, Redirected, Over
  <2>5. Live => wire # <<>>
    BY <2>2, OtherQueues, Zenon
  <2>6. Live /\ connect = "resolved" => FALSE
    BY <2>2
  <2> QED
    BY <2>1, <2>2, <2>3, <2>4, <2>5, <2>6, OverPrepared DEF SuccessEnd, Direct
<1>3. CASE RedirectConnects /\ redirect' # "done"
  <2>1. ticks = <<>> /\ End(ticks) /\ UNCHANGED <<setting, prepared, redirect, channel, talk>> /\ exchange' = exchange
    BY <1>3 DEF RedirectConnects, LoopDrained, Replaced, talk, prepared
  <2>2. ticks \in Seq(Ticks)
    BY <2>1
  <2> QED
    BY <2>1, <2>2, EndPrepared
<1> QED
  BY <1>1, <1>2, <1>3 DEF Misrouted

\* The calls of the client come after the session is prepared.
LEMMA ClientPrepares ==
  ASSUME PrepInv, (\E q \in Queries : Query(q)) \/ (\E u \in Users, wrong \in BOOLEAN : ChangeUser(u, wrong))
  PROVE  Prepared'
<1>1. /\ connect = "resolved" /\ UNCHANGED <<setting, prepared, connect, redirect, channel>> /\ GoesOn /\ ticks = <<>>
  BY ClientQuiet, QuietGoesOn DEF Query, ChangeUser, link, LoopDrained, PrepInv, CloseInv
<1>2. /\ UNCHANGED <<queues, ticks>> \/ \E c \in Calls : \E how : AddCommand(c, how, ticks)
  <2>1. ASSUME NEW c, AddCommandEnable(c, ticks) PROVE AddCommand(c, "enable", ticks)
    BY <2>1 DEF AddCommand
  <2>2. ASSUME NEW q \in Queries, Query(q) PROVE UNCHANGED <<queues, ticks>> \/ \E c \in Calls : \E how : AddCommand(c, how, ticks)
    BY <2>2, NamesTyped DEF Query
  <2>3. ASSUME NEW u \in Users, NEW wrong, ChangeUser(u, wrong)
        PROVE  UNCHANGED <<queues, ticks>> \/ \E c \in Calls : \E how : AddCommand(c, how, ticks)
    BY <2>1, <2>3, NamesTyped DEF ChangeUser
  <2> QED
    BY <2>2, <2>3
<1>3. ASSUME Live PROVE wire' \in Seq(Calls) /\ ticks' \in Seq(Ticks) /\ sendQueue' \in Seq(Calls)
  <2>1. sendQueue \in Seq(Calls) /\ wire \in Seq(Calls) /\ ticks \in Seq(Ticks)
    BY <1>1, <1>3, LiveFacts
  <2>2. CASE UNCHANGED <<queues, ticks>>
    BY <2>1, <2>2 DEF queues
  <2>3. ASSUME NEW c \in Calls, NEW how, AddCommand(c, how, ticks)
        PROVE  wire' \in Seq(Calls) /\ ticks' \in Seq(Ticks) /\ sendQueue' \in Seq(Calls)
    BY <2>1, <2>3, AddCommandTyped
  <2> QED
    BY <1>2, <2>2, <2>3
<1>4. Live /\ After => redirect' # "asked"
  BY <1>1, LiveFacts DEF Said
<1> QED
  BY <1>1, <1>3, <1>4, PreparedKept

\* The callbacks.
LEMMA NextTickPrepares == ASSUME PrepInv, NextTick PROVE Prepared'
<1> DEFINE tick == Head(ticks)
           more == Tail(ticks)
<1>1. /\ ticks # <<>> /\ UNCHANGED <<setting, channel>> /\ GoesOn
      /\ redirect' \in {redirect, "done"} /\ (redirect' # "no" => redirect # "no")
  BY NextTickQuiet, QuietGoesOn DEF PrepInv, CloseInv
<1> SUFFICES ASSUME Live' PROVE Prepared'
  BY DEF Prepared
<1>2. redirect' = redirect /\ redirect # "done"
  BY <1>1 DEF Live
<1>3. ASSUME Live, connect = "pending"
      PROVE  /\ tick \in {"fail", "auth", "quit", "ended"} /\ more = <<>> /\ (tick = "auth" => ticks = <<"auth">>)
             /\ tick \notin Users /\ tick # "end"
  <2>1. ticks \in {<<"fail">>, <<"auth">>, <<"quit">>, <<"ended">>}
    BY <1>1, <1>3, LiveFacts DEF Waiting
  <2>2. /\ tick \in {"fail", "auth", "quit", "ended"} /\ more = <<>> /\ (tick = "auth" => ticks = <<"auth">>)
    <3>1. "fail" # "auth" /\ "quit" # "auth" /\ "ended" # "auth"
      OBVIOUS
    <3> QED
      BY <2>1, <3>1, ShortQueues, Zenon
  <2> QED
    BY <2>2, ConnectAssumption
<1>4. ASSUME Live, connect = "resolved"
      PROVE  ticks \in Seq(Ticks) /\ tick # "auth" /\ more \in Seq(Ticks) /\ wire \in Seq(Calls) /\ sendQueue \in Seq(Calls)
  <2>1. ticks \in Seq(Ticks) /\ wire \in Seq(Calls) /\ sendQueue \in Seq(Calls)
    BY <1>4, LiveFacts
  <2>2. tick \in Ticks /\ more \in Seq(Ticks)
    BY <1>1, <2>1
  <2> QED
    BY <2>1, <2>2, NamesTyped
<1>5. Live => redirect' # "asked" \/ ~After
  BY <1>2, LiveFacts DEF Said
<1>6. /\ "auth" \notin Users /\ "fail" \notin Users /\ "quit" \notin Users /\ "ended" \notin Users /\ "end" \notin Users
  BY ConnectAssumption
<1>7. <<>> # <<"auth">> /\ <<>> \in Seq(Calls) /\ <<>> \in Seq(Ticks) /\ "ended" \in Ticks
  BY OtherQueues, NamesTyped
\* A callback that tells nothing of a new verdict.
<1>8. ASSUME UNCHANGED <<prepared, wire>>, exchange'.who = exchange.who, connect' \in {connect, "rejected"},
             Live => sendQueue' \in Seq(Calls),
             Live /\ connect = "pending" => ticks' \in {<<>>, <<"quit">>, <<"ended">>},
             Live /\ connect = "resolved" => ticks' \in Seq(Ticks)
      PROVE  Prepared'
  <2>1. <<"quit">> # <<"auth">> /\ <<"ended">> # <<"auth">>
    <3>1. "quit" # "auth" /\ "ended" # "auth"
      OBVIOUS
    <3> QED
      BY <3>1, OtherQueues, Zenon
  <2>2. Live /\ connect = "pending" =>
           /\ exchange'.who = "auth" /\ wire' \in {wire, <<>>}
           /\ ticks' \in {<<>>, <<"fail">>, <<"auth">>, <<"quit">>, <<"ended">>}
           /\ ticks' # <<"auth">>
           /\ Before /\ redirect' = "asked" => wire' = <<"auth">>
    BY <1>2, <1>7, <1>8, <2>1, LiveFacts DEF Waiting, Before
  <2>3. Live /\ connect = "resolved" => wire' \in Seq(Calls) /\ ticks' \in Seq(Ticks)
    BY <1>4, <1>8
  <2> QED
    BY <1>1, <1>2, <1>5, <1>8, <2>2, <2>3, PreparedKept
<1> HIDE DEF tick, more
<1>9. CASE tick = "auth"
  <2>1. CASE AuthSucceedHandler(more)
    <3>1. /\ NextSessionQuery(session, Mode, more) /\ layers' = layers + Layers /\ UNCHANGED <<accepted, talk>>
      BY <2>1 DEF AuthSucceedHandler, Layers
    <3>2. CASE connect = "rejected"
      <4>1. connect' = "rejected"
        BY <3>1, <3>2 DEF NextSessionQuery, Ready, End, ExecuteSessionTimeout
      <4> QED
        BY <4>1 DEF Prepared, Live
    <3>3. CASE connect # "rejected"
      <4>1. Live /\ connect = "pending"
        BY <1>2, <1>4, <1>9, <3>3, LiveFacts DEF Live
      <4>2. more = <<>> /\ Before /\ Said /\ Waiting /\ sendQueue \in Seq(Calls) /\ Prepared
        BY <1>3, <1>9, <4>1, LiveFacts DEF PrepInv
      <4>3. layers' = Layers /\ exchange' = exchange /\ accepted' = accepted
        BY <3>1, <4>2 DEF Before, Layers, talk
      <4>4. session \in Seq(SessionQueries) /\ Needed \subseteq accepted' \cup Elements(session)
        BY <4>1, <4>2, <4>3 DEF Prepared
      <4>5. NextSessionQuery(session, Mode, <<>>)
        BY <3>1, <4>2
      <4> QED
        BY <1>1, <1>2, <4>1, <4>2, <4>3, <4>4, <4>5, NextPrepared DEF Waiting
    <3> QED
      BY <3>2, <3>3
  <2>2. CASE ticks' = more /\ UNCHANGED <<link, queues, call, talk, prepared, redirect>>
    BY <1>3, <1>4, <1>8, <2>2, LiveFacts DEF link, queues, talk
  <2> QED
    BY <1>6, <1>9, <2>1, <2>2 DEF NextTick, tick, more
<1>10. CASE tick = "fail"
  <2>1. AuthFailHandler /\ ticks' = Tail(ticks) /\ UNCHANGED <<talk, prepared, redirect>>
    BY <1>6, <1>10 DEF NextTick, tick, more
  <2> QED
    BY <1>1, <2>1, FailPrepared DEF talk
<1>11. CASE tick = "quit"
  <2>1. sendQueue' = <<>> /\ ticks' = Append(more, "ended") /\ UNCHANGED <<link, wire, talk, prepared>>
    BY <1>6, <1>11 DEF NextTick, tick, more
  <2>2. Live /\ connect = "pending" => ticks' = Append(<<>>, "ended")
    BY <1>3, <2>1
  <2>3. Append(<<>>, "ended") = <<"ended">>
    OBVIOUS
  <2>4. ASSUME Live, connect = "resolved" PROVE ticks' \in Seq(Ticks)
    <3>1. more \in Seq(Ticks)
      BY <1>4, <2>4
    <3> QED
      BY <1>7, <2>1, <3>1
  <2> QED
    BY <1>7, <1>8, <2>1, <2>2, <2>3, <2>4 DEF link, talk
<1>12. CASE tick = "ended"
  <2>1. QuitEnded(more) /\ UNCHANGED <<talk, session, accepted>>
    BY <1>6, <1>12 DEF NextTick, tick, more
  <2>2. /\ ticks' = more /\ connect' \in {connect, "rejected"} /\ sendQueue' = <<>> /\ UNCHANGED <<wire, layers>>
    BY <1>2, <2>1 DEF QuitEnded, Replaced
  <2> QED
    BY <1>3, <1>4, <1>7, <1>8, <2>1, <2>2 DEF talk, prepared
<1>13. CASE tick = "end"
  <2>1. End(more) /\ UNCHANGED <<talk, prepared, redirect>>
    BY <1>6, <1>13 DEF NextTick, tick, more
  <2> QED
    BY <1>1, <1>3, <1>4, <1>13, <2>1, EndPrepared DEF talk
<1>14. CASE tick \in Users
  <2>1. PICK names \in BOOLEAN : UserChanged(tick, names, more)
    BY <1>6, <1>14 DEF NextTick, tick, more
  <2>2. UNCHANGED <<connect, prepared>>
    BY <2>1 DEF UserChanged
  <2>3. Live => connect = "resolved"
    BY <1>3, <1>14, LiveFacts
  <2>4. ASSUME Live PROVE wire' \in Seq(Calls) /\ ticks' \in Seq(Ticks) /\ sendQueue' \in Seq(Calls)
    <3>1. sendQueue \in Seq(Calls) /\ wire \in Seq(Calls) /\ more \in Seq(Ticks)
      BY <1>4, <2>3, <2>4
    <3>2. CASE UNCHANGED <<sendQueue, wire>> /\ ticks' = more
      BY <3>1, <3>2
    <3>3. CASE \E how : AddCommand("names", how, more)
      BY <3>1, <3>3, NamesTyped, AddCommandTyped
    <3> QED
      BY <2>1, <3>2, <3>3 DEF UserChanged, queues
  <2> QED
    BY <1>1, <1>2, <1>5, <2>2, <2>3, <2>4, PreparedKept
<1> QED
  BY <1>9, <1>10, <1>11, <1>12, <1>13, <1>14 DEF NextTick, tick, more

\* Every step preserves the invariant.
LEMMA PrepStep == PrepInv /\ [Next]_vars => PrepInv'
<1> SUFFICES ASSUME PrepInv, [Next]_vars PROVE PrepInv'
  OBVIOUS
<1>1. CloseInv'
  BY CloseStep DEF PrepInv
<1>2. CASE UNCHANGED vars
  <2>1. UNCHANGED <<setting, link, queues, ticks, channel, talk, prepared, redirect>>
    BY <1>2 DEF vars
  <2> QED
    BY <1>1, <2>1 DEF PrepInv, Prepared, Live, Before, After, Waiting, Said, Over, Needed, Layers, Elements,
                      setting, link, queues, talk, prepared
<1>3. CASE ServerAnswers
  BY <1>1, <1>3, GreetingPrepares, VerdictPrepares, PluginPrepares, AnswersPrepares DEF PrepInv, ServerAnswers
<1> QED
  BY <1>1, <1>2, <1>3, NextTickPrepares, SocketPrepares, RedirectPrepares, ClientPrepares DEF PrepInv, Next

\* It holds of a connection that is being opened.
LEMMA PrepInit == Init => PrepInv
<1> SUFFICES ASSUME Init PROVE PrepInv
  OBVIOUS
<1>1. /\ connect = "pending" /\ redirect = "no" /\ sendQueue = <<>> /\ ticks = <<>>
      /\ wire = <<"auth">> /\ session = config.session /\ layers = 0 /\ config \in Configs
  BY Zenon DEF Init
<1>2. exchange.who = "auth"
  BY DEF Init
<1>3. <<"auth">> # <<"session">> /\ <<>> # <<"auth">>
  <2>1. "auth" # "session"
    OBVIOUS
  <2> QED
    BY <2>1, OtherQueues, Zenon
<1>4. Before /\ Waiting
  BY <1>1, <1>2, <1>3 DEF Before, Waiting
<1>5. session \in Seq(SessionQueries) /\ sendQueue \in Seq(Calls)
  BY <1>1, ConnectAssumption DEF SessionQueries
<1>6. Prepared
  BY <1>1, <1>4, <1>5 DEF Prepared, Needed
<1> QED
  BY <1>6, CloseInit DEF PrepInv

\* A connection is handed out with every session query accepted by the server, and with compression
\* on both sides or on none.
THEOREM ConnectSessionPrepared == Spec => []SessionPrepared
<1>1. PrepInv => SessionPrepared
  <2> SUFFICES ASSUME PrepInv, connect = "resolved", redirect # "done" PROVE Needed \subseteq accepted /\ layers = Layers
    BY DEF SessionPrepared, Needed, Layers
  <2>1. After /\ Prepared /\ Live
    BY LiveFacts DEF PrepInv, Live
  <2> QED
    BY <2>1 DEF After, Prepared, Needed
<1> QED
  BY <1>1, PrepInit, PrepStep, PTL DEF Spec

-----------------------------------------------------------------------------
(***************************************************************************)
(* Nothing is written behind a change of user, for a client that has one   *)
(* of them under way at a time.                                            *)
(***************************************************************************)
OneAtATime ==
  \A u, v \in Users : u # v /\ call[v] \in {"waits", "names"} => call'[u] = call[u]

Callbacks == {"fail", "auth", "end", "quit", "ended"}

\* Until connect() resolves: the session queries go out one by one.
Awaited ==
  /\ ticks \in {<<>>, <<"fail">>, <<"auth">>, <<"quit">>, <<"ended">>}
  /\ sendQueue # <<>> => ticks = <<"quit">>
  /\ onEnd \subseteq {"session", "timeout"} /\ (config.pipelining => onEnd = {})
  /\ wire = <<"session">> /\ socket = "open" /\ redirect # "done" =>
       addCommand = Mode \/ ticks \in {<<"quit">>, <<"ended">>}
Approaching ==
  /\ exchange.who = "auth" /\ sendQueue \in Seq(Calls \ Users) /\ ticks \in Seq(Callbacks)
  /\ connect = "rejected" /\ exchange.reads # "none" => wire \in {<<>>, <<"auth">>}
  /\ connect = "pending" => Awaited

\* Once it has.  Who can make the next command wait: a change of user and what is queued behind it,
\* or every command.
Unused ==
  \A c \in Users \cup Queries : call[c] = "none" => c \notin Elements(wire) \cup Elements(sendQueue) \cup onEnd
Listening ==
  IF config.pipelining THEN onEnd \subseteq Users \cup Queries
  ELSE Elements(wire) \cup Elements(sendQueue) \subseteq onEnd \cup {"quit"}
Handed ==
  /\ wire \in Seq(Calls) /\ sendQueue \in Seq(Calls) /\ receiveQueue \in Seq(Commands) /\ ticks \in Seq(Ticks)
  /\ ~rejectFct /\ addCommand \in {"disabled", "enable", Mode} /\ (Terminating <=> addCommand = "disabled")
  /\ "quit" \in Elements(ticks) \cup Elements(sendQueue) \/ "ended" \in Elements(ticks) => Terminating
  /\ Unused /\ Listening

AtMostOne == \A i, j \in 1..Len(wire) : wire[i] \in onEnd /\ wire[j] \in onEnd => i = j
Level == ~Terminating => Len(receiveQueue) = Len(wire) + Len(sendQueue)
NoUser(q) == Elements(q) \cap Users = {}

\* No change of user is to be sent; one of them waits for its turn, talks, or has failed.
Nobody == NoUser(sendQueue) /\ exchange.reads = "none"
Alone(q, u) == \E k \in 1..Len(q) : q[k] = u /\ \A i \in 1..Len(q) : q[i] \in Users => i = k
InTurn(u) ==
  /\ call[u] = "waits" /\ NoUser(ticks) /\ exchange.reads = "none" /\ u \in onEnd /\ Alone(sendQueue, u)
  /\ addCommand # "pipeline"
Talks(u) ==
  /\ call[u] = "waits" /\ NoUser(ticks) /\ NoUser(sendQueue) /\ u \in onEnd
  /\ exchange.who = u /\ wire # <<>> /\ wire[Len(wire)] = u
  /\ addCommand # "pipeline"
Lost(u) == call[u] = "waits" /\ u \notin Elements(ticks) /\ NoUser(sendQueue) /\ exchange.reads = "none"
Turns ==
  \/ \E u \in Users : Lost(u)
  \/ AtMostOne /\ Level /\ (Nobody \/ \E u \in Users : InTurn(u) \/ Talks(u))

TurnInv ==
  /\ connect \in {"pending", "resolved", "rejected"} /\ DOMAIN call = Users \cup Queries
  /\ socket = "opening" => exchange.reads = "greeting"
  /\ connect # "resolved" => Approaching
  /\ connect = "resolved" => Handed /\ Turns

\* What the operations on sequences keep of their elements.
LEMMA ElementsOf ==
  ASSUME NEW S
  PROVE  /\ \A s \in Seq(S) : Elements(s) \subseteq S /\ Elements(s) = {s[i] : i \in 1..Len(s)}
         /\ Elements(<<>>) = {}
         /\ \A s \in Seq(S), e \in S : Elements(Append(s, e)) = Elements(s) \cup {e}
         /\ \A s, t \in Seq(S) : Elements(s \o t) = Elements(s) \cup Elements(t)
         /\ \A s \in Seq(S) : s # <<>> => Head(s) \in Elements(s) /\ Elements(Tail(s)) \subseteq Elements(s)
<1>1. \A s \in Seq(S) : DOMAIN s = 1..Len(s) /\ Len(s) \in Nat /\ \A i \in 1..Len(s) : s[i] \in S
  OBVIOUS
<1>2. \A s \in Seq(S) : Elements(s) = {s[i] : i \in 1..Len(s)}
  BY <1>1 DEF Elements
<1>3. \A s \in Seq(S) : Elements(s) \subseteq S
  BY <1>1, <1>2
<1>4. Elements(<<>>) = {}
  BY DEF Elements
<1>5. ASSUME NEW s \in Seq(S), NEW e \in S PROVE Elements(Append(s, e)) = Elements(s) \cup {e}
  <2>0. Append(s, e) \in Seq(S)
    OBVIOUS
  <2>1. PICK t \in Seq(S) : t = Append(s, e)
    BY <2>0, Zenon
  <2>2. Len(t) = Len(s) + 1 /\ t[Len(s) + 1] = e /\ \A i \in 1..Len(s) : t[i] = s[i]
    BY <2>1
  <2>3. 1..Len(t) = (1..Len(s)) \cup {Len(s) + 1}
    BY <1>1, <2>2
  <2>4. {t[i] : i \in 1..Len(t)} = {s[i] : i \in 1..Len(s)} \cup {e}
    BY <2>2, <2>3
  <2> QED
    BY <1>2, <2>1, <2>4
<1>6. ASSUME NEW s \in Seq(S), NEW t \in Seq(S) PROVE Elements(s \o t) = Elements(s) \cup Elements(t)
  <2>0. s \o t \in Seq(S)
    OBVIOUS
  <2>1. PICK r \in Seq(S) : r = s \o t
    BY <2>0, Zenon
  <2>2. /\ Len(r) = Len(s) + Len(t) /\ Len(s) \in Nat /\ Len(t) \in Nat
        /\ \A i \in 1..Len(s) : r[i] = s[i]
        /\ \A i \in 1..Len(t) : r[Len(s) + i] = t[i]
    BY <2>1
  <2>3. ASSUME NEW i \in 1..Len(r) PROVE r[i] \in Elements(s) \cup Elements(t)
    <3>1. CASE i <= Len(s)
      BY <1>2, <2>2, <3>1
    <3>2. CASE i > Len(s)
      <4>1. i - Len(s) \in 1..Len(t) /\ Len(s) + (i - Len(s)) = i
        BY <2>2, <3>2
      <4>2. r[i] = t[i - Len(s)]
        BY <2>2, <4>1
      <4> QED
        BY <1>2, <4>1, <4>2
    <3> QED
      BY <2>2, <3>1, <3>2
  <2>4. ASSUME NEW i \in 1..Len(s) PROVE s[i] \in Elements(r)
    <3>1. i \in 1..Len(r) /\ r[i] = s[i]
      BY <2>2
    <3> QED
      BY <1>2, <3>1
  <2>5. ASSUME NEW i \in 1..Len(t) PROVE t[i] \in Elements(r)
    <3>1. Len(s) + i \in 1..Len(r) /\ r[Len(s) + i] = t[i]
      BY <2>2
    <3> QED
      BY <1>2, <3>1
  <2>6. Elements(r) \subseteq Elements(s) \cup Elements(t) /\ Elements(s) \subseteq Elements(r) /\ Elements(t) \subseteq Elements(r)
    <3>1. Elements(r) = {r[i] : i \in 1..Len(r)} /\ Elements(s) = {s[i] : i \in 1..Len(s)} /\ Elements(t) = {t[i] : i \in 1..Len(t)}
      BY <1>2
    <3> QED
      BY <2>3, <2>4, <2>5, <3>1
  <2> QED
    BY <2>1, <2>6
<1>7. ASSUME NEW s \in Seq(S), s # <<>> PROVE Head(s) \in Elements(s) /\ Elements(Tail(s)) \subseteq Elements(s)
  <2>0. Tail(s) \in Seq(S)
    BY <1>7
  <2>1. PICK t \in Seq(S) : t = Tail(s)
    BY <2>0, Zenon
  <2>2. Len(s) >= 1 /\ Head(s) = s[1] /\ Len(t) = Len(s) - 1 /\ \A i \in 1..Len(t) : t[i] = s[i + 1]
    BY <1>7, <2>1
  <2>3. \A i \in 1..Len(t) : i + 1 \in 1..Len(s)
    BY <1>1, <2>2
  <2>4. 1 \in 1..Len(s)
    BY <1>1, <2>2
  <2>5. Elements(s) = {s[i] : i \in 1..Len(s)} /\ Elements(t) = {t[i] : i \in 1..Len(t)}
    BY <1>2
  <2>6. Elements(t) \subseteq Elements(s) /\ s[1] \in Elements(s)
    BY <2>2, <2>3, <2>4, <2>5
  <2> QED
    BY <2>1, <2>2, <2>6, Zenon
<1> QED
  BY <1>2, <1>3, <1>4, <1>5, <1>6, <1>7

\* What sending starts: up to the first command whose end sends the next one.
CutAt(S, q, L, st, rest) ==
  /\ st \in Seq(S) /\ rest \in Seq(S) /\ Len(st) + Len(rest) = Len(q)
  /\ \A i \in 1..Len(st) : st[i] = q[i] /\ (i < Len(st) => st[i] \notin L)
  /\ \A i \in 1..Len(rest) : rest[i] = q[Len(st) + i]
LEMMA StartedUpTo ==
  ASSUME NEW S, NEW q \in Seq(S), NEW L
  PROVE  CutAt(S, q, L, StartedFrom(q, L), SubSeq(q, Len(StartedFrom(q, L)) + 1, Len(q)))
<1>0. PICK st : st = StartedFrom(q, L)
  OBVIOUS
<1>9. PICK rest : rest = SubSeq(q, Len(st) + 1, Len(q))
  OBVIOUS
<1> DEFINE stops == {i \in DOMAIN q : q[i] \in L}
           k == IF stops = {} THEN Len(q) ELSE CHOOSE i \in stops : \A j \in stops : i <= j
<1>1. k \in 0..Len(q) /\ \A i \in 1..Len(q) : i < k => q[i] \notin L
  <2>1. CASE stops = {}
    BY <2>1
  <2>2. CASE stops # {}
    <3>0. stops \subseteq Nat
      OBVIOUS
    <3>3. \A i \in 1..Len(q) : q[i] \in L => i \in stops
      OBVIOUS
    <3>4. stops \subseteq 1..Len(q)
      OBVIOUS
    <3> HIDE DEF stops
    <3>1. \E i \in stops : \A j \in stops : i <= j
      BY <2>2, <3>0, NatMin
    <3>2. k \in stops /\ \A j \in stops : k <= j
      BY <2>2, <3>1
    <3> HIDE DEF k
    <3> QED
      BY <3>2, <3>3, <3>4
  <2> QED
    BY <2>1, <2>2
<1>2. st = SubSeq(q, 1, k)
  BY <1>0 DEF StartedFrom
<1> HIDE DEF k
<1>3. st \in Seq(S) /\ Len(st) = k /\ \A i \in 1..k : st[i] = q[i]
  BY <1>1, <1>2
<1>4. rest = SubSeq(q, k + 1, Len(q))
  BY <1>3, <1>9
<1>6. Len(q) \in Nat /\ k \in Nat /\ k <= Len(q)
  BY <1>1
<1>5. rest \in Seq(S) /\ Len(rest) = Len(q) - k /\ \A i \in 1..Len(rest) : rest[i] = q[k + i]
  BY ONLY <1>4, <1>6, q \in Seq(S)
<1>7. Len(st) + Len(rest) = Len(q)
  BY <1>3, <1>5, <1>6
<1>8. \A i \in 1..Len(st) : i \in 1..Len(q)
  BY <1>1, <1>3
<1>10. CutAt(S, q, L, st, rest)
  BY <1>1, <1>3, <1>5, <1>7, <1>8 DEF CutAt
<1> QED
  BY <1>0, <1>9, <1>10, Zenon

\* Nothing is sent nor said: the connection goes on as it was, or is closing.
LEMMA CalmStep ==
  ASSUME Handed, Turns, UNCHANGED <<config, wire, onEnd, exchange>>, ~rejectFct',
         receiveQueue' \in Seq(Commands), ticks' \in Seq(Ticks), Users \cap Elements(ticks') \subseteq Elements(ticks),
         \A u \in Users : call[u] = "waits" => call'[u] = "waits",
         \A c \in Users \cup Queries : call'[c] = "none" => call[c] = "none",
         \/ /\ UNCHANGED <<status, addCommand, sendQueue, receiveQueue>>
            /\ {"quit", "ended"} \cap Elements(ticks') \subseteq Elements(ticks)
         \/ /\ Terminating' /\ addCommand' = "disabled"
            /\ sendQueue' \in {sendQueue, <<>>, Append(sendQueue, "quit")}
  PROVE  Handed' /\ Turns'
<1>1. /\ Append(sendQueue, "quit") \in Seq(Calls) /\ <<>> \in Seq(Calls) /\ "quit" \in Calls
      /\ Elements(<<>>) = {} /\ Elements(Append(sendQueue, "quit")) = Elements(sendQueue) \cup {"quit"}
      /\ Len(sendQueue) \in Nat
  BY NamesTyped, ElementsOf DEF Handed
<1>2. sendQueue' \in Seq(Calls) /\ Elements(sendQueue') \subseteq Elements(sendQueue) \cup {"quit"} /\ "quit" \notin Users \cup Queries
  BY <1>1, ConnectAssumption DEF Handed
<1>3. /\ Elements(sendQueue)' = Elements(sendQueue') /\ Elements(ticks)' = Elements(ticks')
      /\ Elements(wire)' = Elements(wire) /\ Mode' = Mode
  BY DEF Elements, Mode
<1>4. Unused' /\ Listening'
  BY <1>2, <1>3 DEF Handed, Unused, Listening
<1>5. /\ addCommand' \in {"disabled", "enable", Mode'} /\ (Terminating' <=> addCommand' = "disabled")
      /\ "quit" \in Elements(ticks') \cup Elements(sendQueue') \/ "ended" \in Elements(ticks') => Terminating'
  BY <1>3 DEF Handed, Terminating
<1>6. Handed'
  BY <1>2, <1>3, <1>4, <1>5 DEF Handed
<1>7. AtMostOne => AtMostOne'
  BY DEF AtMostOne
<1>8. Level => Level'
  BY DEF Level, Terminating
<1>9. NoUser(sendQueue) => NoUser(sendQueue')
  BY <1>2 DEF NoUser
<1>10. /\ NoUser(ticks) => NoUser(ticks')
       /\ \A u \in Users : u \notin Elements(ticks) => u \notin Elements(ticks')
       /\ addCommand # "pipeline" => addCommand' # "pipeline"
  BY DEF NoUser
<1>11. Nobody => Nobody'
  BY <1>3, <1>9 DEF Nobody, NoUser
<1>12. ASSUME NEW u \in Users, Lost(u) PROVE Lost(u)'
  BY <1>3, <1>9, <1>10, <1>12 DEF Lost, NoUser
<1>13. ASSUME NEW u \in Users, Talks(u) PROVE Talks(u)'
  BY <1>3, <1>9, <1>10, <1>13 DEF Talks, NoUser
<1>14. ASSUME NEW u \in Users, InTurn(u) PROVE InTurn(u)' \/ Nobody'
  <2>1. CASE sendQueue' = <<>>
    BY <1>1, <1>3, <1>14, <2>1 DEF InTurn, Nobody, NoUser
  <2>2. CASE sendQueue' = sendQueue
    BY <1>3, <1>10, <1>14, <2>2 DEF InTurn, NoUser, Alone
  <2>3. CASE sendQueue' = Append(sendQueue, "quit")
    <3>1. PICK k \in 1..Len(sendQueue) : sendQueue[k] = u /\ \A i \in 1..Len(sendQueue) : sendQueue[i] \in Users => i = k
      BY <1>14 DEF InTurn, Alone
    <3>2. /\ Len(sendQueue') = Len(sendQueue) + 1 /\ sendQueue'[Len(sendQueue) + 1] = "quit"
          /\ \A i \in 1..Len(sendQueue) : sendQueue'[i] = sendQueue[i]
      BY <2>3 DEF Handed
    <3>3. k \in 1..Len(sendQueue') /\ sendQueue'[k] = u
      BY <1>1, <3>1, <3>2
    <3>4. ASSUME NEW i \in 1..Len(sendQueue'), sendQueue'[i] \in Users PROVE i = k
      <4>1. i # Len(sendQueue) + 1
        BY <1>2, <3>2, <3>4
      <4>2. Len(sendQueue) \in Nat /\ Len(sendQueue') = Len(sendQueue) + 1 /\ i \in 1..Len(sendQueue')
        BY <1>1, <3>2
      <4>3. i \in 1..Len(sendQueue)
        BY ONLY <4>1, <4>2
      <4> QED
        BY <3>1, <3>2, <3>4, <4>3
    <3>5. Alone(sendQueue, u)'
      BY <3>3, <3>4 DEF Alone
    <3> QED
      BY <1>3, <1>10, <1>14, <3>5 DEF InTurn, NoUser
  <2> QED
    BY <2>1, <2>2, <2>3
<1> QED
  BY <1>6, <1>7, <1>8, <1>11, <1>12, <1>13, <1>14 DEF Turns

\* Only what was in the queues is in them afterwards.
LEMMA HandedKept ==
  ASSUME Handed, UNCHANGED <<config, status, onEnd>>, ~rejectFct',
         addCommand' = addCommand \/ (~Terminating /\ addCommand' \in {"enable", Mode}),
         wire' \in Seq(Calls), sendQueue' \in Seq(Calls), receiveQueue' \in Seq(Commands), ticks' \in Seq(Ticks),
         Elements(wire') \cup Elements(sendQueue') \subseteq Elements(wire) \cup Elements(sendQueue),
         "quit" \in Elements(sendQueue') => "quit" \in Elements(sendQueue),
         {"quit", "ended"} \cap Elements(ticks') \subseteq Elements(ticks) \/ Terminating,
         \A c \in Users \cup Queries : call'[c] = "none" => call[c] = "none"
  PROVE  Handed'
<1>1. /\ Elements(sendQueue)' = Elements(sendQueue') /\ Elements(ticks)' = Elements(ticks')
      /\ Elements(wire)' = Elements(wire') /\ Mode' = Mode /\ (Terminating' <=> Terminating)
  BY DEF Elements, Mode, Terminating
<1>2. Unused' /\ Listening'
  BY <1>1 DEF Handed, Unused, Listening
<1>3. Mode # "disabled"
  BY DEF Mode
<1> QED
  BY <1>1, <1>2, <1>3 DEF Handed

\* What is sent: the beginning of sendQueue, behind what was written already.
Sent(c, answered, talking, started) ==
  /\ started \in Seq(Calls) /\ (c \notin onEnd => started = <<>>)
  /\ wire' = answered \o started
  /\ NoUser(started) => exchange' = talking
  /\ \A u \in Users : Users \cap Elements(started) = {u} => exchange' = StartUser(u)
  /\ Len(started) + Len(sendQueue') = Len(sendQueue)
  /\ \A i \in 1..Len(started) : started[i] = sendQueue[i] /\ (i < Len(started) => started[i] \notin onEnd)
  /\ \A i \in 1..Len(sendQueue') : sendQueue'[i] = sendQueue[Len(started) + i]

\* A command is over, and what waited for its end is sent.
LEMMA SendNextKeeps ==
  ASSUME Handed, NEW c, NEW answered \in Seq(Calls), Elements(answered) \subseteq Elements(wire),
         NEW talking, NEW more \in Seq(Ticks), SendNext(c, answered, talking, more)
  PROVE  /\ wire' \in Seq(Calls) /\ sendQueue' \in Seq(Calls) /\ ticks' \in Seq(Ticks)
         /\ Elements(wire') \cup Elements(sendQueue') \subseteq Elements(wire) \cup Elements(sendQueue)
         /\ Elements(sendQueue') \subseteq Elements(sendQueue)
         /\ Elements(ticks') \subseteq Elements(more) \cup {"ended"}
         /\ "ended" \in Elements(ticks') => "ended" \in Elements(more) \/ Terminating
         /\ NoUser(sendQueue) => exchange' = talking
         /\ \E started : Sent(c, answered, talking, started)
<1>1. PICK started : started = (IF c \in onEnd THEN StartedFrom(sendQueue, onEnd) ELSE <<>>)
  OBVIOUS
<1>2. Written(started, answered, talking, more) /\ sendQueue' = SubSeq(sendQueue, Len(started) + 1, Len(sendQueue))
  BY <1>1 DEF SendNext
<1>3. /\ started \in Seq(Calls) /\ sendQueue' \in Seq(Calls) /\ Len(started) + Len(sendQueue') = Len(sendQueue)
      /\ \A i \in 1..Len(started) : started[i] = sendQueue[i] /\ (i < Len(started) => started[i] \notin onEnd)
      /\ \A i \in 1..Len(sendQueue') : sendQueue'[i] = sendQueue[Len(started) + i]
  <2>1. sendQueue \in Seq(Calls)
    BY DEF Handed
  <2>2. CASE c \in onEnd
    <3>1. started = StartedFrom(sendQueue, onEnd)
      BY <1>1, <2>2
    <3>2. CutAt(Calls, sendQueue, onEnd, started, SubSeq(sendQueue, Len(started) + 1, Len(sendQueue)))
      BY <2>1, <3>1, StartedUpTo, Zenon
    <3>3. CutAt(Calls, sendQueue, onEnd, started, sendQueue')
      BY <1>2, <3>2, Zenon
    <3> QED
      BY <3>3 DEF CutAt
  <2>3. CASE c \notin onEnd
    <3>1. started = <<>> /\ Len(started) = 0
      BY <1>1, <2>3
    <3>2. sendQueue' = sendQueue
      BY <1>2, <2>1, <3>1
    <3> QED
      BY <2>1, <3>1, <3>2
  <2> QED
    BY <2>2, <2>3
<1>4. /\ ticks' = more \o (IF "quit" \in Elements(started) THEN <<"ended">> ELSE <<>>)
      /\ wire' = answered \o started
      /\ exchange' \in (IF Users \cap Elements(started) = {} THEN {talking}
                        ELSE {StartUser(u) : u \in Users \cap Elements(started)})
  BY <1>2 DEF Written
<1>5. wire' \in Seq(Calls) /\ ticks' \in Seq(Ticks)
  BY <1>2, <1>3, WrittenTyped
<1>6. Elements(started) \subseteq Elements(sendQueue) /\ Elements(sendQueue') \subseteq Elements(sendQueue)
  <2>1. /\ Elements(started) = {started[i] : i \in 1..Len(started)} /\ Elements(sendQueue) = {sendQueue[i] : i \in 1..Len(sendQueue)}
        /\ Elements(sendQueue') = {sendQueue'[i] : i \in 1..Len(sendQueue')}
    <3>1. \A s \in Seq(Calls) : Elements(s) = {s[i] : i \in 1..Len(s)}
      BY ElementsOf
    <3>2. started \in Seq(Calls) /\ sendQueue \in Seq(Calls) /\ sendQueue' \in Seq(Calls)
      BY <1>3 DEF Handed
    <3> QED
      BY ONLY <3>1, <3>2, Zenon
  <2>2. Len(started) \in Nat /\ Len(sendQueue) \in Nat /\ Len(sendQueue') \in Nat
    BY <1>3 DEF Handed
  <2>3. \A i \in 1..Len(started) : i \in 1..Len(sendQueue)
    BY <1>3, <2>2
  <2>4. \A i \in 1..Len(sendQueue') : Len(started) + i \in 1..Len(sendQueue)
    BY <1>3, <2>2
  <2> QED
    BY <1>3, <2>1, <2>3, <2>4
<1>7. Elements(wire') = Elements(answered) \cup Elements(started)
  BY <1>3, <1>4, ElementsOf
<1>8. "quit" \in Elements(started) => Terminating
  BY <1>6 DEF Handed
<1>9. <<"ended">> \in Seq(Ticks) /\ <<>> \in Seq(Ticks) /\ Elements(<<"ended">>) = {"ended"} /\ Elements(<<>>) = {}
  BY NamesTyped DEF Elements
<1>10. Elements(ticks') = Elements(more) \cup (IF "quit" \in Elements(started) THEN {"ended"} ELSE {})
  <2>1. CASE "quit" \in Elements(started)
    <3>1. ticks' = more \o <<"ended">>
      BY <1>4, <2>1
    <3>2. PICK t \in Seq(Ticks) : t = <<"ended">>
      BY <1>9, Zenon
    <3>3. Elements(more \o t) = Elements(more) \cup Elements(t)
      BY ElementsOf
    <3>4. ticks' = more \o t /\ Elements(t) = {"ended"}
      BY <1>9, <3>1, <3>2, Zenon
    <3> QED
      BY <2>1, <3>3, <3>4
  <2>2. CASE "quit" \notin Elements(started)
    <3>1. ticks' = more \o <<>>
      BY <1>4, <2>2
    <3> QED
      BY <1>9, <2>2, <3>1, ElementsOf
  <2> QED
    BY <2>1, <2>2
<1>11. NoUser(sendQueue) => exchange' = talking
  BY <1>4, <1>6 DEF NoUser
<1>12. Sent(c, answered, talking, started)
  BY <1>1, <1>3, <1>4 DEF Sent, NoUser
<1>13. /\ Elements(wire') \cup Elements(sendQueue') \subseteq Elements(wire) \cup Elements(sendQueue)
       /\ Elements(sendQueue') \subseteq Elements(sendQueue)
  BY <1>6, <1>7
<1>14. /\ Elements(ticks') \subseteq Elements(more) \cup {"ended"}
       /\ "ended" \in Elements(ticks') => "ended" \in Elements(more) \/ Terminating
  BY <1>8, <1>10
<1>15. \E st : Sent(c, answered, talking, st)
  BY <1>12, Zenon
<1> QED
  BY <1>3, <1>5, <1>11, <1>13, <1>14, <1>15, Zenon

\* What is left of a queue of commands, of its first command and of its last.
LEMMA TailOf ==
  ASSUME NEW S, NEW q \in Seq(S), q # <<>>
  PROVE  /\ Tail(q) \in Seq(S) /\ Len(Tail(q)) = Len(q) - 1 /\ Len(q) \in Nat /\ Len(q) >= 1 /\ Head(q) = q[1]
         /\ \A i \in 1..Len(Tail(q)) : Tail(q)[i] = q[i + 1]
         /\ Shifted(q) \in Seq(S) /\ Len(Shifted(q)) = Len(q) - 1
<1>1. /\ Tail(q) \in Seq(S) /\ Len(Tail(q)) = Len(q) - 1 /\ Len(q) \in Nat /\ Len(q) >= 1 /\ Head(q) = q[1]
      /\ \A i \in 1..Len(Tail(q)) : Tail(q)[i] = q[i + 1]
  OBVIOUS
<1>3. PICK k \in Nat : k = 1
  OBVIOUS
<1>4. k <= Len(q) /\ Len(q) \in Nat /\ k + 1 = 2
  BY <1>1, <1>3
<1>5. SubSeq(q, k + 1, Len(q)) \in Seq(S) /\ Len(SubSeq(q, k + 1, Len(q))) = Len(q) - k
  BY ONLY <1>4, q \in Seq(S), k \in Nat
<1>2. SubSeq(q, 2, Len(q)) \in Seq(S) /\ Len(SubSeq(q, 2, Len(q))) = Len(q) - 1
  BY <1>3, <1>4, <1>5
<1> QED
  BY <1>1, <1>2 DEF Shifted

\* The answer to the first command of those written: the order of the others is kept.
LEMMA Advances ==
  ASSUME Handed, AtMostOne, Level, wire # <<>>, NEW c, c = Head(wire), NEW talking, NEW more \in Seq(Ticks),
         SendNext(c, Tail(wire), talking, more), receiveQueue' = Shifted(receiveQueue), UNCHANGED <<onEnd, status>>
  PROVE  AtMostOne' /\ Level'
<1>1. /\ Tail(wire) \in Seq(Calls) /\ Len(Tail(wire)) = Len(wire) - 1 /\ Len(wire) \in Nat /\ Len(wire) >= 1 /\ c = wire[1]
      /\ \A i \in 1..Len(Tail(wire)) : Tail(wire)[i] = wire[i + 1]
  BY TailOf DEF Handed
<1>2. Elements(Tail(wire)) \subseteq Elements(wire)
  BY ElementsOf DEF Handed
<1>4. sendQueue' \in Seq(Calls) /\ \E st : Sent(c, Tail(wire), talking, st)
  BY <1>1, <1>2, SendNextKeeps
<1>9. PICK started : Sent(c, Tail(wire), talking, started)
  BY <1>4
<1>3. /\ started \in Seq(Calls) /\ (c \notin onEnd => Len(started) = 0)
      /\ wire' = Tail(wire) \o started
      /\ Len(started) + Len(sendQueue') = Len(sendQueue)
      /\ \A i \in 1..Len(started) : i < Len(started) => started[i] \notin onEnd
  BY <1>9 DEF Sent
<1>5. PICK answered \in Seq(Calls) : answered = Tail(wire)
  BY <1>1, Zenon
<1>6. /\ Len(wire') = Len(answered) + Len(started) /\ Len(answered) \in Nat /\ Len(started) \in Nat
      /\ \A i \in 1..Len(answered) : wire'[i] = answered[i]
      /\ \A i \in 1..Len(started) : wire'[Len(answered) + i] = started[i]
  <2>1. wire' = answered \o started
    BY <1>3, <1>5
  <2> QED
    BY <2>1
<1>7. AtMostOne'
  <2>1. CASE c \in onEnd
    <3>1. \A i \in 1..Len(answered) : answered[i] \notin onEnd
      <4> SUFFICES ASSUME NEW i \in 1..Len(answered), answered[i] \in onEnd PROVE FALSE
        OBVIOUS
      <4>1. i + 1 \in 1..Len(wire) /\ 1 \in 1..Len(wire) /\ wire[i + 1] \in onEnd /\ wire[1] \in onEnd /\ i + 1 # 1
        BY <1>1, <1>5, <2>1
      <4> QED
        BY <4>1 DEF AtMostOne
    <3>2. ASSUME NEW i \in 1..Len(wire'), wire'[i] \in onEnd' PROVE i = Len(wire')
      <4>1. i > Len(answered)
        BY <1>6, <3>1, <3>2
      <4>2. i - Len(answered) \in 1..Len(started) /\ Len(answered) + (i - Len(answered)) = i
        BY <1>6, <4>1
      <4>3. started[i - Len(answered)] \in onEnd
        BY <1>6, <3>2, <4>2
      <4>4. ~(i - Len(answered) < Len(started))
        BY <1>3, <4>2, <4>3
      <4> QED
        BY <1>6, <4>2, <4>4
    <3> QED
      BY <3>2 DEF AtMostOne
  <2>2. CASE c \notin onEnd
    <3>1. Len(started) = 0
      BY <1>3, <2>2
    <3>2. Len(wire') = Len(answered)
      BY ONLY <1>6, <3>1
    <3>3. ASSUME NEW i \in 1..Len(wire') PROVE i + 1 \in 1..Len(wire) /\ wire'[i] = wire[i + 1]
      BY <1>1, <1>5, <1>6, <3>2
    <3>4. ASSUME NEW i \in 1..Len(wire'), NEW j \in 1..Len(wire'), wire'[i] \in onEnd', wire'[j] \in onEnd' PROVE i = j
      <4>1. /\ i + 1 \in 1..Len(wire) /\ j + 1 \in 1..Len(wire) /\ wire[i + 1] \in onEnd /\ wire[j + 1] \in onEnd
        BY <3>3, <3>4
      <4>2. i + 1 = j + 1
        BY <4>1 DEF AtMostOne
      <4> QED
        BY <4>2
    <3> QED
      BY <3>4 DEF AtMostOne
  <2> QED
    BY <2>1, <2>2
<1>8. Level'
  <2> SUFFICES ASSUME ~Terminating' PROVE Len(receiveQueue') = Len(wire') + Len(sendQueue')
    BY DEF Level
  <2>1. Len(receiveQueue) = Len(wire) + Len(sendQueue) /\ Len(sendQueue) \in Nat /\ receiveQueue \in Seq(Commands)
    BY DEF Level, Terminating, Handed
  <2>2. receiveQueue # <<>>
    BY <1>1, <2>1
  <2>3. Len(receiveQueue') = Len(receiveQueue) - 1
    BY <2>1, <2>2, TailOf
  <2>4. Len(answered) = Len(wire) - 1 /\ Len(sendQueue') \in Nat
    BY <1>1, <1>4, <1>5
  <2>5. Len(started) \in Nat /\ Len(wire') = Len(answered) + Len(started) /\ Len(started) + Len(sendQueue') = Len(sendQueue)
        /\ Len(wire) \in Nat
    BY <1>1, <1>3, <1>6
  <2>6. PICK w \in Nat, s \in Nat, t \in Nat, b \in Nat :
          w = Len(wire) /\ s = Len(sendQueue) /\ t = Len(sendQueue') /\ b = Len(started)
    BY <2>1, <2>4, <2>5, Zenon
  <2>7. Len(receiveQueue') = (w + s) - 1 /\ Len(wire') = (w - 1) + b /\ b + t = s
    BY <2>1, <2>3, <2>4, <2>5, <2>6, Zenon
  <2>8. (w + s) - 1 = ((w - 1) + b) + t
    BY ONLY <2>7, w \in Nat, s \in Nat, t \in Nat, b \in Nat
  <2> QED
    BY <2>6, <2>7, <2>8, Zenon
<1> QED
  BY <1>7, <1>8

\* The server answers a query, or SET NAMES.
LEMMA AnsweredTurns ==
  ASSUME Handed, Turns, ExchangeOK, DOMAIN call = Users \cup Queries, NEW c \in Queries \cup {"names", "timeout"}, NEW ok \in BOOLEAN, Answered(c, ok)
  PROVE  Handed' /\ Turns'
<1> DEFINE more == IF c = "names" /\ ~ok THEN <<"end">> ELSE <<>>
<1>1. /\ ticks = <<>> /\ wire # <<>> /\ c = Head(wire) /\ receiveQueue' = Shifted(receiveQueue)
      /\ SendNext(c, Tail(wire), exchange, more)
      /\ UNCHANGED <<setting, link, onEnd, doomed, channel, prepared, redirect>>
      /\ call' = [d \in DOMAIN call |->
           IF d = c \/ (c = "names" /\ call[d] = "names") THEN (IF ok THEN "resolved" ELSE "rejected") ELSE call[d]]
  BY DEF Answered, LoopDrained
<1>2. more \in Seq(Ticks) /\ Elements(more) \subseteq {"end"}
  <2>1. <<"end">> \in Seq(Ticks) /\ <<>> \in Seq(Ticks) /\ Elements(<<"end">>) = {"end"} /\ Elements(<<>>) = {}
    BY NamesTyped DEF Elements
  <2> QED
    BY <2>1
<1> HIDE DEF more
<1>3. Tail(wire) \in Seq(Calls) /\ Elements(Tail(wire)) \subseteq Elements(wire) /\ wire \in Seq(Calls) /\ sendQueue \in Seq(Calls)
  BY <1>1, TailOf, ElementsOf DEF Handed
<1>5. /\ wire' \in Seq(Calls) /\ sendQueue' \in Seq(Calls) /\ ticks' \in Seq(Ticks)
      /\ Elements(wire') \cup Elements(sendQueue') \subseteq Elements(wire) \cup Elements(sendQueue)
      /\ Elements(sendQueue') \subseteq Elements(sendQueue)
      /\ Elements(ticks') \subseteq Elements(more) \cup {"ended"}
      /\ "ended" \in Elements(ticks') => "ended" \in Elements(more) \/ Terminating
      /\ NoUser(sendQueue) => exchange' = exchange
      /\ \E st : Sent(c, Tail(wire), exchange, st)
  BY <1>1, <1>2, <1>3, SendNextKeeps
<1>18. PICK started : Sent(c, Tail(wire), exchange, started)
  BY <1>5
<1>4. /\ started \in Seq(Calls) /\ (c \notin onEnd => started = <<>>)
      /\ Len(started) + Len(sendQueue') = Len(sendQueue)
      /\ \A i \in 1..Len(started) : started[i] = sendQueue[i] /\ (i < Len(started) => started[i] \notin onEnd)
      /\ \A i \in 1..Len(sendQueue') : sendQueue'[i] = sendQueue[Len(started) + i]
      /\ Len(started) \in Nat /\ Len(sendQueue) \in Nat /\ Len(sendQueue') \in Nat
  <2>1. started \in Seq(Calls)
    BY <1>18 DEF Sent
  <2>2. Len(started) \in Nat /\ Len(sendQueue) \in Nat /\ Len(sendQueue') \in Nat
    BY <1>3, <1>5, <2>1
  <2> QED
    BY <1>18, <2>1, <2>2 DEF Sent
<1>19. /\ wire' = Tail(wire) \o started /\ (NoUser(started) => exchange' = exchange)
       /\ \A u \in Users : Users \cap Elements(started) = {u} => exchange' = StartUser(u)
  BY <1>18 DEF Sent
<1>6. {"quit", "ended", "end"} \cap Users = {} /\ c \notin Users
  BY ConnectAssumption
<1>7. NoUser(ticks') /\ ("quit" \notin Elements(ticks')) /\ ("ended" \in Elements(ticks') => Terminating)
  BY <1>2, <1>5, <1>6 DEF NoUser
<1>8. /\ \A u \in Users : call[u] = "waits" => call'[u] = "waits"
      /\ \A d \in Users \cup Queries : call'[d] = "none" => call[d] = "none"
  BY <1>1, <1>6
<1>9. Handed'
  <2>1. receiveQueue' \in Seq(Commands)
    BY <1>1 DEF Handed, Shifted
  <2>2. UNCHANGED <<config, status, addCommand, onEnd>> /\ ~rejectFct'
    BY <1>1 DEF setting, link, Handed
  <2>3. "quit" \in Elements(sendQueue') => "quit" \in Elements(sendQueue)
    BY <1>5
  <2>4. {"quit", "ended"} \cap Elements(ticks') \subseteq Elements(ticks) \/ Terminating
    BY <1>7
  <2> QED
    BY <1>5, <1>8, <2>1, <2>2, <2>3, <2>4, HandedKept
<1>10. AtMostOne /\ Level => AtMostOne' /\ Level'
  BY <1>1, <1>2, Advances DEF link
<1>11. NoUser(sendQueue) => NoUser(sendQueue')
  BY <1>5 DEF NoUser
<1>12. addCommand' = addCommand /\ onEnd' = onEnd
  BY <1>1 DEF link
<1>13. /\ Elements(sendQueue)' = Elements(sendQueue') /\ Elements(ticks)' = Elements(ticks')
  BY DEF Elements
<1>14. Nobody => Nobody'
  BY <1>5, <1>11, <1>13 DEF Nobody, NoUser
<1>15. ASSUME NEW u \in Users, Lost(u) PROVE Lost(u)'
  BY <1>5, <1>7, <1>8, <1>11, <1>13, <1>15 DEF Lost, NoUser
<1>16. ASSUME NEW u \in Users, Talks(u), AtMostOne PROVE Talks(u)'
  <2>1. Len(wire) \in Nat /\ Len(wire) >= 1 /\ c = wire[1] /\ wire[Len(wire)] = u /\ u \in onEnd /\ c # u
    BY <1>1, <1>3, <1>6, <1>16, TailOf DEF Talks
  <2>2. Len(wire) # 1 /\ 1 \in 1..Len(wire) /\ Len(wire) \in 1..Len(wire)
    BY <2>1
  <2>3. c \notin onEnd
    BY <1>16, <2>1, <2>2 DEF AtMostOne
  <2>4. started = <<>>
    BY <1>4, <2>3
  <2>5. PICK answered \in Seq(Calls) : answered = Tail(wire)
    BY <1>3, Zenon
  <2>6. wire' = answered
    BY <1>19, <2>4, <2>5
  <2>7. Len(answered) = Len(wire) - 1 /\ \A i \in 1..Len(answered) : answered[i] = wire[i + 1]
    BY <1>1, <1>3, <2>5, TailOf
  <2>8. Len(answered) \in 1..Len(answered) /\ Len(answered) + 1 = Len(wire)
    BY <2>1, <2>2, <2>7
  <2>9. answered[Len(answered)] = u /\ answered # <<>>
    BY <2>1, <2>7, <2>8
  <2> QED
    BY <1>5, <1>7, <1>8, <1>11, <1>12, <1>13, <1>16, <2>6, <2>9 DEF Talks, NoUser
<1>17. ASSUME NEW u \in Users, InTurn(u) PROVE InTurn(u)' \/ Talks(u)'
  <2>1. PICK k \in 1..Len(sendQueue) : sendQueue[k] = u /\ \A i \in 1..Len(sendQueue) : sendQueue[i] \in Users => i = k
    BY <1>17 DEF InTurn, Alone
  <2>2. Len(started) \in Nat /\ Len(sendQueue) \in Nat /\ Len(sendQueue') \in Nat
    BY <1>4
  <2>3. Elements(started) = {started[i] : i \in 1..Len(started)} /\ Elements(sendQueue') = {sendQueue'[i] : i \in 1..Len(sendQueue')}
    <3>1. started \in Seq(Calls) /\ sendQueue' \in Seq(Calls)
      BY <1>4, <1>5
    <3>2. \A s \in Seq(Calls) : Elements(s) = {s[i] : i \in 1..Len(s)}
      BY ElementsOf
    <3> QED
      BY <3>1, <3>2, Zenon
  <2>4. \A i \in 1..Len(started) : i \in 1..Len(sendQueue) /\ (started[i] \in Users => i = k)
    BY <1>4, <2>1, <2>2
  <2>5. \A i \in 1..Len(sendQueue') : Len(started) + i \in 1..Len(sendQueue) /\ (sendQueue'[i] \in Users => Len(started) + i = k)
    <3> SUFFICES ASSUME NEW i \in 1..Len(sendQueue')
                 PROVE  Len(started) + i \in 1..Len(sendQueue) /\ (sendQueue'[i] \in Users => Len(started) + i = k)
      OBVIOUS
    <3>1. PICK n \in Nat : n = Len(sendQueue')
      BY <2>2, Zenon
    <3>2. Len(started) + n = Len(sendQueue) /\ i \in 1..n
      BY <1>4, <3>1
    <3>3. Len(started) + i \in 1..Len(sendQueue)
      BY ONLY <2>2, <3>2, n \in Nat
    <3>4. sendQueue'[i] = sendQueue[Len(started) + i]
      BY <1>4
    <3> QED
      BY <2>1, <3>3, <3>4
  <2>6. CASE k <= Len(started)
    <3>1. k \in 1..Len(started) /\ started[k] = u /\ u \in onEnd
      BY <1>4, <1>17, <2>1, <2>2, <2>6 DEF InTurn
    <3>2. k = Len(started)
      BY <1>4, <2>2, <3>1
    <3>3. NoUser(sendQueue')
      BY <2>2, <2>3, <2>5, <3>2 DEF NoUser
    <3>4. Users \cap Elements(started) = {u}
      BY <2>1, <2>3, <2>4, <3>1
    <3>5. exchange' = StartUser(u)
      BY <1>19, <3>4
    <3>6. exchange'.who = u
      BY <3>5 DEF StartUser, Idle, ExchangeOK
    <3>7. PICK answered \in Seq(Calls) : answered = Tail(wire)
      BY <1>3, Zenon
    <3>8. wire' = answered \o started
      BY <1>19, <3>7
    <3>9. Len(wire') = Len(answered) + Len(started) /\ wire'[Len(answered) + Len(started)] = started[Len(started)] /\ Len(wire') # 0
      BY <2>2, <3>1, <3>8
    <3>10. wire' # <<>> /\ wire'[Len(wire')] = u
      BY <3>1, <3>2, <3>9
    <3> QED
      BY <1>7, <1>8, <1>12, <1>13, <1>17, <3>3, <3>6, <3>10 DEF Talks, InTurn, NoUser
  <2>7. CASE k > Len(started)
    <3>1. NoUser(started)
      BY <2>2, <2>3, <2>4, <2>7 DEF NoUser
    <3>2. exchange' = exchange
      BY <1>19, <3>1
    <3>3. k - Len(started) \in 1..Len(sendQueue') /\ Len(started) + (k - Len(started)) = k
      BY <1>4, <2>2, <2>7
    <3>4. sendQueue'[k - Len(started)] = u /\ \A i \in 1..Len(sendQueue') : sendQueue'[i] \in Users => i = k - Len(started)
      <4>1. sendQueue'[k - Len(started)] = sendQueue[k]
        BY <1>4, <3>3
      <4> QED
        BY <2>1, <2>2, <2>5, <4>1
    <3>5. Alone(sendQueue, u)'
      BY <3>3, <3>4 DEF Alone
    <3> QED
      BY <1>7, <1>8, <1>12, <1>13, <1>17, <3>2, <3>5 DEF InTurn, NoUser
  <2> QED
    BY <2>2, <2>6, <2>7
<1> QED
  BY <1>9, <1>10, <1>14, <1>15, <1>16, <1>17 DEF Turns

\* The change of user that talks fails: its call is never answered.
LEMMA FailsTurns ==
  ASSUME Handed, Turns, exchange.reads # "none", exchange'.reads = "none",
         UNCHANGED <<config, status, addCommand, rejectFct, onEnd, call>>,
         wire' \in Seq(Calls), sendQueue' \in Seq(Calls), receiveQueue' \in Seq(Commands), ticks' \in Seq(Ticks),
         Elements(wire') \cup Elements(sendQueue') \subseteq Elements(wire) \cup Elements(sendQueue),
         Elements(sendQueue') \subseteq Elements(sendQueue),
         Elements(ticks') \subseteq {"fail", "ended"}, "ended" \in Elements(ticks') => Terminating
  PROVE  Handed' /\ Turns'
<1>1. PICK u \in Users : Talks(u)
  BY DEF Turns, Nobody, InTurn, Lost
<1>2. {"quit", "ended"} \cap Elements(ticks') \subseteq Elements(ticks) \/ Terminating
  OBVIOUS
<1>3. ~rejectFct'
  BY DEF Handed
<1>4. Handed'
  BY <1>2, <1>3, HandedKept
<1>5. u \notin Elements(ticks')
  BY ConnectAssumption
<1>6. NoUser(sendQueue')
  BY <1>1 DEF Talks, NoUser
<1>7. Elements(sendQueue)' = Elements(sendQueue') /\ Elements(ticks)' = Elements(ticks')
  BY DEF Elements
<1>8. Lost(u)'
  BY <1>1, <1>5, <1>6, <1>7 DEF Lost, Talks, NoUser
<1> QED
  BY <1>4, <1>8 DEF Turns

\* The exchange of a change of user: it goes on, fails or is over.
LEMMA ExchangeTurns ==
  ASSUME PrepInv, connect = "resolved", Handed, Turns, exchange.reads # "none",
         ticks = <<>>, wire # <<>>, Head(wire) = exchange.who, UNCHANGED <<setting, call>>,
         \/ exchange'.who = exchange.who /\ UNCHANGED <<link, queues, ticks>>
         \/ PluginThrows
         \/ AuthError
         \/ \E answered \in {wire, Tail(wire)} : CommandThrows(answered)
         \/ AuthFailHandler /\ exchange' = Idle /\ UNCHANGED ticks
         \/ \E right \in BOOLEAN : SuccessEnd(right) /\ UNCHANGED link
  PROVE  Handed' /\ Turns'
<1>1. PICK u \in Users : Talks(u)
  BY DEF Turns, Nobody, InTurn, Lost
<1>2. /\ Idle.reads = "none" /\ \A b : [Idle EXCEPT !.proven = b].reads = "none"
      /\ exchange.who = u /\ u \in Commands
  BY <1>1 DEF Idle, ConnectInv, ExchangeOK, PrepInv, CloseInv, Talks
<1>3. /\ wire \in Seq(Calls) /\ sendQueue \in Seq(Calls) /\ receiveQueue \in Seq(Commands) /\ ~rejectFct
      /\ NoUser(sendQueue) /\ config' = config
  BY <1>1 DEF Handed, Talks, setting
<1>4. Tail(wire) \in Seq(Calls) /\ Elements(Tail(wire)) \subseteq Elements(wire)
  BY <1>3, TailOf, ElementsOf
<1>5. /\ <<"fail">> \in Seq(Ticks) /\ <<>> \in Seq(Ticks) /\ <<u>> \in Seq(Ticks)
      /\ Elements(<<"fail">>) = {"fail"} /\ Elements(<<>>) = {} /\ Elements(<<u>>) = {u}
  BY NamesTyped DEF Elements
<1>6. CASE exchange'.who = exchange.who /\ UNCHANGED <<link, queues, ticks>>
  <2>1. /\ UNCHANGED <<config, status, addCommand, rejectFct, onEnd, call, wire, sendQueue, receiveQueue, ticks>>
        /\ exchange'.who = exchange.who
    BY <1>3, <1>6 DEF link, queues
  <2>2. Handed'
    BY <2>1, HandedKept DEF Handed
  <2>3. Elements(sendQueue)' = Elements(sendQueue) /\ Elements(ticks)' = Elements(ticks)
    BY <2>1 DEF Elements
  <2>4. Talks(u)'
    BY <1>1, <2>1, <2>3 DEF Talks, NoUser
  <2>5. CASE AtMostOne /\ Level
    <3>1. AtMostOne' /\ Level'
      BY <2>1, <2>5 DEF AtMostOne, Level, Terminating
    <3> QED
      BY <2>2, <2>4, <3>1 DEF Turns
  <2> QED
    BY <2>2, <2>5 DEF Turns, Lost
<1>7. CASE exchange'.reads = "none" /\ UNCHANGED <<link, sendQueue, receiveQueue, onEnd>>
           /\ wire' \in {wire, Tail(wire)} /\ ticks' \in {<<>>, <<"fail">>}
  <2>1. wire' \in Seq(Calls) /\ Elements(wire') \subseteq Elements(wire)
    BY <1>3, <1>4, <1>7
  <2>2. ticks' \in Seq(Ticks) /\ Elements(ticks') \subseteq {"fail", "ended"} /\ "ended" \notin Elements(ticks')
    <3>1. CASE ticks' = <<>>
      <4>1. ticks' \in Seq(Ticks) /\ Elements(ticks') = {}
        BY <1>5, <3>1, Zenon
      <4> QED
        BY <4>1
    <3>2. CASE ticks' = <<"fail">>
      <4>1. ticks' \in Seq(Ticks) /\ Elements(ticks') = {"fail"}
        BY <1>5, <3>2, Zenon
      <4> QED
        BY <4>1
    <3> QED
      BY <1>7, <3>1, <3>2, Zenon
  <2>3. UNCHANGED <<config, status, addCommand, rejectFct, onEnd, call>>
    BY <1>3, <1>7 DEF link
  <2> QED
    BY <1>3, <1>7, <2>1, <2>2, <2>3, FailsTurns
<1>8. ASSUME PluginThrows \/ AuthError PROVE Handed' /\ Turns'
  <2>1. ticks' = <<"fail">> /\ exchange' = Idle /\ UNCHANGED <<link, sendQueue, receiveQueue, onEnd>>
        /\ wire' \in {wire, Tail(wire)}
    BY <1>8 DEF PluginThrows, AuthError, queues
  <2> QED
    BY <1>2, <1>7, <2>1
<1>9. CASE AuthFailHandler /\ exchange' = Idle /\ UNCHANGED ticks
  <2>1. UNCHANGED <<queues, status, addCommand, rejectFct>>
    BY <1>3, <1>9 DEF AuthFailHandler
  <2>2. /\ UNCHANGED <<config, status, addCommand, rejectFct, onEnd, call>> /\ UNCHANGED <<wire, sendQueue, receiveQueue, ticks>>
        /\ exchange'.reads = "none"
    BY <1>2, <1>3, <1>9, <2>1 DEF queues
  <2>3. Elements(ticks') = {}
    BY <1>5, <2>2
  <2> QED
    BY <1>3, <1>5, <2>2, <2>3, FailsTurns
<1>10. ASSUME NEW answered \in {wire, Tail(wire)}, CommandThrows(answered) PROVE Handed' /\ Turns'
  <2>1. /\ receiveQueue' = Shifted(receiveQueue) /\ UNCHANGED <<onEnd, link>>
        /\ SendNext(u, answered, Idle, Append(ticks, "fail"))
    BY <1>2, <1>10 DEF CommandThrows, CommandOver
  <2>2. Append(ticks, "fail") = <<"fail">>
    OBVIOUS
  <2>3. SendNext(u, answered, Idle, <<"fail">>)
    BY <2>1, <2>2
  <2>4. answered \in Seq(Calls) /\ Elements(answered) \subseteq Elements(wire) /\ <<"fail">> \in Seq(Ticks)
    BY <1>3, <1>4, <1>5
  <2>5. /\ wire' \in Seq(Calls) /\ sendQueue' \in Seq(Calls) /\ ticks' \in Seq(Ticks)
        /\ Elements(wire') \cup Elements(sendQueue') \subseteq Elements(wire) \cup Elements(sendQueue)
        /\ Elements(sendQueue') \subseteq Elements(sendQueue)
        /\ Elements(ticks') \subseteq Elements(<<"fail">>) \cup {"ended"}
        /\ "ended" \in Elements(ticks') => "ended" \in Elements(<<"fail">>) \/ Terminating
        /\ NoUser(sendQueue) => exchange' = Idle
    BY <2>3, <2>4, SendNextKeeps
  <2>6. receiveQueue' \in Seq(Commands)
    BY <1>3, <2>1 DEF Shifted
  <2>7. UNCHANGED <<config, status, addCommand, rejectFct, onEnd, call>>
    BY <1>3, <2>1 DEF link
  <2>8. Elements(ticks') \subseteq {"fail", "ended"} /\ ("ended" \in Elements(ticks') => Terminating) /\ exchange'.reads = "none"
    BY <1>2, <1>3, <1>5, <2>5
  <2> QED
    BY <2>5, <2>6, <2>7, <2>8, FailsTurns
<1>11. ASSUME NEW right \in BOOLEAN, SuccessEnd(right), UNCHANGED link PROVE Handed' /\ Turns'
  <2> DEFINE talking == [Idle EXCEPT !.proven = right]
  <2>1. /\ receiveQueue' = Shifted(receiveQueue) /\ UNCHANGED <<onEnd, link>>
        /\ SendNext(u, Tail(wire), talking, Append(ticks, u))
    BY <1>2, <1>11 DEF SuccessEnd, CommandOver
  <2>2. Append(ticks, u) = <<u>> /\ talking.reads = "none"
    BY <1>2
  <2> HIDE DEF talking
  <2>3. SendNext(u, Tail(wire), talking, <<u>>)
    BY <2>1, <2>2
  <2>4. /\ wire' \in Seq(Calls) /\ sendQueue' \in Seq(Calls) /\ ticks' \in Seq(Ticks)
        /\ Elements(wire') \cup Elements(sendQueue') \subseteq Elements(wire) \cup Elements(sendQueue)
        /\ Elements(sendQueue') \subseteq Elements(sendQueue)
        /\ Elements(ticks') \subseteq Elements(<<u>>) \cup {"ended"}
        /\ "ended" \in Elements(ticks') => "ended" \in Elements(<<u>>) \/ Terminating
        /\ NoUser(sendQueue) => exchange' = talking
    BY <1>4, <1>5, <2>3, SendNextKeeps
  <2>5. u # "quit" /\ u # "ended"
    BY ConnectAssumption
  <2>6. receiveQueue' \in Seq(Commands)
    BY <1>3, <2>1 DEF Shifted
  <2>7. UNCHANGED <<config, status, addCommand, onEnd>> /\ ~rejectFct'
    BY <1>3, <2>1 DEF link
  <2>8. {"quit", "ended"} \cap Elements(ticks') \subseteq Elements(ticks) \/ Terminating
    BY <1>5, <2>4, <2>5
  <2>9. Handed'
    BY <2>4, <2>6, <2>7, <2>8, HandedKept
  <2>10. AtMostOne /\ Level
    BY DEF Turns, Lost
  <2>11. AtMostOne' /\ Level'
    BY <1>2, <1>5, <2>1, <2>3, <2>7, <2>10, Advances
  <2>12. NoUser(sendQueue')
    BY <1>3, <2>4 DEF NoUser
  <2>13. Elements(sendQueue)' = Elements(sendQueue')
    BY DEF Elements
  <2>14. Nobody'
    BY <1>3, <2>2, <2>4, <2>12, <2>13 DEF Nobody, NoUser
  <2> QED
    BY <2>9, <2>11, <2>14 DEF Turns
<1> QED
  BY <1>6, <1>8, <1>9, <1>10, <1>11

\* To add a command, in either way.
LEMMA AddedFacts ==
  ASSUME NEW c \in Calls, c # "quit", NEW how, NEW more \in Seq(Ticks), AddCommand(c, how, more)
  PROVE  /\ receiveQueue' = Append(receiveQueue, c) /\ ticks' = more
         /\ onEnd' = IF how = "enable" THEN onEnd \cup {c} ELSE onEnd
         /\ \/ UNCHANGED <<wire, exchange>> /\ sendQueue' = Append(sendQueue, c)
            \/ /\ sendQueue = <<>> /\ sendQueue' = <<>> /\ wire' = wire \o <<c>>
               /\ how = "enable" => receiveQueue = <<>>
               /\ c \notin Users => exchange' = exchange
               /\ c \in Users => exchange' = StartUser(c)
<1>1. WriteNow(c, more) \/ Queued(c, more)
  BY DEF AddCommand, AddCommandEnable, AddCommandEnablePipeline
<1>2. receiveQueue' = Append(receiveQueue, c) /\ onEnd' = IF how = "enable" THEN onEnd \cup {c} ELSE onEnd
  BY DEF AddCommand, AddCommandEnable, AddCommandEnablePipeline
<1>3. CASE WriteNow(c, more)
  <2>1. Written(<<c>>, wire, exchange, more) /\ sendQueue' = sendQueue
    BY <1>3 DEF WriteNow
  <2>2. Elements(<<c>>) = {c}
    BY DEF Elements
  <2>3. ticks' = more \o <<>> /\ wire' = wire \o <<c>>
    BY <2>1, <2>2 DEF Written
  <2>4. /\ c \notin Users => exchange' = exchange
        /\ c \in Users => exchange' = StartUser(c)
    <3>1. exchange' \in (IF Users \cap {c} = {} THEN {exchange} ELSE {StartUser(u) : u \in Users \cap {c}})
      BY <2>1, <2>2 DEF Written
    <3> QED
      BY <3>1
  <2>5. ticks' = more
    BY <2>3
  <2>6. sendQueue = <<>> /\ (how = "enable" => receiveQueue = <<>>)
    <3>1. ASSUME Queued(c, more) PROVE FALSE
      BY <2>1, <3>1 DEF Queued
    <3> QED
      BY <3>1 DEF AddCommand, AddCommandEnable, AddCommandEnablePipeline
  <2> QED
    BY <1>2, <2>1, <2>3, <2>4, <2>5, <2>6
<1>4. CASE Queued(c, more)
  BY <1>2, <1>4 DEF Queued, talk
<1> QED
  BY <1>1, <1>3, <1>4

\* A command that is added while the connection is open.
LEMMA AddedHanded ==
  ASSUME Handed, NEW c \in Calls, c # "quit", NEW how, NEW more \in Seq(Ticks), AddCommand(c, how, more),
         ~Terminating, UNCHANGED <<config, status>>, ~rejectFct', addCommand' \in {"enable", Mode},
         how = "enable" \/ config.pipelining,
         how = "enable" /\ config.pipelining => c \in Users \cup Queries,
         {"quit", "ended"} \cap Elements(more) \subseteq Elements(ticks),
         \A d \in Users \cup Queries : call'[d] = "none" => call[d] = "none" /\ d # c
  PROVE  Handed'
<1>1. /\ receiveQueue' = Append(receiveQueue, c) /\ ticks' = more
      /\ onEnd' = IF how = "enable" THEN onEnd \cup {c} ELSE onEnd
      /\ \/ wire' = wire /\ sendQueue' = Append(sendQueue, c)
         \/ sendQueue = <<>> /\ sendQueue' = <<>> /\ wire' = wire \o <<c>>
  BY AddedFacts
<1>2. wire \in Seq(Calls) /\ sendQueue \in Seq(Calls) /\ receiveQueue \in Seq(Commands) /\ c \in Commands
  BY DEF Handed, Calls
<1>3. <<c>> \in Seq(Calls) /\ Elements(<<c>>) = {c}
  BY DEF Elements
<1>4. /\ wire \o <<c>> \in Seq(Calls) /\ Append(sendQueue, c) \in Seq(Calls) /\ Append(receiveQueue, c) \in Seq(Commands)
  BY <1>2, <1>3
<1>5. Elements(wire \o <<c>>) = Elements(wire) \cup {c} /\ Elements(Append(sendQueue, c)) = Elements(sendQueue) \cup {c}
  <2>1. PICK t \in Seq(Calls) : t = <<c>>
    BY <1>3, Zenon
  <2>2. Elements(wire \o t) = Elements(wire) \cup Elements(t)
    BY <1>2, ElementsOf
  <2>3. Elements(Append(sendQueue, c)) = Elements(sendQueue) \cup {c}
    BY <1>2, ElementsOf
  <2>4. Elements(wire \o <<c>>) = Elements(wire) \cup {c}
    BY <1>3, <2>1, <2>2, Zenon
  <2> QED
    BY <2>3, <2>4
<1>6. /\ wire' \in Seq(Calls) /\ sendQueue' \in Seq(Calls)
      /\ Elements(wire') \subseteq Elements(wire) \cup {c} /\ Elements(sendQueue') \subseteq Elements(sendQueue) \cup {c}
  <2>1. CASE wire' = wire /\ sendQueue' = Append(sendQueue, c)
    BY <1>2, <1>4, <1>5, <2>1
  <2>2. CASE sendQueue' = sendQueue /\ wire' = wire \o <<c>>
    BY <1>2, <1>4, <1>5, <2>2
  <2> QED
    BY <1>1, <2>1, <2>2, Zenon
<1>7. receiveQueue' \in Seq(Commands) /\ ticks' \in Seq(Ticks)
  BY <1>1, <1>4
<1>8. /\ Elements(sendQueue)' = Elements(sendQueue') /\ Elements(ticks)' = Elements(ticks')
      /\ Elements(wire)' = Elements(wire') /\ Mode' = Mode /\ (Terminating' <=> Terminating)
  BY DEF Elements, Mode, Terminating
<1>9. Mode # "disabled"
  BY DEF Mode
<1>10. Unused'
  BY <1>1, <1>6, <1>8 DEF Handed, Unused
<1>11. Listening'
  BY <1>1, <1>6, <1>8 DEF Handed, Listening
<1>12. "quit" \notin Elements(ticks') \cup Elements(sendQueue') /\ "ended" \notin Elements(ticks')
  BY <1>1, <1>6 DEF Handed
<1> QED
  BY <1>6, <1>7, <1>8, <1>9, <1>10, <1>11, <1>12 DEF Handed

\* As many answers are awaited as commands are on their way.
LEMMA AddedLevel ==
  ASSUME Handed, AtMostOne, Level, ~Terminating, UNCHANGED status, NEW c \in Calls, c # "quit", NEW how,
         NEW more \in Seq(Ticks), AddCommand(c, how, more),
         how = "enable" => c \notin Elements(wire) \/ c \in onEnd, how # "enable" => c \notin onEnd
  PROVE  /\ AtMostOne' /\ Level'
         /\ how = "enable" /\ wire # <<>> => UNCHANGED <<wire, exchange>> /\ sendQueue' = Append(sendQueue, c)
<1>1. /\ receiveQueue' = Append(receiveQueue, c)
      /\ onEnd' = IF how = "enable" THEN onEnd \cup {c} ELSE onEnd
      /\ \/ UNCHANGED <<wire, exchange>> /\ sendQueue' = Append(sendQueue, c)
         \/ sendQueue = <<>> /\ sendQueue' = <<>> /\ wire' = wire \o <<c>> /\ (how = "enable" => receiveQueue = <<>>)
  BY AddedFacts
<1>2. /\ wire \in Seq(Calls) /\ sendQueue \in Seq(Calls) /\ receiveQueue \in Seq(Commands) /\ c \in Commands
      /\ Len(receiveQueue) = Len(wire) + Len(sendQueue)
  BY DEF Handed, Calls, Level
<1>3. Len(receiveQueue') = Len(receiveQueue) + 1
  BY <1>1, <1>2
<1>4. Len(receiveQueue) \in Nat /\ Len(wire) \in Nat /\ Len(sendQueue) \in Nat
  BY <1>2
<1>5. receiveQueue = <<>> => Len(wire) = 0
  <2> SUFFICES ASSUME receiveQueue = <<>> PROVE Len(wire) = 0
    OBVIOUS
  <2>1. Len(receiveQueue) = 0
    OBVIOUS
  <2>2. PICK w \in Nat, s \in Nat : w = Len(wire) /\ s = Len(sendQueue)
    BY <1>4, Zenon
  <2>3. w + s = 0
    BY <1>2, <2>1, <2>2
  <2>4. w = 0
    BY ONLY <2>3, w \in Nat, s \in Nat
  <2> QED
    BY <2>2, <2>4
<1>6. CASE UNCHANGED <<wire, exchange>> /\ sendQueue' = Append(sendQueue, c)
  <2>1. Len(sendQueue') = Len(sendQueue) + 1
    BY <1>2, <1>6
  <2>2. Level'
    BY <1>2, <1>3, <1>4, <1>6, <2>1 DEF Level
  <2>3. \A i \in 1..Len(wire) : wire[i] \in Elements(wire)
    BY <1>2 DEF Elements
  <2>4. \A i \in 1..Len(wire) : wire[i] \in onEnd' => wire[i] \in onEnd
    BY <1>1, <2>3
  <2>5. AtMostOne'
    BY <1>6, <2>4 DEF AtMostOne
  <2> QED
    BY <1>6, <2>2, <2>5
<1>7. CASE /\ sendQueue = <<>> /\ sendQueue' = <<>> /\ wire' = wire \o <<c>>
           /\ (how = "enable" => receiveQueue = <<>>)
  <2>1. /\ Len(wire') = Len(wire) + 1 /\ wire'[Len(wire) + 1] = c
        /\ \A i \in 1..Len(wire) : wire'[i] = wire[i]
    BY <1>2, <1>7
  <2>2. Len(sendQueue') = 0 /\ Len(sendQueue) = 0
    BY <1>7
  <2>3. Level'
    <3>1. Len(receiveQueue') = Len(wire') + Len(sendQueue')
      <4>1. PICK w \in Nat, r \in Nat : w = Len(wire) /\ r = Len(receiveQueue)
        BY <1>4, Zenon
      <4>2. r = w + 0 /\ Len(receiveQueue') = r + 1 /\ Len(wire') = w + 1
        BY <1>2, <1>3, <2>1, <2>2, <4>1, Zenon
      <4>3. r + 1 = (w + 1) + 0
        BY ONLY <4>2, w \in Nat, r \in Nat
      <4> QED
        BY <2>2, <4>2, <4>3, Zenon
    <3> QED
      BY <3>1 DEF Level
  <2>4. AtMostOne'
    <3>1. CASE how = "enable"
      <4>1. Len(wire') = 1
        BY <1>5, <1>7, <2>1, <3>1
      <4> QED
        BY <4>1 DEF AtMostOne
    <3>2. CASE how # "enable"
      <4>1. onEnd' = onEnd /\ c \notin onEnd
        BY <1>1, <3>2
      <4>2. \A i \in 1..Len(wire') : wire'[i] \in onEnd' => i \in 1..Len(wire) /\ wire[i] \in onEnd
        <5> SUFFICES ASSUME NEW i \in 1..Len(wire'), wire'[i] \in onEnd' PROVE i \in 1..Len(wire) /\ wire[i] \in onEnd
          OBVIOUS
        <5>1. i # Len(wire) + 1
          BY <2>1, <4>1
        <5>2. i \in 1..Len(wire)
          BY <1>4, <2>1, <5>1
        <5> QED
          BY <2>1, <4>1, <5>2
      <4> QED
        BY <4>2 DEF AtMostOne
    <3> QED
      BY <3>1, <3>2
  <2>5. how = "enable" => wire = <<>>
    BY <1>2, <1>5, <1>7
  <2> QED
    BY <2>3, <2>4, <2>5
<1> QED
  BY <1>1, <1>6, <1>7

\* One command more behind a change of user.
LEMMA AloneKept ==
  ASSUME NEW q \in Seq(Calls), NEW u \in Users, NEW e \in Calls,
         \/ Alone(q, u) /\ e \notin Users
         \/ NoUser(q) /\ e = u
  PROVE  Alone(Append(q, e), u)
<1>0. Append(q, e) \in Seq(Calls)
  OBVIOUS
<1>1. PICK r \in Seq(Calls) : r = Append(q, e)
  BY <1>0, Zenon
<1>2. /\ Len(r) = Len(q) + 1 /\ r[Len(q) + 1] = e /\ Len(q) \in Nat
      /\ \A i \in 1..Len(q) : r[i] = q[i]
  BY <1>1
<1>3. \A i \in 1..Len(r) : i \in 1..Len(q) \/ i = Len(q) + 1
  BY <1>2
<1>4. CASE Alone(q, u) /\ e \notin Users
  <2>1. PICK k \in 1..Len(q) : q[k] = u /\ \A i \in 1..Len(q) : q[i] \in Users => i = k
    BY <1>4 DEF Alone
  <2>2. k \in 1..Len(r) /\ r[k] = u
    BY <1>2, <2>1
  <2>3. \A i \in 1..Len(r) : r[i] \in Users => i = k
    BY <1>2, <1>3, <1>4, <2>1
  <2>4. Alone(r, u)
    BY <2>2, <2>3 DEF Alone
  <2> QED
    BY <1>1, <2>4, Zenon
<1>5. CASE NoUser(q) /\ e = u
  <2>1. \A i \in 1..Len(q) : q[i] \notin Users
    BY <1>5 DEF NoUser, Elements
  <2>2. \A i \in 1..Len(r) : r[i] \in Users => i = Len(q) + 1
    BY <1>2, <1>3, <2>1
  <2>3. Len(q) + 1 \in 1..Len(r) /\ r[Len(q) + 1] = u
    BY <1>2, <1>5
  <2>4. Alone(r, u)
    BY <2>2, <2>3 DEF Alone
  <2> QED
    BY <1>1, <2>4, Zenon
<1> QED
  BY <1>4, <1>5

\* Another command than a change of user leaves those who do not ask for one as they are.
LEMMA AddedQuiet ==
  ASSUME Handed, NEW c \in Calls, c # "quit", c \notin Users, NEW how, NEW more \in Seq(Ticks), AddCommand(c, how, more)
  PROVE  /\ Nobody => Nobody'
         /\ NoUser(sendQueue) => NoUser(sendQueue')
         /\ exchange' = exchange /\ ticks' = more
<1>1. /\ exchange' = exchange /\ ticks' = more
      /\ \/ sendQueue' = Append(sendQueue, c)
         \/ sendQueue = <<>> /\ sendQueue' = <<>>
  BY AddedFacts
<1>2. Elements(Append(sendQueue, c)) = Elements(sendQueue) \cup {c}
  BY ElementsOf DEF Handed
<1>3. Elements(sendQueue') \subseteq Elements(sendQueue) \cup {c}
  <2>1. CASE sendQueue' = Append(sendQueue, c)
    BY <1>2, <2>1
  <2>2. CASE sendQueue' = sendQueue
    BY <2>2
  <2> QED
    BY <1>1, <2>1, <2>2, Zenon
<1>4. NoUser(sendQueue) => NoUser(sendQueue')
  BY <1>3 DEF NoUser
<1>5. Elements(sendQueue)' = Elements(sendQueue')
  BY DEF Elements
<1> QED
  BY <1>1, <1>4, <1>5 DEF Nobody, NoUser

\* The client issues a query.
LEMMA QueryTurns ==
  ASSUME Handed, Turns, DOMAIN call = Users \cup Queries, NEW q \in Queries, Query(q) PROVE Handed' /\ Turns'
<1>1. /\ ticks = <<>> /\ call[q] = "none" /\ UNCHANGED <<setting, link>>
  BY DEF Query, LoopDrained
<1>2. q \in Calls /\ q # "quit" /\ q \notin Users /\ q \notin {"quit", "ended"} /\ ticks \in Seq(Ticks) /\ Elements(ticks) = {}
  BY <1>1, NamesTyped, ConnectAssumption DEF Handed, Elements
<1>3. q \notin Elements(wire) \cup Elements(sendQueue) \cup onEnd
  BY <1>1 DEF Handed, Unused
<1>4. UNCHANGED <<config, status, addCommand>> /\ ~rejectFct'
  BY <1>1 DEF setting, link, Handed
<1>5. CASE addCommand = "disabled"
  <2>1. call' = [call EXCEPT ![q] = "rejected"] /\ UNCHANGED <<queues, talk, ticks>>
    BY <1>5 DEF Query
  <2>2. /\ \A u \in Users : call[u] = "waits" => call'[u] = "waits"
        /\ \A c \in Users \cup Queries : call'[c] = "none" => call[c] = "none"
    BY <1>1, <1>2, <2>1
  <2>3. UNCHANGED <<wire, onEnd, exchange, sendQueue, receiveQueue, ticks>>
    BY <2>1 DEF queues, talk
  <2>4. receiveQueue' \in Seq(Commands) /\ ticks' \in Seq(Ticks) /\ Elements(ticks') = Elements(ticks)
    BY <2>3 DEF Handed
  <2> QED
    BY <1>4, <2>2, <2>3, <2>4, CalmStep
<1>6. CASE addCommand # "disabled"
  <2>1. /\ call' = [call EXCEPT ![q] = "waits"] /\ AddCommand(q, addCommand, ticks)
    BY <1>6 DEF Query
  <2>2. ~Terminating /\ addCommand \in {"enable", Mode} /\ addCommand' \in {"enable", Mode}
    BY <1>4, <1>6 DEF Handed
  <2>3. addCommand = "enable" \/ (config.pipelining /\ addCommand = "pipeline")
    BY <2>2 DEF Mode
  <2>4. \A d \in Users \cup Queries : call'[d] = "none" => call[d] = "none" /\ d # q
    BY <2>1
  <2>5. \A u \in Users : call'[u] = call[u]
    BY <1>2, <2>1
  <2>6. Handed'
    <3>1. {"quit", "ended"} \cap Elements(ticks) \subseteq Elements(ticks)
      OBVIOUS
    <3>2. addCommand = "enable" \/ config.pipelining
      BY <2>3
    <3>3. addCommand = "enable" /\ config.pipelining => q \in Users \cup Queries
      OBVIOUS
    <3> QED
      BY <1>2, <1>4, <2>1, <2>2, <2>4, <3>1, <3>2, <3>3, AddedHanded
  <2>7. /\ Nobody => Nobody'
        /\ NoUser(sendQueue) => NoUser(sendQueue')
        /\ exchange' = exchange /\ ticks' = ticks
    BY <1>2, <2>1, AddedQuiet
  <2>8. AtMostOne /\ Level =>
          /\ AtMostOne' /\ Level'
          /\ addCommand = "enable" /\ wire # <<>> => UNCHANGED <<wire, exchange>> /\ sendQueue' = Append(sendQueue, q)
    BY <1>2, <1>3, <1>4, <2>1, <2>2, AddedLevel
  <2>9. Elements(sendQueue)' = Elements(sendQueue') /\ Elements(ticks)' = Elements(ticks')
    BY DEF Elements
  <2>10. onEnd \subseteq onEnd'
    BY <1>2, <2>1, AddedFacts
  <2>11. ASSUME NEW u \in Users, Lost(u) PROVE Lost(u)'
    BY <2>5, <2>7, <2>9, <2>11 DEF Lost, NoUser
  <2>12. ASSUME NEW u \in Users, InTurn(u) PROVE InTurn(u)'
    <3>1. sendQueue # <<>>
      BY <2>12 DEF InTurn, Alone
    <3>2. sendQueue' = Append(sendQueue, q)
      BY <1>2, <2>1, <3>1, AddedFacts
    <3>3. Alone(Append(sendQueue, q), u)
      BY <1>2, <2>12, AloneKept DEF InTurn, Handed
    <3>4. Alone(sendQueue, u)'
      BY <3>2, <3>3 DEF Alone
    <3> QED
      BY <1>4, <2>5, <2>7, <2>9, <2>10, <2>12, <3>4 DEF InTurn, NoUser
  <2>13. ASSUME NEW u \in Users, Talks(u), AtMostOne, Level PROVE Talks(u)'
    <3>1. addCommand = "enable" /\ wire # <<>>
      BY <2>3, <2>13 DEF Talks
    <3>2. UNCHANGED wire
      BY <2>8, <2>13, <3>1
    <3> QED
      BY <1>4, <2>5, <2>7, <2>9, <2>10, <2>13, <3>2 DEF Talks, NoUser
  <2> QED
    BY <2>6, <2>7, <2>8, <2>11, <2>12, <2>13 DEF Turns
<1> QED
  BY <1>5, <1>6

\* The client asks for a change of user, when no other is under way.
LEMMA ChangeUserTurns ==
  ASSUME Handed, Turns, ExchangeOK, DOMAIN call = Users \cup Queries, NEW u \in Users, NEW wrong \in BOOLEAN,
         ChangeUser(u, wrong), OneAtATime
  PROVE  Handed' /\ Turns'
<1>1. /\ ticks = <<>> /\ call[u] = "none" /\ UNCHANGED <<setting, status, rejectFct>>
      /\ addCommand' = IF server.mariadb /\ ~Terminating THEN "enable" ELSE addCommand
      /\ call' = [call EXCEPT ![u] = IF wrong \/ ~server.mariadb THEN "rejected" ELSE "waits"]
      /\ IF wrong \/ ~server.mariadb \/ Terminating THEN UNCHANGED <<queues, talk, ticks>>
         ELSE AddCommandEnable(u, ticks)
  BY DEF ChangeUser, LoopDrained
<1>2. /\ u \in Calls /\ u # "quit" /\ ticks \in Seq(Ticks) /\ Elements(ticks) = {}
  BY <1>1, NamesTyped, ConnectAssumption DEF Handed, Elements
<1>3. u \notin Elements(wire) \cup Elements(sendQueue) \cup onEnd
  BY <1>1 DEF Handed, Unused
<1>4. call'[u] \in {"rejected", "waits"} /\ \A d \in Users \cup Queries : d # u => call'[d] = call[d]
  BY <1>1
<1>5. \A v \in Users : call[v] # "waits"
  BY <1>1, <1>4 DEF OneAtATime
<1>6. AtMostOne /\ Level /\ Nobody
  BY <1>5 DEF Turns, Lost, InTurn, Talks
<1>7. UNCHANGED <<config, status>> /\ ~rejectFct' /\ (addCommand' = addCommand \/ (~Terminating /\ addCommand' \in {"enable", Mode}))
  BY <1>1 DEF setting, Handed
<1>8. Elements(sendQueue)' = Elements(sendQueue') /\ Elements(ticks)' = Elements(ticks')
  BY DEF Elements
<1>9. CASE wrong \/ ~server.mariadb \/ Terminating
  <2>1. UNCHANGED <<sendQueue, receiveQueue, onEnd, wire, exchange, ticks>>
    BY <1>1, <1>9 DEF queues, talk
  <2>2. \A d \in Users \cup Queries : call'[d] = "none" => call[d] = "none"
    BY <1>4
  <2>3. Handed'
    <3>1. wire' \in Seq(Calls) /\ sendQueue' \in Seq(Calls) /\ receiveQueue' \in Seq(Commands) /\ ticks' \in Seq(Ticks)
      BY <2>1 DEF Handed
    <3>2. /\ Elements(wire') \cup Elements(sendQueue') \subseteq Elements(wire) \cup Elements(sendQueue)
          /\ "quit" \in Elements(sendQueue') => "quit" \in Elements(sendQueue)
          /\ {"quit", "ended"} \cap Elements(ticks') \subseteq Elements(ticks) \/ Terminating
      BY <2>1
    <3> QED
      BY <1>7, <2>1, <2>2, <3>1, <3>2, HandedKept
  <2>4. AtMostOne' /\ Level' /\ Nobody'
    BY <1>6, <1>7, <1>8, <2>1 DEF AtMostOne, Level, Nobody, NoUser, Terminating
  <2> QED
    BY <2>3, <2>4 DEF Turns
<1>10. CASE ~(wrong \/ ~server.mariadb \/ Terminating)
  <2>1. /\ AddCommand(u, "enable", ticks) /\ ~Terminating /\ addCommand' = "enable" /\ call'[u] = "waits"
    BY <1>1, <1>10 DEF AddCommand
  <2>2. Handed'
    <3>1. \A d \in Users \cup Queries : call'[d] = "none" => call[d] = "none" /\ d # u
      BY <1>4
    <3>2. {"quit", "ended"} \cap Elements(ticks) \subseteq Elements(ticks)
      OBVIOUS
    <3>3. "enable" = "enable" \/ config.pipelining
      OBVIOUS
    <3>4. "enable" = "enable" /\ config.pipelining => u \in Users \cup Queries
      OBVIOUS
    <3>5. addCommand' \in {"enable", Mode}
      BY <2>1
    <3>6. ~Terminating
      BY <2>1
    <3>7. UNCHANGED <<config, status>> /\ ~rejectFct'
      BY <1>7
    <3>8. AddCommand(u, "enable", ticks)
      BY <2>1
    <3> QED
      BY <1>2, <3>1, <3>2, <3>3, <3>4, <3>5, <3>6, <3>7, <3>8, AddedHanded
  <2>3. AtMostOne' /\ Level'
    <3>1. UNCHANGED status
      BY <1>7
    <3>2. "enable" = "enable" => u \notin Elements(wire) \/ u \in onEnd
      BY <1>3
    <3>3. "enable" # "enable" => u \notin onEnd
      OBVIOUS
    <3> QED
      BY <1>2, <1>6, <2>1, <3>1, <3>2, <3>3, AddedLevel
  <2>4. /\ ticks' = <<>> /\ onEnd' = onEnd \cup {u}
        /\ \/ UNCHANGED <<wire, exchange>> /\ sendQueue' = Append(sendQueue, u)
           \/ sendQueue = <<>> /\ sendQueue' = <<>> /\ wire' = wire \o <<u>> /\ receiveQueue = <<>> /\ exchange' = StartUser(u)
    BY <1>1, <1>2, <2>1, AddedFacts
  <2>5. NoUser(ticks')
    BY <1>1, <1>2, <2>4 DEF NoUser
  <2>6. CASE UNCHANGED <<wire, exchange>> /\ sendQueue' = Append(sendQueue, u)
    <3>1. Alone(Append(sendQueue, u), u)
      BY <1>2, <1>6, AloneKept DEF Nobody, Handed
    <3>2. Alone(sendQueue, u)'
      BY <2>6, <3>1 DEF Alone
    <3>3. InTurn(u)'
      BY <1>6, <1>8, <2>1, <2>4, <2>5, <2>6, <3>2 DEF InTurn, Nobody, NoUser
    <3> QED
      BY <2>2, <2>3, <3>3 DEF Turns
  <2>7. CASE sendQueue' = <<>> /\ wire' = wire \o <<u>> /\ exchange' = StartUser(u)
    <3>1. wire' # <<>> /\ wire'[Len(wire')] = u
      <4>1. wire \in Seq(Calls)
        BY DEF Handed
      <4>2. Len(wire') = Len(wire) + 1 /\ wire'[Len(wire) + 1] = u /\ Len(wire) \in Nat
        BY <2>7, <4>1
      <4> QED
        BY <4>2
    <3>2. exchange'.who = u
      BY <2>7 DEF StartUser, Idle, ExchangeOK
    <3>3. NoUser(sendQueue')
      BY <2>7 DEF NoUser, Elements
    <3>4. Talks(u)'
      BY <1>8, <2>1, <2>4, <2>5, <3>1, <3>2, <3>3 DEF Talks, NoUser
    <3> QED
      BY <2>2, <2>3, <3>4 DEF Turns
  <2> QED
    BY <2>4, <2>6, <2>7
<1> QED
  BY <1>9, <1>10

\* The user is changed, and its SET NAMES goes out if it has to.
LEMMA UserChangedTurns ==
  ASSUME Handed, Turns, DOMAIN call = Users \cup Queries, ticks # <<>>, NEW u \in Users, u = Head(ticks), UNCHANGED setting,
         NEW names \in BOOLEAN, UserChanged(u, names, Tail(ticks))
  PROVE  Handed' /\ Turns'
<1>1. /\ addCommand' = IF ~Terminating THEN Mode ELSE addCommand
      /\ UNCHANGED <<status, rejectFct>> /\ call'[u] # "none" /\ \A d \in Users \cup Queries : d # u => call'[d] = call[d]
      /\ IF names /\ addCommand' # "disabled" THEN AddCommand("names", addCommand', Tail(ticks))
         ELSE ticks' = Tail(ticks) /\ UNCHANGED <<queues, talk>>
  BY DEF UserChanged
<1>2. ticks \in Seq(Ticks) /\ Tail(ticks) \in Seq(Ticks) /\ Elements(Tail(ticks)) \subseteq Elements(ticks) /\ u \in Elements(ticks)
  <2>1. ticks \in Seq(Ticks)
    BY DEF Handed
  <2> QED
    BY <2>1, ElementsOf
<1>3. ~NoUser(ticks)
  BY <1>2 DEF NoUser
<1>4. UNCHANGED <<config, status>> /\ ~rejectFct' /\ (addCommand' = addCommand \/ (~Terminating /\ addCommand' \in {"enable", Mode}))
  BY <1>1 DEF setting, Handed
<1>5. /\ Elements(sendQueue)' = Elements(sendQueue') /\ Elements(ticks)' = Elements(ticks')
      /\ "names" \in Calls /\ "names" # "quit" /\ "names" \notin Users \cup Queries
  BY NamesTyped, ConnectAssumption DEF Elements
<1>6. ASSUME NEW v \in Users, Lost(v), Elements(ticks') \subseteq Elements(ticks), NoUser(sendQueue'), exchange' = exchange
      PROVE  Lost(v)'
  <2>1. v # u
    BY <1>2, <1>6 DEF Lost
  <2>2. call'[v] = "waits" /\ v \notin Elements(ticks')
    BY <1>1, <1>6, <2>1 DEF Lost
  <2> QED
    BY <1>5, <1>6, <2>2 DEF Lost, NoUser
<1>7. ASSUME Elements(ticks') \subseteq Elements(ticks), NoUser(sendQueue) => NoUser(sendQueue'), exchange' = exchange,
             AtMostOne /\ Level => AtMostOne' /\ Level'
      PROVE  Turns'
  <2>1. ASSUME NEW v \in Users, Lost(v) PROVE Turns'
    <3>1. Lost(v)'
      BY <1>6, <1>7, <2>1 DEF Lost
    <3> QED
      BY <3>1 DEF Turns
  <2>2. ASSUME AtMostOne, Level, Nobody PROVE Turns'
    <3>1. Nobody'
      BY <1>5, <1>7, <2>2 DEF Nobody, NoUser
    <3> QED
      BY <1>7, <2>2, <3>1 DEF Turns
  <2> QED
    BY <1>3, <2>1, <2>2 DEF Turns, InTurn, Talks
<1>8. CASE ~(names /\ addCommand' # "disabled")
  <2>1. UNCHANGED <<sendQueue, receiveQueue, onEnd, wire, exchange>> /\ ticks' = Tail(ticks)
    BY <1>1, <1>8 DEF queues, talk
  <2>2. \A d \in Users \cup Queries : call'[d] = "none" => call[d] = "none"
    BY <1>1
  <2>3. Handed'
    <3>1. wire' \in Seq(Calls) /\ sendQueue' \in Seq(Calls) /\ receiveQueue' \in Seq(Commands) /\ ticks' \in Seq(Ticks)
      BY <1>2, <2>1 DEF Handed
    <3>2. /\ Elements(wire') \cup Elements(sendQueue') \subseteq Elements(wire) \cup Elements(sendQueue)
          /\ "quit" \in Elements(sendQueue') => "quit" \in Elements(sendQueue)
          /\ {"quit", "ended"} \cap Elements(ticks') \subseteq Elements(ticks) \/ Terminating
      BY <1>2, <2>1
    <3> QED
      BY <1>4, <2>1, <2>2, <3>1, <3>2, HandedKept
  <2>4. /\ Elements(ticks') \subseteq Elements(ticks) /\ (NoUser(sendQueue) => NoUser(sendQueue')) /\ exchange' = exchange
        /\ AtMostOne /\ Level => AtMostOne' /\ Level'
    BY <1>2, <1>4, <2>1 DEF AtMostOne, Level, Terminating
  <2> QED
    BY <1>7, <2>3, <2>4
<1>9. CASE names /\ addCommand' # "disabled"
  <2>1. ~Terminating /\ addCommand' = Mode
    BY <1>1, <1>9 DEF Handed
  <2>2. AddCommand("names", Mode, Tail(ticks))
    BY <1>1, <1>9, <2>1
  <2>3. (Mode = "enable" /\ ~config.pipelining) \/ (Mode = "pipeline" /\ config.pipelining)
    BY DEF Mode
  <2>4. Handed'
    <3>1. \A d \in Users \cup Queries : call'[d] = "none" => call[d] = "none" /\ d # "names"
      BY <1>1, <1>5
    <3>2. {"quit", "ended"} \cap Elements(Tail(ticks)) \subseteq Elements(ticks)
      BY <1>2
    <3>3. Mode = "enable" \/ config.pipelining
      BY <2>3
    <3>4. Mode = "enable" /\ config.pipelining => "names" \in Users \cup Queries
      BY <2>3
    <3>5. addCommand' \in {"enable", Mode} /\ ~Terminating
      BY <2>1
    <3>6. UNCHANGED <<config, status>> /\ ~rejectFct'
      BY <1>4
    <3>7. Tail(ticks) \in Seq(Ticks) /\ "names" \in Calls /\ "names" # "quit"
      BY <1>2, <1>5
    <3> QED
      BY <2>2, <3>1, <3>2, <3>3, <3>4, <3>5, <3>6, <3>7, AddedHanded
  <2>5. AtMostOne /\ Level => AtMostOne' /\ Level'
    <3> SUFFICES ASSUME AtMostOne, Level PROVE AtMostOne' /\ Level'
      OBVIOUS
    <3>1. UNCHANGED status /\ ~Terminating /\ Tail(ticks) \in Seq(Ticks) /\ "names" \in Calls /\ "names" # "quit"
      BY <1>2, <1>4, <1>5, <2>1
    <3>2. Mode = "enable" => "names" \notin Elements(wire) \/ "names" \in onEnd
      BY <2>3 DEF Handed, Listening
    <3>3. Mode # "enable" => "names" \notin onEnd
      BY <1>5, <2>3 DEF Handed, Listening
    <3> QED
      BY <2>2, <3>1, <3>2, <3>3, AddedLevel
  <2>6. /\ NoUser(sendQueue) => NoUser(sendQueue')
        /\ exchange' = exchange /\ ticks' = Tail(ticks)
    BY <1>2, <1>5, <2>2, AddedQuiet
  <2>7. Elements(ticks') \subseteq Elements(ticks)
    BY <1>2, <2>6
  <2> QED
    BY <1>7, <2>4, <2>5, <2>6, <2>7
<1> QED
  BY <1>8, <1>9

\* What is known of a connection that is handed out.
LEMMA HandedFacts ==
  ASSUME PrepInv, TurnInv, connect = "resolved"
  PROVE  /\ Handed /\ Turns /\ redirect # "asked" /\ channel # "starting" /\ socket # "opening"
         /\ exchange.reads # "greeting" /\ (exchange.who = "auth" => exchange.reads = "none")
         /\ ticks \in Seq(Ticks) /\ wire \in Seq(Calls) /\ wire # <<"session">> /\ ticks # <<"auth">> /\ ~rejectFct
         /\ ticks # <<>> => Head(ticks) # "auth" /\ Head(ticks) \in Elements(ticks)
<1>1. Handed /\ Turns
  BY DEF TurnInv
<1>2. Over /\ redirect # "asked"
  <2>1. CASE redirect = "done"
    BY <2>1 DEF PrepInv, CloseInv, Redirected
  <2>2. CASE redirect # "done"
    BY <2>2, LiveFacts DEF Live, Said
  <2> QED
    BY <2>1, <2>2
<1>3. socket # "opening"
  BY <1>2 DEF TurnInv, Over
<1>4. wire # <<"session">> /\ ticks # <<"auth">>
  BY <1>1, NamesTyped, OtherQueues, Zenon DEF Handed
<1>5. ticks # <<>> => Head(ticks) # "auth" /\ Head(ticks) \in Elements(ticks)
  <2>1. ticks \in Seq(Ticks)
    BY <1>1 DEF Handed
  <2>2. ticks # <<>> => Head(ticks) \in Ticks /\ Head(ticks) \in Elements(ticks)
    BY <2>1, ElementsOf
  <2> QED
    BY <2>2, NamesTyped
<1> QED
  BY <1>1, <1>2, <1>3, <1>4, <1>5 DEF Over, Handed

\* And of one that is being prepared.
LEMMA OpeningFacts ==
  ASSUME PrepInv, TurnInv, connect # "resolved"
  PROVE  /\ Approaching
         /\ connect = "pending" => Awaited /\ (redirect # "done" => Live)
         /\ exchange.reads # "none" /\ connect = "pending" =>
              /\ wire \in {<<>>, <<"auth">>} /\ redirect = "no"
              /\ Before
<1>1. Approaching
  BY DEF TurnInv
<1>2. connect = "pending" => Awaited /\ (redirect # "done" => Live)
  BY <1>1 DEF Approaching, Live
<1>3. ASSUME exchange.reads # "none", connect = "pending"
      PROVE  wire \in {<<>>, <<"auth">>} /\ redirect = "no" /\ Before
  <2>1. ~Over
    BY <1>1, <1>3 DEF Approaching, Over
  <2>2. redirect = "no"
    BY <2>1 DEF PrepInv, CloseInv, Redirected
  <2>3. Live
    BY <1>3, <2>2 DEF Live
  <2>4. Before /\ Waiting
    BY <1>3, <2>1, <2>3, LiveFacts DEF Said
  <2> QED
    BY <2>2, <2>4 DEF Before, Waiting
<1> QED
  BY <1>1, <1>2, <1>3

\* What an exchange may come to: it goes on, a plugin or the server fails it, or it is over.
TalkStep ==
  \/ exchange'.who = exchange.who /\ UNCHANGED <<link, queues, ticks>>
  \/ PluginThrows
  \/ AuthError
  \/ \E answered \in {wire, Tail(wire)} : CommandThrows(answered)
  \/ AuthFailHandler /\ exchange' = Idle /\ UNCHANGED ticks
  \/ \E right \in BOOLEAN : SuccessEnd(right) /\ UNCHANGED link

\* What a plugin says is a step of its exchange.
LEMMA SpeakTalks ==
  ASSUME ExchangeOK, NEW reply, NEW p, NEW asked, Speak(reply, p, asked) PROVE TalkStep
<1>1. CASE reply.fails
  BY <1>1 DEF Speak, TalkStep
<1>2. CASE ~reply.fails
  <2>1. /\ exchange' = [exchange EXCEPT !.plugin = p, !.reads = reply.reads, !.stage = reply.stage,
                          !.asked = asked, !.said = reply.says, !.packets = @ + 1]
        /\ UNCHANGED <<link, queues, ticks>>
    BY <1>2 DEF Speak
  <2>2. exchange'.who = exchange.who
    BY <2>1 DEF ExchangeOK
  <2> QED
    BY <2>1, <2>2 DEF TalkStep
<1> QED
  BY <1>1, <1>2

\* The packets of the server, in an exchange.
LEMMA Talking ==
  ASSUME ExchangeOK,
         \/ ParseHandshakeInit \/ AuthError
         \/ \E right \in BOOLEAN : AuthOk(right)
         \/ \E p \in Plugins \cup {"other"} : AuthSwitch(p)
         \/ \E packet \in Packets : PluginResponse(packet) \/ RequestForSalt(packet)
  PROVE  /\ ticks = <<>> /\ wire # <<>> /\ Head(wire) = exchange.who /\ exchange.reads # "none" /\ socket = "open"
         /\ redirect # "done" /\ UNCHANGED <<setting, call>> /\ TalkStep
<1>1. /\ ticks = <<>> /\ wire # <<>> /\ Head(wire) = exchange.who /\ exchange.reads # "none" /\ socket = "open"
      /\ redirect # "done" /\ UNCHANGED <<setting, call>>
  BY DEF ParseHandshakeInit, AuthError, AuthOk, AuthSwitch, PluginResponse, RequestForSalt, Sends, LoopDrained
<1>2. Idle.who = exchange.who /\ \A b : [Idle EXCEPT !.proven = b].who = exchange.who
  BY DEF Idle, ExchangeOK
<1>3. ASSUME NEW over, SendResponse(over) PROVE TalkStep
  BY <1>3 DEF SendResponse, TalkStep, ExchangeOK
<1>4. ASSUME ParseHandshakeInit PROVE TalkStep
  <2>1. CASE UNCHANGED <<link, queues, ticks, talk, redirect>>
    BY <2>1 DEF TalkStep, talk
  <2>2. CASE PluginThrows
    BY <2>2 DEF TalkStep
  <2> QED
    BY <1>3, <1>4, <2>1, <2>2 DEF ParseHandshakeInit
<1>5. ASSUME NEW right \in BOOLEAN, AuthOk(right) PROVE TalkStep
  <2>1. CASE /\ exchange' = [Idle EXCEPT !.proven = right] /\ UNCHANGED <<link, queues, ticks, clearOn>>
    BY <1>2, <2>1 DEF TalkStep
  <2>2. CASE CommandThrows(Tail(wire))
    BY <2>2 DEF TalkStep
  <2>3. CASE SuccessEnd(right) /\ UNCHANGED <<link, redirect>>
    BY <2>3 DEF TalkStep
  <2>4. CASE UNCHANGED <<link, queues, ticks, talk, redirect>>
    BY <2>4 DEF TalkStep, talk
  <2> QED
    BY <1>5, <2>1, <2>2, <2>3, <2>4 DEF AuthOk
<1>6. ASSUME NEW p, AuthSwitch(p) PROVE TalkStep
  <2>1. CASE CommandThrows(wire)
    BY <2>1 DEF TalkStep
  <2>2. CASE AuthFailHandler /\ exchange' = Idle /\ UNCHANGED <<ticks, clearOn, redirect>>
    BY <2>2 DEF TalkStep
  <2>3. CASE Speak(Start(p, config), p, p)
    BY <2>3, SpeakTalks
  <2> QED
    BY <1>6, <2>1, <2>2, <2>3 DEF AuthSwitch
<1>7. ASSUME NEW packet, PluginResponse(packet) PROVE TalkStep
  BY <1>7, SpeakTalks DEF PluginResponse
<1>8. ASSUME NEW packet, RequestForSalt(packet) PROVE TalkStep
  <2>1. CASE PluginThrows
    BY <2>1 DEF TalkStep
  <2> QED
    BY <1>8, <2>1, SpeakTalks DEF RequestForSalt
<1>9. ASSUME AuthError PROVE TalkStep
  BY <1>9 DEF TalkStep
<1> QED
  BY <1>1, <1>4, <1>5, <1>6, <1>7, <1>8, <1>9

\* TLS is negotiated.
LEMMA SecuredTalks ==
  ASSUME ExchangeOK, SecureConnected
  PROVE  /\ ticks = <<>> /\ channel = "starting" /\ socket = "open" /\ UNCHANGED <<setting, call>>
         /\ \/ AuthFailHandler /\ UNCHANGED <<exchange, ticks>>
            \/ PluginThrows
            \/ exchange'.who = exchange.who /\ UNCHANGED <<link, queues, ticks>>
<1>1. ASSUME NEW over, SendResponse(over) PROVE exchange'.who = exchange.who /\ UNCHANGED <<link, queues, ticks>>
  BY <1>1 DEF SendResponse, ExchangeOK
<1> QED
  BY <1>1 DEF SecureConnected, LoopDrained, talk

\* What no step changes: who may call, and that a connection is handed out once for all.
Framed ==
  /\ DOMAIN call' = DOMAIN call /\ (socket' = "opening" => socket = "opening")
  /\ connect' \in {"pending", "resolved", "rejected"} /\ (connect = "resolved" /\ ~rejectFct => connect' = "resolved")

\* It holds of what a packet makes an exchange do.
LEMMA SendsFrames ==
  ASSUME ExchangeOK, connect \in {"pending", "resolved", "rejected"}, UNCHANGED call, TalkStep PROVE Framed
<1>1. CASE UNCHANGED <<link, call>>
  BY <1>1 DEF link, Framed
<1>2. CASE AuthFailHandler
  BY <1>2 DEF AuthFailHandler, FatalError, Framed
<1> QED
  BY <1>1, <1>2 DEF TalkStep, PluginThrows, AuthError, CommandThrows

\* It holds of the session queries and of what ends them.
LEMMA SessionFrames ==
  ASSUME connect \in {"pending", "resolved", "rejected"}, UNCHANGED call, NEW rest, NEW how, NEW more,
         NextSessionQuery(rest, how, more) \/ End(more) \/ AuthFailHandler
  PROVE  Framed
<1>1. CASE AuthFailHandler
  BY <1>1 DEF AuthFailHandler, FatalError, Framed
<1>2. CASE End(more)
  BY <1>2 DEF End, Framed
<1>3. ASSUME NEW commands, Ready(commands, how, more) PROVE Framed
  BY <1>3 DEF Ready, Framed
<1>4. CASE NextSessionQuery(rest, how, more)
  BY <1>2, <1>3, <1>4 DEF NextSessionQuery, ExecuteSessionTimeout, Framed
<1> QED
  BY <1>1, <1>2, <1>4

\* It holds of what the client asks for, and of the answers to it.
LEMMA ClientFrames ==
  ASSUME connect \in {"pending", "resolved", "rejected"},
         \/ \E q \in Queries : Query(q)
         \/ \E u \in Users, wrong \in BOOLEAN : ChangeUser(u, wrong)
         \/ \E c \in Queries \cup {"names", "timeout"}, ok \in BOOLEAN : Answered(c, ok)
         \/ \E c \in Commands : ThrowError(c)
         \/ \E u, more : \E names \in BOOLEAN : UserChanged(u, names, more)
  PROVE  Framed
<1>1. CASE \E q \in Queries : Query(q)
  BY <1>1 DEF Query, Framed, link
<1>2. CASE \E u \in Users, wrong \in BOOLEAN : ChangeUser(u, wrong)
  BY <1>2 DEF ChangeUser, Framed
<1>3. CASE \E c \in Queries \cup {"names", "timeout"}, ok \in BOOLEAN : Answered(c, ok)
  BY <1>3 DEF Answered, Framed, link
<1>4. CASE \E c \in Commands : ThrowError(c)
  BY <1>4 DEF ThrowError, Framed, link
<1>5. CASE \E u, more : \E names \in BOOLEAN : UserChanged(u, names, more)
  BY <1>5 DEF UserChanged, Framed
<1> QED
  BY <1>1, <1>2, <1>3, <1>4, <1>5

\* It holds of what the sockets and the timers do.
LEMMA SocketFrames ==
  ASSUME connect \in {"pending", "resolved", "rejected"},
         \/ SocketConnects \/ StreamRefused \/ ConnectTimeoutReached \/ SocketErrorHandler \/ SocketTimeoutReached
         \/ RedirectFails \/ RedirectConnects \/ Misrouted
  PROVE  Framed
<1>1. ASSUME UNCHANGED call, AuthFailHandler PROVE Framed
  BY <1>1 DEF AuthFailHandler, FatalError, Framed
<1>2. ASSUME UNCHANGED <<call, connect>>, NEW commands, FatalError(commands) PROVE Framed
  BY <1>2 DEF FatalError, Framed
<1>3. CASE SocketConnects \/ StreamRefused \/ ConnectTimeoutReached
  BY <1>1, <1>3 DEF SocketConnects, StreamRefused, ConnectTimeoutReached, StillTalking, Framed
<1>4. CASE SocketErrorHandler \/ SocketTimeoutReached
  BY <1>1, <1>2, <1>4 DEF SocketErrorHandler, SocketTimeoutReached, StillTalking
<1>5. CASE RedirectFails \/ Misrouted
  BY <1>5 DEF RedirectFails, Misrouted, Framed, link
<1>6. CASE RedirectConnects
  BY <1>6 DEF RedirectConnects, Replaced, End, Framed
<1> QED
  BY <1>3, <1>4, <1>5, <1>6

\* Every step.
LEMMA Frames == ASSUME ExchangeOK, TurnInv, Next PROVE Framed
<1>0. connect \in {"pending", "resolved", "rejected"}
  BY DEF TurnInv
<1>1. CASE SecureConnected
  <2>1. UNCHANGED call /\ (AuthFailHandler \/ TalkStep)
    BY <1>1, SecuredTalks DEF TalkStep
  <2> QED
    BY <1>0, <2>1, SendsFrames, SessionFrames
<1>2. ASSUME NEW ok \in BOOLEAN, SessionAnswered(ok) PROVE Framed
  <2>1. UNCHANGED call /\ (AuthFailHandler \/ End(ticks) \/ \E rest : NextSessionQuery(rest, addCommand, ticks))
    BY <1>2 DEF SessionAnswered, SessionRefused
  <2> QED
    BY <1>0, <2>1, SessionFrames
<1>3. CASE ServerAnswers
  <2>1. CASE \E c \in Queries \cup {"names", "timeout"}, ok \in BOOLEAN : Answered(c, ok)
    BY <1>0, <2>1, ClientFrames
  <2>2. CASE \E ok \in BOOLEAN : SessionAnswered(ok)
    BY <1>2, <2>2
  <2>3. CASE \/ ParseHandshakeInit \/ AuthError
             \/ \E right \in BOOLEAN : AuthOk(right)
             \/ \E p \in Plugins \cup {"other"} : AuthSwitch(p)
             \/ \E packet \in Packets : PluginResponse(packet) \/ RequestForSalt(packet)
    <3>1. UNCHANGED call /\ TalkStep
      BY <2>3, Talking
    <3> QED
      BY <1>0, <3>1, SendsFrames
  <2> QED
    BY <1>1, <1>3, <2>1, <2>2, <2>3 DEF ServerAnswers
<1>4. CASE NextTick
  <2>1. CASE AuthSucceedHandler(Tail(ticks)) /\ UNCHANGED call
    <3>1. NextSessionQuery(session, Mode, Tail(ticks)) /\ UNCHANGED call
      BY <2>1 DEF AuthSucceedHandler
    <3> QED
      BY <1>0, <3>1, SessionFrames
  <2>2. CASE UNCHANGED <<link, call>>
    BY <1>0, <2>2 DEF link, Framed
  <2>3. CASE \E u, more : \E names \in BOOLEAN : UserChanged(u, names, more)
    BY <1>0, <2>3, ClientFrames
  <2>4. CASE (AuthFailHandler \/ End(Tail(ticks))) /\ UNCHANGED call
    BY <1>0, <2>4, SessionFrames
  <2>5. CASE QuitEnded(Tail(ticks)) /\ UNCHANGED call
    BY <1>0, <2>5 DEF QuitEnded, Replaced, Framed
  <2> QED
    BY <1>4, <2>1, <2>2, <2>3, <2>4, <2>5 DEF NextTick
<1> QED
  BY <1>0, <1>3, <1>4, ClientFrames, SocketFrames DEF Next

\* A step of a connection that has been handed out, that neither sends nor says anything.
LEMMA CalmCases ==
  ASSUME Handed, Turns, UNCHANGED <<config, exchange>>, ~rejectFct', call' = call,
         ticks' \in Seq(Ticks), Elements(ticks') \subseteq Elements(ticks) \cup {"fail", "end"},
         \/ UNCHANGED <<queues, status, addCommand>>
         \/ \E commands : FatalError(commands)
         \/ UNCHANGED <<onEnd, wire, receiveQueue, addCommand>> /\ addCommand = "disabled" /\ status' = status /\ sendQueue' = <<>>
         \/ UNCHANGED <<onEnd, wire, addCommand>> /\ addCommand = "disabled" /\ status' = "CLOSED" /\ sendQueue' = <<>> /\ receiveQueue' = <<>>
  PROVE  Handed' /\ Turns'
<1>1. Users \cap Elements(ticks') \subseteq Elements(ticks) /\ {"quit", "ended"} \cap Elements(ticks') \subseteq Elements(ticks)
  BY ConnectAssumption
<1>2. /\ \A u \in Users : call[u] = "waits" => call'[u] = "waits"
      /\ \A c \in Users \cup Queries : call'[c] = "none" => call[c] = "none"
  OBVIOUS
<1>3. <<>> \in Seq(Commands) /\ receiveQueue \in Seq(Commands)
  BY DEF Handed
<1>4. CASE UNCHANGED <<queues, status, addCommand>>
  BY <1>1, <1>2, <1>3, <1>4, CalmStep DEF queues
<1>5. ASSUME NEW commands, FatalError(commands) PROVE Handed' /\ Turns'
  <2>1. receiveQueue' = <<>> /\ UNCHANGED <<onEnd, wire>>
    BY <1>5 DEF FatalError
  <2>2. Terminating' /\ addCommand' = "disabled" /\ sendQueue' \in {sendQueue, <<>>, Append(sendQueue, "quit")}
    BY <1>5 DEF FatalError, Terminating, Handed
  <2> QED
    BY <1>1, <1>2, <1>3, <2>1, <2>2, CalmStep
<1>6. CASE UNCHANGED <<onEnd, wire, receiveQueue, addCommand>> /\ addCommand = "disabled" /\ status' = status /\ sendQueue' = <<>>
  <2>1. Terminating' /\ addCommand' = "disabled" /\ sendQueue' \in {sendQueue, <<>>, Append(sendQueue, "quit")}
    BY <1>6 DEF Terminating, Handed
  <2> QED
    BY <1>1, <1>2, <1>3, <1>6, <2>1, CalmStep
<1>7. CASE UNCHANGED <<onEnd, wire, addCommand>> /\ addCommand = "disabled" /\ status' = "CLOSED" /\ sendQueue' = <<>> /\ receiveQueue' = <<>>
  <2>1. Terminating' /\ addCommand' = "disabled" /\ sendQueue' \in {sendQueue, <<>>, Append(sendQueue, "quit")}
    BY <1>7 DEF Terminating
  <2> QED
    BY <1>1, <1>2, <1>3, <1>7, <2>1, CalmStep
<1> QED
  BY <1>4, <1>5, <1>6, <1>7

\* The callbacks of a connection that has been handed out.
LEMMA HandedTicks ==
  ASSUME PrepInv, TurnInv, connect = "resolved", NextTick PROVE Handed' /\ Turns'
<1> DEFINE tick == Head(ticks)
           more == Tail(ticks)
<1>1. /\ Handed /\ Turns /\ ~rejectFct /\ redirect # "asked" /\ tick # "auth" /\ tick \in Elements(ticks)
      /\ ticks # <<>> /\ ticks \in Seq(Ticks) /\ UNCHANGED setting /\ config' = config
      /\ DOMAIN call = Users \cup Queries
  BY HandedFacts DEF NextTick, TurnInv, setting
<1>2. more \in Seq(Ticks) /\ Elements(more) \subseteq Elements(ticks)
  BY <1>1, ElementsOf
<1>3. {"fail", "quit", "ended", "end", "auth"} \cap Users = {}
  BY ConnectAssumption
<1>9. ASSUME NEW e \in {"quit", "ended"}
      PROVE  Append(more, e) \in Seq(Ticks) /\ Elements(Append(more, e)) = Elements(more) \cup {e}
  <2>1. e \in Ticks
    BY NamesTyped
  <2>2. PICK m \in Seq(Ticks) : m = more
    BY <1>2, Zenon
  <2>3. Append(m, e) \in Seq(Ticks)
    BY <2>1
  <2>4. Elements(Append(m, e)) = Elements(m) \cup {e}
    BY <2>1, ElementsOf
  <2> QED
    BY <2>2, <2>3, <2>4, Zenon
<1>4. CASE tick = "fail"
  <2>1. AuthFailHandler /\ ticks' = more /\ UNCHANGED <<call, talk>>
    BY <1>3, <1>4 DEF NextTick
  <2>2. UNCHANGED <<queues, status, addCommand>> /\ ~rejectFct'
    BY <1>1, <2>1 DEF AuthFailHandler
  <2>3. ticks' \in Seq(Ticks) /\ Elements(ticks') \subseteq Elements(ticks) \cup {"fail", "end"} /\ UNCHANGED <<config, exchange>> /\ call' = call
    BY <1>1, <1>2, <2>1 DEF talk
  <2> QED
    BY <1>1, <2>2, <2>3, CalmCases
<1>5. CASE tick = "end"
  <2>1. End(more) /\ UNCHANGED <<call, talk>>
    BY <1>3, <1>5 DEF NextTick
  <2>2. /\ addCommand' = "disabled" /\ Terminating' /\ sendQueue' = Append(sendQueue, "quit") /\ receiveQueue' = Append(receiveQueue, "quit")
        /\ ticks' \in {more, Append(more, "quit")} /\ ~rejectFct' /\ UNCHANGED <<config, wire, onEnd, exchange>>
    BY <1>1, <2>1 DEF End, Terminating, talk
  <2>3. Append(more, "quit") \in Seq(Ticks) /\ Elements(Append(more, "quit")) = Elements(more) \cup {"quit"}
    BY <1>9
  <2>4. ticks' \in Seq(Ticks) /\ Elements(ticks') \subseteq Elements(more) \cup {"quit"}
    <3>1. CASE ticks' = more
      BY <1>2, <3>1
    <3>2. CASE ticks' = Append(more, "quit")
      BY <2>3, <3>2
    <3> QED
      BY <2>2, <3>1, <3>2, Zenon
  <2>5. Users \cap Elements(ticks') \subseteq Elements(ticks)
    BY <1>2, <1>3, <2>4
  <2>6. receiveQueue' \in Seq(Commands)
    <3>1. receiveQueue \in Seq(Commands) /\ "quit" \in Commands
      BY <1>1 DEF Handed, Commands
    <3> QED
      BY <2>2, <3>1
  <2>7. sendQueue' \in {sendQueue, <<>>, Append(sendQueue, "quit")}
    BY <2>2
  <2> QED
    BY <1>1, <2>1, <2>2, <2>4, <2>5, <2>6, <2>7, CalmStep
<1>6. CASE tick = "quit"
  <2>1. /\ sendQueue' = <<>> /\ ticks' = Append(more, "ended")
        /\ UNCHANGED <<link, receiveQueue, onEnd, wire, call, talk>>
    BY <1>3, <1>6 DEF NextTick
  <2>2. Terminating /\ addCommand = "disabled"
    BY <1>1, <1>6 DEF Handed
  <2>3. /\ Terminating' /\ addCommand' = "disabled" /\ sendQueue' \in {sendQueue, <<>>, Append(sendQueue, "quit")}
        /\ UNCHANGED <<config, wire, onEnd, exchange>> /\ ~rejectFct' /\ receiveQueue' \in Seq(Commands) /\ call' = call
    BY <1>1, <2>1, <2>2 DEF link, talk, Terminating, Handed
  <2>4. ticks' \in Seq(Ticks) /\ Elements(ticks') = Elements(more) \cup {"ended"}
    BY <1>9, <2>1
  <2>5. Users \cap Elements(ticks') \subseteq Elements(ticks)
    BY <1>2, <1>3, <2>4
  <2> QED
    BY <1>1, <2>3, <2>4, <2>5, CalmStep
<1>7. CASE tick = "ended"
  <2>1. QuitEnded(more) /\ UNCHANGED <<call, talk>>
    BY <1>3, <1>7 DEF NextTick
  <2>2. /\ status' = "CLOSED" /\ ticks' = more /\ sendQueue' = <<>> /\ receiveQueue' = <<>> /\ UNCHANGED <<onEnd, wire, addCommand>>
        /\ ~rejectFct'
    BY <1>1, <2>1 DEF QuitEnded
  <2>3. addCommand = "disabled"
    BY <1>1, <1>7 DEF Handed
  <2>4. ticks' \in Seq(Ticks) /\ Elements(ticks') \subseteq Elements(ticks) \cup {"fail", "end"} /\ UNCHANGED <<config, exchange>> /\ call' = call
    BY <1>1, <1>2, <2>1, <2>2 DEF talk
  <2> QED
    BY <1>1, <2>2, <2>3, <2>4, CalmCases
<1>8. CASE tick \in Users
  <2>1. PICK names \in BOOLEAN : UserChanged(tick, names, more)
    BY <1>3, <1>8 DEF NextTick
  <2> QED
    BY <1>1, <1>8, <2>1, UserChangedTurns
<1> QED
  BY <1>1, <1>4, <1>5, <1>6, <1>7, <1>8 DEF NextTick

\* The answers of the server to a connection that has been handed out.
LEMMA HandedAnswers ==
  ASSUME PrepInv, TurnInv, connect = "resolved", ServerAnswers PROVE Handed' /\ Turns'
<1>1. /\ Handed /\ Turns /\ ExchangeOK /\ channel # "starting" /\ wire # <<"session">> /\ DOMAIN call = Users \cup Queries
  BY HandedFacts DEF TurnInv, PrepInv, CloseInv, ConnectInv
<1>2. CASE SecureConnected \/ \E ok \in BOOLEAN : SessionAnswered(ok)
  BY <1>1, <1>2 DEF SecureConnected, SessionAnswered
<1>3. CASE \E c \in Queries \cup {"names", "timeout"}, ok \in BOOLEAN : Answered(c, ok)
  BY <1>1, <1>3, AnsweredTurns
<1>4. CASE \/ ParseHandshakeInit \/ AuthError
           \/ \E right \in BOOLEAN : AuthOk(right)
           \/ \E p \in Plugins \cup {"other"} : AuthSwitch(p)
           \/ \E packet \in Packets : PluginResponse(packet) \/ RequestForSalt(packet)
  <2>1. /\ ticks = <<>> /\ wire # <<>> /\ Head(wire) = exchange.who /\ exchange.reads # "none"
        /\ UNCHANGED <<setting, call>> /\ TalkStep
    BY <1>1, <1>4, Talking
  <2> QED
    BY <1>1, <2>1, ExchangeTurns DEF TalkStep
<1> QED
  BY <1>2, <1>3, <1>4 DEF ServerAnswers

\* The socket, the timers and the errors thrown later, for a connection that has been handed out.
LEMMA HandedSocket ==
  ASSUME PrepInv, TurnInv, connect = "resolved",
         \/ SocketConnects \/ StreamRefused \/ ConnectTimeoutReached \/ SocketErrorHandler \/ SocketTimeoutReached
         \/ \E c \in Commands : ThrowError(c)
         \/ RedirectFails \/ RedirectConnects \/ Misrouted
  PROVE  Handed' /\ Turns'
<1>1. /\ Handed /\ Turns /\ ~rejectFct /\ redirect # "asked" /\ socket # "opening" /\ DOMAIN call = Users \cup Queries
      /\ ticks \in Seq(Ticks) /\ Elements(ticks) \subseteq Elements(ticks) \cup {"fail", "end"}
  BY HandedFacts DEF TurnInv
<1>2. CASE SocketConnects \/ StreamRefused \/ RedirectFails \/ RedirectConnects
  BY <1>1, <1>2 DEF SocketConnects, StreamRefused, RedirectFails, RedirectConnects
<1>3. ASSUME AuthFailHandler, UNCHANGED ticks, StillTalking PROVE Handed' /\ Turns'
  <2>1. UNCHANGED <<queues, status, addCommand>> /\ ~rejectFct' /\ UNCHANGED <<config, exchange>> /\ call' = call /\ ticks' = ticks
    BY <1>1, <1>3 DEF AuthFailHandler, StillTalking, talk, setting
  <2> QED
    BY <1>1, <2>1, CalmCases
<1>4. ASSUME NEW commands, FatalError(commands), UNCHANGED <<rejectFct, ticks>>, StillTalking PROVE Handed' /\ Turns'
  <2>1. ~rejectFct' /\ UNCHANGED <<config, exchange>> /\ call' = call /\ ticks' = ticks
    BY <1>1, <1>4 DEF StillTalking, talk, setting
  <2>2. \E cs : FatalError(cs)
    BY <1>4, Zenon
  <2> QED
    BY <1>1, <2>1, <2>2, CalmCases
<1>5. CASE ConnectTimeoutReached
  BY <1>3, <1>5 DEF ConnectTimeoutReached
<1>6. CASE SocketErrorHandler
  BY <1>3, <1>4, <1>6 DEF SocketErrorHandler
<1>7. CASE SocketTimeoutReached
  BY <1>4, <1>7 DEF SocketTimeoutReached
<1>8. CASE Misrouted
  <2>1. /\ UNCHANGED <<queues, status, addCommand>> /\ ~rejectFct' /\ UNCHANGED <<config, exchange>> /\ call' = call /\ ticks' = ticks
    BY <1>1, <1>8 DEF Misrouted, talk, setting, link
  <2> QED
    BY <1>1, <2>1, CalmCases
<1>9. ASSUME NEW c \in Commands, ThrowError(c) PROVE Handed' /\ Turns'
  <2>1. /\ ticks' \in {<<"fail">>, <<>>} /\ UNCHANGED <<setting, link, sendQueue, receiveQueue, onEnd, wire, talk>>
        /\ call' = [d \in DOMAIN call |->
             IF c \in Queries \cap {d} \/ (c = "names" /\ call[d] = "names") THEN "rejected" ELSE call[d]]
    BY <1>9 DEF ThrowError
  <2>2. /\ UNCHANGED <<config, exchange, status, addCommand, sendQueue, receiveQueue, onEnd, wire>> /\ ~rejectFct'
        /\ receiveQueue' \in Seq(Commands)
    BY <1>1, <2>1 DEF setting, link, talk, Handed
  <2>3. ticks' \in Seq(Ticks) /\ Elements(ticks') \subseteq {"fail"}
    <3>1. /\ <<"fail">> \in Seq(Ticks) /\ <<>> \in Seq(Ticks) /\ Elements(<<"fail">>) = {"fail"} /\ Elements(<<>>) = {}
      BY NamesTyped DEF Elements
    <3>2. CASE ticks' = <<"fail">>
      <4>1. ticks' \in Seq(Ticks) /\ Elements(ticks') = {"fail"}
        BY <3>1, <3>2, Zenon
      <4> QED
        BY <4>1
    <3>3. CASE ticks' = <<>>
      <4>1. ticks' \in Seq(Ticks) /\ Elements(ticks') = {}
        BY <3>1, <3>3, Zenon
      <4> QED
        BY <4>1
    <3> QED
      BY <2>1, <3>2, <3>3, Zenon
  <2>4. Users \cap Elements(ticks') \subseteq Elements(ticks) /\ {"quit", "ended"} \cap Elements(ticks') \subseteq Elements(ticks)
    BY <2>3, ConnectAssumption
  <2>5. /\ \A u \in Users : call[u] = "waits" => call'[u] = "waits"
        /\ \A d \in Users \cup Queries : call'[d] = "none" => call[d] = "none"
    <3>1. Users \cap Queries = {}
      BY ConnectAssumption
    <3> QED
      BY <1>1, <2>1, <3>1
  <2> QED
    BY <1>1, <2>2, <2>3, <2>4, <2>5, CalmStep
<1> QED
  BY <1>2, <1>5, <1>6, <1>7, <1>8, <1>9

\* Every step of a connection that has been handed out.
LEMMA HandedStep ==
  ASSUME PrepInv, TurnInv, connect = "resolved", Next, OneAtATime PROVE TurnInv'
<1>1. /\ Handed /\ Turns /\ ExchangeOK /\ ~rejectFct /\ socket # "opening" /\ DOMAIN call = Users \cup Queries
  BY HandedFacts DEF TurnInv, PrepInv, CloseInv, ConnectInv
<1>2. Framed
  BY <1>1, Frames
<1>3. Handed' /\ Turns'
  <2>1. CASE \E q \in Queries : Query(q)
    BY <1>1, <2>1, QueryTurns
  <2>2. CASE \E u \in Users, wrong \in BOOLEAN : ChangeUser(u, wrong)
    BY <1>1, <2>2, ChangeUserTurns
  <2> QED
    BY <2>1, <2>2, HandedTicks, HandedAnswers, HandedSocket DEF Next
<1>4. connect' = "resolved" /\ DOMAIN call' = Users \cup Queries /\ socket' # "opening"
  BY <1>1, <1>2 DEF Framed
<1> QED
  BY <1>3, <1>4 DEF TurnInv

\* The callbacks that may come before connect() resolves.
LEMMA TickNames ==
  /\ <<>> \in Seq(Callbacks) /\ <<"fail">> \in Seq(Callbacks) /\ <<"auth">> \in Seq(Callbacks) /\ <<"end">> \in Seq(Callbacks)
  /\ <<"quit">> \in Seq(Callbacks) /\ <<"ended">> \in Seq(Callbacks) /\ Callbacks \cap Users = {}
  /\ <<>> \notin {<<"quit">>, <<"ended">>} /\ <<"fail">> \notin {<<"quit">>, <<"ended">>} /\ <<"auth">> \notin {<<"quit">>, <<"ended">>}
  /\ <<"auth">> # <<"session">> /\ <<>> # <<"session">> /\ <<"ended">> # <<"quit">>
  /\ "quit" \in Calls \ Users /\ <<>> \in Seq(Calls \ Users)
<1>1. /\ <<>> \in Seq(Callbacks) /\ <<"fail">> \in Seq(Callbacks) /\ <<"auth">> \in Seq(Callbacks) /\ <<"end">> \in Seq(Callbacks)
      /\ <<"quit">> \in Seq(Callbacks) /\ <<"ended">> \in Seq(Callbacks) /\ Callbacks \cap Users = {}
  BY ConnectAssumption DEF Callbacks
<1>2. /\ "fail" # "quit" /\ "fail" # "ended" /\ "auth" # "quit" /\ "auth" # "ended" /\ "auth" # "session" /\ "ended" # "quit"
  OBVIOUS
<1>3. /\ <<>> \notin {<<"quit">>, <<"ended">>} /\ <<"fail">> \notin {<<"quit">>, <<"ended">>} /\ <<"auth">> \notin {<<"quit">>, <<"ended">>}
      /\ <<"auth">> # <<"session">> /\ <<>> # <<"session">> /\ <<"ended">> # <<"quit">>
  BY <1>2, OtherQueues, Zenon
<1>4. "quit" \in Calls \ Users /\ <<>> \in Seq(Calls \ Users)
  BY NamesTyped, ConnectAssumption
<1> QED
  BY <1>1, <1>3, <1>4

\* What has to be shown of a step that does not resolve connect().
LEMMA ApproachKept ==
  ASSUME PrepInv, TurnInv, connect # "resolved", connect' \in {connect, "rejected"}, Framed,
         exchange'.who = "auth", sendQueue' \in Seq(Calls \ Users), ticks' \in Seq(Callbacks),
         socket' = "opening" => exchange'.reads = exchange.reads,
         connect' = "rejected" /\ exchange'.reads # "none" => exchange.reads # "none" /\ wire' = wire,
         connect' = "pending" => Awaited'
  PROVE  TurnInv'
<1>1. connect' # "resolved" /\ connect' \in {"pending", "resolved", "rejected"} /\ DOMAIN call' = Users \cup Queries
  BY DEF Framed, TurnInv
<1>2. socket' = "opening" => exchange'.reads = "greeting"
  BY DEF Framed, TurnInv
<1>3. connect' = "rejected" /\ exchange'.reads # "none" => wire' \in {<<>>, <<"auth">>}
  BY OpeningFacts DEF Approaching, TurnInv
<1>4. Approaching'
  BY <1>3 DEF Approaching
<1> QED
  BY <1>1, <1>2, <1>4 DEF TurnInv

\* What waits to be sent before connect() resolves is a goodbye.
LEMMA NothingWaits ==
  ASSUME TurnInv, connect = "pending", ticks # <<"quit">> PROVE sendQueue = <<>>
BY DEF TurnInv, Approaching, Awaited

\* An authentication that fails.
LEMMA FailKept ==
  ASSUME PrepInv, TurnInv, connect # "resolved", Framed, AuthFailHandler, UNCHANGED <<config, redirect>>,
         exchange' = exchange \/ (socket = "open" /\ exchange'.reads = "none" /\ exchange'.who = exchange.who),
         ticks' = ticks \/ (ticks # <<>> /\ Head(ticks) = "fail" /\ ticks' = Tail(ticks))
  PROVE  TurnInv'
<1>1. /\ Approaching /\ sendQueue \in Seq(Calls \ Users) /\ ticks \in Seq(Callbacks) /\ exchange.who = "auth"
      /\ connect = "pending" => Awaited
  BY OpeningFacts DEF Approaching
<1>2. /\ connect' \in {connect, "rejected"} /\ sendQueue' \in {sendQueue, <<>>} /\ wire' = wire
      /\ connect' = "pending" => UNCHANGED <<queues, socket, addCommand, connect>>
      /\ socket' # "open" => socket # "open" \/ socket' = "closed"
  BY DEF AuthFailHandler, FatalError, queues
<1>3. sendQueue' \in Seq(Calls \ Users)
  BY <1>1, <1>2, TickNames
<1>4. ticks' \in Seq(Callbacks)
  <2>1. ticks # <<>> => Tail(ticks) \in Seq(Callbacks)
    BY <1>1
  <2> QED
    BY <1>1, <2>1, Zenon
<1>5. ASSUME connect' = "pending" PROVE Awaited'
  <2>1. Awaited /\ UNCHANGED <<sendQueue, onEnd, wire, socket, addCommand>> /\ connect = "pending" /\ Mode' = Mode
    BY <1>1, <1>2, <1>5 DEF queues, Mode
  <2>2. CASE ticks' = ticks
    BY <2>1, <2>2 DEF Awaited
  <2>3. CASE ticks # <<>> /\ Head(ticks) = "fail" /\ ticks' = Tail(ticks)
    <3>1. "auth" # "fail" /\ "quit" # "fail" /\ "ended" # "fail"
      OBVIOUS
    <3>2. ticks = <<"fail">> /\ ticks' = <<>>
      BY <2>1, <2>3, <3>1, ShortQueues, Zenon DEF Awaited
    <3>3. ticks \notin {<<"quit">>, <<"ended">>}
      BY <3>2, TickNames, Zenon
    <3>4. sendQueue' = <<>> /\ ticks' = <<>>
      BY <2>1, <3>2, <3>3, NothingWaits
    <3> QED
      BY <2>1, <3>3, <3>4 DEF Awaited
  <2> QED
    BY <2>2, <2>3
<1>6. socket' = "opening" => exchange' = exchange
  BY DEF Framed
<1>7. exchange'.who = "auth" /\ (exchange'.reads # "none" => exchange' = exchange)
  BY <1>1
<1> QED
  BY <1>2, <1>3, <1>4, <1>5, <1>6, <1>7, ApproachKept

\* end().
LEMMA EndKept ==
  ASSUME PrepInv, TurnInv, connect # "resolved", Framed, NEW more \in Seq(Callbacks), End(more),
         UNCHANGED <<config, redirect, exchange>>, connect = "pending" => more = <<>> /\ sendQueue = <<>>
  PROVE  TurnInv'
<1>1. /\ Approaching /\ sendQueue \in Seq(Calls \ Users) /\ exchange.who = "auth"
      /\ connect = "pending" => Awaited
  BY OpeningFacts DEF Approaching
<1>2. /\ sendQueue' = Append(sendQueue, "quit") /\ ticks' \in {more, Append(more, "quit")}
      /\ UNCHANGED <<connect, wire, onEnd>> /\ (sendQueue = <<>> => ticks' = Append(more, "quit"))
  BY DEF End
<1>3. Append(sendQueue, "quit") \in Seq(Calls \ Users)
  BY <1>1, TickNames
<1>4. Append(more, "quit") \in Seq(Callbacks)
  BY DEF Callbacks
<1>5. ticks' \in Seq(Callbacks)
  BY <1>2, <1>4, Zenon
<1>6. ASSUME connect' = "pending" PROVE Awaited'
  <2>1. ticks' = <<"quit">> /\ Awaited
    <3>1. more = <<>> /\ sendQueue = <<>> /\ Awaited
      BY <1>1, <1>2, <1>6
    <3>2. ticks' = Append(<<>>, "quit")
      BY <1>2, <3>1
    <3> QED
      BY <3>1, <3>2
  <2> QED
    BY <1>2, <2>1 DEF Awaited
<1> QED
  BY <1>1, <1>2, <1>3, <1>5, <1>6, ApproachKept

\* The session queries go on, or connect() resolves.
LEMMA SessionTurns ==
  ASSUME PrepInv, TurnInv, connect # "resolved", Framed, NEW rest, NEW how, NEW more \in Seq(Callbacks),
         NextSessionQuery(rest, how, more), UNCHANGED <<config, redirect, exchange>>, exchange.reads = "none",
         connect = "pending" => more = <<>> /\ sendQueue = <<>> /\ how = Mode
  PROVE  TurnInv'
<1>1. /\ Approaching /\ sendQueue \in Seq(Calls \ Users) /\ exchange.who = "auth"
      /\ connect = "pending" => Awaited
  BY OpeningFacts DEF Approaching
<1>2. CASE End(more)
  BY <1>2, EndKept
<1>3. CASE Issue(<<"session">>, how) /\ addCommand' = how /\ ticks' = more /\ UNCHANGED <<socket, connect>>
  <2>1. /\ sendQueue' = sendQueue /\ wire' = <<"session">>
        /\ onEnd' = IF how = "enable" THEN onEnd \cup Elements(<<"session">>) ELSE onEnd
    BY <1>3 DEF Issue
  <2>2. Elements(<<"session">>) = {"session"}
    BY DEF Elements
  <2>3. ASSUME connect' = "pending" PROVE Awaited'
    <3>1. Awaited /\ ticks' = <<>> /\ sendQueue' = <<>> /\ how = Mode /\ Mode' = Mode
      BY <1>1, <1>3, <2>1, <2>3 DEF Mode
    <3>2. onEnd' \subseteq {"session", "timeout"} /\ (config'.pipelining => onEnd' = {})
      BY <2>1, <2>2, <3>1 DEF Awaited, Mode
    <3> QED
      BY <1>3, <3>1, <3>2 DEF Awaited
  <2> QED
    BY <1>1, <1>3, <2>1, <2>3, ApproachKept
<1>4. ASSUME NEW commands \in {<<>>, <<"timeout">>}, Ready(commands, how, more) PROVE TurnInv'
  <2>1. /\ sendQueue' = sendQueue /\ receiveQueue' = commands /\ wire' = commands
        /\ onEnd' = IF how = "enable" THEN onEnd \cup Elements(commands) ELSE onEnd
        /\ ticks' = more /\ status' = "CONNECTED" /\ addCommand' = how /\ rejectFct' = FALSE /\ UNCHANGED socket
        /\ connect' = (IF connect = "pending" THEN "resolved" ELSE connect)
    BY <1>4 DEF Ready, Issue
  <2>2. CASE connect = "rejected"
    <3>1. connect' = "rejected"
      BY <2>1, <2>2
    <3> QED
      BY <1>1, <2>1, <3>1, <2>2, ApproachKept
  <2>3. CASE connect = "pending"
    <3>1. /\ Awaited /\ ticks' = <<>> /\ sendQueue' = <<>> /\ connect' = "resolved" /\ Mode' = Mode
          /\ addCommand' = Mode /\ onEnd' = (IF Mode = "enable" THEN onEnd \cup Elements(commands) ELSE onEnd)
      BY <1>1, <2>1, <2>3 DEF Mode
    <3>2. /\ <<"timeout">> \in Seq(Calls) /\ <<>> \in Seq(Calls) /\ <<>> \in Seq(Commands) /\ <<"timeout">> \in Seq(Commands)
          /\ <<>> \in Seq(Ticks) /\ Elements(<<>>) = {} /\ Elements(<<"timeout">>) = {"timeout"}
          /\ Len(<<>>) = 0 /\ Len(<<"timeout">>) = 1
      BY NamesTyped DEF Elements, Commands
    <3>3. /\ commands \in Seq(Calls) /\ commands \in Seq(Commands) /\ Elements(commands) \subseteq {"timeout"} /\ Len(commands) \in {0, 1}
      <4>1. CASE commands = <<>>
        BY <3>2, <4>1
      <4>2. CASE commands = <<"timeout">>
        <5>1. commands \in Seq(Calls) /\ commands \in Seq(Commands) /\ Elements(commands) = {"timeout"} /\ Len(commands) = 1
          BY <3>2, <4>2, Zenon
        <5> QED
          BY <5>1
      <4> QED
        BY <4>1, <4>2, Zenon
    <3>4. /\ Elements(wire)' = Elements(commands) /\ Elements(sendQueue)' = {} /\ Elements(ticks)' = {}
      BY <2>1, <3>1 DEF Elements
    <3>5. ("timeout" \notin Users \cup Queries) /\ ("session" \notin Users \cup Queries)
      BY ConnectAssumption
    <3>6. onEnd' \subseteq {"session", "timeout"} /\ (config'.pipelining => onEnd' = {})
          /\ (~config'.pipelining => Elements(commands) \subseteq onEnd')
      BY <3>1, <3>3 DEF Awaited, Mode
    <3>7. Unused' /\ Listening'
      BY <3>3, <3>4, <3>5, <3>6 DEF Unused, Listening
    <3>8. ~Terminating' /\ addCommand' # "disabled" /\ addCommand' \in {"disabled", "enable", Mode'}
      BY <2>1, <3>1 DEF Terminating, Mode
    <3>9. wire' \in Seq(Calls) /\ sendQueue' \in Seq(Calls) /\ receiveQueue' \in Seq(Commands) /\ ticks' \in Seq(Ticks) /\ ~rejectFct'
      BY <2>1, <3>1, <3>2, <3>3
    <3>10. Handed'
      BY <3>4, <3>7, <3>8, <3>9 DEF Handed
    <3>11. Len(wire') \in {0, 1} /\ Len(sendQueue') = 0 /\ Len(receiveQueue') = Len(wire')
      BY <2>1, <3>1, <3>2, <3>3
    <3>12. AtMostOne'
      <4>1. \A i, j \in 1..Len(wire') : i = j
        BY <3>11
      <4> QED
        BY <4>1 DEF AtMostOne
    <3>13. Level' /\ Nobody'
      BY <3>4, <3>11 DEF Level, Nobody, NoUser
    <3>14. Turns'
      BY <3>12, <3>13 DEF Turns
    <3>15. socket' = "opening" => exchange'.reads = "greeting"
      BY <2>1 DEF TurnInv
    <3> QED
      BY <3>1, <3>10, <3>14, <3>15 DEF Framed, TurnInv
  <2> QED
    BY <2>2, <2>3 DEF TurnInv
<1> QED
  BY <1>2, <1>3, <1>4 DEF NextSessionQuery, ExecuteSessionTimeout

\* A command of the exchange of connect() is over, with a callback.
LEMMA OverTurns ==
  ASSUME PrepInv, TurnInv, connect # "resolved", Framed, connect' = connect, UNCHANGED <<config, addCommand>>,
         ticks = <<>>, sendQueue = <<>>, NEW tick \in {"fail", "auth"},
         NEW answered, NEW talking, CommandOver(tick, answered, talking),
         talking.reads = "none", talking.who = "auth", connect = "pending" => answered \in {<<>>, <<"auth">>},
         socket # "opening"
  PROVE  TurnInv'
<1>1. sendQueue' = <<>> /\ wire' = answered \o <<>> /\ ticks' = <<tick>> /\ exchange' = talking /\ onEnd' = onEnd
  BY OverEmpty DEF CommandOver
<1>2. connect = "pending" => Awaited
  BY OpeningFacts
<1>3. ticks' \in {<<"fail">>, <<"auth">>}
  BY <1>1, Zenon
<1>4. ticks' \in Seq(Callbacks) /\ ticks' \notin {<<"quit">>, <<"ended">>}
  BY <1>3, TickNames, Zenon
<1>5. ASSUME connect' = "pending" PROVE Awaited'
  <2>1. wire' \in {<<>>, <<"auth">>}
    <3>1. answered \in {<<>>, <<"auth">>} /\ <<>> \o <<>> = <<>> /\ <<"auth">> \o <<>> = <<"auth">>
      BY <1>5
    <3> QED
      BY <1>1, <3>1, Zenon
  <2>2. wire' # <<"session">>
    BY <2>1, TickNames, Zenon
  <2> QED
    BY <1>1, <1>2, <1>3, <1>5, <2>2 DEF Awaited
<1>6. sendQueue' \in Seq(Calls \ Users)
  BY <1>1, TickNames
<1>7. exchange'.who = "auth" /\ exchange'.reads = "none" /\ socket' # "opening"
  BY <1>1 DEF Framed
<1> QED
  BY <1>4, <1>5, <1>6, <1>7, ApproachKept

\* The exchange of connect().
LEMMA OpeningTalks ==
  ASSUME PrepInv, TurnInv, connect # "resolved", Framed,
         \/ ParseHandshakeInit \/ AuthError
         \/ \E right \in BOOLEAN : AuthOk(right)
         \/ \E p \in Plugins \cup {"other"} : AuthSwitch(p)
         \/ \E packet \in Packets : PluginResponse(packet) \/ RequestForSalt(packet)
  PROVE  TurnInv'
<1>1. /\ ticks = <<>> /\ wire # <<>> /\ Head(wire) = exchange.who /\ exchange.reads # "none" /\ socket = "open"
      /\ redirect # "done" /\ UNCHANGED <<setting, call>> /\ TalkStep
  BY Talking DEF PrepInv, CloseInv, ConnectInv
<1>2. Approaching /\ exchange.who = "auth" /\ sendQueue \in Seq(Calls \ Users) /\ ExchangeOK /\ config' = config
  BY <1>1, OpeningFacts DEF Approaching, PrepInv, CloseInv, ConnectInv, setting
<1>3. redirect = "no"
  BY <1>1, <1>2 DEF PrepInv, CloseInv, Redirected, Over
<1>4. connect = "pending" /\ rejectFct
  BY <1>1, <1>3 DEF PrepInv, CloseInv, Closing, Direct, Shut
<1>5. /\ Awaited /\ wire = <<"auth">> /\ sendQueue = <<>> /\ Tail(wire) = <<>>
  <2>1. Awaited /\ wire = <<"auth">>
    BY <1>1, <1>4, OpeningFacts
  <2>2. ticks # <<"quit">>
    BY <1>1, TickNames, Zenon
  <2> QED
    BY <1>4, <2>1, <2>2, NothingWaits, ShortQueues, Zenon
<1>6. socket' # "opening"
  BY <1>1 DEF Framed
<1>7. Idle.reads = "none" /\ Idle.who = "auth"
      /\ \A b : [Idle EXCEPT !.proven = b].reads = "none" /\ [Idle EXCEPT !.proven = b].who = "auth"
  BY <1>2 DEF Idle, ExchangeOK
<1>8. /\ <<"fail">> \in Seq(Callbacks) /\ <<"fail">> \notin {<<"quit">>, <<"ended">>} /\ <<>> \in Seq(Callbacks)
      /\ <<"auth">> # <<"session">> /\ <<>> # <<"session">> /\ Append(<<>>, "fail") = <<"fail">>
  BY TickNames
<1>9. CASE exchange'.who = exchange.who /\ UNCHANGED <<link, queues, ticks>>
  <2>1. UNCHANGED <<connect, sendQueue, ticks, wire, onEnd>> /\ exchange'.who = "auth"
    BY <1>2, <1>9 DEF link, queues
  <2>2. Awaited'
    BY <1>2, <1>5, <1>8, <2>1 DEF Awaited
  <2> QED
    BY <1>1, <1>2, <1>4, <1>6, <1>8, <2>1, <2>2, ApproachKept
<1>10. CASE PluginThrows \/ AuthError
  <2>1. /\ exchange' = Idle /\ ticks' = Append(<<>>, "fail") /\ UNCHANGED <<link, sendQueue, onEnd>> /\ wire' \in {wire, Tail(wire)}
    BY <1>1, <1>10 DEF PluginThrows, AuthError, queues
  <2>2. ticks' = <<"fail">> /\ UNCHANGED connect /\ sendQueue' = <<>> /\ wire' # <<"session">>
    BY <1>5, <1>8, <2>1 DEF link
  <2>3. Awaited'
    BY <1>2, <1>5, <2>1, <2>2 DEF Awaited
  <2>4. ticks' \in Seq(Callbacks)
    BY <1>8, <2>2
  <2> QED
    BY <1>2, <1>4, <1>6, <1>7, <2>1, <2>2, <2>3, <2>4, ApproachKept
<1>11. ASSUME NEW answered \in {wire, Tail(wire)}, CommandThrows(answered) PROVE TurnInv'
  <2>1. CommandOver("fail", answered, Idle) /\ UNCHANGED link
    BY <1>11 DEF CommandThrows
  <2>2. connect' = connect /\ UNCHANGED <<config, addCommand>>
    BY <1>2, <2>1 DEF link
  <2>3. answered \in {<<>>, <<"auth">>}
    BY <1>5
  <2> QED
    BY <1>1, <1>5, <1>7, <2>1, <2>2, <2>3, OverTurns
<1>12. ASSUME NEW right \in BOOLEAN, SuccessEnd(right), UNCHANGED link PROVE TurnInv'
  <2> DEFINE talking == [Idle EXCEPT !.proven = right]
  <2>1. CommandOver("auth", Tail(wire), talking)
    BY <1>2, <1>12 DEF SuccessEnd
  <2>2. connect' = connect /\ UNCHANGED <<config, addCommand>>
    BY <1>2, <1>12 DEF link
  <2>3. Tail(wire) \in {<<>>, <<"auth">>} /\ talking.reads = "none" /\ talking.who = "auth"
    BY <1>5, <1>7
  <2> HIDE DEF talking
  <2> QED
    BY <1>1, <1>5, <2>1, <2>2, <2>3, OverTurns
<1>13. CASE AuthFailHandler /\ exchange' = Idle /\ UNCHANGED ticks
  <2>1. connect' = "rejected" /\ sendQueue' = <<>>
    BY <1>4, <1>5, <1>13 DEF AuthFailHandler, FatalError
  <2>2. sendQueue' \in Seq(Calls \ Users) /\ ticks' \in Seq(Callbacks)
    BY <1>1, <1>13, <2>1, TickNames
  <2> QED
    BY <1>6, <1>7, <1>13, <2>1, <2>2, ApproachKept
<1> QED
  BY <1>1, <1>9, <1>10, <1>11, <1>12, <1>13 DEF TalkStep

\* TLS.
LEMMA OpeningSecured ==
  ASSUME PrepInv, TurnInv, connect # "resolved", Framed, SecureConnected PROVE TurnInv'
<1>1. /\ ticks = <<>> /\ channel = "starting" /\ socket = "open" /\ UNCHANGED <<setting, call>>
      /\ \/ AuthFailHandler /\ UNCHANGED <<exchange, ticks>>
         \/ PluginThrows
         \/ exchange'.who = exchange.who /\ UNCHANGED <<link, queues, ticks>>
  BY SecuredTalks DEF PrepInv, CloseInv, ConnectInv
<1>2. Approaching /\ exchange.who = "auth" /\ sendQueue \in Seq(Calls \ Users) /\ ExchangeOK /\ config' = config
  BY <1>1, OpeningFacts DEF Approaching, PrepInv, CloseInv, ConnectInv, setting
<1>3. redirect = "no"
  BY <1>1 DEF PrepInv, CloseInv, Redirected, Over
<1>4. connect = "pending"
  BY <1>1, <1>3 DEF PrepInv, CloseInv, Closing, Direct, Shut
<1>5. Awaited /\ sendQueue = <<>> /\ wire # <<"session">>
  <2>1. Awaited /\ Live
    BY <1>3, <1>4, OpeningFacts
  <2>2. Before
    BY <1>1, <1>4, <2>1, ExchangeFacts
  <2>3. ticks # <<"quit">>
    BY <1>1, TickNames, Zenon
  <2> QED
    BY <1>4, <2>1, <2>2, <2>3, NothingWaits DEF Before
<1>6. socket' # "opening"
  BY <1>1 DEF Framed
<1>7. CASE AuthFailHandler /\ UNCHANGED <<exchange, ticks>>
  <2>1. redirect' = redirect
    BY <1>1 DEF SecureConnected, PluginThrows, SendResponse
  <2> QED
    BY <1>2, <1>7, <2>1, FailKept
<1>8. CASE PluginThrows \/ (exchange'.who = exchange.who /\ UNCHANGED <<link, queues, ticks>>)
  <2>1. Idle.who = exchange.who
    BY <1>2 DEF Idle, ExchangeOK
  <2>2. /\ UNCHANGED <<connect, wire, sendQueue, onEnd>> /\ exchange'.who = "auth" /\ ticks' \in {<<>>, Append(<<>>, "fail")}
    BY <1>1, <1>2, <1>8, <2>1 DEF PluginThrows, link, queues
  <2>3. Append(<<>>, "fail") = <<"fail">>
    OBVIOUS
  <2>4. ticks' \in {<<>>, <<"fail">>} /\ ticks' \in Seq(Callbacks)
    BY <2>2, <2>3, TickNames, Zenon
  <2>5. Awaited'
    BY <1>2, <1>5, <2>2, <2>4 DEF Awaited
  <2> QED
    BY <1>2, <1>4, <1>6, <2>2, <2>4, <2>5, ApproachKept
<1> QED
  BY <1>1, <1>7, <1>8

\* The answer to a session query.
LEMMA OpeningSession ==
  ASSUME PrepInv, TurnInv, connect # "resolved", Framed, NEW ok \in BOOLEAN, SessionAnswered(ok) PROVE TurnInv'
<1>1. /\ ticks = <<>> /\ socket = "open" /\ redirect # "done" /\ wire = <<"session">> /\ UNCHANGED <<setting, redirect>>
      /\ exchange' = exchange /\ config' = config
      /\ \/ AuthFailHandler /\ UNCHANGED ticks
         \/ End(ticks)
         \/ \E rest : NextSessionQuery(rest, addCommand, ticks)
  BY DEF SessionAnswered, SessionRefused, LoopDrained, talk, setting
<1>2. Approaching /\ exchange.who = "auth" /\ ticks \in Seq(Callbacks)
  BY OpeningFacts DEF Approaching
<1>3. wire \notin {<<>>, <<"auth">>} /\ ticks \notin {<<"quit">>, <<"ended">>}
  BY <1>1, TickNames, Zenon
<1>4. exchange.reads = "none"
  BY <1>2, <1>3, OpeningFacts DEF Approaching, TurnInv
<1>5. connect = "pending" => ticks = <<>> /\ sendQueue = <<>> /\ addCommand = Mode
  BY <1>1, <1>3, OpeningFacts, NothingWaits DEF Awaited
<1>6. CASE AuthFailHandler /\ UNCHANGED ticks
  BY <1>1, <1>6, FailKept
<1>7. CASE End(ticks)
  BY <1>1, <1>2, <1>5, <1>7, EndKept
<1>8. ASSUME NEW rest, NextSessionQuery(rest, addCommand, ticks) PROVE TurnInv'
  BY <1>1, <1>2, <1>4, <1>5, <1>8, SessionTurns
<1> QED
  BY <1>1, <1>6, <1>7, <1>8

\* An answer that nobody awaits before connect() resolves.
LEMMA OpeningAnswered ==
  ASSUME PrepInv, TurnInv, connect # "resolved", Framed, NEW c \in Queries \cup {"names", "timeout"}, NEW ok \in BOOLEAN,
         Answered(c, ok)
  PROVE  TurnInv'
<1> DEFINE more == IF c = "names" /\ ~ok THEN <<"end">> ELSE <<>>
           started == IF c \in onEnd THEN StartedFrom(sendQueue, onEnd) ELSE <<>>
<1>1. /\ wire # <<>> /\ c = Head(wire) /\ redirect # "done" /\ UNCHANGED link
      /\ Written(started, Tail(wire), exchange, more) /\ sendQueue' = SubSeq(sendQueue, Len(started) + 1, Len(sendQueue))
  BY DEF Answered, SendNext
<1>2. Approaching /\ exchange.who = "auth" /\ sendQueue \in Seq(Calls \ Users)
  BY OpeningFacts DEF Approaching
<1>3. c # "auth" /\ c # "session"
  BY ConnectAssumption
<1>4. wire \notin {<<"auth">>, <<"session">>, <<>>}
  BY <1>1, <1>3, ShortQueues, Zenon
<1>5. connect # "pending"
  <2>1. connect = "pending" => Waiting
    BY <1>1, OpeningFacts, LiveFacts
  <2> QED
    BY <1>4, <2>1 DEF Waiting
<1>6. exchange.reads = "none" /\ connect' = connect
  BY <1>1, <1>2, <1>4, <1>5, OpeningFacts DEF Approaching, TurnInv, link
<1>7. started \in Seq(Calls \ Users) /\ sendQueue' \in Seq(Calls \ Users)
  <2>1. CASE c \in onEnd
    BY <1>1, <1>2, <2>1, StartedTyped
  <2>2. CASE c \notin onEnd
    BY <1>1, <1>2, <2>2, TickNames
  <2> QED
    BY <2>1, <2>2
<1>8. more \in Seq(Callbacks)
  BY TickNames
<1> HIDE DEF more, started
<1>9. NoUser(started)
  <2>1. Elements(started) \subseteq Calls \ Users
    BY <1>7, ElementsOf
  <2> QED
    BY <2>1 DEF NoUser
<1>10. exchange' = exchange
  BY <1>1, <1>9 DEF Written, NoUser
<1>11. ticks' \in Seq(Callbacks)
  <2>1. ticks' \in {more \o <<"ended">>, more \o <<>>}
    BY <1>1 DEF Written
  <2>2. more \o <<"ended">> \in Seq(Callbacks) /\ more \o <<>> \in Seq(Callbacks)
    BY <1>8, TickNames
  <2> QED
    BY <2>1, <2>2, Zenon
<1> QED
  BY <1>2, <1>5, <1>6, <1>7, <1>10, <1>11, ApproachKept

\* The socket, the timers and the errors thrown later.
LEMMA OpeningSocket ==
  ASSUME PrepInv, TurnInv, connect # "resolved", Framed,
         \/ SocketConnects \/ StreamRefused \/ ConnectTimeoutReached \/ SocketErrorHandler \/ SocketTimeoutReached
         \/ \E c \in Commands : ThrowError(c)
         \/ Misrouted
  PROVE  TurnInv'
<1>1. Approaching /\ exchange.who = "auth" /\ sendQueue \in Seq(Calls \ Users) /\ (connect = "pending" => Awaited)
  BY OpeningFacts DEF Approaching
<1>2. ticks = <<>> /\ exchange' = exchange /\ config' = config /\ redirect' = redirect
  BY DEF SocketConnects, StreamRefused, ConnectTimeoutReached, SocketErrorHandler, SocketTimeoutReached, ThrowError, Misrouted,
         StillTalking, LoopDrained, talk, setting
<1>3. ticks \in Seq(Callbacks) /\ ticks \notin {<<"quit">>, <<"ended">>} /\ (connect = "pending" => sendQueue = <<>>)
  <2>1. ticks \in Seq(Callbacks) /\ ticks \notin {<<"quit">>, <<"ended">>}
    BY <1>2, TickNames, Zenon
  <2> QED
    BY <2>1, NothingWaits
<1>4. CASE AuthFailHandler /\ UNCHANGED ticks
  BY <1>2, <1>4, FailKept
<1>5. CASE SocketConnects
  <2>1. /\ socket = "opening" /\ socket' = "open" /\ UNCHANGED <<connect, sendQueue, ticks, wire, onEnd, addCommand>>
    BY <1>5 DEF SocketConnects, queues
  <2>2. connect = "pending" => wire # <<"session">>
    <3>1. connect = "pending" => wire \in {<<>>, <<"auth">>}
      BY <2>1, OpeningFacts DEF TurnInv
    <3> QED
      BY <3>1, TickNames, Zenon
  <2>3. connect' = "pending" => Awaited'
    BY <1>1, <1>2, <2>1, <2>2 DEF Awaited
  <2> QED
    BY <1>1, <1>2, <1>3, <2>1, <2>3, ApproachKept
<1>6. ASSUME NEW commands, FatalError(commands), UNCHANGED <<connect, ticks>>, ~Terminating PROVE TurnInv'
  <2>1. socket' = "closed" /\ sendQueue' = <<>> /\ UNCHANGED <<onEnd, wire>>
    BY <1>6 DEF FatalError
  <2>2. connect' = "pending" => Awaited'
    BY <1>1, <1>2, <1>6, <2>1 DEF Awaited
  <2>3. sendQueue' \in Seq(Calls \ Users)
    BY <2>1, TickNames
  <2> QED
    BY <1>1, <1>2, <1>3, <1>6, <2>1, <2>2, <2>3, ApproachKept
<1>7. CASE SocketErrorHandler
  BY <1>4, <1>6, <1>7 DEF SocketErrorHandler
<1>8. CASE SocketTimeoutReached
  BY <1>6, <1>8 DEF SocketTimeoutReached, Terminating
<1>9. CASE StreamRefused \/ ConnectTimeoutReached
  BY <1>4, <1>9 DEF StreamRefused, ConnectTimeoutReached
<1>10. ASSUME UNCHANGED <<link, sendQueue, wire, onEnd>>, ticks' \in {<<>>, <<"fail">>} PROVE TurnInv'
  <2>1. UNCHANGED <<connect, addCommand>> /\ ticks' \in Seq(Callbacks)
    <3>1. ticks' \in Seq(Callbacks)
      BY <1>10, TickNames, Zenon
    <3> QED
      BY <1>10, <3>1 DEF link
  <2>2. connect' = "pending" => Awaited'
    BY <1>1, <1>2, <1>3, <1>10, <2>1 DEF Awaited, Mode, link
  <2> QED
    BY <1>1, <1>2, <1>10, <2>1, <2>2, ApproachKept
<1>11. ASSUME NEW c \in Commands, ThrowError(c) PROVE TurnInv'
  BY <1>10, <1>11 DEF ThrowError
<1>12. CASE Misrouted
  <2>1. UNCHANGED <<link, sendQueue, wire, onEnd>> /\ ticks' \in {<<>>, <<"fail">>}
    BY <1>2, <1>12 DEF Misrouted, queues
  <2> QED
    BY <1>10, <2>1
<1> QED
  BY <1>5, <1>7, <1>8, <1>9, <1>11, <1>12

\* The connection to the other host replaces this one.
LEMMA ReplacedTurns ==
  ASSUME PrepInv, TurnInv, connect # "resolved", Framed, redirect = "asked", Replaced,
         UNCHANGED <<config, exchange, connect, onEnd>>
  PROVE  TurnInv'
<1>1. Approaching /\ exchange.who = "auth" /\ exchange.reads = "none" /\ (connect = "pending" => Awaited)
  BY OpeningFacts DEF Approaching, PrepInv, CloseInv, Redirected, Over
<1>2. sendQueue' = <<>> /\ wire' = <<>> /\ ticks' = <<"auth">> /\ socket' = "open" /\ redirect' = "done"
  BY DEF Replaced
<1>3. ticks' \in Seq(Callbacks) /\ sendQueue' \in Seq(Calls \ Users)
  BY <1>2, TickNames
<1>4. connect' = "pending" => Awaited'
  BY <1>1, <1>2 DEF Awaited
<1> QED
  BY <1>1, <1>2, <1>3, <1>4, ApproachKept

\* The redirection.
LEMMA OpeningRedirects ==
  ASSUME PrepInv, TurnInv, connect # "resolved", Framed, RedirectFails \/ RedirectConnects PROVE TurnInv'
<1>1. Approaching /\ exchange.who = "auth" /\ ExchangeOK /\ exchange.reads = "none" /\ redirect = "asked" /\ ticks = <<>> /\ config' = config
      /\ status # "TERMINATING_SOCKET"
  BY OpeningFacts DEF Approaching, PrepInv, CloseInv, ConnectInv, Redirected, Over, RedirectFails, RedirectConnects, LoopDrained, setting
<1>2. ticks \in Seq(Callbacks) /\ ticks \notin {<<"quit">>, <<"ended">>}
  BY <1>1, TickNames, Zenon
<1>3. sendQueue = <<>> /\ (connect = "rejected" => Terminating)
  <2>1. connect = "pending" => sendQueue = <<>>
    BY <1>2, NothingWaits
  <2>2. connect = "rejected" => sendQueue = <<>> /\ Terminating
    BY <1>1 DEF PrepInv, CloseInv, Closing, Direct, Shut, Terminating
  <2> QED
    BY <2>1, <2>2 DEF TurnInv
<1>4. CASE RedirectFails
  <2> DEFINE talking == [Idle EXCEPT !.proven = exchange.proven]
  <2>1. CommandOver("auth", Tail(wire), talking) /\ UNCHANGED link
    BY <1>1, <1>4 DEF RedirectFails, SuccessEnd
  <2>2. talking.reads = "none" /\ talking.who = "auth"
    BY <1>1 DEF Idle, ExchangeOK
  <2> HIDE DEF talking
  <2>3. connect = "pending" => Tail(wire) \in {<<>>, <<"auth">>}
    <3> SUFFICES ASSUME connect = "pending" PROVE Tail(wire) \in {<<>>, <<"auth">>}
      OBVIOUS
    <3>1. Live
      BY <1>1 DEF Live
    <3>2. wire = <<"auth">>
      BY <1>1, <3>1, LiveFacts DEF Before, Said
    <3> QED
      BY <3>2, ShortQueues, Zenon
  <2>4. socket # "opening"
    BY <1>1 DEF TurnInv
  <2>5. connect' = connect /\ UNCHANGED <<config, addCommand>>
    BY <1>1, <2>1 DEF link
  <2> QED
    BY <1>1, <1>3, <2>1, <2>2, <2>3, <2>4, <2>5, OverTurns
<1>5. CASE RedirectConnects
  <2>1. exchange' = exchange
    BY <1>5 DEF RedirectConnects, talk
  <2>2. CASE Terminating
    BY <1>1, <1>5, <2>1, <2>2, ReplacedTurns DEF RedirectConnects
  <2>3. CASE ~Terminating
    BY <1>1, <1>2, <1>3, <1>5, <2>1, <2>3, EndKept DEF RedirectConnects
  <2> QED
    BY <2>2, <2>3
<1> QED
  BY <1>4, <1>5

\* The callbacks.
LEMMA OpeningTicks ==
  ASSUME PrepInv, TurnInv, connect # "resolved", Framed, NextTick PROVE TurnInv'
<1> DEFINE tick == Head(ticks)
           more == Tail(ticks)
<1>1. /\ Approaching /\ exchange.who = "auth" /\ sendQueue \in Seq(Calls \ Users) /\ ticks \in Seq(Callbacks) /\ ticks # <<>>
      /\ config' = config /\ (connect = "pending" => Awaited)
  BY OpeningFacts DEF Approaching, NextTick, setting
<1>2. more \in Seq(Callbacks) /\ tick \in Callbacks /\ tick \notin Users
  BY <1>1, TickNames
<1>3. connect = "pending" => /\ more = <<>> /\ tick # "end"
                             /\ tick = "auth" => ticks = <<"auth">> /\ ticks \notin {<<"quit">>, <<"ended">>}
                             /\ tick = "ended" => ticks # <<"quit">>
  <2> SUFFICES ASSUME connect = "pending"
               PROVE  /\ more = <<>> /\ tick # "end"
                      /\ tick = "auth" => ticks = <<"auth">> /\ ticks \notin {<<"quit">>, <<"ended">>}
                      /\ tick = "ended" => ticks # <<"quit">>
    OBVIOUS
  <2>1. ticks \in {<<"fail">>, <<"auth">>, <<"quit">>, <<"ended">>}
    BY <1>1 DEF Awaited
  <2>2. /\ "fail" # "end" /\ "auth" # "end" /\ "quit" # "end" /\ "ended" # "end"
        /\ "fail" # "auth" /\ "quit" # "auth" /\ "ended" # "auth" /\ "ended" # "quit"
    OBVIOUS
  <2> QED
    BY <2>1, <2>2, ShortQueues, TickNames, Zenon
<1>4. CASE tick = "auth"
  <2>1. exchange.reads = "none"
    <3>1. CASE connect = "rejected"
      <4>1. Direct => ticks \in {<<>>, <<"fail">>}
        BY <3>1 DEF PrepInv, CloseInv, Closing, Failing
      <4>2. "fail" # "auth"
        OBVIOUS
      <4>3. ~Direct
        BY <1>1, <1>4, <4>1, <4>2, ShortQueues, Zenon
      <4> QED
        BY <1>1, <4>3 DEF PrepInv, CloseInv, Redirected, Over, Direct
    <3>2. CASE connect = "pending"
      <4>1. CASE redirect = "done"
        BY <1>1, <4>1 DEF PrepInv, CloseInv, Redirected, Over
      <4>2. CASE redirect # "done"
        <5>1. Live
          BY <3>2, <4>2 DEF Live
        <5>2. Said
          BY <1>3, <1>4, <3>2, <5>1, LiveFacts
        <5> QED
          BY <1>1, <5>2 DEF Said, Over
      <4> QED
        BY <4>1, <4>2
    <3> QED
      BY <3>1, <3>2 DEF TurnInv
  <2>2. connect = "pending" => more = <<>> /\ sendQueue = <<>>
    BY <1>3, <1>4, NothingWaits, Zenon
  <2>3. CASE AuthSucceedHandler(more) /\ UNCHANGED redirect
    <3>1. NextSessionQuery(session, Mode, more) /\ exchange' = exchange
      BY <2>3 DEF AuthSucceedHandler, talk
    <3>2. connect = "pending" => more = <<>> /\ sendQueue = <<>> /\ Mode = Mode
      BY <2>2
    <3>3. UNCHANGED <<config, redirect, exchange>>
      BY <1>1, <2>3, <3>1
    <3>4. more \in Seq(Callbacks)
      BY <1>2
    <3> HIDE DEF more
    <3> QED
      BY <2>1, <3>1, <3>2, <3>3, <3>4, SessionTurns
  <2>4. CASE ticks' = more /\ UNCHANGED <<link, queues, talk, redirect>>
    <3>1. UNCHANGED <<connect, socket, addCommand, sendQueue, onEnd, wire, redirect>> /\ exchange' = exchange
      BY <2>4 DEF link, queues, talk
    <3>2. ASSUME connect' = "pending" PROVE Awaited'
      <4>1. Awaited /\ ticks' = <<>> /\ sendQueue = <<>> /\ ticks \notin {<<"quit">>, <<"ended">>}
        BY <1>1, <1>3, <1>4, <2>2, <2>4, <3>1, <3>2
      <4> QED
        BY <1>1, <3>1, <4>1 DEF Awaited, Mode
    <3> QED
      BY <1>1, <1>2, <2>1, <2>4, <3>1, <3>2, ApproachKept
  <2> QED
    BY <1>2, <1>4, <2>3, <2>4 DEF NextTick
<1>5. CASE tick = "fail"
  <2>1. AuthFailHandler /\ ticks' = more /\ UNCHANGED redirect /\ exchange' = exchange
    BY <1>2, <1>5 DEF NextTick, talk
  <2>2. ticks' = ticks \/ (ticks # <<>> /\ Head(ticks) = "fail" /\ ticks' = Tail(ticks))
    BY <1>1, <1>5, <2>1
  <2>3. UNCHANGED <<config, redirect>>
    BY <1>1, <2>1
  <2> QED
    BY <2>1, <2>2, <2>3, FailKept
<1>6. CASE tick = "end"
  <2>1. End(more) /\ UNCHANGED redirect /\ exchange' = exchange
    BY <1>2, <1>6 DEF NextTick, talk
  <2>2. connect # "pending" /\ UNCHANGED <<config, redirect, exchange>> /\ more \in Seq(Callbacks)
    BY <1>1, <1>2, <1>3, <1>6, <2>1
  <2> HIDE DEF more
  <2> QED
    BY <2>1, <2>2, EndKept
<1>7. CASE tick = "quit"
  <2>1. /\ sendQueue' = <<>> /\ ticks' = Append(more, "ended") /\ UNCHANGED <<link, onEnd, wire>> /\ exchange' = exchange
    BY <1>2, <1>7 DEF NextTick, talk
  <2>2. ticks' \in Seq(Callbacks) /\ sendQueue' \in Seq(Calls \ Users)
    <3>1. Append(more, "ended") \in Seq(Callbacks)
      BY <1>2 DEF Callbacks
    <3> QED
      BY <2>1, <3>1, TickNames
  <2>3. ASSUME connect' = "pending" PROVE Awaited'
    <3>1. Awaited /\ more = <<>>
      BY <1>1, <1>3, <2>1, <2>3 DEF link
    <3>2. ticks' = Append(<<>>, "ended")
      BY <2>1, <3>1
    <3>3. Append(<<>>, "ended") = <<"ended">>
      OBVIOUS
    <3>4. ticks' = <<"ended">>
      BY <3>2, <3>3, Zenon
    <3> QED
      BY <1>1, <2>1, <3>1, <3>4 DEF Awaited
  <2>4. connect' = connect
    BY <2>1 DEF link
  <2> QED
    BY <1>1, <2>1, <2>2, <2>3, <2>4, ApproachKept
<1>8. CASE tick = "ended"
  <2>1. QuitEnded(more) /\ exchange' = exchange
    BY <1>2, <1>8 DEF NextTick, talk
  <2>2. CASE redirect = "asked"
    BY <1>1, <2>1, <2>2, ReplacedTurns DEF QuitEnded
  <2>3. CASE redirect # "asked"
    <3>1. /\ socket' = "closed" /\ ticks' = more /\ sendQueue' = <<>> /\ UNCHANGED <<addCommand, onEnd, wire>>
          /\ connect' \in {connect, "rejected"}
      BY <2>1, <2>3 DEF QuitEnded
    <3>2. ASSUME connect' = "pending" PROVE Awaited'
      <4>1. connect = "pending"
        BY <3>1, <3>2
      <4>2. Awaited /\ ticks' = <<>>
        BY <1>1, <1>3, <3>1, <4>1
      <4> QED
        BY <1>1, <3>1, <4>2 DEF Awaited
    <3>3. ticks' \in Seq(Callbacks) /\ sendQueue' \in Seq(Calls \ Users)
      BY <1>2, <3>1, TickNames
    <3> QED
      BY <1>1, <2>1, <3>1, <3>2, <3>3, ApproachKept
  <2> QED
    BY <2>2, <2>3
<1> QED
  BY <1>2, <1>4, <1>5, <1>6, <1>7, <1>8 DEF Callbacks

\* Every step before connect() resolves.
LEMMA OpeningStep ==
  ASSUME PrepInv, TurnInv, connect # "resolved", Next PROVE TurnInv'
<1>1. Framed
  BY Frames DEF PrepInv, CloseInv, ConnectInv
<1>2. CASE ServerAnswers
  BY <1>1, <1>2, OpeningTalks, OpeningSecured, OpeningSession, OpeningAnswered DEF ServerAnswers
<1>3. CASE (\E q \in Queries : Query(q)) \/ \E u \in Users, wrong \in BOOLEAN : ChangeUser(u, wrong)
  BY <1>3 DEF Query, ChangeUser
<1> QED
  BY <1>1, <1>2, <1>3, OpeningSocket, OpeningRedirects, OpeningTicks DEF Next

\* Every step, of a client that has one change of user under way at a time.
LEMMA TurnStep == PrepInv /\ TurnInv /\ [Next]_vars /\ [OneAtATime]_vars => TurnInv'
<1> SUFFICES ASSUME PrepInv, TurnInv, [Next]_vars, [OneAtATime]_vars PROVE TurnInv'
  OBVIOUS
<1>1. CASE UNCHANGED vars
  <2>1. /\ UNCHANGED <<connect, call, socket, exchange, sendQueue, ticks, wire, redirect, config>>
        /\ UNCHANGED <<onEnd, addCommand, status, receiveQueue, rejectFct>>
    BY <1>1 DEF vars, setting, link, queues, talk
  <2>2. /\ Elements(wire)' = Elements(wire) /\ Elements(sendQueue)' = Elements(sendQueue) /\ Elements(ticks)' = Elements(ticks)
        /\ Terminating' = Terminating /\ Mode' = Mode
    BY <2>1 DEF Elements, Terminating, Mode
  <2>3. Approaching => Approaching'
    <3>1. Awaited => Awaited'
      BY ONLY <2>1, <2>2 DEF Awaited
    <3> QED
      BY ONLY <2>1, <3>1 DEF Approaching
  <2>4. Handed => Handed'
    <3>1. Unused => Unused'
      BY ONLY <2>1, <2>2 DEF Unused
    <3>2. Listening => Listening'
      BY ONLY <2>1, <2>2 DEF Listening
    <3> QED
      BY ONLY <2>1, <2>2, <3>1, <3>2 DEF Handed
  <2>5. Turns => Turns'
    <3>1. NoUser(sendQueue)' = NoUser(sendQueue) /\ NoUser(ticks)' = NoUser(ticks)
      BY ONLY <2>1 DEF NoUser, Elements
    <3>2. (AtMostOne => AtMostOne') /\ (Level => Level')
      BY ONLY <2>1, <2>2 DEF AtMostOne, Level
    <3>3. ASSUME NEW u \in Users PROVE (Lost(u) => Lost(u)') /\ (InTurn(u) => InTurn(u)') /\ (Talks(u) => Talks(u)')
      <4>1. Alone(sendQueue, u) => Alone(sendQueue, u)'
        BY ONLY <2>1 DEF Alone
      <4>2. Lost(u) => Lost(u)'
        BY ONLY <2>1, <2>2, <3>1 DEF Lost
      <4>3. InTurn(u) => InTurn(u)'
        BY ONLY <2>1, <3>1, <4>1 DEF InTurn
      <4>4. Talks(u) => Talks(u)'
        BY ONLY <2>1, <3>1 DEF Talks
      <4> QED
        BY <4>2, <4>3, <4>4
    <3>4. Nobody => Nobody'
      BY ONLY <2>1, <3>1 DEF Nobody
    <3> QED
      BY <3>2, <3>3, <3>4, Zenon DEF Turns
  <2> QED
    BY <2>1, <2>3, <2>4, <2>5 DEF TurnInv
<1>2. CASE Next /\ OneAtATime
  BY <1>2, OpeningStep, HandedStep
<1> QED
  BY <1>1, <1>2

\* It holds of a connection that is being opened.
LEMMA TurnInit == Init => TurnInv
<1> SUFFICES ASSUME Init PROVE TurnInv
  OBVIOUS
<1>1. /\ connect = "pending" /\ sendQueue = <<>> /\ ticks = <<>> /\ wire = <<"auth">> /\ onEnd = {}
      /\ call = [c \in Users \cup Queries |-> "none"]
  BY Zenon DEF Init
<1>2. exchange.who = "auth" /\ exchange.reads = "greeting"
  BY DEF Init
<1>3. DOMAIN call = Users \cup Queries
  BY <1>1
<1>4. Awaited
  <2>1. wire # <<"session">>
    BY <1>1, TickNames
  <2> QED
    BY <1>1, <2>1 DEF Awaited
<1>5. Approaching
  BY <1>1, <1>2, <1>4, TickNames DEF Approaching
<1> QED
  BY <1>1, <1>2, <1>3, <1>5 DEF TurnInv

\* It leaves no room behind a change of user that talks.
LEMMA TurnSafe == PrepInv /\ TurnInv => NothingInsideExchange
<1> SUFFICES ASSUME PrepInv, TurnInv, exchange.reads # "none", wire # <<>>, Head(wire) = exchange.who
             PROVE  Len(wire) = 1
  BY DEF NothingInsideExchange
<1>1. CASE connect # "resolved"
  <2>1. wire \in {<<>>, <<"auth">>}
    <3>1. CASE connect = "pending"
      BY <1>1, <3>1, OpeningFacts
    <3>2. CASE connect = "rejected"
      BY <3>2 DEF TurnInv, Approaching
    <3> QED
      BY <1>1, <3>1, <3>2 DEF TurnInv
  <2>2. wire = <<"auth">>
    BY <2>1
  <2> QED
    BY <2>2
<1>2. CASE connect = "resolved"
  <2>1. Handed /\ Turns
    BY <1>2, HandedFacts
  <2>2. AtMostOne /\ \E u \in Users : Talks(u)
    BY <2>1, Zenon DEF Turns, Lost, InTurn, Nobody
  <2>3. PICK u \in Users : Talks(u)
    BY <2>2
  <2>4. exchange.who = u /\ wire[Len(wire)] = u /\ u \in onEnd
    BY <2>3 DEF Talks
  <2>5. wire \in Seq(Calls)
    BY <2>1 DEF Handed
  <2>6. 1 \in 1..Len(wire) /\ Len(wire) \in 1..Len(wire) /\ wire[1] = u
    BY <2>4, <2>5
  <2> QED
    BY <2>2, <2>4, <2>6 DEF AtMostOne
<1> QED
  BY <1>1, <1>2

(***************************************************************************)
(* THEOREM: NothingInsideExchange, for a client that has one change of     *)
(* user under way at a time: while a change of user is being answered,     *)
(* nothing that the connection has written waits for the server behind it. *)
(***************************************************************************)
THEOREM ConnectNothingInsideExchange == Spec /\ [][OneAtATime]_vars => []NothingInsideExchange
<1> QED
  BY PrepInit, TurnInit, PrepStep, TurnStep, TurnSafe, PTL DEF Spec
=============================================================================

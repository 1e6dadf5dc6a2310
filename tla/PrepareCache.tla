---------------------------- MODULE PrepareCache ----------------------------
(***************************************************************************)
(* The prepared statements of one connection with option pipelining: the   *)
(* LRU cache of lib/lru-prepare-cache.js, the use counts of lib/cmd/class, *)
(* and the commands of lib/cmd/prepare.js and lib/cmd/execute.js.          *)
(*                                                                         *)
(* Calls are numbered as the client makes them; the statement that the     *)
(* PREPARE of a call creates on the server has the number of the call.  A  *)
(* text is what a statement is: the database it was prepared in and its    *)
(* SQL.  The server handles commands in the order they are sent, so what   *)
(* it answers is settled when they are sent and read later.                *)
(***************************************************************************)
EXTENDS Integers, Sequences, FiniteSets, SequenceFilter

CONSTANTS
  Sqls,          (* SQL texts                                               *)
  Databases,     (* databases of the server                                 *)
  FirstDatabase, (* the one the connection starts in                        *)
  CacheSizes,    (* values of option prepareCacheLength, 0 for no cache     *)
  MaxCalls,      (* bound on prepare() and execute() calls                  *)
  MaxChanges,    (* bound on USE, reset() and stream parameters             *)
  Careless       (* what the client does not wait for: "use", the answer of *)
                 (* a USE before it prepares or executes; "reset", what is  *)
                 (* in flight before a reset() and its end before going on; *)
                 (* "stream", the end of a stream before it executes        *)

ASSUME PrepareCacheAssumption ==
  /\ FirstDatabase \in Databases
  /\ CacheSizes \subseteq Nat /\ MaxCalls \in Nat /\ MaxChanges \in Nat
  /\ Careless \subseteq {"use", "reset", "stream"}

Calls == 1..MaxCalls
None == 0
Texts == Databases \X Sqls
Entries == [key : Texts, st : Calls]

VARIABLES
  \* The connection.
  database,   \* info.database
  cacheSize,  \* prepareCacheLength
  cache,      \* the entries [key, st] of #lruCache, the most recent first
  use,        \* #use of the PrepareCacheWrapper of a statement
  closed,     \* statements whose PrepareResultPacket is closed
  sendQueue,  \* commands not sent yet
  blocked,    \* a stream parameter is being written
  nested,     \* prepares found in the cache while the sendQueue is being emptied
  inFlight,   \* commands sent, their answer not read
  ticks,      \* nextTick callbacks
  draining,   \* they are being run
  \* The calls.
  how,        \* "prepare", "execute", or "late", an execute that is not pipelined
  wants,      \* the text a call is about
  wrapper,    \* the statement of the PrepareWrapper made for a call
  bound,      \* calls whose Execute command has that wrapper
  open,       \* calls whose wrapper is not closed
  settled,    \* calls whose promise is settled
  crashed,    \* a callback has thrown
  \* The client and the server.
  session,    \* the database the commands issued so far lead to
  resetting,  \* a reset() has not resolved
  changes,    \* how many USE, reset() and streams there were
  serverDb,   \* the server's current database
  onServer, text, last, \* its statements, their texts, the last one prepared
  misrun      \* calls that executed something else than what they asked for

lru == <<cache, use, closed>>
calls == <<how, wants, wrapper, bound, open, settled, crashed>>
client == <<session, resetting, changes>>
server == <<serverDb, onServer, text, last, misrun>>
queues == <<sendQueue, blocked, nested, inFlight, ticks, draining>>
vars == <<database, cacheSize, lru, queues, calls, client, server>>

Made == Cardinality({c \in Calls : how[c] # "none"})

Init ==
  /\ database = FirstDatabase /\ session = FirstDatabase
  /\ cacheSize \in CacheSizes /\ cache = <<>> /\ closed = {} /\ use = [c \in Calls |-> 0]
  /\ sendQueue = <<>> /\ blocked = FALSE /\ nested = <<>> /\ inFlight = <<>>
  /\ ticks = <<>> /\ draining = FALSE
  /\ how = [c \in Calls |-> "none"] /\ wants = [c \in Calls |-> <<>>]
  /\ wrapper = [c \in Calls |-> None]
  /\ bound = {} /\ open = {} /\ settled = {} /\ crashed = FALSE
  /\ resetting = FALSE /\ changes = 0
  /\ serverDb = FirstDatabase /\ onServer = {} /\ text = [c \in Calls |-> <<>>] /\ last = None /\ misrun = {}

(***************************************************************************)
(* A command is sent as soon as it is added, unless a stream is being      *)
(* written: SendNext comes before anything else.  nextTick callbacks run   *)
(* after the packets of a chunk and before anything else; the code of the  *)
(* client runs among them.                                                 *)
(***************************************************************************)
AllSent == sendQueue = <<>> \/ blocked
ClientTurn == AllSent /\ (ticks = <<>> \/ draining)
Idle == AllSent /\ inFlight = <<>> /\ ticks = <<>> /\ ~blocked

Command(op, about) == [op |-> op, about |-> about]
Tick(cb, c) == [op |-> cb, about |-> c]

-----------------------------------------------------------------------------
(***************************************************************************)
(* The cache.  A statement that leaves it is closed unless it is in use.   *)
(***************************************************************************)
KeyOfSql(sql) == <<FirstDatabase, sql>> \* variant: the database is forgotten
Key(sql) == <<database, sql>>
Found(key) == {i \in DOMAIN cache : cache[i].key = key}
IsCached(st) == \E i \in DOMAIN cache : cache[i].st = st
At(key) == CHOOSE i \in DOMAIN cache : cache[i].key = key

\* Entry e comes first, and what was at position n is no longer there.
ToFront(e, n) ==
  [i \in 1..(IF n \in DOMAIN cache THEN Len(cache) ELSE n) |->
     IF i = 1 THEN e ELSE IF i <= n THEN cache[i - 1] ELSE cache[i]]

\* get(sql) on a hit: the entry becomes the most recent, and call c gets a wrapper.
GetHit(key, c) ==
  LET st == cache[At(key)].st IN
  /\ cache' = ToFront(cache[At(key)], At(key))
  /\ use' = [use EXCEPT ![st] = @ + 1]
  /\ wrapper' = [wrapper EXCEPT ![c] = st]
  /\ open' = open \cup {c}
  /\ UNCHANGED closed

\* PrepareResultPacket.close() of the statements of s, that tells the server.
Close(s) ==
  LET now == Filter(s, Calls \ closed) IN
  /\ closed' = closed \cup {now[i] : i \in DOMAIN now}
  /\ sendQueue' = sendQueue \o [i \in DOMAIN now |-> Command("close", now[i])]

\* Variant: closed although it is in use.
UnCacheAtOnce(s) == Close([i \in DOMAIN s |-> s[i].st])

\* unCache() of the entries of s.
UnCache(s) ==
  LET unused == Filter(s, {e \in Entries : use[e.st] = 0}) IN
  Close([i \in DOMAIN unused |-> unused[i].st])

\* set(sql, wrapper of st): takes the place of the entry with the same key, or evicts the oldest
\* of a full cache; Leaving is the position of the entry that goes, past the end if none does.
Leaving(key) ==
  IF Found(key) # {} THEN At(key)
  ELSE IF Len(cache) = cacheSize THEN cacheSize ELSE Len(cache) + 1

CacheSet(key, st) ==
  IF cacheSize = 0 THEN UNCHANGED <<cache, closed, sendQueue>>
  ELSE /\ cache' = ToFront([key |-> key, st |-> st], Leaving(key))
       /\ UnCache(IF Leaving(key) \in DOMAIN cache THEN <<cache[Leaving(key)]>> ELSE <<>>)

\* close() of the wrapper of call c.
CloseWrapper(c) ==
  IF c \notin open THEN UNCHANGED <<lru, open, sendQueue>>
  ELSE LET st == wrapper[c] IN
       /\ open' = open \ {c}
       /\ use' = [use EXCEPT ![st] = @ - 1]
       /\ IF use[st] = 1 /\ ~IsCached(st) THEN Close(<<st>>)
          ELSE UNCHANGED <<closed, sendQueue>>
       /\ UNCHANGED cache

-----------------------------------------------------------------------------
(***************************************************************************)
(* What the client does.  Early: prepare() and prepareExecute() look into  *)
(* the cache at once, unless a stream keeps the sendQueue from being empty *)
(***************************************************************************)
Early(sql) == ~blocked /\ Found(Key(sql)) # {}

MayAsk ==
  /\ ClientTurn /\ Made < MaxCalls
  /\ session = database \/ "use" \in Careless
  /\ ~resetting \/ "reset" \in Careless

NewCall(c, kind, sql) ==
  /\ c = Made + 1
  /\ how' = [how EXCEPT ![c] = kind]
  /\ wants' = [wants EXCEPT ![c] = <<session, sql>>]
  /\ UNCHANGED <<database, cacheSize, blocked, nested, inFlight, ticks, draining, crashed, client, server>>

\* prepare(sql): on a hit the promise is resolved at once.
Prepare(c, sql) ==
  /\ MayAsk /\ NewCall(c, "prepare", sql)
  /\ IF Early(sql) THEN GetHit(Key(sql), c) /\ settled' = settled \cup {c} /\ UNCHANGED sendQueue
     ELSE sendQueue' = Append(sendQueue, Command("prepare", c)) /\ UNCHANGED <<lru, wrapper, open, settled>>
  /\ UNCHANGED bound

\* execute(sql): on a hit, EXECUTE; without a stream among the values, PREPARE and EXECUTE
\* together; otherwise PREPARE, and EXECUTE when it is answered.
Execute(c, sql, kind) ==
  /\ MayAsk /\ NewCall(c, kind, sql)
  /\ kind = "execute" => ~blocked \/ "stream" \in Careless
  /\ IF Early(sql)
     THEN GetHit(Key(sql), c) /\ bound' = bound \cup {c}
          /\ sendQueue' = Append(sendQueue, Command("execute", c))
     ELSE /\ UNCHANGED <<lru, wrapper, open, bound>>
          /\ sendQueue' = sendQueue \o
               IF kind = "late" THEN <<Command("prepare", c)>>
               ELSE <<Command("prepare", c), Command("execute", c)>>
  /\ UNCHANGED settled

\* The client has the statement of a prepare() until it closes it.
Held(c) == how[c] = "prepare" /\ c \in settled /\ wrapper[c] # None

ExecutePrepared(c) ==
  /\ ClientTurn /\ Held(c) /\ c \in open /\ c \notin bound
  /\ bound' = bound \cup {c}
  /\ sendQueue' = Append(sendQueue, Command("execute", c))
  /\ UNCHANGED <<database, cacheSize, lru, blocked, nested, inFlight, ticks, draining,
                 how, wants, wrapper, open, settled, crashed, client, server>>

ClosePrepared(c) ==
  /\ ClientTurn /\ Held(c)
  /\ CloseWrapper(c)
  /\ UNCHANGED <<database, cacheSize, blocked, nested, inFlight, ticks, draining,
                 how, wants, wrapper, bound, settled, crashed, client, server>>

Change == ClientTurn /\ changes < MaxChanges /\ changes' = changes + 1

Use(db) ==
  /\ Change /\ db # session
  /\ session = database \/ "use" \in Careless
  /\ session' = db
  /\ sendQueue' = Append(sendQueue, Command("use", db))
  /\ UNCHANGED <<database, cacheSize, lru, blocked, nested, inFlight, ticks, draining, calls, resetting, server>>

Reset ==
  /\ Change /\ ~resetting
  /\ Idle \/ "reset" \in Careless
  /\ resetting' = TRUE
  /\ sendQueue' = Append(sendQueue, Command("reset", None))
  /\ UNCHANGED <<database, cacheSize, lru, blocked, nested, inFlight, ticks, draining, calls, session, server>>

\* A query with a stream parameter, sent now.
StreamStarts ==
  /\ Change /\ ~blocked
  /\ blocked' = TRUE
  /\ UNCHANGED <<database, cacheSize, lru, sendQueue, nested, inFlight, ticks, draining, calls, session, resetting, server>>

StreamEnds ==
  /\ blocked /\ ticks = <<>>
  /\ blocked' = FALSE
  /\ UNCHANGED <<database, cacheSize, lru, sendQueue, nested, inFlight, ticks, draining, calls, client, server>>

-----------------------------------------------------------------------------
(***************************************************************************)
(* Sending, and what the server makes of it.  The callbacks of prepares    *)
(* found in the cache come after those of the commands they let go.        *)
(***************************************************************************)
Reversed(s) == [i \in DOMAIN s |-> s[Len(s) + 1 - i]]

\* ticks after one command is sent, more being its own callbacks and hits those that wait.
AfterSending(more, hits) ==
  IF Len(sendQueue) = 1
  THEN ticks' = ticks \o more \o Reversed(hits) /\ nested' = <<>>
  ELSE ticks' = ticks \o more /\ nested' = hits

Answer(cmd, ok) == inFlight' = Append(inFlight, [op |-> cmd.op, about |-> cmd.about, ok |-> ok])

SendPrepare(c) ==
  /\ IF Found(Key(wants[c][2])) # {}
     THEN /\ GetHit(Key(wants[c][2]), c)
          /\ AfterSending(<<>>, Append(nested, Tick("prepared", c)))
          /\ UNCHANGED <<inFlight, server>>
     ELSE /\ \E ok \in BOOLEAN :
               /\ Answer(Head(sendQueue), ok)
               /\ onServer' = IF ok THEN onServer \cup {c} ELSE onServer
               /\ last' = IF ok THEN c ELSE None
          /\ text' = [text EXCEPT ![c] = <<serverDb, wants[c][2]>>]
          /\ AfterSending(<<>>, nested)
          /\ UNCHANGED <<lru, wrapper, open, serverDb, misrun>>

\* The statement an EXECUTE names: its own, or -1, the last one prepared.
Named(c) == IF c \in bound THEN wrapper[c] ELSE last

\* An execute() that runs another text than its own, or finds its statement gone.
Misruns(c) ==
  how[c] # "prepare" /\
  IF Named(c) \in onServer THEN text[Named(c)] # wants[c] ELSE wrapper[c] # None

SendExecute(c) ==
  /\ \/ AfterSending(<<Tick("refused", c)>>, nested) /\ UNCHANGED <<inFlight, misrun>>
     \/ /\ \E ok \in BOOLEAN : (ok => Named(c) \in onServer) /\ Answer(Head(sendQueue), ok)
        /\ misrun' = IF Misruns(c) THEN misrun \cup {c} ELSE misrun
        /\ AfterSending(<<>>, nested)
  /\ UNCHANGED <<lru, wrapper, open, serverDb, onServer, text, last>>

SendClose(st) ==
  /\ onServer' = onServer \ {st}
  /\ last' = IF last = st THEN None ELSE last
  /\ AfterSending(<<>>, nested)
  /\ UNCHANGED <<lru, wrapper, open, inFlight, serverDb, text, misrun>>

SendOther(cmd) ==
  /\ Answer(cmd, TRUE)
  /\ IF cmd.op = "use" THEN serverDb' = cmd.about /\ UNCHANGED <<onServer, last>>
     ELSE onServer' = {} /\ last' = None /\ UNCHANGED serverDb
  /\ AfterSending(<<>>, nested)
  /\ UNCHANGED <<lru, wrapper, open, text, misrun>>

SendNext ==
  /\ ~AllSent
  /\ LET cmd == Head(sendQueue) IN
     CASE cmd.op = "prepare" -> SendPrepare(cmd.about)
       [] cmd.op = "execute" -> SendExecute(cmd.about)
       [] cmd.op = "close" -> SendClose(cmd.about)
       [] cmd.op \in {"use", "reset"} -> SendOther(cmd)
  /\ sendQueue' = Tail(sendQueue)
  /\ UNCHANGED <<database, cacheSize, blocked, draining, how, wants, bound, settled, crashed, client>>

-----------------------------------------------------------------------------
(***************************************************************************)
(* An answer is read.  Answers of one chunk are read one after the other,  *)
(* before the callbacks they schedule.                                     *)
(***************************************************************************)
Reading(op) == AllSent /\ ~draining /\ inFlight # <<>> /\ Head(inFlight).op = op

\* successPrepare
ReadPrepared ==
  LET c == Head(inFlight).about IN
  /\ Reading("prepare") /\ Head(inFlight).ok
  /\ CacheSet(Key(wants[c][2]), c)
  /\ use' = [use EXCEPT ![c] = 1]
  /\ wrapper' = [wrapper EXCEPT ![c] = c] /\ open' = open \cup {c}
  /\ bound' = IF how[c] = "execute" THEN bound \cup {c} ELSE bound
  /\ ticks' = Append(ticks, Tick("prepared", c))
  /\ inFlight' = Tail(inFlight)
  /\ UNCHANGED <<database, cacheSize, blocked, nested, draining, how, wants, settled, crashed, client, server>>

ReadOther ==
  /\ AllSent /\ ~draining /\ inFlight # <<>>
  /\ LET a == Head(inFlight) IN
     /\ a.op = "prepare" => ~a.ok
     /\ database' = IF a.op = "use" THEN a.about ELSE database
     /\ ticks' = CASE a.op = "use" -> ticks
                   [] a.op = "reset" -> Append(ticks, Tick("reset", None))
                   [] a.op = "execute" /\ a.ok -> Append(ticks, Tick("executed", a.about))
                   [] OTHER -> Append(ticks, Tick("refused", a.about))
  /\ inFlight' = Tail(inFlight)
  /\ UNCHANGED <<cacheSize, lru, sendQueue, blocked, nested, draining, calls, client, server>>

-----------------------------------------------------------------------------
(***************************************************************************)
(* The callbacks.                                                          *)
(***************************************************************************)
Callback(cb, c) ==
  /\ AllSent /\ ticks # <<>> /\ Head(ticks) = Tick(cb, c)
  /\ ticks' = Tail(ticks) /\ draining' = (Tail(ticks) # <<>>)
  /\ UNCHANGED <<database, cacheSize, blocked, nested, inFlight, how, wants, wrapper, session, changes, server>>

\* A prepare is resolved: for the client; for an EXECUTE that has failed before; or for the
\* EXECUTE that waits for it.
Prepared(c) ==
  /\ Callback("prepared", c)
  /\ IF how[c] = "execute" /\ c \in settled THEN CloseWrapper(c)
     ELSE /\ sendQueue' = IF how[c] = "late" THEN Append(sendQueue, Command("execute", c)) ELSE sendQueue
          /\ UNCHANGED <<lru, open>>
  /\ settled' = IF how[c] = "prepare" THEN settled \cup {c} ELSE settled
  /\ bound' = IF how[c] = "late" THEN bound \cup {c} ELSE bound
  /\ UNCHANGED <<crashed, resetting>>

\* Variant: the error of the PREPARE is left to the EXECUTE.
AnsweredByExecute(c, cb) ==
  /\ Callback(cb, c)
  /\ settled' = IF c \in bound THEN settled \cup {c} ELSE settled
  /\ IF how[c] # "prepare" /\ c \notin settled /\ c \in bound THEN CloseWrapper(c)
     ELSE UNCHANGED <<lru, open, sendQueue>>
  /\ UNCHANGED <<crashed, bound, resetting>>

\* An EXECUTE has its result, or one of the two commands of a call its error: the first settles
\* the call and closes its wrapper.  The code that takes a result does not ask if it has one.
Answered(c, cb) ==
  /\ Callback(cb, c)
  /\ settled' = settled \cup {c}
  /\ IF how[c] # "prepare" /\ c \notin settled /\ c \in bound THEN CloseWrapper(c)
     ELSE UNCHANGED <<lru, open, sendQueue>>
  /\ crashed' = (crashed \/ (cb = "executed" /\ c \notin bound /\ c \notin settled))
  /\ UNCHANGED <<bound, resetting>>

\* reset() has been answered: every statement leaves the cache.
ResetDone ==
  /\ Callback("reset", None)
  /\ cache' = <<>> /\ UnCache(cache)
  /\ resetting' = FALSE
  /\ UNCHANGED <<use, open, bound, settled, crashed>>

Next ==
  \/ \E c \in Calls :
       \/ \E sql \in Sqls : Prepare(c, sql) \/ \E kind \in {"execute", "late"} : Execute(c, sql, kind)
       \/ ExecutePrepared(c) \/ ClosePrepared(c)
       \/ Prepared(c) \/ \E cb \in {"executed", "refused"} : Answered(c, cb)
  \/ \E db \in Databases : Use(db)
  \/ Reset \/ StreamStarts \/ StreamEnds
  \/ SendNext \/ ReadPrepared \/ ReadOther \/ ResetDone

Spec == Init /\ [][Next]_vars

-----------------------------------------------------------------------------
TypeOK ==
  /\ database \in Databases /\ session \in Databases /\ serverDb \in Databases
  /\ cache \in Seq(Entries)
  /\ use \in [Calls -> Nat]
  /\ closed \subseteq Calls /\ onServer \subseteq Calls /\ last \in Calls \cup {None}
  /\ text \in [Calls -> Texts \cup {<<>>}] /\ wants \in [Calls -> Texts \cup {<<>>}]
  /\ how \in [Calls -> {"none", "prepare", "execute", "late"}]
  /\ wrapper \in [Calls -> Calls \cup {None}]
  /\ bound \subseteq Calls /\ open \subseteq Calls /\ settled \subseteq Calls /\ misrun \subseteq Calls
  /\ {blocked, draining, crashed, resetting} \subseteq BOOLEAN
  /\ changes \in 0..MaxChanges

\* A statement is closed only once it has left the cache and every wrapper of it is closed, and
\* then it is: what the LRU evicts while it is in use is closed by the last close().
ClosedWhenUnused ==
  \A st \in Calls :
    LET users == {c \in open : wrapper[c] = st} IN
    /\ use[st] = Cardinality(users)
    /\ st \in closed => users = {} /\ ~IsCached(st)
    /\ (how[st] # "none" /\ \E c \in Calls : wrapper[c] = st) =>
         (st \in closed \/ users # {} \/ IsCached(st))

\* What the cache finds under a key is a statement prepared from that SQL in that database, and
\* the server still has it unless a reset() is under way.
CacheCoherent ==
  \A i \in DOMAIN cache :
    /\ text[cache[i].st] = cache[i].key
    /\ \A j \in DOMAIN cache : cache[i].key = cache[j].key => i = j
    /\ ~resetting => cache[i].st \in onServer

\* Every EXECUTE of an execute() runs its own SQL, prepared in the database that was current when
\* execute() was called.
ExecutesOwnStatement == misrun = {}

\* An execute() runs its own statement, found in the cache or not: what the cache says of a
\* statement is true, and what is sent is what was asked for.
RightStatement == CacheCoherent /\ ExecutesOwnStatement

\* When nothing is under way, each statement the server has is in the cache or in the hands of the
\* client: the server never holds more statements than prepareCacheLength and the client together.
StatementsBounded ==
  Idle => \A st \in onServer :
            IsCached(st) \/ \E c \in open : wrapper[c] = st /\ how[c] = "prepare"

\* Statements are closed on the server once, not before their last use, and none is forgotten there.
StatementsClosed == ClosedWhenUnused /\ StatementsBounded

\* No callback runs into a wrapper it was never given, and when nothing is under way every
\* prepare() and execute() is settled.
CallsSettled == ~crashed /\ (Idle => \A c \in Calls : how[c] # "none" => c \in settled)
=============================================================================

# The MariaDB Node.js connector in TLA+

Specifications of the connector in `src/lib`, model-checked with TLC on small
instances and, for what matters most, proved with TLAPS for every value of the
constants. `PROJECT.json` lists, for each definition, the lines of the source it
stands for; the line numbers below are those of the same commit.

* [The system](#the-system): its parts, what they keep, what is hard in them
* [The modules](#the-modules): which module models which part, and how
* [The runs](#the-runs): what each checks, with which bounds
* [Fairness](#fairness)
* [The proofs](#the-proofs)
* [What disagrees with the documentation](#what-disagrees-with-the-documentation)
* [What is not modelled](#what-is-not-modelled) and [the plan](#the-plan)

## The system

The connector is a single-threaded event-loop program. Its concurrency is that
of callbacks: a call of the client, a `process.nextTick`, a `setImmediate`, a
timer or a chunk from a socket runs to its end, and everything may have changed
before the next one runs. A step of the specifications is one such piece.

| Part | State it keeps | Operations |
|---|---|---|
| **Pool** `pool.js`, `pool-promise.js`, `pool-callback.js` | idle connections, active ones by thread id, queued requests, the flag and the timers of creation, the timer of the oldest request | `getConnection`, `release`, `destroy` of a connection, `end`; the callbacks that create, ping, reset, reap and time out |
| **Command queues** `connection.js`, `cmd/command.js` | `waitingAuthenticationQueue`, `sendQueue`, `receiveQueue`, `status`, the function `addCommand` points to | issuing a command, `end`, `destroy`, `ping`; events of socket and timers |
| **Packet dispatch** `io/packet-input-stream.js` | what is left of a packet cut by a chunk; the command cached for the next packet | `onData` |
| **Prepared statements** `cmd/prepare.js`, `cmd/execute.js`, `lru-prepare-cache.js`, `cmd/class/prepare-*.js` | LRU cache of statements, use counts, closed flags | `prepare`, `execute`, `close`, `reset` |
| **Cluster** `cluster.js`, `filtered-cluster.js` | nodes (pools), blacklist times, error counts, cached lists of matching nodes | `add`, `remove`, `getConnection` with retries, `end` |
| **Result parser** `cmd/parser.js`, `cmd/stream.js` | the method that reads the next packet; rows, several results | one method per kind of packet |
| **Connecting** `connection.js`, `cmd/handshake`, `cmd/change-user.js` | socket, timer, status, plugin and what it expects, session queries left | `connect`, handshake, plugin switch, session queries, redirection, `changeUser` |
| **Packet output** `io/packet-output-stream.js`, `cmd/batch-bulk.js` | the buffer being filled, a mark to go back to | writes; splitting at 16 MB; splitting a batch |
| **Batch** `connection.js` | rows sent and answered, in packets or one by one | `batch` |
| **Compression** `io/compression-*.js` | as input and output, one layer below | `onData`, `flush` |
| **Import** `connection.js`, `misc/parse.js` | a buffer of the file, the commands held back | `importFile` |
| **Pure parts** `misc/parse.js`, encoders, decoders, `io/packet.js`, `config` | none | lexing of placeholders, conversion of values, defaults |

How they interact. A client calls the pool, that hands out connections whose
`release`, `end` and `destroy` it has replaced by its own; the cluster calls
several pools. A call on a connection makes a command object and passes it to
`addCommand`, which is one of four functions according to the state of the
connection and to the option `pipelining`. A command writes itself to the packet
output; it announces by events (`send_end`, `end`) that the next may be sent.
Chunks of the socket go to `onData`, that hands each packet to the first command
of the `receiveQueue` that expects one. Statements that leave the cache issue
commands of their own, to close them on the server.

What is hard in each part, and what makes it correct:

* **Pool**. Pings, resets, creations and timers answer to a pool that has changed
  since they were started. Correct: never more than `connectionLimit`
  connections, two clients never have the same one, none is lost, no request
  waits while a connection is free or could be made, everything is closed after
  `end()`.
* **Command queues**. Three queues, two modes, commands that span several ticks
  because a parameter is a stream, and an end that can come from five sides.
  Correct: an answer goes to the command it belongs to, commands are sent in the
  order they were issued, nothing is written inside a stream, every promise is
  settled.
* **Dispatch**. The current command is kept in a variable while packets of the
  same chunk end it. Correct: the same result for every way to cut the bytes.
* **Prepared statements**. A statement is evicted, closed and executed by
  different actors, and found in the cache at a time that is not that of its
  execution. Correct: an execute runs the statement of its own SQL; a statement is
  closed once, after its last use.
* **Cluster**. Lists of matching nodes are cached, requests share the turn of the round
  robin and the blacklist, nodes come and go while they wait. Correct: a request is
  answered once, by a node that matches; blacklisted nodes are asked last, and a request
  is given up only when all are.
* **Parser**. The kind of a packet is guessed from its first byte, its length and what was read
  before. Correct: the answer is read to its end and no further, and given complete.
* **Connecting**. The server leads: plugins, their switches, session queries, redirection, while
  a timer runs. Correct: a connection is given out verified and prepared, the password goes
  nowhere it must not, what was rejected stays closed.
* **Output** and **batch**. Rows are packed until one does not fit, which is then taken back.
  Correct: the server reads each row once, with the types its packet declares, in packets it
  allows; the caller gets the answers in order, or one error.
* **Compression**. A second layer of the same framing.
* **Import**. Statements straddle reads of the file; the client's commands wait. Correct: the
  statements run as written, and the client does not notice more than a delay.
* **Placeholders**. Hand-written lexers must agree with the one of the server.

`PROJECT.json` lists the hazards one by one, each at its line, with the properties
that are about it.

## The modules

| Module | Models | Kind |
|---|---|---|
| `Pool` | the pool | state machine, ~60 actions and helpers |
| `PoolLease` | what a pool promises its clients | abstract specification |
| `MCPool` | symmetry of the instances | for TLC |
| `PoolProofs` | | proofs about `Pool` |
| `CommandQueue`, `MCCommandQueue`, `CommandQueueProofs` | the queues of one connection and the dispatch of packets | state machine |
| `PrepareCache`, `MCPrepareCache`, `PrepareCacheProofs` | prepared statements of one connection and their cache | state machine |
| `Cluster`, `MCCluster`, `ClusterProofs` | which node of a cluster a connection is asked of, retries, blacklist, removal | state machine |
| `PacketInput`, `CompressionInput`, `MCBytes`, `CompressionProofs` | chunks of bytes into packets, without and with the compression layer; the second extends the first | state machine |
| `CompressionOutput` (in `MCBytes`, proofs in `CompressionProofs`) | frames into compressed blocks, and their numbers | state machine |
| `Results`, `MCResults`, `ResultsProofs` | how a command reads its answer | state machine |
| `PacketOutput` | the output buffer and its frames | operators |
| `BatchBulk`, `Batch`, `MCBatch` | a batch sent in bulk through `PacketOutput`; the whole of `batch()` | state machines, the second composes the first |
| `AuthPlugins` | what each authentication plugin says and expects | operators |
| `Connect`, `MCConnect`, `ConnectProofs` | `connect()`, session queries, redirection, `changeUser` | state machine |
| `SqlLexer` | the automaton the four lexers of `misc/parse.js` share | operators |
| `ImportFile`, `MCImportFile` | `importFile()`, on top of `SqlLexer` | state machine |
| `SequenceFilter`, `SequenceLemmas` | filtering a sequence, by a recursive function; what the proofs need of sequences | operator, proofs |
| `QueryText` (in `MCBytes`) | placeholders, and the text a query becomes, on top of `SqlLexer` | state machine |

### Pool

A client is a user of the pool with at most one request or one connection at a
time; `call[cl]` says where that request stands and `lease[cl]` which connection it
is about:

    none --GetConnection--> ping --> hold --Release...--> reset --> none
                        \-> wait --IdleTick--> hold
                             \-> fail --RejectTick--> none
                                       reset --ResetFails--> stuck

`ping` is the validation of an idle connection in `getConnection` itself, `reping`
the same made for a queued request. The variables are the fields of `pool.js`
under their names where they have one (`idle`, `active`, `requests`,
`inCreation`...); pending callbacks are counters (`idleTicks` for the `nextTick`
emissions of `_idle`, `sizeChecks` and `errorChecks` for `setImmediate`s) and
armed timers are flags (`requestTimer`, `retrying`, `backoff`, `reaping`).
A connection is reset by a ROLLBACK, or, if it is one of `ResetConns`, by
COM_RESET_CONNECTION (option `resetAfterUse`, and a server recent enough). The second way
has no answer for failure (`ResetFails`): the client's call is `stuck` and the connection
stays where it is.
`LoopDrained` is Node's rule that no timer, immediate or socket event runs before
the `nextTick` queue is empty. Thread ids (`Conns`) are used again once nothing
refers to them (`Fresh`).

Time is abstract: an `acquireTimeout` may elapse whenever the loop is drained, in
the order of the queue (`DeadlinePasses`); creation fails for good or is retried
nondeterministically. `CheckRequestTimeouts`, `ProcessNextPendingRequest`,
`FindValidIdleConnection`, `ReleaseConnection`, `Discard` and `ManagePoolSize` are
the functions of the same names that several handlers call; each action makes all
the calls its handler makes.

`PoolLease` says what all this is for: a client that asks is lent a connection
nobody else has, or refused; what it has stays its own until it gives it back;
nobody can ask a closed pool. `ImplementsLease` maps the pool onto it.

### CommandQueue

One connection from `connect()` to its end. Commands are numbered in the order
they are issued: `Setup` (0) stands for the session queries the driver sends after
authentication, `1..MaxCalls` are the client's, `Quit` is the last. What each call is
(`kind`) and the option `pipelining` are chosen at the start and never change.

* `addCommand` is the function pointer; `AddCommandEnablePipeline`,
  `AddCommandEnable`, `AddCommandDisabled` and the queueing in `Call` are the four
  functions. `StartedFrom` computes the chain of commands one `nextSendCmd` starts:
  the `send_end` of each starts the next, until one that writes a stream.
* `stage` is the life of a command: `active` while it has an `onPacketReceive`.
* `wire` is what the server has received and not finished to answer. It answers in
  order; each answer is one packet or several.
* A chunk holds the end of up to `chunk` answers. The packets in it are handled by
  consecutive steps between which nothing else runs. `direct` is the local variable
  of the loop in `onData` that passes packets that look like rows straight to the
  command seen last; `cached` is the field `_cmd` that `receivePacket` uses.
* `tick` and `quitDone` are the `nextTick` callbacks of `end()`; `doomed` holds the
  commands with a `setImmediate(throwError)` coming; `killing` is the second
  connection that `destroy()` opens for its `KILL`.
* `handshake = "flush"` is the loop of `authSucceedHandler` that hands the waiting
  commands to `addCommand`, one per step, with nothing in between.

Authentication is one step that succeeds or fails; `Connect` has it in full, with
redirection and `changeUser`. `reset` is in `PrepareCache`, `importFile` in `ImportFile`.

### PrepareCache

The prepared statements of a connection with option `pipelining` (the default). A
*text* is a database and an SQL; a statement has the number of the call whose PREPARE
created it. The module has the cache as the sequence of its entries, most recent first, the
use counts and closed flags of the wrappers as functions of the statement, and of each call
(`how`, `wants`, `wrapper`, `bound`, `open`, `settled`) what its callbacks know: `bound` means
that `executeCommand.prepare` is set.

The queue is simpler than in `CommandQueue`: commands are sent as they are added, one
`SendNext` after the other before anything else happens, unless a stream is being written
(`blocked`). The server handles them in that order, so its answer is fixed when a command is
sent and joins `inFlight`; `Read...` is the client reading it. `ticks` are the `nextTick`
callbacks that settle promises: they run after all packets of a chunk, and client code runs among
them. A prepare found in the cache while the queue is being emptied emits `send_end` before
it schedules its own callback, which therefore comes after those of the commands it let go
(`nested`).

`Careless` says what the client does not wait for; the passing run has a client that waits for
the answer of a USE, of a `reset()` and for the end of a stream before it executes; with `"use"` or
`"stream"` in the set, `ExecutesOwnStatement` fails (see below). What is taken from the server: statements
belong to a session and to the database of their PREPARE, EXECUTE of -1 runs the last one
prepared, a failed PREPARE leaves none, and COM_RESET_CONNECTION drops them all (the comment of
`reset()`, `connection.js:653`).

### Cluster

The pools are numbered as `add()` creates them: a key that was removed and added again is
another pool, and a request that still waits for the old one holds on to it (`asked`) but
accounts for its refusal by the key (`NodeFailure`), as `_handleNodeFailure` does.
`nodes` is `#nodes` in the order of its keys, `cached` is `#cachedPatterns` with the turn of the round
robin (`lastRrIdx`) that is kept on each list. Pools are seen from outside: each settles a
request, with a connection (`NodeConnects`) or an error (`NodeFails`), which is what
`AcquireSettles` of `Pool` shows. A refusal and the retry that follows are one step, as they
are in the code: `Attempt` finds the nodes and the cache as the failure has left them.

`SelectPool` gives the choices of the two loops of `_selectPool`: the first node in turn or in order
that is neither blacklisted nor avoided, or the last one looked at, and then the next that is not
avoided. Picks at random may end at any node.

`Careless` names what the client of the passing run does not do, since the code does not cope:
add a node that matches a pattern it has used (`late`), add a key while the pool that had it is
asked (`again`), ask by callback for a pattern without nodes (`none`), end the cluster by callback with
requests pending (`end`). `undisturbed` is a history variable that `RefusedOnlyByAll` needs.

### PacketInput and CompressionInput

`onData` is a loop over the bytes of one chunk with five variables that survive it. Each branch of
the loop is an action (`HeaderAtHand`, `CutHeader`, `WholePacket`, `FullFrame`, `ChunkEnds`,
`EmptyFrame`, and the fast path's `Fast...`), and nothing else runs until the chunk is read. The
server's packets are sequences of numbered bytes, so that a packet delivered with bytes of
another one, or short of some, is seen. `Base` stands for the 256 values of a byte and `MaxLen`
for 0xffffff: with `Base` 2 a full frame has seven bytes and every boundary is within reach.
`CompressionInput` puts the other reader in front of it: the same stream travels in blocks, and the inflated
block is handed to `onData` in the same step. With `compress` off it is the socket.

`ServerCuts` names what is not promised: raw blocks that are joined behind a full one are inflated by the last
header only (see below); `Joined` says which blocks these are.

### CompressionOutput

The packet output hands over frame after frame (`FlushBufferBasic`), and nothing else runs until each is on
the wire: `WriteBuf` grows the buffer, a frame that does not fit is sent in parts (`Fill`, then `Flush` from
step `"stream"`), and `Flush` chooses between a raw and a deflated block. The bytes of a packet are
numbered, so that a byte lost or sent twice is seen; of zlib only the length it gives matters, half or up to
`Growth` more. `compressSequenceNo` is the command's: a packet begins a command (`NewCommand`), follows
another of the same without an answer (`SamePackets`, a bulk) or goes on behind an answer (`GoOnNumbered`).
Reading and writing share nothing but that number, which `GoOnNumbered` takes from the server: `MCBytes`
has both, and `QueryText` with them, and a behaviour of its run is of one of the three.

### Results

The server sends an answer packet by packet: OK packets, errors, sets with their columns (or
without, when the client has them cached), rows, the packets that end them in both versions of
the protocol, a request for a file. `server` is what it sends next, `handler` the function the
command's `onPacketReceive` points to. `IsEnd` is the guess of `readResultSetRow`. A stream has a reader that
may be slower than the socket (`HighWater`), and may be closed by the client at any time. A request for a
file may come alone, before or behind other results. `trouble` is what nothing is claimed after: a redirection
or an unknown character set in an OK packet, and `"thrown"`, an exception nobody catches, which ends the
program (`RejectUnguarded`: the file's errors go through a `reject` that may be null). The functions a streamed
command is given to resolve and reject do nothing (`stream.js:14`), and are set to null as others are.

### PacketOutput, BatchBulk, Batch

`PacketOutput` is the buffer of `packet-output-stream.js` as a record `o` and its operations as
operators: `WriteBuffer` fills, grows through `Levels` and flushes frames, `Mark`, `ResetMark` and
`FlushBufferStopAtMark` are what a bulk command uses to take back the row that does not fit.
`BatchBulk` walks through `sendComStmtBulkExecute` row by row; a byte is marked with its row, so
that `RowsSentOnce` can read the frames on the wire as the server does. `torn` says that data
behind a mark was sent at the boundary of a full packet: nothing is claimed after it (see
below). `Batch` prepares, chooses between `BatchBulk` and chunks of single executes, and closes.

### AuthPlugins and Connect

`AuthPlugins` gives for each of the seven plugins what it says and who reads the next packet; what it
says is a form (`"hash"`, `"clear"`, `"rsa"`...), not bytes. `Connect` has the exchange with one
plugin at a time (`exchange`), the packets a server may send in it, genuine or not, and TLS with its
three judgements of a certificate: `valid`, its chain is good; `tlsNamed`, it names the host `tls.connect`
asks for; `named`, it names the host `handshakeResult` asks for. What the code calls self-signed is whatever
`tls.connect` does not authorize (`SelfSigned`, `connection.js:1393`): a valid certificate of another host
too, whose server may then prove itself by the hash in the last OK packet (`Accepts`). Reading that hash
throws with client_ed25519, and for a hash of another kind (`FingerprintThrows`). Then come the session queries in their order, the timer, `connectRejectFct`, and
`changeUser` with its SET NAMES. `clearOn` remembers the channels on which the password was sent in clear. A
redirection swaps the socket; what the code does not cope with after it is exempt from
the properties by `redirect`. `ticks` are the pending `nextTick` callbacks in their order.

Left out: `end()` and `destroy()` before `connect()` resolves (`CommandQueue` has those), more
than one change of user, the several init queries (one stands for them).

### SqlLexer, ImportFile, QueryText

`splitQuery`, `splitQueryPlaceholder`, `searchPlaceholder` and `parseQueries` are one automaton that was
written four times; `Lex` is that automaton, and a `Dialect` says in which three details the
four differ. The server has a dialect of its own.

`ImportFile` reads a file in pieces of any size into a buffer of `2 * Half`, cuts statements off with
`parseQueries`, moves or grows the buffer as the code does, and sends each statement over
`prevAddCommand`, while the client's own queries go to `waiting`. An import called early has a
`prevAddCommand` that pushes to the waiting queue there is when it sends (`ToQueue`), another import's,
or fails where there is none (`CannotSend`). `log` is what the server has
executed, with its database. Overlapping imports, an import before the connection is ready, one
without a database, a failing read and a lost connection are in it.

`QueryText` types a text out of fragments, finds its placeholders, writes the query with values
and streams, and reads the result back as the server does (`Tokens`). Every fragment may follow every
other; `Misread` names the texts the driver does not read as the server does, from which both properties
are exempt.

## The runs

| Run | Instance | Shows |
|---|---|---|
| `pool_safety` | 3 clients that may release twice, 3 thread ids, one of them reset by COM_RESET_CONNECTION, limit 2, minimumIdle 1, reaper on; symmetric | the counts, the queue, no lost wake-up, a clean end |
| `pool_lease` | 2 clients, 3 thread ids, limit 2, minimumIdle 0, one release each, fairness | the pool implements `PoolLease` with connections that work; each request is answered, in order |
| `pool_reset` | 2 clients, 2 thread ids reset by COM_RESET_CONNECTION, limit 1, fairness | (violated) a release whose reset fails never settles |
| `command_queue` | 3 calls of five kinds, both settings of `pipelining`, calls made before the connection is there | dispatch, order, streams, errors, settling, `end()` |
| `prepare_cache` | 3 calls of mixed kinds, 2 SQL texts, 2 databases, a cache of 1 (2 calls: and none), one USE, reset or stream | use counts, closing, which text an EXECUTE runs, settling |
| `cluster` | 2 requests, 3 nodes and one more `add`, 2 patterns, in turn or in order, both APIs, removal at 2 errors, 1 blacklist that runs out | selection, retries, blacklist, cached lists, one answer each |
| `bytes` | reading: up to 3 packets of 1, 7, 8 or 14 bytes where a full frame has 7; chunks of 1, 3, 12 bytes or all; blocks of 3 and 7, deflated or not, or no compression; writing: 2 frames of 4 to 20 bytes where a block has 16, 3 deflated lengths, numbers modulo 3; texts of up to 4 of 15 fragments, 4 calls with strings, streams, arrays, names | the packets given to commands, and when; what the server inflates, and the numbers of blocks; placeholders and values as the server reads them |
| `results` | up to 2 results of up to 2 rows, 24 combinations of options, every packet the server may send | in step with the server, and complete |
| `batch` | up to 4 rows of four sizes, 3 of four types, 2 packet limits, every answer, loss of the link | what the server reads, what the caller gets |
| `connect` | 10 sets of options, 9 servers, 1 change of user, 2 queries | verification, the password, session queries, timer, `changeUser` |
| `connect_user` | the same | (violated) a change of user that fails is never reported |
| `import_file` | 15 situations: 6 files, databases wanted and selected, early and overlapping imports; reads of every size | statements as written, the client's queries, settling |

The properties. Several are conjunctions of parts that have names and comments of their own in
the module.

* `TypeOK` (`Pool`): the counters of pending callbacks stay natural: no callback runs that was not
  scheduled. The other modules' `TypeOK` document their state.
* `Capacity`: the limit counts connections that exist, are being established or are about to be;
  the code counts only the first, and it is the in-creation flag and the single retry chain that make
  up for the others.
* `AllAccountedFor`: `NothingLost` (an open connection is idle or in somebody's hands, unless a
  COM_RESET_CONNECTION that failed has lost it) and
  `QueueMatchesCalls` (each waiting client is queued once, nobody else is).
* `NoLostWakeup`: for each idle connection that could serve a request an emission is coming.
* `EndDrains`: what was under way when `end()` was called leaves nothing behind.
* `LeaseKept`: `ImplementsLease`, the refinement, with `LeaseExclusive` and `StoreIsAlive`: each
  connection is in one place, and alive where the pool hands it out without asking.
* `RequestsServed`: `AcquireSettles` (each request is answered), `QueueOrderKept`, and
  `GrowthIsPending` (if the pool can grow something is about to make it).
* `AnswersMatch`: `receivePacket`'s cached command, the head of the receiveQueue and the
  direct path of `onData` always name the command whose answer comes next.
* `SendOrder`: `StartOrder` and `SerialOneAtATime`; `StreamNotInterrupted`: what the server sees.
* `PipelineNeverStuck`: whoever is queued has somebody who will send it.
* `EverythingSettles`: `CallsSettle`, `EndCompletes`, `ErrorSettlesActive`.
* `StatementsClosed`: `ClosedWhenUnused` and `StatementsBounded`: statements are closed once, after
  their last use, and the server never keeps one that nobody can use again.
* `RightStatement`: `CacheCoherent` and `ExecutesOwnStatement`: the cache finds what its key says, and
  an EXECUTE runs the SQL of its own call in the database that call was made in.
* `CallsSettled`: whichever of PREPARE and EXECUTE fails first, the callbacks settle the call.
* `RightNodeAsked`: `AsksHealthyFirst`, `RetriesElsewhere`, `RefusedOnlyByAll`. Each attempt of a
  request takes one healthy node off the list, for all requests: as many attempts as nodes exhaust
  it. It is the argument behind the count of `remainingRetry`, and it fails when a blacklist runs
  out meanwhile.
* `EveryRequestAnswered`: an answer, and one (`OneAnswer`), whatever is removed or ended meanwhile.
* `PacketsDelivered`: the packets given to commands are the ones written, and
  none stays in the reader once its last byte is there.
* `BlocksRight`: the same of what is written compressed: every byte once, in blocks whose numbers and lengths are the
  ones the server goes by.
* `InStep`: the command expects what the server sends next, ends when the answer does, and ends a
  file by one empty packet (`OneEmptyPacket`). `AnswerFaithful`: results, rows, columns and errors are
  what was sent. `AnswerRead`: a paused or closed stream is read to its end.
* `PacketsRight`: `RowsSentOnce` and `PacketsAllowed`. `RowsAsDeclared`: the types in a packet's header
  are those of its rows. `BatchInStep`, `BatchFaithful`: one answer per packet or row, results in
  order, no new chunk after an error, one close. `BatchEnds`: the caller gets an answer.
* `ReadyOnlyIfVerified`, `PasswordKept`, `SessionPrepared`, `RejectedStaysClosed`: what a
  connection that is given out, or rejected, has gone through. A certificate that only `handshakeResult` finds to be
  another host's is exempt from `PasswordKept` (the password is gone by then), a redirection from
  `RejectedStaysClosed`. `NothingInsideExchange`: no command
  is written into a change of user. `ConnectSettles`: whatever the server does, or does not.
* `ImportFaithful`, `ClientUntouched`, `ImportSettles`, `HeldQueriesServed`: see the module. An import called
  early that then finds the waiting queue of another (`QueueShared`) is exempt from the first two. A client that had no database has the import's
  afterwards, as `file.test.js:119-130` expects.
* `PlaceholdersFound`: the placeholders found are those the server sees. `ReadAsMeant`: the server
  reads the client's text with each placeholder replaced by its value. Both but where `Misread` says so.

For each property `PROJECT.json` has a mutant: a plausible mistake in one definition, with which
the run finds the property violated.

Why these bounds are enough. *Pool*: two connections and three clients are what it takes for one
client to hold a connection, one to wait and one to come or go in between, and for a creation to
overlap with a release; a third thread id lets a dead connection and its replacement coexist.
More pending `nextTick` or `setImmediate` callbacks (`MaxTicks`, `MaxChecks`) only repeat an
emission that finds nothing to do. *Queues*: three calls give a command before, in and after a
stream or a ping, and `Setup` and `Quit` come on top; kind `prepare` behaves as `query` in every
respect but the last packet, so the run leaves `query` out. *Cache*: one place and two texts make every
second call evict a statement; three calls are one that holds a statement, one that evicts it and
one that needs it again, and one `Change` moves the database, drops the statements or blocks the
queue in between. `FewOfAKind` keeps the mixes of calls that differ. *Cluster*: two requests
interleave their turns; three nodes are one that fails, one that is blacklisted by the other
request and one to go to; `MaxPools` lets one key come back, `MaxRestores` one blacklist run out.
*Bytes in*: the lengths are one below, at and above a frame, and two frames; chunks of one and
three bytes cut every header everywhere; three packets put one behind an empty frame.
*Results*: two results give each kind before and after each other. *Batch*: rows of two bytes, of
most of a packet, of more than one, in pieces that end on a boundary; four rows make
two packets of two, or one row written again between others. *Connect*: the option sets and servers
are chosen one per path, which `MCConnect` names; a server sends at most `MaxPackets` packets
before its verdict, enough for a switch, a question and its answer. *Import*: files shorter and longer than the
buffer, a string, a comment or an identifier around each semicolon. *Text*: four fragments are a
placeholder between two others that may swallow it.

`CHECK_DEADLOCK FALSE` is in every configuration: a closed pool, a closed connection and an
answer that was read have nothing left to do.

## Fairness

*Pool.* `nextTick` callbacks run, time passes, and timers that are due fire as the loop
comes back to them (strong fairness, since clients may keep the loop busy meanwhile). A
ping is answered or times out. Pings of one client do not all fail for ever: the search
for an idle connection pings one after the other, `acquireTimeout` does not run during
it, and connections could come back as fast as they fail; strong fairness of
`PingSucceeds` excludes that. Only `pool_reset` supposes more (`ReleaseFairSpec`): a connection that
is given back hears from its server, or dies. Clients need not release and creations need not succeed.

*CommandQueue.* Callbacks run, streams end, the connection that kills is made or times
out (`connectTimeout`), and the server ends the answer of each command it has received
while the link is up; a server that never answers leaves a query pending, and the
connector has no remedy but its optional timeouts.

*Cluster.* Each pool settles a request (`acquireTimeout`).

*Results.* The server goes on, a reader goes on reading, a file ends. *Batch.* The server answers.
*Connect.* Callbacks run and the timer of `connect()` fires; nothing is asked of the server
(`LoopSpec`). Only `connect_user` supposes that it answers (`FairSpec`): even then the change of user
is not settled. *ImportFile.* The server answers, the disk is read, the loop goes on.

## The proofs

All theorems are about `Spec` (without fairness), for every value of the constants the
assumption of the module allows: any sets of clients, threads, keys or requests, any limits
and bounds. Where a theorem needs more, it says so in an `ASSUME` of its own, and it is what
the client of the run does not do either; the disagreements below tell what happens then.

### Pool

* `PoolTypeCorrect`: `TypeOK` is inductive. Not as shallow as it sounds: the counters of
  pending callbacks and timers stay natural because no callback runs that was not scheduled.
* `PoolClosedDrained`: the first half of `EndDrains`. Inductive with `TypeOK`; each action
  that may run on a closed pool is shown to add nothing.
* `PoolNoLostWakeup`, `PoolTimerForHead`: by one invariant, `Len(requests) <= idleTicks`
  or `Len(idle) <= idleTicks`, together with the timer's (`TimerForHead`: armed for the first
  queued request exactly while there is one); `ProcessNextPendingRequest` and
  `FindValidIdleConnection` are lemmas that say how much they take from each.
* `PoolCapacity`, `PoolCreationFlagAccurate`: neither is inductive. The invariant adds that
  at most one of `connecting` and `retrying` is 1, that on an open pool the flag says
  which, and that while a `backoff` is armed nothing is being created; a new creation needs
  `Total < connectionLimit` with no attempt under way, and a success turns the attempt into a
  connection. Lemmas about cardinalities give how `Total` moves in each helper.
* `PoolAllAccountedFor`: inductive with `TypeOK`, double releases included.
* `PoolEndDrains`: its second half follows from `EndedInactive`, that once `end()` has resolved
  no connection is active, which needs `AllAccountedFor` (what is active is in
  somebody's hands) and `ClosedDrained`.
* `PoolStoreIsAlive`, `PoolLeaseExclusive` (`DoubleRelease = FALSE`): together with what they lean on, that a lease
  held is one of `Conns` and that no call is at the second reset of a release made twice, they are `LeaseInv`,
  which is inductive with `TypeOK` and `AllAccountedFor`.
* `PoolImplementsLease`, `PoolLeaseKept` (`DoubleRelease = FALSE`): the refinement of `PoolLease`, one lemma per
  action: each maps to one step of the abstract service or to none.

### Command queues

`CommandQueueProofs` supposes `EarlyCalls \subseteq {"connecting"}`: the client may issue commands before
authentication, and neither issues any while the session queries run nor destroys the connection before it
is up. Everything else is free: the number of calls, their kinds, pipelining or not.

The queues hold increasing sequences of numbers, so each is given by the set of its elements
(`SameElements`), and nearly all is said about sets. `CQInv` is a conjunction of

* `Phases`: how the handshake, the status, the function `addCommand` points to and the pending callbacks go
  together; `Untouched` and `OnlySetup`: what there can be before the connection is usable;
* `Known`: the queues hold only commands issued, QUIT only on a connection that is ending;
* `Order`: all that is new comes after all that is active, in every queue and across them;
* `Match` (while usable): the active commands, those on the wire, and those of the `receiveQueue` that are not new are
  the same, and what is new is in both queues; `Remembered`: `_cmd` and the variable of the loop, if active, are
  the head of the queue and of the wire;
* `Streams`, `NeverStuck`, `SerialOneAtATime` and `ErrorSettlesActive`, which are properties in themselves.

Every action is one of three kinds. It *sends*: a first part of a queue is started (`Sent`, whose effect
`NextSends` derives from `nextSendCmd`); what that does to each conjunct is a lemma (`OrderSent`, `KnownSent`,
`MatchedSent`, `OneStreamSent`). It *adds* a command (`Enters`, `Added`, `AddedAlone`), which sends it or not. Or it
only *takes away* (`Shrinks`, `ShrinkStep`). `Reading` is the lemma about dispatch: whichever of its three ways onData
takes, it comes to the head of the wire, and the commands `receivePacket` drops before it expect nothing.
From the invariant follow `AnswersReachTheirCommands`, `SentInOrder`, `NothingLeftQueued`, `StreamsWhole` and
`FailureSettlesAll`.

### Cluster

`ClusterInv` says of the cached lists what `CacheCoherent` does, and with it that one key has one node, that the
records have their shape and, if no key is added again, that the pool a request is at is alone under its
key (`AskedIsAlone`).

* `ClusterCacheCoherent` (without `late`), `ClusterOneAnswer` (without `late` and `none`): the first from the
  invariant; the second is an action property, case by case over who may answer.
* `ClusterRightNodeAsked` (without `late` and `again`): both selectors are shown to come to a healthy node if there
  is one. For the round robin that is arithmetic, `TurnsReachAll`: as many turns as there are places lead to
  each, wherever they begin. `RetriesSuffice` is the invariant
  behind the refusals: as long as nothing disturbs a request, it has a retry left for every healthy node but the one it is at.

### Connect

From `ConnectAssumption` alone: every option, every server, any order of its packets.

* `ConnectPasswordKept`, `ConnectReadyOnlyIfVerified`: by `ConnectInv`, which follows the exchange (`ExchangeOK`): the server
  is `Verified`, or `connect()` has not accepted it (`Unaccepted`: nothing but the authentication is sent or queued); the channel
  is `Secured`, or nothing has been said yet; and a plugin that waits for the server may speak on this connection (`PluginAllowed`). Lemmas say of every plugin, at start and at
  each response, what it may write.
* `ConnectRejectedStaysClosed`: `CloseInv` adds what is left running when `connect()` rejects (`Closing`), and that a
  redirection is only followed by a connection that is alive (`Redirected`).
* `ConnectSessionPrepared`: `PrepInv` adds which session queries have been sent, answered and accepted (`Prepared`).
* `ConnectNothingInsideExchange`, for a client that begins no change of user while another one is under way. That is a
  hypothesis of the theorem, `[][OneAtATime]_vars`: as long as the call of one user waits, that of another does not move. It is
  needed: of two changes, the callback of the first (`connection.js:1722`) turns pipelining on again when the second has
  just begun. One change after another, in any number, is covered, and so are all queries beside it.
  `TurnInv` is inductive under it. Until `connect()` resolves it is `Approaching`: the session queries go out one by one, so that
  what is written during the handshake is the handshake. Afterwards it is `Handed` (who is listened to for `send_end`,
  and that a client that has not called is in no queue) and one of the cases of `Turns`: the change of user
  waits in the queue (`InTurn`), talks (`Talks`), will never be answered (`Lost`), or there is none (`Nobody`). In all but
  `Lost`, `AtMostOne` command on the wire can make the next one wait, and the queue of those to be answered is what is
  written and what is queued (`Level`). While a change talks it is that command, and the last one written.

### Prepared statements

Four invariants, each asking more of the client than the one before; `Careless` names what it does not wait for, and
each theorem supposes no more than its own argument needs. Every number of calls, statements, databases and every
cache size is covered, none (`prepareCacheLength` 0) included.

* `Closes`, whatever the client does. The hard part is `Counted` and `CloseTold`: the use count of a statement is the
  number of open wrappers of it; it is closed exactly when there is none and the cache has let it go; and the server
  still has a closed statement only while the CLOSE is queued. They need that a statement has a wrapper only
  once its own PREPARE is answered (`Own`), that a PREPARE is on its way once (`Unanswered`) and that the cache has
  no key and no statement twice (`Distinct`). `GetHitKeeps`, `CacheSetKeeps`, `CloseWrapperKeeps` and `ClearKeeps` say
  what each operation of the cache does to them. From it follow `PrepareCacheTypeCorrect` and
  `ClosedExactlyWhenUnused`.
* `Stages`, if the client does not call `execute()` while a stream is written (`"stream" \notin Careless`): of each call,
  which of PREPARE, EXECUTE, their answers and their callbacks may be under way together, and that what will settle it
  is (`Expected`). The delicate case is `AtOnce`: an EXECUTE that does not know its statement is right behind its own
  PREPARE, so that the last statement prepared is its own or none. From it follow
  `EveryCallSettled` and, with `Closes`, `NoStatementForgotten`.
* `UseOrder` and `RightText`, if the client waits for the answer of a USE (`"use" \notin Careless`): no PREPARE follows
  a USE that has not been answered, so the database the client knows when it makes a key is the one the server
  prepares in. From it follows `StatementsHaveTheirText`.
* `Sound`, if the client waits for everything (`Careless = {}`, as in the run): a reset finds no call under way (`Quiet`), and
  the server has every statement that is in use or may be found (`Alive`). From it and `RightText` follows
  `EveryExecuteRight`. A statement that is closed cannot be executed any more by `Closes`.

The hypotheses are needed: with `"stream"`, `CallsSettled` fails, with `"use"`, `RightStatement` (see below).

### Results

From `ResultsAssumption` alone: any number of results, rows and columns, any options, whatever the server sends next.
`Sound` follows what the server still has to send and what the command makes of it side by side, as long as no
redirection, no unknown character set and no exception has come in between (`trouble = "none"`):

* `Together`: which handler goes with which state of the server (a set that begins, one whose columns are
  known, rows, a file asked for), and that both come to the end at once; `Reading`: how much of the set
  that is read is there; `Settled`: what is given to the caller, and when; `Files`: each file has ended with one empty packet or is
  being sent;
* `Kept`, `MetaRight`: the results, rows and columns kept are the server's, in their places; `Streams`: so are the rows a
  stream has been given.

The rows of several results are one sequence for a stream: `FlattenSeq`, whose lemmas (`FlattenAppend`) are in
`SequenceLemmas`. From it follow `ResultsInStep` and `ResultsAnswerFaithful`.

### Reading packets

From `PacketInputAssumption` and `CompressionInputAssumption`: packets of any lengths and in any number, chunks of any sizes, blocks of any
size up to a full one, all, none or every other deflated, any number of values of a byte. `Pack` belongs to the
specification, not to the code: it is what `Deflate` multiplies a byte by to keep two in one, and must be greater than each
number that stands for a byte (`100 * p + i` is byte `i` of packet `p`, different for all as long as packets have no more than 100).

Where each frame and each block begins comes first, without the reader: `FramesFit`, `StreamBytes`, `BlocksFit`, `WireBytes` say what
the stream and the wire have at each place, from what `FlattenSeq` does (`FlattenPlaced` of `SequenceLemmas`: each of
the sequences is found behind the end of the one before it). Then the invariant of the reader, `ReaderAt(g)`, when it has been given the first `g` bytes of
the stream:

* `Given`: what it has left of its chunk is the end of those bytes;
* `DeliveredSoFar`: what it has delivered are the first packets, whole;
* `Place`: the place in the stream it has come to is the end of a packet (`Between`, `AtEnd`), or inside a
  frame `f` of the next one (`Within`): in its header, of which it keeps the bytes that were cut (`AtFrame`), or in its bytes, with as many to come as
  it thinks (`InFrame`), while `parts` holds all that came before.

Without compression `g` is what the socket has received (`PlainReader`). With it (`PackedReader`) the layer above has an invariant of the same shape,
`LayerAt(r, g)`, between the `r` bytes of the wire it has received and the `g` bytes of the stream it has handed on:

* `ZGiven`, `ZPlace`: its chunk, and its place in a block `b`, header or payload, what it keeps of it included;
* `Behind`: the stream was handed on to the beginning of block `b`, or, when full raw blocks are being joined, of the first of them;
* `Passed`: every block before `b` that is not joined to the next was handed on. So when both are idle no block that is complete
  is withheld (`ArrivedGiven`), and no packet that is.

`ZHeaderTells` and `BlockCargo` show that a block is what its header says and inflates to what was deflated (`InflateDeflate`, from what `\div` and `%`
do with `Pack`). `AlwaysPacketsDelivered` is `Spec => []PacketsDelivered`; that the server sends no full raw block last nor before a deflated one
is part of `Init` (`ServerCuts`), as in the run, for the reason given below.

### Compressed output

From `CompressionOutputAssumption` alone, which says of the constants what is so of the code's: blocks of `MaxBlock` bytes,
buffers no larger than one block with its header, the smallest with room for the header and four bytes, and frames no longer than a block and
four bytes, which is what `packet-output-stream.js` makes. `OutputInv` is

* `Fits`: what the buffer holds is at most a block, and what is left of a frame behind a full one is four bytes at most, for
  which the smallest buffer has room, though `allocateBuffer` counts four bytes for a header of seven;
* `Numbered`: the next block has the number the server waits for, or that number before it begins again at zero;
* `Faithful`: as long as no block is `Overlong`, each block says what it holds, and what the server has inflated, the buffer and what is left to
  write are, one behind the other, all that was written.

Numbers that begin again need what `%` does (`ModAdd`, `ModNext`), from the uniqueness of remainders.

### Sequences

The induction theorems of the library take an operator as a parameter, which no prover here instantiates.
`SequenceLemmas` states induction over a *set* of numbers or of sequences instead, from the least element of a
set of naturals, and with it what `Filter` does (`FilterAppend`, `FilterElements`) and what `FlattenSeq` does (`FlattenAppend`). The modules
filter with this `Filter` because the prover has no definition of `SelectSeq`.

### Only model-checked

* Liveness, and whatever speaks of `ENABLED`: out of the prover's reach. Of `EverythingSettles` its last part is proved
  (`FailureSettlesAll`).
* `PacketOutput`, `BatchBulk`, `Batch`: they use RECURSIVE operators.
* What depends on what recursive definitions compute for every input: `SqlLexer`, and `QueryText` and `ImportFile`, which are built on it.

## What disagrees with the documentation

*A change of user that fails* (`connect_user`). `changeUser` hands `authFailHandler` over as the function
that rejects (`connection.js:1744`); that handler does nothing on a connection that is
connected. The promise, or the callback declared with "err: SqlError | null", is never settled.

*A reset that fails* (`pool_reset`). `_getRevertFunction` passes `conn.reset` one callback
(`pool.js:945`), and `reset` takes one for success and one for failure (`connection.js:655`). When the connection
dies before COM_RESET_CONNECTION is answered, or a session query that is run again behind it is refused, nobody
is told: `_destroy` is not called, a connection that is alive stays in `#activeConnections` and takes a place of
`connectionLimit` for ever, and `release()`, whose callback is for "when complete" (`:901`), never settles. (An error
packet in answer to COM_RESET_CONNECTION itself is not seen: `readResetResponsePacket` reads any
packet as an OK, `reset.js:37`.) With a ROLLBACK all is well: the property holds with `ResetConns` empty.

The following were met while modelling; what shows each is in parentheses, for whoever wants
to see a trace.

*A proof with client_ed25519* (`FingerprintThrows` in `Connect`). "This will be replaced by fingerprint validation with ending
OK_PACKET" (`connection.js:1391`), but `hash()` of that plugin reads a variable `seed` that nobody declares
(`ed25519-password-auth.js:98`): the ReferenceError is thrown in the handler of the packet, and nobody catches it.
A server that sends a hash of another kind is met by a TypeError (`authentication.js:235`, `this.opts`).

*A file asked for behind a complaint* (`RejectUnguarded` in `Results`). An OK packet with an insert id that is too large, or a value
out of range, rejects the command, and "server exchange will still be read to keep the connection in a good state"
(`command.js:30`). If a later statement of the same text is a LOAD DATA LOCAL whose file is refused or cannot be
read, `process.nextTick(this.reject, error)` is called with null (`parser.js:760`, `:781`, `:802`, `:819`): the
TypeError is thrown in a handler of the socket or of the file, and nobody catches it.

Pool and queues:

* `release()` recognises a connection that was already released by its thread id in
  `#activeConnections` (`pool.js:423`). A second call made while the reset of the first runs
  passes the test; when its own reset is answered the connection may be somebody else's, and goes
  back to the idle ones (`LeaseExclusive` with `DoubleRelease`).
* With `idleTimeout` 0 no interval re-examines the size of the pool, and a request can wait for
  `acquireTimeout` though "Create a new one if limit is not reached" (`pool.js:731`;
  `GrowthIsPending` with `IdleTimeoutSet = FALSE`).
* `end()`, "Terminate connection gracefully" (`connection.js:699`): with pipelining QUIT is written
  behind the commands in flight and the next tick destroys the socket. The CHANGELOG (line 805) says
  the immediate resolution is on purpose; that the promises in flight stay pending is said nowhere.
* "send immediately only if no current active receiver" (`connection.js:1502`) tests that the
  `receiveQueue` is empty, and it can hold a command that is over: without pipelining the next one
  waits behind it for ever.
* `end()` of a pool resolves while a connection is still being created; newcomers overtake queued
  requests (`pool.js:757`); `acquireTimeout` does not run while idle connections are pinged
  (`pool.js:598`); `resetAfterUse` and `pingTimeout` have other defaults than documented; `destroy()`
  during the connection is undone when authentication succeeds (`connection.js:1313`); calls made while
  the session queries run overtake those made earlier, in spite of "preserving order"
  (`README.md:60`; `StartOrder` with `"init"` in `EarlyCalls`); the loss of the link is ignored after `end()`
  (`:1558`); commands waiting for authentication are not settled when it fails (`:1357`).

Prepared statements:

* "no command in the queue, the current database is known" (`connection.js:1793`) is said of a test
  that holds with commands in flight: an `execute()` made while a USE is in flight runs the
  statement of the other database (`ExecutesOwnStatement` with `Careless = {"use"}`).
* A PREPARE that finds its SQL in the cache when it is started leaves the EXECUTE behind it
  without a statement (`prepare.js:38`), which is sent with -1; its callback then throws
  (`Careless = {"stream"}`).
* `changeUser` keeps the cache although "Prepare commands will be released"
  (`connection-promise.js:42`).

Cluster:

* a node added after a pattern was used is not found under it, be it the only one that matches, until
  a removal clears the lists (`cluster.js:219`; `CacheCoherent` with `late`);
* `_getConnectionCallback` calls back twice where no node matches (`cluster.js:191`; `OneAnswer` with `none`);
* a refusal after `end()` finds `#nodes` null: the promise is rejected with a TypeError, the callback is
  never called and the TypeError not caught (`cluster.js:296`; `EveryRequestAnswered` with `end`);
* in order, of two nodes whose first is blacklisted the second is asked again after it has refused: the loop that is
  there "in order to choose a different node than to be avoided" (`cluster.js:276`) starts at index 1;
* a key that is added again is charged with the refusals of its old pool (`again`);
* the types give `removeNodeErrorCount` a default of 5 and `restoreNodeTimeout` one of 0
  (`types/share.d.ts`), the code infinity and 1000; with 0 a node is not removed but never blacklisted.

Bytes and answers:

* a full raw block followed by a deflated one is inflated with it (`compression-input-stream.js:107`;
  `DeliveredExact` without `ServerCuts`);
* a full block that does not compress is deflated to more than 0xffffff bytes and announced with the length modulo
  2^24; the test for an empty block behind it is for 0xffffff + 7 (`compression-output-stream.js:138`;
  `BlocksRight` without `Overlong`);
* a LOCAL INFILE of exactly 0xffffff bytes is not ended (`parser.js:827`); a redirection asked for in a session
  change passes no OK packet (`parser.js:285`); an unknown character set ends the command twice (`:274`).

Batches:

* "Check if parameter types have changed" (`batch-bulk.js:366`) is done for every row but the one behind a row
  that was written again in a new packet: it may be sent under other types (`RowsAsDeclared` without its
  exemption `unchecked`);
* the handler is not set back after the first error when sets are returned (`batch-bulk.js:455`); a
  loss of the link between packets may never settle the batch (`:608`); a row too large for any packet
  leaves the sendQueue closed;
* data behind the mark are sent when the buffer fills exactly (`packet-output-stream.js:307`, `torn`);
* a batch of no values never settles: the test for the last chunk compares with -1 (`connection.js:395`).

Connecting:

* `executeSessionTimeout` does not return its promise (`connection.js:1181`): a refusal is nobody's to handle and
  `connect()` succeeds;
* a `changeUser` issued with pipelined commands in flight is queued and never sent (`:1499`, `:1708`); a wrong
  collation leaves the connection without pipelining;
* a redirection swaps queues that are in use, and one that answers after the timer brings a rejected
  connection back (`:2165`);
* `end()` before `connect()` has resolved leaves its promise pending; a clear-text plugin asked again answers with
  the constant `password`; parsec goes on after its own error; `changeUser()` without options throws over
  TLS with a self-signed certificate.

Import and text:

* an import for want of a database rejects without giving the connection back (`connection.js:1945`): it
  accepts commands and never sends them (`HeldQueriesServed` without its exemption); a USE that is refused
  settles nothing (`:1955`); two imports that overlap, or one called too early, lose the commands held
  (`:1915`); one called too early may send its USE after another has selected the client's database again
  (`ClientUntouched` without `QueueShared`, `:1932`); on an error the database is not restored in spite of `:1995`; a last statement without its
  semicolon is not executed;
* `parseQueries` takes `--x` and `/*a*/*b` for comments;
* "Question marks in comment are not taken into account" (`parse.js:31`), but a comment that begins right behind a
  placeholder is not seen (`PlaceholdersFound` without `Misread`, `parse.js:114`, `++i`), and `/*/` is a whole comment (`:61`); `:=` is taken for a name; a stream value that fails never
  ends its query (`query.js:304`).

## What is not modelled

Cryptography of the authentication plugins, bytes of TLS, tables (`const/`, 2,900 lines), messages and
logging, option defaults, types of values and their conversion (encoders, decoders, `io/packet.js`): no
state, or out of a model checker's reach. Pool: leak detection, events, statistics. Results: named and
nested rows, debug variants. Output: the writers of numbers. Batch: named placeholders
and streams as values. Connect: capabilities bit by bit, overlapping changes of user, an unknown character set in the OK
packet (`authentication.js:150`) and a packet of no known kind (`:214`), each one more way to reject, a
redirection asked for in the answer to a change of user. Import: a file with
USE statements of its own, `importFile` of a pool. Text: objects, GeoJSON and dates as values, and
`permitSetMultiParamEntries`.

## The plan

Done: the components above, in the order of the table of modules, and the proofs above. Left, in order:

1. `executeStream` and `changeUser` in `PrepareCache`.
2. Decoding of lengths (`io/packet.js`) as operators against a reference.

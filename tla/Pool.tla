-------------------------------- MODULE Pool --------------------------------
(***************************************************************************)
(* The connection pool of lib/pool.js, as the event loop runs it.          *)
(*                                                                         *)
(* A client is one user of the pool: it asks for a connection, holds it,   *)
(* gives it back and may ask again.  A step of this specification is one   *)
(* uninterrupted piece of JavaScript: a call made by a client, a           *)
(* process.nextTick or setImmediate callback, a timer, or the answer of a  *)
(* server.  nextTick callbacks run before any timer, immediate or server   *)
(* answer (LoopDrained); clients may call the pool between them, which is  *)
(* what the callback API does.                                             *)
(***************************************************************************)
EXTENDS Integers, Sequences, FiniteSets

CONSTANTS
  Clients,           (* the users of the pool                              *)
  Conns,             (* identities (thread ids) of server connections      *)
  NoClient, NoConn,  (* neither a client nor a connection                  *)
  ConnectionLimit,   (* option connectionLimit                             *)
  ResetConns,        (* the connections that are reset by                  *)
                     (* COM_RESET_CONNECTION when they are given back      *)
                     (* (option resetAfterUse and a server recent enough); *)
                     (* the others are reset by a ROLLBACK                 *)
  MinimumIdle,       (* option minimumIdle, already cut to connectionLimit *)
  IdleTimeoutSet,    (* option idleTimeout > 0: idle connections are reaped*)
  DoubleRelease,     (* may a client call release() again before the first *)
                     (* call is finished?                                  *)
  MaxTicks,          (* bound on the pending '_idle' nextTick callbacks    *)
  MaxChecks          (* bound on the pending setImmediate size checks      *)

ASSUME PoolAssumption ==
  /\ NoClient \notin Clients
  /\ NoConn \notin Conns
  /\ IsFiniteSet(Conns)
  /\ ResetConns \subseteq Conns
  /\ ConnectionLimit \in Nat \ {0}
  /\ MinimumIdle \in 0..ConnectionLimit
  /\ IdleTimeoutSet \in BOOLEAN
  /\ DoubleRelease \in BOOLEAN
  /\ MaxTicks \in Nat
  /\ MaxChecks \in Nat

VARIABLES
  idle,         \* #idleConnections, oldest first
  active,       \* the keys of #activeConnections
  link,         \* "up" while isValid() of the connection would answer true
  requests,     \* #requests, the clients whose getConnection() is queued
  call,         \* where the current call of each client stands
  lease,        \* the connection that call is about
  again,        \* progress of a second release() on a connection
  late,         \* queued clients whose acquireTimeout has elapsed
  requestTimer, \* #requestTimeoutId: the client whose deadline it waits for
  inCreation,   \* #connectionInCreation
  connecting,   \* connections being established
  retrying,     \* armed #connectionCreationTask timers
  backoff,      \* #managePoolSizeTask is armed
  idleTicks,    \* nextTick callbacks that will emit '_idle'
  sizeChecks,   \* setImmediate callbacks that will emit 'validateSize'
  errorChecks,  \* setImmediate callbacks of the connections' 'error' handler
  reaping,      \* #unusedConnectionRemoverId is set
  phase         \* "open", "ending" (end() called) or "ended" (end() resolved)

leaseVars    == <<call, lease, again>>
queueVars    == <<requests, late, requestTimer>>
storeVars    == <<idle, active, link>>
creationVars == <<inCreation, connecting, retrying, backoff>>
loopVars     == <<idleTicks, sizeChecks, errorChecks>>
vars == <<storeVars, leaseVars, queueVars, creationVars, loopVars, reaping, phase>>

\* "stuck" is a release() that never settles; who waits for it calls no more.
CallStates == {"none", "ping", "reping", "wait", "fail", "hold", "reset", "stuck"}

TypeOK ==
  /\ idle \in Seq(Conns)
  /\ active \in SUBSET Conns
  /\ link \in [Conns -> {"up", "closed"}]
  /\ requests \in Seq(Clients)
  /\ call \in [Clients -> CallStates]
  /\ lease \in [Clients -> Conns \cup {NoConn}]
  /\ again \in [Conns -> {"no", "behind", "next"}]
  /\ late \in SUBSET Clients
  /\ requestTimer \in Clients \cup {NoClient}
  /\ inCreation \in BOOLEAN
  /\ connecting \in Nat
  /\ retrying \in Nat
  /\ backoff \in BOOLEAN
  /\ idleTicks \in Nat
  /\ sizeChecks \in Nat
  /\ errorChecks \in Nat
  /\ reaping \in BOOLEAN
  /\ phase \in {"open", "ending", "ended"}

-----------------------------------------------------------------------------
(***************************************************************************)
(* Helpers.                                                                *)
(***************************************************************************)
Closed == phase # "open"

Elements(q) == {q[i] : i \in DOMAIN q}

Total == Cardinality(active) + Len(idle)

\* No nextTick callback is pending: the loop may go to its next phase.
LoopDrained == idleTicks = 0 /\ \A cl \in Clients : call[cl] # "fail"

\* A thread id no part of the pool refers to any more: the server may hand it
\* out for a new connection.
Fresh(c) ==
  /\ link[c] = "closed"
  /\ c \notin active \cup Elements(idle)
  /\ again[c] = "no"
  /\ \A cl \in Clients : lease[cl] # c

\* Faulty variant of WantsConnection: one connection too many.
WantsConnectionOffByOne ==
  /\ ~Closed
  /\ Total <= ConnectionLimit
  /\ \/ Total < MinimumIdle
     \/ requests # <<>> /\ idle = <<>>

\* Everything _shouldCreateMoreConnections asks for but the in-creation flag.
WantsConnection ==
  /\ ~Closed
  /\ Total < ConnectionLimit
  /\ \/ Total < MinimumIdle
     \/ requests # <<>> /\ idle = <<>>

(***************************************************************************)
(* _managePoolSize, called at the end of a step: the store, the queue and  *)
(* the phase already have their next values.  creating and opening are the *)
(* in-creation flag and the number of connection attempts at the call.     *)
(***************************************************************************)
ManagePoolSize(creating, opening) ==
  LET start == WantsConnection' /\ ~backoff' /\ ~creating
  IN  /\ inCreation' = (creating \/ start)
      /\ connecting' = opening + (IF start THEN 1 ELSE 0)

(***************************************************************************)
(* _checkRequestTimeouts on the queue q: reject the leading requests whose *)
(* deadline has passed and arm the timer for the first of the others.      *)
(* before is the state of the calls when it runs.                          *)
(***************************************************************************)
CheckRequestTimeouts(q, before) ==
  \E k \in 0..Len(q) :
    /\ \A i \in 1..k : q[i] \in late
    /\ k < Len(q) => q[k + 1] \notin late
    /\ requests' = SubSeq(q, k + 1, Len(q))
    /\ requestTimer' = IF k < Len(q) THEN q[k + 1] ELSE NoClient
    /\ call' = [cl \in Clients |->
                  IF \E i \in 1..k : q[i] = cl THEN "fail" ELSE before[cl]]
    /\ late' = {cl \in late : call'[cl] = "wait"}

(***************************************************************************)
(* _processNextPendingRequest when the idle queue is q.                    *)
(***************************************************************************)
ProcessNextPendingRequest(q) ==
  \/ /\ requests = <<>>
     /\ idle' = q
     /\ requestTimer' = NoClient
     /\ UNCHANGED <<active, requests, late, call, lease>>
  \/ /\ requests # <<>>
     /\ q = <<>>
     /\ idle' = q
     /\ CheckRequestTimeouts(requests, call)
     /\ UNCHANGED <<active, lease>>
  \/ /\ requests # <<>>
     /\ q # <<>>
     /\ idle' = Tail(q)
     /\ active' = active \cup {Head(q)}
     /\ lease' = [lease EXCEPT ![Head(requests)] = Head(q)]
     /\ CheckRequestTimeouts(Tail(requests), [call EXCEPT ![Head(requests)] = "hold"])

\* Faulty variant of EnqueueRequest: the acquisition timer is not armed.
EnqueueWithoutTimer(cl) ==
  /\ requests' = Append(requests, cl)
  /\ call' = [call EXCEPT ![cl] = "wait"]
  /\ lease' = [lease EXCEPT ![cl] = NoConn]
  /\ UNCHANGED <<late, requestTimer>>

(***************************************************************************)
(* getConnection found no usable idle connection: the request is queued.   *)
(***************************************************************************)
EnqueueRequest(cl) ==
  /\ requests' = Append(requests, cl)
  /\ requestTimer' = IF requestTimer = NoClient THEN cl ELSE requestTimer
  /\ call' = [call EXCEPT ![cl] = "wait"]
  /\ lease' = [lease EXCEPT ![cl] = NoConn]
  /\ UNCHANGED late

\* A connection is idle at most once (StoreIsAlive): the loop over the idle
\* queue in _processIdleConnectionsOnError removes one element at most.
RemoveFromIdle(c) ==
  \/ /\ c \notin Elements(idle)
     /\ UNCHANGED idle
  \/ \E i \in DOMAIN idle :
       /\ idle[i] = c
       /\ idle' = SubSeq(idle, 1, i - 1) \o SubSeq(idle, i + 1, Len(idle))

\* The call of client cl is over.
Finish(cl) ==
  /\ call' = [call EXCEPT ![cl] = "none"]
  /\ lease' = [lease EXCEPT ![cl] = NoConn]

\* Faulty variant of FindValidIdleConnection: the pool is not checked to be
\* still open after the pings.
FindValidUnchecked(cl, others, retried) ==
  /\ idle' = <<>>
  /\ active' = others
  /\ EnqueueRequest(cl)
  /\ sizeChecks' = sizeChecks + 1

(***************************************************************************)
(* _findValidIdleConnection for client cl, once link has its next value:   *)
(* idle connections that are not valid are dropped.  The first valid one   *)
(* becomes active, and is handed over at once if it was used recently      *)
(* (minDelayValidation) or pinged first.  Without one the request is       *)
(* queued, or refused if the pool is closed.  others are the active        *)
(* connections before the search; retried tells that a ping failed just    *)
(* before, so that the pool size must be checked at the end.               *)
(***************************************************************************)
FindValidIdleConnection(cl, others, retried) ==
  \/ \E k \in DOMAIN idle :
       LET skipped == retried \/ k > 1
       IN  /\ link'[idle[k]] = "up"
           /\ \A i \in 1..(k - 1) : link'[idle[i]] = "closed"
           /\ idle' = SubSeq(idle, k + 1, Len(idle))
           /\ active' = others \cup {idle[k]}
           /\ lease' = [lease EXCEPT ![cl] = idle[k]]
           /\ UNCHANGED queueVars
           /\ \/ /\ call' = [call EXCEPT ![cl] = "hold"]
                 /\ sizeChecks' = sizeChecks + (IF skipped THEN 1 ELSE 0)
              \/ /\ call' = [call EXCEPT ![cl] = IF skipped THEN "reping" ELSE "ping"]
                 /\ UNCHANGED sizeChecks
  \/ /\ \A i \in DOMAIN idle : link'[idle[i]] = "closed"
     /\ idle' = <<>>
     /\ active' = others
     /\ \/ /\ ~Closed
           /\ EnqueueRequest(cl)
           /\ sizeChecks' = sizeChecks + (IF retried \/ idle # <<>> THEN 2 ELSE 1)
        \/ /\ Closed
           /\ Finish(cl)
           /\ sizeChecks' = sizeChecks + 1
           /\ UNCHANGED queueVars

(***************************************************************************)
(* The connection leaves the pool and is closed; 'validateSize' is emitted *)
(* at once.  canStopReaping tells _destroy from the destroy() that the     *)
(* pool puts over the connection's own.                                    *)
(***************************************************************************)
Discard(c, canStopReaping) ==
  /\ active' = active \ {c}
  /\ link' = [link EXCEPT ![c] = "closed"]
  /\ UNCHANGED <<idle, queueVars, retrying, backoff, loopVars, phase>>
  /\ reaping' = (reaping /\ ~(canStopReaping /\ Total' = 0))
  /\ ManagePoolSize(inCreation, connecting)

\* Faulty variant of ReleaseConnection: '_idle' is not emitted.
ReleaseSilently(c) ==
  /\ \/ /\ c \notin active
        /\ UNCHANGED <<storeVars, inCreation, connecting, reaping>>
     \/ /\ c \in active
        /\ Closed \/ link[c] = "closed"
        /\ Discard(c, TRUE)
     \/ /\ c \in active
        /\ ~Closed
        /\ link[c] = "up"
        /\ active' = active \ {c}
        /\ idle' = Append(idle, c)
        /\ UNCHANGED <<link, inCreation, connecting, reaping>>
  /\ UNCHANGED <<queueVars, retrying, backoff, loopVars, phase>>

(***************************************************************************)
(* pool.release(conn): back to the idle queue, unless the pool does not    *)
(* count the connection as active (any more), is closed, or the connection *)
(* is not valid.                                                           *)
(***************************************************************************)
ReleaseConnection(c) ==
  /\ \/ /\ c \notin active
        /\ UNCHANGED <<storeVars, inCreation, connecting, idleTicks, reaping>>
     \/ /\ c \in active
        /\ Closed \/ link[c] = "closed"
        /\ Discard(c, TRUE)
     \/ /\ c \in active
        /\ ~Closed
        /\ link[c] = "up"
        /\ active' = active \ {c}
        /\ idle' = Append(idle, c)
        /\ idleTicks' = idleTicks + 1
        /\ UNCHANGED <<link, inCreation, connecting, reaping>>
  /\ UNCHANGED <<queueVars, retrying, backoff, sizeChecks, errorChecks, phase>>

-----------------------------------------------------------------------------
(***************************************************************************)
(* Initial state: the constructor calls _managePoolSize.                   *)
(***************************************************************************)
Init ==
  /\ idle = <<>>
  /\ active = {}
  /\ link = [c \in Conns |-> "closed"]
  /\ requests = <<>>
  /\ call = [cl \in Clients |-> "none"]
  /\ lease = [cl \in Clients |-> NoConn]
  /\ again = [c \in Conns |-> "no"]
  /\ late = {}
  /\ requestTimer = NoClient
  /\ inCreation = (MinimumIdle > 0)
  /\ connecting = (IF MinimumIdle > 0 THEN 1 ELSE 0)
  /\ retrying = 0
  /\ backoff = FALSE
  /\ idleTicks = 0
  /\ sizeChecks = 0
  /\ errorChecks = 0
  /\ reaping = FALSE
  /\ phase = "open"

-----------------------------------------------------------------------------
(***************************************************************************)
(* Calls made by clients.                                                  *)
(***************************************************************************)

\* getConnection() while the pool is open; a closed pool answers with an error
\* at once and nothing changes.
GetConnection(cl) ==
  /\ call[cl] = "none"
  /\ ~Closed
  /\ sizeChecks < MaxChecks
  /\ UNCHANGED <<link, again, creationVars, idleTicks, errorChecks, reaping, phase>>
  /\ FindValidIdleConnection(cl, active, FALSE)

\* conn.release() on a connection that cannot be reused.
ReleaseInvalid(cl) ==
  /\ call[cl] = "hold"
  /\ Closed \/ link[lease[cl]] = "closed"
  /\ Finish(cl)
  /\ Discard(lease[cl], TRUE)
  /\ UNCHANGED again

\* Faulty variant of ReleaseWithReset: idle before the reset is over.
ReleaseBeforeReset(cl) ==
  /\ call[cl] = "hold"
  /\ ~Closed
  /\ link[lease[cl]] = "up"
  /\ call' = [call EXCEPT ![cl] = "reset"]
  /\ active' = active \ {lease[cl]}
  /\ idle' = Append(idle, lease[cl])
  /\ UNCHANGED <<link, queueVars, lease, again, creationVars, loopVars, reaping, phase>>

\* conn.release() with a ROLLBACK or COM_RESET_CONNECTION to wait for.  (With
\* option noControlAfterUse a client only takes ReleaseDirectly.)
ReleaseWithReset(cl) ==
  /\ call[cl] = "hold"
  /\ ~Closed
  /\ link[lease[cl]] = "up"
  /\ call' = [call EXCEPT ![cl] = "reset"]
  /\ UNCHANGED <<storeVars, queueVars, lease, again, creationVars, loopVars, reaping, phase>>

\* pool.release(conn) without any reset: option noControlAfterUse, and the end
\* of pool.query(), execute() and batch() whatever the option.
ReleaseDirectly(cl) ==
  /\ call[cl] = "hold"
  /\ idleTicks < MaxTicks
  /\ Finish(cl)
  /\ ReleaseConnection(lease[cl])
  /\ UNCHANGED again

\* conn.release() once more while the first call waits for its reset: a second
\* reset is queued on the connection.
ReleaseAgain(cl) ==
  /\ DoubleRelease
  /\ call[cl] = "reset"
  /\ ~Closed
  /\ link[lease[cl]] = "up"
  /\ again[lease[cl]] = "no"
  /\ again' = [again EXCEPT ![lease[cl]] = "behind"]
  /\ UNCHANGED <<storeVars, queueVars, call, lease, creationVars, loopVars, reaping, phase>>

\* conn.destroy() by the client that holds the connection.
DestroyConnection(cl) ==
  /\ call[cl] = "hold"
  /\ Finish(cl)
  /\ Discard(lease[cl], FALSE)
  /\ UNCHANGED again

\* pool.end(): idle connections are closed, queued requests are rejected on
\* nextTick, every timer is cleared and the pool stops listening to itself.
End ==
  /\ phase = "open"
  /\ phase' = "ending"
  /\ idle' = <<>>
  /\ link' = [c \in Conns |-> IF c \in Elements(idle) THEN "closed" ELSE link[c]]
  /\ requests' = <<>>
  /\ call' = [cl \in Clients |-> IF cl \in Elements(requests) THEN "fail" ELSE call[cl]]
  /\ late' = {}
  /\ requestTimer' = NoClient
  /\ retrying' = 0
  /\ backoff' = FALSE
  /\ reaping' = FALSE
  /\ UNCHANGED <<active, lease, again, inCreation, connecting, loopVars>>

-----------------------------------------------------------------------------
(***************************************************************************)
(* Callbacks run by process.nextTick.                                      *)
(***************************************************************************)

\* '_idle' is emitted: nobody listens once the pool is closed.
IdleTick ==
  /\ idleTicks > 0
  /\ idleTicks' = idleTicks - 1
  /\ \/ /\ ~Closed
        /\ ProcessNextPendingRequest(idle)
     \/ /\ Closed
        /\ UNCHANGED <<idle, active, queueVars, call, lease>>
  /\ UNCHANGED <<link, again, creationVars, sizeChecks, errorChecks, reaping, phase>>

\* The rejecter of a request that timed out or met the end of the pool.
RejectTick(cl) ==
  /\ call[cl] = "fail"
  /\ Finish(cl)
  /\ UNCHANGED <<storeVars, queueVars, again, creationVars, loopVars, reaping, phase>>

-----------------------------------------------------------------------------
(***************************************************************************)
(* Callbacks run by setImmediate, and timers.                              *)
(***************************************************************************)

\* 'validateSize' is emitted.
SizeCheck ==
  /\ LoopDrained
  /\ sizeChecks > 0
  /\ sizeChecks' = sizeChecks - 1
  /\ UNCHANGED <<storeVars, leaseVars, queueVars, retrying, backoff, idleTicks, errorChecks,
                 reaping, phase>>
  /\ ManagePoolSize(inCreation, connecting)

\* Faulty variant of ErrorCheck: runs without having been scheduled.
ErrorCheckUnscheduled ==
  /\ LoopDrained
  /\ errorChecks' = errorChecks - 1
  /\ UNCHANGED <<storeVars, leaseVars, queueVars, creationVars, idleTicks, sizeChecks,
                 reaping, phase>>

\* The deferred part of the connections' 'error' handler.
ErrorCheck ==
  /\ LoopDrained
  /\ errorChecks > 0
  /\ errorChecks' = errorChecks - 1
  /\ UNCHANGED <<storeVars, leaseVars, queueVars, retrying, backoff, idleTicks, sizeChecks,
                 reaping, phase>>
  /\ IF requests # <<>>
       THEN ManagePoolSize(inCreation, connecting)
       ELSE UNCHANGED <<inCreation, connecting>>

\* The clock passes the deadline of a queued request.  Deadlines follow the
\* order of the queue: every request waits for the same acquireTimeout.
DeadlinePasses ==
  /\ \E i \in DOMAIN requests :
       /\ requests[i] \notin late
       /\ \A j \in 1..(i - 1) : requests[j] \in late
       /\ late' = late \cup {requests[i]}
  /\ UNCHANGED <<storeVars, leaseVars, requests, requestTimer, creationVars, loopVars,
                 reaping, phase>>

\* The timer of #requestTimeoutId fires.
RequestTimeout ==
  /\ LoopDrained
  /\ requestTimer \in late
  /\ CheckRequestTimeouts(requests, call)
  /\ UNCHANGED <<storeVars, lease, again, creationVars, loopVars, reaping, phase>>

\* The retry timer of a connection attempt fires.
RetryTimer ==
  /\ LoopDrained
  /\ retrying > 0
  /\ retrying' = retrying - 1
  /\ connecting' = connecting + 1
  /\ UNCHANGED <<storeVars, leaseVars, queueVars, inCreation, backoff, loopVars, reaping, phase>>

\* The timer of #managePoolSizeTask fires.
BackoffTimer ==
  /\ LoopDrained
  /\ backoff
  /\ backoff' = FALSE
  /\ UNCHANGED <<storeVars, leaseVars, queueVars, retrying, loopVars, reaping, phase>>
  /\ IF requests # <<>>
       THEN ManagePoolSize(inCreation, connecting)
       ELSE UNCHANGED <<inCreation, connecting>>

\* The reaping interval: the oldest idle connections above minimumIdle that
\* are unused for longer than idleTimeout are closed.
RemoveIdleConnections ==
  /\ LoopDrained
  /\ reaping
  /\ \E k \in 0..Len(idle) :
       /\ k > 0 => k <= Len(idle) - MinimumIdle
       /\ idle' = SubSeq(idle, k + 1, Len(idle))
       /\ link' = [c \in Conns |-> IF \E i \in 1..k : idle[i] = c THEN "closed" ELSE link[c]]
  /\ UNCHANGED <<active, leaseVars, queueVars, retrying, backoff, loopVars, phase>>
  /\ reaping' = (Total' # 0)
  /\ ManagePoolSize(inCreation, connecting)

-----------------------------------------------------------------------------
(***************************************************************************)
(* Answers of servers and failures of connections.                         *)
(***************************************************************************)

\* _prepareNewConnection: the connection joins the idle queue, the first
\* queued request is served, and another creation starts if one is needed.
ConnectSucceeds ==
  /\ LoopDrained
  /\ connecting > 0
  /\ ~Closed
  /\ \E c \in Conns :
       /\ Fresh(c)
       /\ link' = [link EXCEPT ![c] = "up"]
       /\ ProcessNextPendingRequest(Append(idle, c))
  /\ reaping' = (reaping \/ IdleTimeoutSet)
  /\ UNCHANGED <<again, retrying, backoff, loopVars, phase>>
  /\ ManagePoolSize(FALSE, connecting - 1)

\* The connection is established after pool.end(): it is closed again.
ConnectSucceedsTooLate ==
  /\ LoopDrained
  /\ connecting > 0
  /\ Closed
  /\ inCreation' = FALSE
  /\ connecting' = connecting - 1
  /\ UNCHANGED <<storeVars, leaseVars, queueVars, retrying, backoff, loopVars, reaping, phase>>

\* The attempt fails for good (credentials refused, initializationTimeout
\* passed, pool closed): the next attempt waits for the backoff timer.
ConnectFailsForGood ==
  /\ LoopDrained
  /\ connecting > 0
  /\ inCreation' = FALSE
  /\ connecting' = connecting - 1
  /\ backoff' = ~Closed
  /\ UNCHANGED <<storeVars, leaseVars, queueVars, retrying, loopVars, reaping, phase>>

\* The attempt fails and is retried by a timer.
ConnectFailsOnce ==
  /\ LoopDrained
  /\ connecting > 0
  /\ ~Closed
  /\ connecting' = connecting - 1
  /\ retrying' = retrying + 1
  /\ UNCHANGED <<storeVars, leaseVars, queueVars, inCreation, backoff, loopVars, reaping, phase>>

\* The ping of an idle connection is answered, after the resets sent before it.
\* The connection goes to the caller even if the pool was closed meanwhile.
PingSucceeds(cl) ==
  /\ LoopDrained
  /\ call[cl] \in {"ping", "reping"}
  /\ link[lease[cl]] = "up"
  /\ again[lease[cl]] = "no"
  /\ call' = [call EXCEPT ![cl] = "hold"]
  /\ sizeChecks' = sizeChecks + (IF call[cl] = "reping" THEN 1 ELSE 0)
  /\ UNCHANGED <<storeVars, queueVars, lease, again, creationVars, idleTicks, errorChecks,
                 reaping, phase>>

\* Faulty variant of PingFails: the connection stays among the active ones.
PingFailsStillActive(cl) ==
  /\ LoopDrained
  /\ call[cl] \in {"ping", "reping"}
  /\ link' = [link EXCEPT ![lease[cl]] = "closed"]
  /\ FindValidIdleConnection(cl, active, TRUE)
  /\ UNCHANGED <<again, creationVars, idleTicks, errorChecks, reaping, phase>>

\* The ping times out or meets the death of the connection (an error packet is
\* read as an answer, see readPingResponsePacket): the
\* search for a valid idle connection goes on.
PingFails(cl) ==
  /\ LoopDrained
  /\ call[cl] \in {"ping", "reping"}
  /\ link' = [link EXCEPT ![lease[cl]] = "closed"]
  /\ FindValidIdleConnection(cl, active \ {lease[cl]}, TRUE)
  /\ UNCHANGED <<again, creationVars, idleTicks, errorChecks, reaping, phase>>

\* A second release() of c moves up when the reset of the first is over.
MoveUp(c) == again' = [again EXCEPT ![c] = IF @ = "behind" THEN "next" ELSE "no"]

\* The reset before a release is over: the connection is released.  (An error
\* packet that answers COM_RESET_CONNECTION is read as an answer, see
\* readResetResponsePacket; Connection.reset() then runs its session queries.)
ResetSucceeds(cl) ==
  /\ LoopDrained
  /\ call[cl] = "reset"
  /\ link[lease[cl]] = "up"
  /\ again[lease[cl]] # "next"
  /\ Finish(cl)
  /\ MoveUp(lease[cl])
  /\ ReleaseConnection(lease[cl])

\* The ROLLBACK fails: the connection is closed and leaves the pool.
RollbackFails(cl) ==
  /\ LoopDrained
  /\ call[cl] = "reset"
  /\ lease[cl] \notin ResetConns
  /\ again[lease[cl]] # "next"
  /\ Finish(cl)
  /\ MoveUp(lease[cl])
  /\ Discard(lease[cl], TRUE)

\* The connection dies before COM_RESET_CONNECTION is answered, or one of the
\* session queries after it fails.  Connection.reset() has been given no reject
\* function: the pool is not told, the connection stays where it is and
\* release() never settles.
ResetFails(cl) ==
  /\ LoopDrained
  /\ call[cl] = "reset"
  /\ lease[cl] \in ResetConns
  /\ again[lease[cl]] # "next"
  /\ call' = [call EXCEPT ![cl] = "stuck"]
  /\ MoveUp(lease[cl])
  /\ UNCHANGED <<storeVars, queueVars, lease, creationVars, loopVars, reaping, phase>>

\* The reset of a second release() is over.
SecondResetSucceeds(c) ==
  /\ LoopDrained
  /\ again[c] = "next"
  /\ link[c] = "up"
  /\ again' = [again EXCEPT ![c] = "no"]
  /\ ReleaseConnection(c)
  /\ UNCHANGED <<call, lease>>

\* The ROLLBACK of a second release() fails.
SecondRollbackFails(c) ==
  /\ LoopDrained
  /\ c \notin ResetConns
  /\ again[c] = "next"
  /\ again' = [again EXCEPT ![c] = "no"]
  /\ Discard(c, TRUE)
  /\ UNCHANGED <<call, lease>>

\* The reset by COM_RESET_CONNECTION of a second release() fails, and nobody is
\* told.
SecondResetFails(c) ==
  /\ LoopDrained
  /\ c \in ResetConns
  /\ again[c] = "next"
  /\ again' = [again EXCEPT ![c] = "no"]
  /\ UNCHANGED <<storeVars, call, lease, queueVars, creationVars, loopVars, reaping, phase>>

\* An established connection dies and emits 'error'; the calls that wait for
\* an answer on it fail later.
ConnectionError(c) ==
  /\ LoopDrained
  /\ link[c] = "up"
  /\ errorChecks < MaxChecks
  /\ link' = [link EXCEPT ![c] = "closed"]
  /\ active' = active \ {c}
  /\ RemoveFromIdle(c)
  /\ errorChecks' = errorChecks + 1
  /\ UNCHANGED <<leaseVars, queueVars, creationVars, idleTicks, sizeChecks, reaping, phase>>

\* The connections still in use are given back, or ten seconds have passed and
\* they are destroyed: the promise of pool.end() resolves.
EndResolves ==
  /\ LoopDrained
  /\ phase = "ending"
  /\ phase' = "ended"
  /\ active' = {}
  /\ link' = [c \in Conns |-> IF c \in active THEN "closed" ELSE link[c]]
  /\ UNCHANGED <<idle, leaseVars, queueVars, creationVars, loopVars, reaping>>

-----------------------------------------------------------------------------
ClientNext ==
  \/ \E cl \in Clients :
       \/ GetConnection(cl)
       \/ ReleaseInvalid(cl) \/ ReleaseWithReset(cl) \/ ReleaseDirectly(cl)
       \/ ReleaseAgain(cl) \/ DestroyConnection(cl)
  \/ End

LoopNext ==
  \/ IdleTick
  \/ \E cl \in Clients : RejectTick(cl)
  \/ SizeCheck \/ ErrorCheck \/ DeadlinePasses \/ RequestTimeout
  \/ RetryTimer \/ BackoffTimer \/ RemoveIdleConnections

ServerNext ==
  \/ ConnectSucceeds \/ ConnectSucceedsTooLate \/ ConnectFailsForGood \/ ConnectFailsOnce
  \/ \E cl \in Clients :
       \/ PingSucceeds(cl) \/ PingFails(cl)
       \/ ResetSucceeds(cl) \/ RollbackFails(cl) \/ ResetFails(cl)
  \/ \E c \in Conns :
       \/ SecondResetSucceeds(c) \/ SecondRollbackFails(c) \/ SecondResetFails(c)
       \/ ConnectionError(c)
  \/ EndResolves

Next == ClientNext \/ LoopNext \/ ServerNext

Spec == Init /\ [][Next]_vars

(***************************************************************************)
(* What the event loop guarantees: nextTick callbacks run, time passes,    *)
(* a timer that is due fires and a ping is answered or times out, as the   *)
(* loop comes back to its timers and its sockets again and again.  Clients *)
(* and servers are free to do nothing, but servers that answer pings do    *)
(* not let every ping of a client fail for ever: acquireTimeout does not   *)
(* run during a ping, so nothing else would end such a search.             *)
(***************************************************************************)
Fairness ==
  /\ WF_vars(IdleTick)
  /\ \A cl \in Clients : WF_vars(RejectTick(cl))
  /\ WF_vars(DeadlinePasses)
  /\ SF_vars(RequestTimeout)
  /\ \A cl \in Clients : SF_vars(PingSucceeds(cl))
  /\ \A cl \in Clients : SF_vars(PingSucceeds(cl) \/ PingFails(cl))

FairSpec == Spec /\ Fairness

\* A connection that is given back hears from its server, or dies.
ReleaseFairness ==
  \A cl \in Clients : SF_vars(ResetSucceeds(cl) \/ RollbackFails(cl) \/ ResetFails(cl))

ReleaseFairSpec == FairSpec /\ ReleaseFairness

-----------------------------------------------------------------------------
(***************************************************************************)
(* Properties.                                                             *)
(***************************************************************************)

\* A client has a connection until the release of it is over.
Holds(cl) == call[cl] \in {"ping", "reping", "hold", "reset", "stuck"}

\* The pool never counts, establishes and is about to establish more than
\* connectionLimit connections together, whatever fails, is released twice or
\* dies while another connection is created (_managePoolSize).
Capacity == Total + connecting + retrying <= ConnectionLimit

\* #connectionInCreation is set exactly while one creation runs: never two at
\* once, and never a flag left behind that would stop the pool from growing.
CreationFlagAccurate ==
  /\ connecting + retrying <= 1
  /\ ~Closed => (inCreation <=> connecting + retrying = 1)
  /\ backoff => ~inCreation

\* A connection is idle once or active, not both, and every connection the
\* pool counts is alive: what is handed over without a ping is valid when the
\* client gets it (_processNextPendingRequest does not look).
StoreIsAlive ==
  /\ \A i, j \in DOMAIN idle : idle[i] = idle[j] => i = j
  /\ active \cap Elements(idle) = {}
  /\ \A c \in active \cup Elements(idle) : link[c] = "up"

\* A connection is given to one client at a time: what a client holds is not
\* idle and is held by nobody else until that client gives it back.
LeaseExclusive ==
  \A cl \in Clients : Holds(cl) =>
    /\ lease[cl] \notin Elements(idle)
    /\ \A other \in Clients \ {cl} : Holds(other) => lease[other] # lease[cl]

\* No connection is lost: an open one is idle or active, and an active one is
\* in the hands of a client that can still give it back.  A lost one would
\* take a place of connectionLimit, or a socket, for ever.  The code loses one
\* when the reset by COM_RESET_CONNECTION fails before a release; it may lose
\* none in any other way.
Keeps(cl) == Holds(cl) /\ (call[cl] = "stuck" => lease[cl] \in ResetConns)
NothingLost ==
  /\ \A c \in Conns : link[c] = "up" => c \in active \cup Elements(idle)
  /\ \A c \in active : \E cl \in Clients : Keeps(cl) /\ lease[cl] = c

\* No lost wake-up: while requests are queued, every idle connection that could
\* serve one has an '_idle' emission coming, even when another client took a
\* connection between the release and the emission.
NoLostWakeup == Len(requests) <= idleTicks \/ Len(idle) <= idleTicks

\* The acquisition timer is armed for the first queued request exactly while
\* there is one: a request cannot outlive its acquireTimeout unnoticed.
TimerForHead ==
  requestTimer = IF requests = <<>> THEN NoClient ELSE Head(requests)

\* The queue holds each waiting client once and nobody else, so that a request
\* is neither forgotten nor answered twice.
QueueMatchesCalls ==
  /\ \A i, j \in DOMAIN requests : requests[i] = requests[j] => i = j
  /\ \A cl \in Clients : call[cl] = "wait" <=> cl \in Elements(requests)
  /\ late \subseteq Elements(requests)

\* Nothing is forgotten, no connection and no request.
AllAccountedFor == NothingLost /\ QueueMatchesCalls

\* After end() nothing is queued or idle, also when a ping or a creation that
\* was running at that time finishes later; once end() has resolved, no
\* connection of the pool is open.
ClosedDrained == Closed => idle = <<>> /\ requests = <<>> /\ retrying = 0 /\ ~backoff
EndedShut == phase = "ended" => \A c \in Conns : link[c] = "closed"
EndDrains == ClosedDrained /\ EndedShut

\* While a request waits, nothing is idle and the limit is not reached,
\* something that will look at the pool size is on its way.
GrowthIsPending ==
  (requests # <<>> /\ idle = <<>> /\ Total < ConnectionLimit) =>
    \/ inCreation \/ backoff
    \/ sizeChecks > 0 \/ errorChecks > 0
    \/ \E cl \in Clients : call[cl] = "reping"
    \/ reaping

\* Requests that stay queued keep their order: a request that finds no
\* connection goes back to the front, not to the end.
Before(a, b) == \E i, j \in DOMAIN requests : i < j /\ requests[i] = a /\ requests[j] = b
QueueOrderKept ==
  [][\A a, b \in Clients :
       Before(a, b) /\ call'[a] = "wait" /\ call'[b] = "wait" => Before(a, b)']_vars

\* A client that asks is answered, as long as clients do not keep the loop from
\* ever draining its nextTick callbacks (an endless chain of them starves the
\* timers of any Node.js program).
Asking(cl) == call[cl] \in {"ping", "reping", "wait", "fail"}
AcquireSettles ==
  []<>LoopDrained => \A cl \in Clients : Asking(cl) ~> ~Asking(cl)

\* "callback - Callback function when complete" (_handleRelease): a release()
\* that waits for its reset is completed.
ReleaseCompletes ==
  []<>LoopDrained => \A cl \in Clients : call[cl] = "reset" ~> call[cl] = "none"

\* The pool implements the lease service: one answer per request, and a
\* connection belongs to its client until the reset of its release is over.
Lease == INSTANCE PoolLease WITH
  status <- [cl \in Clients |->
               IF call[cl] = "none" THEN "out" ELSE
               IF Asking(cl) THEN "asking" ELSE "holding"],
  owned <- [cl \in Clients |->
              IF call[cl] \in {"hold", "reset", "stuck"} THEN lease[cl] ELSE NoConn],
  open <- ~Closed
ImplementsLease == Lease!Spec

\* What a client is lent is its own and works: the lease service is implemented
\* with connections that are open and in one place only.
LeaseKept == ImplementsLease /\ [][LeaseExclusive' /\ StoreIsAlive']_vars

\* Requests are served, in the order they were queued: something that makes a
\* connection for them, or takes one, is always on its way.
RequestsServed == AcquireSettles /\ QueueOrderKept /\ []GrowthIsPending

=============================================================================

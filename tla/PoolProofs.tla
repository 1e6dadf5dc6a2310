----------------------------- MODULE PoolProofs -----------------------------
(***************************************************************************)
(* Proofs about the connection pool, for every set of clients and          *)
(* connections and every limit: its types, what end() drains, the queue    *)
(* that never sleeps while it could be served, the limit that is never     *)
(* exceeded, and that connections and requests are all accounted for: with *)
(* or without double releases. That no connection is lent twice, and that  *)
(* the pool implements the lease service of PoolLease, is proved for       *)
(* clients that do not release a connection twice, as the code lets a      *)
(* second release() take the connection from its next client.              *)
(***************************************************************************)
EXTENDS Pool, FiniteSetTheorems, TLAPS

-----------------------------------------------------------------------------
(***************************************************************************)
(* Two facts about sequences.                                              *)
(***************************************************************************)

\* The head of a sequence with elements.
LEMMA NonEmptyHead ==
  ASSUME NEW S, NEW s \in Seq(S), Len(s) > 0
  PROVE  s # <<>> /\ Head(s) = s[1]
OBVIOUS

\* A sequence without one of its elements.
LEMMA RemoveOne ==
  ASSUME NEW S, NEW s \in Seq(S), NEW i \in DOMAIN s
  PROVE  /\ SubSeq(s, 1, i - 1) \o SubSeq(s, i + 1, Len(s)) \in Seq(S)
         /\ Len(SubSeq(s, 1, i - 1) \o SubSeq(s, i + 1, Len(s))) = Len(s) - 1
         /\ Len(s) \in Nat
<1>1. i \in 1..Len(s) /\ Len(s) \in Nat
  OBVIOUS
<1>2. SubSeq(s, 1, i - 1) \in Seq(S) /\ Len(SubSeq(s, 1, i - 1)) = i - 1
  BY <1>1
<1>3. SubSeq(s, i + 1, Len(s)) \in Seq(S) /\ Len(SubSeq(s, i + 1, Len(s))) = Len(s) - i
  BY <1>1
<1>4. ASSUME NEW a \in Seq(S), NEW b \in Seq(S)
      PROVE  a \o b \in Seq(S) /\ Len(a \o b) = Len(a) + Len(b)
  OBVIOUS
<1>5. Len(SubSeq(s, 1, i - 1)) + Len(SubSeq(s, i + 1, Len(s))) = Len(s) - 1
  BY <1>1, <1>2, <1>3
<1>6. QED
  BY <1>1, <1>2, <1>3, <1>4, <1>5

-----------------------------------------------------------------------------
(***************************************************************************)
(* Types of what the shared parts of the actions assign.                   *)
(***************************************************************************)

\* What _managePoolSize assigns.
LEMMA ManageType ==
  ASSUME NEW creating \in BOOLEAN, NEW opening \in Nat,
         ManagePoolSize(creating, opening)
  PROVE  inCreation' \in BOOLEAN /\ connecting' \in Nat
BY DEF ManagePoolSize

\* What _checkRequestTimeouts assigns.
LEMMA CheckType ==
  ASSUME TypeOK,
         NEW q \in Seq(Clients), NEW before \in [Clients -> CallStates],
         CheckRequestTimeouts(q, before)
  PROVE  /\ requests' \in Seq(Clients)
         /\ requestTimer' \in Clients \cup {NoClient}
         /\ call' \in [Clients -> CallStates]
         /\ late' \in SUBSET Clients
BY DEF CheckRequestTimeouts, TypeOK, CallStates

\* What _processNextPendingRequest assigns.
LEMMA ProcessType ==
  ASSUME TypeOK, NEW q \in Seq(Conns), ProcessNextPendingRequest(q)
  PROVE  /\ idle' \in Seq(Conns)
         /\ active' \in SUBSET Conns
         /\ requests' \in Seq(Clients)
         /\ requestTimer' \in Clients \cup {NoClient}
         /\ call' \in [Clients -> CallStates]
         /\ lease' \in [Clients -> Conns \cup {NoConn}]
         /\ late' \in SUBSET Clients
<1>1. CASE requests = <<>> 
  BY <1>1 DEF ProcessNextPendingRequest, TypeOK
<1>2. CASE requests # <<>> /\ q = <<>>
  BY <1>2, CheckType DEF ProcessNextPendingRequest, TypeOK
<1>3. CASE requests # <<>> /\ q # <<>>
  <2>1. /\ Head(requests) \in Clients /\ Tail(requests) \in Seq(Clients)
        /\ Head(q) \in Conns /\ Tail(q) \in Seq(Conns)
    BY <1>3 DEF TypeOK
  <2>2. [call EXCEPT ![Head(requests)] = "hold"] \in [Clients -> CallStates]
    BY <2>1 DEF TypeOK, CallStates
  <2>3. CheckRequestTimeouts(Tail(requests), [call EXCEPT ![Head(requests)] = "hold"])
    BY <1>3 DEF ProcessNextPendingRequest
  <2>4. QED
    BY <1>3, <2>1, <2>2, <2>3, CheckType DEF ProcessNextPendingRequest, TypeOK
<1>4. QED
  BY <1>1, <1>2, <1>3

\* What _findValidIdleConnection assigns.
LEMMA FindType ==
  ASSUME TypeOK, NEW cl \in Clients, NEW others \in SUBSET Conns, NEW retried \in BOOLEAN,
         FindValidIdleConnection(cl, others, retried)
  PROVE  /\ idle' \in Seq(Conns)
         /\ active' \in SUBSET Conns
         /\ requests' \in Seq(Clients)
         /\ requestTimer' \in Clients \cup {NoClient}
         /\ call' \in [Clients -> CallStates]
         /\ lease' \in [Clients -> Conns \cup {NoConn}]
         /\ late' \in SUBSET Clients
         /\ sizeChecks' \in Nat
<1>1. CASE idle' = <<>> /\ active' = others /\ EnqueueRequest(cl) /\ sizeChecks' \in Nat
  BY <1>1 DEF EnqueueRequest, TypeOK, CallStates
<1>2. CASE idle' = <<>> /\ active' = others /\ Finish(cl) /\ sizeChecks' \in Nat /\ UNCHANGED queueVars
  BY <1>2 DEF Finish, TypeOK, CallStates, queueVars
<1>3. ASSUME NEW k \in DOMAIN idle,
             idle' = SubSeq(idle, k + 1, Len(idle)),
             active' = others \cup {idle[k]},
             lease' = [lease EXCEPT ![cl] = idle[k]],
             UNCHANGED queueVars,
             NEW answer \in {"hold", "ping", "reping"},
             call' = [call EXCEPT ![cl] = answer],
             sizeChecks' \in Nat
      PROVE  /\ idle' \in Seq(Conns)
             /\ active' \in SUBSET Conns
             /\ requests' \in Seq(Clients)
             /\ requestTimer' \in Clients \cup {NoClient}
             /\ call' \in [Clients -> CallStates]
             /\ lease' \in [Clients -> Conns \cup {NoConn}]
             /\ late' \in SUBSET Clients
  <2>1. idle[k] \in Conns /\ SubSeq(idle, k + 1, Len(idle)) \in Seq(Conns)
    BY <1>3 DEF TypeOK
  <2>2. answer \in CallStates
    BY <1>3 DEF CallStates
  <2>3. QED
    BY <1>3, <2>1, <2>2 DEF TypeOK, queueVars
<1>4. CASE \E k \in DOMAIN idle :
             /\ idle' = SubSeq(idle, k + 1, Len(idle))
             /\ active' = others \cup {idle[k]}
             /\ lease' = [lease EXCEPT ![cl] = idle[k]]
             /\ UNCHANGED queueVars
             /\ \E answer \in {"hold", "ping", "reping"} : call' = [call EXCEPT ![cl] = answer]
             /\ sizeChecks' \in Nat
  BY <1>3, <1>4
<1>5. ASSUME NEW k \in DOMAIN idle,
             LET skipped == retried \/ k > 1
             IN  /\ idle' = SubSeq(idle, k + 1, Len(idle))
                 /\ active' = others \cup {idle[k]}
                 /\ lease' = [lease EXCEPT ![cl] = idle[k]]
                 /\ UNCHANGED queueVars
                 /\ \/ /\ call' = [call EXCEPT ![cl] = "hold"]
                       /\ sizeChecks' = sizeChecks + (IF skipped THEN 1 ELSE 0)
                    \/ /\ call' = [call EXCEPT ![cl] = IF skipped THEN "reping" ELSE "ping"]
                       /\ UNCHANGED sizeChecks
      PROVE  /\ \E answer \in {"hold", "ping", "reping"} : call' = [call EXCEPT ![cl] = answer]
             /\ sizeChecks' \in Nat
  <2>1. CASE retried \/ k > 1
    BY <1>5, <2>1 DEF TypeOK
  <2>2. CASE ~(retried \/ k > 1)
    BY <1>5, <2>2 DEF TypeOK
  <2>3. QED
    BY <2>1, <2>2
<1>6. CASE /\ idle' = <<>>
           /\ active' = others
           /\ \/ /\ ~Closed
                 /\ EnqueueRequest(cl)
                 /\ sizeChecks' = sizeChecks + (IF retried \/ idle # <<>> THEN 2 ELSE 1)
              \/ /\ Closed
                 /\ Finish(cl)
                 /\ sizeChecks' = sizeChecks + 1
                 /\ UNCHANGED queueVars
  <2>1. sizeChecks' \in Nat
    BY <1>6 DEF TypeOK
  <2>2. QED
    BY <1>1, <1>2, <1>6, <2>1
<1>7. QED
  BY <1>4, <1>5, <1>6 DEF FindValidIdleConnection

\* What discarding a connection assigns.
LEMMA DiscardType ==
  ASSUME TypeOK, NEW c, Discard(c, TRUE) \/ Discard(c, FALSE)
  PROVE  /\ idle' \in Seq(Conns) /\ active' \in SUBSET Conns
         /\ link' \in [Conns -> {"up", "closed"}]
         /\ requests' \in Seq(Clients) /\ late' \in SUBSET Clients
         /\ requestTimer' \in Clients \cup {NoClient}
         /\ inCreation' \in BOOLEAN /\ connecting' \in Nat
         /\ retrying' \in Nat /\ backoff' \in BOOLEAN
         /\ idleTicks' \in Nat /\ sizeChecks' \in Nat /\ errorChecks' \in Nat
         /\ reaping' \in BOOLEAN
         /\ phase' \in {"open", "ending", "ended"}
<1>1. inCreation' \in BOOLEAN /\ connecting' \in Nat
  BY ManageType DEF Discard, TypeOK
<1>2. QED
  BY <1>1 DEF Discard, TypeOK, queueVars, loopVars

\* What releasing a connection assigns.
LEMMA ReleaseType ==
  ASSUME TypeOK, NEW c \in Conns \cup {NoConn}, ReleaseConnection(c)
  PROVE  /\ idle' \in Seq(Conns) /\ active' \in SUBSET Conns
         /\ link' \in [Conns -> {"up", "closed"}]
         /\ requests' \in Seq(Clients) /\ late' \in SUBSET Clients
         /\ requestTimer' \in Clients \cup {NoClient}
         /\ inCreation' \in BOOLEAN /\ connecting' \in Nat
         /\ retrying' \in Nat /\ backoff' \in BOOLEAN
         /\ idleTicks' \in Nat /\ sizeChecks' \in Nat /\ errorChecks' \in Nat
         /\ reaping' \in BOOLEAN
         /\ phase' \in {"open", "ending", "ended"}
<1>1. CASE c \in active /\ Discard(c, TRUE)
  BY <1>1, DiscardType
<1>2. CASE /\ c \notin active
           /\ UNCHANGED <<storeVars, inCreation, connecting, idleTicks, reaping>>
           /\ UNCHANGED <<queueVars, retrying, backoff, sizeChecks, errorChecks, phase>>
  BY <1>2 DEF TypeOK, queueVars, storeVars
<1>3. CASE /\ c \in active
           /\ active' = active \ {c}
           /\ idle' = Append(idle, c)
           /\ idleTicks' = idleTicks + 1
           /\ UNCHANGED <<link, inCreation, connecting, reaping>>
           /\ UNCHANGED <<queueVars, retrying, backoff, sizeChecks, errorChecks, phase>>
  BY <1>3 DEF TypeOK, queueVars
<1>4. QED
  BY <1>1, <1>2, <1>3 DEF ReleaseConnection

-----------------------------------------------------------------------------
(***************************************************************************)
(* Every variable keeps its type: nextTick and setImmediate callbacks and  *)
(* timers of the pool never run without having been scheduled.             *)
(***************************************************************************)
THEOREM PoolTypeCorrect == Spec => []TypeOK
<1>1. Init => TypeOK
  <2> SUFFICES ASSUME Init PROVE TypeOK
    OBVIOUS
  <2>1. inCreation \in BOOLEAN
    <3>1. (MinimumIdle > 0) \in BOOLEAN
      BY SMT
    <3>2. inCreation = (MinimumIdle > 0)
      BY DEF Init
    <3>3. QED
      BY <3>1, <3>2, Zenon
  <2>2. connecting \in Nat
    BY PoolAssumption DEF Init
  <2>3. QED
    <3>1. backoff \in BOOLEAN /\ reaping \in BOOLEAN
      BY DEF Init
    <3>2. QED
      BY <2>1, <2>2, <3>1 DEF Init, TypeOK, CallStates
<1>2. TypeOK /\ [Next]_vars => TypeOK'
  <2> SUFFICES ASSUME TypeOK, [Next]_vars
               PROVE  TypeOK'
    OBVIOUS
  <2>1. ASSUME NEW cl \in Clients, GetConnection(cl)
        PROVE  TypeOK'
    BY <2>1, FindType DEF GetConnection, TypeOK, storeVars, leaseVars, queueVars, creationVars, loopVars, CallStates
  <2>2. ASSUME NEW cl \in Clients, ReleaseInvalid(cl)
        PROVE  TypeOK'
    BY <2>2, DiscardType DEF ReleaseInvalid, Finish, TypeOK, storeVars, leaseVars, queueVars, creationVars, loopVars, CallStates
  <2>3. ASSUME NEW cl \in Clients, ReleaseWithReset(cl)
        PROVE  TypeOK'
    BY <2>3 DEF ReleaseWithReset, TypeOK, storeVars, leaseVars, queueVars, creationVars, loopVars, CallStates
  <2>4. ASSUME NEW cl \in Clients, ReleaseDirectly(cl)
        PROVE  TypeOK'
    BY <2>4, ReleaseType DEF ReleaseDirectly, Finish, TypeOK, storeVars, leaseVars, queueVars, creationVars, loopVars, CallStates
  <2>5. ASSUME NEW cl \in Clients, ReleaseAgain(cl)
        PROVE  TypeOK'
    BY <2>5 DEF ReleaseAgain, TypeOK, storeVars, leaseVars, queueVars, creationVars, loopVars, CallStates
  <2>6. ASSUME NEW cl \in Clients, DestroyConnection(cl)
        PROVE  TypeOK'
    BY <2>6, DiscardType DEF DestroyConnection, Finish, TypeOK, storeVars, leaseVars, queueVars, creationVars, loopVars, CallStates
  <2>7. CASE End
    <3>1. inCreation' \in BOOLEAN /\ backoff' \in BOOLEAN /\ reaping' \in BOOLEAN
      BY <2>7 DEF End, TypeOK
    <3>2. /\ link' \in [Conns -> {"up", "closed"}]
          /\ call' \in [Clients -> CallStates]
      BY <2>7 DEF End, TypeOK, CallStates
    <3>3. QED
      BY <2>7, <3>1, <3>2 DEF End, TypeOK, loopVars
  <2>8. CASE IdleTick
    BY <2>8, ProcessType DEF IdleTick, TypeOK, storeVars, leaseVars, queueVars, creationVars, loopVars, CallStates
  <2>9. ASSUME NEW cl \in Clients, RejectTick(cl)
        PROVE  TypeOK'
    BY <2>9 DEF RejectTick, Finish, TypeOK, storeVars, leaseVars, queueVars, creationVars, loopVars, CallStates
  <2>10. CASE SizeCheck
    BY <2>10, ManageType DEF SizeCheck, TypeOK, storeVars, leaseVars, queueVars, creationVars, loopVars, CallStates
  <2>11. CASE ErrorCheck
    BY <2>11, ManageType DEF ErrorCheck, TypeOK, storeVars, leaseVars, queueVars, creationVars, loopVars, CallStates
  <2>12. CASE DeadlinePasses
    BY <2>12 DEF DeadlinePasses, TypeOK, storeVars, leaseVars, queueVars, creationVars, loopVars, CallStates
  <2>13. CASE RequestTimeout
    BY <2>13, CheckType DEF RequestTimeout, TypeOK, storeVars, leaseVars, queueVars, creationVars, loopVars, CallStates
  <2>14. CASE RetryTimer
    BY <2>14 DEF RetryTimer, TypeOK, storeVars, leaseVars, queueVars, creationVars, loopVars, CallStates
  <2>15. CASE BackoffTimer
    BY <2>15, ManageType DEF BackoffTimer, TypeOK, storeVars, leaseVars, queueVars, creationVars, loopVars, CallStates
  <2>16. CASE RemoveIdleConnections
    BY <2>16, ManageType DEF RemoveIdleConnections, TypeOK, storeVars, leaseVars, queueVars, creationVars, loopVars, CallStates
  <2>17. CASE ConnectSucceeds
    <3>1. reaping' \in BOOLEAN
      BY <2>17 DEF ConnectSucceeds
    <3>2. connecting - 1 \in Nat
      BY <2>17 DEF ConnectSucceeds, TypeOK
    <3>3. inCreation' \in BOOLEAN /\ connecting' \in Nat
      BY <2>17, <3>2, ManageType DEF ConnectSucceeds
    <3>4. PICK c \in Conns : /\ link' = [link EXCEPT ![c] = "up"]
                            /\ ProcessNextPendingRequest(Append(idle, c))
      BY <2>17 DEF ConnectSucceeds
    <3>5. Append(idle, c) \in Seq(Conns) /\ link' \in [Conns -> {"up", "closed"}]
      BY <3>4 DEF TypeOK
    <3>6. QED
      BY <2>17, <3>1, <3>3, <3>4, <3>5, ProcessType DEF ConnectSucceeds, TypeOK, loopVars
  <2>18. CASE ConnectSucceedsTooLate
    <3>1. inCreation' \in BOOLEAN
      BY <2>18 DEF ConnectSucceedsTooLate
    <3>2. QED
      BY <2>18, <3>1 DEF ConnectSucceedsTooLate, TypeOK, storeVars, leaseVars, queueVars, creationVars, loopVars, CallStates
  <2>19. CASE ConnectFailsForGood
    <3>1. inCreation' \in BOOLEAN /\ backoff' \in BOOLEAN
      BY <2>19 DEF ConnectFailsForGood, Closed
    <3>2. QED
      BY <2>19, <3>1 DEF ConnectFailsForGood, TypeOK, storeVars, leaseVars, queueVars, creationVars, loopVars, CallStates
  <2>20. CASE ConnectFailsOnce
    BY <2>20 DEF ConnectFailsOnce, TypeOK, storeVars, leaseVars, queueVars, creationVars, loopVars, CallStates
  <2>21. ASSUME NEW cl \in Clients, PingSucceeds(cl)
        PROVE  TypeOK'
    BY <2>21 DEF PingSucceeds, TypeOK, storeVars, leaseVars, queueVars, creationVars, loopVars, CallStates
  <2>22. ASSUME NEW cl \in Clients, PingFails(cl)
        PROVE  TypeOK'
    BY <2>22, FindType DEF PingFails, TypeOK, storeVars, leaseVars, queueVars, creationVars, loopVars, CallStates
  <2>23. ASSUME NEW cl \in Clients, ResetSucceeds(cl)
        PROVE  TypeOK'
    BY <2>23, ReleaseType DEF ResetSucceeds, MoveUp, Finish, TypeOK, storeVars, leaseVars, queueVars, creationVars, loopVars, CallStates
  <2>24. ASSUME NEW cl \in Clients, RollbackFails(cl)
        PROVE  TypeOK'
    BY <2>24, DiscardType DEF RollbackFails, MoveUp, Finish, TypeOK, storeVars, leaseVars, queueVars, creationVars, loopVars, CallStates
  <2>24a. ASSUME NEW cl \in Clients, ResetFails(cl)
        PROVE  TypeOK'
    BY <2>24a DEF ResetFails, MoveUp, TypeOK, storeVars, leaseVars, queueVars, creationVars, loopVars, CallStates
  <2>25. ASSUME NEW c \in Conns, SecondResetSucceeds(c)
        PROVE  TypeOK'
    BY <2>25, ReleaseType DEF SecondResetSucceeds, TypeOK, storeVars, leaseVars, queueVars, creationVars, loopVars, CallStates
  <2>26. ASSUME NEW c \in Conns, SecondRollbackFails(c)
        PROVE  TypeOK'
    BY <2>26, DiscardType DEF SecondRollbackFails, TypeOK, storeVars, leaseVars, queueVars, creationVars, loopVars, CallStates
  <2>26a. ASSUME NEW c \in Conns, SecondResetFails(c)
        PROVE  TypeOK'
    BY <2>26a DEF SecondResetFails, TypeOK, storeVars, leaseVars, queueVars, creationVars, loopVars, CallStates
  <2>27. ASSUME NEW c \in Conns, ConnectionError(c)
        PROVE  TypeOK'
    <3>1. idle' \in Seq(Conns)
      <4>1. ASSUME NEW i \in DOMAIN idle
            PROVE  SubSeq(idle, 1, i - 1) \o SubSeq(idle, i + 1, Len(idle)) \in Seq(Conns)
        BY <4>1, RemoveOne DEF TypeOK
      <4>2. QED
        BY <2>27, <4>1 DEF ConnectionError, RemoveFromIdle, TypeOK
    <3>2. QED
      BY <2>27, <3>1 DEF ConnectionError, TypeOK, storeVars, leaseVars, queueVars, creationVars, loopVars, CallStates
  <2>28. CASE EndResolves
    BY <2>28 DEF EndResolves, TypeOK, storeVars, leaseVars, queueVars, creationVars, loopVars, CallStates
  <2>29. CASE UNCHANGED vars
    BY <2>29 DEF vars, TypeOK, storeVars, leaseVars, queueVars, creationVars, loopVars, CallStates
  <2>30. QED
    BY <2>1, <2>2, <2>3, <2>4, <2>5, <2>6, <2>7, <2>8, <2>9, <2>10, <2>11, <2>12, <2>13, <2>14, <2>15, <2>16, <2>17, <2>18, <2>19, <2>20, <2>21, <2>22, <2>23, <2>24, <2>24a, <2>25, <2>26, <2>26a, <2>27, <2>28, <2>29
       DEF Next, ClientNext, LoopNext, ServerNext
<1>3. QED
  BY <1>1, <1>2, PTL DEF Spec
-----------------------------------------------------------------------------
(***************************************************************************)
(* A closed pool stays drained: a late reset or ping finds no way to put   *)
(* a connection or a request back, and no timer is armed again.            *)
(***************************************************************************)

\* Every step keeps a closed pool drained.
LEMMA DrainStep ==
  ASSUME TypeOK, TypeOK', ClosedDrained, [Next]_vars
  PROVE  ClosedDrained'
<1>1. CASE UNCHANGED <<idle, requests, retrying, backoff, phase>>
  BY <1>1 DEF ClosedDrained, Closed
<1>2. CASE ~Closed /\ UNCHANGED phase
  BY <1>2 DEF ClosedDrained, Closed
<1>3. ASSUME NEW c, ReleaseConnection(c)
      PROVE  ClosedDrained'
  BY <1>1, <1>2, <1>3 DEF ReleaseConnection, Discard, queueVars, storeVars, loopVars
<1>4. ASSUME Closed, idle = <<>>, NEW cl \in Clients, NEW others, NEW retried,
             FindValidIdleConnection(cl, others, retried)
      PROVE  idle' = <<>> /\ requests' = requests
  BY <1>4 DEF FindValidIdleConnection, queueVars
<1>5. ASSUME NEW cl \in Clients, GetConnection(cl)
      PROVE  ClosedDrained'
  BY <1>5, <1>2 DEF GetConnection
<1>6. ASSUME NEW cl \in Clients, ReleaseInvalid(cl)
      PROVE  ClosedDrained'
  BY <1>6, <1>1 DEF ReleaseInvalid, Discard, queueVars, loopVars
<1>7. ASSUME NEW cl \in Clients, ReleaseWithReset(cl)
      PROVE  ClosedDrained'
  BY <1>7, <1>1 DEF ReleaseWithReset, storeVars, leaseVars, queueVars, creationVars, loopVars
<1>8. ASSUME NEW cl \in Clients, ReleaseDirectly(cl)
      PROVE  ClosedDrained'
  BY <1>8, <1>3 DEF ReleaseDirectly
<1>9. ASSUME NEW cl \in Clients, ReleaseAgain(cl)
      PROVE  ClosedDrained'
  BY <1>9, <1>1 DEF ReleaseAgain, storeVars, leaseVars, queueVars, creationVars, loopVars
<1>10. ASSUME NEW cl \in Clients, DestroyConnection(cl)
      PROVE  ClosedDrained'
  BY <1>10, <1>1 DEF DestroyConnection, Discard, queueVars, loopVars
<1>11. CASE End
  BY <1>11 DEF End, ClosedDrained
<1>12. CASE IdleTick
  BY <1>12, <1>1, <1>2 DEF IdleTick, queueVars, creationVars
<1>13. ASSUME NEW cl \in Clients, RejectTick(cl)
      PROVE  ClosedDrained'
  BY <1>13, <1>1 DEF RejectTick, storeVars, leaseVars, queueVars, creationVars, loopVars
<1>14. CASE SizeCheck
  BY <1>14, <1>1 DEF SizeCheck, storeVars, leaseVars, queueVars, creationVars, loopVars
<1>15. CASE ErrorCheck
  BY <1>15, <1>1 DEF ErrorCheck, storeVars, leaseVars, queueVars, creationVars, loopVars
<1>16. CASE DeadlinePasses
  BY <1>16, <1>1 DEF DeadlinePasses, storeVars, leaseVars, queueVars, creationVars, loopVars
<1>17. CASE RequestTimeout
  <2>1. CASE requests = <<>>
    <3>1. PICK k \in 0..Len(requests) : requests' = SubSeq(requests, k + 1, Len(requests))
      BY <1>17 DEF RequestTimeout, CheckRequestTimeouts
    <3>2. requests' = <<>>
      BY <2>1, <3>1
    <3>3. QED
      BY <1>17, <2>1, <3>2, <1>1 DEF RequestTimeout, storeVars, creationVars
  <2>2. CASE requests # <<>>
    BY <1>17, <2>2, <1>2 DEF RequestTimeout, ClosedDrained
  <2>3. QED
    BY <2>1, <2>2
<1>18. CASE RetryTimer
  <2>1. ~Closed
    BY <1>18 DEF RetryTimer, ClosedDrained
  <2>2. QED
    BY <1>18, <2>1, <1>2 DEF RetryTimer
<1>19. CASE BackoffTimer
  <2>1. ~Closed
    BY <1>19 DEF BackoffTimer, ClosedDrained
  <2>2. QED
    BY <1>19, <2>1, <1>2 DEF BackoffTimer
<1>20. CASE RemoveIdleConnections
  <2>1. CASE Closed
    <3>1. PICK k \in 0..Len(idle) : idle' = SubSeq(idle, k + 1, Len(idle))
      BY <1>20 DEF RemoveIdleConnections
    <3>2. idle = <<>> /\ idle' = <<>>
      BY <2>1, <3>1 DEF ClosedDrained
    <3>3. QED
      BY <1>20, <3>2, <1>1 DEF RemoveIdleConnections, queueVars
  <2>2. CASE ~Closed
    BY <1>20, <2>2, <1>2 DEF RemoveIdleConnections
  <2>3. QED
    BY <2>1, <2>2
<1>21. CASE ConnectSucceeds
  BY <1>21, <1>2 DEF ConnectSucceeds
<1>22. CASE ConnectSucceedsTooLate
  BY <1>22, <1>1 DEF ConnectSucceedsTooLate, storeVars, leaseVars, queueVars, creationVars, loopVars
<1>23. CASE ConnectFailsForGood
  BY <1>23 DEF ConnectFailsForGood, ClosedDrained, Closed, storeVars, queueVars
<1>24. CASE ConnectFailsOnce
  BY <1>24, <1>2 DEF ConnectFailsOnce
<1>25. ASSUME NEW cl \in Clients, PingSucceeds(cl)
      PROVE  ClosedDrained'
  BY <1>25, <1>1 DEF PingSucceeds, storeVars, leaseVars, queueVars, creationVars, loopVars
<1>26. ASSUME NEW cl \in Clients, PingFails(cl)
      PROVE  ClosedDrained'
  <2>1. CASE Closed
    <3>1. idle = <<>>
      BY <2>1 DEF ClosedDrained
    <3>2. idle' = <<>> /\ requests' = requests
      BY <1>26, <2>1, <3>1, <1>4 DEF PingFails
    <3>3. QED
      BY <1>26, <3>1, <3>2, <1>1 DEF PingFails, creationVars
  <2>2. CASE ~Closed
    BY <1>26, <2>2, <1>2 DEF PingFails
  <2>3. QED
    BY <2>1, <2>2
<1>27. ASSUME NEW cl \in Clients, ResetSucceeds(cl)
      PROVE  ClosedDrained'
  BY <1>27, <1>3 DEF ResetSucceeds
<1>28. ASSUME NEW cl \in Clients, RollbackFails(cl)
      PROVE  ClosedDrained'
  BY <1>28, <1>1 DEF RollbackFails, Discard, queueVars, loopVars
<1>28a. ASSUME NEW cl \in Clients, ResetFails(cl)
      PROVE  ClosedDrained'
  BY <1>28a, <1>1 DEF ResetFails, storeVars, creationVars, queueVars, loopVars
<1>29. ASSUME NEW c \in Conns, SecondResetSucceeds(c)
      PROVE  ClosedDrained'
  BY <1>29, <1>3 DEF SecondResetSucceeds
<1>30. ASSUME NEW c \in Conns, SecondRollbackFails(c)
      PROVE  ClosedDrained'
  BY <1>30, <1>1 DEF SecondRollbackFails, Discard, queueVars, loopVars
<1>30a. ASSUME NEW c \in Conns, SecondResetFails(c)
      PROVE  ClosedDrained'
  BY <1>30a, <1>1 DEF SecondResetFails, storeVars, creationVars, queueVars, loopVars
<1>31. ASSUME NEW c \in Conns, ConnectionError(c)
      PROVE  ClosedDrained'
  <2>1. CASE Closed
    <3>1. idle = <<>>
      BY <2>1 DEF ClosedDrained
    <3>2. idle' = <<>>
      BY <1>31, <3>1 DEF ConnectionError, RemoveFromIdle, Elements
    <3>3. QED
      BY <1>31, <3>1, <3>2, <1>1 DEF ConnectionError, queueVars, creationVars
  <2>2. CASE ~Closed
    BY <1>31, <2>2, <1>2 DEF ConnectionError
  <2>3. QED
    BY <2>1, <2>2
<1>32. CASE EndResolves
  BY <1>32 DEF EndResolves, ClosedDrained, Closed, queueVars, creationVars
<1>33. CASE UNCHANGED vars
  BY <1>33, <1>1 DEF vars, storeVars, queueVars, creationVars
<1>34. QED
  BY <1>5, <1>6, <1>7, <1>8, <1>9, <1>10, <1>11, <1>12, <1>13, <1>14, <1>15, <1>16, <1>17, <1>18, <1>19, <1>20, <1>21, <1>22, <1>23, <1>24, <1>25, <1>26, <1>27, <1>28, <1>28a, <1>29, <1>30, <1>30a, <1>31, <1>32, <1>33
     DEF Next, ClientNext, LoopNext, ServerNext

\* After end() nothing is queued or idle and no timer of the pool is armed,
\* whatever was under way when it was called.
THEOREM PoolClosedDrained == Spec => []ClosedDrained
<1>1. Init => ClosedDrained
  BY DEF Init, ClosedDrained, Closed
<1>2. ClosedDrained /\ TypeOK /\ TypeOK' /\ [Next]_vars => ClosedDrained'
  BY DrainStep
<1>3. QED
  BY <1>1, <1>2, PoolTypeCorrect, PTL DEF Spec


-----------------------------------------------------------------------------
(***************************************************************************)
(* The queue of requests: what its parts do to its length, to the length   *)
(* of the idle queue and to the acquisition timer.                         *)
(***************************************************************************)

\* Rejecting the requests that are late shortens the queue, and arms the timer for the one that is first then.
LEMMA CheckEffect ==
  ASSUME NEW q \in Seq(Clients), NEW before, CheckRequestTimeouts(q, before)
  PROVE  Len(requests') <= Len(q) /\ TimerForHead'
<1>1. PICK k \in 0..Len(q) :
        /\ requests' = SubSeq(q, k + 1, Len(q))
        /\ requestTimer' = IF k < Len(q) THEN q[k + 1] ELSE NoClient
  BY DEF CheckRequestTimeouts
<1>2. Len(requests') = Len(q) - k
  BY <1>1
<1>3. CASE k < Len(q)
  <2>1. SubSeq(q, k + 1, Len(q))[1] = q[k + 1]
    BY <1>1, <1>3
  <2>2. SubSeq(q, k + 1, Len(q)) \in Seq(Clients) /\ Len(SubSeq(q, k + 1, Len(q))) > 0
    BY <1>1, <1>2, <1>3
  <2>3. requests' # <<>> /\ Head(requests') = requests'[1]
    BY <1>1, <2>2, NonEmptyHead
  <2>4. QED
    BY <1>1, <1>2, <1>3, <2>1, <2>3 DEF TimerForHead
<1>4. CASE ~(k < Len(q))
  <2>1. requests' = <<>>
    BY <1>1, <1>2, <1>4
  <2>2. QED
    BY <1>1, <1>2, <1>4, <2>1 DEF TimerForHead
<1>5. QED
  BY <1>3, <1>4

\* Serving a request shortens both queues, unless one of them is empty then.
LEMMA ProcessEffect ==
  ASSUME TypeOK, NEW q \in Seq(Conns), ProcessNextPendingRequest(q)
  PROVE  /\ TimerForHead'
         /\ \/ requests' = <<>> \/ idle' = <<>>
            \/ Len(requests') < Len(requests) /\ Len(idle') = Len(q) - 1
<1>1. CASE requests = <<>>
  BY <1>1 DEF ProcessNextPendingRequest, TimerForHead
<1>2. CASE requests # <<>> /\ q = <<>>
  BY <1>2, CheckEffect DEF ProcessNextPendingRequest, TypeOK
<1>3. CASE requests # <<>> /\ q # <<>>
  <2>1. Tail(requests) \in Seq(Clients) /\ Len(Tail(requests)) = Len(requests) - 1
    BY <1>3 DEF TypeOK
  <2>2. Len(Tail(q)) = Len(q) - 1 /\ Len(requests) \in Nat
    BY <1>3 DEF TypeOK
  <2>3. /\ idle' = Tail(q)
        /\ CheckRequestTimeouts(Tail(requests), [call EXCEPT ![Head(requests)] = "hold"])
    BY <1>3 DEF ProcessNextPendingRequest
  <2>4. Len(requests') <= Len(Tail(requests)) /\ TimerForHead'
    BY <2>1, <2>3, CheckEffect
  <2>5. requests' \in Seq(Clients)
    BY ProcessType
  <2>6. QED
    BY <2>1, <2>2, <2>3, <2>4, <2>5
<1>4. QED
  BY <1>1, <1>2, <1>3

\* A request that is queued behind others leaves the timer alone.
LEMMA EnqueueEffect ==
  ASSUME TypeOK, TimerForHead, NEW cl \in Clients, EnqueueRequest(cl)
  PROVE  TimerForHead'
<1>1. CASE requests = <<>>
  BY <1>1 DEF EnqueueRequest, TimerForHead
<1>2. CASE requests # <<>>
  <2>1. Head(requests) \in Clients /\ Head(Append(requests, cl)) = Head(requests)
    BY <1>2 DEF TypeOK
  <2>2. requestTimer = Head(requests) /\ requestTimer # NoClient
    BY <1>2, <2>1, PoolAssumption DEF TimerForHead
  <2>3. Append(requests, cl) # <<>>
    BY DEF TypeOK
  <2>4. QED
    BY <2>1, <2>2, <2>3 DEF EnqueueRequest, TimerForHead
<1>3. QED
  BY <1>1, <1>2

\* Looking for an idle connection empties the idle queue, or queues nothing.
LEMMA FindEffect ==
  ASSUME TypeOK, TimerForHead, NEW cl \in Clients, NEW others, NEW retried,
         FindValidIdleConnection(cl, others, retried)
  PROVE  /\ TimerForHead'
         /\ \/ idle' = <<>>
            \/ Len(idle') <= Len(idle) /\ requests' = requests
<1>1. CASE \E k \in DOMAIN idle : idle' = SubSeq(idle, k + 1, Len(idle)) /\ UNCHANGED queueVars
  <2>1. PICK k \in DOMAIN idle : idle' = SubSeq(idle, k + 1, Len(idle)) /\ UNCHANGED queueVars
    BY <1>1
  <2>2. Len(idle') <= Len(idle)
    BY <2>1 DEF TypeOK
  <2>3. QED
    BY <2>1, <2>2 DEF queueVars, TimerForHead
<1>2. CASE idle' = <<>> /\ (EnqueueRequest(cl) \/ UNCHANGED queueVars)
  BY <1>2, EnqueueEffect DEF queueVars, TimerForHead
<1>3. QED
  BY <1>1, <1>2 DEF FindValidIdleConnection

-----------------------------------------------------------------------------
(***************************************************************************)
(* No wake-up is lost and the timer waits for the first request, however   *)
(* releases, failures, timeouts and the end of the pool interleave.  The   *)
(* conjunction of the two is inductive once the types are known: a step    *)
(* that adds an idle connection adds an '_idle' callback, and a callback   *)
(* that finds both queues filled shortens both.                            *)
(***************************************************************************)
QueueInv == NoLostWakeup /\ TimerForHead

\* Every step keeps both parts of the invariant.
LEMMA QueueStep ==
  ASSUME TypeOK, TypeOK', ClosedDrained, QueueInv, [Next]_vars
  PROVE  QueueInv'
<1>1. CASE UNCHANGED <<requests, requestTimer>> /\ idleTicks' = idleTicks /\ Len(idle') <= Len(idle)
  BY <1>1 DEF QueueInv, NoLostWakeup, TimerForHead, TypeOK
<1>2. CASE UNCHANGED <<requests, requestTimer, idle, idleTicks>>
  BY <1>2, <1>1 DEF TypeOK
<1>3. ASSUME NEW c, ReleaseConnection(c)
      PROVE  QueueInv'
  <2>1. CASE UNCHANGED <<requests, requestTimer, idle, idleTicks>>
    BY <1>2, <2>1
  <2>2. CASE /\ UNCHANGED queueVars
             /\ idle' = Append(idle, c)
             /\ idleTicks' = idleTicks + 1
    <3>1. Len(Append(idle, c)) = Len(idle) + 1
      BY DEF TypeOK
    <3>2. QED
      BY <2>2, <3>1 DEF QueueInv, NoLostWakeup, TimerForHead, TypeOK, queueVars
  <2>3. QED
    BY <1>3, <2>1, <2>2 DEF ReleaseConnection, Discard, queueVars, storeVars, loopVars
<1>4. ASSUME NEW cl \in Clients, NEW others, NEW retried,
             FindValidIdleConnection(cl, others, retried), idleTicks' = idleTicks
      PROVE  QueueInv'
  <2>1. /\ TimerForHead'
        /\ \/ idle' = <<>>
           \/ Len(idle') <= Len(idle) /\ requests' = requests
    BY <1>4, FindEffect DEF QueueInv
  <2>2. QED
    BY <1>4, <2>1 DEF QueueInv, NoLostWakeup, TypeOK
<1>5. ASSUME NEW cl \in Clients, GetConnection(cl)
      PROVE  QueueInv'
  BY <1>5, <1>4 DEF GetConnection
<1>6. ASSUME NEW cl \in Clients, ReleaseInvalid(cl)
      PROVE  QueueInv'
  BY <1>6, <1>2 DEF ReleaseInvalid, Discard, queueVars, loopVars
<1>7. ASSUME NEW cl \in Clients, ReleaseWithReset(cl)
      PROVE  QueueInv'
  BY <1>7, <1>2 DEF ReleaseWithReset, storeVars, leaseVars, queueVars, creationVars, loopVars
<1>8. ASSUME NEW cl \in Clients, ReleaseDirectly(cl)
      PROVE  QueueInv'
  BY <1>8, <1>3 DEF ReleaseDirectly
<1>9. ASSUME NEW cl \in Clients, ReleaseAgain(cl)
      PROVE  QueueInv'
  BY <1>9, <1>2 DEF ReleaseAgain, storeVars, leaseVars, queueVars, creationVars, loopVars
<1>10. ASSUME NEW cl \in Clients, DestroyConnection(cl)
      PROVE  QueueInv'
  BY <1>10, <1>2 DEF DestroyConnection, Discard, queueVars, loopVars
<1>11. CASE End
  BY <1>11 DEF End, QueueInv, NoLostWakeup, TimerForHead, TypeOK, loopVars
<1>12. CASE IdleTick
  <2>1. CASE ~Closed
    <3>1. /\ TimerForHead'
          /\ \/ requests' = <<>> \/ idle' = <<>>
             \/ Len(requests') < Len(requests) /\ Len(idle') = Len(idle) - 1
      BY <1>12, <2>1, ProcessEffect DEF IdleTick, TypeOK
    <3>2. idleTicks' = idleTicks - 1 /\ idleTicks > 0
      BY <1>12 DEF IdleTick
    <3>3. QED
      BY <3>1, <3>2 DEF QueueInv, NoLostWakeup, TypeOK
  <2>2. CASE Closed
    BY <1>12, <2>2 DEF IdleTick, QueueInv, ClosedDrained, NoLostWakeup, TimerForHead, TypeOK, queueVars
  <2>3. QED
    BY <2>1, <2>2
<1>13. ASSUME NEW cl \in Clients, RejectTick(cl)
      PROVE  QueueInv'
  BY <1>13, <1>2 DEF RejectTick, storeVars, leaseVars, queueVars, creationVars, loopVars
<1>14. CASE SizeCheck
  BY <1>14, <1>2 DEF SizeCheck, storeVars, leaseVars, queueVars, creationVars, loopVars
<1>15. CASE ErrorCheck
  BY <1>15, <1>2 DEF ErrorCheck, storeVars, leaseVars, queueVars, creationVars, loopVars
<1>16. CASE DeadlinePasses
  BY <1>16, <1>2 DEF DeadlinePasses, storeVars, leaseVars, queueVars, creationVars, loopVars
<1>17. CASE RequestTimeout
  <2>1. Len(requests') <= Len(requests) /\ TimerForHead'
    BY <1>17, CheckEffect DEF RequestTimeout, TypeOK
  <2>2. QED
    BY <1>17, <2>1 DEF RequestTimeout, QueueInv, NoLostWakeup, TypeOK, storeVars, loopVars
<1>18. CASE RetryTimer
  BY <1>18, <1>2 DEF RetryTimer, storeVars, leaseVars, queueVars, creationVars, loopVars
<1>19. CASE BackoffTimer
  BY <1>19, <1>2 DEF BackoffTimer, storeVars, leaseVars, queueVars, creationVars, loopVars
<1>20. CASE RemoveIdleConnections
  <2>1. Len(idle') <= Len(idle)
    BY <1>20 DEF RemoveIdleConnections, TypeOK
  <2>2. QED
    BY <1>20, <1>1, <2>1 DEF RemoveIdleConnections, queueVars, loopVars
<1>21. CASE ConnectSucceeds
  <2>1. PICK c \in Conns : ProcessNextPendingRequest(Append(idle, c))
    BY <1>21 DEF ConnectSucceeds
  <2>2. Append(idle, c) \in Seq(Conns) /\ Len(Append(idle, c)) = Len(idle) + 1
    BY <2>1 DEF TypeOK
  <2>3. /\ TimerForHead'
        /\ \/ requests' = <<>> \/ idle' = <<>>
           \/ Len(requests') < Len(requests) /\ Len(idle') = Len(idle)
    <3>1. /\ TimerForHead'
          /\ \/ requests' = <<>> \/ idle' = <<>>
             \/ Len(requests') < Len(requests) /\ Len(idle') = Len(Append(idle, c)) - 1
      BY <2>1, <2>2, ProcessEffect
    <3>2. Len(idle) \in Nat
      BY DEF TypeOK
    <3>3. QED
      BY <2>2, <3>1, <3>2
  <2>4. QED
    BY <1>21, <2>3 DEF ConnectSucceeds, QueueInv, NoLostWakeup, TypeOK, loopVars
<1>22. CASE ConnectSucceedsTooLate
  BY <1>22, <1>2 DEF ConnectSucceedsTooLate, storeVars, leaseVars, queueVars, creationVars, loopVars
<1>23. CASE ConnectFailsForGood
  BY <1>23, <1>2 DEF ConnectFailsForGood, storeVars, leaseVars, queueVars, creationVars, loopVars
<1>24. CASE ConnectFailsOnce
  BY <1>24, <1>2 DEF ConnectFailsOnce, storeVars, leaseVars, queueVars, creationVars, loopVars
<1>25. ASSUME NEW cl \in Clients, PingSucceeds(cl)
      PROVE  QueueInv'
  BY <1>25, <1>2 DEF PingSucceeds, storeVars, leaseVars, queueVars, creationVars, loopVars
<1>26. ASSUME NEW cl \in Clients, PingFails(cl)
      PROVE  QueueInv'
  BY <1>26, <1>4 DEF PingFails
<1>27. ASSUME NEW cl \in Clients, ResetSucceeds(cl)
      PROVE  QueueInv'
  BY <1>27, <1>3 DEF ResetSucceeds
<1>28. ASSUME NEW cl \in Clients, RollbackFails(cl)
      PROVE  QueueInv'
  BY <1>28, <1>2 DEF RollbackFails, Discard, queueVars, loopVars
<1>28a. ASSUME NEW cl \in Clients, ResetFails(cl)
      PROVE  QueueInv'
  BY <1>28a, <1>2 DEF ResetFails, storeVars, creationVars, queueVars, loopVars
<1>29. ASSUME NEW c \in Conns, SecondResetSucceeds(c)
      PROVE  QueueInv'
  BY <1>29, <1>3 DEF SecondResetSucceeds
<1>30. ASSUME NEW c \in Conns, SecondRollbackFails(c)
      PROVE  QueueInv'
  BY <1>30, <1>2 DEF SecondRollbackFails, Discard, queueVars, loopVars
<1>30a. ASSUME NEW c \in Conns, SecondResetFails(c)
      PROVE  QueueInv'
  BY <1>30a, <1>2 DEF SecondResetFails, storeVars, creationVars, queueVars, loopVars
<1>31. ASSUME NEW c \in Conns, ConnectionError(c)
      PROVE  QueueInv'
  <2>1. Len(idle') <= Len(idle)
    <3>1. ASSUME NEW i \in DOMAIN idle,
                 idle' = SubSeq(idle, 1, i - 1) \o SubSeq(idle, i + 1, Len(idle))
          PROVE  Len(idle') <= Len(idle)
      BY <3>1, RemoveOne DEF TypeOK
    <3>2. CASE idle' = idle
      BY <3>2 DEF TypeOK
    <3>3. QED
      BY <1>31, <3>1, <3>2 DEF ConnectionError, RemoveFromIdle
  <2>2. QED
    BY <1>31, <1>1, <2>1 DEF ConnectionError, queueVars
<1>32. CASE EndResolves
  BY <1>32, <1>2 DEF EndResolves, storeVars, leaseVars, queueVars, creationVars, loopVars
<1>33. CASE UNCHANGED vars
  BY <1>33, <1>2 DEF vars, storeVars, queueVars, loopVars
<1>34. QED
  BY <1>5, <1>6, <1>7, <1>8, <1>9, <1>10, <1>11, <1>12, <1>13, <1>14, <1>15, <1>16, <1>17, <1>18, <1>19, <1>20, <1>21, <1>22, <1>23, <1>24, <1>25, <1>26, <1>27, <1>28, <1>28a, <1>29, <1>30, <1>30a, <1>31, <1>32, <1>33
     DEF Next, ClientNext, LoopNext, ServerNext

\* While requests are queued, every idle connection that could serve one has
\* an '_idle' emission coming.
THEOREM PoolNoLostWakeup == Spec => []NoLostWakeup
<1>1. Init => QueueInv
  BY DEF Init, QueueInv, NoLostWakeup, TimerForHead
<1>2. QueueInv /\ TypeOK /\ TypeOK' /\ ClosedDrained /\ [Next]_vars => QueueInv'
  BY QueueStep
<1>3. QueueInv => NoLostWakeup
  BY DEF QueueInv
<1>4. QED
  BY <1>1, <1>2, <1>3, PoolTypeCorrect, PoolClosedDrained, PTL DEF Spec

\* The acquisition timer is armed for the first queued request, and only while
\* there is one.
THEOREM PoolTimerForHead == Spec => []TimerForHead
<1>1. Init => QueueInv
  BY DEF Init, QueueInv, NoLostWakeup, TimerForHead
<1>2. QueueInv /\ TypeOK /\ TypeOK' /\ ClosedDrained /\ [Next]_vars => QueueInv'
  BY QueueStep
<1>3. QueueInv => TimerForHead
  BY DEF QueueInv
<1>4. QED
  BY <1>1, <1>2, <1>3, PoolTypeCorrect, PoolClosedDrained, PTL DEF Spec

-----------------------------------------------------------------------------
(***************************************************************************)
(* Counting connections.                                                   *)
(***************************************************************************)

\* A set of connections within another has no more elements.
LEMMA CardOfSubset ==
  ASSUME NEW A \in SUBSET Conns, NEW B, B \subseteq A
  PROVE  Cardinality(B) \in Nat /\ Cardinality(A) \in Nat /\ Cardinality(B) <= Cardinality(A)
<1>1. IsFiniteSet(A)
  BY FS_Subset, PoolAssumption
<1>2. QED
  BY <1>1, FS_Subset, FS_CardinalityType

\* One connection more counts for at most one.
LEMMA CardOfAdd ==
  ASSUME NEW A \in SUBSET Conns, NEW B, NEW c, B \subseteq A \cup {c}
  PROVE  Cardinality(B) \in Nat /\ Cardinality(A) \in Nat /\ Cardinality(B) <= Cardinality(A) + 1
<1>1. IsFiniteSet(A)
  BY FS_Subset, PoolAssumption
<1>2. Cardinality(A) \in Nat
  BY <1>1, FS_CardinalityType
<1>3. IsFiniteSet(A \cup {c}) /\ Cardinality(A \cup {c}) <= Cardinality(A) + 1
  BY <1>1, <1>2, FS_AddElement
<1>4. /\ IsFiniteSet(B)
      /\ Cardinality(B) <= Cardinality(A \cup {c})
  BY <1>3, FS_Subset
<1>5. Cardinality(B) \in Nat /\ Cardinality(A \cup {c}) \in Nat
  BY <1>3, <1>4, FS_CardinalityType
<1>6. QED
  BY <1>2, <1>3, <1>4, <1>5

\* One connection less counts for one.
LEMMA CardOfRemove ==
  ASSUME NEW A \in SUBSET Conns, NEW c \in A
  PROVE  /\ Cardinality(A) \in Nat
         /\ Cardinality(A \ {c}) = Cardinality(A) - 1
<1>1. IsFiniteSet(A)
  BY FS_Subset, PoolAssumption
<1>2. QED
  BY <1>1, FS_RemoveElement, FS_CardinalityType

\* Two counters that are at most one together, and not one, are both zero.
LEMMA NoneOfTwo == \A a, b \in Nat : a + b <= 1 /\ a + b # 1 => a = 0 /\ b = 0
OBVIOUS

\* Below the limit there is room for one more.
LEMMA RoomForOne == \A t, l \in Nat : t < l => t + 1 + 0 <= l
OBVIOUS

\* A creation that waits for its retry, or retries, is counted as before.
LEMMA OneMoved == \A t, c, r \in Nat : /\ t + (c + 1) + (r - 1) = t + c + r
                                     /\ t + (c - 1) + (r + 1) = t + c + r
OBVIOUS

\* With no more connections there is no less room.
LEMMA RoomKept == \A t, u, c, r, l \in Nat : u <= t /\ t + c + r <= l => u + c + r <= l
OBVIOUS

-----------------------------------------------------------------------------
(***************************************************************************)
(* The two invariants hold together: capacity needs that at most one       *)
(* creation runs, which is what the flag is for.                           *)
(***************************************************************************)
CapacityInv == Capacity /\ CreationFlagAccurate

\* The numbers of connections are naturals.
LEMMA TotalType ==
  ASSUME TypeOK
  PROVE  Total \in Nat /\ Cardinality(active) \in Nat /\ Len(idle) \in Nat
<1>1. Cardinality(active) \in Nat
  BY CardOfSubset DEF TypeOK
<1>2. Len(idle) \in Nat
  BY DEF TypeOK
<1>3. QED
  BY <1>1, <1>2 DEF Total

\* The same after a step.
LEMMA TotalTypeNext ==
  ASSUME TypeOK'
  PROVE  Total' \in Nat /\ Cardinality(active') \in Nat /\ Len(idle') \in Nat
<1>1. Cardinality(active') \in Nat
  BY CardOfSubset DEF TypeOK
<1>2. Len(idle') \in Nat
  BY DEF TypeOK
<1>3. QED
  BY <1>1, <1>2 DEF Total

\* A step that adds no connection and creates none keeps the invariant.
LEMMA CapacityFrame ==
  ASSUME TypeOK, TypeOK', CapacityInv, Total' <= Total,
         UNCHANGED <<inCreation, connecting, retrying, backoff>>, Closed => Closed'
  PROVE  CapacityInv'
<1>1. Total \in Nat /\ Total' \in Nat
  BY TotalType, TotalTypeNext
<1>2. Total' + connecting + retrying <= ConnectionLimit
  BY <1>1, RoomKept, PoolAssumption DEF CapacityInv, Capacity, TypeOK
<1>3. CreationFlagAccurate'
  BY DEF CapacityInv, CreationFlagAccurate
<1>4. QED
  BY <1>2, <1>3 DEF CapacityInv, Capacity

\* _managePoolSize creates a connection only where there is room for one and none is being created.
LEMMA ManageEffect ==
  ASSUME TypeOK', NEW creating \in BOOLEAN, NEW opening \in Nat,
         ManagePoolSize(creating, opening),
         Total' + opening + retrying' <= ConnectionLimit,
         opening + retrying' <= 1,
         ~Closed' => (creating <=> opening + retrying' = 1),
         backoff' => ~creating
  PROVE  CapacityInv'
<1> DEFINE start == WantsConnection' /\ ~backoff' /\ ~creating
<1>1. Total' \in Nat /\ retrying' \in Nat /\ ConnectionLimit \in Nat
  BY TotalTypeNext, PoolAssumption DEF TypeOK
<1>2. inCreation' <=> (creating \/ start)
  BY Zenon DEF ManagePoolSize
<1>3. CASE start
  <2>1. ~Closed' /\ Total' < ConnectionLimit /\ ~backoff' /\ ~creating
    BY <1>3 DEF WantsConnection
  <2>2. opening + retrying' # 1
    BY <2>1, Zenon
  <2>3. opening = 0 /\ retrying' = 0
    BY <1>1, <2>2, NoneOfTwo
  <2>4. connecting' = 1
    BY <1>3, <2>3 DEF ManagePoolSize
  <2>5. Capacity'
    BY <1>1, <2>1, <2>3, <2>4, RoomForOne DEF Capacity
  <2>6. CreationFlagAccurate'
    BY <1>2, <1>3, <2>1, <2>3, <2>4 DEF CreationFlagAccurate
  <2>7. QED
    BY <2>5, <2>6 DEF CapacityInv
<1>4. CASE ~start
  <2>1. connecting' = opening
    BY <1>4 DEF ManagePoolSize
  <2>2. Capacity'
    BY <2>1 DEF Capacity
  <2>3. inCreation' <=> creating
    BY <1>2, <1>4
  <2>4. CreationFlagAccurate'
    BY <2>1, <2>3 DEF CreationFlagAccurate
  <2>5. QED
    BY <2>2, <2>4 DEF CapacityInv
<1>5. QED
  BY <1>3, <1>4

\* The size check at the end of a step that frees room or leaves it alone.
LEMMA ManageFrame ==
  ASSUME TypeOK, TypeOK', CapacityInv, Total' <= Total,
         ManagePoolSize(inCreation, connecting),
         UNCHANGED <<retrying, phase>>, backoff' => backoff
  PROVE  CapacityInv'
<1>1. Total \in Nat /\ Total' \in Nat
  BY TotalType, TotalTypeNext
<1>2. Total' + connecting + retrying' <= ConnectionLimit
  BY <1>1, RoomKept, PoolAssumption DEF CapacityInv, Capacity, TypeOK
<1>3. /\ connecting + retrying' <= 1
      /\ ~Closed' => (inCreation <=> connecting + retrying' = 1)
      /\ backoff' => ~inCreation
  BY DEF CapacityInv, CreationFlagAccurate, Closed
<1>4. inCreation \in BOOLEAN /\ connecting \in Nat
  BY DEF TypeOK
<1>5. QED
  BY <1>2, <1>3, <1>4, ManageEffect

\* Serving the next request adds no connection.
LEMMA ProcessTotal ==
  ASSUME TypeOK, NEW q \in Seq(Conns), ProcessNextPendingRequest(q)
  PROVE  Total' <= Cardinality(active) + Len(q)
<1>1. CASE idle' = q /\ active' = active
  BY <1>1, TotalType DEF Total
<1>2. CASE q # <<>> /\ idle' = Tail(q) /\ active' = active \cup {Head(q)}
  <2>1. Len(idle') = Len(q) - 1 /\ Len(q) \in Nat
    BY <1>2
  <2>2. /\ Cardinality(active') <= Cardinality(active) + 1
        /\ Cardinality(active') \in Nat /\ Cardinality(active) \in Nat
    BY <1>2, CardOfAdd DEF TypeOK
  <2>3. QED
    BY <2>1, <2>2 DEF Total
<1>3. QED
  BY <1>1, <1>2 DEF ProcessNextPendingRequest

\* Looking for a valid idle connection adds none.
LEMMA FindTotal ==
  ASSUME TypeOK, NEW cl \in Clients, NEW others \in SUBSET active, NEW retried,
         FindValidIdleConnection(cl, others, retried)
  PROVE  Total' <= Total
<1>1. CASE idle' = <<>> /\ active' = others
  <2>1. Cardinality(active') <= Cardinality(active) /\ Cardinality(active') \in Nat
    BY <1>1, CardOfSubset DEF TypeOK
  <2>2. QED
    BY <1>1, <2>1, TotalType DEF Total
<1>2. ASSUME NEW k \in DOMAIN idle, idle' = SubSeq(idle, k + 1, Len(idle)),
             active' = others \cup {idle[k]}
      PROVE  Total' <= Total
  <2>1. k \in 1..Len(idle) /\ Len(idle) \in Nat
    BY DEF TypeOK
  <2>2. Len(idle') = Len(idle) - k
    BY <1>2, <2>1 DEF TypeOK
  <2>3. /\ Cardinality(active') <= Cardinality(active) + 1
        /\ Cardinality(active') \in Nat /\ Cardinality(active) \in Nat
    BY <1>2, CardOfAdd DEF TypeOK
  <2>4. QED
    BY <2>1, <2>2, <2>3 DEF Total
<1>3. QED
  BY <1>1, <1>2 DEF FindValidIdleConnection

\* Discarding a connection keeps the invariant.
LEMMA DiscardEffect ==
  ASSUME TypeOK, TypeOK', CapacityInv, NEW c, NEW stop, Discard(c, stop)
  PROVE  CapacityInv'
<1>1. Cardinality(active') <= Cardinality(active) /\ Cardinality(active') \in Nat
  BY CardOfSubset DEF Discard, TypeOK
<1>2. Total' <= Total
  BY <1>1, TotalType DEF Discard, Total
<1>3. QED
  BY <1>2, ManageFrame DEF Discard

\* Releasing a connection keeps the invariant.
LEMMA ReleaseEffect ==
  ASSUME TypeOK, TypeOK', CapacityInv, NEW c, ReleaseConnection(c)
  PROVE  CapacityInv'
<1>1. CASE Discard(c, TRUE)
  BY <1>1, DiscardEffect
<1>2. CASE /\ UNCHANGED <<storeVars, inCreation, connecting>>
           /\ UNCHANGED <<retrying, backoff, phase>>
  <2>1. Total' <= Total
    BY <1>2, TotalType DEF Total, storeVars
  <2>2. QED
    BY <1>2, <2>1, CapacityFrame DEF Closed
<1>3. CASE /\ c \in active
           /\ active' = active \ {c}
           /\ idle' = Append(idle, c)
           /\ UNCHANGED <<inCreation, connecting, retrying, backoff, phase>>
  <2>1. Cardinality(active') = Cardinality(active) - 1
    BY <1>3, CardOfRemove DEF TypeOK
  <2>2. Len(idle') = Len(idle) + 1
    BY <1>3 DEF TypeOK
  <2>3. Total' <= Total
    BY <2>1, <2>2, TotalType DEF Total
  <2>4. QED
    BY <1>3, <2>3, CapacityFrame DEF Closed
<1>4. QED
  BY <1>1, <1>2, <1>3 DEF ReleaseConnection

\* Every step keeps the invariant.
LEMMA CapacityStep ==
  ASSUME TypeOK, TypeOK', CapacityInv, [Next]_vars
  PROVE  CapacityInv'
<1>1. CASE UNCHANGED <<idle, active, inCreation, connecting, retrying, backoff, phase>>
  BY <1>1, CapacityFrame, TotalType DEF Total, Closed
<1>2. CASE /\ UNCHANGED <<idle, active, retrying, phase>>
           /\ backoff' => backoff
           /\ ManagePoolSize(inCreation, connecting)
  BY <1>2, ManageFrame, TotalType DEF Total, Closed
<1>3. CASE /\ connecting > 0 /\ connecting' = connecting - 1 /\ ~inCreation'
           /\ UNCHANGED <<idle, active, retrying>>
  <2>1. connecting = 1 /\ retrying = 0
    BY <1>3 DEF CapacityInv, CreationFlagAccurate, TypeOK
  <2>2. connecting' = 0 /\ retrying' = 0 /\ Total' = Total
    BY <1>3, <2>1 DEF Total
  <2>3. Total + 0 + 0 <= ConnectionLimit /\ 0 + 0 <= 1 /\ 0 + 0 # 1
    BY <2>1, TotalType, PoolAssumption DEF CapacityInv, Capacity
  <2>4. QED
    BY <1>3, <2>2, <2>3 DEF CapacityInv, Capacity, CreationFlagAccurate
<1>4. ASSUME NEW cl \in Clients, GetConnection(cl)
      PROVE  CapacityInv'
  <2>1. Total' <= Total
    BY <1>4, FindTotal DEF GetConnection
  <2>2. QED
    BY <1>4, <2>1, CapacityFrame DEF GetConnection, creationVars, Closed
<1>5. ASSUME NEW cl \in Clients, ReleaseInvalid(cl)
      PROVE  CapacityInv'
  BY <1>5, DiscardEffect DEF ReleaseInvalid
<1>6. ASSUME NEW cl \in Clients, ReleaseWithReset(cl)
      PROVE  CapacityInv'
  BY <1>6, <1>1 DEF ReleaseWithReset, storeVars, leaseVars, queueVars, creationVars, loopVars
<1>7. ASSUME NEW cl \in Clients, ReleaseDirectly(cl)
      PROVE  CapacityInv'
  BY <1>7, ReleaseEffect DEF ReleaseDirectly
<1>8. ASSUME NEW cl \in Clients, ReleaseAgain(cl)
      PROVE  CapacityInv'
  BY <1>8, <1>1 DEF ReleaseAgain, storeVars, leaseVars, queueVars, creationVars, loopVars
<1>9. ASSUME NEW cl \in Clients, DestroyConnection(cl)
      PROVE  CapacityInv'
  BY <1>9, DiscardEffect DEF DestroyConnection
<1>10. CASE End
  <2>1. idle' = <<>> /\ active' = active
    BY <1>10 DEF End
  <2>2. Total' <= Total
    BY <2>1, TotalType DEF Total
  <2>3. Total \in Nat /\ Total' \in Nat
    BY TotalType, TotalTypeNext
  <2>4. connecting' = connecting /\ retrying' = 0 /\ ~backoff' /\ Closed'
    BY <1>10 DEF End, Closed
  <2>5. connecting + 0 <= 1 /\ Total + connecting + 0 <= ConnectionLimit
    BY <2>3, PoolAssumption DEF CapacityInv, Capacity, CreationFlagAccurate, TypeOK
  <2>6. Total' + connecting + 0 <= ConnectionLimit
    BY <2>2, <2>3, <2>5, RoomKept, PoolAssumption DEF TypeOK
  <2>7. QED
    BY <2>4, <2>5, <2>6 DEF CapacityInv, Capacity, CreationFlagAccurate
<1>11. CASE IdleTick
  <2>1. CASE ProcessNextPendingRequest(idle)
    <3>1. Total' <= Total
      BY <2>1, ProcessTotal DEF TypeOK, Total
    <3>2. QED
      BY <1>11, <3>1, CapacityFrame DEF IdleTick, creationVars, Closed
  <2>2. CASE UNCHANGED <<idle, active>>
    BY <1>11, <2>2, <1>1 DEF IdleTick, creationVars
  <2>3. QED
    BY <1>11, <2>1, <2>2 DEF IdleTick
<1>12. ASSUME NEW cl \in Clients, RejectTick(cl)
      PROVE  CapacityInv'
  BY <1>12, <1>1 DEF RejectTick, storeVars, leaseVars, queueVars, creationVars, loopVars
<1>13. CASE SizeCheck
  BY <1>13, <1>2 DEF SizeCheck, storeVars
<1>14. CASE ErrorCheck
  BY <1>14, <1>1, <1>2 DEF ErrorCheck, storeVars
<1>15. CASE DeadlinePasses
  BY <1>15, <1>1 DEF DeadlinePasses, storeVars, leaseVars, queueVars, creationVars, loopVars
<1>16. CASE RequestTimeout
  BY <1>16, <1>1 DEF RequestTimeout, storeVars, leaseVars, queueVars, creationVars, loopVars
<1>17. CASE RetryTimer
  <2>1. (connecting + 1) + (retrying - 1) = connecting + retrying
    BY DEF TypeOK
  <2>2. Total + (connecting + 1) + (retrying - 1) = Total + connecting + retrying
    <3>1. Total \in Nat /\ connecting \in Nat /\ retrying \in Nat
      BY TotalType DEF TypeOK
    <3>2. QED
      BY <3>1, OneMoved, Zenon
  <2>3. Total' = Total /\ connecting' = connecting + 1 /\ retrying' = retrying - 1
    BY <1>17 DEF RetryTimer, storeVars, Total
  <2>4. inCreation' = inCreation /\ backoff' = backoff /\ (Closed' <=> Closed)
    BY <1>17 DEF RetryTimer, Closed
  <2>5. QED
    BY <2>1, <2>2, <2>3, <2>4 DEF CapacityInv, Capacity, CreationFlagAccurate
<1>18. CASE BackoffTimer
  <2>1. ~backoff' /\ UNCHANGED <<idle, active, retrying, phase>>
    BY <1>18 DEF BackoffTimer, storeVars
  <2>2. CASE ManagePoolSize(inCreation, connecting)
    BY <2>1, <2>2, <1>2
  <2>3. CASE UNCHANGED <<inCreation, connecting>>
    <3>1. Total' = Total /\ (Closed' <=> Closed)
      BY <2>1 DEF Total, Closed
    <3>2. QED
      BY <2>1, <2>3, <3>1 DEF CapacityInv, Capacity, CreationFlagAccurate
  <2>4. QED
    BY <1>18, <2>2, <2>3 DEF BackoffTimer
<1>19. CASE RemoveIdleConnections
  <2>1. PICK k \in 0..Len(idle) : idle' = SubSeq(idle, k + 1, Len(idle))
    BY <1>19 DEF RemoveIdleConnections
  <2>2. Len(idle') <= Len(idle) /\ active' = active
    BY <1>19, <2>1 DEF RemoveIdleConnections, TypeOK
  <2>3. Total' <= Total
    BY <2>2, TotalType, TotalTypeNext DEF Total
  <2>4. QED
    BY <1>19, <2>3, ManageFrame DEF RemoveIdleConnections, Closed
<1>20. CASE ConnectSucceeds
  <2>1. /\ connecting > 0 /\ ~Closed
        /\ UNCHANGED <<retrying, backoff, phase>>
        /\ ManagePoolSize(FALSE, connecting - 1)
    BY <1>20 DEF ConnectSucceeds
  <2>2. connecting = 1 /\ retrying = 0
    BY <2>1 DEF CapacityInv, CreationFlagAccurate, TypeOK
  <2>3. PICK c \in Conns : ProcessNextPendingRequest(Append(idle, c))
    BY <1>20 DEF ConnectSucceeds
  <2>4. Append(idle, c) \in Seq(Conns) /\ Len(Append(idle, c)) = Len(idle) + 1
    BY DEF TypeOK
  <2>5. Total' <= Cardinality(active) + Len(Append(idle, c))
    BY <2>3, <2>4, ProcessTotal
  <2>6. Cardinality(active) + (Len(idle) + 1) <= ConnectionLimit
    BY <2>2, TotalType, PoolAssumption DEF CapacityInv, Capacity, Total
  <2>7. Total' + 0 + 0 <= ConnectionLimit
    BY <2>4, <2>5, <2>6, TotalType, TotalTypeNext, PoolAssumption
  <2>8. 1 - 1 = 0 /\ 0 \in Nat /\ 0 + 0 # 1 /\ 0 + 0 <= 1
    OBVIOUS
  <2>9. ManagePoolSize(FALSE, 0) /\ retrying' = 0
    BY <2>1, <2>2, <2>8
  <2>10. QED
    BY <2>7, <2>8, <2>9, ManageEffect
<1>21. CASE ConnectSucceedsTooLate
  BY <1>21, <1>3 DEF ConnectSucceedsTooLate, storeVars
<1>22. CASE ConnectFailsForGood
  BY <1>22, <1>3 DEF ConnectFailsForGood, storeVars
<1>23. CASE ConnectFailsOnce
  <2>1. (connecting - 1) + (retrying + 1) = connecting + retrying
    BY DEF TypeOK
  <2>2. Total + (connecting - 1) + (retrying + 1) = Total + connecting + retrying
    <3>1. Total \in Nat /\ connecting \in Nat /\ retrying \in Nat
      BY TotalType DEF TypeOK
    <3>2. QED
      BY <3>1, OneMoved, Zenon
  <2>3. Total' = Total /\ connecting' = connecting - 1 /\ retrying' = retrying + 1
    BY <1>23 DEF ConnectFailsOnce, storeVars, Total
  <2>4. inCreation' = inCreation /\ backoff' = backoff /\ (Closed' <=> Closed)
    BY <1>23 DEF ConnectFailsOnce, Closed
  <2>5. QED
    BY <2>1, <2>2, <2>3, <2>4 DEF CapacityInv, Capacity, CreationFlagAccurate
<1>24. ASSUME NEW cl \in Clients, PingSucceeds(cl)
      PROVE  CapacityInv'
  BY <1>24, <1>1 DEF PingSucceeds, storeVars, leaseVars, queueVars, creationVars, loopVars
<1>25. ASSUME NEW cl \in Clients, PingFails(cl)
      PROVE  CapacityInv'
  <2>1. Total' <= Total
    BY <1>25, FindTotal DEF PingFails
  <2>2. QED
    BY <1>25, <2>1, CapacityFrame DEF PingFails, creationVars, Closed
<1>26. ASSUME NEW cl \in Clients, ResetSucceeds(cl)
      PROVE  CapacityInv'
  BY <1>26, ReleaseEffect DEF ResetSucceeds
<1>27. ASSUME NEW cl \in Clients, RollbackFails(cl)
      PROVE  CapacityInv'
  BY <1>27, DiscardEffect DEF RollbackFails
<1>27a. ASSUME NEW cl \in Clients, ResetFails(cl)
      PROVE  CapacityInv'
  BY <1>27a, <1>1 DEF ResetFails, storeVars, leaseVars, queueVars, creationVars, loopVars
<1>28. ASSUME NEW c \in Conns, SecondResetSucceeds(c)
      PROVE  CapacityInv'
  BY <1>28, ReleaseEffect DEF SecondResetSucceeds
<1>29. ASSUME NEW c \in Conns, SecondRollbackFails(c)
      PROVE  CapacityInv'
  BY <1>29, DiscardEffect DEF SecondRollbackFails
<1>29a. ASSUME NEW c \in Conns, SecondResetFails(c)
      PROVE  CapacityInv'
  BY <1>29a, <1>1 DEF SecondResetFails, storeVars, leaseVars, queueVars, creationVars, loopVars
<1>30. ASSUME NEW c \in Conns, ConnectionError(c)
      PROVE  CapacityInv'
  <2>1. Len(idle') <= Len(idle)
    <3>1. ASSUME NEW i \in DOMAIN idle,
                 idle' = SubSeq(idle, 1, i - 1) \o SubSeq(idle, i + 1, Len(idle))
          PROVE  Len(idle') <= Len(idle)
      BY <3>1, RemoveOne DEF TypeOK
    <3>2. CASE idle' = idle
      BY <3>2 DEF TypeOK
    <3>3. QED
      BY <1>30, <3>1, <3>2 DEF ConnectionError, RemoveFromIdle
  <2>2. Cardinality(active') <= Cardinality(active)
    BY <1>30, CardOfSubset DEF ConnectionError, TypeOK
  <2>3. Total' <= Total
    BY <2>1, <2>2, TotalType, TotalTypeNext DEF Total
  <2>4. QED
    BY <1>30, <2>3, CapacityFrame DEF ConnectionError, creationVars, Closed
<1>31. CASE EndResolves
  <2>1. Cardinality(active') <= Cardinality(active)
    BY <1>31, CardOfSubset DEF EndResolves, TypeOK
  <2>2. Total' <= Total
    BY <1>31, <2>1, TotalType, TotalTypeNext DEF EndResolves, Total
  <2>3. QED
    BY <1>31, <2>2, CapacityFrame DEF EndResolves, creationVars, Closed
<1>32. CASE UNCHANGED vars
  BY <1>32, <1>1 DEF vars, storeVars, creationVars
<1>33. QED
  BY <1>4, <1>5, <1>6, <1>7, <1>8, <1>9, <1>10, <1>11, <1>12, <1>13, <1>14, <1>15, <1>16, <1>17, <1>18, <1>19, <1>20, <1>21, <1>22, <1>23, <1>24, <1>25, <1>26, <1>27, <1>27a, <1>28, <1>29, <1>29a, <1>30, <1>31, <1>32
     DEF Next, ClientNext, LoopNext, ServerNext

-----------------------------------------------------------------------------
(***************************************************************************)
(* The two results.                                                        *)
(***************************************************************************)

\* The invariant holds when the pool starts.
LEMMA CapacityInit == Init => CapacityInv
<1> SUFFICES ASSUME Init PROVE CapacityInv
  OBVIOUS
<1>1. Total = 0
  BY FS_EmptySet DEF Init, Total
<1>2. CASE MinimumIdle > 0
  <2>1. connecting = 1 /\ retrying = 0 /\ ~backoff
    BY <1>2 DEF Init
  <2>2. inCreation
    BY <1>2, Zenon DEF Init
  <2>3. QED
    BY <1>1, <2>1, <2>2, PoolAssumption DEF CapacityInv, Capacity, CreationFlagAccurate
<1>3. CASE ~(MinimumIdle > 0)
  <2>1. connecting = 0 /\ retrying = 0 /\ ~backoff
    BY <1>3 DEF Init
  <2>2. ~inCreation
    BY <1>3, Zenon DEF Init
  <2>3. QED
    BY <1>1, <2>1, <2>2, PoolAssumption DEF CapacityInv, Capacity, CreationFlagAccurate
<1>4. QED
  BY <1>2, <1>3

\* Connections counted, being established and about to be established are never
\* more than connectionLimit together.
THEOREM PoolCapacity == Spec => []Capacity
<1>1. CapacityInv /\ TypeOK /\ TypeOK' /\ [Next]_vars => CapacityInv'
  BY CapacityStep
<1>2. CapacityInv => Capacity
  BY DEF CapacityInv
<1>3. QED
  BY <1>1, <1>2, CapacityInit, PoolTypeCorrect, PTL DEF Spec

\* One creation at a time, and the in-creation flag says whether one runs.
THEOREM PoolCreationFlagAccurate == Spec => []CreationFlagAccurate
<1>1. CapacityInv /\ TypeOK /\ TypeOK' /\ [Next]_vars => CapacityInv'
  BY CapacityStep
<1>2. CapacityInv => CreationFlagAccurate
  BY DEF CapacityInv
<1>3. QED
  BY <1>1, <1>2, CapacityInit, PoolTypeCorrect, PTL DEF Spec

-----------------------------------------------------------------------------
(***************************************************************************)
(* The elements of a queue.                                                *)
(***************************************************************************)

\* No element of the queue occurs twice.
Distinct(q) == \A i, j \in DOMAIN q : q[i] = q[j] => i = j

\* Cutting the front off a queue leaves the elements behind the cut.
LEMMA SuffixElements ==
  ASSUME NEW S, NEW q \in Seq(S), NEW k \in 0..Len(q)
  PROVE  /\ Elements(SubSeq(q, k + 1, Len(q))) = {q[i] : i \in (k + 1)..Len(q)}
         /\ Distinct(q) => Distinct(SubSeq(q, k + 1, Len(q)))
<1> DEFINE r == SubSeq(q, k + 1, Len(q))
<1>1. /\ Len(q) \in Nat
      /\ DOMAIN r = 1..(Len(q) - k)
      /\ DOMAIN q = 1..Len(q)
      /\ \A i \in 1..(Len(q) - k) : r[i] = q[k + i]
  OBVIOUS
<1> HIDE DEF r
<1>2. Elements(r) = {q[i] : i \in (k + 1)..Len(q)}
  <2>1. ASSUME NEW i \in (k + 1)..Len(q) PROVE q[i] \in Elements(r)
    <3>1. i - k \in 1..(Len(q) - k) /\ r[i - k] = q[i]
      BY <1>1
    <3>2. QED
      BY <3>1, <1>1 DEF Elements
  <2>2. ASSUME NEW j \in DOMAIN r PROVE \E i \in (k + 1)..Len(q) : r[j] = q[i]
    <3>1. k + j \in (k + 1)..Len(q) /\ r[j] = q[k + j]
      BY <1>1
    <3>2. QED
      BY <3>1
  <2>3. QED
    BY <2>1, <2>2 DEF Elements
<1>3. ASSUME Distinct(q) PROVE Distinct(r)
  <2>1. ASSUME NEW i \in DOMAIN r, NEW j \in DOMAIN r, r[i] = r[j] PROVE i = j
    <3>1. k + i \in DOMAIN q /\ k + j \in DOMAIN q /\ q[k + i] = q[k + j]
      BY <1>1, <2>1
    <3>2. k + i = k + j
      BY <1>3, <3>1 DEF Distinct
    <3>3. QED
      BY <1>1, <3>2
  <2>2. QED
    BY <2>1 DEF Distinct
<1>4. QED
  BY <1>2, <1>3 DEF r

\* A queue is its head and its tail.
LEMMA HeadAndTail ==
  ASSUME NEW S, NEW q \in Seq(S), q # <<>>
  PROVE  /\ Head(q) \in S /\ Tail(q) \in Seq(S)
         /\ Elements(q) = {Head(q)} \cup Elements(Tail(q))
         /\ Distinct(q) => Distinct(Tail(q)) /\ Head(q) \notin Elements(Tail(q))
<1>1. /\ Len(q) \in Nat \ {0} /\ DOMAIN q = 1..Len(q)
      /\ Head(q) = q[1] /\ Tail(q) \in Seq(S) /\ Head(q) \in S
      /\ DOMAIN Tail(q) = 1..(Len(q) - 1)
      /\ \A i \in 1..(Len(q) - 1) : Tail(q)[i] = q[i + 1]
  OBVIOUS
<1>2. ASSUME NEW i \in DOMAIN q PROVE q[i] \in {Head(q)} \cup Elements(Tail(q))
  <2>1. CASE i = 1
    BY <1>1, <2>1
  <2>2. CASE i # 1
    <3>1. i - 1 \in DOMAIN Tail(q) /\ Tail(q)[i - 1] = q[i]
      BY <1>1, <2>2
    <3>2. QED
      BY <3>1 DEF Elements
  <2>3. QED
    BY <2>1, <2>2
<1>3. ASSUME NEW j \in DOMAIN Tail(q) PROVE j + 1 \in DOMAIN q /\ Tail(q)[j] = q[j + 1] /\ j + 1 # 1
  BY <1>1
<1>4. 1 \in DOMAIN q
  BY <1>1
<1>5. Elements(q) = {Head(q)} \cup Elements(Tail(q))
  BY <1>1, <1>2, <1>3, <1>4 DEF Elements
<1>6. ASSUME Distinct(q) PROVE Distinct(Tail(q))
  <2>1. ASSUME NEW i \in DOMAIN Tail(q), NEW j \in DOMAIN Tail(q), Tail(q)[i] = Tail(q)[j] PROVE i = j
    <3>1. i + 1 = j + 1
      BY <1>3, <1>6, <2>1 DEF Distinct
    <3>2. QED
      BY <1>1, <3>1
  <2>2. QED
    BY <2>1 DEF Distinct
<1>7. ASSUME Distinct(q) PROVE Head(q) \notin Elements(Tail(q))
  <2>1. ASSUME NEW j \in DOMAIN Tail(q), Tail(q)[j] = Head(q) PROVE FALSE
    BY <1>1, <1>3, <1>4, <1>7, <2>1 DEF Distinct
  <2>2. QED
    BY <2>1 DEF Elements
<1>8. QED
  BY <1>1, <1>5, <1>6, <1>7

\* What joins a queue is its new element.
LEMMA AppendElements ==
  ASSUME NEW S, NEW q \in Seq(S), NEW e
  PROVE  /\ Elements(Append(q, e)) = Elements(q) \cup {e}
         /\ Distinct(q) /\ e \notin Elements(q) => Distinct(Append(q, e))
         /\ Append(q, e) # <<>>
<1> DEFINE r == Append(q, e)
<1>1. /\ Len(q) \in Nat /\ DOMAIN q = 1..Len(q)
      /\ DOMAIN r = 1..(Len(q) + 1)
      /\ \A i \in 1..Len(q) : r[i] = q[i]
      /\ r[Len(q) + 1] = e
      /\ r # <<>>
  OBVIOUS
<1> HIDE DEF r
<1>2. ASSUME NEW i \in DOMAIN r PROVE (i \in DOMAIN q /\ r[i] = q[i]) \/ (i = Len(q) + 1 /\ r[i] = e)
  BY <1>1
<1>3. Len(q) + 1 \in DOMAIN r /\ \A i \in DOMAIN q : i \in DOMAIN r /\ r[i] = q[i]
  BY <1>1
<1>4. Elements(r) = Elements(q) \cup {e}
  BY <1>1, <1>2, <1>3 DEF Elements
<1>5. ASSUME Distinct(q), e \notin Elements(q) PROVE Distinct(r)
  BY <1>2, <1>5 DEF Distinct, Elements
<1>6. QED
  BY <1>1, <1>4, <1>5 DEF r

\* The first elements of a queue, and the last ones.
LEMMA Parts ==
  ASSUME NEW S, NEW q \in Seq(S), NEW k \in 0..Len(q), NEW n \in 0..Len(q)
  PROVE  /\ SubSeq(q, 1, n) \in Seq(S) /\ Len(SubSeq(q, 1, n)) = n
         /\ \A j \in 1..n : SubSeq(q, 1, n)[j] = q[j]
         /\ SubSeq(q, k + 1, Len(q)) \in Seq(S) /\ Len(SubSeq(q, k + 1, Len(q))) = Len(q) - k
         /\ \A j \in 1..(Len(q) - k) : SubSeq(q, k + 1, Len(q))[j] = q[k + j]
OBVIOUS

\* What is where in the concatenation of two queues.
LEMMA Joined ==
  \A S : \A a, b \in Seq(S) :
    /\ DOMAIN (a \o b) = 1..(Len(a) + Len(b))
    /\ \A j \in 1..Len(a) : (a \o b)[j] = a[j]
    /\ \A j \in 1..Len(b) : (a \o b)[Len(a) + j] = b[j]
OBVIOUS

\* Taking one element out of a queue leaves the others; of a queue without
\* duplicates it leaves exactly the others.
LEMMA RemovedElements ==
  ASSUME NEW S, NEW q \in Seq(S), NEW i \in DOMAIN q
  PROVE  LET r == SubSeq(q, 1, i - 1) \o SubSeq(q, i + 1, Len(q))
         IN  /\ Elements(r) \subseteq Elements(q)
             /\ Elements(q) \ {q[i]} \subseteq Elements(r)
             /\ Distinct(q) => Distinct(r) /\ q[i] \notin Elements(r)
<1>1. i \in 1..Len(q) /\ Len(q) \in Nat /\ DOMAIN q = 1..Len(q)
  OBVIOUS
<1> DEFINE a == SubSeq(q, 1, i - 1)
           b == SubSeq(q, i + 1, Len(q))
           r == a \o b
<1>2. i - 1 \in 0..Len(q) /\ i \in 0..Len(q)
  BY <1>1
<1>3. a \in Seq(S) /\ Len(a) = i - 1 /\ \A j \in 1..(i - 1) : a[j] = q[j]
  BY <1>2, Parts
<1>4. b \in Seq(S) /\ Len(b) = Len(q) - i /\ \A j \in 1..(Len(q) - i) : b[j] = q[i + j]
  BY <1>2, Parts
<1> HIDE DEF a, b
<1>5. /\ DOMAIN r = 1..(Len(a) + Len(b))
      /\ \A j \in 1..Len(a) : r[j] = a[j]
      /\ \A j \in 1..Len(b) : r[Len(a) + j] = b[j]
  <2>1. a \in Seq(S) /\ b \in Seq(S)
    BY <1>3, <1>4
  <2>2. QED
    BY <2>1, Joined DEF r
<1> HIDE DEF r
<1>6. DOMAIN r = 1..(Len(q) - 1)
  BY <1>1, <1>3, <1>4, <1>5
<1>7. \A j \in 1..(i - 1) : j \in DOMAIN r /\ j \in DOMAIN q /\ r[j] = q[j]
  BY <1>1, <1>3, <1>5, <1>6
<1>8. ASSUME NEW m \in (i + 1)..Len(q) PROVE m - 1 \in DOMAIN r /\ r[m - 1] = q[m]
  <2>1. m - i \in 1..Len(b) /\ Len(a) + (m - i) = m - 1 /\ i + (m - i) = m
    BY <1>1, <1>3, <1>4
  <2>2. r[Len(a) + (m - i)] = b[m - i] /\ b[m - i] = q[i + (m - i)]
    BY <1>1, <1>4, <1>5, <2>1
  <2>3. m - 1 \in DOMAIN r
    BY <1>1, <1>6
  <2>4. QED
    BY <2>1, <2>2, <2>3
\* where each element comes from
<1> DEFINE from(j) == IF j < i THEN j ELSE j + 1
<1>9. ASSUME NEW j \in DOMAIN r PROVE from(j) \in DOMAIN q /\ from(j) # i /\ r[j] = q[from(j)]
  <2>1. CASE j < i
    <3>1. j \in 1..(i - 1)
      BY <1>1, <1>6, <2>1
    <3>2. QED
      BY <1>1, <1>7, <2>1, <3>1
  <2>2. CASE ~(j < i)
    <3>1. j + 1 \in (i + 1)..Len(q) /\ (j + 1) - 1 = j /\ j + 1 \in DOMAIN q
      BY <1>1, <1>6, <2>2
    <3>2. r[j] = q[j + 1]
      BY <1>8, <3>1
    <3>3. QED
      BY <1>1, <2>2, <3>1, <3>2
  <2>3. QED
    BY <2>1, <2>2
<1>10. ASSUME NEW j \in DOMAIN r, NEW m \in DOMAIN r, from(j) = from(m) PROVE j = m
  BY <1>1, <1>6, <1>10
<1> HIDE DEF from
<1>11. ASSUME NEW m \in DOMAIN q, m # i PROVE \E j \in DOMAIN r : r[j] = q[m]
  <2>1. CASE m \in 1..(i - 1)
    BY <1>7, <2>1
  <2>2. CASE m \in (i + 1)..Len(q)
    BY <1>8, <2>2
  <2>3. QED
    BY <1>1, <1>11, <2>1, <2>2
<1>12. Elements(r) \subseteq Elements(q)
  BY <1>9 DEF Elements
<1>13. Elements(q) \ {q[i]} \subseteq Elements(r)
  <2>1. ASSUME NEW x \in Elements(q), x # q[i] PROVE x \in Elements(r)
    <3>1. PICK m \in DOMAIN q : x = q[m]
      BY <2>1 DEF Elements
    <3>2. QED
      BY <1>11, <2>1, <3>1 DEF Elements
  <2>2. QED
    BY <2>1
<1>14. ASSUME Distinct(q) PROVE Distinct(r)
  <2>1. ASSUME NEW j \in DOMAIN r, NEW m \in DOMAIN r, r[j] = r[m] PROVE j = m
    <3>1. from(j) = from(m)
      BY <1>9, <1>14, <2>1 DEF Distinct
    <3>2. QED
      BY <1>10, <3>1
  <2>2. QED
    BY <2>1 DEF Distinct
<1>15. ASSUME Distinct(q) PROVE q[i] \notin Elements(r)
  <2>1. ASSUME NEW j \in DOMAIN r, q[i] = r[j] PROVE FALSE
    BY <1>9, <1>15, <2>1 DEF Distinct
  <2>2. QED
    BY <2>1 DEF Elements
<1>16. QED
  BY <1>12, <1>13, <1>14, <1>15 DEF a, b, r

-----------------------------------------------------------------------------
(***************************************************************************)
(* What the shared parts of the actions do to the store, to the queue and  *)
(* to the calls of the clients.                                            *)
(***************************************************************************)

\* The call of cl goes on as it was, or its deadline has passed in the queue.
Expires(cl) == call'[cl] = call[cl] \/ (call[cl] = "wait" /\ call'[cl] = "fail")

\* The rejected requests leave the queue together with their calls.
LEMMA CheckQueue ==
  ASSUME TypeOK, NEW q \in Seq(Clients), NEW before \in [Clients -> CallStates],
         CheckRequestTimeouts(q, before), Distinct(q),
         \A cl \in Clients : before[cl] = "wait" <=> cl \in Elements(q)
  PROVE  /\ QueueMatchesCalls'
         /\ \A cl \in Clients : \/ call'[cl] = before[cl]
                                \/ before[cl] = "wait" /\ call'[cl] = "fail"
<1>1. PICK k \in 0..Len(q) :
        /\ requests' = SubSeq(q, k + 1, Len(q))
        /\ call' = [cl \in Clients |-> IF \E i \in 1..k : q[i] = cl THEN "fail" ELSE before[cl]]
        /\ late' = {cl \in late : call'[cl] = "wait"}
  BY DEF CheckRequestTimeouts
<1>2. /\ Elements(requests') = {q[i] : i \in (k + 1)..Len(q)}
      /\ Distinct(requests')
  BY <1>1, SuffixElements
<1>3. /\ Len(q) \in Nat /\ DOMAIN q = 1..Len(q)
      /\ \A i \in 1..k : i \in DOMAIN q
      /\ \A i \in (k + 1)..Len(q) : i \in DOMAIN q
      /\ \A i \in DOMAIN q : i \in 1..k \/ i \in (k + 1)..Len(q)
      /\ \A i \in 1..k : \A j \in (k + 1)..Len(q) : i # j
  OBVIOUS
<1>4. ASSUME NEW cl \in Clients PROVE call'[cl] = "wait" <=> cl \in Elements(requests')
  <2>1. CASE \E i \in 1..k : q[i] = cl
    <3>1. call'[cl] = "fail"
      BY <1>1, <2>1
    <3>2. cl \notin Elements(requests')
      BY <1>2, <1>3, <2>1 DEF Distinct
    <3>3. QED
      BY <3>1, <3>2
  <2>2. CASE ~ \E i \in 1..k : q[i] = cl
    <3>1. call'[cl] = before[cl]
      BY <1>1, <2>2
    <3>2. cl \in Elements(q) <=> cl \in Elements(requests')
      BY <1>2, <1>3, <2>2 DEF Elements
    <3>3. QED
      BY <3>1, <3>2
  <2>3. QED
    BY <2>1, <2>2
<1>5. ASSUME NEW cl \in Clients
      PROVE  call'[cl] = before[cl] \/ (before[cl] = "wait" /\ call'[cl] = "fail")
  <2>1. CASE \E i \in 1..k : q[i] = cl
    <3>1. call'[cl] = "fail" /\ cl \in Elements(q)
      BY <1>1, <1>3, <2>1 DEF Elements
    <3>2. QED
      BY <3>1
  <2>2. CASE ~ \E i \in 1..k : q[i] = cl
    BY <1>1, <2>2
  <2>3. QED
    BY <2>1, <2>2
<1>6. late' \subseteq Elements(requests')
  <2>1. late' \subseteq Clients /\ \A cl \in late' : call'[cl] = "wait"
    BY <1>1 DEF TypeOK
  <2>2. QED
    BY <1>4, <2>1
<1>7. QED
  BY <1>2, <1>4, <1>5, <1>6 DEF QueueMatchesCalls, Distinct

\* A request at the head of the queue is waiting.
LEMMA HeadWaits ==
  ASSUME TypeOK, QueueMatchesCalls, requests # <<>>
  PROVE  /\ Head(requests) \in Clients /\ call[Head(requests)] = "wait"
         /\ Distinct(requests)
         /\ Tail(requests) \in Seq(Clients) /\ Distinct(Tail(requests))
         /\ \A cl \in Clients : cl \in Elements(Tail(requests)) <=>
                                  call[cl] = "wait" /\ cl # Head(requests)
<1>1. requests \in Seq(Clients) /\ Distinct(requests)
  BY DEF TypeOK, QueueMatchesCalls, Distinct
<1>2. /\ Head(requests) \in Clients /\ Tail(requests) \in Seq(Clients)
      /\ Elements(requests) = {Head(requests)} \cup Elements(Tail(requests))
      /\ Distinct(Tail(requests)) /\ Head(requests) \notin Elements(Tail(requests))
  BY <1>1, HeadAndTail
<1>3. \A cl \in Clients : call[cl] = "wait" <=> cl \in Elements(requests)
  BY DEF QueueMatchesCalls
<1>4. QED
  BY <1>1, <1>2, <1>3

\* A connection is given to the first request, or none is.
LEMMA ProcessStore ==
  ASSUME TypeOK, QueueMatchesCalls, NEW q \in Seq(Conns), ProcessNextPendingRequest(q)
  PROVE  /\ QueueMatchesCalls'
         /\ \/ /\ idle' = q /\ active' = active /\ lease' = lease
               /\ \A cl \in Clients : Expires(cl)
            \/ /\ q # <<>> /\ idle' = Tail(q) /\ active' = active \cup {Head(q)}
               /\ \E cl \in Clients :
                    /\ call[cl] = "wait" /\ call'[cl] = "hold" /\ lease'[cl] = Head(q)
                    /\ \A other \in Clients \ {cl} : Expires(other) /\ lease'[other] = lease[other]
<1>1. CASE requests = <<>>
  BY <1>1 DEF ProcessNextPendingRequest, QueueMatchesCalls, Expires
<1>2. CASE requests # <<>> /\ q = <<>>
  <2>1. /\ idle' = q /\ active' = active /\ lease' = lease
        /\ CheckRequestTimeouts(requests, call)
    BY <1>2 DEF ProcessNextPendingRequest
  <2>2. /\ requests \in Seq(Clients) /\ Distinct(requests) /\ call \in [Clients -> CallStates]
        /\ \A cl \in Clients : call[cl] = "wait" <=> cl \in Elements(requests)
    BY DEF QueueMatchesCalls, Distinct, TypeOK
  <2>3. QueueMatchesCalls' /\ \A cl \in Clients : Expires(cl)
    BY <2>1, <2>2, CheckQueue DEF Expires
  <2>4. QED
    BY <2>1, <2>3
<1>3. CASE requests # <<>> /\ q # <<>>
  <2> DEFINE first == Head(requests)
             before == [call EXCEPT ![first] = "hold"]
  <2>1. /\ first \in Clients /\ call[first] = "wait"
        /\ Tail(requests) \in Seq(Clients) /\ Distinct(Tail(requests))
        /\ \A cl \in Clients : cl \in Elements(Tail(requests)) <=> call[cl] = "wait" /\ cl # first
    BY <1>3, HeadWaits
  <2>2. /\ idle' = Tail(q) /\ active' = active \cup {Head(q)}
        /\ lease' = [lease EXCEPT ![first] = Head(q)]
        /\ CheckRequestTimeouts(Tail(requests), before)
    BY <1>3 DEF ProcessNextPendingRequest
  <2>3. /\ before \in [Clients -> CallStates]
        /\ before[first] = "hold"
        /\ \A cl \in Clients \ {first} : before[cl] = call[cl]
    BY <2>1 DEF TypeOK, CallStates
  <2>4. lease'[first] = Head(q) /\ \A other \in Clients \ {first} : lease'[other] = lease[other]
    BY <2>1, <2>2 DEF TypeOK
  <2> HIDE DEF first, before
  <2>5. \A cl \in Clients : before[cl] = "wait" <=> cl \in Elements(Tail(requests))
    BY <2>1, <2>3
  <2>6. /\ QueueMatchesCalls'
        /\ \A cl \in Clients : \/ call'[cl] = before[cl]
                               \/ before[cl] = "wait" /\ call'[cl] = "fail"
    BY <2>1, <2>2, <2>3, <2>5, CheckQueue
  <2>7. call'[first] = "hold" /\ \A other \in Clients \ {first} : Expires(other)
    BY <2>1, <2>3, <2>6 DEF Expires
  <2>8. QED
    BY <1>3, <2>1, <2>2, <2>4, <2>6, <2>7
<1>4. QED
  BY <1>1, <1>2, <1>3

\* A request joins the queue with its call.
LEMMA EnqueueQueue ==
  ASSUME TypeOK, QueueMatchesCalls, NEW cl \in Clients, call[cl] # "wait", EnqueueRequest(cl)
  PROVE  /\ QueueMatchesCalls'
         /\ call'[cl] = "wait" /\ lease'[cl] = NoConn
         /\ \A other \in Clients \ {cl} : call'[other] = call[other] /\ lease'[other] = lease[other]
<1>1. /\ requests \in Seq(Clients) /\ Distinct(requests) /\ cl \notin Elements(requests)
  BY DEF QueueMatchesCalls, Distinct, TypeOK
<1>2. Elements(requests') = Elements(requests) \cup {cl} /\ Distinct(requests')
  BY <1>1, AppendElements DEF EnqueueRequest
<1>3. /\ call'[cl] = "wait" /\ lease'[cl] = NoConn
      /\ \A other \in Clients \ {cl} : call'[other] = call[other] /\ lease'[other] = lease[other]
  BY DEF EnqueueRequest, TypeOK
<1>4. late' \subseteq Elements(requests')
  BY <1>2 DEF EnqueueRequest, QueueMatchesCalls
<1>5. \A other \in Clients : call'[other] = "wait" <=> other \in Elements(requests')
  BY <1>2, <1>3 DEF QueueMatchesCalls
<1>6. QED
  BY <1>2, <1>3, <1>4, <1>5 DEF QueueMatchesCalls, Distinct

\* The end of a call changes nothing for the other clients.
LEMMA FinishCalls ==
  ASSUME TypeOK, NEW cl \in Clients, Finish(cl)
  PROVE  /\ call'[cl] = "none" /\ lease'[cl] = NoConn
         /\ \A other \in Clients \ {cl} : call'[other] = call[other] /\ lease'[other] = lease[other]
BY DEF Finish, TypeOK

\* The queue does not change, and nobody starts or stops waiting.
LEMMA QueueKept ==
  ASSUME QueueMatchesCalls, requests' = requests, late' \subseteq Elements(requests),
         \A cl \in Clients : call[cl] = "wait" <=> call'[cl] = "wait"
  PROVE  QueueMatchesCalls'
BY DEF QueueMatchesCalls

\* A search takes the first idle connection that is open, and drops those it
\* skips; or it drops them all, and the request is queued or refused.
Found(cl, others) ==
  /\ QueueMatchesCalls'
  /\ \A other \in Clients \ {cl} : call'[other] = call[other] /\ lease'[other] = lease[other]
  /\ \/ \E c \in Elements(idle) :
          /\ link'[c] = "up" /\ active' = others \cup {c}
          /\ lease'[cl] = c /\ call'[cl] \in {"hold", "ping", "reping"}
          /\ Elements(idle') \subseteq Elements(idle)
          /\ \A d \in Elements(idle) : link'[d] = "up" => d = c \/ d \in Elements(idle')
          /\ Distinct(idle) => Distinct(idle') /\ c \notin Elements(idle')
     \/ /\ \A d \in Elements(idle) : link'[d] # "up"
        /\ active' = others /\ idle' = <<>>
        /\ lease'[cl] = NoConn /\ call'[cl] \in {"wait", "none"}
        /\ call'[cl] = "none" => Closed

\* What _findValidIdleConnection does to the store, the queue and the calls.
LEMMA FindStore ==
  ASSUME TypeOK, QueueMatchesCalls, NEW cl \in Clients, call[cl] # "wait",
         link' \in [Conns -> {"up", "closed"}],
         NEW others, NEW retried, FindValidIdleConnection(cl, others, retried)
  PROVE  Found(cl, others)
<1>1. CASE /\ \A i \in DOMAIN idle : link'[idle[i]] = "closed"
           /\ idle' = <<>> /\ active' = others
           /\ EnqueueRequest(cl)
  BY <1>1, EnqueueQueue DEF Elements, Found
<1>2. CASE /\ \A i \in DOMAIN idle : link'[idle[i]] = "closed"
           /\ idle' = <<>> /\ active' = others
           /\ Closed /\ Finish(cl) /\ UNCHANGED queueVars
  <2>1. /\ call'[cl] = "none" /\ lease'[cl] = NoConn
        /\ \A other \in Clients \ {cl} : call'[other] = call[other] /\ lease'[other] = lease[other]
    BY <1>2, FinishCalls
  <2>2. QueueMatchesCalls'
    <3>1. \A other \in Clients : call[other] = "wait" <=> call'[other] = "wait"
      BY <2>1
    <3>2. requests' = requests /\ late' \subseteq Elements(requests)
      BY <1>2 DEF queueVars, QueueMatchesCalls
    <3>3. QED
      BY <3>1, <3>2, QueueKept
  <2>3. QED
    BY <1>2, <2>1, <2>2 DEF Elements, Found
<1>3. ASSUME NEW k \in DOMAIN idle,
             link'[idle[k]] = "up",
             \A i \in 1..(k - 1) : link'[idle[i]] = "closed",
             idle' = SubSeq(idle, k + 1, Len(idle)),
             active' = others \cup {idle[k]},
             lease' = [lease EXCEPT ![cl] = idle[k]],
             UNCHANGED queueVars,
             NEW answer \in {"hold", "ping", "reping"},
             call' = [call EXCEPT ![cl] = answer]
      PROVE  Found(cl, others)
  <2>1. /\ idle \in Seq(Conns) /\ Len(idle) \in Nat /\ DOMAIN idle = 1..Len(idle)
        /\ k \in 0..Len(idle)
        /\ \A i \in (k + 1)..Len(idle) : i \in DOMAIN idle /\ i # k
        /\ \A i \in DOMAIN idle : i \in 1..(k - 1) \/ i = k \/ i \in (k + 1)..Len(idle)
    BY DEF TypeOK
  <2>2. /\ Elements(idle') = {idle[i] : i \in (k + 1)..Len(idle)}
        /\ Distinct(idle) => Distinct(idle')
    BY <1>3, <2>1, SuffixElements
  <2>3. \A d \in Elements(idle) : link'[d] = "up" => d = idle[k] \/ d \in Elements(idle')
    BY <1>3, <2>1, <2>2 DEF Elements
  <2>4. Elements(idle') \subseteq Elements(idle) /\ idle[k] \in Elements(idle)
    BY <2>1, <2>2 DEF Elements
  <2>5. Distinct(idle) => idle[k] \notin Elements(idle')
    BY <2>1, <2>2 DEF Distinct
  <2>6. /\ lease'[cl] = idle[k] /\ call'[cl] = answer
        /\ \A other \in Clients \ {cl} : call'[other] = call[other] /\ lease'[other] = lease[other]
    BY <1>3 DEF TypeOK
  <2>7. QueueMatchesCalls'
    <3>1. \A other \in Clients : call[other] = "wait" <=> call'[other] = "wait"
      BY <2>6
    <3>2. requests' = requests /\ late' \subseteq Elements(requests)
      BY <1>3 DEF queueVars, QueueMatchesCalls
    <3>3. QED
      BY <3>1, <3>2, QueueKept
  <2>8. QED
    BY <1>3, <2>2, <2>3, <2>4, <2>5, <2>6, <2>7 DEF Found
<1>4. CASE \E k \in DOMAIN idle : \E answer \in {"hold", "ping", "reping"} :
             /\ link'[idle[k]] = "up"
             /\ \A i \in 1..(k - 1) : link'[idle[i]] = "closed"
             /\ idle' = SubSeq(idle, k + 1, Len(idle))
             /\ active' = others \cup {idle[k]}
             /\ lease' = [lease EXCEPT ![cl] = idle[k]]
             /\ UNCHANGED queueVars
             /\ call' = [call EXCEPT ![cl] = answer]
  <2>1. PICK k \in DOMAIN idle : \E answer \in {"hold", "ping", "reping"} :
             /\ link'[idle[k]] = "up"
             /\ \A i \in 1..(k - 1) : link'[idle[i]] = "closed"
             /\ idle' = SubSeq(idle, k + 1, Len(idle))
             /\ active' = others \cup {idle[k]}
             /\ lease' = [lease EXCEPT ![cl] = idle[k]]
             /\ UNCHANGED queueVars
             /\ call' = [call EXCEPT ![cl] = answer]
    BY <1>4
  <2>2. PICK answer \in {"hold", "ping", "reping"} : call' = [call EXCEPT ![cl] = answer]
    BY <2>1
  <2>3. QED
    BY <1>3, <2>1, <2>2
<1>5. QED
  BY <1>1, <1>2, <1>4 DEF FindValidIdleConnection

-----------------------------------------------------------------------------
(***************************************************************************)
(* Nothing is forgotten, whatever is released twice, fails or times out:   *)
(* an open connection is idle or active, an active one is in the hands of  *)
(* a client, and the queue holds exactly the clients that wait.  The three *)
(* are inductive together: an expired request must not be one that holds a *)
(* connection, and what is handed over must go to a client that waits.     *)
(***************************************************************************)

\* A step that loses no connection: what is open stays in the store, what
\* becomes active goes to a client, and a client lets go of a connection only
\* as it stops being active.
LEMMA NothingLostKept ==
  ASSUME NothingLost,
         \A c \in Conns : link'[c] = "up" =>
           \/ c \in active' \cup Elements(idle')
           \/ link[c] = "up" /\ c \notin active \cup Elements(idle),
         \A c \in active' : c \in active \/ \E cl \in Clients : Keeps(cl)' /\ lease'[cl] = c,
         \A cl \in Clients : Keeps(cl) =>
           \/ Keeps(cl)' /\ lease'[cl] = lease[cl]
           \/ lease[cl] \notin active'
  PROVE  NothingLost'
<1>1. \A c \in Conns : link'[c] = "up" => c \in active' \cup Elements(idle')
  BY DEF NothingLost
<1>2. ASSUME NEW c \in active', c \in active
      PROVE  \E cl \in Clients : Keeps(cl)' /\ lease'[cl] = c
  <2>1. PICK cl \in Clients : Keeps(cl) /\ lease[cl] = c
    BY <1>2 DEF NothingLost
  <2>2. QED
    BY <1>2, <2>1
<1>3. \A c \in active' : \E cl \in Clients : Keeps(cl)' /\ lease'[cl] = c
  BY <1>2
<1>4. QED
  BY <1>1, <1>3 DEF NothingLost

\* The same when neither calls nor leases change.
LEMMA NothingLostSame ==
  ASSUME NothingLost, UNCHANGED <<storeVars, call, lease>>
  PROVE  NothingLost'
BY DEF NothingLost, Keeps, Holds, storeVars

\* A discarded connection is no longer active; none comes back to life.
LEMMA DiscardStore ==
  ASSUME TypeOK, NEW c, NEW b, Discard(c, b)
  PROVE  /\ active' = active \ {c} /\ idle' = idle /\ UNCHANGED queueVars
         /\ \A d \in Conns : link'[d] = "up" => link[d] = "up" /\ d # c
BY DEF Discard, TypeOK

\* What a release does to the queues of connections and to the links.
LEMMA ReleaseStore ==
  ASSUME TypeOK, NEW c, ReleaseConnection(c)
  PROVE  /\ active' = active \ {c} /\ UNCHANGED queueVars
         /\ \A d \in Conns : link'[d] = "up" => link[d] = "up"
         /\ \A d \in Conns : link'[d] = "up" /\ d \in active \cup Elements(idle)
                               => d \in active' \cup Elements(idle')
<1>1. CASE c \notin active /\ UNCHANGED <<storeVars, queueVars>>
  BY <1>1 DEF storeVars
<1>2. CASE Discard(c, TRUE)
  BY <1>2, DiscardStore
<1>3. CASE /\ c \in active /\ active' = active \ {c}
           /\ idle' = Append(idle, c) /\ UNCHANGED <<link, queueVars>>
  <2>1. Elements(idle') = Elements(idle) \cup {c}
    BY <1>3, AppendElements DEF TypeOK
  <2>2. QED
    BY <1>3, <2>1
<1>4. QED
  BY <1>1, <1>2, <1>3 DEF ReleaseConnection

\* The client that gives a connection back has no call any more.
LEMMA GivenBack ==
  ASSUME TypeOK, AllAccountedFor, NEW cl \in Clients, call[cl] \in {"hold", "reset"},
         Finish(cl), active' = active \ {lease[cl]}, UNCHANGED queueVars,
         \A d \in Conns : link'[d] = "up" =>
           /\ link[d] = "up"
           /\ d \in active \cup Elements(idle) => d \in active' \cup Elements(idle')
  PROVE  AllAccountedFor'
<1>1. /\ call'[cl] = "none"
      /\ \A other \in Clients \ {cl} : call'[other] = call[other] /\ lease'[other] = lease[other]
  BY FinishCalls
<1>2. \A other \in Clients : Keeps(other) =>
        \/ Keeps(other)' /\ lease'[other] = lease[other]
        \/ lease[other] \notin active'
  BY <1>1 DEF Keeps, Holds
<1>3. NothingLost'
  BY <1>2, NothingLostKept DEF AllAccountedFor
<1>4. QueueMatchesCalls'
  <2>1. requests' = requests /\ late' \subseteq Elements(requests)
    BY DEF queueVars, AllAccountedFor, QueueMatchesCalls
  <2>2. \A other \in Clients : call[other] = "wait" <=> call'[other] = "wait"
    BY <1>1
  <2>3. QED
    BY <2>1, <2>2, QueueKept DEF AllAccountedFor
<1>5. QED
  BY <1>3, <1>4 DEF AllAccountedFor

\* A step that leaves the store, the queue and the leases alone, and changes
\* the calls of clients that keep a connection at most.
LEMMA Quiet ==
  ASSUME AllAccountedFor, UNCHANGED <<storeVars, requests, late, lease>>,
         \A cl \in Clients : call'[cl] = call[cl] \/ (Keeps(cl) /\ Keeps(cl)')
  PROVE  AllAccountedFor'
<1>1. NothingLost'
  <2>1. \A cl \in Clients : Keeps(cl) => Keeps(cl)' /\ lease'[cl] = lease[cl]
    BY DEF Keeps, Holds
  <2>2. QED
    BY <2>1 DEF AllAccountedFor, NothingLost, storeVars
<1>2. \A cl \in Clients : call[cl] = "wait" <=> call'[cl] = "wait"
  BY DEF Keeps, Holds
<1>3. QED
  BY <1>1, <1>2, QueueKept DEF AllAccountedFor, QueueMatchesCalls

\* Every step keeps every connection and every request accounted for.
LEMMA AccountStep ==
  ASSUME TypeOK, TypeOK', AllAccountedFor, [Next]_vars
  PROVE  AllAccountedFor'
<1>1. CASE UNCHANGED <<storeVars, requests, late, lease, call>>
  BY <1>1, Quiet
<1>2. ASSUME NEW cl \in Clients, GetConnection(cl)
      PROVE  AllAccountedFor'
  <2>1. call[cl] = "none" /\ link' = link /\ FindValidIdleConnection(cl, active, FALSE)
    BY <1>2 DEF GetConnection
  <2>2. link' \in [Conns -> {"up", "closed"}] /\ call[cl] # "wait"
    BY <2>1 DEF TypeOK
  <2>3. QueueMatchesCalls
    BY DEF AllAccountedFor
  <2>4. Found(cl, active)
    BY <2>1, <2>2, <2>3, FindStore, Zenon
  <2>5. NothingLost'
    BY <2>1, <2>4, NothingLostKept DEF AllAccountedFor, Keeps, Holds, Found
  <2>6. QED
    BY <2>4, <2>5 DEF AllAccountedFor, Found
<1>3. ASSUME NEW cl \in Clients, ReleaseInvalid(cl)
      PROVE  AllAccountedFor'
  BY <1>3, DiscardStore, GivenBack DEF ReleaseInvalid
<1>4. ASSUME NEW cl \in Clients, ReleaseWithReset(cl)
      PROVE  AllAccountedFor'
  BY <1>4, Quiet DEF ReleaseWithReset, queueVars, Keeps, Holds, TypeOK
<1>5. ASSUME NEW cl \in Clients, ReleaseDirectly(cl)
      PROVE  AllAccountedFor'
  BY <1>5, ReleaseStore, GivenBack DEF ReleaseDirectly
<1>6. ASSUME NEW cl \in Clients, ReleaseAgain(cl)
      PROVE  AllAccountedFor'
  BY <1>6, <1>1 DEF ReleaseAgain, queueVars
<1>7. ASSUME NEW cl \in Clients, DestroyConnection(cl)
      PROVE  AllAccountedFor'
  BY <1>7, DiscardStore, GivenBack DEF DestroyConnection
<1>8. CASE End
  <2>1. /\ idle' = <<>> /\ requests' = <<>> /\ late' = {} /\ active' = active /\ lease' = lease
        /\ link' = [c \in Conns |-> IF c \in Elements(idle) THEN "closed" ELSE link[c]]
        /\ call' = [cl \in Clients |-> IF cl \in Elements(requests) THEN "fail" ELSE call[cl]]
    BY <1>8 DEF End
  <2>2. \A cl \in Clients : Keeps(cl) => Keeps(cl)' /\ lease'[cl] = lease[cl]
    BY <2>1 DEF AllAccountedFor, QueueMatchesCalls, Keeps, Holds
  <2>3. NothingLost'
    BY <2>1, <2>2, NothingLostKept DEF AllAccountedFor
  <2>4. \A cl \in Clients : call'[cl] # "wait"
    BY <2>1 DEF AllAccountedFor, QueueMatchesCalls
  <2>5. QueueMatchesCalls'
    BY <2>1, <2>4 DEF QueueMatchesCalls, Elements
  <2>6. QED
    BY <2>3, <2>5 DEF AllAccountedFor
<1>9. CASE IdleTick
  <2>1. CASE Closed
    BY <1>9, <2>1, <1>1 DEF IdleTick, queueVars, storeVars
  <2>2. CASE ~Closed
    <3>1. ProcessNextPendingRequest(idle) /\ link' = link /\ idle \in Seq(Conns)
      BY <1>9, <2>2 DEF IdleTick, TypeOK
    <3>2. /\ QueueMatchesCalls'
          /\ \/ /\ idle' = idle /\ active' = active /\ lease' = lease
                /\ \A cl \in Clients : Expires(cl)
             \/ /\ idle # <<>> /\ idle' = Tail(idle) /\ active' = active \cup {Head(idle)}
                /\ \E cl \in Clients :
                     /\ call[cl] = "wait" /\ call'[cl] = "hold" /\ lease'[cl] = Head(idle)
                     /\ \A other \in Clients \ {cl} : Expires(other) /\ lease'[other] = lease[other]
      BY <3>1, ProcessStore DEF AllAccountedFor
    <3>3. idle # <<>> => Elements(idle) = {Head(idle)} \cup Elements(Tail(idle))
      BY <3>1, HeadAndTail
    <3>4. NothingLost'
      BY <3>1, <3>2, <3>3, NothingLostKept DEF AllAccountedFor, Keeps, Holds, Expires
    <3>5. QED
      BY <3>2, <3>4 DEF AllAccountedFor
  <2>3. QED
    BY <2>1, <2>2
<1>10. ASSUME NEW cl \in Clients, RejectTick(cl)
       PROVE  AllAccountedFor'
  <2>1. /\ call[cl] = "fail" /\ Finish(cl) /\ UNCHANGED <<storeVars, queueVars>>
    BY <1>10 DEF RejectTick
  <2>2. /\ call'[cl] = "none"
        /\ \A other \in Clients \ {cl} : call'[other] = call[other] /\ lease'[other] = lease[other]
    BY <2>1, FinishCalls
  <2>3. NothingLost'
    BY <2>1, <2>2, NothingLostKept DEF AllAccountedFor, Keeps, Holds, storeVars
  <2>4. QueueMatchesCalls'
    <3>1. \A other \in Clients : call[other] = "wait" <=> call'[other] = "wait"
      BY <2>1, <2>2
    <3>2. QED
      BY <2>1, <3>1, QueueKept DEF AllAccountedFor, QueueMatchesCalls, queueVars
  <2>5. QED
    BY <2>3, <2>4 DEF AllAccountedFor
<1>11. CASE SizeCheck
  BY <1>11, <1>1 DEF SizeCheck, leaseVars, queueVars
<1>12. CASE ErrorCheck
  BY <1>12, <1>1 DEF ErrorCheck, leaseVars, queueVars
<1>13. CASE DeadlinePasses
  <2>1. /\ UNCHANGED <<storeVars, call, lease, requests>>
        /\ \E i \in DOMAIN requests : late' = late \cup {requests[i]}
    BY <1>13 DEF DeadlinePasses, leaseVars
  <2>2. late' \subseteq Elements(requests)
    BY <2>1 DEF AllAccountedFor, QueueMatchesCalls, Elements
  <2>3. QED
    BY <2>1, <2>2, NothingLostSame, QueueKept DEF AllAccountedFor
<1>14. CASE RequestTimeout
  <2>1. CheckRequestTimeouts(requests, call) /\ UNCHANGED <<storeVars, lease>>
    BY <1>14 DEF RequestTimeout
  <2>2. /\ requests \in Seq(Clients) /\ Distinct(requests) /\ call \in [Clients -> CallStates]
        /\ \A cl \in Clients : call[cl] = "wait" <=> cl \in Elements(requests)
    BY DEF AllAccountedFor, QueueMatchesCalls, Distinct, TypeOK
  <2>3. QueueMatchesCalls' /\ \A cl \in Clients : Expires(cl)
    BY <2>1, <2>2, CheckQueue DEF Expires
  <2>4. NothingLost'
    BY <2>1, <2>3, NothingLostKept DEF AllAccountedFor, Keeps, Holds, Expires, storeVars
  <2>5. QED
    BY <2>3, <2>4 DEF AllAccountedFor
<1>15. CASE RetryTimer
  BY <1>15, <1>1 DEF RetryTimer, leaseVars, queueVars
<1>16. CASE BackoffTimer
  BY <1>16, <1>1 DEF BackoffTimer, leaseVars, queueVars
<1>17. CASE RemoveIdleConnections
  <2>1. PICK k \in 0..Len(idle) :
          /\ idle' = SubSeq(idle, k + 1, Len(idle))
          /\ link' = [c \in Conns |-> IF \E i \in 1..k : idle[i] = c THEN "closed" ELSE link[c]]
    BY <1>17 DEF RemoveIdleConnections
  <2>2. active' = active /\ UNCHANGED <<call, lease, requests, late>>
    BY <1>17 DEF RemoveIdleConnections, leaseVars, queueVars
  <2>3. Elements(idle') = {idle[i] : i \in (k + 1)..Len(idle)}
    BY <2>1, SuffixElements DEF TypeOK
  <2>4. \A i \in DOMAIN idle : i \in 1..k \/ i \in (k + 1)..Len(idle)
    BY DEF TypeOK
  <2>5. \A c \in Conns : link'[c] = "up" =>
          /\ link[c] = "up"
          /\ c \in active \cup Elements(idle) => c \in active' \cup Elements(idle')
    BY <2>1, <2>2, <2>3, <2>4 DEF Elements
  <2>6. NothingLost'
    BY <2>2, <2>5, NothingLostKept DEF AllAccountedFor, Keeps, Holds
  <2>7. QED
    BY <2>2, <2>6, QueueKept DEF AllAccountedFor, QueueMatchesCalls
<1>18. CASE ConnectSucceeds
  <2>1. PICK c \in Conns : /\ link' = [link EXCEPT ![c] = "up"]
                           /\ ProcessNextPendingRequest(Append(idle, c))
    BY <1>18 DEF ConnectSucceeds
  <2> DEFINE q == Append(idle, c)
  <2>2. q \in Seq(Conns) /\ Elements(q) = Elements(idle) \cup {c}
    BY AppendElements DEF TypeOK
  <2> HIDE DEF q
  <2>3. ProcessNextPendingRequest(q)
    BY <2>1 DEF q
  <2>4. /\ QueueMatchesCalls'
        /\ \/ /\ idle' = q /\ active' = active /\ lease' = lease
              /\ \A cl \in Clients : Expires(cl)
           \/ /\ q # <<>> /\ idle' = Tail(q) /\ active' = active \cup {Head(q)}
              /\ \E cl \in Clients :
                   /\ call[cl] = "wait" /\ call'[cl] = "hold" /\ lease'[cl] = Head(q)
                   /\ \A other \in Clients \ {cl} : Expires(other) /\ lease'[other] = lease[other]
    BY <2>2, <2>3, ProcessStore DEF AllAccountedFor
  <2>5. q # <<>> => Elements(q) = {Head(q)} \cup Elements(Tail(q))
    BY <2>2, HeadAndTail
  <2>6. \A d \in Conns : link'[d] = "up" => link[d] = "up" \/ d = c
    BY <2>1 DEF TypeOK
  <2>7. \A d \in Conns : link'[d] = "up" =>
           \/ d \in active' \cup Elements(idle')
           \/ link[d] = "up" /\ d \notin active \cup Elements(idle)
    BY <2>2, <2>4, <2>5, <2>6
  <2>8. NothingLost'
    BY <2>4, <2>7, NothingLostKept DEF AllAccountedFor, Keeps, Holds, Expires
  <2>9. QED
    BY <2>4, <2>8 DEF AllAccountedFor
<1>19. CASE ConnectSucceedsTooLate
  BY <1>19, <1>1 DEF ConnectSucceedsTooLate, leaseVars, queueVars
<1>20. CASE ConnectFailsForGood
  BY <1>20, <1>1 DEF ConnectFailsForGood, leaseVars, queueVars
<1>21. CASE ConnectFailsOnce
  BY <1>21, <1>1 DEF ConnectFailsOnce, leaseVars, queueVars
<1>22. ASSUME NEW cl \in Clients, PingSucceeds(cl)
       PROVE  AllAccountedFor'
  BY <1>22, Quiet DEF PingSucceeds, queueVars, Keeps, Holds, TypeOK
<1>23. ASSUME NEW cl \in Clients, PingFails(cl)
       PROVE  AllAccountedFor'
  <2>1. /\ call[cl] \in {"ping", "reping"} /\ link' = [link EXCEPT ![lease[cl]] = "closed"]
        /\ FindValidIdleConnection(cl, active \ {lease[cl]}, TRUE)
    BY <1>23 DEF PingFails
  <2>2. /\ link' \in [Conns -> {"up", "closed"}] /\ call[cl] # "wait"
        /\ \A d \in Conns : link'[d] = "up" => link[d] = "up" /\ d # lease[cl]
    BY <2>1 DEF TypeOK
  <2>3. QueueMatchesCalls
    BY DEF AllAccountedFor
  <2>4. Found(cl, active \ {lease[cl]})
    BY <2>1, <2>2, <2>3, FindStore, Zenon
  <2>5. Elements(idle) \subseteq Conns
    BY DEF Elements, TypeOK
  <2>6. NothingLost'
    BY <2>2, <2>4, <2>5, NothingLostKept DEF AllAccountedFor, Keeps, Holds, Found
  <2>7. QED
    BY <2>4, <2>6 DEF AllAccountedFor, Found
<1>24. ASSUME NEW cl \in Clients, ResetSucceeds(cl)
       PROVE  AllAccountedFor'
  BY <1>24, ReleaseStore, GivenBack DEF ResetSucceeds
<1>25. ASSUME NEW cl \in Clients, RollbackFails(cl)
       PROVE  AllAccountedFor'
  BY <1>25, DiscardStore, GivenBack DEF RollbackFails
<1>31. ASSUME NEW cl \in Clients, ResetFails(cl)
       PROVE  AllAccountedFor'
  BY <1>31, Quiet DEF ResetFails, queueVars, Keeps, Holds, TypeOK
<1>32. ASSUME NEW c \in Conns, SecondResetFails(c)
       PROVE  AllAccountedFor'
  BY <1>32, <1>1 DEF SecondResetFails, queueVars
<1>26. ASSUME NEW c \in Conns, SecondResetSucceeds(c) \/ SecondRollbackFails(c)
       PROVE  AllAccountedFor'
  <2>1. UNCHANGED <<call, lease>> /\ (ReleaseConnection(c) \/ Discard(c, TRUE))
    BY <1>26 DEF SecondResetSucceeds, SecondRollbackFails
  <2>2. /\ active' = active \ {c} /\ UNCHANGED queueVars
        /\ \A d \in Conns : link'[d] = "up" =>
             /\ link[d] = "up"
             /\ d \in active \cup Elements(idle) => d \in active' \cup Elements(idle')
    BY <2>1, ReleaseStore, DiscardStore
  <2>3. NothingLost'
    BY <2>1, <2>2, NothingLostKept DEF AllAccountedFor, Keeps, Holds
  <2>4. QED
    BY <2>1, <2>2, <2>3, QueueKept DEF AllAccountedFor, QueueMatchesCalls, queueVars
<1>27. ASSUME NEW c \in Conns, ConnectionError(c)
       PROVE  AllAccountedFor'
  <2>1. /\ link' = [link EXCEPT ![c] = "closed"] /\ active' = active \ {c} /\ RemoveFromIdle(c)
        /\ UNCHANGED <<call, lease, requests, late>>
    BY <1>27 DEF ConnectionError, leaseVars, queueVars
  <2>2. Elements(idle) \ {c} \subseteq Elements(idle')
    <3>1. CASE idle' = idle
      BY <3>1
    <3>2. ASSUME NEW i \in DOMAIN idle, idle[i] = c,
                 idle' = SubSeq(idle, 1, i - 1) \o SubSeq(idle, i + 1, Len(idle))
          PROVE  Elements(idle) \ {c} \subseteq Elements(idle')
      BY <3>2, RemovedElements DEF TypeOK
    <3>3. QED
      BY <2>1, <3>1, <3>2 DEF RemoveFromIdle
  <2>3. \A d \in Conns : link'[d] = "up" => link[d] = "up" /\ d # c
    BY <2>1 DEF TypeOK
  <2>4. NothingLost'
    BY <2>1, <2>2, <2>3, NothingLostKept DEF AllAccountedFor, Keeps, Holds
  <2>5. QED
    BY <2>1, <2>4, QueueKept DEF AllAccountedFor, QueueMatchesCalls
<1>28. CASE EndResolves
  <2>1. /\ active' = {} /\ link' = [c \in Conns |-> IF c \in active THEN "closed" ELSE link[c]]
        /\ UNCHANGED <<idle, call, lease, requests, late>>
    BY <1>28 DEF EndResolves, leaseVars, queueVars
  <2>2. NothingLost'
    BY <2>1, NothingLostKept DEF AllAccountedFor
  <2>3. QED
    BY <2>1, <2>2, QueueKept DEF AllAccountedFor, QueueMatchesCalls
<1>29. CASE UNCHANGED vars
  BY <1>29, <1>1 DEF vars, leaseVars, queueVars
<1>30. QED
  BY <1>2, <1>3, <1>4, <1>5, <1>6, <1>7, <1>8, <1>9, <1>10, <1>11, <1>12, <1>13, <1>14, <1>15, <1>16, <1>17, <1>18, <1>19, <1>20, <1>21, <1>22, <1>23, <1>24, <1>25, <1>26, <1>27, <1>28, <1>29, <1>31, <1>32
     DEF Next, ClientNext, LoopNext, ServerNext

\* Nothing else is forgotten: an open connection is idle or active, an active
\* one is in the hands of a client, or was forgotten as its COM_RESET_CONNECTION
\* failed, and the queue holds exactly the waiting clients.
THEOREM PoolAllAccountedFor == Spec => []AllAccountedFor
<1>1. Init => AllAccountedFor
  BY DEF Init, AllAccountedFor, NothingLost, QueueMatchesCalls, Elements
<1>2. AllAccountedFor /\ TypeOK /\ TypeOK' /\ [Next]_vars => AllAccountedFor'
  BY AccountStep
<1>3. QED
  BY <1>1, <1>2, PoolTypeCorrect, PTL DEF Spec

-----------------------------------------------------------------------------
(***************************************************************************)
(* The end of the pool.  When end() has resolved no connection is active,  *)
(* and as a closed pool has none idle and every open one is accounted for, *)
(* none is open.                                                           *)
(***************************************************************************)
EndedInactive == phase = "ended" => active = {}

\* Once the pool is closed no connection becomes active.
LEMMA EndedStep ==
  ASSUME TypeOK, AllAccountedFor, ClosedDrained, EndedInactive, [Next]_vars
  PROVE  EndedInactive'
<1>1. CASE phase' = phase /\ (Closed => active' \subseteq active)
  BY <1>1 DEF EndedInactive, Closed
<1>2. ASSUME NEW cl \in Clients, PingFails(cl)
      PROVE  EndedInactive'
  <2>1. /\ call[cl] \in {"ping", "reping"} /\ link' = [link EXCEPT ![lease[cl]] = "closed"]
        /\ FindValidIdleConnection(cl, active \ {lease[cl]}, TRUE) /\ phase' = phase
    BY <1>2 DEF PingFails
  <2>2. link' \in [Conns -> {"up", "closed"}] /\ call[cl] # "wait" /\ QueueMatchesCalls
    BY <2>1 DEF TypeOK, AllAccountedFor
  <2>3. Found(cl, active \ {lease[cl]})
    BY <2>1, <2>2, FindStore, Zenon
  <2>4. Closed => Elements(idle) = {}
    BY DEF ClosedDrained, Elements
  <2>5. QED
    BY <1>1, <2>1, <2>3, <2>4 DEF Found
<1>3. ASSUME NEW c, ReleaseConnection(c) \/ Discard(c, TRUE) \/ Discard(c, FALSE)
      PROVE  EndedInactive'
  BY <1>1, <1>3 DEF ReleaseConnection, Discard, storeVars
<1>4. CASE End \/ EndResolves
  BY <1>4 DEF End, EndResolves, EndedInactive
<1>5. QED
  BY <1>1, <1>2, <1>3, <1>4
     DEF Next, ClientNext, LoopNext, ServerNext, vars, storeVars, GetConnection, ReleaseInvalid,
         ReleaseWithReset, ReleaseDirectly, ReleaseAgain, DestroyConnection, IdleTick, RejectTick,
         SizeCheck, ErrorCheck, DeadlinePasses, RequestTimeout, RetryTimer, BackoffTimer,
         RemoveIdleConnections, ConnectSucceeds, ConnectSucceedsTooLate, ConnectFailsForGood,
         ConnectFailsOnce, PingSucceeds, ResetSucceeds, RollbackFails, ResetFails,
         SecondResetSucceeds, SecondRollbackFails, SecondResetFails, ConnectionError

\* After end() nothing is queued or idle and no timer is armed, whatever was
\* under way; once end() has resolved no connection is open.
THEOREM PoolEndDrains == Spec => []EndDrains
<1>1. Init => EndedInactive
  BY DEF Init, EndedInactive
<1>2. EndedInactive /\ TypeOK /\ AllAccountedFor /\ ClosedDrained /\ [Next]_vars => EndedInactive'
  BY EndedStep
<1>3. TypeOK /\ AllAccountedFor /\ ClosedDrained /\ EndedInactive => EndDrains
  <2> SUFFICES ASSUME TypeOK, AllAccountedFor, ClosedDrained, EndedInactive, phase = "ended",
                      NEW c \in Conns
               PROVE  link[c] = "closed"
    BY DEF EndDrains, EndedShut
  <2>1. active = {} /\ Elements(idle) = {}
    BY DEF EndedInactive, ClosedDrained, Closed, Elements
  <2>2. QED
    BY <2>1 DEF AllAccountedFor, NothingLost, TypeOK
<1>4. QED
  BY <1>1, <1>2, <1>3, PoolTypeCorrect, PoolClosedDrained, PoolAllAccountedFor, PTL DEF Spec

-----------------------------------------------------------------------------
(***************************************************************************)
(* The lease.  Without double releases a connection is in one place, works *)
(* and belongs to one client.  The two facts need each other: a connection *)
(* that is released joins the idle queue only as its only client lets go   *)
(* of it, and what a search or a wake-up hands over was idle, so nobody    *)
(* has it; that a failed ping closes no idle connection needs both.        *)
(***************************************************************************)
LeaseInv ==
  /\ StoreIsAlive
  /\ LeaseExclusive
  /\ \A cl \in Clients : Holds(cl) => lease[cl] \in Conns
  /\ \A c \in Conns : again[c] = "no"

\* Nobody gets a connection, and what is held does not become idle.
LEMMA NoNewLease ==
  ASSUME LeaseInv, again' = again,
         \A cl \in Clients : Holds(cl)' =>
           Holds(cl) /\ lease'[cl] = lease[cl] /\ lease[cl] \notin Elements(idle'),
         StoreIsAlive'
  PROVE  LeaseInv'
BY DEF LeaseInv, LeaseExclusive

\* One client gets a connection that nobody holds.
LEMMA NewLease ==
  ASSUME LeaseInv, again' = again, NEW cl \in Clients, NEW c \in Conns,
         lease'[cl] = c, c \notin Elements(idle'),
         \A other \in Clients \ {cl} : Holds(other)' =>
           /\ Holds(other) /\ lease'[other] = lease[other]
           /\ lease[other] \notin Elements(idle') /\ lease[other] # c,
         StoreIsAlive'
  PROVE  LeaseInv'
<1>1. ASSUME NEW a \in Clients, Holds(a)'
      PROVE  lease'[a] \notin Elements(idle') /\ lease'[a] \in Conns
  BY <1>1 DEF LeaseInv
<1>2. ASSUME NEW a \in Clients, NEW b \in Clients, a # b, Holds(a)', Holds(b)'
      PROVE  lease'[a] # lease'[b]
  <2>1. CASE a = cl
    BY <1>2, <2>1
  <2>2. CASE b = cl
    BY <1>2, <2>2
  <2>3. CASE a # cl /\ b # cl
    BY <1>2, <2>3 DEF LeaseInv, LeaseExclusive
  <2>4. QED
    BY <2>1, <2>2, <2>3
<1>3. LeaseExclusive'
  BY <1>1, <1>2 DEF LeaseExclusive
<1>4. QED
  BY <1>1, <1>3 DEF LeaseInv

\* The store in terms of the elements of the idle queue.
LEMMA StoreParts ==
  StoreIsAlive <=> /\ Distinct(idle)
                   /\ \A c \in active : c \notin Elements(idle) /\ link[c] = "up"
                   /\ \A c \in Elements(idle) : link[c] = "up"
BY DEF StoreIsAlive, Distinct

\* The same of the next state.
LEMMA StorePartsNext ==
  ASSUME Distinct(idle'),
         \A c \in active' : c \notin Elements(idle') /\ link'[c] = "up",
         \A c \in Elements(idle') : link'[c] = "up"
  PROVE  StoreIsAlive'
BY DEF StoreIsAlive, Distinct

\* A step that changes neither the store nor the leases, and lets nobody hold
\* a connection that did not.
LEMMA LeaseQuiet ==
  ASSUME LeaseInv, UNCHANGED <<storeVars, again>>,
         \A cl \in Clients : Holds(cl)' => Holds(cl) /\ lease'[cl] = lease[cl]
  PROVE  LeaseInv'
<1>1. StoreIsAlive'
  BY DEF LeaseInv, StoreIsAlive, storeVars
<1>2. \A cl \in Clients : Holds(cl)' =>
        Holds(cl) /\ lease'[cl] = lease[cl] /\ lease[cl] \notin Elements(idle')
  BY DEF LeaseInv, LeaseExclusive, storeVars
<1>3. QED
  BY <1>1, <1>2, NoNewLease

\* What a client gives back is discarded or joins the idle queue, and is held
\* by nobody else.
LEMMA LeaseGivenBack ==
  ASSUME TypeOK, LeaseInv, NEW cl \in Clients, call[cl] \in {"hold", "reset"}, Finish(cl),
         again' = again,
         ReleaseConnection(lease[cl]) \/ Discard(lease[cl], TRUE) \/ Discard(lease[cl], FALSE)
  PROVE  LeaseInv'
<1> DEFINE c == lease[cl]
<1>1. /\ c \in Conns /\ c \notin Elements(idle)
      /\ \A other \in Clients \ {cl} : Holds(other) => lease[other] # c
  BY DEF LeaseInv, LeaseExclusive, Holds
<1>2. /\ call'[cl] = "none"
      /\ \A other \in Clients \ {cl} : call'[other] = call[other] /\ lease'[other] = lease[other]
  BY FinishCalls
<1>3. /\ Distinct(idle)
      /\ \A d \in active : d \notin Elements(idle) /\ link[d] = "up"
      /\ \A d \in Elements(idle) : link[d] = "up"
      /\ active \subseteq Conns /\ Elements(idle) \subseteq Conns
  BY StoreParts DEF LeaseInv, TypeOK, Elements
<1>4. CASE Discard(c, TRUE) \/ Discard(c, FALSE)
  <2>1. active' = active \ {c} /\ idle' = idle /\ link' = [link EXCEPT ![c] = "closed"]
    BY <1>4 DEF Discard
  <2>2. \A d \in Conns \ {c} : link'[d] = link[d]
    BY <2>1 DEF TypeOK
  <2>3. StoreIsAlive'
    BY <1>1, <1>3, <2>1, <2>2, StorePartsNext
  <2>4. QED
    BY <1>2, <2>1, <2>3, NoNewLease DEF LeaseInv, LeaseExclusive, Holds
<1>5. CASE c \notin active /\ UNCHANGED storeVars
  BY <1>2, <1>5, LeaseQuiet DEF Holds
<1>6. CASE c \in active /\ active' = active \ {c} /\ idle' = Append(idle, c) /\ UNCHANGED link
  <2>1. Elements(idle') = Elements(idle) \cup {c} /\ Distinct(idle')
    BY <1>1, <1>3, <1>6, AppendElements DEF TypeOK
  <2>2. StoreIsAlive'
    BY <1>3, <1>6, <2>1, StorePartsNext
  <2>3. \A other \in Clients : Holds(other)' =>
          Holds(other) /\ lease'[other] = lease[other] /\ lease[other] \notin Elements(idle')
    BY <1>1, <1>2, <2>1 DEF LeaseInv, LeaseExclusive, Holds
  <2>4. QED
    BY <2>2, <2>3, NoNewLease
<1>7. QED
  BY <1>4, <1>5, <1>6 DEF ReleaseConnection

\* What is given to the first request comes from the idle queue.
LEMMA LeaseProcess ==
  ASSUME TypeOK, QueueMatchesCalls, LeaseInv, again' = again,
         NEW q \in Seq(Conns), ProcessNextPendingRequest(q),
         Distinct(q),
         \A c \in active : c \notin Elements(q) /\ link'[c] = "up",
         \A c \in Elements(q) : link'[c] = "up",
         \A cl \in Clients : Holds(cl) => lease[cl] \notin Elements(q)
  PROVE  LeaseInv'
<1>1. CASE /\ idle' = q /\ active' = active /\ lease' = lease
           /\ \A cl \in Clients : Expires(cl)
  <2>1. StoreIsAlive'
    BY <1>1, StorePartsNext
  <2>2. QED
    BY <1>1, <2>1, NoNewLease DEF Holds, Expires
<1>2. ASSUME q # <<>>, idle' = Tail(q), active' = active \cup {Head(q)},
             NEW cl \in Clients, lease'[cl] = Head(q),
             \A other \in Clients \ {cl} : Expires(other) /\ lease'[other] = lease[other]
      PROVE  LeaseInv'
  <2>1. /\ Head(q) \in Conns /\ Elements(q) = {Head(q)} \cup Elements(idle')
        /\ Distinct(idle') /\ Head(q) \notin Elements(idle')
    BY <1>2, HeadAndTail
  <2>2. StoreIsAlive'
    BY <1>2, <2>1, StorePartsNext
  <2>3. QED
    BY <1>2, <2>1, <2>2, NewLease DEF Holds, Expires
<1>3. QED
  BY <1>1, <1>2, ProcessStore

\* What a search finds was idle and is open.
LEMMA LeaseFound ==
  ASSUME TypeOK, LeaseInv, again' = again, NEW cl \in Clients, NEW others \in SUBSET active,
         Found(cl, others),
         \A c \in others \cup Elements(idle) : link'[c] = link[c]
  PROVE  LeaseInv'
<1>1. /\ Distinct(idle)
      /\ \A d \in active : d \notin Elements(idle) /\ link[d] = "up"
      /\ \A d \in Elements(idle) : link[d] = "up"
      /\ active \subseteq Conns /\ Elements(idle) \subseteq Conns
  BY StoreParts DEF LeaseInv, TypeOK, Elements
<1>2. \A other \in Clients \ {cl} : call'[other] = call[other] /\ lease'[other] = lease[other]
  BY DEF Found
<1>3. \A other \in Clients : Holds(other) => lease[other] \notin Elements(idle)
  BY DEF LeaseInv, LeaseExclusive
<1>4. ASSUME NEW c \in Elements(idle),
             link'[c] = "up", active' = others \cup {c}, lease'[cl] = c,
             Elements(idle') \subseteq Elements(idle), Distinct(idle'), c \notin Elements(idle'),
             \A d \in Elements(idle') : link'[d] = "up"
      PROVE  LeaseInv'
  <2>1. StoreIsAlive'
    BY <1>1, <1>4, StorePartsNext
  <2>2. QED
    BY <1>1, <1>2, <1>3, <1>4, <2>1, NewLease DEF Holds
<1>5. CASE /\ active' = others /\ idle' = <<>> /\ call'[cl] \in {"wait", "none"}
  <2>1. Elements(idle') = {} /\ Distinct(idle')
    BY <1>5 DEF Elements, Distinct
  <2>2. StoreIsAlive'
    BY <1>1, <1>5, <2>1, StorePartsNext
  <2>3. QED
    BY <1>2, <1>5, <2>1, <2>2, NoNewLease DEF Holds
<1>6. CASE \E c \in Elements(idle) :
             /\ link'[c] = "up" /\ active' = others \cup {c} /\ lease'[cl] = c
             /\ Elements(idle') \subseteq Elements(idle)
             /\ Distinct(idle) => Distinct(idle') /\ c \notin Elements(idle')
  <2>1. PICK c \in Elements(idle) :
             /\ link'[c] = "up" /\ active' = others \cup {c} /\ lease'[cl] = c
             /\ Elements(idle') \subseteq Elements(idle)
             /\ Distinct(idle) => Distinct(idle') /\ c \notin Elements(idle')
    BY <1>6
  <2>2. \A d \in Elements(idle') : link'[d] = "up"
    BY <1>1, <2>1
  <2>3. QED
    BY <1>1, <1>4, <2>1, <2>2
<1>7. QED
  BY <1>5, <1>6 DEF Found

\* Every step keeps the leases exclusive.
LEMMA LeaseStep ==
  ASSUME DoubleRelease = FALSE,
         TypeOK, TypeOK', AllAccountedFor, LeaseInv, [Next]_vars
  PROVE  LeaseInv'
<1>1. CASE UNCHANGED <<storeVars, lease, call, again>>
  BY <1>1, LeaseQuiet DEF Holds
<1>2. /\ Distinct(idle)
      /\ \A d \in active : d \notin Elements(idle) /\ link[d] = "up"
      /\ \A d \in Elements(idle) : link[d] = "up"
      /\ \A cl \in Clients : Holds(cl) => lease[cl] \notin Elements(idle) /\ lease[cl] \in Conns
      /\ active \subseteq Conns /\ Elements(idle) \subseteq Conns /\ idle \in Seq(Conns)
      /\ QueueMatchesCalls
      /\ \A c \in Conns : again[c] = "no"
  BY StoreParts DEF LeaseInv, LeaseExclusive, AllAccountedFor, TypeOK, Elements
<1>3. ASSUME NEW cl \in Clients, GetConnection(cl)
      PROVE  LeaseInv'
  <2>1. /\ call[cl] = "none" /\ link' = link /\ again' = again
        /\ FindValidIdleConnection(cl, active, FALSE)
    BY <1>3 DEF GetConnection
  <2>2. link' \in [Conns -> {"up", "closed"}] /\ call[cl] # "wait"
    BY <2>1 DEF TypeOK
  <2>3. Found(cl, active)
    BY <1>2, <2>1, <2>2, FindStore, Zenon
  <2>4. QED
    BY <2>1, <2>3, LeaseFound
<1>4. ASSUME NEW cl \in Clients, ReleaseInvalid(cl)
      PROVE  LeaseInv'
  BY <1>4, LeaseGivenBack DEF ReleaseInvalid
<1>5. ASSUME NEW cl \in Clients, ReleaseWithReset(cl)
      PROVE  LeaseInv'
  BY <1>5, LeaseQuiet DEF ReleaseWithReset, Holds, TypeOK
<1>6. ASSUME NEW cl \in Clients, ReleaseDirectly(cl)
      PROVE  LeaseInv'
  BY <1>6, LeaseGivenBack DEF ReleaseDirectly
<1>7. ASSUME NEW cl \in Clients, DestroyConnection(cl)
      PROVE  LeaseInv'
  BY <1>7, LeaseGivenBack DEF DestroyConnection
<1>8. CASE End
  <2>1. /\ idle' = <<>> /\ active' = active /\ lease' = lease /\ again' = again
        /\ link' = [c \in Conns |-> IF c \in Elements(idle) THEN "closed" ELSE link[c]]
        /\ call' = [cl \in Clients |-> IF cl \in Elements(requests) THEN "fail" ELSE call[cl]]
    BY <1>8 DEF End
  <2>2. Elements(idle') = {} /\ Distinct(idle')
    BY <2>1 DEF Elements, Distinct
  <2>3. StoreIsAlive'
    BY <1>2, <2>1, <2>2, StorePartsNext
  <2>4. QED
    BY <2>1, <2>2, <2>3, NoNewLease DEF Holds
<1>9. CASE IdleTick
  <2>1. CASE Closed
    BY <1>9, <2>1, <1>1 DEF IdleTick, storeVars
  <2>2. CASE ~Closed
    <3>1. ProcessNextPendingRequest(idle) /\ link' = link /\ again' = again
      BY <1>9, <2>2 DEF IdleTick
    <3>2. QED
      BY <1>2, <3>1, LeaseProcess
  <2>3. QED
    BY <2>1, <2>2
<1>10. ASSUME NEW cl \in Clients, RejectTick(cl)
       PROVE  LeaseInv'
  BY <1>10, FinishCalls, LeaseQuiet DEF RejectTick, Holds
<1>11. CASE RequestTimeout
  <2>1. CheckRequestTimeouts(requests, call) /\ UNCHANGED <<storeVars, lease, again>>
    BY <1>11 DEF RequestTimeout
  <2>2. /\ requests \in Seq(Clients) /\ Distinct(requests) /\ call \in [Clients -> CallStates]
        /\ \A cl \in Clients : call[cl] = "wait" <=> cl \in Elements(requests)
    BY <1>2 DEF QueueMatchesCalls, Distinct, TypeOK
  <2>3. \A cl \in Clients : Expires(cl)
    BY <2>1, <2>2, CheckQueue DEF Expires
  <2>4. QED
    BY <2>1, <2>3, LeaseQuiet DEF Holds, Expires
<1>12. CASE RemoveIdleConnections
  <2>1. PICK k \in 0..Len(idle) :
          /\ idle' = SubSeq(idle, k + 1, Len(idle))
          /\ link' = [c \in Conns |-> IF \E i \in 1..k : idle[i] = c THEN "closed" ELSE link[c]]
    BY <1>12 DEF RemoveIdleConnections
  <2>2. active' = active /\ UNCHANGED <<call, lease, again>>
    BY <1>12 DEF RemoveIdleConnections, leaseVars
  <2>3. /\ Elements(idle') = {idle[i] : i \in (k + 1)..Len(idle)}
        /\ Distinct(idle')
    BY <1>2, <2>1, SuffixElements
  <2>4. /\ \A i \in 1..k : i \in DOMAIN idle
        /\ \A i \in (k + 1)..Len(idle) : i \in DOMAIN idle
        /\ \A i \in 1..k : \A j \in (k + 1)..Len(idle) : i # j
    BY DEF TypeOK
  <2>5. Elements(idle') \subseteq Elements(idle)
    BY <2>3, <2>4 DEF Elements
  <2>6. \A c \in active' : link'[c] = "up"
    BY <1>2, <2>1, <2>2, <2>4 DEF Elements
  <2>7. \A c \in Elements(idle') : link'[c] = "up"
    <3>1. ASSUME NEW j \in (k + 1)..Len(idle) PROVE link'[idle[j]] = "up"
      <4>1. ~ \E i \in 1..k : idle[i] = idle[j]
        BY <1>2, <2>4 DEF Distinct
      <4>2. idle[j] \in Elements(idle) /\ idle[j] \in Conns
        BY <1>2, <2>4 DEF Elements
      <4>3. QED
        BY <1>2, <2>1, <4>1, <4>2
    <3>2. QED
      BY <2>3, <3>1
  <2>8. StoreIsAlive'
    BY <1>2, <2>2, <2>3, <2>5, <2>6, <2>7, StorePartsNext
  <2>9. QED
    BY <1>2, <2>2, <2>5, <2>8, NoNewLease DEF Holds
<1>13. CASE ConnectSucceeds
  <2>1. PICK c \in Conns : /\ Fresh(c) /\ link' = [link EXCEPT ![c] = "up"]
                           /\ ProcessNextPendingRequest(Append(idle, c))
    BY <1>13 DEF ConnectSucceeds
  <2> DEFINE q == Append(idle, c)
  <2>2. /\ c \notin Elements(idle) /\ c \notin active /\ \A cl \in Clients : lease[cl] # c
    BY <2>1 DEF Fresh
  <2>3. q \in Seq(Conns) /\ Elements(q) = Elements(idle) \cup {c} /\ Distinct(q)
    BY <1>2, <2>2, AppendElements
  <2> HIDE DEF q
  <2>4. ProcessNextPendingRequest(q) /\ again' = again
    BY <1>13, <2>1 DEF q, ConnectSucceeds
  <2>5. link'[c] = "up" /\ \A d \in Conns : link[d] = "up" => link'[d] = "up"
    BY <2>1 DEF TypeOK
  <2>6. /\ \A d \in active : d \notin Elements(q) /\ link'[d] = "up"
        /\ \A d \in Elements(q) : link'[d] = "up"
        /\ \A cl \in Clients : Holds(cl) => lease[cl] \notin Elements(q)
    BY <1>2, <2>2, <2>3, <2>5
  <2>7. QED
    BY <1>2, <2>3, <2>4, <2>6, LeaseProcess
<1>14. ASSUME NEW cl \in Clients, PingSucceeds(cl)
       PROVE  LeaseInv'
  BY <1>14, LeaseQuiet DEF PingSucceeds, Holds, TypeOK
<1>15. ASSUME NEW cl \in Clients, PingFails(cl)
       PROVE  LeaseInv'
  <2>1. /\ call[cl] \in {"ping", "reping"} /\ link' = [link EXCEPT ![lease[cl]] = "closed"]
        /\ FindValidIdleConnection(cl, active \ {lease[cl]}, TRUE) /\ again' = again
    BY <1>15 DEF PingFails
  <2>2. link' \in [Conns -> {"up", "closed"}] /\ call[cl] # "wait"
    BY <2>1 DEF TypeOK
  <2>3. Found(cl, active \ {lease[cl]})
    BY <1>2, <2>1, <2>2, FindStore, Zenon
  <2>4. \A c \in (active \ {lease[cl]}) \cup Elements(idle) : link'[c] = link[c]
    BY <1>2, <2>1 DEF Holds, TypeOK
  <2>5. active \ {lease[cl]} \in SUBSET active
    OBVIOUS
  <2>6. QED
    BY <2>1, <2>3, <2>4, <2>5, LeaseFound, Zenon
<1>16. ASSUME NEW cl \in Clients, ResetSucceeds(cl) \/ RollbackFails(cl)
       PROVE  LeaseInv'
  <2>1. /\ call[cl] = "reset" /\ Finish(cl)
        /\ again' = [again EXCEPT ![lease[cl]] = IF @ = "behind" THEN "next" ELSE "no"]
        /\ ReleaseConnection(lease[cl]) \/ Discard(lease[cl], TRUE)
    BY <1>16 DEF ResetSucceeds, RollbackFails, MoveUp
  <2>2. lease[cl] \in Conns
    BY <1>2, <2>1 DEF Holds
  <2>3. again' = again
    BY <1>2, <2>1, <2>2 DEF TypeOK
  <2>4. QED
    BY <2>1, <2>3, LeaseGivenBack
<1>17. ASSUME NEW c \in Conns, ConnectionError(c)
       PROVE  LeaseInv'
  <2>1. /\ link' = [link EXCEPT ![c] = "closed"] /\ active' = active \ {c} /\ RemoveFromIdle(c)
        /\ UNCHANGED <<call, lease, again>>
    BY <1>17 DEF ConnectionError, leaseVars
  <2>2. Elements(idle') \subseteq Elements(idle) /\ Distinct(idle') /\ c \notin Elements(idle')
    <3>1. CASE c \notin Elements(idle) /\ idle' = idle
      BY <1>2, <3>1
    <3>2. ASSUME NEW i \in DOMAIN idle, idle[i] = c,
                 idle' = SubSeq(idle, 1, i - 1) \o SubSeq(idle, i + 1, Len(idle))
          PROVE  Elements(idle') \subseteq Elements(idle) /\ Distinct(idle') /\ c \notin Elements(idle')
      BY <1>2, <3>2, RemovedElements
    <3>3. QED
      BY <2>1, <3>1, <3>2 DEF RemoveFromIdle
  <2>3. \A d \in Conns \ {c} : link'[d] = link[d]
    BY <2>1 DEF TypeOK
  <2>4. StoreIsAlive'
    BY <1>2, <2>1, <2>2, <2>3, StorePartsNext
  <2>5. QED
    BY <1>2, <2>1, <2>2, <2>4, NoNewLease DEF Holds
<1>18. CASE EndResolves
  <2>1. /\ active' = {} /\ link' = [c \in Conns |-> IF c \in active THEN "closed" ELSE link[c]]
        /\ UNCHANGED <<idle, call, lease, again>>
    BY <1>18 DEF EndResolves, leaseVars
  <2>2. StoreIsAlive'
    BY <1>2, <2>1, StorePartsNext
  <2>3. QED
    BY <1>2, <2>1, <2>2, NoNewLease DEF Holds
<1>25. ASSUME NEW cl \in Clients, ResetFails(cl)
       PROVE  LeaseInv'
  <2>1. /\ call[cl] = "reset" /\ call' = [call EXCEPT ![cl] = "stuck"]
        /\ again' = [again EXCEPT ![lease[cl]] = IF @ = "behind" THEN "next" ELSE "no"]
        /\ UNCHANGED <<storeVars, lease>>
    BY <1>25 DEF ResetFails, MoveUp
  <2>2. lease[cl] \in Conns
    BY <1>2, <2>1 DEF Holds
  <2>3. again' = again
    BY <1>2, <2>1, <2>2 DEF TypeOK
  <2>4. \A other \in Clients : Holds(other)' => Holds(other)
    BY <2>1 DEF Holds, TypeOK
  <2>5. QED
    BY <2>1, <2>3, <2>4, LeaseQuiet
<1>19. ASSUME NEW c \in Conns
       PROVE  ~SecondResetSucceeds(c) /\ ~SecondRollbackFails(c) /\ ~SecondResetFails(c)
  BY <1>2 DEF SecondResetSucceeds, SecondRollbackFails, SecondResetFails
<1>20. ASSUME NEW cl \in Clients
       PROVE  ~ReleaseAgain(cl)
  BY DEF ReleaseAgain
<1>21. CASE SizeCheck \/ ErrorCheck \/ DeadlinePasses \/ RetryTimer \/ BackoffTimer
  BY <1>21, <1>1 DEF SizeCheck, ErrorCheck, DeadlinePasses, RetryTimer, BackoffTimer, leaseVars
<1>22. CASE ConnectSucceedsTooLate \/ ConnectFailsForGood \/ ConnectFailsOnce
  BY <1>22, <1>1 DEF ConnectSucceedsTooLate, ConnectFailsForGood, ConnectFailsOnce, leaseVars
<1>23. CASE UNCHANGED vars
  BY <1>23, <1>1 DEF vars, leaseVars
<1>24. QED
  BY <1>3, <1>4, <1>5, <1>6, <1>7, <1>8, <1>9, <1>10, <1>11, <1>12, <1>13, <1>14, <1>15, <1>16, <1>17, <1>18, <1>19, <1>20, <1>21, <1>22, <1>23, <1>25
     DEF Next, ClientNext, LoopNext, ServerNext

\* The lease invariant: what a client is lent is its own and works.
LEMMA PoolLeaseInv == ASSUME DoubleRelease = FALSE PROVE Spec => []LeaseInv
<1>1. Init => LeaseInv
  BY DEF Init, LeaseInv, StoreIsAlive, LeaseExclusive, Holds, Elements
<1>2. LeaseInv /\ TypeOK /\ TypeOK' /\ AllAccountedFor /\ [Next]_vars => LeaseInv'
  BY LeaseStep
<1>3. QED
  BY <1>1, <1>2, PoolTypeCorrect, PoolAllAccountedFor, PTL DEF Spec

\* A connection is idle once or active, not both, and works.
THEOREM PoolStoreIsAlive == ASSUME DoubleRelease = FALSE PROVE Spec => []StoreIsAlive
<1>1. LeaseInv => StoreIsAlive
  BY DEF LeaseInv
<1>2. QED
  BY <1>1, PoolLeaseInv, PTL

\* A connection is given to one client at a time.
THEOREM PoolLeaseExclusive == ASSUME DoubleRelease = FALSE PROVE Spec => []LeaseExclusive
<1>1. LeaseInv => LeaseExclusive
  BY DEF LeaseInv
<1>2. QED
  BY <1>1, PoolLeaseInv, PTL

-----------------------------------------------------------------------------
(***************************************************************************)
(* The refinement: every step of the pool is one step of the lease         *)
(* service, or none.  SameLease says that the service sees no difference   *)
(* between the call of a client before and after the step.                 *)
(***************************************************************************)
Has(cl) == call[cl] \in {"hold", "reset", "stuck"}

SameLease(cl) ==
  /\ (call[cl] = "none") <=> (call'[cl] = "none")
  /\ Asking(cl) <=> Asking(cl)'
  /\ Has(cl) <=> Has(cl)'
  /\ Has(cl) => lease'[cl] = lease[cl]

\* Every other client's call is the same for the lease service.
OthersSame(cl) == \A other \in Clients \ {cl} : SameLease(other)

\* No client sees a difference, and the pool is not closed.
LEMMA LeaseStutters ==
  ASSUME \A cl \in Clients : SameLease(cl), phase' = phase
  PROVE  UNCHANGED Lease!leaseVars
BY DEF SameLease, Has, Asking, Closed, Lease!leaseVars

\* A client's request is queued or waits for a ping.
LEMMA LeaseAsks ==
  ASSUME NEW cl \in Clients, OthersSame(cl), phase' = phase,
         ~Closed, call[cl] = "none", Asking(cl)'
  PROVE  Lease!Ask(cl)
BY DEF OthersSame, SameLease, Has, Asking, Closed, Lease!Ask

\* A client gets a connection nobody has.
LEMMA LeaseLends ==
  ASSUME NEW cl \in Clients, NEW c \in Conns, OthersSame(cl), phase' = phase,
         Asking(cl) \/ (~Closed /\ call[cl] = "none"),
         call'[cl] = "hold", lease'[cl] = c,
         \A other \in Clients : Has(other) => lease[other] # c
  PROVE  Lease!Lend(cl, c)
<1>1. c # NoConn
  BY PoolAssumption
<1>2. QED
  BY <1>1 DEF OthersSame, SameLease, Has, Asking, Closed, Lease!Lend

\* A request is answered with an error.
LEMMA LeaseRefuses ==
  ASSUME NEW cl \in Clients, OthersSame(cl), phase' = phase, Asking(cl), call'[cl] = "none"
  PROVE  Lease!Refuse(cl)
BY DEF OthersSame, SameLease, Has, Asking, Closed, Lease!Refuse

\* A client has given its connection back.
LEMMA LeaseReturns ==
  ASSUME NEW cl \in Clients, OthersSame(cl), phase' = phase, Has(cl), call'[cl] = "none"
  PROVE  Lease!GiveBack(cl)
BY DEF OthersSame, SameLease, Has, Asking, Closed, Lease!GiveBack

\* The pool is closed: queued requests will be refused.
LEMMA LeaseCloses ==
  ASSUME \A cl \in Clients : SameLease(cl), ~Closed, phase' = "ending"
  PROVE  Lease!Close
BY DEF SameLease, Has, Asking, Closed, Lease!Close

\* A request that is served from the queue, or none.
LEMMA ProcessLends ==
  ASSUME TypeOK, QueueMatchesCalls, NEW q \in Seq(Conns), ProcessNextPendingRequest(q),
         phase' = phase,
         \A cl \in Clients : Holds(cl) => lease[cl] \notin Elements(q)
  PROVE  [Lease!Next]_(Lease!leaseVars)
<1>1. CASE lease' = lease /\ \A cl \in Clients : Expires(cl)
  BY <1>1, LeaseStutters DEF SameLease, Expires, Asking, Has
<1>2. ASSUME q # <<>>, NEW cl \in Clients,
             call[cl] = "wait", call'[cl] = "hold", lease'[cl] = Head(q),
             \A other \in Clients \ {cl} : Expires(other) /\ lease'[other] = lease[other]
      PROVE  Lease!Lend(cl, Head(q))
  <2>1. Head(q) \in Conns /\ Head(q) \in Elements(q)
    BY <1>2, HeadAndTail
  <2>2. OthersSame(cl) /\ Asking(cl)
    BY <1>2 DEF OthersSame, SameLease, Expires, Asking, Has
  <2>3. \A other \in Clients : Has(other) => lease[other] # Head(q)
    BY <2>1 DEF Has, Holds
  <2>4. QED
    BY <1>2, <2>1, <2>2, <2>3, LeaseLends
<1>3. CASE \E cl \in Clients, c \in Conns : Lease!Lend(cl, c)
  BY <1>3 DEF Lease!Next
<1>4. q # <<>> => Head(q) \in Conns
  BY HeadAndTail
<1>5. QED
  BY <1>1, <1>2, <1>3, <1>4, ProcessStore

\* A search lends what it found, or the client goes on asking, or it is refused.
LEMMA FoundLends ==
  ASSUME TypeOK, LeaseInv, NEW cl \in Clients, NEW others, Found(cl, others), phase' = phase,
         Asking(cl) \/ (~Closed /\ call[cl] = "none")
  PROVE  [Lease!Next]_(Lease!leaseVars)
<1>1. OthersSame(cl)
  BY DEF Found, OthersSame, SameLease, Asking, Has
<1>2. CASE Asking(cl)' /\ Asking(cl)
  <2>1. \A other \in Clients : SameLease(other)
    BY <1>1, <1>2 DEF OthersSame, SameLease, Asking, Has
  <2>2. QED
    BY <2>1, LeaseStutters
<1>3. CASE Asking(cl)' /\ ~Closed /\ call[cl] = "none"
  <2>1. Lease!Ask(cl)
    BY <1>1, <1>3, LeaseAsks
  <2>2. QED
    BY <2>1 DEF Lease!Next
<1>4. CASE call'[cl] = "none"
  <2>1. Asking(cl)
    BY <1>4 DEF Found
  <2>2. Lease!Refuse(cl)
    BY <1>1, <1>4, <2>1, LeaseRefuses
  <2>3. QED
    BY <2>2 DEF Lease!Next
<1>5. ASSUME NEW c \in Elements(idle), call'[cl] = "hold", lease'[cl] = c
      PROVE  [Lease!Next]_(Lease!leaseVars)
  <2>1. c \in Conns
    BY DEF Elements, TypeOK
  <2>2. \A other \in Clients : Has(other) => lease[other] # c
    BY DEF LeaseInv, LeaseExclusive, Has, Holds
  <2>3. Lease!Lend(cl, c)
    BY <1>1, <1>5, <2>1, <2>2, LeaseLends
  <2>4. QED
    BY <2>1, <2>3 DEF Lease!Next
<1>6. /\ call'[cl] \in {"none", "wait", "ping", "reping", "hold"}
      /\ call'[cl] = "hold" => \E c \in Elements(idle) : lease'[cl] = c
  BY DEF Found
<1>7. CASE Asking(cl)'
  BY <1>2, <1>3, <1>7
<1>8. CASE call'[cl] = "hold"
  BY <1>5, <1>6, <1>8
<1>9. QED
  BY <1>4, <1>6, <1>7, <1>8 DEF Asking

\* The call of one client ends: it gives back what it has.
LEMMA FinishReturns ==
  ASSUME TypeOK, NEW cl \in Clients, Has(cl), Finish(cl), phase' = phase
  PROVE  [Lease!Next]_(Lease!leaseVars)
<1>1. /\ call'[cl] = "none"
      /\ \A other \in Clients \ {cl} : call'[other] = call[other] /\ lease'[other] = lease[other]
  BY FinishCalls
<1>2. OthersSame(cl)
  BY <1>1 DEF OthersSame, SameLease, Asking, Has
<1>3. Lease!GiveBack(cl)
  BY <1>1, <1>2, LeaseReturns
<1>4. QED
  BY <1>3 DEF Lease!Next

\* Every step of the pool is one of the lease, or none.
LEMMA RefinementStep ==
  ASSUME DoubleRelease = FALSE,
         TypeOK, TypeOK', AllAccountedFor, LeaseInv, [Next]_vars
  PROVE  [Lease!Next]_(Lease!leaseVars)
<1>1. CASE UNCHANGED <<call, lease, phase>>
  BY <1>1, LeaseStutters DEF SameLease, Asking, Has
<1>2. /\ QueueMatchesCalls /\ idle \in Seq(Conns)
      /\ \A cl \in Clients : Holds(cl) => lease[cl] \notin Elements(idle) /\ lease[cl] \in Conns
  BY DEF LeaseInv, LeaseExclusive, AllAccountedFor, TypeOK
<1>3. ASSUME NEW cl \in Clients, GetConnection(cl)
      PROVE  [Lease!Next]_(Lease!leaseVars)
  <2>1. /\ call[cl] = "none" /\ ~Closed /\ link' = link /\ phase' = phase
        /\ FindValidIdleConnection(cl, active, FALSE)
    BY <1>3 DEF GetConnection
  <2>2. link' \in [Conns -> {"up", "closed"}] /\ call[cl] # "wait"
    BY <2>1 DEF TypeOK
  <2>3. Found(cl, active)
    BY <1>2, <2>1, <2>2, FindStore, Zenon
  <2>4. QED
    BY <2>1, <2>3, FoundLends
<1>4. ASSUME NEW cl \in Clients,
             ReleaseInvalid(cl) \/ ReleaseDirectly(cl) \/ DestroyConnection(cl)
      PROVE  [Lease!Next]_(Lease!leaseVars)
  <2>1. Has(cl) /\ Finish(cl) /\ phase' = phase
    BY <1>4 DEF ReleaseInvalid, ReleaseDirectly, DestroyConnection, ReleaseConnection, Discard, Has
  <2>2. QED
    BY <2>1, FinishReturns
<1>5. ASSUME NEW cl \in Clients, ReleaseWithReset(cl)
      PROVE  [Lease!Next]_(Lease!leaseVars)
  <2>1. \A other \in Clients : SameLease(other)
    BY <1>5 DEF ReleaseWithReset, SameLease, Asking, Has, TypeOK
  <2>2. QED
    BY <1>5, <2>1, LeaseStutters DEF ReleaseWithReset
<1>6. CASE End
  <2>1. /\ ~Closed /\ phase' = "ending" /\ lease' = lease
        /\ call' = [cl \in Clients |-> IF cl \in Elements(requests) THEN "fail" ELSE call[cl]]
    BY <1>6 DEF End, Closed
  <2>2. \A cl \in Clients : SameLease(cl)
    BY <1>2, <2>1 DEF QueueMatchesCalls, SameLease, Asking, Has
  <2>3. Lease!Close
    BY <2>1, <2>2, LeaseCloses
  <2>4. QED
    BY <2>3 DEF Lease!Next
<1>7. CASE IdleTick
  <2>1. CASE Closed
    BY <1>7, <2>1, <1>1 DEF IdleTick
  <2>2. CASE ~Closed
    <3>1. ProcessNextPendingRequest(idle) /\ phase' = phase
      BY <1>7, <2>2 DEF IdleTick
    <3>2. QED
      BY <1>2, <3>1, ProcessLends
  <2>3. QED
    BY <2>1, <2>2
<1>8. ASSUME NEW cl \in Clients, RejectTick(cl)
      PROVE  [Lease!Next]_(Lease!leaseVars)
  <2>1. call[cl] = "fail" /\ Finish(cl) /\ phase' = phase
    BY <1>8 DEF RejectTick
  <2>2. /\ call'[cl] = "none"
        /\ \A other \in Clients \ {cl} : call'[other] = call[other] /\ lease'[other] = lease[other]
    BY <2>1, FinishCalls
  <2>3. OthersSame(cl) /\ Asking(cl)
    BY <2>1, <2>2 DEF OthersSame, SameLease, Asking, Has
  <2>4. Lease!Refuse(cl)
    BY <2>1, <2>2, <2>3, LeaseRefuses
  <2>5. QED
    BY <2>4 DEF Lease!Next
<1>9. CASE RequestTimeout
  <2>1. CheckRequestTimeouts(requests, call) /\ lease' = lease /\ phase' = phase
    BY <1>9 DEF RequestTimeout
  <2>2. /\ requests \in Seq(Clients) /\ Distinct(requests) /\ call \in [Clients -> CallStates]
        /\ \A cl \in Clients : call[cl] = "wait" <=> cl \in Elements(requests)
    BY <1>2 DEF QueueMatchesCalls, Distinct, TypeOK
  <2>3. \A cl \in Clients : Expires(cl)
    BY <2>1, <2>2, CheckQueue DEF Expires
  <2>4. \A cl \in Clients : SameLease(cl)
    BY <2>1, <2>3 DEF Expires, SameLease, Asking, Has
  <2>5. QED
    BY <2>1, <2>4, LeaseStutters
<1>10. CASE ConnectSucceeds
  <2>1. PICK c \in Conns : Fresh(c) /\ ProcessNextPendingRequest(Append(idle, c))
    BY <1>10 DEF ConnectSucceeds
  <2> DEFINE q == Append(idle, c)
  <2>2. q \in Seq(Conns) /\ Elements(q) = Elements(idle) \cup {c}
    BY <1>2, AppendElements
  <2> HIDE DEF q
  <2>3. ProcessNextPendingRequest(q) /\ phase' = phase
    BY <1>10, <2>1 DEF q, ConnectSucceeds
  <2>4. \A cl \in Clients : Holds(cl) => lease[cl] \notin Elements(q)
    BY <1>2, <2>1, <2>2 DEF Fresh
  <2>5. QED
    BY <1>2, <2>2, <2>3, <2>4, ProcessLends
<1>11. ASSUME NEW cl \in Clients, PingSucceeds(cl)
       PROVE  [Lease!Next]_(Lease!leaseVars)
  <2>1. /\ call[cl] \in {"ping", "reping"} /\ call' = [call EXCEPT ![cl] = "hold"]
        /\ lease' = lease /\ phase' = phase
    BY <1>11 DEF PingSucceeds
  <2>2. call'[cl] = "hold" /\ \A other \in Clients \ {cl} : call'[other] = call[other]
    BY <2>1 DEF TypeOK
  <2>3. OthersSame(cl) /\ Asking(cl)
    BY <2>1, <2>2 DEF OthersSame, SameLease, Asking, Has
  <2>4. lease[cl] \in Conns /\ \A other \in Clients : Has(other) => lease[other] # lease[cl]
    BY <1>2, <2>1, <2>3 DEF LeaseInv, LeaseExclusive, Has, Holds, Asking
  <2>5. PICK c \in Conns : lease'[cl] = c /\ \A other \in Clients : Has(other) => lease[other] # c
    BY <2>1, <2>4
  <2>6. Lease!Lend(cl, c)
    BY <2>1, <2>2, <2>3, <2>5, LeaseLends
  <2>7. QED
    BY <2>6 DEF Lease!Next
<1>12. ASSUME NEW cl \in Clients, PingFails(cl)
       PROVE  [Lease!Next]_(Lease!leaseVars)
  <2>1. /\ call[cl] \in {"ping", "reping"} /\ link' = [link EXCEPT ![lease[cl]] = "closed"]
        /\ FindValidIdleConnection(cl, active \ {lease[cl]}, TRUE) /\ phase' = phase
    BY <1>12 DEF PingFails
  <2>2. link' \in [Conns -> {"up", "closed"}] /\ call[cl] # "wait"
    BY <2>1 DEF TypeOK
  <2>3. Found(cl, active \ {lease[cl]})
    BY <1>2, <2>1, <2>2, FindStore, Zenon
  <2>4. Asking(cl)
    BY <2>1 DEF Asking
  <2>5. QED
    BY <2>1, <2>3, <2>4, FoundLends
<1>13. ASSUME NEW cl \in Clients, ResetSucceeds(cl) \/ RollbackFails(cl)
       PROVE  [Lease!Next]_(Lease!leaseVars)
  <2>1. Has(cl) /\ Finish(cl) /\ phase' = phase
    BY <1>13 DEF ResetSucceeds, RollbackFails, ReleaseConnection, Discard, Has
  <2>2. QED
    BY <2>1, FinishReturns
<1>21. ASSUME NEW cl \in Clients, ResetFails(cl)
       PROVE  [Lease!Next]_(Lease!leaseVars)
  <2>1. \A other \in Clients : SameLease(other)
    BY <1>21 DEF ResetFails, SameLease, Asking, Has, TypeOK
  <2>2. QED
    BY <1>21, <2>1, LeaseStutters DEF ResetFails
<1>14. ASSUME NEW c \in Conns,
              SecondResetSucceeds(c) \/ SecondRollbackFails(c) \/ SecondResetFails(c)
       PROVE  [Lease!Next]_(Lease!leaseVars)
  BY <1>14 DEF SecondResetSucceeds, SecondRollbackFails, SecondResetFails, LeaseInv
<1>15. ASSUME NEW cl \in Clients, ReleaseAgain(cl)
       PROVE  [Lease!Next]_(Lease!leaseVars)
  BY <1>15 DEF ReleaseAgain
<1>16. CASE EndResolves
  <2>1. ~Closed' <=> ~Closed
    BY <1>16 DEF EndResolves, Closed
  <2>2. UNCHANGED <<call, lease>>
    BY <1>16 DEF EndResolves, leaseVars
  <2>3. QED
    BY <2>1, <2>2 DEF Lease!leaseVars, Asking
<1>17. ASSUME NEW c \in Conns, ConnectionError(c)
       PROVE  [Lease!Next]_(Lease!leaseVars)
  BY <1>1, <1>17 DEF ConnectionError, leaseVars
<1>18. CASE \/ SizeCheck \/ ErrorCheck \/ DeadlinePasses \/ RetryTimer \/ BackoffTimer
            \/ RemoveIdleConnections \/ ConnectSucceedsTooLate
            \/ ConnectFailsForGood \/ ConnectFailsOnce
  BY <1>1, <1>18
     DEF SizeCheck, ErrorCheck, DeadlinePasses, RetryTimer, BackoffTimer, RemoveIdleConnections,
         ConnectSucceedsTooLate, ConnectFailsForGood, ConnectFailsOnce, leaseVars
<1>19. CASE UNCHANGED vars
  BY <1>1, <1>19 DEF vars, leaseVars
<1>20. QED
  BY <1>3, <1>4, <1>5, <1>6, <1>7, <1>8, <1>9, <1>10, <1>11, <1>12, <1>13, <1>14, <1>15, <1>16, <1>17, <1>18, <1>19, <1>21
     DEF Next, ClientNext, LoopNext, ServerNext

\* The pool implements the lease service: each request is answered once, with a
\* connection that is the client's own until the reset of its release is over,
\* or with an error, and after end() nobody asks any more.
THEOREM PoolImplementsLease == ASSUME DoubleRelease = FALSE PROVE Spec => ImplementsLease
<1>1. Init => Lease!Init
  BY DEF Init, Lease!Init, Asking, Closed
<1>2. TypeOK /\ TypeOK' /\ AllAccountedFor /\ LeaseInv /\ [Next]_vars
        => [Lease!Next]_(Lease!leaseVars)
  BY RefinementStep
<1>3. QED
  BY <1>1, <1>2, PoolTypeCorrect, PoolAllAccountedFor, PoolLeaseInv, PTL
     DEF Spec, ImplementsLease, Lease!Spec

\* The lease service is implemented with connections that work and are in one
\* place only: what a step lends is the client's alone and open.
THEOREM PoolLeaseKept == ASSUME DoubleRelease = FALSE PROVE Spec => LeaseKept
<1>1. LeaseInv' => LeaseExclusive' /\ StoreIsAlive'
  BY DEF LeaseInv
<1>2. Spec => [][LeaseExclusive' /\ StoreIsAlive']_vars
  BY <1>1, PoolLeaseInv, PTL
<1>3. QED
  BY <1>2, PoolImplementsLease DEF LeaseKept

====

------------------------------ MODULE PoolLease ------------------------------
(***************************************************************************)
(* What a connection pool promises its clients, without saying how: a      *)
(* client that asks is answered once, with a connection nobody else has or *)
(* with an error; what it got stays its own until it gives it back; once   *)
(* the pool is closed nobody can ask.                                      *)
(***************************************************************************)
CONSTANTS Clients, Conns, NoConn

VARIABLES
  status, \* "out", "asking" or "holding"
  owned,  \* the connection a holding client has
  open    \* the pool has not been closed

leaseVars == <<status, owned, open>>

Init ==
  /\ status = [cl \in Clients |-> "out"]
  /\ owned = [cl \in Clients |-> NoConn]
  /\ open = TRUE

Ask(cl) ==
  /\ open
  /\ status[cl] = "out"
  /\ status' = [status EXCEPT ![cl] = "asking"]
  /\ UNCHANGED <<owned, open>>

\* The answer may come within the call itself.
Lend(cl, c) ==
  /\ status[cl] = "asking" \/ (open /\ status[cl] = "out")
  /\ \A other \in Clients : owned[other] # c
  /\ status' = [status EXCEPT ![cl] = "holding"]
  /\ owned' = [owned EXCEPT ![cl] = c]
  /\ UNCHANGED open

Refuse(cl) ==
  /\ status[cl] = "asking"
  /\ status' = [status EXCEPT ![cl] = "out"]
  /\ UNCHANGED <<owned, open>>

GiveBack(cl) ==
  /\ status[cl] = "holding"
  /\ status' = [status EXCEPT ![cl] = "out"]
  /\ owned' = [owned EXCEPT ![cl] = NoConn]
  /\ UNCHANGED open

Close ==
  /\ open
  /\ open' = FALSE
  /\ UNCHANGED <<status, owned>>

Next ==
  \/ \E cl \in Clients :
       \/ Ask(cl) \/ Refuse(cl) \/ GiveBack(cl)
       \/ \E c \in Conns : Lend(cl, c)
  \/ Close

Spec == Init /\ [][Next]_leaseVars

=============================================================================

------------------------------ MODULE Cluster ------------------------------
(***************************************************************************)
(* A cluster of pools, lib/cluster.js: which node a connection is asked    *)
(* of, and what its refusal does to the node and to the request.           *)
(*                                                                         *)
(* The pools a cluster is given are numbered as add() creates them, since  *)
(* a key removed and added again is another pool.  A pool, seen from here, *)
(* answers each request with a connection or an error, also once ended.    *)
(***************************************************************************)
EXTENDS Integers, Sequences, FiniteSets, SequenceFilter

CONSTANTS
  Keys,         (* identifiers of nodes                                     *)
  Patterns,     (* patterns of the client                                   *)
  Matches,      (* the keys a pattern matches                               *)
  FirstNodes,   (* the keys added before anything else, in order            *)
  Requests,     (* calls of getConnection()                                 *)
  Selectors,    (* "RR", "ORDER", "RANDOM", and anything else for a mistake *)
  Apis,         (* "promise", "callback"                                    *)
  CanRetry,     (* option canRetry                                          *)
  RemoveAfter,  (* option removeNodeErrorCount; 0 for never                 *)
  MaxPools,     (* bound on add()                                           *)
  MaxRestores,  (* bound on blacklists that run out                         *)
  Careless      (* what the client does: "late", add a node that matches a  *)
                (* pattern it has used; "again", add a key whose old pool   *)
                (* is being asked; "none", ask by callback where no node    *)
                (* matches; "end", end() by callback with requests pending  *)

ASSUME ClusterAssumption ==
  /\ Matches \in [Patterns -> SUBSET Keys]
  /\ 0 \notin Keys \* None stands for no key, too
  /\ FirstNodes \in Seq(Keys) /\ Len(FirstNodes) <= MaxPools
  /\ \A m, n \in DOMAIN FirstNodes : FirstNodes[m] = FirstNodes[n] => m = n
  /\ Apis \subseteq {"promise", "callback"}
  /\ CanRetry \in BOOLEAN
  /\ RemoveAfter \in Nat /\ MaxPools \in Nat /\ MaxRestores \in Nat
  /\ Careless \subseteq {"late", "again", "none", "end"}

Pools == 1..MaxPools
None == 0

VARIABLES
  api,         \* which API the program uses
  nodes,       \* #nodes, in the order of Object.keys
  key,         \* the key of the pools there were
  errors,      \* errorCount
  blacklisted, \* pools whose blacklistedUntil lies ahead
  restores,    \* how many have run out
  cached,      \* #cachedPatterns: per pattern its keys and, of the next RR turn, the index
  ended,       \* #nodes is null
  \* Of each request:
  phase,       \* "idle", "asking", "connected", "refused", or "lost": never told
  about,       \* its pattern and selector
  asked,       \* the pool it is asking
  left,        \* remainingRetry
  answers,     \* how often its promise or callback was called
  undisturbed  \* asked while no blacklist ended and no node came (history)

members == <<nodes, key, ended>>
health == <<errors, blacklisted, restores>>
request == <<phase, about, asked, left, answers, undisturbed>>
vars == <<api, members, health, cached, request>>

Init ==
  /\ api \in Apis
  /\ key = FirstNodes /\ nodes = [j \in DOMAIN key |-> j] /\ ended = FALSE
  /\ errors = [i \in Pools |-> 0] /\ blacklisted = {} /\ restores = 0
  /\ cached = <<>>
  /\ phase = [r \in Requests |-> "idle"]
  /\ about = [r \in Requests |-> <<>>]
  /\ asked = [r \in Requests |-> None]
  /\ left = [r \in Requests |-> 0]
  /\ answers = [r \in Requests |-> 0]
  /\ undisturbed = {}

Asking == {r \in Requests : phase[r] = "asking"}
Members(ns) == {ns[j] : j \in DOMAIN ns}
NodeOf(k, ns) == IF \E i \in Members(ns) : key[i] = k
                 THEN CHOOSE i \in Members(ns) : key[i] = k ELSE None

-----------------------------------------------------------------------------
(***************************************************************************)
(* Selection.  roundRobinSelector and orderedSelector give the position of *)
(* the n-th node that _selectPool looks at, from 0; the two loops stop at  *)
(* the first that will do, or after as many as there are nodes.            *)
(***************************************************************************)
KeysMatching(pattern, ns) ==
  LET s == Filter(ns, {i \in Members(ns) : key[i] \in Matches[pattern]})
  IN [j \in DOMAIN s |-> key[s[j]]]

\* _matchingNodes(pattern), the cached patterns being patterns.
MatchingNodes(pattern, patterns, ns) ==
  IF pattern \in DOMAIN patterns THEN patterns[pattern] ELSE [keys |-> KeysMatching(pattern, ns), next |-> 0]

\* Where a loop stops that ends at b, or before, at the first of the positions in good.
FirstOf(good, b) == IF good = {} THEN b ELSE CHOOSE n \in good : \A m \in good : n <= m

Looked(list, selector, n) ==
  list.keys[(IF selector = "RR" THEN (list.next + n) % Len(list.keys) ELSE n) + 1]

\* The choice of the n-th node, with the turn that is next.
Choice(list, selector, n) ==
  [key |-> Looked(list, selector, n),
   next |-> IF selector = "RR" THEN (list.next + n + 1) % Len(list.keys) ELSE list.next]

\* Variant: no blacklist is looked at.
SelectPoolBlind(list, selector, avoid, bad) ==
  {Choice(list, selector, FirstOf({n \in 0..Len(list.keys) - 1 : Looked(list, selector, n) # avoid}, Len(list.keys) - 1))}

\* _selectPool: the choices it has.  Picks made at random may end anywhere.
SelectPool(list, selector, avoid, bad) ==
  LET last == Len(list.keys) - 1
      one == FirstOf({n \in 0..last : Looked(list, selector, n) \notin bad \cup {avoid}}, last)
      base == IF selector = "RR" THEN one ELSE 0
      two == base + FirstOf({n \in 1..last : Looked(list, selector, base + n) # avoid}, last)
  IN IF selector = "RANDOM" THEN {Choice(list, selector, n) : n \in 0..last}
     ELSE {Choice(list, selector, IF Looked(list, selector, one) = avoid /\ last > 0 THEN two ELSE one)}

-----------------------------------------------------------------------------
(***************************************************************************)
(* getConnection().  An attempt of r finds the nodes as the step leaves    *)
(* them; patterns are the cached ones then.  avoid is the key that has     *)
(* just refused, None at first.                                            *)
(***************************************************************************)
Over(r, how) ==
  /\ phase' = [phase EXCEPT ![r] = how]
  /\ about' = [about EXCEPT ![r] = <<>>]
  /\ asked' = [asked EXCEPT ![r] = None]
  /\ left' = [left EXCEPT ![r] = 0]

Refuse(r, n) ==
  /\ Over(r, "refused")
  /\ answers' = [answers EXCEPT ![r] = n]
  /\ undisturbed' = undisturbed \ {r}

\* By callback, a request without any node it could ask is answered twice, if the cluster has others.
NoNode(r, avoid) ==
  Refuse(r, IF api = "callback" /\ avoid = None /\ nodes' # <<>> THEN 2 ELSE 1)

Remember(pattern, entry, patterns) ==
  cached' = [p \in DOMAIN patterns \cup {pattern} |-> IF p = pattern THEN entry ELSE patterns[p]]

Ask(r, pattern, selector, retries, avoid, patterns) ==
  LET list == MatchingNodes(pattern, patterns, nodes') IN
  /\ \E s \in SelectPool(list, selector, avoid, {key[i] : i \in blacklisted' \cap Members(nodes')}) :
       /\ Remember(pattern, [list EXCEPT !.next = s.next], patterns)
       /\ asked' = [asked EXCEPT ![r] = NodeOf(s.key, nodes')]
  /\ phase' = [phase EXCEPT ![r] = "asking"]
  /\ about' = [about EXCEPT ![r] = <<pattern, selector>>]
  /\ left' = [left EXCEPT ![r] = (IF avoid = None THEN Len(list.keys) ELSE retries) - 1]
  /\ undisturbed' = undisturbed \cup (IF avoid = None THEN {r} ELSE {})
  /\ UNCHANGED answers

Attempt(r, pattern, selector, retries, avoid, patterns) ==
  LET list == MatchingNodes(pattern, patterns, nodes') IN
  IF list.keys # <<>> /\ selector \in {"RR", "ORDER", "RANDOM"}
  THEN Ask(r, pattern, selector, retries, avoid, patterns)
  ELSE /\ Remember(pattern, list, patterns)
       /\ IF list.keys = <<>> THEN NoNode(r, avoid) ELSE Refuse(r, 1)

GetConnection(r, pattern, selector) ==
  /\ phase[r] = "idle" /\ ~ended
  /\ \/ api = "promise" \/ "none" \in Careless
     \/ nodes = <<>> \/ MatchingNodes(pattern, cached, nodes).keys # <<>>
  /\ UNCHANGED <<api, members, health>>
  /\ Attempt(r, pattern, selector, 0, None, cached)

\* The pool has a connection: whatever has become of the node, it is healthy.
NodeConnects(r) ==
  /\ r \in Asking
  /\ errors' = [errors EXCEPT ![asked[r]] = 0]
  /\ blacklisted' = blacklisted \ {asked[r]}
  /\ Over(r, "connected")
  /\ answers' = [answers EXCEPT ![r] = 1]
  /\ undisturbed' = (IF asked[r] \in blacklisted THEN {} ELSE undisturbed \ {r})
  /\ UNCHANGED <<api, members, restores, cached>>

-----------------------------------------------------------------------------
(***************************************************************************)
(* The pool of key k has no connection: the node that has the key now.     *)
(***************************************************************************)
MayStay(i, count) == RemoveAfter = 0 \/ count < RemoveAfter

NodeFailure(k) ==
  LET i == NodeOf(k, nodes) IN
  IF i = None THEN UNCHANGED <<nodes, errors, blacklisted>>
  ELSE /\ errors' = [errors EXCEPT ![i] = @ + 1]
       /\ blacklisted' = blacklisted \cup {i}
       /\ nodes' = IF MayStay(i, errors[i] + 1) THEN nodes ELSE Filter(nodes, Members(nodes) \ {i})

\* Variant: nothing is forgotten.
KeptAll == cached

\* Removing a node forgets what was cached.
Kept == IF nodes' = nodes THEN cached ELSE <<>>

\* Once the cluster is ended #nodes is null: the TypeError rejects the promise, and by callback
\* nobody is told.
FailsAfterEnd(r) ==
  /\ UNCHANGED <<nodes, errors, blacklisted, cached>>
  /\ IF api = "promise" THEN Refuse(r, 1)
     ELSE Over(r, "lost") /\ undisturbed' = undisturbed \ {r} /\ UNCHANGED answers

\* There is no retry function.
GivesUp(r) == ~CanRetry \/ left[r] < 0

\* Variant: the refusal of a node that has been removed is ignored.
NodeFailsIfMember(r) ==
  /\ r \in Asking
  /\ IF ended THEN FailsAfterEnd(r)
     ELSE IF NodeOf(key[asked[r]], nodes) = None
     THEN Over(r, "lost") /\ undisturbed' = undisturbed \ {r} /\ UNCHANGED <<nodes, errors, blacklisted, cached, answers>>
     ELSE /\ NodeFailure(key[asked[r]])
          /\ IF GivesUp(r)
             THEN cached' = Kept /\ Refuse(r, 1)
             ELSE Attempt(r, about[r][1], about[r][2], left[r], key[asked[r]], Kept)
  /\ UNCHANGED <<api, key, ended, restores>>

NodeFails(r) ==
  /\ r \in Asking
  /\ IF ended THEN FailsAfterEnd(r)
     ELSE /\ NodeFailure(key[asked[r]])
          /\ IF GivesUp(r)
             THEN cached' = Kept /\ Refuse(r, 1)
             ELSE Attempt(r, about[r][1], about[r][2], left[r], key[asked[r]], Kept)
  /\ UNCHANGED <<api, key, ended, restores>>

-----------------------------------------------------------------------------
(***************************************************************************)
(* The program: add, remove, end.  Time: blacklists run out.               *)
(***************************************************************************)
Add(k) ==
  /\ ~ended /\ Len(key) < MaxPools
  /\ NodeOf(k, nodes) = None
  /\ "late" \in Careless \/ \A p \in DOMAIN cached : k \notin Matches[p]
  /\ "again" \in Careless \/ \A r \in Asking : key[asked[r]] # k
  /\ key' = Append(key, k)
  /\ nodes' = Append(nodes, Len(key) + 1)
  /\ undisturbed' = {}
  /\ UNCHANGED <<api, ended, health, cached, phase, about, asked, left, answers>>

RemovePattern(pattern) ==
  /\ ~ended
  /\ nodes' = Filter(nodes, {i \in Members(nodes) : key[i] \notin Matches[pattern]})
  /\ cached' = Kept
  /\ UNCHANGED <<api, key, ended, health, request>>

End ==
  /\ ~ended
  /\ api = "promise" \/ "end" \in Careless \/ Asking = {}
  /\ ended' = TRUE /\ nodes' = <<>> /\ cached' = <<>>
  /\ UNCHANGED <<api, key, health, request>>

Restore(i) ==
  /\ i \in blacklisted /\ restores < MaxRestores
  /\ blacklisted' = blacklisted \ {i}
  /\ restores' = restores + 1
  /\ undisturbed' = {}
  /\ UNCHANGED <<api, members, errors, cached, phase, about, asked, left, answers>>

Next ==
  \/ \E r \in Requests :
       \/ \E p \in Patterns, s \in Selectors : GetConnection(r, p, s)
       \/ NodeConnects(r) \/ NodeFails(r)
  \/ \E k \in Keys : Add(k)
  \/ \E p \in Patterns : RemovePattern(p)
  \/ \E i \in Pools : Restore(i)
  \/ End

\* A pool settles each request, at the latest when acquireTimeout has passed.
Spec == Init /\ [][Next]_vars /\ \A r \in Requests : WF_vars(NodeConnects(r) \/ NodeFails(r))

-----------------------------------------------------------------------------
TypeOK ==
  /\ api \in Apis /\ ended \in BOOLEAN
  /\ key \in Seq(Keys) /\ Len(key) <= MaxPools
  /\ nodes \in Seq(1..Len(key)) /\ blacklisted \subseteq 1..Len(key)
  /\ errors \in [Pools -> Nat] /\ restores \in 0..MaxRestores
  /\ DOMAIN cached \subseteq Patterns
  /\ \A p \in DOMAIN cached : cached[p].keys \in Seq(Keys) /\ cached[p].next \in Nat
  /\ phase \in [Requests -> {"idle", "asking", "connected", "refused", "lost"}]
  /\ \A r \in Requests : asked[r] \in IF phase[r] = "asking" THEN Pools ELSE {None}
  /\ left \in [Requests -> -1..Cardinality(Keys)]
  /\ answers \in [Requests -> 0..2] /\ undisturbed \subseteq Asking

\* What is cached for a pattern are the keys of the nodes that match it now, in the order they were
\* added, whatever failed or was removed meanwhile: a request never asks a node that is gone.
CacheCoherent == \A p \in DOMAIN cached : cached[p].keys = KeysMatching(p, nodes)

\* A promise or callback is called once, and not before the request is over.
OneAnswer == \A r \in Requests : answers[r] = IF phase[r] \in {"connected", "refused"} THEN 1 ELSE 0

\* The step makes an attempt of r, a first one or another one.
Attempts(r) == phase'[r] = "asking" /\ (phase[r] = "idle" \/ left'[r] # left[r])
JustRefused(r) == IF phase[r] = "asking" THEN {asked[r]} ELSE {}
Candidates(pattern) == {i \in Members(nodes') : key[i] \in Matches[pattern]}

\* In turn or in order, a blacklisted node, or the one that has just refused, is asked only when
\* each node that matches is one of those.
AsksHealthyFirst ==
  [][\A r \in Requests : Attempts(r) /\ about'[r][2] # "RANDOM" =>
       LET healthy == Candidates(about'[r][1]) \ (blacklisted' \cup JustRefused(r))
       IN healthy = {} \/ asked'[r] \in healthy]_vars

\* In turn or in order, a request is refused only when every node that matches is blacklisted,
\* however requests and removals overlap, unless a blacklist ended or a node came meanwhile.
RefusedOnlyByAll ==
  [][\A r \in undisturbed :
       phase'[r] = "refused" /\ CanRetry /\ ~ended /\ about[r][2] # "RANDOM" =>
         Candidates(about[r][1]) \subseteq blacklisted']_vars

\* Every request comes to an end, and to one: retries are bounded, end() and remove() forget none.
EveryRequestAnswered ==
  /\ \A r \in Requests : phase[r] = "asking" ~> phase[r] \in {"connected", "refused"}
  /\ []OneAnswer

\* In turn, a retry asks another node than the one that has just refused, if another one matches.
\* In order it need not: of two nodes whose first is blacklisted the second is asked again.
RetriesElsewhere ==
  [][\A r \in Asking :
       Attempts(r) /\ about[r][2] = "RR" /\ Candidates(about[r][1]) # JustRefused(r) =>
         asked'[r] \notin JustRefused(r)]_vars

\* The node a request is sent to, at first and at each retry, and when there is none left.
RightNodeAsked == AsksHealthyFirst /\ RetriesElsewhere /\ RefusedOnlyByAll
=============================================================================

---------------------------- MODULE ClusterProofs ----------------------------
(***************************************************************************)
(* Proofs about the cluster, for every set of keys, patterns and requests, *)
(* every option and any number of nodes.                                   *)
(***************************************************************************)
EXTENDS Cluster, SequenceLemmas, FiniteSetTheorems

-----------------------------------------------------------------------------
(***************************************************************************)
(* The turn of a round robin, and the choice of a key.                     *)
(***************************************************************************)

\* The position of a turn is one of the list.
LEMMA TurnInList == \A a \in Nat, L \in Nat \ {0} : a % L \in 0..L - 1
OBVIOUS

\* As many turns as there are places lead to each of them, wherever they begin.
LEMMA TurnsReachAll ==
  \A a \in Nat, L \in Nat \ {0} : \A j \in 0..L - 1 : \E n \in 0..L - 1 : (a + n) % L = j
<1> SUFFICES ASSUME NEW a \in Nat, NEW L \in Nat \ {0}, NEW j \in 0..L - 1
             PROVE  \E n \in 0..L - 1 : (a + n) % L = j
  OBVIOUS
<1> DEFINE r == a % L
           q == a \div L
<1>1. r \in 0..L - 1 /\ q \in Int /\ a = q * L + r
  OBVIOUS
<1> HIDE DEF r, q
<1>2. ASSUME NEW x \in Int, NEW i \in 0..L - 1 PROVE (x * L + i) % L = i
  OBVIOUS
<1>3. CASE r <= j
  <2>1. a + (j - r) = q * L + j /\ j - r \in 0..L - 1
    BY <1>1, <1>3
  <2> QED
    BY <1>1, <1>2, <2>1
<1>4. CASE r > j
  <2>1. a + (j - r + L) = (q + 1) * L + j /\ j - r + L \in 0..L - 1 /\ q + 1 \in Int
    BY <1>1, <1>4
  <2> QED
    BY <1>2, <2>1
<1> QED
  BY <1>1, <1>3, <1>4

\* A loop stops at one of the positions that will do, or goes on to its end.
LEMMA FirstOfIn ==
  ASSUME NEW good, good \subseteq Nat, NEW b
  PROVE  (good = {} => FirstOf(good, b) = b) /\ (good # {} => FirstOf(good, b) \in good)
BY NatMin DEF FirstOf

Lists == [keys : Seq(Keys), next : Nat]
Orders == {"RR", "ORDER", "RANDOM"}

\* Every node that is looked at is one of the list, and a turn or two through the list sees each.
LEMMA LookedIn ==
  ASSUME NEW list \in Lists, list.keys # <<>>, NEW selector \in {"RR", "ORDER"}
  PROVE  /\ Len(list.keys) \in Nat \ {0}
         /\ \A n \in Nat : n <= Len(list.keys) - 1 \/ selector = "RR" =>
              \E j \in 1..Len(list.keys) : Looked(list, selector, n) = list.keys[j]
         /\ \A j \in 1..Len(list.keys) : \E n \in 0..Len(list.keys) - 1 : Looked(list, selector, n) = list.keys[j]
         /\ \A m \in Nat, j \in 1..Len(list.keys) :
              \E n \in 0..Len(list.keys) - 1 : Looked(list, "RR", m + n) = list.keys[j]
<1> DEFINE L == Len(list.keys)
<1>1. list.keys \in Seq(Keys) /\ list.next \in Nat
  BY DEF Lists
<1>2. L \in Nat \ {0}
  BY <1>1
<1> HIDE DEF L
<1>3. ASSUME NEW n \in Nat, n <= L - 1 \/ selector = "RR"
      PROVE  \E j \in 1..L : Looked(list, selector, n) = list.keys[j]
  <2>0. list.next + n \in Nat
    BY <1>1
  <2>1. (list.next + n) % L \in 0..L - 1
    BY <1>2, <2>0, TurnInList, Zenon
  <2>2. CASE selector = "RR"
    <3>1. Looked(list, selector, n) = list.keys[((list.next + n) % L) + 1]
      BY <2>2 DEF Looked, L
    <3>2. ((list.next + n) % L) + 1 \in 1..L
      BY <1>2, <2>1
    <3> QED
      BY <3>1, <3>2, Zenon
  <2>3. CASE selector # "RR"
    BY <1>2, <1>3, <2>3 DEF Looked, L
  <2> QED
    BY <2>2, <2>3
<1>4. ASSUME NEW m \in Nat, NEW j \in 1..L
      PROVE  \E n \in 0..L - 1 : Looked(list, "RR", m + n) = list.keys[j]
  <2>1. PICK n \in 0..L - 1 : ((list.next + m) + n) % L = j - 1
    <3>1. list.next + m \in Nat /\ j - 1 \in 0..L - 1
      BY <1>1, <1>2
    <3> QED
      BY <1>2, <3>1, TurnsReachAll, Zenon
  <2>2. list.next + (m + n) = (list.next + m) + n
    BY <1>1
  <2>3. Looked(list, "RR", m + n) = list.keys[j]
    BY <1>2, <2>1, <2>2 DEF Looked, L
  <2> QED
    BY <2>3
<1>5. ASSUME NEW j \in 1..L
      PROVE  \E n \in 0..L - 1 : Looked(list, selector, n) = list.keys[j]
  <2>1. CASE selector = "RR"
    <3>1. PICK n \in 0..L - 1 : Looked(list, "RR", 0 + n) = list.keys[j]
      BY <1>4
    <3> QED
      BY <1>2, <2>1, <3>1
  <2>2. CASE selector = "ORDER"
    <3>1. j - 1 \in 0..L - 1 /\ (j - 1) + 1 = j
      BY <1>2
    <3>2. Looked(list, selector, j - 1) = list.keys[j]
      BY <2>2, <3>1 DEF Looked
    <3> QED
      BY <3>1, <3>2
  <2> QED
    BY <2>1, <2>2
<1> QED
  BY <1>2, <1>3, <1>4, <1>5 DEF L

\* _selectPool: a key of the list; in turn or in order a good one, if there is one; in turn another
\* one than that to avoid, if there is another one.
LEMMA ChosenKey ==
  ASSUME NEW list \in Lists, list.keys # <<>>, NEW selector \in Orders, NEW avoid, NEW bad,
         NEW s \in SelectPool(list, selector, avoid, bad)
  PROVE  /\ s.next \in Nat
         /\ \E j \in 1..Len(list.keys) : s.key = list.keys[j]
         /\ selector # "RANDOM" /\ (\E j \in 1..Len(list.keys) : list.keys[j] \notin bad \cup {avoid}) =>
              s.key \notin bad \cup {avoid}
         /\ selector = "RR" /\ (\E j \in 1..Len(list.keys) : list.keys[j] # avoid) => s.key # avoid
<1> DEFINE L == Len(list.keys)
           last == L - 1
           See(n) == Looked(list, selector, n)
           good == {n \in 0..last : See(n) \notin bad \cup {avoid}}
           one == FirstOf(good, last)
           base == IF selector = "RR" THEN one ELSE 0
           other == {n \in 1..last : See(base + n) # avoid}
           two == base + FirstOf(other, last)
<1>1. list.keys \in Seq(Keys) /\ list.next \in Nat /\ L \in Nat \ {0} /\ last \in Nat
  BY DEF Lists
<1>2. \A n \in Nat : Choice(list, selector, n).key = See(n) /\ Choice(list, selector, n).next \in Nat
  <2> SUFFICES ASSUME NEW n \in Nat PROVE Choice(list, selector, n).key = See(n) /\ Choice(list, selector, n).next \in Nat
    OBVIOUS
  <2>1. (list.next + n + 1) % L \in Nat
    <3>1. list.next + n + 1 \in Nat
      BY <1>1
    <3>2. L \in Nat \ {0}
      BY <1>1
    <3> HIDE DEF L
    <3>3. (list.next + n + 1) % L \in 0..L - 1
      BY <3>1, <3>2, TurnInList, Zenon
    <3> QED
      BY <3>2, <3>3
  <2> QED
    BY <1>1, <2>1 DEF Choice
<1>3. CASE selector = "RANDOM"
  <2>1. PICK n \in 0..last : s = Choice(list, selector, n)
    BY <1>3 DEF SelectPool
  <2>2. See(n) = list.keys[n + 1] /\ n + 1 \in 1..L /\ n \in Nat
    BY <1>1, <1>3, <2>1 DEF Looked
  <2> QED
    BY <1>2, <1>3, <2>1, <2>2
<1>4. CASE selector \in {"RR", "ORDER"}
  <2>1. s = Choice(list, selector, IF See(one) = avoid /\ last > 0 THEN two ELSE one)
    <3>1. selector # "RANDOM"
      BY <1>4
    <3> QED
      BY <3>1 DEF SelectPool
  <2>2. good \subseteq Nat /\ other \subseteq Nat
    BY <1>1
  <2>3. /\ one \in 0..last
        /\ good # {} => one \in good
        /\ FirstOf(other, last) \in 0..last
        /\ other # {} => FirstOf(other, last) \in other
    <3> HIDE DEF last
    <3>1. good \subseteq 0..last /\ other \subseteq 0..last /\ last \in 0..last
      BY <1>1
    <3> HIDE DEF good, other
    <3> QED
      BY <2>2, <3>1, FirstOfIn
  <2>4. base \in 0..last /\ two \in Nat /\ (selector = "RR" \/ two <= last)
    <3>1. CASE selector = "RR"
      BY <1>1, <2>3, <3>1
    <3>2. CASE selector # "RR"
      BY <1>1, <2>3, <3>2
    <3> HIDE DEF base, two, last
    <3> QED
      BY <3>1, <3>2
  <2>5. /\ \A n \in Nat : n <= last \/ selector = "RR" => \E j \in 1..L : See(n) = list.keys[j]
        /\ \A j \in 1..L : \E n \in 0..last : See(n) = list.keys[j]
        /\ \A m \in Nat, j \in 1..L : \E n \in 0..last : Looked(list, "RR", m + n) = list.keys[j]
    BY <1>4, LookedIn
  <2> HIDE DEF L
  <2>6. (\E j \in 1..L : list.keys[j] \notin bad \cup {avoid}) => See(one) \notin bad \cup {avoid}
    <3>1. (\E j \in 1..L : list.keys[j] \notin bad \cup {avoid}) => good # {}
      BY <2>5
    <3> HIDE DEF one, See
    <3> QED
      BY <2>3, <3>1
  <2>7. ASSUME selector = "RR", NEW j \in 1..L, list.keys[j] # avoid, See(one) = avoid
        PROVE  last > 0 /\ See(two) # avoid
    <3>1. PICK n \in 0..last : Looked(list, "RR", one + n) = list.keys[j]
      <4>1. one \in Nat
        BY <1>1, <2>3
      <4> HIDE DEF one
      <4> QED
        BY <2>5, <4>1
    <3>2. n # 0
      <4>1. one \in Nat
        BY <1>1, <2>3
      <4>2. n = 0 => one + n = one
        BY <4>1
      <4> HIDE DEF one
      <4> QED
        BY <2>7, <3>1, <4>2
    <3>3. n \in other
      BY <1>1, <2>7, <3>1, <3>2
    <3>4. FirstOf(other, last) \in other
      BY <2>3, <3>3
    <3>5. See(two) # avoid
      BY <3>4
    <3>6. last > 0
      BY <1>1, <3>2
    <3> QED
      BY <3>5, <3>6
  <2>8. See(one) \in {list.keys[j] : j \in 1..L} /\ See(two) \in {list.keys[j] : j \in 1..L}
    <3>1. one \in Nat /\ one <= last
      BY <1>1, <2>3
    <3> HIDE DEF one, two, See, last
    <3> QED
      BY <2>4, <2>5, <3>1
  <2>9. one \in Nat
    BY <1>1, <2>3
  <2> HIDE DEF one, two, See, last, good, other, base
  <2>10. CASE See(one) = avoid /\ last > 0
    <3>1. s.key = See(two) /\ s.next \in Nat
      BY <1>2, <2>1, <2>4, <2>10
    <3> QED
      BY <1>4, <2>6, <2>7, <2>8, <2>10, <3>1 DEF L
  <2>11. CASE ~(See(one) = avoid /\ last > 0)
    <3>1. s.key = See(one) /\ s.next \in Nat
      BY <1>2, <2>1, <2>9, <2>11
    <3> QED
      BY <1>4, <2>6, <2>7, <2>8, <2>11, <3>1 DEF L
  <2> QED
    BY <2>10, <2>11
<1> QED
  BY <1>3, <1>4 DEF Orders

-----------------------------------------------------------------------------
(***************************************************************************)
(* The keys a pattern matches.                                             *)
(***************************************************************************)
Matching(p, ns) == {i \in Members(ns) : key[i] \in Matches[p]}

\* The nodes of a list are of the set it is a list of.
LEMMA MembersIn == \A S : \A ns \in Seq(S) : Members(ns) \subseteq S /\ Members(ns) = {ns[m] : m \in 1..Len(ns)}
BY DEF Members

\* The keys found for a pattern are those of the nodes that match it, and no fewer than these.
LEMMA KeysFound ==
  ASSUME key \in Seq(Keys), NEW ns \in Seq(1..Len(key)), NEW p
  PROVE  /\ KeysMatching(p, ns) \in Seq(Keys)
         /\ Len(KeysMatching(p, ns)) \in Nat
         /\ \A i \in Matching(p, ns) : \E j \in 1..Len(KeysMatching(p, ns)) : KeysMatching(p, ns)[j] = key[i]
         /\ \A j \in 1..Len(KeysMatching(p, ns)) : \E i \in Matching(p, ns) : key[i] = KeysMatching(p, ns)[j]
         /\ IsFiniteSet(Matching(p, ns)) /\ Cardinality(Matching(p, ns)) <= Len(KeysMatching(p, ns))
<1> DEFINE T == Matching(p, ns)
           s == Filter(ns, T)
           found == KeysMatching(p, ns)
<1>1. s \in Seq(1..Len(key)) /\ Len(s) \in Nat
  <2> HIDE DEF T
  <2>1. s \in Seq(1..Len(key))
    BY FilterType
  <2> HIDE DEF s
  <2> QED
    BY <2>1
<1>2. {s[i] : i \in 1..Len(s)} = T
  <2>1. {s[i] : i \in 1..Len(s)} = {ns[i] : i \in 1..Len(ns)} \cap T
    <3> HIDE DEF T
    <3>0. \A S, U : \A q \in Seq(S) : {Filter(q, U)[i] : i \in 1..Len(Filter(q, U))} = {q[i] : i \in 1..Len(q)} \cap U
      BY FilterElements, Zenon
    <3>1. ns \in Seq(1..Len(key))
      OBVIOUS
    <3> HIDE DEF s
    <3>2. s = Filter(ns, T)
      BY DEF s
    <3> HIDE DEF found
    <3> QED
      BY <3>0, <3>1, <3>2
  <2>2. Members(ns) = {ns[i] : i \in 1..Len(ns)}
    BY DEF Members
  <2> QED
    BY <2>1, <2>2 DEF Matching
<1>3. DOMAIN s = 1..Len(s)
  BY <1>1
<1>4. found = [j \in 1..Len(s) |-> key[s[j]]]
  BY <1>3 DEF KeysMatching, Matching
<1> HIDE DEF s, found, T
<1>5. \A j \in 1..Len(s) : s[j] \in 1..Len(key) /\ key[s[j]] \in Keys
  BY <1>1
<1>6. found \in Seq(Keys) /\ Len(found) = Len(s)
  BY <1>1, <1>4, <1>5
<1>7. \A i \in T : \E j \in 1..Len(found) : found[j] = key[i]
  BY <1>2, <1>4, <1>6
<1>8. \A j \in 1..Len(found) : \E i \in T : key[i] = found[j]
  BY <1>2, <1>4, <1>6
<1>9. IsFiniteSet(T) /\ Cardinality(T) <= Len(s)
  <2>1. IsFiniteSet(1..Len(s)) /\ Cardinality(1..Len(s)) = Len(s)
    <3>1. Len(s) \in Nat
      BY <1>1
    <3>2. \A n \in Nat : IsFiniteSet(1..n) /\ Cardinality(1..n) = n
      BY FS_Interval
    <3> QED
      BY <3>1, <3>2, Zenon
  <2> DEFINE f == [j \in 1..Len(s) |-> s[j]]
  <2>2. f \in Surjection(1..Len(s), T)
    BY <1>2 DEF Surjection
  <2> HIDE DEF f
  <2> QED
    BY <2>1, <2>2, FS_Surjection
<1> QED
  BY <1>1, <1>6, <1>7, <1>8, <1>9 DEF found, T

\* A node that does not match a pattern, added behind the others, changes nothing for it.
LEMMA KeysOfAdded ==
  ASSUME key \in Seq(Keys), nodes \in Seq(1..Len(key)), NEW k \in Keys,
         key' = Append(key, k), nodes' = Append(nodes, Len(key) + 1),
         NEW p, k \notin Matches[p]
  PROVE  KeysMatching(p, nodes)' = KeysMatching(p, nodes)
<1> DEFINE S == 1..Len(key) + 1
           T == {i \in Members(nodes) : key[i] \in Matches[p]}
           U == {i \in Members(nodes') : key'[i] \in Matches[p]}
<1>1. Len(key) \in Nat /\ \A i \in 1..Len(key) : key'[i] = key[i]
  OBVIOUS
<1>2. key'[Len(key) + 1] = k
  BY <1>1
<1>3. nodes \in Seq(S) /\ Len(key) + 1 \in S
  <2>1. 1..Len(key) \subseteq S
    BY <1>1
  <2> QED
    BY <1>1, <2>1, SeqMonotone
<1>4. \A i \in 1..Len(nodes) : nodes[i] \in 1..Len(key)
  OBVIOUS
<1>5. \A i \in 1..Len(nodes) : nodes[i] \in T <=> nodes[i] \in U
  <2>1. ASSUME NEW i \in 1..Len(nodes) PROVE nodes[i] \in Members(nodes) /\ nodes[i] \in Members(nodes')
    <3>1. i \in DOMAIN nodes /\ i \in DOMAIN nodes' /\ nodes'[i] = nodes[i]
      BY <1>1, <1>3
    <3> QED
      BY <3>1 DEF Members
  <2> QED
    BY <1>1, <1>4, <2>1
<1>6. Len(key) + 1 \notin U
  BY <1>2
<1> HIDE DEF S, T, U
<1>7. Filter(nodes', U) = Filter(nodes, U)
  BY <1>3, <1>6, FilterAppend
<1>8. Filter(nodes, U) = Filter(nodes, T)
  BY <1>5, FilterAgree
<1>9. Filter(nodes, T) \in Seq(1..Len(key))
  BY FilterType
<1>10. \A j \in DOMAIN Filter(nodes, T) : Filter(nodes, T)[j] \in 1..Len(key)
  BY <1>9
<1>11. KeysMatching(p, nodes) = [j \in DOMAIN Filter(nodes, T) |-> key[Filter(nodes, T)[j]]]
  BY DEF KeysMatching, T
<1>12. KeysMatching(p, nodes)' = [j \in DOMAIN Filter(nodes', U) |-> key'[Filter(nodes', U)[j]]]
  BY DEF KeysMatching, U, Members
<1> QED
  BY <1>1, <1>7, <1>8, <1>10, <1>11, <1>12

\* The node of a key, when no two have the same.
LEMMA NodeOfKey ==
  ASSUME NEW ns, NEW i \in Members(ns), \A m, n \in Members(ns) : key[m] = key[n] => m = n
  PROVE  NodeOf(key[i], ns) = i
BY DEF NodeOf

-----------------------------------------------------------------------------
(***************************************************************************)
(* The inductive invariant.  Shape is the type of what is looked at.  A    *)
(* key is that of one node (add refuses a second one); a request asks a    *)
(* pool there was, and no other pool has its key now; nothing is asked by  *)
(* callback once the cluster is ended.                                     *)
(***************************************************************************)
Phases == {"idle", "asking", "connected", "refused", "lost"}

Shape ==
  /\ key \in Seq(Keys) /\ nodes \in Seq(1..Len(key))
  /\ blacklisted \subseteq 1..Len(key)
  /\ DOMAIN cached \subseteq Patterns
  /\ \A p \in DOMAIN cached : cached[p] \in Lists
  /\ phase \in [Requests -> Phases]
  /\ about \in [Requests -> {<<>>} \cup (Patterns \X Selectors)]
  /\ asked \in [Requests -> Nat] /\ left \in [Requests -> Int] /\ answers \in [Requests -> Nat]
  /\ \A r \in Asking : asked[r] \in 1..Len(key) /\ about[r] \in Patterns \X (Selectors \cap Orders)
  /\ undisturbed \subseteq Asking

OneNodePerKey == \A i, j \in Members(nodes) : key[i] = key[j] => i = j

AskedIsAlone == \A r \in Asking : \A i \in Members(nodes) : key[i] = key[asked[r]] => i = asked[r]

ClusterInv == Shape /\ OneNodePerKey /\ CacheCoherent /\ ("again" \notin Careless => AskedIsAlone)

-----------------------------------------------------------------------------
(***************************************************************************)
(* What the shared parts of the actions do.                                *)
(***************************************************************************)
Coherent(patterns, ns) ==
  /\ DOMAIN patterns \subseteq Patterns
  /\ \A p \in DOMAIN patterns : patterns[p] \in Lists /\ patterns[p].keys = KeysMatching(p, ns)

\* _matchingNodes finds the nodes that match, in the cache or not.
LEMMA ListFound ==
  ASSUME key \in Seq(Keys), NEW ns \in Seq(1..Len(key)), NEW patterns, Coherent(patterns, ns), NEW p
  PROVE  MatchingNodes(p, patterns, ns) \in Lists /\ MatchingNodes(p, patterns, ns).keys = KeysMatching(p, ns)
<1>1. KeysMatching(p, ns) \in Seq(Keys)
  BY KeysFound
<1> QED
  BY <1>1 DEF MatchingNodes, Coherent, Lists

\* The node to ask: one that matches; in turn or in order it is a healthy and another one, if there
\* is such a node; in turn it is another one, if there is one.
RightNode(i, p, ns, selector, avoid, black) ==
  /\ i \in Matching(p, ns)
  /\ selector # "RANDOM" /\ (\E j \in Matching(p, ns) : j \notin black /\ key[j] # avoid) =>
       i \notin black /\ key[i] # avoid
  /\ selector = "RR" /\ (\E j \in Matching(p, ns) : key[j] # avoid) => key[i] # avoid

\* What is chosen of a coherent list is a node that matches; a good one if there is one.
LEMMA NodeChosen ==
  ASSUME key \in Seq(Keys), NEW ns \in Seq(1..Len(key)),
         \A m, n \in Members(ns) : key[m] = key[n] => m = n,
         NEW p, NEW list \in Lists, list.keys = KeysMatching(p, ns), list.keys # <<>>,
         NEW selector \in Orders, NEW avoid, NEW black,
         NEW s \in SelectPool(list, selector, avoid, {key[i] : i \in black \cap Members(ns)})
  PROVE  s.next \in Nat /\ RightNode(NodeOf(s.key, ns), p, ns, selector, avoid, black)
<1> DEFINE bad == {key[i] : i \in black \cap Members(ns)}
<1>1. /\ s.next \in Nat
      /\ \E j \in 1..Len(list.keys) : s.key = list.keys[j]
      /\ selector # "RANDOM" /\ (\E j \in 1..Len(list.keys) : list.keys[j] \notin bad \cup {avoid}) =>
           s.key \notin bad \cup {avoid}
      /\ selector = "RR" /\ (\E j \in 1..Len(list.keys) : list.keys[j] # avoid) => s.key # avoid
  <2> HIDE DEF bad
  <2>1. s \in SelectPool(list, selector, avoid, bad)
    BY DEF bad
  <2> QED
    BY <2>1, ChosenKey
<1>2. /\ \A i \in Matching(p, ns) : \E j \in 1..Len(list.keys) : list.keys[j] = key[i]
      /\ \A j \in 1..Len(list.keys) : \E i \in Matching(p, ns) : key[i] = list.keys[j]
  BY KeysFound
<1>3. Matching(p, ns) \subseteq Members(ns)
  BY DEF Matching
<1>4. PICK n \in Matching(p, ns) : key[n] = s.key
  BY <1>1, <1>2
<1>5. NodeOf(s.key, ns) = n
  BY <1>3, <1>4, NodeOfKey
<1>6. \A i \in Matching(p, ns) : i \notin black => key[i] \notin bad
  BY <1>3
<1>7. n \in black => key[n] \in bad
  BY <1>3
<1> QED
  BY <1>1, <1>2, <1>4, <1>5, <1>6, <1>7 DEF RightNode

\* What an attempt needs to be made.
Ready == Shape /\ key' = key /\ nodes' \in Seq(1..Len(key)) /\ Members(nodes') \subseteq Members(nodes) /\ OneNodePerKey

\* What is remembered is coherent.
LEMMA RememberEffect ==
  ASSUME NEW patterns, Coherent(patterns, nodes'), NEW p \in Patterns, NEW entry \in Lists,
         entry.keys = KeysMatching(p, nodes'), Remember(p, entry, patterns)
  PROVE  Coherent(cached', nodes')
BY DEF Remember, Coherent

\* The request is asked of the right node, with the retries that remain.
Asks(r, p, selector, retries, avoid) ==
  /\ selector \in Orders
  /\ phase' = [phase EXCEPT ![r] = "asking"] /\ about' = [about EXCEPT ![r] = <<p, selector>>]
  /\ undisturbed' = undisturbed \cup (IF avoid = None THEN {r} ELSE {})
  /\ answers' = answers
  /\ left' = [left EXCEPT ![r] = (IF avoid = None THEN Len(KeysMatching(p, nodes')) ELSE retries) - 1]
  /\ \E i \in Matching(p, nodes') :
       asked' = [asked EXCEPT ![r] = i] /\ RightNode(i, p, nodes', selector, avoid, blacklisted')

\* The request is over, with n answers.
Ends(r, how, n) ==
  /\ phase' = [phase EXCEPT ![r] = how] /\ about' = [about EXCEPT ![r] = <<>>]
  /\ asked' = [asked EXCEPT ![r] = None] /\ left' = [left EXCEPT ![r] = 0]
  /\ answers' = [answers EXCEPT ![r] = n]
  /\ undisturbed' = undisturbed \ {r}

\* Asking a node does just that, and what is remembered is coherent.
LEMMA AskEffect ==
  ASSUME Ready, NEW r \in Requests, NEW p \in Patterns, NEW selector \in Selectors \cap Orders, NEW retries \in Int, NEW avoid,
         NEW patterns, Coherent(patterns, nodes'),
         MatchingNodes(p, patterns, nodes').keys # <<>>, Ask(r, p, selector, retries, avoid, patterns)
  PROVE  Coherent(cached', nodes') /\ Asks(r, p, selector, retries, avoid)
<1> DEFINE list == MatchingNodes(p, patterns, nodes')
           n == (IF avoid = None THEN Len(list.keys) ELSE retries) - 1
<1>1. key \in Seq(Keys) /\ nodes' \in Seq(1..Len(key)) /\ \A i, j \in Members(nodes') : key[i] = key[j] => i = j
  BY DEF Ready, Shape, OneNodePerKey
<1>2. list \in Lists /\ list.keys = KeysMatching(p, nodes')
  BY <1>1, ListFound
<1> HIDE DEF list
<1>3. Len(list.keys) \in Nat
  BY <1>2 DEF Lists
<1>4. PICK s \in SelectPool(list, selector, avoid, {key[i] : i \in blacklisted' \cap Members(nodes')}) :
        Remember(p, [list EXCEPT !.next = s.next], patterns) /\ asked' = [asked EXCEPT ![r] = NodeOf(s.key, nodes')]
  <2>1. \E s \in SelectPool(list, selector, avoid, {key[i] : i \in blacklisted' \cap Members(nodes')}) :
          Remember(p, [list EXCEPT !.next = s.next], patterns) /\ asked' = [asked EXCEPT ![r] = NodeOf(s.key, nodes')]
    BY Zenon DEF Ask, list, Ready
  <2> QED
    BY <2>1
<1>5. s.next \in Nat /\ RightNode(NodeOf(s.key, nodes'), p, nodes', selector, avoid, blacklisted')
  <2>1. list.keys # <<>> /\ selector \in Orders
    BY DEF list
  <2> QED
    BY <1>1, <1>2, <1>4, <2>1, NodeChosen, Zenon
<1>6. Coherent(cached', nodes')
  <2> DEFINE entry == [list EXCEPT !.next = s.next]
  <2>1. entry \in Lists /\ entry.keys = KeysMatching(p, nodes')
    BY <1>2, <1>5 DEF Lists
  <2>2. Remember(p, entry, patterns)
    BY <1>4
  <2> HIDE DEF entry
  <2> QED
    BY <2>1, <2>2, RememberEffect
<1>7. left' = [left EXCEPT ![r] = n] /\ n \in Int
  BY <1>3 DEF Ask, list
<1>8. n = (IF avoid = None THEN Len(KeysMatching(p, nodes')) ELSE retries) - 1 /\ selector \in Orders
  BY <1>2
<1>9. /\ phase' = [phase EXCEPT ![r] = "asking"] /\ about' = [about EXCEPT ![r] = <<p, selector>>]
      /\ undisturbed' = undisturbed \cup (IF avoid = None THEN {r} ELSE {})
      /\ answers' = answers
  BY DEF Ask
<1>10. NodeOf(s.key, nodes') \in Matching(p, nodes')
  BY <1>5 DEF RightNode
<1> HIDE DEF n
<1> QED
  BY <1>4, <1>5, <1>6, <1>7, <1>8, <1>9, <1>10 DEF Asks

\* The failure of the pool of a node: the node, if it is there still, is blacklisted or removed.
LEMMA FailureEffect ==
  ASSUME Shape, OneNodePerKey, NEW k, NodeFailure(k)
  PROVE  /\ nodes' \in Seq(1..Len(key)) /\ Members(nodes') \subseteq Members(nodes)
         /\ blacklisted \subseteq blacklisted' /\ blacklisted' \subseteq 1..Len(key)
         /\ \A i \in Members(nodes) : key[i] = k => i \in blacklisted'
<1> DEFINE i == NodeOf(k, nodes)
<1>1. Members(nodes) \subseteq 1..Len(key)
  BY DEF Members, Shape
<1>2. CASE i = None
  <2>1. UNCHANGED <<nodes, errors, blacklisted>>
    BY <1>2 DEF NodeFailure
  <2>2. ASSUME NEW j \in Members(nodes), key[j] = k PROVE FALSE
    <3>1. i = j
      BY <2>2, NodeOfKey DEF OneNodePerKey
    <3>2. j \in 1..Len(key) /\ j # 0
      BY <1>1 DEF Shape
    <3> QED
      BY <1>2, <3>1, <3>2 DEF None
  <2> QED
    BY <2>1, <2>2 DEF Shape
<1>3. CASE i # None
  <2>1. i \in Members(nodes) /\ key[i] = k
    BY <1>3 DEF NodeOf
  <2>2. blacklisted' = blacklisted \cup {i} /\ (nodes' = nodes \/ nodes' = Filter(nodes, Members(nodes) \ {i}))
    BY <1>3 DEF NodeFailure
  <2>3. nodes' \in Seq(1..Len(key)) /\ Members(nodes') \subseteq Members(nodes)
    <3>1. nodes \in Seq(1..Len(key))
      BY DEF Shape
    <3> DEFINE T == Members(nodes) \ {i}
               f == Filter(nodes, T)
    <3> HIDE DEF T
    <3>2. f \in Seq(1..Len(key))
      BY <3>1, FilterType
    <3>3. {f[m] : m \in 1..Len(f)} = {nodes[m] : m \in 1..Len(nodes)} \cap T
      BY <3>1, FilterElements
    <3> HIDE DEF f
    <3>4. Members(f) = {f[m] : m \in 1..Len(f)} /\ Members(nodes) = {nodes[m] : m \in 1..Len(nodes)}
      BY <3>1, <3>2 DEF Members
    <3> QED
      BY <2>2, <3>1, <3>2, <3>3, <3>4 DEF f, T
  <2>4. \A j \in Members(nodes) : key[j] = k => j = i
    BY <2>1 DEF OneNodePerKey
  <2> QED
    BY <1>1, <2>1, <2>2, <2>3, <2>4 DEF Shape
<1> QED
  BY <1>2, <1>3

\* Removing nodes forgets what was cached; otherwise nothing that was cached has changed.
LEMMA KeptEffect ==
  ASSUME Shape, CacheCoherent PROVE Coherent(Kept, nodes')
<1>1. CASE nodes' = nodes
  BY <1>1 DEF Kept, Coherent, Shape, CacheCoherent
<1>2. CASE nodes' # nodes
  <2>1. Kept = <<>>
    BY <1>2 DEF Kept
  <2> QED
    BY <2>1 DEF Coherent
<1> QED
  BY <1>1, <1>2

\* An attempt asks the right node, or ends the request when none matches or the selector is none.
LEMMA AttemptEffect ==
  ASSUME Ready, NEW r \in Requests, NEW p \in Patterns, NEW selector \in Selectors, NEW retries \in Int, NEW avoid,
         NEW patterns, Coherent(patterns, nodes'), Attempt(r, p, selector, retries, avoid, patterns)
  PROVE  /\ Coherent(cached', nodes')
         /\ \/ KeysMatching(p, nodes') # <<>> /\ Asks(r, p, selector, retries, avoid)
            \/ /\ KeysMatching(p, nodes') = <<>> \/ selector \notin Orders
               /\ \E n \in {1, 2} :
                    /\ Ends(r, "refused", n)
                    /\ n = 2 => api = "callback" /\ avoid = None /\ nodes' # <<>> /\ KeysMatching(p, nodes') = <<>>
<1> DEFINE list == MatchingNodes(p, patterns, nodes')
<1>1. list \in Lists /\ list.keys = KeysMatching(p, nodes')
  BY ListFound DEF Ready, Shape
<1>2. CASE list.keys # <<>> /\ selector \in Orders
  <2>1. Ask(r, p, selector, retries, avoid, patterns)
    BY <1>2 DEF Attempt, Orders
  <2> QED
    BY <1>1, <1>2, <2>1, AskEffect
<1>3. CASE ~ (list.keys # <<>> /\ selector \in Orders)
  <2>1. Remember(p, list, patterns) /\ IF list.keys = <<>> THEN NoNode(r, avoid) ELSE Refuse(r, 1)
    BY <1>3 DEF Attempt, Orders
  <2>2. Coherent(cached', nodes')
    <3> HIDE DEF list
    <3> QED
      BY <1>1, <2>1, RememberEffect
  <2>3. CASE list.keys = <<>>
    BY <1>1, <2>1, <2>2, <2>3 DEF NoNode, Refuse, Over, Ends
  <2>4. CASE list.keys # <<>>
    BY <1>1, <1>3, <2>1, <2>2, <2>4 DEF Refuse, Over, Ends
  <2> QED
    BY <2>3, <2>4
<1> QED
  BY <1>2, <1>3

-----------------------------------------------------------------------------
(***************************************************************************)
(* The invariant, initially and from step to step.                         *)
(***************************************************************************)

\* No request, and each of the first nodes has its own key.
LEMMA ClusterInit == Init => ClusterInv
<1> SUFFICES ASSUME Init PROVE ClusterInv
  OBVIOUS
<1>1. key \in Seq(Keys) /\ nodes = [j \in 1..Len(key) |-> j] /\ \A m, n \in DOMAIN key : key[m] = key[n] => m = n
  BY ClusterAssumption DEF Init
<1>2. nodes \in Seq(1..Len(key)) /\ Members(nodes) = 1..Len(key)
  BY <1>1 DEF Members
<1>3. Shape
  BY <1>1, <1>2 DEF Init, Shape, Asking, Phases, Lists, None
<1>4. OneNodePerKey
  BY <1>1, <1>2 DEF OneNodePerKey
<1>5. CacheCoherent /\ AskedIsAlone
  BY DEF Init, CacheCoherent, AskedIsAlone, Asking
<1> QED
  BY <1>3, <1>4, <1>5 DEF ClusterInv

\* What the attempts and the ends of requests have in common.
LEMMA RequestStep ==
  ASSUME ClusterInv, Ready, blacklisted' \subseteq 1..Len(key), Coherent(cached', nodes'), NEW r \in Requests,
         \/ \E p \in Patterns, s \in Selectors, n \in Int : \E avoid : Asks(r, p, s, n, avoid)
         \/ \E how \in Phases \ {"asking"}, n \in Nat : Ends(r, how, n)
  PROVE  ClusterInv'
<1> USE DEF ClusterInv
<1>1. /\ key' = key /\ nodes' \in Seq(1..Len(key)) /\ Members(nodes') \subseteq Members(nodes)
      /\ key \in Seq(Keys) /\ Members(nodes)' = Members(nodes') /\ Members(nodes') \subseteq 1..Len(key)
  <2>1. /\ key' = key /\ nodes' \in Seq(1..Len(key)) /\ Members(nodes') \subseteq Members(nodes)
        /\ key \in Seq(Keys) /\ Members(nodes)' = Members(nodes')
    BY DEF Ready, Shape, Members
  <2> QED
    BY <2>1, MembersIn
<1>2. OneNodePerKey' /\ CacheCoherent'
  <2>1. OneNodePerKey'
    BY <1>1 DEF OneNodePerKey
  <2>2. \A p : KeysMatching(p, nodes)' = KeysMatching(p, nodes')
    BY <1>1 DEF KeysMatching, Members
  <2>3. CacheCoherent'
    BY <2>2 DEF CacheCoherent, Coherent
  <2> QED
    BY <2>1, <2>3
<1>3. ASSUME NEW p \in Patterns, NEW s \in Selectors, NEW n \in Int, NEW avoid, Asks(r, p, s, n, avoid)
      PROVE  Shape' /\ ("again" \notin Careless => AskedIsAlone')
  <2>1. Len(KeysMatching(p, nodes')) \in Nat
    BY <1>1, KeysFound
  <2>2. PICK i \in Members(nodes') : asked' = [asked EXCEPT ![r] = i]
    BY <1>3 DEF Asks, Matching
  <2>3. left' \in [Requests -> Int]
    BY <1>3, <2>1 DEF Asks, Shape
  <2>4. Asking' = Asking \cup {r}
    BY <1>3 DEF Asking, Asks, Shape
  <2>5. Shape'
    BY <1>1, <1>3, <2>2, <2>3, <2>4 DEF Shape, Coherent, Asks, Phases
  <2>6. \A q \in Requests : asked'[q] = IF q = r THEN i ELSE asked[q]
    BY <2>2 DEF Shape
  <2>7. ASSUME AskedIsAlone, NEW q \in Asking', NEW j \in Members(nodes'), key[j] = key[asked'[q]]
        PROVE  j = asked'[q]
    BY <1>1, <2>2, <2>4, <2>6, <2>7 DEF AskedIsAlone, OneNodePerKey, Asking
  <2>8. "again" \notin Careless => AskedIsAlone'
    BY <1>1, <2>7 DEF AskedIsAlone
  <2> QED
    BY <2>5, <2>8
<1>4. ASSUME NEW how \in Phases \ {"asking"}, NEW n \in Nat, Ends(r, how, n)
      PROVE  Shape' /\ ("again" \notin Careless => AskedIsAlone')
  <2>1. Asking' = Asking \ {r}
    BY <1>4 DEF Asking, Ends, Shape
  <2>2. Shape'
    BY <1>1, <1>4, <2>1 DEF Shape, Coherent, Ends, None
  <2>3. ASSUME AskedIsAlone, NEW q \in Asking', NEW j \in Members(nodes'), key[j] = key[asked'[q]]
        PROVE  j = asked'[q]
    <3>1. asked'[q] = asked[q] /\ q \in Asking
      BY <1>4, <2>1 DEF Ends, Shape, Asking
    <3> QED
      BY <1>1, <2>3, <3>1 DEF AskedIsAlone
  <2>4. "again" \notin Careless => AskedIsAlone'
    BY <1>1, <2>3 DEF AskedIsAlone
  <2> QED
    BY <2>2, <2>4
<1> QED
  BY <1>2, <1>3, <1>4

\* getConnection: an attempt among the nodes there are.
LEMMA GetConnectionEffect ==
  ASSUME ClusterInv, NEW r \in Requests, NEW p \in Patterns, NEW s \in Selectors, GetConnection(r, p, s)
  PROVE  /\ Ready /\ nodes' = nodes /\ blacklisted' = blacklisted /\ api' = api /\ ended' = ended /\ phase[r] = "idle"
         /\ Coherent(cached', nodes')
         /\ \/ KeysMatching(p, nodes') # <<>> /\ Asks(r, p, s, 0, None)
            \/ \E n \in {1, 2} : Ends(r, "refused", n) /\ (n = 2 => "none" \in Careless)
<1>1. Ready /\ nodes' = nodes /\ blacklisted' = blacklisted /\ api' = api /\ ended' = ended /\ phase[r] = "idle"
  BY DEF GetConnection, members, health, Ready, ClusterInv, Shape
<1>2. Coherent(cached, nodes')
  BY <1>1 DEF Coherent, ClusterInv, Shape, CacheCoherent
<1>3. Attempt(r, p, s, 0, None, cached)
  BY DEF GetConnection
<1>4. MatchingNodes(p, cached, nodes).keys = KeysMatching(p, nodes)
  BY <1>1, <1>2, ListFound DEF ClusterInv, Shape
<1>5. /\ Coherent(cached', nodes')
      /\ \/ KeysMatching(p, nodes') # <<>> /\ Asks(r, p, s, 0, None)
         \/ \E n \in {1, 2} :
              /\ Ends(r, "refused", n)
              /\ n = 2 => api = "callback" /\ None = None /\ nodes' # <<>> /\ KeysMatching(p, nodes') = <<>>
  <2>1. 0 \in Int
    OBVIOUS
  <2> QED
    BY <1>1, <1>2, <1>3, <2>1, AttemptEffect
<1>6. api = "promise" \/ "none" \in Careless \/ nodes = <<>> \/ KeysMatching(p, nodes) # <<>>
  BY <1>4 DEF GetConnection
<1> QED
  BY <1>1, <1>5, <1>6

\* A refusal: the node of the key is blacklisted, and the request goes on to another node or is over.
LEMMA NodeFailsEffect ==
  ASSUME ClusterInv, NEW r \in Asking, NodeFails(r), ~ended
  PROVE  /\ Ready /\ blacklisted \subseteq blacklisted' /\ blacklisted' \subseteq 1..Len(key)
         /\ \A i \in Members(nodes) : key[i] = key[asked[r]] => i \in blacklisted'
         /\ Coherent(cached', nodes') /\ api' = api /\ ended' = ended
         /\ \/ ~GivesUp(r) /\ Asks(r, about[r][1], about[r][2], left[r], key[asked[r]])
            \/ (GivesUp(r) \/ KeysMatching(about[r][1], nodes') = <<>>) /\ Ends(r, "refused", 1)
<1>1. NodeFailure(key[asked[r]]) /\ key' = key /\ api' = api /\ ended' = ended
  BY DEF NodeFails
<1>2. Shape /\ OneNodePerKey /\ CacheCoherent
  BY DEF ClusterInv
<1>3. /\ nodes' \in Seq(1..Len(key)) /\ Members(nodes') \subseteq Members(nodes)
      /\ blacklisted \subseteq blacklisted' /\ blacklisted' \subseteq 1..Len(key)
      /\ \A i \in Members(nodes) : key[i] = key[asked[r]] => i \in blacklisted'
  BY <1>1, <1>2, FailureEffect
<1>4. Ready
  BY <1>1, <1>2, <1>3 DEF Ready
<1>5. Coherent(Kept, nodes')
  BY <1>2, KeptEffect
<1>6. CASE GivesUp(r)
  <2>1. cached' = Kept /\ Refuse(r, 1)
    BY <1>6 DEF NodeFails
  <2>2. Ends(r, "refused", 1)
    BY <2>1 DEF Refuse, Over, Ends
  <2> QED
    BY <1>1, <1>3, <1>4, <1>5, <1>6, <2>1, <2>2
<1>7. CASE ~GivesUp(r)
  <2>1. Attempt(r, about[r][1], about[r][2], left[r], key[asked[r]], Kept)
    BY <1>7 DEF NodeFails
  <2>2. /\ r \in Requests /\ about[r][1] \in Patterns /\ about[r][2] \in Selectors \cap Orders /\ left[r] \in Int
        /\ key[asked[r]] \in Keys
    BY <1>2 DEF Shape, Asking
  <2>3. key[asked[r]] # None
    BY <2>2, ClusterAssumption DEF None
  <2>4. /\ Coherent(cached', nodes')
        /\ \/ KeysMatching(about[r][1], nodes') # <<>> /\ Asks(r, about[r][1], about[r][2], left[r], key[asked[r]])
           \/ /\ KeysMatching(about[r][1], nodes') = <<>> \/ about[r][2] \notin Orders
              /\ \E n \in {1, 2} :
                   /\ Ends(r, "refused", n)
                   /\ n = 2 => /\ api = "callback" /\ key[asked[r]] = None /\ nodes' # <<>>
                               /\ KeysMatching(about[r][1], nodes') = <<>>
    <3>1. about[r][2] \in Selectors
      BY <2>2
    <3> QED
      BY <1>4, <1>5, <2>1, <2>2, <3>1, AttemptEffect, Zenon
  <2> QED
    BY <1>1, <1>3, <1>4, <1>7, <2>2, <2>3, <2>4
<1> QED
  BY <1>6, <1>7

\* Once the cluster is ended a refusal ends the request, and nothing else.
LEMMA NodeFailsEnded ==
  ASSUME ClusterInv, NEW r \in Asking, NodeFails(r), ended
  PROVE  /\ Ready /\ nodes' = nodes /\ blacklisted' = blacklisted /\ Coherent(cached', nodes') /\ api' = api /\ ended' = ended
         /\ Ends(r, "refused", 1) \/ Ends(r, "lost", answers[r])
<1>1. FailsAfterEnd(r) /\ key' = key /\ api' = api /\ ended' = ended
  BY DEF NodeFails
<1>2. UNCHANGED <<nodes, errors, blacklisted, cached>>
  BY <1>1 DEF FailsAfterEnd
<1>3. Ready /\ Coherent(cached', nodes')
  BY <1>1, <1>2 DEF Ready, ClusterInv, Shape, CacheCoherent, Coherent
<1>4. CASE api = "promise"
  BY <1>1, <1>2, <1>3, <1>4 DEF FailsAfterEnd, Refuse, Over, Ends
<1>5. CASE api # "promise"
  <2>1. answers' = [answers EXCEPT ![r] = answers[r]]
    BY <1>1, <1>5 DEF FailsAfterEnd, ClusterInv, Shape, Asking
  <2> QED
    BY <1>1, <1>2, <1>3, <1>5, <2>1 DEF FailsAfterEnd, Over, Ends
<1> QED
  BY <1>4, <1>5

\* A connection ends the request; the node is healthy.
LEMMA NodeConnectsEffect ==
  ASSUME ClusterInv, NEW r \in Asking, NodeConnects(r)
  PROVE  /\ Ready /\ nodes' = nodes /\ Coherent(cached', nodes') /\ api' = api /\ ended' = ended
         /\ blacklisted' = blacklisted \ {asked[r]}
         /\ phase' = [phase EXCEPT ![r] = "connected"] /\ about' = [about EXCEPT ![r] = <<>>]
         /\ asked' = [asked EXCEPT ![r] = None] /\ left' = [left EXCEPT ![r] = 0]
         /\ answers' = [answers EXCEPT ![r] = 1]
         /\ undisturbed' = (IF asked[r] \in blacklisted THEN {} ELSE undisturbed \ {r})
BY DEF NodeConnects, members, Over, Ready, ClusterInv, Shape, CacheCoherent, Coherent

\* Nodes that come, each with its own key, and nodes that go.
LEMMA AddEffect ==
  ASSUME ClusterInv, NEW k \in Keys, Add(k), "late" \notin Careless
  PROVE  ClusterInv'
<1> USE DEF ClusterInv
<1> DEFINE n == Len(key) + 1
<1>1. /\ key' = Append(key, k) /\ nodes' = Append(nodes, n)
      /\ undisturbed' = {} /\ UNCHANGED <<ended, health, cached, phase, about, asked, left, answers>>
  BY DEF Add
<1>2. /\ key \in Seq(Keys) /\ key' \in Seq(Keys) /\ Len(key') = n /\ n \in Nat /\ n \notin 1..Len(key)
      /\ key'[n] = k /\ \A i \in 1..Len(key) : key'[i] = key[i]
  BY <1>1 DEF Shape
<1>3. 1..Len(key) \subseteq 1..Len(key') /\ n \in 1..Len(key')
  BY <1>2
<1> HIDE DEF n
<1>4. nodes \in Seq(1..Len(key)) /\ nodes \in Seq(1..Len(key'))
  BY <1>3, SeqMonotone DEF Shape
<1>5. nodes' \in Seq(1..Len(key')) /\ Members(nodes)' = Members(nodes) \cup {n} /\ Members(nodes) \subseteq 1..Len(key)
  <2>1. nodes' \in Seq(1..Len(key'))
    BY <1>1, <1>3, <1>4
  <2>2. Len(nodes) \in Nat /\ Len(nodes') = Len(nodes) + 1 /\ nodes'[Len(nodes) + 1] = n
        /\ \A j \in 1..Len(nodes) : nodes'[j] = nodes[j]
    BY <1>1, <1>4
  <2>3. Members(nodes)' = Members(nodes) \cup {n}
    <3>1. Members(nodes') = {nodes'[m] : m \in 1..Len(nodes')} /\ Members(nodes) = {nodes[m] : m \in 1..Len(nodes)}
      BY <1>4, <2>1, MembersIn, Zenon
    <3>2. 1..Len(nodes') = 1..Len(nodes) \cup {Len(nodes) + 1}
      BY <2>2
    <3>3. Members(nodes)' = Members(nodes')
      BY DEF Members
    <3> QED
      BY <2>2, <3>1, <3>2, <3>3
  <2> QED
    BY <1>4, <2>1, <2>3, MembersIn
<1>6. \A i \in Members(nodes) : key[i] # k
  <2>1. NodeOf(k, nodes) = None
    BY DEF Add
  <2>2. \A i \in Members(nodes) : i # None
    BY <1>5 DEF None, Shape
  <2> QED
    BY <2>1, <2>2 DEF NodeOf
<1>7. Shape'
  <2>1. Asking' = Asking
    BY <1>1 DEF Asking
  <2>2. undisturbed' = {} /\ UNCHANGED <<blacklisted, cached, phase, about, asked, left, answers>>
    BY <1>1 DEF health
  <2> QED
    BY <1>2, <1>3, <1>5, <2>1, <2>2 DEF Shape
<1>8. OneNodePerKey'
  BY <1>2, <1>5, <1>6 DEF OneNodePerKey
<1>9. CacheCoherent'
  <2>1. \A p \in DOMAIN cached : k \notin Matches[p]
    BY DEF Add
  <2>2. \A p \in DOMAIN cached : KeysMatching(p, nodes)' = KeysMatching(p, nodes)
    BY <1>1, <1>2, <1>4, <2>1, KeysOfAdded DEF n
  <2> QED
    BY <1>1, <2>2 DEF CacheCoherent
<1>10. "again" \notin Careless => AskedIsAlone'
  <2> SUFFICES ASSUME "again" \notin Careless, NEW r \in Asking, NEW i \in Members(nodes) \cup {n}, key'[i] = key'[asked[r]]
               PROVE  i = asked[r]
    BY <1>1, <1>5 DEF AskedIsAlone, Asking
  <2>1. key[asked[r]] # k /\ asked[r] \in 1..Len(key)
    BY DEF Add, Shape
  <2> QED
    BY <1>2, <1>5, <2>1 DEF AskedIsAlone
<1> QED
  BY <1>7, <1>8, <1>9, <1>10

\* remove() and end(): fewer nodes, and nothing remembered of those that went.
LEMMA RemoveEffect ==
  ASSUME ClusterInv, (\E p \in Patterns : RemovePattern(p)) \/ End
  PROVE  /\ Ready /\ UNCHANGED <<health, phase, about, asked, left, answers, undisturbed>> /\ Coherent(cached', nodes')
<1>1. Shape /\ OneNodePerKey /\ CacheCoherent
  BY DEF ClusterInv
<1>2. ASSUME NEW p \in Patterns, RemovePattern(p)
      PROVE  Ready /\ UNCHANGED <<health, phase, about, asked, left, answers, undisturbed>> /\ Coherent(cached', nodes')
  <2> DEFINE T == {i \in Members(nodes) : key[i] \notin Matches[p]}
  <2>1. nodes' = Filter(nodes, T) /\ cached' = Kept /\ key' = key /\ UNCHANGED <<health, request>>
    BY <1>2 DEF RemovePattern
  <2>2. nodes \in Seq(1..Len(key))
    BY <1>1 DEF Shape
  <2> HIDE DEF T
  <2>3. nodes' \in Seq(1..Len(key))
    BY <2>1, <2>2, FilterType
  <2>4. {nodes'[m] : m \in 1..Len(nodes')} = {nodes[m] : m \in 1..Len(nodes)} \cap T
    BY <2>1, <2>2, FilterElements
  <2>5. Members(nodes') = {nodes'[m] : m \in 1..Len(nodes')} /\ Members(nodes) = {nodes[m] : m \in 1..Len(nodes)}
    BY <2>2, <2>3, MembersIn, Zenon
  <2>6. Coherent(cached', nodes')
    BY <1>1, <2>1, KeptEffect
  <2> QED
    BY <1>1, <2>1, <2>3, <2>4, <2>5, <2>6 DEF Ready, request
<1>3. ASSUME End
      PROVE  Ready /\ UNCHANGED <<health, phase, about, asked, left, answers, undisturbed>> /\ Coherent(cached', nodes')
  <2>1. nodes' = <<>> /\ cached' = <<>> /\ key' = key /\ UNCHANGED <<health, request>>
    BY <1>3 DEF End
  <2>2. nodes' \in Seq(1..Len(key)) /\ Members(nodes') = {}
    BY <2>1 DEF Members
  <2> QED
    BY <1>1, <2>1, <2>2 DEF Ready, request, Coherent
<1> QED
  BY <1>2, <1>3

\* Every step preserves the invariant, if no node that matches a known pattern is added.
LEMMA ClusterStep ==
  ASSUME ClusterInv, [Next]_vars, "late" \notin Careless
  PROVE  ClusterInv'
<1> USE DEF ClusterInv
<1>0. ASSUME key' = key, nodes' = nodes, cached' = cached, UNCHANGED <<phase, about, asked, left, answers>>,
             blacklisted' \subseteq blacklisted, undisturbed' \subseteq undisturbed
      PROVE  ClusterInv'
  <2>1. Asking' = Asking /\ Members(nodes)' = Members(nodes)
    BY <1>0 DEF Asking, Members
  <2>2. Shape' /\ OneNodePerKey'
    BY <1>0, <2>1 DEF Shape, OneNodePerKey
  <2>3. \A p : KeysMatching(p, nodes)' = KeysMatching(p, nodes)
    BY <1>0 DEF KeysMatching, Members
  <2>4. CacheCoherent' /\ (AskedIsAlone => AskedIsAlone')
    BY <1>0, <2>1, <2>3 DEF CacheCoherent, AskedIsAlone
  <2> QED
    BY <2>2, <2>4
<1>1. ASSUME NEW r \in Requests, NEW p \in Patterns, NEW s \in Selectors, GetConnection(r, p, s) PROVE ClusterInv'
  <2>1. /\ Ready /\ blacklisted' \subseteq 1..Len(key) /\ Coherent(cached', nodes')
        /\ \/ Asks(r, p, s, 0, None)
           \/ \E n \in {1, 2} : Ends(r, "refused", n)
    BY <1>1, GetConnectionEffect DEF Shape
  <2>2. 0 \in Int /\ "refused" \in Phases \ {"asking"} /\ {1, 2} \subseteq Nat
    BY DEF Phases
  <2> QED
    BY <2>1, <2>2, RequestStep
<1>2. ASSUME NEW r \in Asking, NodeConnects(r) PROVE ClusterInv'
  <2>1. /\ key' = key /\ nodes' = nodes /\ Coherent(cached', nodes') /\ blacklisted' \subseteq blacklisted
        /\ phase' = [phase EXCEPT ![r] = "connected"] /\ about' = [about EXCEPT ![r] = <<>>]
        /\ asked' = [asked EXCEPT ![r] = None] /\ left' = [left EXCEPT ![r] = 0]
        /\ answers' = [answers EXCEPT ![r] = 1] /\ undisturbed' \subseteq undisturbed \ {r}
    <3>1. Ready /\ undisturbed' = (IF asked[r] \in blacklisted THEN {} ELSE undisturbed \ {r})
      BY <1>2, NodeConnectsEffect
    <3>2. key' = key /\ undisturbed' \subseteq undisturbed \ {r}
      BY <3>1 DEF Ready
    <3> QED
      BY <1>2, <3>2, NodeConnectsEffect
  <2>2. Asking' = Asking \ {r} /\ Asking \subseteq Requests
    BY <2>1 DEF Asking, Shape
  <2>3. Shape'
    BY <2>1, <2>2 DEF Shape, Coherent, None, Phases
  <2>4. Members(nodes)' = Members(nodes) /\ \A p : KeysMatching(p, nodes)' = KeysMatching(p, nodes')
    BY <2>1 DEF KeysMatching, Members
  <2>5. OneNodePerKey' /\ CacheCoherent'
    BY <2>1, <2>4 DEF OneNodePerKey, CacheCoherent, Coherent
  <2>6. \A q \in Asking' : asked'[q] = asked[q] /\ q \in Asking
    BY <2>1, <2>2 DEF Shape, Asking
  <2>7. AskedIsAlone => AskedIsAlone'
    BY <2>1, <2>4, <2>6 DEF AskedIsAlone
  <2> QED
    BY <2>3, <2>5, <2>7
<1>3. ASSUME NEW r \in Asking, NodeFails(r), ended PROVE ClusterInv'
  <2>1. /\ Ready /\ blacklisted' \subseteq 1..Len(key) /\ Coherent(cached', nodes')
        /\ Ends(r, "refused", 1) \/ Ends(r, "lost", answers[r])
    BY <1>3, NodeFailsEnded DEF Shape
  <2>2. r \in Requests /\ {"refused", "lost"} \subseteq Phases \ {"asking"} /\ 1 \in Nat /\ answers[r] \in Nat
    BY DEF Phases, Shape, Asking
  <2> QED
    BY <2>1, <2>2, RequestStep
<1>4. ASSUME NEW r \in Asking, NodeFails(r), ~ended PROVE ClusterInv'
  <2>1. /\ Ready /\ blacklisted' \subseteq 1..Len(key) /\ Coherent(cached', nodes')
        /\ \/ Asks(r, about[r][1], about[r][2], left[r], key[asked[r]])
           \/ Ends(r, "refused", 1)
    BY <1>4, NodeFailsEffect
  <2>2. /\ r \in Requests /\ about[r][1] \in Patterns /\ about[r][2] \in Selectors /\ left[r] \in Int
        /\ "refused" \in Phases \ {"asking"} /\ 1 \in Nat
    BY DEF Shape, Asking, Phases
  <2> QED
    BY <2>1, <2>2, RequestStep, Zenon
<1>5. ASSUME NEW k \in Keys, Add(k) PROVE ClusterInv'
  BY <1>5, AddEffect
<1>6. ASSUME (\E p \in Patterns : RemovePattern(p)) \/ End PROVE ClusterInv'
  <2>1. Ready /\ UNCHANGED <<health, phase, about, asked, left, answers, undisturbed>> /\ Coherent(cached', nodes')
    BY <1>6, RemoveEffect
  <2>2. /\ key' = key /\ nodes' \in Seq(1..Len(key)) /\ Members(nodes') \subseteq Members(nodes)
        /\ Members(nodes)' = Members(nodes') /\ Asking' = Asking /\ blacklisted' = blacklisted
    BY <2>1 DEF Ready, Members, Asking, health
  <2>3. Shape' /\ OneNodePerKey'
    BY <2>1, <2>2 DEF Shape, OneNodePerKey, Coherent
  <2>4. \A p : KeysMatching(p, nodes)' = KeysMatching(p, nodes')
    BY <2>1 DEF KeysMatching, Members, Ready
  <2>5. CacheCoherent' /\ (AskedIsAlone => AskedIsAlone')
    BY <2>1, <2>2, <2>4 DEF CacheCoherent, AskedIsAlone, Coherent
  <2> QED
    BY <2>3, <2>5
<1>7. ASSUME NEW i \in Pools, Restore(i) PROVE ClusterInv'
  BY <1>0, <1>7 DEF Restore, members
<1>8. CASE UNCHANGED vars
  BY <1>0, <1>8 DEF vars, members, health, request
<1>9. \A r : NodeConnects(r) \/ NodeFails(r) => r \in Asking
  BY DEF NodeConnects, NodeFails
<1> QED
  BY <1>1, <1>2, <1>3, <1>4, <1>5, <1>6, <1>7, <1>8, <1>9 DEF Next

\* Type correctness of what the proofs look at, and the invariant.
LEMMA ClusterInvariant == ASSUME "late" \notin Careless PROVE Spec => []ClusterInv
<1>1. ClusterInv /\ [Next]_vars => ClusterInv'
  BY ClusterStep
<1> QED
  BY <1>1, ClusterInit, PTL DEF Spec

\* A pattern's cached keys are always those of the nodes that match it now, in order, whichever
\* nodes failed or were removed between a request and its retries; unless the client adds a node
\* that matches a pattern it has already used.
THEOREM ClusterCacheCoherent == ASSUME "late" \notin Careless PROVE Spec => []CacheCoherent
<1>1. ClusterInv => CacheCoherent
  BY DEF ClusterInv
<1> QED
  BY <1>1, ClusterInvariant, PTL

-----------------------------------------------------------------------------
(***************************************************************************)
(* One answer.                                                             *)
(***************************************************************************)

\* A step answers a request that it ends, and no other one.
LEMMA OneAnswerStep ==
  ASSUME ClusterInv, OneAnswer, [Next]_vars, "none" \notin Careless
  PROVE  OneAnswer'
<1> USE DEF ClusterInv
<1>0. ASSUME phase' = phase, answers' = answers PROVE OneAnswer'
  BY <1>0 DEF OneAnswer
<1>1. ASSUME NEW r \in Requests, NEW how \in Phases, phase' = [phase EXCEPT ![r] = how], NEW n,
             answers' = [answers EXCEPT ![r] = n], n = IF how \in {"connected", "refused"} THEN 1 ELSE 0
      PROVE  OneAnswer'
  BY <1>1 DEF OneAnswer, Shape
<1>2. ASSUME NEW r \in Requests, phase[r] \in {"idle", "asking"}
      PROVE  answers[r] = 0 /\ answers = [answers EXCEPT ![r] = 0]
  BY <1>2 DEF OneAnswer, Shape
<1>3. ASSUME NEW r \in Requests, NEW p \in Patterns, NEW s \in Selectors, GetConnection(r, p, s) PROVE OneAnswer'
  <2>1. phase[r] = "idle" /\ (Asks(r, p, s, 0, None) \/ Ends(r, "refused", 1))
    BY <1>3, GetConnectionEffect
  <2> QED
    BY <1>1, <1>2, <2>1 DEF Asks, Ends, Phases
<1>4. ASSUME NEW r \in Asking, NodeConnects(r) PROVE OneAnswer'
  BY <1>1, <1>4, NodeConnectsEffect DEF Asking, Phases
<1>5. ASSUME NEW r \in Asking, NodeFails(r) PROVE OneAnswer'
  <2>1. r \in Requests /\ phase[r] = "asking"
    BY DEF Asking
  <2>2. \/ Asks(r, about[r][1], about[r][2], left[r], key[asked[r]])
        \/ Ends(r, "refused", 1) \/ Ends(r, "lost", answers[r])
    BY <1>5, NodeFailsEffect, NodeFailsEnded
  <2> QED
    BY <1>1, <1>2, <2>1, <2>2 DEF Asks, Ends, Phases
<1>6. \A r : NodeConnects(r) \/ NodeFails(r) => r \in Asking
  BY DEF NodeConnects, NodeFails
<1>7. ASSUME \/ \E k \in Keys : Add(k)
             \/ \E p \in Patterns : RemovePattern(p)
             \/ \E i \in Pools : Restore(i)
             \/ End \/ UNCHANGED vars
      PROVE  phase' = phase /\ answers' = answers
  BY <1>7 DEF Add, RemovePattern, Restore, End, vars, request
<1> QED
  BY <1>0, <1>3, <1>4, <1>5, <1>6, <1>7 DEF Next

\* No promise or callback of getConnection() is called twice, nor before its request is over: not
\* by a retry that follows a refusal, nor by an end() that overtakes them; unless the client asks by
\* callback for nodes where none matches.
THEOREM ClusterOneAnswer ==
  ASSUME "late" \notin Careless, "none" \notin Careless PROVE Spec => []OneAnswer
<1>1. Init => OneAnswer
  BY DEF Init, OneAnswer
<1>2. ClusterInv /\ OneAnswer /\ [Next]_vars => OneAnswer'
  BY OneAnswerStep
<1>3. Spec => []ClusterInv
  BY ClusterInvariant
<1> QED
  BY <1>1, <1>2, <1>3, PTL DEF Spec

-----------------------------------------------------------------------------
(***************************************************************************)
(* The node a request is sent to.                                          *)
(***************************************************************************)
Avoided(r) == IF phase[r] = "asking" THEN key[asked[r]] ELSE None

\* Each attempt asks the right node.
LEMMA AttemptsAreRight ==
  ASSUME ClusterInv, [Next]_vars, NEW r \in Requests, Attempts(r)
  PROVE  /\ Ready /\ RightNode(asked'[r], about'[r][1], nodes', about'[r][2], Avoided(r), blacklisted')
         /\ phase[r] \in {"idle", "asking"} /\ (phase[r] = "asking" => about'[r] = about[r])
<1> USE DEF ClusterInv
<1>0. ASSUME phase'[r] = phase[r], left'[r] = left[r] PROVE FALSE
  BY <1>0 DEF Attempts
<1>1. ASSUME NEW q \in Requests, q # r,
             \/ \E p, s, n, avoid : Asks(q, p, s, n, avoid)
             \/ \E how, n : Ends(q, how, n)
      PROVE  FALSE
  BY <1>0, <1>1 DEF Asks, Ends, Shape
<1>2. ASSUME NEW how \in Phases \ {"asking"}, phase' = [phase EXCEPT ![r] = how] PROVE FALSE
  BY <1>2 DEF Attempts, Shape
<1>3. ASSUME NEW p, NEW s, NEW n, Asks(r, p, s, n, Avoided(r))
      PROVE  RightNode(asked'[r], about'[r][1], nodes', about'[r][2], Avoided(r), blacklisted') /\ about'[r] = <<p, s>>
  <2>1. about'[r] = <<p, s>>
    BY <1>3 DEF Asks, Shape
  <2>2. PICK i \in Matching(p, nodes') :
          asked' = [asked EXCEPT ![r] = i] /\ RightNode(i, p, nodes', s, Avoided(r), blacklisted')
    BY <1>3 DEF Asks
  <2>3. asked'[r] = i
    BY <2>2 DEF Shape
  <2> QED
    BY <2>1, <2>2, <2>3
<1>4. ASSUME NEW q \in Requests, NEW p \in Patterns, NEW s \in Selectors, GetConnection(q, p, s)
      PROVE  /\ Ready /\ RightNode(asked'[r], about'[r][1], nodes', about'[r][2], Avoided(r), blacklisted')
             /\ phase[r] = "idle"
  <2>1. Ready /\ phase[q] = "idle" /\ (Asks(q, p, s, 0, None) \/ \E n \in {1, 2} : Ends(q, "refused", n))
    BY <1>4, GetConnectionEffect
  <2>2. q = r
    BY <1>1, <2>1
  <2>3. Asks(r, p, s, 0, Avoided(r))
    BY <1>2, <2>1, <2>2 DEF Ends, Avoided, Phases
  <2> QED
    BY <1>3, <2>1, <2>2, <2>3
<1>5. ASSUME NEW q \in Asking, NodeFails(q)
      PROVE  /\ Ready /\ RightNode(asked'[r], about'[r][1], nodes', about'[r][2], Avoided(r), blacklisted')
             /\ phase[r] = "asking" /\ about'[r] = about[r]
  <2>1. q \in Requests /\ phase[q] = "asking" /\ about[q] = <<about[q][1], about[q][2]>>
    BY DEF Asking, Shape
  <2>2. /\ Ready
        /\ \/ Asks(q, about[q][1], about[q][2], left[q], key[asked[q]])
           \/ Ends(q, "refused", 1) \/ Ends(q, "lost", answers[q])
    BY <1>5, NodeFailsEffect, NodeFailsEnded
  <2>3. q = r
    BY <1>1, <2>1, <2>2
  <2>4. Asks(r, about[r][1], about[r][2], left[r], Avoided(r))
    BY <1>2, <2>1, <2>2, <2>3 DEF Ends, Avoided, Phases
  <2> QED
    BY <1>3, <2>1, <2>2, <2>3, <2>4
<1>6. ASSUME NEW q \in Asking, NodeConnects(q) PROVE FALSE
  <2>1. q \in Requests /\ phase' = [phase EXCEPT ![q] = "connected"] /\ left' = [left EXCEPT ![q] = 0]
    BY <1>6, NodeConnectsEffect DEF Asking
  <2> QED
    BY <1>0, <1>2, <2>1 DEF Phases, Shape
<1>7. \A q : NodeConnects(q) \/ NodeFails(q) => q \in Asking
  BY DEF NodeConnects, NodeFails
<1>8. ASSUME \/ \E k \in Keys : Add(k)
             \/ \E p \in Patterns : RemovePattern(p)
             \/ \E i \in Pools : Restore(i)
             \/ End \/ UNCHANGED vars
      PROVE  FALSE
  BY <1>0, <1>8 DEF Add, RemovePattern, Restore, End, vars, request
<1> QED
  BY <1>4, <1>5, <1>6, <1>7, <1>8 DEF Next

\* What a request is to avoid is the node that has just refused it, and no other one.
LEMMA AvoidedNode ==
  ASSUME ClusterInv, Ready, "again" \notin Careless, NEW r \in Requests, NEW p
  PROVE  /\ Candidates(p) = Matching(p, nodes')
         /\ \A i \in Matching(p, nodes') : key[i] # Avoided(r) <=> i \notin JustRefused(r)
<1>1. Candidates(p) = Matching(p, nodes') /\ Members(nodes') \subseteq Members(nodes) /\ Matching(p, nodes') \subseteq Members(nodes')
  BY DEF Candidates, Matching, Ready
<1>2. CASE phase[r] = "asking"
  BY <1>1, <1>2 DEF Avoided, JustRefused, ClusterInv, AskedIsAlone, Asking
<1>3. CASE phase[r] # "asking"
  <2>1. Members(nodes') \subseteq 1..Len(key)
    BY MembersIn DEF Ready
  <2>2. \A i \in 1..Len(key) : key[i] \in Keys
    BY DEF ClusterInv, Shape
  <2> QED
    BY <1>1, <1>3, <2>1, <2>2, ClusterAssumption DEF Avoided, JustRefused, None
<1> QED
  BY <1>1, <1>2, <1>3

\* The right node is a healthy one, and in turn another one, if there is such a node.
LEMMA RightNodeStep ==
  ASSUME ClusterInv, [Next]_vars, "again" \notin Careless, NEW r \in Requests, Attempts(r)
  PROVE  /\ about'[r][2] # "RANDOM" =>
              LET healthy == Candidates(about'[r][1]) \ (blacklisted' \cup JustRefused(r))
              IN healthy = {} \/ asked'[r] \in healthy
         /\ r \in Asking /\ about[r][2] = "RR" /\ Candidates(about[r][1]) # JustRefused(r) =>
              asked'[r] \notin JustRefused(r)
<1> DEFINE p == about'[r][1]
           M == Matching(p, nodes')
<1>1. /\ Ready /\ RightNode(asked'[r], p, nodes', about'[r][2], Avoided(r), blacklisted')
      /\ phase[r] = "asking" => about'[r] = about[r]
  BY AttemptsAreRight
<1>2. Candidates(p) = M /\ \A i \in M : key[i] # Avoided(r) <=> i \notin JustRefused(r)
  BY <1>1, AvoidedNode
<1>3. /\ asked'[r] \in M
      /\ about'[r][2] # "RANDOM" /\ (\E j \in M : j \notin blacklisted' /\ key[j] # Avoided(r)) =>
           asked'[r] \notin blacklisted' /\ key[asked'[r]] # Avoided(r)
      /\ about'[r][2] = "RR" /\ (\E j \in M : key[j] # Avoided(r)) => key[asked'[r]] # Avoided(r)
  BY <1>1 DEF RightNode
<1> HIDE DEF M
<1>4. about'[r][2] # "RANDOM" =>
        LET healthy == Candidates(p) \ (blacklisted' \cup JustRefused(r)) IN healthy = {} \/ asked'[r] \in healthy
  BY <1>2, <1>3
<1>5. ASSUME r \in Asking, about[r][2] = "RR", Candidates(about[r][1]) # JustRefused(r)
      PROVE  asked'[r] \notin JustRefused(r)
  <2>1. about'[r] = about[r] /\ JustRefused(r) = {asked[r]}
    BY <1>1, <1>5 DEF Asking, JustRefused
  <2>2. M # {asked[r]} /\ asked'[r] \in M
    BY <1>2, <1>3, <1>5, <2>1
  <2>3. asked'[r] = asked[r] => \E j \in M : j \notin JustRefused(r)
    BY <2>1, <2>2
  <2> QED
    BY <1>2, <1>3, <1>5, <2>1, <2>2, <2>3
<1> QED
  BY <1>4, <1>5

-----------------------------------------------------------------------------
(***************************************************************************)
(* Retries.  A request has as many left as there are healthy nodes it has  *)
(* not asked: each refusal costs one of both, since the node that refuses  *)
(* is blacklisted; nodes that go and other requests' refusals only leave   *)
(* fewer nodes to ask.                                                     *)
(***************************************************************************)
Fit(r) == Matching(about[r][1], nodes) \ blacklisted

RetriesSuffice ==
  \A r \in undisturbed : about[r][2] # "RANDOM" =>
     Fit(r) = {} \/ (left[r] \in Nat /\ Cardinality(Fit(r) \ {asked[r]}) <= left[r])

\* Of a set that is no larger than n + 1, at most n remain without one of its elements.
LEMMA OneFewer ==
  ASSUME NEW S, IsFiniteSet(S), NEW n \in Int, Cardinality(S) <= n, NEW x \in S
  PROVE  n - 1 \in Nat /\ \A T : T \subseteq S \ {x} => Cardinality(T) <= n - 1
<1>1. Cardinality(S) \in Nat /\ IsFiniteSet(S \ {x}) /\ Cardinality(S \ {x}) = Cardinality(S) - 1
  BY FS_CardinalityType, FS_RemoveElement
<1>2. Cardinality(S) # 0
  BY FS_EmptySet
<1>3. ASSUME NEW T, T \subseteq S \ {x} PROVE Cardinality(T) <= n - 1
  <2>1. Cardinality(T) \in Nat /\ Cardinality(T) <= Cardinality(S \ {x})
    BY <1>1, <1>3, FS_Subset, FS_CardinalityType
  <2> QED
    BY <1>1, <2>1
<1> QED
  BY <1>1, <1>2, <1>3

\* The nodes fit for a request are finitely many.
LEMMA FitFinite ==
  ASSUME Shape, NEW r PROVE IsFiniteSet(Fit(r)) /\ \A T : T \subseteq Fit(r) => IsFiniteSet(T) /\ Cardinality(T) <= Cardinality(Fit(r))
<1>1. IsFiniteSet(Matching(about[r][1], nodes))
  BY KeysFound DEF Shape
<1>2. IsFiniteSet(Fit(r))
  BY <1>1, FS_Subset DEF Fit
<1> QED
  BY <1>2, FS_Subset

\* The nodes left to a request are fewer after any step that keeps what it is about.
LEMMA FewerFit ==
  ASSUME Shape, key' = key, Members(nodes') \subseteq Members(nodes), blacklisted \subseteq blacklisted',
         NEW r, about'[r] = about[r]
  PROVE  Fit(r)' \subseteq Fit(r) /\ Fit(r)' = Matching(about[r][1], nodes') \ blacklisted'
BY DEF Fit, Matching, Members

\* What a request keeps while nothing of its own changes.
LEMMA RetriesKept ==
  ASSUME ClusterInv, RetriesSuffice, key' = key, Members(nodes') \subseteq Members(nodes), blacklisted \subseteq blacklisted',
         NEW r \in undisturbed, about'[r] = about[r], left'[r] = left[r], asked'[r] = asked[r], about[r][2] # "RANDOM"
  PROVE  Fit(r)' = {} \/ (left'[r] \in Nat /\ Cardinality(Fit(r)' \ {asked'[r]}) <= left'[r])
<1>1. Fit(r)' \subseteq Fit(r)
  BY FewerFit DEF ClusterInv
<1>2. CASE Fit(r) = {}
  BY <1>1, <1>2
<1>3. CASE left[r] \in Nat /\ Cardinality(Fit(r) \ {asked[r]}) <= left[r]
  <2> DEFINE A == Fit(r) \ {asked[r]}
             B == Fit(r)' \ {asked[r]}
  <2>1. IsFiniteSet(A) /\ B \subseteq A
    BY <1>1, FitFinite DEF ClusterInv
  <2>2. Cardinality(B) <= Cardinality(A) /\ Cardinality(B) \in Nat /\ Cardinality(A) \in Nat
    BY <2>1, FS_Subset, FS_CardinalityType
  <2> HIDE DEF A, B
  <2>3. Cardinality(A) <= left[r]
    BY <1>3 DEF A
  <2>4. Cardinality(B) <= left[r]
    BY <1>3, <2>2, <2>3
  <2>5. B = Fit(r)' \ {asked'[r]}
    BY DEF B
  <2> QED
    BY <1>3, <2>4, <2>5
<1> QED
  BY <1>2, <1>3 DEF RetriesSuffice

\* A first attempt has one retry for each other node that matches.
LEMMA RetriesFirst ==
  ASSUME ClusterInv, Ready, NEW r \in Requests, NEW p \in Patterns, NEW s, NEW n, Asks(r, p, s, n, None)
  PROVE  Fit(r)' = {} \/ (left'[r] \in Nat /\ Cardinality(Fit(r)' \ {asked'[r]}) <= left'[r])
<1> DEFINE M == Matching(p, nodes')
           L == Len(KeysMatching(p, nodes'))
<1>1. L \in Nat /\ IsFiniteSet(M) /\ Cardinality(M) <= L
  BY KeysFound DEF Ready, Shape
<1>2. left'[r] = L - 1 /\ about'[r][1] = p
  BY DEF Asks, ClusterInv, Shape
<1>3. asked'[r] \in M
  BY DEF Asks, ClusterInv, Shape
<1>4. Fit(r)' \subseteq M
  BY <1>2 DEF Fit, Matching, Members, Ready
<1> HIDE DEF M, L
<1>5. L - 1 \in Nat /\ \A T : T \subseteq M \ {asked'[r]} => Cardinality(T) <= L - 1
  BY <1>1, <1>3, OneFewer
<1> QED
  BY <1>2, <1>4, <1>5

\* A refusal costs a retry, and a node.
LEMMA RetriesAgain ==
  ASSUME ClusterInv, RetriesSuffice, "again" \notin Careless, NEW r \in undisturbed, NodeFails(r), ~ended,
         Asks(r, about[r][1], about[r][2], left[r], key[asked[r]]), about[r][2] # "RANDOM"
  PROVE  Fit(r)' = {} \/ (left'[r] \in Nat /\ Cardinality(Fit(r)' \ {asked'[r]}) <= left'[r])
<1>0. r \in Asking /\ r \in Requests /\ phase[r] = "asking" /\ about[r] = <<about[r][1], about[r][2]>>
      /\ asked[r] \in 1..Len(key) /\ key[asked[r]] \in Keys /\ key[asked[r]] # None
  <2>1. r \in Asking /\ r \in Requests /\ phase[r] = "asking" /\ about[r] = <<about[r][1], about[r][2]>> /\ asked[r] \in 1..Len(key)
    BY DEF ClusterInv, Shape, Asking
  <2> QED
    BY <2>1, ClusterAssumption DEF None, ClusterInv, Shape
<1>1. /\ Ready /\ blacklisted \subseteq blacklisted'
      /\ \A i \in Members(nodes) : key[i] = key[asked[r]] => i \in blacklisted'
  BY <1>0, NodeFailsEffect
<1>2. /\ about'[r] = about[r] /\ left'[r] = left[r] - 1 /\ left[r] \in Int
  BY <1>0 DEF Asks, ClusterInv, Shape
<1>3. PICK i \in Matching(about[r][1], nodes') :
        asked' = [asked EXCEPT ![r] = i] /\ RightNode(i, about[r][1], nodes', about[r][2], key[asked[r]], blacklisted')
  BY DEF Asks
<1>4. asked'[r] = i
  BY <1>0, <1>3 DEF ClusterInv, Shape
<1>5. Fit(r)' \subseteq Fit(r) /\ Fit(r)' = Matching(about[r][1], nodes') \ blacklisted'
  BY <1>1, <1>2, FewerFit DEF Ready
<1>6. asked[r] \notin Fit(r)' /\ \A j \in Fit(r)' : key[j] # key[asked[r]]
  <2>1. Fit(r)' \subseteq Members(nodes)
    BY <1>1, <1>5 DEF Matching, Ready
  <2> QED
    BY <1>1, <1>5, <2>1
<1>7. CASE Fit(r)' = {}
  BY <1>7
<1>8. CASE Fit(r)' # {}
  <2> DEFINE A == Fit(r) \ {asked[r]}
             B == Fit(r)'
  <2>1. i \in B
    BY <1>3, <1>5, <1>6, <1>8 DEF RightNode
  <2>2. B \subseteq A /\ i \in A
    BY <1>5, <1>6, <2>1
  <2>3. IsFiniteSet(A) /\ Cardinality(A) <= left[r]
    BY <1>5, <2>1, FitFinite DEF ClusterInv, RetriesSuffice
  <2> HIDE DEF A, B
  <2>4. left[r] - 1 \in Nat /\ \A T : T \subseteq A \ {i} => Cardinality(T) <= left[r] - 1
    BY <1>2, <2>2, <2>3, OneFewer
  <2>5. B \ {i} \subseteq A \ {i}
    BY <2>2
  <2> QED
    BY <1>2, <1>4, <2>4, <2>5 DEF B
<1> QED
  BY <1>7, <1>8

\* Every step leaves each request that nothing disturbed with retries enough.
LEMMA RetriesStep ==
  ASSUME ClusterInv, RetriesSuffice, [Next]_vars, "again" \notin Careless
  PROVE  RetriesSuffice'
<1> DEFINE Enough(r) == Fit(r) = {} \/ (left[r] \in Nat /\ Cardinality(Fit(r) \ {asked[r]}) <= left[r])
<1> SUFFICES ASSUME NEW r \in undisturbed', about'[r][2] # "RANDOM" PROVE Enough(r)'
  BY DEF RetriesSuffice
<1> HIDE DEF Enough
<1>0. ASSUME key' = key, Members(nodes') \subseteq Members(nodes), blacklisted \subseteq blacklisted',
             r \in undisturbed, about'[r] = about[r], left'[r] = left[r], asked'[r] = asked[r]
      PROVE  Enough(r)'
  BY <1>0, RetriesKept DEF Enough
<1>1. ASSUME NEW q \in Requests, q # r,
             \/ \E p, s, n, avoid : Asks(q, p, s, n, avoid)
             \/ \E how, n : Ends(q, how, n)
      PROVE  r \in undisturbed /\ about'[r] = about[r] /\ left'[r] = left[r] /\ asked'[r] = asked[r]
  <2>1. r \in undisturbed
    BY <1>1 DEF Asks, Ends
  <2>2. r \in Requests
    BY <2>1 DEF ClusterInv, Shape, Asking
  <2> QED
    BY <1>1, <2>1, <2>2 DEF Asks, Ends, ClusterInv, Shape
<1>2. \A n, how : ~Ends(r, how, n)
  BY DEF Ends
<1>3. ASSUME NEW q \in Requests, NEW p \in Patterns, NEW s \in Selectors, GetConnection(q, p, s) PROVE Enough(r)'
  <2>1. /\ Ready /\ nodes' = nodes /\ blacklisted' = blacklisted
        /\ Asks(q, p, s, 0, None) \/ \E n \in {1, 2} : Ends(q, "refused", n)
    BY <1>3, GetConnectionEffect
  <2>2. CASE q # r
    BY <1>0, <1>1, <2>1, <2>2 DEF Ready
  <2>3. CASE q = r
    BY <1>2, <2>1, <2>3, RetriesFirst DEF Enough
  <2> QED
    BY <2>2, <2>3
<1>4. ASSUME NEW q \in Asking, NodeFails(q) PROVE Enough(r)'
  <2>1. q \in Requests /\ about[q] = <<about[q][1], about[q][2]>> /\ key[asked[q]] # None
    <3>1. q \in Requests /\ about[q] = <<about[q][1], about[q][2]>> /\ asked[q] \in 1..Len(key)
      BY DEF ClusterInv, Shape, Asking
    <3> QED
      BY <3>1, ClusterAssumption DEF None, ClusterInv, Shape
  <2>2. /\ Ready /\ blacklisted \subseteq blacklisted'
        /\ \/ Asks(q, about[q][1], about[q][2], left[q], key[asked[q]]) /\ ~ended
           \/ Ends(q, "refused", 1) \/ Ends(q, "lost", answers[q])
    BY <1>4, NodeFailsEffect, NodeFailsEnded
  <2>3. CASE q # r
    BY <1>0, <1>1, <2>1, <2>2, <2>3 DEF Ready
  <2>4. CASE q = r
    <3>1. Asks(r, about[r][1], about[r][2], left[r], key[asked[r]]) /\ ~ended
      BY <1>2, <2>2, <2>4
    <3>2. r \in undisturbed
      BY <2>1, <2>4, <3>1 DEF Asks
    <3>3. about'[r] = about[r]
      BY <2>1, <2>4, <3>1 DEF Asks, ClusterInv, Shape
    <3> QED
      BY <1>4, <2>4, <3>1, <3>2, <3>3, RetriesAgain DEF Enough
  <2> QED
    BY <2>3, <2>4
<1>5. ASSUME NEW q \in Asking, NodeConnects(q) PROVE Enough(r)'
  <2>1. /\ Ready /\ nodes' = nodes /\ blacklisted' = blacklisted \ {asked[q]}
        /\ about' = [about EXCEPT ![q] = <<>>] /\ asked' = [asked EXCEPT ![q] = None] /\ left' = [left EXCEPT ![q] = 0]
        /\ undisturbed' = (IF asked[q] \in blacklisted THEN {} ELSE undisturbed \ {q})
    BY <1>5, NodeConnectsEffect
  <2>2. asked[q] \notin blacklisted /\ r \in undisturbed /\ r # q
    BY <2>1
  <2>3. r \in Requests /\ blacklisted' = blacklisted
    BY <2>1, <2>2 DEF ClusterInv, Shape, Asking
  <2> QED
    BY <1>0, <2>1, <2>2, <2>3 DEF Ready, ClusterInv, Shape
<1>6. \A q : NodeConnects(q) \/ NodeFails(q) => q \in Asking
  BY DEF NodeConnects, NodeFails
<1>7. ASSUME (\E p \in Patterns : RemovePattern(p)) \/ End PROVE Enough(r)'
  BY <1>0, <1>7, RemoveEffect DEF Ready, health
<1>8. ASSUME (\E k \in Keys : Add(k)) \/ (\E i \in Pools : Restore(i)) PROVE Enough(r)'
  BY <1>8 DEF Add, Restore
<1>9. CASE UNCHANGED vars
  BY <1>0, <1>9 DEF vars, members, health, request
<1> QED
  BY <1>3, <1>4, <1>5, <1>6, <1>7, <1>8, <1>9 DEF Next

\* A request that is refused has asked every healthy node that matches.
LEMMA RefusedStep ==
  ASSUME ClusterInv, RetriesSuffice, [Next]_vars, "again" \notin Careless,
         NEW r \in undisturbed, phase'[r] = "refused", CanRetry, ~ended, about[r][2] # "RANDOM"
  PROVE  Candidates(about[r][1]) \subseteq blacklisted'
<1>0. r \in Requests /\ phase[r] = "asking" /\ r \in Asking
  BY DEF ClusterInv, Shape, Asking
<1>1. ASSUME phase'[r] = phase[r] PROVE FALSE
  BY <1>0, <1>1
<1>2. ASSUME NEW q \in Requests, NEW how, phase' = [phase EXCEPT ![q] = how] PROVE q = r
  BY <1>0, <1>1, <1>2 DEF ClusterInv, Shape
<1>3. NodeFails(r)
  <2>1. ASSUME NEW q \in Requests, NEW p \in Patterns, NEW s \in Selectors, GetConnection(q, p, s) PROVE FALSE
    <3>1. phase[q] = "idle" /\ (Asks(q, p, s, 0, None) \/ \E n \in {1, 2} : Ends(q, "refused", n))
      BY <2>1, GetConnectionEffect
    <3>2. q = r
      BY <1>2, <3>1 DEF Asks, Ends
    <3> QED
      BY <1>0, <3>1, <3>2
  <2>2. ASSUME NEW q \in Asking, NodeConnects(q) PROVE FALSE
    <3>1. q \in Requests /\ phase' = [phase EXCEPT ![q] = "connected"]
      BY <2>2, NodeConnectsEffect DEF Asking
    <3> QED
      BY <1>0, <1>2, <3>1 DEF ClusterInv, Shape
  <2>3. ASSUME NEW q \in Asking, NodeFails(q) PROVE q = r
    <3>1. q \in Requests
      BY DEF Asking
    <3>2. \/ Asks(q, about[q][1], about[q][2], left[q], key[asked[q]])
          \/ Ends(q, "refused", 1) \/ Ends(q, "lost", answers[q])
      BY <2>3, NodeFailsEffect, NodeFailsEnded
    <3> QED
      BY <1>2, <3>1, <3>2 DEF Asks, Ends
  <2>4. ASSUME \/ \E k \in Keys : Add(k)
               \/ \E p \in Patterns : RemovePattern(p)
               \/ \E i \in Pools : Restore(i)
               \/ End \/ UNCHANGED vars
        PROVE  FALSE
    BY <1>1, <2>4 DEF Add, RemovePattern, Restore, End, vars, request
  <2>5. \A q : NodeConnects(q) \/ NodeFails(q) => q \in Asking
    BY DEF NodeConnects, NodeFails
  <2> QED
    BY <2>1, <2>2, <2>3, <2>4, <2>5 DEF Next
<1>4. /\ Ready /\ blacklisted \subseteq blacklisted'
      /\ \A i \in Members(nodes) : key[i] = key[asked[r]] => i \in blacklisted'
      /\ \/ ~GivesUp(r) /\ Asks(r, about[r][1], about[r][2], left[r], key[asked[r]])
         \/ (GivesUp(r) \/ KeysMatching(about[r][1], nodes') = <<>>) /\ Ends(r, "refused", 1)
  BY <1>0, <1>3, NodeFailsEffect
<1>5. GivesUp(r) \/ KeysMatching(about[r][1], nodes') = <<>>
  BY <1>0, <1>4 DEF Asks, ClusterInv, Shape
<1>6. Candidates(about[r][1]) = Matching(about[r][1], nodes')
  BY DEF Candidates, Matching
<1>7. CASE KeysMatching(about[r][1], nodes') = <<>>
  <2>1. \A i \in Matching(about[r][1], nodes') : \E j \in 1..Len(KeysMatching(about[r][1], nodes')) : TRUE
    BY <1>4, KeysFound DEF Ready, Shape
  <2>2. Len(KeysMatching(about[r][1], nodes')) = 0
    BY <1>7
  <2> QED
    BY <1>6, <2>1, <2>2
<1>8. CASE GivesUp(r)
  <2>1. left[r] < 0
    BY <1>8 DEF GivesUp
  <2>2. Fit(r) = {} \/ left[r] \in Nat
    BY Zenon DEF RetriesSuffice
  <2>3. Matching(about[r][1], nodes') \subseteq Matching(about[r][1], nodes)
    BY <1>4 DEF Matching, Ready
  <2> QED
    BY <1>4, <1>6, <2>1, <2>2, <2>3 DEF Fit
<1> QED
  BY <1>5, <1>7, <1>8

\* The node a request is sent to, at first and at each retry, is a healthy one that has not just
\* refused it, if there is one; a request is refused only when each node that matches has failed,
\* however requests, failures and removals overlap; unless the client adds a node that matches a
\* pattern it has used, or a key whose former pool is being asked.
THEOREM ClusterRightNodeAsked ==
  ASSUME "late" \notin Careless, "again" \notin Careless PROVE Spec => RightNodeAsked
<1> DEFINE Healthy ==
             \A r \in Requests : Attempts(r) /\ about'[r][2] # "RANDOM" =>
               LET healthy == Candidates(about'[r][1]) \ (blacklisted' \cup JustRefused(r))
               IN healthy = {} \/ asked'[r] \in healthy
           Elsewhere ==
             \A r \in Asking : Attempts(r) /\ about[r][2] = "RR" /\ Candidates(about[r][1]) # JustRefused(r) =>
               asked'[r] \notin JustRefused(r)
           ByAll ==
             \A r \in undisturbed : phase'[r] = "refused" /\ CanRetry /\ ~ended /\ about[r][2] # "RANDOM" =>
               Candidates(about[r][1]) \subseteq blacklisted'
<1>1. Spec => []ClusterInv
  BY ClusterInvariant
<1>2. Init => RetriesSuffice
  BY DEF Init, RetriesSuffice
<1>3. ClusterInv /\ RetriesSuffice /\ [Next]_vars => RetriesSuffice'
  BY RetriesStep
<1>4. ClusterInv /\ [Next]_vars => [Healthy /\ Elsewhere]_vars
  <2> SUFFICES ASSUME ClusterInv, [Next]_vars PROVE Healthy /\ Elsewhere
    OBVIOUS
  <2>1. Asking \subseteq Requests
    BY DEF Asking
  <2> QED
    BY <2>1, RightNodeStep
<1>5. ClusterInv /\ RetriesSuffice /\ [Next]_vars => [ByAll]_vars
  BY RefusedStep
<1>6. Spec => [][Healthy]_vars /\ [][Elsewhere]_vars /\ [][ByAll]_vars
  <2> HIDE DEF Healthy, Elsewhere, ByAll
  <2> QED
    BY <1>1, <1>2, <1>3, <1>4, <1>5, PTL DEF Spec
<1> QED
  BY <1>6 DEF RightNodeAsked, AsksHealthyFirst, RetriesElsewhere, RefusedOnlyByAll
=============================================================================

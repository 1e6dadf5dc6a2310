------------------------- MODULE CommandQueueProofs -------------------------
(***************************************************************************)
(* Proofs about CommandQueue: who gets an answer, the order in which       *)
(* commands are sent, and that none is left behind, for any number of      *)
(* calls of any kinds, with pipelining and without.                        *)
(*                                                                         *)
(* The queues hold increasing sequences of numbers, so that each is given  *)
(* by the set of its elements: the invariants are about these sets.        *)
(***************************************************************************)
EXTENDS CommandQueue, SequenceLemmas, FiniteSetTheorems

-----------------------------------------------------------------------------
(***************************************************************************)
(* Queues in the order of the client's calls.                              *)
(***************************************************************************)
Increasing(q) == \A i, j \in DOMAIN q : i < j => q[i] < q[j]

\* Commands are numbers.
LEMMA CmdsNumbers ==
  /\ Cmds \subseteq Int /\ NoCmd \notin Cmds /\ Setup \in Cmds /\ Quit \in Cmds /\ Setup # Quit
  /\ \A c \in Calls : c \in Cmds /\ c # Setup /\ c # Quit /\ c < Quit
  /\ \A c \in Cmds : c = Setup \/ c = Quit \/ c \in Calls
  /\ \A c \in Cmds : c <= Quit
BY CommandQueueAssumption DEF Cmds, NoCmd, Setup, Quit, Calls

\* The elements of a queue, and its head.
LEMMA Elements ==
  ASSUME NEW S
  PROVE  /\ Range(<<>>) = {}
         /\ \A s \in Seq(S) : /\ Range(s) \subseteq S
                              /\ s # <<>> => Head(s) \in Range(s) /\ s[Len(s)] \in Range(s) /\ Head(s) = s[1]
                              /\ Range(s) = {} => s = <<>>
<1>1. Range(<<>>) = {}
  BY DEF Range
<1>2. ASSUME NEW s \in Seq(S)
      PROVE  /\ Range(s) \subseteq S
             /\ s # <<>> => Head(s) \in Range(s) /\ s[Len(s)] \in Range(s) /\ Head(s) = s[1]
             /\ Range(s) = {} => s = <<>>
  <2>1. Len(s) \in Nat /\ DOMAIN s = 1..Len(s)
    OBVIOUS
  <2>2. s # <<>> => Head(s) = s[1] /\ 1 \in DOMAIN s /\ Len(s) \in DOMAIN s
    OBVIOUS
  <2>3. Range(s) \subseteq S
    BY DEF Range
  <2>4. \A i \in DOMAIN s : s[i] \in Range(s)
    BY DEF Range
  <2> QED
    BY <2>2, <2>3, <2>4
<1> QED
  BY <1>1, <1>2

\* The head of an increasing queue is the least, its last element the greatest.
LEMMA Ends ==
  ASSUME NEW S, S \subseteq Int
  PROVE  \A s \in Seq(S) : Increasing(s) => \A c \in Range(s) : Head(s) <= c /\ c <= s[Len(s)]
<1> SUFFICES ASSUME NEW s \in Seq(S), Increasing(s), NEW i \in DOMAIN s PROVE Head(s) <= s[i] /\ s[i] <= s[Len(s)]
  BY DEF Range
<1>1. Len(s) \in Nat /\ DOMAIN s = 1..Len(s) /\ 1 \in DOMAIN s /\ Len(s) \in DOMAIN s /\ Head(s) = s[1]
  OBVIOUS
<1>0. \A j \in DOMAIN s : s[j] \in S
  OBVIOUS
<1>2. s[1] \in Int /\ s[i] \in Int /\ s[Len(s)] \in Int
  BY <1>0, <1>1
<1>3. i = 1 \/ 1 < i
  BY <1>1
<1>4. i = Len(s) \/ i < Len(s)
  BY <1>1
<1>5. s[1] <= s[i]
  BY <1>1, <1>2, <1>3 DEF Increasing
<1>6. s[i] <= s[Len(s)]
  BY <1>1, <1>2, <1>4 DEF Increasing
<1> QED
  BY <1>1, <1>5, <1>6

\* A queue of one command, and of none.
LEMMA Single ==
  ASSUME NEW S, S \subseteq Int
  PROVE  /\ Increasing(<<>>) /\ <<>> \in Seq(S)
         /\ \A c \in S : <<c>> \in Seq(S) /\ Increasing(<<c>>) /\ Range(<<c>>) = {c} /\ <<c>> # <<>> /\ Head(<<c>>) = c
BY DEF Range, Increasing

\* A command at the end.
LEMMA Appended ==
  ASSUME NEW S, S \subseteq Int
  PROVE  \A s \in Seq(S), c \in S : \A t : t = Append(s, c) =>
           /\ t \in Seq(S) /\ t # <<>> /\ Range(t) = Range(s) \cup {c} /\ t[Len(t)] = c
           /\ (s = <<>> => Head(t) = c) /\ (s # <<>> => Head(t) = Head(s))
           /\ Increasing(s) /\ (\A d \in Range(s) : d < c) => Increasing(t)
<1> SUFFICES ASSUME NEW s \in Seq(S), NEW c \in S
             PROVE  LET t == Append(s, c) IN
                    /\ t \in Seq(S) /\ t # <<>> /\ Range(t) = Range(s) \cup {c} /\ t[Len(t)] = c
                    /\ (s = <<>> => Head(t) = c) /\ (s # <<>> => Head(t) = Head(s))
                    /\ Increasing(s) /\ (\A d \in Range(s) : d < c) => Increasing(t)
  OBVIOUS
<1> DEFINE t == Append(s, c)
<1>1. /\ t \in Seq(S) /\ Len(t) = Len(s) + 1 /\ t[Len(s) + 1] = c /\ \A i \in 1..Len(s) : t[i] = s[i]
      /\ DOMAIN t = 1..Len(s) + 1 /\ DOMAIN s = 1..Len(s) /\ Len(s) \in Nat
  OBVIOUS
<1> HIDE DEF t
<1>2. Range(t) = Range(s) \cup {c}
  <2>1. 1..Len(s) + 1 = (1..Len(s)) \cup {Len(s) + 1}
    BY <1>1
  <2> QED
    BY <1>1, <2>1 DEF Range
<1>3. t # <<>> /\ t[Len(t)] = c /\ (s = <<>> => Head(t) = c) /\ (s # <<>> => Head(t) = Head(s))
  <2>1. t # <<>> /\ Head(t) = t[1]
    BY <1>1
  <2>2. CASE s = <<>>
    BY <1>1, <2>1, <2>2
  <2>3. CASE s # <<>>
    <3>1. 1 \in 1..Len(s) /\ Head(s) = s[1]
      BY <1>1, <2>3
    <3> QED
      BY <1>1, <2>1, <2>3, <3>1
  <2> QED
    BY <1>1, <2>1, <2>2, <2>3
<1>4. ASSUME Increasing(s), \A d \in Range(s) : d < c PROVE Increasing(t)
  <2>1. SUFFICES ASSUME NEW i \in 1..Len(s) + 1, NEW j \in 1..Len(s) + 1, i < j PROVE t[i] < t[j]
    BY <1>1 DEF Increasing
  <2>2. i \in 1..Len(s) /\ t[i] = s[i] /\ s[i] \in Range(s)
    BY <1>1, <2>1 DEF Range
  <2>3. CASE j \in 1..Len(s)
    BY <1>1, <1>4, <2>1, <2>2, <2>3 DEF Increasing
  <2>4. CASE j = Len(s) + 1
    BY <1>1, <1>4, <2>2, <2>4
  <2> QED
    BY <1>1, <2>3, <2>4
<1> QED
  BY <1>1, <1>2, <1>3, <1>4 DEF t

\* A part of a queue, from one index to another.
LEMMA Part ==
  ASSUME NEW S, S \subseteq Int, NEW s \in Seq(S), NEW m \in 1..Len(s) + 1, NEW n \in 0..Len(s),
         NEW t, t = SubSeq(s, m, n)
  PROVE  /\ t \in Seq(S) /\ Range(t) = {s[i] : i \in m..n}
         /\ m <= n => t # <<>> /\ Head(t) = s[m] /\ t[Len(t)] = s[n]
         /\ m > n => t = <<>>
         /\ Increasing(s) => Increasing(t)
<1> DEFINE k == IF m <= n THEN n - m + 1 ELSE 0
<1>1. /\ t \in Seq(S) /\ k \in Nat /\ Len(t) = k /\ DOMAIN t = 1..k
      /\ Len(s) \in Nat /\ DOMAIN s = 1..Len(s)
  OBVIOUS
<1>2. \A i \in 1..k : t[i] = s[m + i - 1] /\ m + i - 1 \in m..n /\ m + i - 1 \in 1..Len(s)
  OBVIOUS
<1>3. \A j \in m..n : j - m + 1 \in 1..k /\ m + (j - m + 1) - 1 = j
  OBVIOUS
<1>4. m <= n => k = n - m + 1 /\ m + 1 - 1 = m /\ m + k - 1 = n /\ 1 \in 1..k /\ k \in 1..k
  OBVIOUS
<1>5. m > n => t = <<>>
  OBVIOUS
<1> HIDE DEF k
<1>6. Range(t) = {s[i] : i \in m..n}
  <2>1. \A i \in 1..k : t[i] \in {s[j] : j \in m..n}
    BY <1>2
  <2>2. \A j \in m..n : \E i \in 1..k : t[i] = s[j]
    BY <1>2, <1>3
  <2> QED
    BY ONLY <1>1, <2>1, <2>2 DEF Range
<1>7. m <= n => t # <<>> /\ Head(t) = s[m] /\ t[Len(t)] = s[n]
  <2>1. SUFFICES ASSUME m <= n PROVE t # <<>> /\ Head(t) = s[m] /\ t[Len(t)] = s[n]
    OBVIOUS
  <2>2. t[1] = s[m] /\ t[k] = s[n]
    BY <1>2, <1>4, <2>1
  <2>3. t # <<>> /\ Head(t) = t[1]
    BY <1>1, <1>4, <2>1
  <2> QED
    BY <1>1, <2>2, <2>3
<1>8. ASSUME Increasing(s) PROVE Increasing(t)
  <2>1. SUFFICES ASSUME NEW i \in 1..k, NEW j \in 1..k, i < j PROVE t[i] < t[j]
    BY <1>1 DEF Increasing
  <2>2. m + i - 1 < m + j - 1
    BY <2>1
  <2> QED
    BY <1>1, <1>2, <1>8, <2>2 DEF Increasing
<1> QED
  BY <1>1, <1>5, <1>6, <1>7, <1>8

\* All but the head.
LEMMA Rest ==
  ASSUME NEW S, S \subseteq Int
  PROVE  \A s \in Seq(S) : \A t : s # <<>> /\ t = Tail(s) =>
           /\ t \in Seq(S) /\ Range(s) = Range(t) \cup {Head(s)}
           /\ t # <<>> => t[Len(t)] = s[Len(s)]
           /\ Increasing(s) => Increasing(t) /\ \A c \in Range(t) : Head(s) < c
<1> SUFFICES ASSUME NEW s \in Seq(S), s # <<>>
             PROVE  /\ Tail(s) \in Seq(S) /\ Range(s) = Range(Tail(s)) \cup {Head(s)}
                    /\ Tail(s) # <<>> => Tail(s)[Len(Tail(s))] = s[Len(s)]
                    /\ Increasing(s) => Increasing(Tail(s)) /\ \A c \in Range(Tail(s)) : Head(s) < c
  OBVIOUS
<1>1. Len(s) \in Nat /\ Len(s) >= 1 /\ DOMAIN s = 1..Len(s)
  OBVIOUS
<1>2. Tail(s) = SubSeq(s, 2, Len(s)) /\ Head(s) = s[1]
  OBVIOUS
<1>3. 2 \in 1..Len(s) + 1 /\ Len(s) \in 0..Len(s) /\ (2 <= Len(s) \/ 2 > Len(s))
  BY <1>1
<1>4. /\ Tail(s) \in Seq(S) /\ Range(Tail(s)) = {s[i] : i \in 2..Len(s)}
      /\ 2 <= Len(s) => Tail(s)[Len(Tail(s))] = s[Len(s)]
      /\ 2 > Len(s) => Tail(s) = <<>>
      /\ Increasing(s) => Increasing(Tail(s))
  <2>1. \A m \in 1..Len(s) + 1, n \in 0..Len(s) : \A t : t = SubSeq(s, m, n) =>
          /\ t \in Seq(S) /\ Range(t) = {s[i] : i \in m..n}
          /\ m <= n => t # <<>> /\ Head(t) = s[m] /\ t[Len(t)] = s[n]
          /\ m > n => t = <<>>
          /\ Increasing(s) => Increasing(t)
    BY Part, Zenon
  <2> QED
    BY <1>2, <1>3, <2>1
<1>5. 1..Len(s) = {1} \cup 2..Len(s) /\ \A i \in 2..Len(s) : 1 < i
  BY <1>1
<1>6. Range(s) = Range(Tail(s)) \cup {Head(s)}
  BY <1>1, <1>2, <1>4, <1>5 DEF Range
<1>7. Increasing(s) => \A i \in 2..Len(s) : s[1] < s[i]
  BY <1>1, <1>5 DEF Increasing
<1> QED
  BY <1>2, <1>3, <1>4, <1>6, <1>7

\* All but the last element.
LEMMA QueueFront ==
  ASSUME NEW S, S \subseteq Int, NEW f \in Seq(S), NEW c \in S, Increasing(Append(f, c))
  PROVE  Increasing(f) /\ \A d \in Range(f) : d < c
<1> DEFINE t == Append(f, c)
<1>1. /\ t \in Seq(S) /\ t[Len(f) + 1] = c /\ \A i \in 1..Len(f) : t[i] = f[i]
      /\ DOMAIN t = 1..Len(f) + 1 /\ DOMAIN f = 1..Len(f) /\ Len(f) \in Nat
  OBVIOUS
<1>2. Increasing(t)
  OBVIOUS
<1> HIDE DEF t
<1>3. ASSUME NEW i \in 1..Len(f), NEW j \in 1..Len(f), i < j PROVE f[i] < f[j]
  <2>1. i \in 1..Len(f) + 1 /\ j \in 1..Len(f) + 1
    BY <1>1
  <2> QED
    BY <1>1, <1>2, <1>3, <2>1 DEF Increasing
<1>4. ASSUME NEW i \in 1..Len(f) PROVE f[i] < c
  <2>1. i \in 1..Len(f) + 1 /\ Len(f) + 1 \in 1..Len(f) + 1 /\ i < Len(f) + 1
    BY <1>1
  <2> QED
    BY <1>1, <1>2, <1>4, <2>1 DEF Increasing
<1> QED
  BY ONLY <1>1, <1>3, <1>4 DEF Increasing, Range

\* A queue is given by its elements.
LEMMA SameElements ==
  ASSUME NEW S, S \subseteq Int
  PROVE  \A s, t \in Seq(S) : Increasing(s) /\ Increasing(t) /\ Range(s) = Range(t) => s = t
<1>0. \A r \in Seq(S), d \in S : Range(Append(r, d)) = Range(r) \cup {d}
  <2>1. \A s \in Seq(S), c \in S : \A t : t = Append(s, c) =>
          /\ t \in Seq(S) /\ t # <<>> /\ Range(t) = Range(s) \cup {c} /\ t[Len(t)] = c
          /\ (s = <<>> => Head(t) = c) /\ (s # <<>> => Head(t) = Head(s))
          /\ Increasing(s) /\ (\A d \in Range(s) : d < c) => Increasing(t)
    BY Appended, Zenon
  <2> QED
    BY <2>1, Zenon
<1> DEFINE P == {s \in Seq(S) : \A t \in Seq(S) : Increasing(s) /\ Increasing(t) /\ Range(s) = Range(t) => s = t}
<1>1. <<>> \in P
  <2>1. \A t \in Seq(S) : Range(t) = Range(<<>>) => t = <<>>
    BY Elements
  <2> QED
    BY <2>1
<1>2. ASSUME NEW s \in Seq(S), NEW e \in S, s \in P PROVE Append(s, e) \in P
  <2> SUFFICES ASSUME NEW t \in Seq(S), Increasing(Append(s, e)), Increasing(t), Range(Append(s, e)) = Range(t)
               PROVE  Append(s, e) = t
    OBVIOUS
  <2> DEFINE f == SubSeq(t, 1, Len(t) - 1)
             c == t[Len(t)]
  <2>1. Range(t) = Range(s) \cup {e} /\ Increasing(s) /\ \A d \in Range(s) : d < e
    <3>1. Range(Append(s, e)) = Range(s) \cup {e}
      BY <1>0, Zenon
    <3>2. Increasing(s) /\ \A d \in Range(s) : d < e
      BY QueueFront, Zenon
    <3> QED
      BY <3>1, <3>2
  <2>2. t # <<>>
    BY <2>1, Elements
  <2>3. t = Append(f, c) /\ f \in Seq(S) /\ c \in S
    BY <2>2
  <2> HIDE DEF f, c
  <2>4. Range(t) = Range(f) \cup {c} /\ Increasing(f) /\ \A d \in Range(f) : d < c
    <3>1. Range(Append(f, c)) = Range(f) \cup {c}
      BY <1>0, <2>3, Zenon
    <3>2. Increasing(Append(f, c))
      BY <2>3, Zenon
    <3>3. Increasing(f) /\ \A d \in Range(f) : d < c
      BY <2>3, <3>2, QueueFront, Zenon
    <3> QED
      BY <2>3, <3>1, <3>3
  <2>5. Range(s) \subseteq Int /\ Range(f) \subseteq Int /\ e \in Int /\ c \in Int
    BY <2>3, Elements
  <2>6. e = c
    <3>1. (e \in Range(f) \/ e = c) /\ (c \in Range(s) \/ c = e)
      BY <2>1, <2>4
    <3> QED
      BY ONLY <2>1, <2>4, <2>5, <3>1
  <2>7. Range(s) = Range(f)
    <3>1. e \notin Range(s) /\ e \notin Range(f)
      BY ONLY <2>1, <2>4, <2>5, <2>6
    <3>2. Range(s) \cup {e} = Range(f) \cup {e}
      BY <2>1, <2>4, <2>6
    <3>3. \A x \in Range(s) : x \in Range(f)
      BY <3>1, <3>2
    <3>4. \A x \in Range(f) : x \in Range(s)
      BY <3>1, <3>2
    <3> QED
      BY <3>3, <3>4
  <2>8. s = f
    BY <1>2, <2>1, <2>3, <2>4, <2>7
  <2> QED
    BY <2>3, <2>6, <2>8
<1> HIDE DEF P
<1>3. \A s \in Seq(S) : s \in P
  BY <1>1, <1>2, SeqInductionSet
<1> QED
  BY <1>3 DEF P

\* One queue behind another.
LEMMA Joined ==
  ASSUME NEW S, S \subseteq Int
  PROVE  \A s, t \in Seq(S) : \A u : u = s \o t =>
           /\ u \in Seq(S) /\ Range(u) = Range(s) \cup Range(t) /\ Len(u) = Len(s) + Len(t)
           /\ t # <<>> => u[Len(u)] = t[Len(t)]
           /\ s # <<>> => u # <<>> /\ Head(u) = Head(s)
           /\ Increasing(s) /\ Increasing(t) /\ (\A c \in Range(s), d \in Range(t) : c < d) => Increasing(u)
<1> SUFFICES ASSUME NEW s \in Seq(S), NEW t \in Seq(S)
             PROVE  LET u == s \o t IN
                    /\ u \in Seq(S) /\ Range(u) = Range(s) \cup Range(t) /\ Len(u) = Len(s) + Len(t)
                    /\ t # <<>> => u[Len(u)] = t[Len(t)]
                    /\ s # <<>> => u # <<>> /\ Head(u) = Head(s)
                    /\ Increasing(s) /\ Increasing(t) /\ (\A c \in Range(s), d \in Range(t) : c < d) => Increasing(u)
  OBVIOUS
<1> DEFINE u == s \o t
<1>1. /\ u \in Seq(S) /\ Len(u) = Len(s) + Len(t) /\ Len(s) \in Nat /\ Len(t) \in Nat
      /\ DOMAIN u = 1..Len(s) + Len(t) /\ DOMAIN s = 1..Len(s) /\ DOMAIN t = 1..Len(t)
      /\ \A i \in 1..Len(s) : u[i] = s[i]
      /\ \A i \in 1..Len(t) : u[Len(s) + i] = t[i]
      /\ t # <<>> => Len(t) \in 1..Len(t)
  OBVIOUS
<1> HIDE DEF u
<1>2. \A i \in 1..Len(s) + Len(t) : i \in 1..Len(s) \/ (i - Len(s) \in 1..Len(t) /\ i = Len(s) + (i - Len(s)))
  BY <1>1
<1>3. /\ \A i \in 1..Len(s) : i \in 1..Len(s) + Len(t)
      /\ \A i \in 1..Len(t) : Len(s) + i \in 1..Len(s) + Len(t)
  BY <1>1
<1>4. Range(u) = Range(s) \cup Range(t)
  <2>1. \A i \in DOMAIN u : u[i] \in Range(s) \cup Range(t)
    <3> SUFFICES ASSUME NEW i \in 1..Len(s) + Len(t) PROVE u[i] \in Range(s) \cup Range(t)
      BY <1>1
    <3>1. CASE i \in 1..Len(s)
      BY <1>1, <3>1 DEF Range
    <3>2. CASE i - Len(s) \in 1..Len(t)
      <4>1. u[i] = t[i - Len(s)]
        <5>1. Len(s) + (i - Len(s)) = i
          BY <1>1
        <5> QED
          BY <1>1, <3>2, <5>1
      <4> QED
        BY <1>1, <3>2, <4>1 DEF Range
    <3> QED
      BY <1>2, <3>1, <3>2
  <2>2. \A i \in DOMAIN s : s[i] \in Range(u)
    BY <1>1, <1>3 DEF Range
  <2>3. \A i \in DOMAIN t : t[i] \in Range(u)
    BY <1>1, <1>3 DEF Range
  <2> QED
    BY <2>1, <2>2, <2>3 DEF Range
<1>5. ASSUME Increasing(s), Increasing(t), \A c \in Range(s), d \in Range(t) : c < d PROVE Increasing(u)
  <2> SUFFICES ASSUME NEW i \in DOMAIN u, NEW j \in DOMAIN u, i < j PROVE u[i] < u[j]
    BY DEF Increasing
  <2>1. CASE i \in 1..Len(s) /\ j \in 1..Len(s)
    BY <1>1, <1>5, <2>1 DEF Increasing
  <2>2. CASE i \in 1..Len(s) /\ j - Len(s) \in 1..Len(t)
    <3>1. u[i] \in Range(s) /\ u[j] \in Range(t)
      BY <1>1, <1>2, <2>2 DEF Range
    <3> QED
      BY <1>5, <3>1
  <2>3. CASE i - Len(s) \in 1..Len(t) /\ j - Len(s) \in 1..Len(t)
    <3>1. u[i] = t[i - Len(s)] /\ u[j] = t[j - Len(s)] /\ i - Len(s) < j - Len(s)
      BY <1>1, <1>2, <2>3
    <3> QED
      BY <1>1, <1>5, <2>3, <3>1 DEF Increasing
  <2>4. ~ (i - Len(s) \in 1..Len(t) /\ j \in 1..Len(s))
    BY <1>1
  <2> QED
    BY <1>1, <1>2, <2>1, <2>2, <2>3, <2>4
<1>6. t # <<>> => u[Len(u)] = t[Len(t)]
  BY <1>1
<1>7. s # <<>> => u # <<>> /\ Head(u) = Head(s)
  <2>1. SUFFICES ASSUME s # <<>> PROVE u # <<>> /\ Head(u) = Head(s)
    OBVIOUS
  <2>2. 1 \in 1..Len(s) /\ Head(s) = s[1]
    BY <1>1, <2>1
  <2>3. u # <<>> /\ Head(u) = u[1]
    BY <1>1, <2>2
  <2> QED
    BY <1>1, <2>2, <2>3
<1> QED
  BY <1>1, <1>4, <1>5, <1>6, <1>7 DEF u

\* What is kept of a queue is in the same order.
LEMMA Kept ==
  ASSUME NEW S, S \subseteq Int, NEW T
  PROVE  \A s \in Seq(S) : /\ Filter(s, T) \in Seq(S) /\ Range(Filter(s, T)) = Range(s) \cap T
                           /\ Increasing(s) => Increasing(Filter(s, T))
<1>1. \A s \in Seq(S) : Filter(s, T) \in Seq(S)
  BY FilterType
<1>2. ASSUME NEW s \in Seq(S) PROVE Range(Filter(s, T)) = Range(s) \cap T
  <2>1. \A r \in Seq(S) : Range(r) = {r[i] : i \in 1..Len(r)}
    BY DEF Range
  <2>2. {Filter(s, T)[i] : i \in 1..Len(Filter(s, T))} = {s[i] : i \in 1..Len(s)} \cap T
    BY FilterElements
  <2> QED
    BY <1>1, <2>1, <2>2
<1> DEFINE P == {s \in Seq(S) : Increasing(s) => Increasing(Filter(s, T))}
<1>3. <<>> \in P
  BY FilterEmpty, Single
<1>4. ASSUME NEW s \in Seq(S), NEW e \in S, s \in P PROVE Append(s, e) \in P
  <2>1. SUFFICES ASSUME Increasing(Append(s, e)) PROVE Increasing(Filter(Append(s, e), T))
    BY Appended
  <2>2. Increasing(s) /\ \A d \in Range(s) : d < e
    BY <2>1, QueueFront
  <2>3. Increasing(Filter(s, T)) /\ Filter(s, T) \in Seq(S) /\ \A d \in Range(Filter(s, T)) : d < e
    BY <1>1, <1>2, <1>4, <2>2
  <2>4. Increasing(Append(Filter(s, T), e))
    BY <2>3, Appended
  <2>5. Filter(Append(s, e), T) = IF e \in T THEN Append(Filter(s, T), e) ELSE Filter(s, T)
    BY FilterAppend
  <2> QED
    BY <2>3, <2>4, <2>5
<1> HIDE DEF P
<1>5. \A s \in Seq(S) : s \in P
  BY <1>3, <1>4, SeqInductionSet
<1> QED
  BY <1>1, <1>2, <1>5 DEF P

-----------------------------------------------------------------------------
(***************************************************************************)
(* The same about queues of commands.                                      *)
(***************************************************************************)
\* What is in a queue, and at its ends.
LEMMA QueueElements ==
  /\ Range(<<>>) = {} /\ <<>> \in Seq(Cmds) /\ Increasing(<<>>)
  /\ \A s \in Seq(Cmds) : /\ Range(s) \subseteq Cmds
                          /\ s # <<>> => Head(s) \in Range(s) /\ s[Len(s)] \in Range(s) /\ Head(s) = s[1]
                          /\ Range(s) = {} => s = <<>>
  /\ \A s \in Seq(Cmds) : Increasing(s) => \A c \in Range(s) : Head(s) <= c /\ c <= s[Len(s)]
<1>1. Range(<<>>) = {} /\ <<>> \in Seq(Cmds) /\ Increasing(<<>>)
  BY Elements, Single, CmdsNumbers
<1>2. \A s \in Seq(Cmds) : /\ Range(s) \subseteq Cmds
                           /\ s # <<>> => Head(s) \in Range(s) /\ s[Len(s)] \in Range(s) /\ Head(s) = s[1]
                           /\ Range(s) = {} => s = <<>>
  BY Elements, Zenon
<1>3. \A s \in Seq(Cmds) : Increasing(s) => \A c \in Range(s) : Head(s) <= c /\ c <= s[Len(s)]
  BY Ends, CmdsNumbers, Zenon
<1> QED
  BY <1>1, <1>2, <1>3, Zenon

\* A queue of one command.
LEMMA QueueSingle ==
  \A c \in Cmds : <<c>> \in Seq(Cmds) /\ Increasing(<<c>>) /\ Range(<<c>>) = {c} /\ <<c>> # <<>> /\ Head(<<c>>) = c
BY Single, CmdsNumbers, Zenon

\* A command more.
LEMMA QueueAppended ==
  \A s \in Seq(Cmds), c \in Cmds : \A t : t = Append(s, c) =>
    /\ t \in Seq(Cmds) /\ t # <<>> /\ Range(t) = Range(s) \cup {c} /\ t[Len(t)] = c
    /\ (s = <<>> => Head(t) = c) /\ (s # <<>> => Head(t) = Head(s))
    /\ Increasing(s) /\ (\A d \in Range(s) : d < c) => Increasing(t)
BY Appended, CmdsNumbers, Zenon

\* Without its head.
LEMMA QueueRest ==
  \A s \in Seq(Cmds) : \A t : s # <<>> /\ t = Tail(s) =>
    /\ t \in Seq(Cmds) /\ Range(s) = Range(t) \cup {Head(s)}
    /\ t # <<>> => t[Len(t)] = s[Len(s)]
    /\ Increasing(s) => Increasing(t) /\ \A c \in Range(t) : Head(s) < c
BY Rest, CmdsNumbers, Zenon

\* A part of a queue.
LEMMA QueuePart ==
  \A s \in Seq(Cmds) : \A m \in 1..Len(s) + 1, n \in 0..Len(s) : \A t : t = SubSeq(s, m, n) =>
    /\ t \in Seq(Cmds) /\ Range(t) = {s[i] : i \in m..n}
    /\ m <= n => t # <<>> /\ Head(t) = s[m] /\ t[Len(t)] = s[n]
    /\ m > n => t = <<>>
    /\ Increasing(s) => Increasing(t)
<1>1. SUFFICES ASSUME NEW s \in Seq(Cmds)
               PROVE  \A m \in 1..Len(s) + 1, n \in 0..Len(s) : \A t : t = SubSeq(s, m, n) =>
                        /\ t \in Seq(Cmds) /\ Range(t) = {s[i] : i \in m..n}
                        /\ m <= n => t # <<>> /\ Head(t) = s[m] /\ t[Len(t)] = s[n]
                        /\ m > n => t = <<>>
                        /\ Increasing(s) => Increasing(t)
  OBVIOUS
<1> QED
  BY Part, CmdsNumbers, Zenon

\* What a queue holds up to some index, and from some index on.
LEMMA QueueFirst ==
  \A q \in Seq(Cmds) : \A k \in 1..Len(q) : \A s : s = SubSeq(q, 1, k) =>
    /\ s \in Seq(Cmds) /\ Range(s) = {q[i] : i \in 1..k} /\ s # <<>> /\ s[Len(s)] = q[k] /\ Len(s) = k
    /\ Increasing(q) => Increasing(s)
<1> SUFFICES ASSUME NEW q \in Seq(Cmds), NEW k \in 1..Len(q), NEW s, s = SubSeq(q, 1, k)
             PROVE  /\ s \in Seq(Cmds) /\ Range(s) = {q[i] : i \in 1..k} /\ s # <<>> /\ s[Len(s)] = q[k] /\ Len(s) = k
                    /\ Increasing(q) => Increasing(s)
  OBVIOUS
<1>1. 1 \in 1..Len(q) + 1 /\ k \in 0..Len(q) /\ 1 <= k
  OBVIOUS
<1>2. Len(s) = k
  OBVIOUS
<1>3. /\ s \in Seq(Cmds) /\ Range(s) = {q[i] : i \in 1..k} /\ s # <<>> /\ s[Len(s)] = q[k]
      /\ Increasing(q) => Increasing(s)
  <2>1. \A m \in 1..Len(q) + 1, n \in 0..Len(q) : \A t : t = SubSeq(q, m, n) =>
          /\ t \in Seq(Cmds) /\ Range(t) = {q[i] : i \in m..n}
          /\ m <= n => t # <<>> /\ Head(t) = q[m] /\ t[Len(t)] = q[n]
          /\ m > n => t = <<>>
          /\ Increasing(q) => Increasing(t)
    BY QueuePart, Zenon
  <2>2. /\ s \in Seq(Cmds) /\ Range(s) = {q[i] : i \in 1..k}
        /\ 1 <= k => s # <<>> /\ Head(s) = q[1] /\ s[Len(s)] = q[k]
        /\ Increasing(q) => Increasing(s)
    BY <1>1, <2>1, Zenon
  <2> QED
    BY <1>1, <2>2
<1> QED
  BY <1>2, <1>3

\* A queue from some index on.
LEMMA QueueFrom ==
  \A q \in Seq(Cmds) : \A m \in 1..Len(q) + 1 : \A s : s = SubSeq(q, m, Len(q)) =>
    /\ s \in Seq(Cmds) /\ Range(s) = {q[i] : i \in m..Len(q)}
    /\ m <= Len(q) => s # <<>> /\ Head(s) = q[m]
    /\ m > Len(q) => s = <<>>
    /\ Increasing(q) => Increasing(s)
<1> SUFFICES ASSUME NEW q \in Seq(Cmds), NEW m \in 1..Len(q) + 1, NEW s, s = SubSeq(q, m, Len(q))
             PROVE  /\ s \in Seq(Cmds) /\ Range(s) = {q[i] : i \in m..Len(q)}
                    /\ m <= Len(q) => s # <<>> /\ Head(s) = q[m]
                    /\ m > Len(q) => s = <<>>
                    /\ Increasing(q) => Increasing(s)
  OBVIOUS
<1>1. Len(q) \in 0..Len(q)
  OBVIOUS
<1> QED
  BY <1>1, QueuePart, Zenon

\* One behind another.
LEMMA QueueJoined ==
  \A s, t \in Seq(Cmds) : \A u : u = s \o t =>
    /\ u \in Seq(Cmds) /\ Range(u) = Range(s) \cup Range(t) /\ Len(u) = Len(s) + Len(t)
    /\ t # <<>> => u[Len(u)] = t[Len(t)]
    /\ s # <<>> => u # <<>> /\ Head(u) = Head(s)
    /\ Increasing(s) /\ Increasing(t) /\ (\A c \in Range(s), d \in Range(t) : c < d) => Increasing(u)
<1>1. Cmds \subseteq Int
  BY CmdsNumbers
<1> QED
  BY ONLY <1>1, Joined, ZenonT(60)

\* Shifting a queue takes its head.
LEMMA QueueShifted ==
  \A s \in Seq(Cmds) : Shifted(s) = IF s = <<>> THEN <<>> ELSE Tail(s)
BY DEF Shifted
-----------------------------------------------------------------------------
(***************************************************************************)
(* The inductive invariant.                                                *)
(***************************************************************************)
New(c) == stage[c] = "new"
Open == status \in {"connecting", "init", "connected"}

\* What the server answers, and what it does not.
KindsKnown == kind[Setup] = "query" /\ kind[Quit] = "quit" /\ \A c \in Calls : kind[c] \in Kinds

\* How the handshake, the status of the connection and its callbacks go together.
Phases ==
  /\ addCommand = IF status = "connecting" THEN "queue" ELSE IF Usable THEN "enabled" ELSE "disabled"
  /\ status = "connecting" => handshake = "auth"
  /\ status = "init" => handshake \in {"setup", "answered"}
  /\ status = "connected" => handshake = "flush" \/ (handshake = "done" /\ waiting = <<>>)
  /\ handshake = "auth" => status \in {"connecting", "ending", "closed"}
  /\ handshake = "answered" => status = "init"
  /\ handshake = "flush" => status = "connected"
  /\ status = "closed" => socket = "none" /\ sendQueue = <<>>
  /\ handshake \in {"auth", "setup"} /\ status = "ending" =>
       chunk = 0 /\ (quitDone \/ (tick /\ sendQueue = <<Quit>> /\ sending = {}))
  /\ handshake = "auth" => New(Setup)
  /\ Active(Setup) => handshake = "setup"
  /\ killing => status = "ending" /\ closedBy = "destroy"
  /\ closedBy = "error" => status = "closed"
  /\ Open => ~tick /\ ~quitDone /\ closedBy = "nobody" /\ doomed = {} /\ expired = {} /\ socket = "open"

\* Before authentication nothing has been sent.
Untouched == status = "connecting" =>
  /\ sendQueue = <<>> /\ receiveQueue = <<>> /\ wire = <<>> /\ sending = {}
  /\ \A c \in Cmds : New(c)
  /\ cached = NoCmd /\ direct = NoCmd /\ chunk = 0

\* While the session is prepared, Setup is all there is.
OnlySetup == status = "init" =>
  /\ sendQueue = <<>> /\ sending = {} /\ \A c \in Calls : New(c)
  /\ Range(receiveQueue) \subseteq {Setup}
  /\ handshake = "setup" => wire # <<>>

\* What the queues hold are commands issued; those that wait come after all others.
Known ==
  /\ Range(sendQueue) \cup Range(receiveQueue) \cup Range(wire) \subseteq 0..issued \cup {Quit}
  /\ \A c \in Calls : c > issued => New(c)
  /\ Setup \notin Range(sendQueue)
  /\ \A c \in Range(waiting) : c \in 1..issued /\ New(c)
  /\ \A c \in Range(waiting), d \in Range(sendQueue) \cup Range(receiveQueue) : d # Quit => d < c
  /\ Open \/ killing => New(Quit) /\ Quit \notin Range(sendQueue) \cup Range(receiveQueue)
  /\ ~New(Quit) => sendQueue = <<>>
  /\ quitDone => ~New(Quit)
  /\ \A c \in doomed : ~New(c)

\* Each queue is in the order of the calls; what is queued to be sent has not been started, but for
\* a stream at the head, and comes after all that has been sent.
Order ==
  /\ Increasing(waiting) /\ Increasing(sendQueue) /\ Increasing(receiveQueue) /\ Increasing(wire)
  /\ \A c \in Range(sendQueue) : New(c) \/ (c \in sending /\ c = Head(sendQueue))
  /\ \A c \in sending : ~New(c) /\ kind[c] = "stream"
  /\ \A c \in Range(wire) : ~New(c) /\ Answered(c)
  /\ \A c \in Range(wire), d \in Range(sendQueue) : New(d) => c < d
  /\ \A d \in Cmds : Active(d) => Answered(d) /\ d <= issued
  /\ \A d \in Cmds : Active(d) => \A c \in Range(sendQueue) \cup Range(waiting) : New(c) => d < c

\* Who expects an answer: what has been written, and what is queued.
Matched ==
  /\ \A c \in Cmds : Active(c) <=> c \in Range(wire)
  /\ Range(wire) \subseteq Range(receiveQueue)
  /\ \A c \in Range(receiveQueue) : New(c) => c \in Range(sendQueue)
  /\ \A c \in Range(sendQueue) : New(c) /\ kind[c] # "close" => c \in Range(receiveQueue)
Match == Usable => Matched

\* What onData and receivePacket remember of it.
Recalled ==
  /\ cached # NoCmd => ~New(cached)
  /\ direct # NoCmd => ~New(direct)
  /\ Cached => receiveQueue # <<>> /\ Head(receiveQueue) = cached
  /\ direct # NoCmd /\ Active(direct) => wire # <<>> /\ direct = Head(wire)
Remembered == Usable => Recalled

\* With pipelining one stream is written at a time, at the head of what is to be sent; a ping that
\* expires behind it may have emptied the queue.
OneStream ==
  /\ sending # {} => \/ sendQueue # <<>> /\ sending = {Head(sendQueue)}
                     \/ sendQueue = <<>> /\ status = "ending" /\ \E c \in sending : sending = {c}
  /\ sending # {} => New(Quit)
  /\ \A c \in sending : Active(c) /\ wire # <<>> => c = wire[Len(wire)]
Streams == (pipelining /\ closedBy # "destroy" /\ status # "closed") => OneStream

NeverStuck == (pipelining /\ sendQueue # <<>>) => tick \/ Head(sendQueue) \in sending

-----------------------------------------------------------------------------
(***************************************************************************)
(* What sending does: the commands of a set S, a first part of the queue   *)
(* q, are started; the rest stays queued, a stream too if it has become    *)
(* the head.                                                               *)
(***************************************************************************)
Streamed(S) == {c \in S : kind[c] = "stream"}

Written(S, now) ==
  \E w \in Seq(Cmds) : /\ wire' = now.wire \o w /\ Increasing(w) /\ Range(w) = S \cap {c \in Cmds : Answered(c)}
                       /\ ~pipelining => Len(w) <= 1

Sent(S, q, now) ==
  /\ S \subseteq Range(q)
  /\ stage' = [c \in Cmds |-> IF c \notin S THEN now.stage[c] ELSE IF Answered(c) THEN "active" ELSE "over"]
  /\ sending' = now.sending \cup Streamed(S)
  /\ quitDone' = (quitDone \/ Quit \in S)
  /\ Written(S, now)
  /\ sendQueue' \in Seq(Cmds) /\ Increasing(sendQueue')
  /\ Range(sendQueue') \subseteq Range(q) /\ Range(q) \subseteq S \cup Range(sendQueue')
  /\ \A c \in S, d \in Range(sendQueue') : c < d \/ (c = d /\ c \in Streamed(S) /\ c = Head(sendQueue'))
  /\ S = {} => sendQueue' = q
  /\ S # {} => Head(q) \in S
  /\ pipelining => \A c \in Streamed(S) : sendQueue' # <<>> /\ c = Head(sendQueue') /\ \A d \in S : d <= c

\* With pipelining all is sent up to a stream.
SentAll(S, q) ==
  /\ S = {} => q = <<>> \/ Head(q) \in sending
  /\ S # {} => q # <<>> /\ Head(q) \notin sending
  /\ pipelining /\ S # {} => sendQueue' = <<>> \/ Head(sendQueue') \in Streamed(S)

\* What nextSendCmd starts is a first part of the queue: up to the first that lets no other go.
LEMMA StartedPart ==
  ASSUME NEW q \in Seq(Cmds), q # <<>>, Head(q) \notin sending
  PROVE  \E k \in 1..Len(q) : /\ StartedFrom(q) = SubSeq(q, 1, k)
                              /\ \A i \in 1..k : LetsNextGo(q[i]) \/ i = k
                              /\ k = Len(q) \/ ~LetsNextGo(q[k])
<1> DEFINE stops == {i \in DOMAIN q : ~LetsNextGo(q[i])}
           k == IF stops = {} THEN Len(q) ELSE CHOOSE i \in stops : \A j \in stops : i <= j
<1>1. Len(q) \in Nat /\ Len(q) >= 1 /\ DOMAIN q = 1..Len(q) /\ stops \subseteq Nat
  OBVIOUS
<1>2. StartedFrom(q) = SubSeq(q, 1, k)
  BY DEF StartedFrom
<1>3. CASE stops = {}
  <2>1. \A i \in 1..Len(q) : LetsNextGo(q[i])
    BY <1>1, <1>3
  <2> QED
    <3>1. k = Len(q)
      BY <1>3
    <3> HIDE DEF k
    <3>2. StartedFrom(q) = SubSeq(q, 1, Len(q)) /\ Len(q) \in 1..Len(q)
      BY <1>1, <1>2, <3>1
    <3> QED
      BY <2>1, <3>2
<1>4. CASE stops # {}
  <2> HIDE DEF stops
  <2>1. \E i \in stops : \A j \in stops : i <= j
    BY <1>1, <1>4, NatMin
  <2>2. k \in stops /\ \A j \in stops : k <= j
    BY <1>4, <2>1
  <2> HIDE DEF k
  <2>3. k \in 1..Len(q) /\ ~LetsNextGo(q[k]) /\ \A i \in 1..Len(q) : ~LetsNextGo(q[i]) => i \in stops
    BY <1>1, <2>2 DEF stops
  <2>4. \A i \in 1..k : LetsNextGo(q[i]) \/ i = k
    BY <1>1, <2>2, <2>3
  <2> QED
    BY <1>2, <2>3, <2>4
<1> QED
  BY <1>3, <1>4

\* The answers that a command after another is owed.
LEMMA FilterOf ==
  \A s \in Seq(Cmds) : \A T : /\ Filter(s, T) \in Seq(Cmds) /\ Range(Filter(s, T)) = Range(s) \cap T
                              /\ Increasing(s) => Increasing(Filter(s, T))
<1>1. SUFFICES ASSUME NEW T
               PROVE  \A s \in Seq(Cmds) : /\ Filter(s, T) \in Seq(Cmds) /\ Range(Filter(s, T)) = Range(s) \cap T
                                           /\ Increasing(s) => Increasing(Filter(s, T))
  OBVIOUS
<1> QED
  BY Kept, CmdsNumbers, Zenon

\* A queue whose elements are all the same has one at most.
LEMMA OnlyOne ==
  ASSUME NEW w \in Seq(Cmds), Increasing(w), NEW c, Range(w) \subseteq {c}
  PROVE  Len(w) <= 1
<1>1. SUFFICES ASSUME Len(w) >= 2 PROVE FALSE
  OBVIOUS
<1>2. 1 \in DOMAIN w /\ 2 \in DOMAIN w
  BY <1>1
<1>3. w[1] = c /\ w[2] = c /\ w[1] \in Int
  <2>1. w[1] \in Range(w) /\ w[2] \in Range(w)
    BY <1>2 DEF Range
  <2>2. w[1] \in Cmds
    BY <1>2
  <2> QED
    BY <2>1, <2>2, CmdsNumbers
<1>4. w[1] < w[2]
  BY <1>2 DEF Increasing
<1> QED
  BY <1>3, <1>4

\* The effect of nextSendCmd.
LEMMA NextSends ==
  ASSUME kind \in [Cmds -> Kinds \cup {"query", "quit"}],
         NEW q \in Seq(Cmds), Increasing(q), NEW now, NextSendCmd(q, now)
  PROVE  \E S : Sent(S, q, now) /\ SentAll(S, q)
<1> DEFINE s == StartedFrom(q)
           AnsweredCmds == {c \in Cmds : Answered(c)}
<1>1. Start(s, now) /\ sendQueue' = IF s = <<>> THEN q ELSE LeftOf(q, s)
  BY DEF NextSendCmd
<1>2. CASE q = <<>> \/ Head(q) \in sending
  <2>1. s = <<>>
    BY <1>2 DEF StartedFrom
  <2>2. Range(s) = {} /\ Filter(s, AnsweredCmds) = <<>> /\ Len(<<>>) = 0
    BY <2>1, QueueElements, FilterEmpty
  <2>3. Written({}, now)
    <3>1. wire' = now.wire \o <<>>
      BY <1>1, <2>2 DEF Start
    <3>2. Range(<<>>) = {} \cap {c \in Cmds : Answered(c)} /\ Len(<<>>) <= 1
      BY <2>2, QueueElements
    <3> QED
      BY <3>1, <3>2, QueueElements, Zenon DEF Written
  <2>4. sendQueue' = q /\ Streamed({}) = {}
    BY <1>1, <2>1 DEF Streamed
  <2>5. Sent({}, q, now)
    BY <1>1, <2>2, <2>3, <2>4 DEF Sent, Start
  <2> QED
    BY <1>2, <2>5 DEF SentAll
<1>3. CASE q # <<>> /\ Head(q) \notin sending
  <2>1. PICK k \in 1..Len(q) : /\ s = SubSeq(q, 1, k)
                               /\ \A i \in 1..k : LetsNextGo(q[i]) \/ i = k
                               /\ k = Len(q) \/ ~LetsNextGo(q[k])
    BY <1>3, StartedPart
  <2> HIDE DEF s
  <2> DEFINE S == Range(s)
             m == IF kind[q[k]] = "stream" THEN k ELSE k + 1
             w == Filter(s, AnsweredCmds)
  <2>2. /\ 1 \in 1..Len(q) + 1 /\ k \in 0..Len(q) /\ 1 <= k /\ k \in Nat /\ Len(q) \in Nat /\ 1..k \subseteq 1..Len(q)
        /\ DOMAIN q = 1..Len(q) /\ Len(q) \in 0..Len(q) /\ Head(q) = q[1] /\ 1 \in 1..k /\ k \in 1..k
    BY <1>3
  <2>3. s \in Seq(Cmds) /\ S = {q[i] : i \in 1..k} /\ s # <<>> /\ s[Len(s)] = q[k] /\ Increasing(s)
    BY <2>1, QueueFirst, Zenon
  <2>4. Len(s) = k
    BY <2>1, QueueFirst, Zenon
  <2>5. m \in 1..Len(q) + 1 /\ (m = k \/ m = k + 1) /\ sendQueue' = SubSeq(q, m, Len(q))
    BY <1>1, <2>2, <2>3, <2>4 DEF LeftOf
  <2>5a. (m = k <=> kind[q[k]] = "stream") /\ (m = k + 1 <=> kind[q[k]] # "stream")
    BY <2>2
  <2> HIDE DEF m
  <2>6. /\ sendQueue' \in Seq(Cmds) /\ Range(sendQueue') = {q[i] : i \in m..Len(q)} /\ Increasing(sendQueue')
        /\ m <= Len(q) => sendQueue' # <<>> /\ Head(sendQueue') = q[m]
        /\ m > Len(q) => sendQueue' = <<>>
    BY <2>5, QueueFrom, Zenon
  <2>7. w \in Seq(Cmds) /\ Range(w) = S \cap AnsweredCmds /\ Increasing(w)
    BY <2>3, FilterOf
  <2>8. \A i \in 1..Len(q) : q[i] \in Cmds /\ q[i] \in Int /\ kind[q[i]] \in Kinds \cup {"query", "quit"}
    <3>1. \A i \in 1..Len(q) : q[i] \in Cmds
      OBVIOUS
    <3> QED
      BY <3>1, CmdsNumbers
  <2>9. \A i, j \in 1..Len(q) : i < j => q[i] < q[j]
    BY <2>2 DEF Increasing
  <2>10. \A i \in 1..k : (pipelining /\ kind[q[i]] = "stream") \/ (~pipelining /\ Answered(q[i])) => i = k
    BY <2>1 DEF LetsNextGo
  <2>11. ~pipelining => Len(w) <= 1
    <3>1. ~pipelining => Range(w) \subseteq {q[k]}
      BY <2>3, <2>7, <2>10
    <3> HIDE DEF w
    <3> QED
      BY <2>7, <3>1, OnlyOne
  <2>12. Written(S, now)
    <3>1. wire' = now.wire \o w
      BY <1>1 DEF Start
    <3> HIDE DEF w, S
    <3> QED
      BY <2>7, <2>11, <3>1 DEF Written
  <2>13. Range(q) = {q[i] : i \in 1..Len(q)} /\ S \subseteq Range(q) /\ Range(sendQueue') \subseteq Range(q)
    <3>1. Range(q) = {q[i] : i \in 1..Len(q)}
      BY <2>2 DEF Range
    <3>2. \A i \in m..Len(q) : i \in 1..Len(q)
      BY <2>2, <2>5
    <3> HIDE DEF S
    <3> QED
      BY <2>2, <2>3, <2>6, <3>1, <3>2
  <2>14. Range(q) \subseteq S \cup Range(sendQueue')
    <3>1. \A i \in 1..Len(q) : i \in 1..k \/ i \in m..Len(q)
      BY <2>2, <2>5
    <3> HIDE DEF S
    <3> QED
      BY <2>3, <2>6, <2>13, <3>1
  <2>15. \A i \in 1..k, j \in m..Len(q) :
           q[i] < q[j] \/ (q[i] = q[j] /\ kind[q[i]] = "stream" /\ i = k /\ m = k /\ q[i] = Head(sendQueue'))
    <3>1. SUFFICES ASSUME NEW i \in 1..k, NEW j \in m..Len(q)
                   PROVE  q[i] < q[j] \/ (q[i] = q[j] /\ kind[q[i]] = "stream" /\ i = k /\ m = k /\ q[i] = Head(sendQueue'))
      OBVIOUS
    <3>2. i \in 1..Len(q) /\ j \in 1..Len(q) /\ (i < j \/ (i = k /\ j = k /\ m = k /\ m <= Len(q)))
      BY <2>2, <2>5
    <3> QED
      BY <2>5a, <2>6, <2>9, <3>2
  <2>16. \A c \in S, d \in Range(sendQueue') : c < d \/ (c = d /\ c \in Streamed(S) /\ c = Head(sendQueue'))
    <3> HIDE DEF S
    <3>1. SUFFICES ASSUME NEW i \in 1..k, NEW j \in m..Len(q)
                   PROVE  q[i] < q[j] \/ (q[i] = q[j] /\ q[i] \in Streamed(S) /\ q[i] = Head(sendQueue'))
      BY <2>3, <2>6
    <3>2. q[i] \in S
      BY <2>3
    <3> QED
      BY <2>15, <3>2 DEF Streamed
  <2>17. pipelining => \A c \in Streamed(S) : sendQueue' # <<>> /\ c = Head(sendQueue') /\ \A d \in S : d <= c
    <3> HIDE DEF S
    <3>1. SUFFICES ASSUME pipelining, NEW i \in 1..k, kind[q[i]] = "stream"
                   PROVE  sendQueue' # <<>> /\ q[i] = Head(sendQueue') /\ \A j \in 1..k : q[j] <= q[i]
      BY <2>3 DEF Streamed
    <3>2. i = k /\ m = k /\ m <= Len(q)
      BY <2>2, <2>5a, <2>10, <3>1
    <3>3. \A j \in 1..k : j = k \/ (j < k /\ j \in 1..Len(q) /\ k \in 1..Len(q))
      BY <2>2
    <3> QED
      BY <2>6, <2>8, <2>9, <3>2, <3>3
  <2>18. q[1] \in S /\ q[k] \in S
    BY <2>2, <2>3
  <2>19. Sent(S, q, now)
    <3>1. /\ stage' = [c \in Cmds |-> IF c \notin S THEN now.stage[c] ELSE IF Answered(c) THEN "active" ELSE "over"]
          /\ sending' = now.sending \cup Streamed(S) /\ quitDone' = (quitDone \/ Quit \in S)
      BY <1>1 DEF Start, Streamed
    <3> HIDE DEF S
    <3>2. S # {} /\ Head(q) \in S
      BY <2>2, <2>18
    <3> QED
      BY <2>6, <2>12, <2>13, <2>14, <2>16, <2>17, <3>1, <3>2 DEF Sent
  <2>20. SentAll(S, q)
    <3> HIDE DEF S
    <3>1. S # {}
      BY <2>18
    <3>2. CASE m = k
      <4>1. sendQueue' # <<>> /\ Head(sendQueue') \in Streamed(S)
        BY <2>2, <2>5a, <2>6, <2>18, <3>2 DEF Streamed
      <4> QED
        BY <1>3, <3>1, <4>1 DEF SentAll
    <3>3. CASE m = k + 1
      <4>1. pipelining => k = Len(q)
        BY <2>1, <2>5a, <3>3 DEF LetsNextGo
      <4>2. pipelining => sendQueue' = <<>>
        BY <2>2, <2>6, <3>3, <4>1
      <4> QED
        BY <1>3, <3>1, <4>2 DEF SentAll
    <3> QED
      BY <2>5, <3>2, <3>3
  <2> QED
    BY <2>19, <2>20
<1> QED
  BY <1>2, <1>3

-----------------------------------------------------------------------------
(***************************************************************************)
(* Two kinds of steps: those that send a part of a queue, and those that   *)
(* only take away; and what both do to the order of the queues.            *)
(***************************************************************************)
Stages == {"new", "active", "over"}

\* A command may be over, and be no longer awaited, before more is sent.
NowReady(now) ==
  /\ now.stage \in [Cmds -> Stages] /\ \A c \in Cmds : now.stage[c] = stage[c] \/ (Active(c) /\ now.stage[c] = "over")
  /\ now.sending \subseteq sending
  /\ now.wire = wire \/ (wire # <<>> /\ now.wire = Tail(wire))

\* What is sent has not been sent before, and comes after all that has.
QueueReady(q, now, S) ==
  /\ q \in Seq(Cmds) /\ Increasing(q) /\ Range(q) \subseteq 0..issued' \cup {Quit}
  /\ \A c \in Range(q) : New(c) \/ (c \in now.sending /\ c = Head(q))
  /\ \A c \in Range(wire), d \in Range(q) : New(d) => c < d
  /\ \A c \in Cmds, d \in Range(q) : Active(c) /\ New(d) => c < d
  /\ S # {} => New(Head(q))
  /\ Increasing(waiting') /\ Range(waiting') \subseteq Cmds /\ \A c \in Range(waiting'), d \in Range(q) : d # Quit => d < c
  /\ \A c \in Range(waiting'), d \in Cmds : Active(d) /\ New(c) => d < c

\* Nothing is sent, and nothing queued.
Shrinks ==
  /\ UNCHANGED <<fixed, issued, waiting, sending>>
  /\ sendQueue' = sendQueue \/ sendQueue' = <<>>
  /\ receiveQueue' \in Seq(Cmds) /\ Increasing(receiveQueue') /\ Range(receiveQueue') \subseteq Range(receiveQueue)
  /\ wire' = wire \/ (wire # <<>> /\ wire' = Tail(wire))
  /\ stage' \in [Cmds -> Stages] /\ \A c \in Cmds : stage'[c] = stage[c] \/ (Active(c) /\ stage'[c] = "over")

\* The QUIT is not answered.
LEMMA QuitUnanswered == ASSUME KindsKnown PROVE ~Answered(Quit) /\ kind[Quit] # "stream" /\ Answered(Setup) /\ kind[Setup] # "stream"
BY DEF KindsKnown, Answered

\* The wire without the answer that has been read.
LEMMA WireLess ==
  ASSUME TypeOK, Order, NEW w, w = wire \/ (wire # <<>> /\ w = Tail(wire))
  PROVE  w \in Seq(Cmds) /\ Increasing(w) /\ Range(w) \subseteq Range(wire) /\ (w # <<>> => w[Len(w)] = wire[Len(wire)])
<1>1. wire \in Seq(Cmds) /\ Increasing(wire)
  BY DEF TypeOK, Order
<1>2. CASE w = wire
  BY <1>1, <1>2
<1>3. CASE wire # <<>> /\ w = Tail(wire)
  <2>1. /\ w \in Seq(Cmds) /\ Range(wire) = Range(w) \cup {Head(wire)}
        /\ w # <<>> => w[Len(w)] = wire[Len(wire)]
        /\ Increasing(wire) => Increasing(w) /\ \A c \in Range(w) : Head(wire) < c
    BY <1>1, <1>3, QueueRest, Zenon
  <2> QED
    BY <1>1, <2>1
<1> QED
  BY <1>2, <1>3

\* What sending does to the stages and to the wire.
LEMMA SentEffect ==
  ASSUME TypeOK, KindsKnown, Order, NEW S, NEW q, NEW now, NowReady(now), QueueReady(q, now, S), Sent(S, q, now)
  PROVE  /\ S \subseteq Range(q) /\ S \subseteq Cmds /\ (\A c \in S : New(c))
         /\ stage' \in [Cmds -> Stages] /\ sending' \subseteq Cmds /\ wire' \in Seq(Cmds) /\ Increasing(wire')
         /\ \A c \in Cmds : New(c)' <=> New(c) /\ c \notin S
         /\ \A c \in Cmds : Active(c)' <=> (c \in S /\ Answered(c)) \/ (c \notin S /\ now.stage[c] = "active")
         /\ Range(wire') = Range(now.wire) \cup {c \in S : Answered(c)}
         /\ Range(now.wire) \subseteq Range(wire)
         /\ now.wire # <<>> => wire' # <<>> /\ Head(wire') = Head(now.wire)
<1>1. q \in Seq(Cmds) /\ Range(q) \subseteq Cmds /\ S \subseteq Range(q)
  BY QueueElements DEF QueueReady, Sent
<1>2. \A c \in S : New(c)
  BY <1>1 DEF QueueReady, Sent
<1>3. /\ now.wire \in Seq(Cmds) /\ Increasing(now.wire) /\ Range(now.wire) \subseteq Range(wire)
  BY WireLess DEF NowReady
<1>4. stage' = [c \in Cmds |-> IF c \notin S THEN now.stage[c] ELSE IF Answered(c) THEN "active" ELSE "over"]
  BY DEF Sent
<1>5. stage' \in [Cmds -> Stages]
  BY <1>4 DEF NowReady, Stages
<1>6. \A c \in Cmds : New(c)' <=> New(c) /\ c \notin S
  BY <1>4 DEF New, NowReady, Active
<1>7. \A c \in Cmds : Active(c)' <=> (c \in S /\ Answered(c)) \/ (c \notin S /\ now.stage[c] = "active")
  BY <1>4 DEF Active
<1>8. sending' \subseteq Cmds
  BY <1>1 DEF Sent, Streamed, NowReady, TypeOK
<1>9. PICK w \in Seq(Cmds) : wire' = now.wire \o w /\ Increasing(w) /\ Range(w) = S \cap {c \in Cmds : Answered(c)}
  BY DEF Sent, Written
<1>10. /\ wire' \in Seq(Cmds) /\ Range(wire') = Range(now.wire) \cup Range(w)
       /\ now.wire # <<>> => wire' # <<>> /\ Head(wire') = Head(now.wire)
       /\ Increasing(now.wire) /\ Increasing(w) /\ (\A c \in Range(now.wire), d \in Range(w) : c < d) => Increasing(wire')
  <2>1. ASSUME NEW v \in Seq(Cmds), wire' = v \o w
        PROVE  /\ wire' \in Seq(Cmds) /\ Range(wire') = Range(v) \cup Range(w)
               /\ v # <<>> => wire' # <<>> /\ Head(wire') = Head(v)
               /\ Increasing(v) /\ Increasing(w) /\ (\A c \in Range(v), d \in Range(w) : c < d) => Increasing(wire')
    BY <2>1, QueueJoined, Zenon
  <2> QED
    BY <1>3, <1>9, <2>1
<1>11. \A c \in Range(now.wire), d \in Range(w) : c < d
  BY <1>1, <1>2, <1>3, <1>9 DEF QueueReady
<1> QED
  BY <1>1, <1>2, <1>3, <1>5, <1>6, <1>7, <1>8, <1>9, <1>10, <1>11

\* Sending keeps the order.
LEMMA OrderSent ==
  ASSUME TypeOK, KindsKnown, Order, NEW S, NEW q, NEW now, NowReady(now), QueueReady(q, now, S), Sent(S, q, now),
         kind' = kind, issued' >= issued, issued' \in Nat, Increasing(receiveQueue')
  PROVE  Order'
<1>1. /\ S \subseteq Range(q) /\ S \subseteq Cmds /\ (\A c \in S : New(c))
      /\ \A c \in Cmds : New(c)' <=> New(c) /\ c \notin S
      /\ \A c \in Cmds : Active(c)' <=> (c \in S /\ Answered(c)) \/ (c \notin S /\ now.stage[c] = "active")
      /\ Range(wire') = Range(now.wire) \cup {c \in S : Answered(c)}
      /\ Range(now.wire) \subseteq Range(wire) /\ Increasing(wire')
  BY SentEffect
<1>2. /\ Range(sendQueue') \subseteq Range(q) /\ Increasing(sendQueue') /\ sending' = now.sending \cup Streamed(S)
      /\ \A c \in S, d \in Range(sendQueue') : c < d \/ (c = d /\ c \in Streamed(S) /\ c = Head(sendQueue'))
      /\ S = {} => sendQueue' = q
      /\ S # {} => Head(q) \in S
  BY DEF Sent
<1>3. Range(q) \subseteq Cmds /\ Range(wire) \subseteq Cmds /\ Range(q) \subseteq 0..issued' \cup {Quit}
  BY QueueElements DEF QueueReady, TypeOK
<1>4. \A c \in Cmds : Answered(c)' <=> Answered(c)
  BY DEF Answered
<1>5. \A c \in Cmds : now.stage[c] = "active" => Active(c)
  BY DEF NowReady, Active
<1>6. \A c \in Range(sendQueue') : New(c)' \/ (c \in sending' /\ c = Head(sendQueue'))
  <2>1. SUFFICES ASSUME NEW c \in Range(sendQueue'), ~New(c)' PROVE c \in sending' /\ c = Head(sendQueue')
    OBVIOUS
  <2>2. CASE c \in S
    <3>1. ~(c < c)
      BY <1>2, <1>3, CmdsNumbers
    <3> QED
      BY <1>2, <2>2, <3>1
  <2>3. CASE c \notin S
    <3>1. c \in now.sending /\ c = Head(q) /\ ~New(c)
      BY <1>1, <1>2, <1>3, <2>1, <2>3 DEF QueueReady
    <3>2. S = {}
      BY <1>1, <1>2, <3>1 DEF QueueReady
    <3> QED
      BY <1>2, <3>1, <3>2
  <2> QED
    BY <2>2, <2>3
<1>7. \A c \in sending' : ~New(c)' /\ kind'[c] = "stream"
  BY <1>1, <1>2 DEF Streamed, NowReady, Order, TypeOK
<1>8. \A c \in Range(wire') : ~New(c)' /\ Answered(c)'
  BY <1>1, <1>3, <1>4 DEF Order
<1>9. \A c \in Range(wire'), d \in Range(sendQueue') : New(d)' => c < d
  <2>1. SUFFICES ASSUME NEW c \in Range(wire'), NEW d \in Range(sendQueue'), New(d)' PROVE c < d
    OBVIOUS
  <2>2. d \in Range(q) /\ New(d) /\ d \notin S
    BY <1>1, <1>2, <1>3, <2>1
  <2>3. CASE c \in S
    BY <1>2, <2>2, <2>3
  <2>4. CASE c \in Range(wire)
    BY <2>2, <2>4 DEF QueueReady
  <2> QED
    BY <1>1, <2>3, <2>4
<1>10. \A d \in Cmds : Active(d)' => Answered(d)' /\ d <= issued'
  <2>1. SUFFICES ASSUME NEW d \in Cmds, Active(d)' PROVE Answered(d)' /\ d <= issued'
    OBVIOUS
  <2>2. CASE d \in S
    <3>1. d # Quit /\ Answered(d)
      BY <1>1, <2>1, <2>2, QuitUnanswered
    <3> QED
      BY <1>1, <1>3, <1>4, <2>2, <3>1
  <2>3. CASE d \notin S
    <3>1. Active(d)
      BY <1>1, <1>5, <2>1, <2>3
    <3>2. Answered(d) /\ d <= issued /\ issued \in Nat /\ d \in Int
      BY <3>1, CmdsNumbers DEF Order, TypeOK
    <3> QED
      BY <1>4, <3>2
  <2> QED
    BY <2>2, <2>3
<1>11. \A d \in Cmds : Active(d)' => \A c \in Range(sendQueue') \cup Range(waiting') : New(c)' => d < c
  <2>1. SUFFICES ASSUME NEW d \in Cmds, Active(d)', NEW c \in Range(sendQueue') \cup Range(waiting'), New(c)' PROVE d < c
    OBVIOUS
  <2>2. c \in Cmds /\ New(c) /\ c \notin S
    BY <1>1, <1>2, <1>3, <2>1 DEF QueueReady
  <2>3. CASE d \in S
    <3>1. d # Quit
      BY <1>1, <2>1, <2>3, QuitUnanswered
    <3>2. CASE c \in Range(sendQueue')
      BY <1>2, <2>2, <2>3, <3>2
    <3>3. CASE c \in Range(waiting')
      BY <1>1, <2>3, <3>1, <3>3 DEF QueueReady
    <3> QED
      BY <3>2, <3>3
  <2>4. CASE d \notin S
    <3>1. Active(d)
      BY <1>1, <1>5, <2>1, <2>4
    <3> QED
      BY <1>2, <2>1, <2>2, <3>1 DEF QueueReady
  <2> QED
    BY <2>3, <2>4
<1>12. Increasing(waiting')
  BY DEF QueueReady
<1> QED
  BY <1>1, <1>2, <1>6, <1>7, <1>8, <1>9, <1>10, <1>11, <1>12 DEF Order, Increasing

\* Taking away keeps the order.
LEMMA OrderShrinks ==
  ASSUME TypeOK, Order, Shrinks
  PROVE  Order'
<1>1. /\ Increasing(wire') /\ Range(wire') \subseteq Range(wire) /\ Range(wire) \subseteq Cmds
      /\ Increasing(sendQueue') /\ Range(sendQueue') \subseteq Range(sendQueue) /\ Range(sendQueue) \subseteq Cmds
      /\ Range(waiting) \subseteq Cmds /\ (sendQueue' = sendQueue \/ Range(sendQueue') = {})
  BY WireLess, QueueElements DEF Shrinks, Order, TypeOK
<1>2. \A c \in Cmds : (New(c)' <=> New(c)) /\ (Active(c)' => Active(c)) /\ (Answered(c)' <=> Answered(c))
  BY DEF Shrinks, New, Active, Answered, fixed
<1>3. /\ UNCHANGED <<kind, issued, waiting, sending>> /\ Increasing(receiveQueue') /\ sending \subseteq Cmds
  BY DEF Shrinks, fixed, TypeOK
<1>4. \A c \in Range(sendQueue') : New(c)' \/ (c \in sending' /\ c = Head(sendQueue'))
  BY <1>1, <1>2, <1>3 DEF Order
<1>5. \A c \in sending' : ~New(c)' /\ kind'[c] = "stream"
  BY <1>2, <1>3 DEF Order
<1>6. \A c \in Range(wire') : ~New(c)' /\ Answered(c)'
  BY <1>1, <1>2 DEF Order
<1>7. \A c \in Range(wire'), d \in Range(sendQueue') : New(d)' => c < d
  BY <1>1, <1>2 DEF Order
<1>8. \A d \in Cmds : Active(d)' => Answered(d)' /\ d <= issued'
  BY <1>2, <1>3 DEF Order
<1>9. \A d \in Cmds : Active(d)' => \A c \in Range(sendQueue') \cup Range(waiting') : New(c)' => d < c
  BY <1>1, <1>2, <1>3 DEF Order
<1> QED
  BY <1>1, <1>3, <1>4, <1>5, <1>6, <1>7, <1>8, <1>9 DEF Order, Increasing

\* When nothing is sent.
LEMMA NothingSent ==
  ASSUME TypeOK, NEW now, now.stage \in [Cmds -> Stages], now.wire \in Seq(Cmds), NEW q, Sent({}, q, now)
  PROVE  stage' = now.stage /\ sending' = now.sending /\ wire' = now.wire /\ sendQueue' = q /\ quitDone' = quitDone
<1>1. stage' = now.stage /\ sending' = now.sending /\ sendQueue' = q /\ quitDone' = quitDone
  BY DEF Sent, Streamed, TypeOK
<1>2. PICK w \in Seq(Cmds) : wire' = now.wire \o w /\ Range(w) = {}
  BY DEF Sent, Written
<1>3. w = <<>>
  BY <1>2, QueueElements
<1>4. wire' = now.wire
  BY <1>2, <1>3
<1> QED
  BY <1>1, <1>4

\* With pipelining a stream that is started is the last command sent, and at the head of the rest.
LEMMA StreamSent ==
  ASSUME TypeOK, KindsKnown, Order, NEW S, NEW q, NEW now, NowReady(now), QueueReady(q, now, S), Sent(S, q, now),
         pipelining, now.sending = {}
  PROVE  /\ sending' # {} => sendQueue' # <<>> /\ sending' = {Head(sendQueue')} /\ Quit \notin S
         /\ \A c \in sending' : wire' # <<>> => c = wire'[Len(wire')]
<1>1. S \subseteq Cmds /\ now.wire \in Seq(Cmds)
  <2>1. S \subseteq Cmds
    BY SentEffect
  <2>2. now.wire \in Seq(Cmds)
    BY WireLess DEF NowReady
  <2> QED
    BY <2>1, <2>2
<1>2. /\ \A c \in Streamed(S) : sendQueue' # <<>> /\ c = Head(sendQueue') /\ \A d \in S : d <= c
      /\ sending' = Streamed(S)
  BY DEF Sent
<1>3. ASSUME NEW c \in Streamed(S) PROVE Quit \notin S
  <2>1. c \in Calls
    BY <1>1, <1>3, QuitUnanswered, CmdsNumbers DEF Streamed
  <2>2. c < Quit /\ Quit \in Int /\ c \in Int
    BY <2>1, CmdsNumbers
  <2> QED
    BY <1>2, <1>3, <2>2
<1>4. ASSUME NEW c \in Streamed(S) PROVE c = wire'[Len(wire')]
  <2>1. PICK w \in Seq(Cmds) : wire' = now.wire \o w /\ Increasing(w) /\ Range(w) = S \cap {d \in Cmds : Answered(d)}
    BY DEF Sent, Written
  <2>2. c \in Range(w)
    BY <1>1, <1>4, <2>1 DEF Streamed, Answered
  <2>3. w # <<>>
    BY <2>2, QueueElements
  <2>4. w[Len(w)] \in Range(w) /\ c <= w[Len(w)]
    BY <2>1, <2>2, <2>3, QueueElements
  <2>5. w[Len(w)] \in S /\ w[Len(w)] \in Int /\ c \in Int
    BY <1>1, <2>1, <2>2, <2>4, CmdsNumbers
  <2>6. c = w[Len(w)]
    BY <1>2, <1>4, <2>4, <2>5
  <2>7. ASSUME NEW v \in Seq(Cmds), wire' = v \o w PROVE wire'[Len(wire')] = w[Len(w)]
    <3>1. \A s, t \in Seq(Cmds) : \A u : u = s \o t =>
            /\ u \in Seq(Cmds) /\ Range(u) = Range(s) \cup Range(t) /\ Len(u) = Len(s) + Len(t)
            /\ t # <<>> => u[Len(u)] = t[Len(t)]
            /\ s # <<>> => u # <<>> /\ Head(u) = Head(s)
            /\ Increasing(s) /\ Increasing(t) /\ (\A e \in Range(s), d \in Range(t) : e < d) => Increasing(u)
      BY ONLY QueueJoined, Zenon
    <3>2. v \in Seq(Cmds) /\ w \in Seq(Cmds) /\ w # <<>> /\ wire' = v \o w
      BY <2>3, <2>7
    <3> QED
      BY ONLY <3>1, <3>2, Zenon
  <2> QED
    BY <1>1, <2>1, <2>6, <2>7
<1> QED
  BY <1>2, <1>3, <1>4

\* Without pipelining one command at a time is written.
LEMMA OneSent ==
  ASSUME NEW S, NEW q, NEW now, Sent(S, q, now), ~pipelining, now.wire = <<>>
  PROVE  Len(wire') <= 1
<1>1. PICK w \in Seq(Cmds) : wire' = now.wire \o w /\ Len(w) <= 1
  BY DEF Sent, Written
<1>2. wire' = w
  BY <1>1
<1> QED
  BY <1>1, <1>2

-----------------------------------------------------------------------------
(***************************************************************************)
(* addCommand.                                                             *)
(***************************************************************************)
\* The command c comes after all others but those that wait.
Adding(c) ==
  /\ c \in Cmds /\ c # Quit /\ New(c) /\ c <= issued' /\ issued <= issued' /\ issued' \in 0..MaxCalls
  /\ \A d \in Range(sendQueue) \cup Range(receiveQueue) \cup Range(wire) : d < c
  /\ \A d \in Cmds : Active(d) => d < c
  /\ waiting' \in Seq(Cmds) /\ Increasing(waiting')
  /\ \A d \in Range(waiting') : d \in 1..issued' /\ New(d) /\ c < d
  /\ kind' = kind

\* It is queued, and those of S are sent.
Enters(c, S) ==
  /\ receiveQueue' = Expecting(c) /\ Sent(S, Append(sendQueue, c), Now)
  /\ S # {} => sendQueue = <<>> /\ (~pipelining => receiveQueue = <<>>)
  /\ S = {} => sendQueue # <<>> \/ (~pipelining /\ receiveQueue # <<>>)
  /\ pipelining /\ sendQueue = <<>> => SentAll(S, Append(sendQueue, c))

\* Nothing is over yet when a command is added.
LEMMA NowIsReady ==
  ASSUME TypeOK
  PROVE  NowReady(Now) /\ Now.stage = stage /\ Now.sending = sending /\ Now.wire = wire
BY DEF NowReady, Now, TypeOK, Stages

\* Queueing is sending nothing.
LEMMA OnlyQueued ==
  ASSUME TypeOK, NEW q \in Seq(Cmds), Increasing(q), sendQueue' = q, UNCHANGED commands
  PROVE  Sent({}, q, Now)
<1>1. Written({}, Now)
  <2>1. wire' = wire \o <<>> /\ Len(<<>>) <= 1
    BY DEF commands, TypeOK
  <2>2. Range(<<>>) = {} \cap {d \in Cmds : Answered(d)}
    BY QueueElements
  <2> QED
    BY <2>1, <2>2, QueueElements, NowIsReady, Zenon DEF Written
<1>2. stage' = [d \in Cmds |-> IF d \notin {} THEN Now.stage[d] ELSE IF Answered(d) THEN "active" ELSE "over"]
  BY NowIsReady DEF commands, TypeOK
<1>3. Streamed({}) = {}
  BY DEF Streamed
<1>4. sendQueue' \in Seq(Cmds) /\ Increasing(sendQueue') /\ Range(sendQueue') \subseteq Range(q)
      /\ Range(q) \subseteq {} \cup Range(sendQueue') /\ {} \subseteq Range(q)
  BY DEF Increasing
<1>5. \A d \in {} : FALSE
  OBVIOUS
<1>6. quitDone' = (quitDone \/ Quit \in {}) /\ sending' = Now.sending \cup Streamed({})
  BY <1>3, NowIsReady DEF commands, TypeOK
<1>7. pipelining => \A d \in Streamed({}) : sendQueue' # <<>> /\ d = Head(sendQueue') /\ \A e \in {} : e <= d
  BY <1>3
<1> QED
  BY <1>1, <1>2, <1>4, <1>5, <1>6, <1>7, Zenon DEF Sent

\* What addCommand does while it is enabled.
LEMMA AddEnters ==
  ASSUME TypeOK, KindsKnown, Order, NEW c, Adding(c),
         IF pipelining THEN AddCommandEnablePipeline(c) ELSE AddCommandEnable(c)
  PROVE  \E S : Enters(c, S)
<1>1. c \in Cmds /\ sendQueue \in Seq(Cmds) /\ Increasing(sendQueue) /\ \A d \in Range(sendQueue) : d < c
  BY DEF TypeOK, Order, Adding
<1>2. \A t : t = Append(sendQueue, c) => t \in Seq(Cmds) /\ Increasing(t)
  BY <1>1, QueueAppended, Zenon
<1>3. ASSUME sendQueue' = Append(sendQueue, c), UNCHANGED commands PROVE Sent({}, Append(sendQueue, c), Now)
  <2>1. PICK q : q = Append(sendQueue, c)
    OBVIOUS
  <2> QED
    BY <1>2, <1>3, <2>1, OnlyQueued
<1>4. CASE pipelining
  <2>1. receiveQueue' = Expecting(c)
    BY <1>4 DEF AddCommandEnablePipeline
  <2>2. CASE sendQueue = <<>>
    <3>1. NextSendCmd(<<c>>, Now) /\ <<c>> \in Seq(Cmds) /\ Increasing(<<c>>) /\ Append(sendQueue, c) = <<c>>
      BY <1>1, <1>4, <2>2, QueueSingle DEF AddCommandEnablePipeline
    <3>2. PICK S : Sent(S, <<c>>, Now) /\ SentAll(S, <<c>>)
      BY <3>1, NextSends DEF TypeOK
    <3>3. S # {}
      <4>1. <<c>> # <<>> /\ Head(<<c>>) = c
        OBVIOUS
      <4>2. c \notin sending
        BY DEF Order, Adding
      <4> QED
        BY <3>2, <4>1, <4>2 DEF SentAll
    <3> QED
      BY <1>4, <2>1, <2>2, <3>1, <3>2, <3>3 DEF Enters
  <2>3. CASE sendQueue # <<>>
    <3>1. sendQueue' = Append(sendQueue, c) /\ UNCHANGED commands
      BY <1>4, <2>3 DEF AddCommandEnablePipeline
    <3> QED
      BY <1>3, <1>4, <2>1, <2>3, <3>1 DEF Enters
  <2> QED
    BY <2>2, <2>3
<1>5. CASE ~pipelining
  <2>1. receiveQueue' = Expecting(c)
    BY <1>5 DEF AddCommandEnable
  <2>2. CASE sendQueue = <<>> /\ receiveQueue = <<>>
    <3>1. Start(<<c>>, Now) /\ sendQueue' = sendQueue /\ Append(sendQueue, c) = <<c>>
      BY <1>1, <1>5, <2>2 DEF AddCommandEnable
    <3>2. <<c>> \in Seq(Cmds) /\ Increasing(<<c>>) /\ Range(<<c>>) = {c} /\ Head(<<c>>) = c
      BY <1>1, QueueSingle
    <3>3. PICK w : w = Filter(<<c>>, {d \in Cmds : Answered(d)})
      OBVIOUS
    <3>4. w \in Seq(Cmds) /\ Range(w) = Range(<<c>>) \cap {d \in Cmds : Answered(d)} /\ Increasing(w)
      BY <3>2, <3>3, FilterOf
    <3>5. Len(w) <= 1
      BY <3>2, <3>4, OnlyOne
    <3>6. Written({c}, Now)
      BY <3>1, <3>2, <3>3, <3>4, <3>5 DEF Written, Start
    <3>7. Sent({c}, <<c>>, Now)
      <4>1. sendQueue' = <<>> /\ Range(<<>>) = {} /\ <<>> \in Seq(Cmds) /\ Increasing(<<>>)
        BY <2>2, <3>1, QueueElements
      <4>2. /\ stage' = [d \in Cmds |-> IF d \notin {c} THEN Now.stage[d] ELSE IF Answered(d) THEN "active" ELSE "over"]
            /\ sending' = Now.sending \cup Streamed({c}) /\ quitDone' = (quitDone \/ Quit \in {c})
        BY <3>1, <3>2 DEF Start, Streamed
      <4>3. {c} \subseteq Range(<<c>>) /\ Range(<<c>>) \subseteq {c} /\ Head(<<c>>) \in {c}
        BY <3>2
      <4> QED
        BY <1>5, <3>6, <4>1, <4>2, <4>3, Zenon DEF Sent
    <3> QED
      BY <1>5, <2>1, <2>2, <3>1, <3>7 DEF Enters
  <2>3. CASE ~(sendQueue = <<>> /\ receiveQueue = <<>>)
    <3>1. sendQueue' = Append(sendQueue, c) /\ UNCHANGED commands
      BY <1>5, <2>3 DEF AddCommandEnable
    <3> QED
      BY <1>3, <1>5, <2>1, <2>3, <3>1 DEF Enters
  <2> QED
    BY <2>2, <2>3
<1> QED
  BY <1>4, <1>5

-----------------------------------------------------------------------------
(***************************************************************************)
(* What sending does to each part of the invariant.                        *)
(***************************************************************************)
\* What is queued and awaited are commands issued, before those that wait.
KnownReady(q, S) ==
  /\ kind' = kind /\ issued' \in 0..MaxCalls /\ issued <= issued'
  /\ Setup \in Range(q) => Setup \in S
  /\ Range(receiveQueue') \subseteq 0..issued' \cup {Quit}
  /\ \A c \in Range(waiting') : c \in 1..issued' /\ New(c)
  /\ \A c \in Range(waiting'), d \in Range(receiveQueue') : d # Quit => d < c
  /\ Open' \/ killing' => New(Quit) /\ Quit \notin Range(q) \cup Range(receiveQueue')
  /\ ~New(Quit) => q = <<>>
  /\ \A c \in doomed' : c \in Cmds /\ ~New(c)

\* What is sent was known, and nothing is sent after the QUIT.
LEMMA KnownSent ==
  ASSUME TypeOK, KindsKnown, Order, Known, NEW S, NEW q, NEW now, NowReady(now), QueueReady(q, now, S), Sent(S, q, now),
         KnownReady(q, S)
  PROVE  Known'
<1>1. /\ S \subseteq Range(q) /\ S \subseteq Cmds /\ (\A c \in S : New(c))
      /\ \A c \in Cmds : New(c)' <=> New(c) /\ c \notin S
      /\ Range(wire') = Range(now.wire) \cup {c \in S : Answered(c)}
      /\ Range(now.wire) \subseteq Range(wire)
  BY SentEffect
<1>2. /\ Range(sendQueue') \subseteq Range(q)
      /\ \A c \in S, d \in Range(sendQueue') : c < d \/ (c = d /\ c \in Streamed(S) /\ c = Head(sendQueue'))
      /\ S = {} => sendQueue' = q
      /\ sendQueue' \in Seq(Cmds)
  BY DEF Sent
<1>3. Range(q) \subseteq 0..issued' \cup {Quit}
  BY DEF QueueReady
<1>4. MaxCalls \in Nat /\ issued \in 0..MaxCalls /\ issued' \in 0..MaxCalls /\ issued <= issued' /\ Quit = MaxCalls + 1 /\ Setup = 0
      /\ Cmds = 0..Quit /\ Calls = 1..MaxCalls
  BY CommandQueueAssumption DEF TypeOK, KnownReady, Quit, Setup, Cmds, Calls
<1>5. Range(sendQueue') \cup Range(receiveQueue') \cup Range(wire') \subseteq 0..issued' \cup {Quit}
  <2>1. Range(wire) \subseteq 0..issued' \cup {Quit}
    BY <1>4 DEF Known
  <2> QED
    BY <1>1, <1>2, <1>3, <2>1 DEF KnownReady
<1>6. \A c \in Calls : c > issued' => New(c)'
  <2>1. SUFFICES ASSUME NEW c \in Calls, c > issued' PROVE New(c)'
    OBVIOUS
  <2>2. c > issued /\ c \in Cmds /\ c \notin S
    BY <1>1, <1>3, <1>4, <2>1
  <2> QED
    BY <1>1, <2>2 DEF Known
<1>7. Setup \notin Range(sendQueue')
  <2>1. SUFFICES ASSUME Setup \in Range(sendQueue') PROVE FALSE
    OBVIOUS
  <2>2. Setup \in S
    BY <1>2, <2>1 DEF KnownReady
  <2>3. Setup \notin Streamed(S) /\ ~(Setup < Setup)
    BY <1>4, QuitUnanswered DEF Streamed
  <2> QED
    BY <1>2, <2>1, <2>2, <2>3
<1>8. \A c \in Range(waiting') : c \in 1..issued' /\ New(c)'
  <2>1. SUFFICES ASSUME NEW c \in Range(waiting') PROVE c \in 1..issued' /\ New(c)'
    OBVIOUS
  <2>2. c \in 1..issued' /\ New(c)
    BY <2>1 DEF KnownReady
  <2>3. c # Quit /\ c \in Cmds /\ ~(c < c)
    BY <1>4, <2>2
  <2>4. c \notin S
    BY <1>1, <2>1, <2>3 DEF QueueReady
  <2> QED
    BY <1>1, <2>2, <2>3, <2>4
<1>9. \A c \in Range(waiting'), d \in Range(sendQueue') \cup Range(receiveQueue') : d # Quit => d < c
  BY <1>2 DEF KnownReady, QueueReady
<1>10. Open' \/ killing' => New(Quit)' /\ Quit \notin Range(sendQueue') \cup Range(receiveQueue')
  BY <1>1, <1>2, <1>4 DEF KnownReady
<1>11. ~New(Quit)' => sendQueue' = <<>>
  <2>1. SUFFICES ASSUME ~New(Quit)' PROVE sendQueue' = <<>>
    OBVIOUS
  <2>2. CASE Quit \in S
    <3>1. Quit \notin Streamed(S)
      BY QuitUnanswered DEF Streamed
    <3>2. \A d \in Cmds : ~(Quit < d)
      BY <1>4
    <3>3. Range(sendQueue') = {}
      BY <1>2, <2>2, <3>1, <3>2, QueueElements
    <3> QED
      BY <1>2, <3>3, QueueElements
  <2>3. CASE Quit \notin S
    <3>1. ~New(Quit)
      BY <1>1, <1>4, <2>1, <2>3
    <3>2. q = <<>>
      BY <3>1 DEF KnownReady
    <3>3. Range(q) = {} /\ S = {}
      BY <1>1, <3>2, QueueElements
    <3> QED
      BY <1>2, <3>2, <3>3
  <2> QED
    BY <2>2, <2>3
<1>12. \A c \in doomed' : ~New(c)'
  BY <1>1 DEF KnownReady
<1>13. quitDone' => ~New(Quit)'
  <2>1. quitDone' => quitDone \/ Quit \in S
    BY DEF Sent
  <2> QED
    BY <1>1, <2>1, CmdsNumbers DEF Known
<1> QED
  BY <1>13, <1>5, <1>6, <1>7, <1>8, <1>9, <1>10, <1>11, <1>12 DEF Known

\* What is owed an answer is awaited, and what is queued will be.
Awaited(q, now) ==
  /\ kind' = kind
  /\ \A c \in Cmds : now.stage[c] = "active" <=> c \in Range(now.wire)
  /\ Range(now.wire) \subseteq Range(receiveQueue') /\ Range(receiveQueue') \subseteq Cmds
  /\ \A c \in Range(receiveQueue') : New(c) => c \in Range(q)
  /\ \A c \in Range(q) : New(c) /\ kind[c] # "close" => c \in Range(receiveQueue')

\* Sending keeps who expects an answer and who is owed one the same.
LEMMA MatchedSent ==
  ASSUME TypeOK, KindsKnown, Order, NEW S, NEW q, NEW now, NowReady(now), QueueReady(q, now, S), Sent(S, q, now),
         Awaited(q, now)
  PROVE  Matched'
<1>1. /\ S \subseteq Range(q) /\ S \subseteq Cmds /\ (\A c \in S : New(c))
      /\ \A c \in Cmds : New(c)' <=> New(c) /\ c \notin S
      /\ \A c \in Cmds : Active(c)' <=> (c \in S /\ Answered(c)) \/ (c \notin S /\ now.stage[c] = "active")
      /\ Range(wire') = Range(now.wire) \cup {c \in S : Answered(c)}
      /\ Range(now.wire) \subseteq Range(wire)
  BY SentEffect
<1>2. Range(sendQueue') \subseteq Range(q) /\ Range(q) \subseteq S \cup Range(sendQueue') /\ Range(q) \subseteq Cmds
  BY QueueElements DEF Sent, QueueReady
<1>3. \A c \in Range(wire) : ~New(c)
  BY DEF Order
<1>4. \A c \in Cmds : Active(c)' <=> c \in Range(wire')
  BY <1>1, <1>3 DEF Awaited
<1>5. \A c \in S : Answered(c) => c \in Range(receiveQueue')
  BY <1>1 DEF Awaited, Answered
<1>6. Range(wire') \subseteq Range(receiveQueue')
  BY <1>1, <1>5 DEF Awaited
<1>7. \A c \in Range(receiveQueue') : New(c)' => c \in Range(sendQueue')
  BY <1>1, <1>2 DEF Awaited
<1>8. \A c \in Range(sendQueue') : New(c)' /\ kind'[c] # "close" => c \in Range(receiveQueue')
  BY <1>1, <1>2 DEF Awaited
<1> QED
  BY <1>4, <1>6, <1>7, <1>8 DEF Matched

\* With pipelining one stream is written at a time.
LEMMA OneStreamSent ==
  ASSUME TypeOK, KindsKnown, Order, NEW S, NEW q, NEW now, NowReady(now), QueueReady(q, now, S), Sent(S, q, now),
         pipelining, now.sending = {}, q # <<>> => New(Quit)
  PROVE  OneStream'
<1>1. /\ sending' # {} => sendQueue' # <<>> /\ sending' = {Head(sendQueue')} /\ Quit \notin S
      /\ \A c \in sending' : wire' # <<>> => c = wire'[Len(wire')]
  BY StreamSent
<1>2. S \subseteq Range(q) /\ Quit \in Cmds /\ \A c \in Cmds : New(c)' <=> New(c) /\ c \notin S
  BY SentEffect, CmdsNumbers
<1>3. sending' = Streamed(S)
  BY DEF Sent
<1>4. sending' # {} => New(Quit)'
  <2>1. S # {} => q # <<>>
    BY <1>2, QueueElements
  <2>2. sending' # {} => S # {}
    BY <1>3 DEF Streamed
  <2> QED
    BY <1>1, <1>2, <2>1, <2>2
<1> QED
  BY <1>1, <1>4 DEF OneStream

-----------------------------------------------------------------------------
(***************************************************************************)
(* What taking away does.                                                  *)
(***************************************************************************)
\* Taking away leaves only commands issued.
LEMMA KnownShrinks ==
  ASSUME TypeOK, Order, Known, Shrinks, Open' \/ killing' => Open \/ killing, quitDone' => quitDone, \A c \in doomed' : c \in Cmds /\ ~New(c)
  PROVE  Known'
<1>1. /\ Range(wire') \subseteq Range(wire) /\ Range(sendQueue') \subseteq Range(sendQueue)
      /\ Range(receiveQueue') \subseteq Range(receiveQueue)
      /\ UNCHANGED <<issued, waiting>> /\ (sendQueue' = sendQueue \/ sendQueue' = <<>>)
  BY WireLess, QueueElements DEF Shrinks
<1>2. \A c \in Cmds : New(c)' <=> New(c)
  BY DEF Shrinks, New, Active
<1>3. Range(waiting) \subseteq Cmds /\ Quit \in Cmds /\ Calls \subseteq Cmds
  BY QueueElements, CmdsNumbers, CommandQueueAssumption DEF TypeOK, Calls, Cmds
<1>4. /\ Range(sendQueue') \cup Range(receiveQueue') \cup Range(wire') \subseteq 0..issued' \cup {Quit}
      /\ \A c \in Calls : c > issued' => New(c)'
      /\ Setup \notin Range(sendQueue')
  BY <1>1, <1>2, <1>3 DEF Known
<1>5. /\ \A c \in Range(waiting') : c \in 1..issued' /\ New(c)'
      /\ \A c \in Range(waiting'), d \in Range(sendQueue') \cup Range(receiveQueue') : d # Quit => d < c
  BY <1>1, <1>2, <1>3 DEF Known
<1>6. /\ Open' \/ killing' => New(Quit)' /\ Quit \notin Range(sendQueue') \cup Range(receiveQueue')
      /\ ~New(Quit)' => sendQueue' = <<>>
      /\ quitDone' => ~New(Quit)'
      /\ \A c \in doomed' : ~New(c)'
  BY <1>1, <1>2, <1>3 DEF Known
<1> QED
  BY <1>4, <1>5, <1>6 DEF Known

\* A stream that is being written stays alone.
LEMMA OneStreamShrinks ==
  ASSUME TypeOK, KindsKnown, Order, OneStream, Shrinks, sendQueue' = sendQueue \/ status' = "ending",
         status = "ending" => status' = "ending"
  PROVE  OneStream'
<1>1. wire' # <<>> => wire # <<>> /\ wire'[Len(wire')] = wire[Len(wire)]
  BY WireLess DEF Shrinks
<1>2. sending' = sending /\ sending \subseteq Cmds /\ Quit \in Cmds
  BY CmdsNumbers DEF Shrinks, TypeOK
<1>3. \A c \in Cmds : (New(c)' <=> New(c)) /\ (Active(c)' => Active(c))
  BY DEF Shrinks, New, Active
<1>4. sending' # {} => \/ sendQueue' # <<>> /\ sending' = {Head(sendQueue')}
                       \/ sendQueue' = <<>> /\ status' = "ending" /\ \E c \in sending' : sending' = {c}
  BY <1>2 DEF OneStream, Shrinks
<1>5. sending' # {} => New(Quit)'
  BY <1>2, <1>3 DEF OneStream
<1>6. \A c \in sending' : Active(c)' /\ wire' # <<>> => c = wire'[Len(wire')]
  BY <1>1, <1>2, <1>3 DEF OneStream
<1> QED
  BY <1>4, <1>5, <1>6 DEF OneStream

-----------------------------------------------------------------------------
(***************************************************************************)
(* What adding a command does, to all that is sent and queued.             *)
(***************************************************************************)
\* The receiveQueue with the command added to it.
LEMMA ExpectingIt ==
  ASSUME TypeOK, Order, NEW c, Adding(c), receiveQueue' = Expecting(c)
  PROVE  /\ receiveQueue' \in Seq(Cmds) /\ Increasing(receiveQueue')
         /\ Range(receiveQueue') = Range(receiveQueue) \cup IF kind[c] = "close" THEN {} ELSE {c}
         /\ receiveQueue # <<>> => receiveQueue' # <<>> /\ Head(receiveQueue') = Head(receiveQueue)
<1>1. receiveQueue \in Seq(Cmds) /\ Increasing(receiveQueue) /\ c \in Cmds /\ \A d \in Range(receiveQueue) : d < c
  BY DEF TypeOK, Order, Adding
<1>2. \A t : t = Append(receiveQueue, c) =>
        /\ t \in Seq(Cmds) /\ t # <<>> /\ Range(t) = Range(receiveQueue) \cup {c} /\ Increasing(t)
        /\ (receiveQueue # <<>> => Head(t) = Head(receiveQueue))
  BY <1>1, QueueAppended, Zenon
<1>3. CASE kind[c] = "close"
  BY <1>1, <1>3 DEF Expecting
<1>4. CASE kind[c] # "close"
  BY <1>2, <1>4 DEF Expecting
<1> QED
  BY <1>3, <1>4

\* What is added comes after all that was sent.
LEMMA AddingReady ==
  ASSUME TypeOK, KindsKnown, Known, Order, NEW c, Adding(c), NEW S, S # {} => sendQueue = <<>>, NEW q, q = Append(sendQueue, c)
  PROVE  QueueReady(q, Now, S) /\ Range(q) = Range(sendQueue) \cup {c}
<1>1. /\ sendQueue \in Seq(Cmds) /\ Increasing(sendQueue) /\ Range(sendQueue) \subseteq Cmds /\ c \in Cmds
      /\ Range(wire) \subseteq Cmds /\ Range(waiting') \subseteq Cmds /\ Range(waiting) \subseteq Cmds
      /\ \A d \in Range(sendQueue) : d < c
  BY QueueElements DEF TypeOK, Order, Adding
<1>2. /\ q \in Seq(Cmds) /\ q # <<>> /\ Range(q) = Range(sendQueue) \cup {c} /\ Increasing(q)
      /\ sendQueue = <<>> => Head(q) = c
      /\ sendQueue # <<>> => Head(q) = Head(sendQueue)
  BY <1>1, QueueAppended, Zenon
<1>3. /\ c # Quit /\ c \in 0..issued' /\ c < Quit /\ issued <= issued' /\ issued \in Nat /\ issued' \in 0..MaxCalls
      /\ issued' \in Nat
  BY CmdsNumbers, CommandQueueAssumption DEF Adding, Cmds, Quit, TypeOK
<1>4. Range(q) \subseteq 0..issued' \cup {Quit}
  BY <1>2, <1>3 DEF Known
<1>5. Range(sendQueue) = {} <=> sendQueue = <<>>
  BY <1>1, QueueElements
<1>6. \A d \in Range(q) : New(d) \/ (d \in Now.sending /\ d = Head(q))
  BY <1>2, <1>5, NowIsReady DEF Order, Adding
<1>7. \A d \in Range(wire), e \in Range(q) : New(e) => d < e
  BY <1>2 DEF Order, Adding
<1>8. \A d \in Cmds, e \in Range(q) : Active(d) /\ New(e) => d < e
  BY <1>2 DEF Order, Adding
<1>9. S # {} => New(Head(q))
  BY <1>2 DEF Adding
<1>10. \A d \in Range(waiting'), e \in Range(q) : e # Quit => e < d
  <2>1. SUFFICES ASSUME NEW d \in Range(waiting'), NEW e \in Range(q) PROVE e < d
    OBVIOUS
  <2>2. c < d /\ (e = c \/ e < c) /\ c \in Int /\ d \in Int /\ e \in Int
    BY <1>1, <1>2, <2>1, CmdsNumbers DEF Adding
  <2> QED
    BY <2>2
<1>11. \A d \in Range(waiting'), e \in Cmds : Active(e) /\ New(d) => e < d
  <2>1. SUFFICES ASSUME NEW d \in Range(waiting'), NEW e \in Cmds, Active(e) PROVE e < d
    OBVIOUS
  <2>2. c < d /\ e < c /\ c \in Int /\ d \in Int /\ e \in Int
    BY <1>1, <2>1, CmdsNumbers DEF Adding
  <2> QED
    BY <2>2
<1>12. Increasing(waiting')
  BY DEF Adding
<1> QED
  BY <1>1, <1>2, <1>4, <1>6, <1>7, <1>8, <1>9, <1>10, <1>11, <1>12 DEF QueueReady

\* The order and the match are kept.
LEMMA Added ==
  ASSUME TypeOK, KindsKnown, Known, Order, Matched, Open, doomed = {}, doomed' = {},
         NEW c, Adding(c), NEW S, Enters(c, S), c = Setup => Setup \in S, killing' => Open'
  PROVE  /\ Order' /\ Known' /\ Matched'
         /\ receiveQueue' \in Seq(Cmds) /\ sendQueue' \in Seq(Cmds) /\ wire' \in Seq(Cmds)
         /\ stage' \in [Cmds -> Stages] /\ sending' \subseteq Cmds /\ quitDone' = quitDone
<1> DEFINE q == Append(sendQueue, c)
<1>1. QueueReady(q, Now, S) /\ Range(q) = Range(sendQueue) \cup {c}
  BY AddingReady DEF Enters
<1>2. Sent(S, q, Now) /\ receiveQueue' = Expecting(c)
  BY DEF Enters
<1>3. NowReady(Now) /\ Now.stage = stage /\ Now.sending = sending /\ Now.wire = wire
  BY NowIsReady
<1> HIDE DEF q
<1>4. /\ receiveQueue' \in Seq(Cmds) /\ Increasing(receiveQueue')
      /\ Range(receiveQueue') = Range(receiveQueue) \cup IF kind[c] = "close" THEN {} ELSE {c}
  BY <1>2, ExpectingIt
<1>5. /\ c \in Cmds /\ c # Quit /\ issued' \in 0..MaxCalls /\ issued <= issued' /\ issued \in Nat /\ issued' \in Nat /\ kind' = kind
      /\ c \in 0..issued'
  BY CommandQueueAssumption DEF Adding, TypeOK, Cmds
<1>6. Order'
  BY <1>1, <1>2, <1>3, <1>4, <1>5, OrderSent
<1>7. New(Quit) /\ Quit \notin Range(sendQueue) \cup Range(receiveQueue) /\ Setup \notin Range(sendQueue)
  BY DEF Known
<1>8. KnownReady(q, S)
  <2>1. Range(receiveQueue') \subseteq 0..issued' \cup {Quit}
    BY <1>4, <1>5 DEF Known
  <2>2. \A d \in Range(waiting') : d \in 1..issued' /\ New(d)
    BY DEF Adding
  <2>3. \A d \in Range(waiting'), e \in Range(receiveQueue') : e # Quit => e < d
    <3>1. SUFFICES ASSUME NEW d \in Range(waiting'), NEW e \in Range(receiveQueue') PROVE e < d
      OBVIOUS
    <3>2. c < d /\ (e = c \/ e < c) /\ c \in Int /\ d \in Int /\ e \in Int
      BY <1>4, <3>1, QueueElements, CmdsNumbers DEF Adding
    <3> QED
      BY <3>2
  <2>4. Quit \notin Range(q) \cup Range(receiveQueue')
    BY <1>1, <1>4, <1>5, <1>7
  <2>5. Setup \in Range(q) => Setup \in S
    BY <1>1, <1>7
  <2> QED
    BY <1>5, <1>7, <2>1, <2>2, <2>3, <2>4, <2>5 DEF KnownReady
<1>9. Known'
  BY <1>1, <1>2, <1>3, <1>8, KnownSent
<1>10. Awaited(q, Now)
  <2>1. \A d \in Cmds : Now.stage[d] = "active" <=> d \in Range(Now.wire)
    BY <1>3 DEF Matched, Active
  <2>2. Range(Now.wire) \subseteq Range(receiveQueue') /\ Range(receiveQueue') \subseteq Cmds
    BY <1>3, <1>4, QueueElements DEF Matched
  <2>3. \A d \in Range(receiveQueue') : New(d) => d \in Range(q)
    BY <1>1, <1>4 DEF Matched
  <2>4. \A d \in Range(q) : New(d) /\ kind[d] # "close" => d \in Range(receiveQueue')
    BY <1>1, <1>4 DEF Matched
  <2> QED
    BY <1>5, <2>1, <2>2, <2>3, <2>4 DEF Awaited
<1>11. Matched'
  BY <1>1, <1>2, <1>3, <1>10, MatchedSent
<1>12. stage' \in [Cmds -> Stages] /\ sending' \subseteq Cmds /\ wire' \in Seq(Cmds) /\ S \subseteq Range(q)
  BY <1>1, <1>2, <1>3, SentEffect
<1>13. sendQueue' \in Seq(Cmds) /\ quitDone' = (quitDone \/ Quit \in S)
  BY <1>2 DEF Sent
<1>14. Quit \notin S
  BY <1>1, <1>5, <1>7, <1>12
<1> QED
  BY <1>4, <1>6, <1>9, <1>11, <1>12, <1>13, <1>14, Zenon DEF TypeOK

\* With pipelining nothing stays queued but behind a stream, and without one command is written at a time.
LEMMA AddedAlone ==
  ASSUME TypeOK, KindsKnown, Known, Order, Matched, Open, pipelining => OneStream, NeverStuck, ~tick,
         ~pipelining => Len(wire) <= 1, NEW c, Adding(c), NEW S, Enters(c, S), pipelining' = pipelining
  PROVE  (pipelining => OneStream') /\ NeverStuck' /\ (~pipelining => Len(wire') <= 1)
<1> DEFINE q == Append(sendQueue, c)
<1>1. /\ QueueReady(q, Now, S) /\ Sent(S, q, Now)
      /\ S # {} => sendQueue = <<>> /\ (~pipelining => receiveQueue = <<>>)
      /\ S = {} => sendQueue # <<>> \/ (~pipelining /\ receiveQueue # <<>>)
      /\ pipelining /\ sendQueue = <<>> => SentAll(S, q)
  BY AddingReady DEF Enters
<1>2. NowReady(Now) /\ Now.stage = stage /\ Now.sending = sending /\ Now.wire = wire
  BY NowIsReady
<1>3. sendQueue # <<>> => q # <<>> /\ Head(q) = Head(sendQueue)
  <2>1. sendQueue \in Seq(Cmds) /\ c \in Cmds
    BY DEF TypeOK, Adding
  <2>2. \A t : t = Append(sendQueue, c) => t # <<>> /\ (sendQueue # <<>> => Head(t) = Head(sendQueue))
    BY <2>1, QueueAppended, Zenon
  <2> QED
    BY <2>2
<1>4. sending \subseteq Cmds /\ wire \in Seq(Cmds) /\ status # "ending" /\ Range(wire) \subseteq Cmds
  BY QueueElements DEF TypeOK, Open
<1>5. New(Quit)
  BY DEF Known
<1> HIDE DEF q
<1>6. CASE S = {}
  <2>1. stage' = stage /\ sending' = sending /\ wire' = wire /\ sendQueue' = q
    BY <1>1, <1>2, <1>4, <1>6, NothingSent DEF TypeOK, Stages
  <2>2. pipelining => sendQueue # <<>> /\ sending = {Head(sendQueue)}
    BY <1>1, <1>4, <1>6 DEF NeverStuck, OneStream
  <2>3. pipelining => OneStream'
    BY <1>3, <2>1, <2>2 DEF OneStream, New, Active
  <2>4. NeverStuck'
    BY <1>3, <2>1, <2>2 DEF NeverStuck
  <2> QED
    BY <2>1, <2>3, <2>4
<1>7. CASE S # {}
  <2>1. sendQueue = <<>>
    BY <1>1, <1>7
  <2>2. pipelining => sending = {}
    BY <1>4, <2>1 DEF OneStream
  <2>3. pipelining => OneStream'
    BY <1>1, <1>2, <1>5, <2>2, OneStreamSent
  <2>4. NeverStuck'
    <3>1. SUFFICES ASSUME pipelining, sendQueue' # <<>> PROVE Head(sendQueue') \in sending'
      BY DEF NeverStuck
    <3>2. Head(sendQueue') \in Streamed(S)
      BY <1>1, <1>7, <2>1, <3>1 DEF SentAll
    <3> QED
      BY <1>1, <3>2 DEF Sent
  <2>5. ~pipelining => Len(wire') <= 1
    <3>1. SUFFICES ASSUME ~pipelining PROVE Len(wire') <= 1
      OBVIOUS
    <3>2. Range(wire) = {}
      BY <1>1, <1>7, <3>1, QueueElements DEF Matched
    <3>3. Now.wire = <<>>
      BY <1>2, <1>4, <3>2, QueueElements
    <3> QED
      BY <1>1, <3>1, <3>3, OneSent
  <2> QED
    BY <2>3, <2>4, <2>5
<1> QED
  BY <1>6, <1>7

-----------------------------------------------------------------------------
(***************************************************************************)
(* Who reads a packet.                                                     *)
(***************************************************************************)
\* The receiveQueue from the first command that expects packets on.
LEMMA FirstActiveOf ==
  ASSUME NEW q \in Seq(Cmds), Increasing(q), NEW f, f = FirstActive(q)
  PROVE  /\ f \in Seq(Cmds) /\ Range(f) \subseteq Range(q) /\ Increasing(f)
         /\ f # <<>> => Active(Head(f))
         /\ \A c \in Range(q) : Active(c) => f # <<>> /\ Head(f) <= c
         /\ \A c \in Range(q) : f # <<>> /\ Head(f) <= c => c \in Range(f)
<1> DEFINE at == {i \in DOMAIN q : Active(q[i])}
           m == CHOOSE i \in at : \A j \in at : i <= j
<1>1. DOMAIN q = 1..Len(q) /\ Len(q) \in Nat /\ at \subseteq Nat /\ Range(q) = {q[i] : i \in 1..Len(q)}
      /\ \A i \in 1..Len(q) : q[i] \in Cmds /\ q[i] \in Int
  <2>1. DOMAIN q = 1..Len(q) /\ Len(q) \in Nat
    OBVIOUS
  <2>2. at \subseteq Nat
    BY <2>1
  <2>3. \A i \in 1..Len(q) : q[i] \in Cmds
    OBVIOUS
  <2>4. Range(q) = {q[i] : i \in 1..Len(q)}
    BY <2>1 DEF Range
  <2> HIDE DEF at
  <2> QED
    BY <2>1, <2>2, <2>3, <2>4, CmdsNumbers
<1>2. \A i, j \in 1..Len(q) : i < j => q[i] < q[j]
  BY <1>1 DEF Increasing
<1>3. CASE at = {}
  <2>1. f = <<>>
    BY <1>3 DEF FirstActive
  <2>2. \A c \in Range(q) : ~Active(c)
    BY <1>1, <1>3
  <2> QED
    BY <2>1, <2>2, QueueElements
<1>4. CASE at # {}
  <2> HIDE DEF at
  <2>1. m \in at /\ \A j \in at : m <= j
    BY <1>1, <1>4, NatMin
  <2>2. f = SubSeq(q, m, Len(q))
    BY <1>4 DEF FirstActive, at
  <2> HIDE DEF m
  <2>3. m \in 1..Len(q) /\ Active(q[m]) /\ \A j \in 1..Len(q) : Active(q[j]) => m <= j
    BY <1>1, <2>1 DEF at
  <2>4. m \in 1..Len(q) + 1 /\ m <= Len(q)
    BY <1>1, <2>3
  <2>5. /\ f \in Seq(Cmds) /\ Range(f) = {q[i] : i \in m..Len(q)} /\ f # <<>> /\ Head(f) = q[m]
        /\ Increasing(f)
    BY <2>2, <2>4, QueueFrom, Zenon
  <2>6. \A i \in m..Len(q) : i \in 1..Len(q)
    BY <1>1, <2>3
  <2>7. Range(f) \subseteq Range(q)
    BY <1>1, <2>5, <2>6
  <2>8. \A i \in 1..Len(q) : Active(q[i]) => q[m] <= q[i]
    <3>1. \A i \in 1..Len(q) : Active(q[i]) => m < i \/ m = i
      BY <1>1, <2>3
    <3> QED
      BY <1>1, <1>2, <2>3, <3>1
  <2>9. \A i \in 1..Len(q) : q[m] <= q[i] => i \in m..Len(q)
    BY <1>1, <1>2, <2>3
  <2> QED
    BY <1>1, <2>3, <2>5, <2>7, <2>8, <2>9
<1> QED
  BY <1>3, <1>4

\* Whatever the state, only a command that expects packets gets one.
LEMMA ReadingAny ==
  ASSUME TypeOK, Order
  PROVE  /\ CurrentQueue \in Seq(Cmds) /\ Increasing(CurrentQueue) /\ Range(CurrentQueue) \subseteq Range(receiveQueue)
         /\ CurrentCmd \in Cmds \cup {NoCmd} /\ (CurrentCmd # NoCmd => Active(CurrentCmd))
         /\ \A low \in BOOLEAN : Reader(low) \in Cmds \cup {NoCmd} /\ (Reader(low) # NoCmd => Active(Reader(low)))
<1>1. receiveQueue \in Seq(Cmds) /\ Increasing(receiveQueue) /\ cached \in Cmds \cup {NoCmd} /\ direct \in Cmds \cup {NoCmd}
  BY DEF TypeOK, Order
<1>2. PICK f : f = FirstActive(receiveQueue)
  OBVIOUS
<1>3. /\ f \in Seq(Cmds) /\ Range(f) \subseteq Range(receiveQueue) /\ Increasing(f)
      /\ f # <<>> => Active(Head(f))
  BY <1>1, <1>2, FirstActiveOf
<1>4. f # <<>> => Head(f) \in Cmds
  BY <1>3, QueueElements
<1>5. CurrentQueue \in Seq(Cmds) /\ Increasing(CurrentQueue) /\ Range(CurrentQueue) \subseteq Range(receiveQueue)
  BY <1>1, <1>2, <1>3 DEF CurrentQueue
<1>6. CurrentCmd \in Cmds \cup {NoCmd} /\ (CurrentCmd # NoCmd => Active(CurrentCmd))
  <2>1. CASE Cached
    BY <1>1, <2>1 DEF CurrentCmd, Cached
  <2>2. CASE ~Cached
    BY <1>2, <1>3, <1>4, <2>2 DEF CurrentCmd, CurrentQueue
  <2> QED
    BY <2>1, <2>2
<1>7. \A low \in BOOLEAN : Reader(low) \in Cmds \cup {NoCmd} /\ (Reader(low) # NoCmd => Active(Reader(low)))
  BY <1>1, <1>6 DEF Reader, ToDirect
<1> QED
  BY <1>5, <1>6, <1>7

\* While the connection is usable, it is the first that the server owes an answer, and those before it are dropped.
LEMMA Reading ==
  ASSUME TypeOK, Order, Matched, Recalled, wire # <<>>
  PROVE  /\ CurrentCmd = Head(wire) /\ (\A low \in BOOLEAN : Reader(low) = Head(wire)) /\ Head(wire) \in Cmds
         /\ CurrentQueue # <<>> /\ Head(CurrentQueue) = Head(wire)
         /\ \A c \in Range(receiveQueue) : Head(wire) <= c => c \in Range(CurrentQueue)
<1>1. receiveQueue \in Seq(Cmds) /\ Increasing(receiveQueue) /\ wire \in Seq(Cmds) /\ Increasing(wire)
  BY DEF TypeOK, Order
<1>2. PICK h : h = Head(wire)
  OBVIOUS
<1>3. h \in Range(wire) /\ h \in Cmds /\ (\A c \in Range(wire) : h <= c) /\ h \in Int /\ h # NoCmd
  BY <1>1, <1>2, QueueElements, CmdsNumbers
<1>4. h \in Range(receiveQueue) /\ Active(h) /\ \A c \in Cmds : Active(c) => h <= c
  BY <1>3 DEF Matched
<1>5. ToDirect(TRUE) => direct = h
  BY <1>2 DEF ToDirect, Recalled
<1>6. CASE Cached
  <2>1. receiveQueue # <<>> /\ Head(receiveQueue) = cached /\ Active(cached)
    BY <1>6 DEF Recalled, Cached
  <2>2. cached \in Cmds /\ cached \in Int /\ cached <= h
    BY <1>1, <1>4, <2>1, QueueElements, CmdsNumbers
  <2>3. cached = h
    BY <1>3, <1>4, <2>1, <2>2
  <2>4. CurrentQueue = receiveQueue /\ CurrentCmd = h
    BY <1>6, <2>3 DEF CurrentQueue, CurrentCmd
  <2> QED
    BY <1>2, <1>3, <1>5, <2>1, <2>3, <2>4 DEF Reader, ToDirect
<1>7. CASE ~Cached
  <2>1. PICK f : f = FirstActive(receiveQueue)
    OBVIOUS
  <2>2. /\ f \in Seq(Cmds) /\ Range(f) \subseteq Range(receiveQueue)
        /\ f # <<>> => Active(Head(f))
        /\ \A c \in Range(receiveQueue) : Active(c) => f # <<>> /\ Head(f) <= c
        /\ \A c \in Range(receiveQueue) : f # <<>> /\ Head(f) <= c => c \in Range(f)
    BY <1>1, <2>1, FirstActiveOf
  <2>3. f # <<>> /\ Head(f) <= h /\ Head(f) \in Cmds /\ Active(Head(f))
    BY <1>4, <2>2, QueueElements
  <2>4. Head(f) = h
    <3>1. PICK g : g = Head(f)
      OBVIOUS
    <3>2. g \in Cmds /\ Active(g) /\ g <= h
      BY <2>3, <3>1
    <3>3. g \in Int /\ h <= g
      BY <1>4, <3>2, CmdsNumbers
    <3> QED
      BY <1>3, <3>1, <3>2, <3>3
  <2>5. CurrentQueue = f /\ CurrentCmd = h
    BY <1>7, <2>1, <2>3, <2>4 DEF CurrentQueue, CurrentCmd
  <2> QED
    BY <1>2, <1>3, <1>5, <2>2, <2>3, <2>4, <2>5 DEF Reader, ToDirect
<1> QED
  BY <1>6, <1>7

-----------------------------------------------------------------------------
(***************************************************************************)
(* The steps that add commands.                                            *)
(***************************************************************************)
CQInv ==
  /\ TypeOK /\ KindsKnown /\ Phases /\ Untouched /\ OnlySetup /\ Known /\ Order /\ Match /\ Remembered
  /\ Streams /\ NeverStuck /\ SerialOneAtATime /\ ErrorSettlesActive

\* A usable connection and what holds of it.
LEMMA UsableFacts ==
  ASSUME CQInv, Usable
  PROVE  /\ Open /\ Matched /\ Recalled /\ (pipelining => OneStream) /\ ~tick /\ ~quitDone /\ doomed = {} /\ expired = {}
         /\ closedBy = "nobody" /\ socket = "open" /\ (~pipelining => Len(wire) <= 1) /\ addCommand = "enabled" /\ ~killing
         /\ status \notin {"connecting", "ending", "closed"}
<1>1. Open /\ status \notin {"connecting", "ending", "closed"}
  BY DEF Usable, Open
<1>2. Matched /\ Recalled /\ (~pipelining => Len(wire) <= 1)
  BY DEF CQInv, Match, Remembered, SerialOneAtATime
<1>3. ~tick /\ ~quitDone /\ doomed = {} /\ expired = {} /\ closedBy = "nobody" /\ socket = "open" /\ addCommand = "enabled" /\ ~killing
  BY <1>1 DEF CQInv, Phases
<1>4. pipelining => OneStream
  BY <1>1, <1>3 DEF CQInv, Streams
<1> QED
  BY <1>1, <1>2, <1>3, <1>4

\* The types of what sending changes.
LEMMA TypeSent ==
  ASSUME TypeOK, receiveQueue' \in Seq(Cmds), sendQueue' \in Seq(Cmds), wire' \in Seq(Cmds), waiting' \in Seq(Cmds),
         stage' \in [Cmds -> Stages], sending' \subseteq Cmds, quitDone' \in BOOLEAN, tick' \in BOOLEAN, killing' \in BOOLEAN,
         issued' \in 0..MaxCalls, pipelining' = pipelining, kind' = kind,
         handshake' \in {"auth", "setup", "answered", "flush", "done"}, handshake' = "flush" => waiting' # <<>>,
         status' \in {"connecting", "init", "connected", "ending", "closed"},
         addCommand' \in {"queue", "enabled", "disabled"}, socket' \in {"open", "lost", "none"},
         closedBy' \in {"nobody", "end", "destroy", "error", "ping"},
         expired' \subseteq Cmds, doomed' \subseteq Cmds,
         cached' \in Cmds \cup {NoCmd}, direct' \in Cmds \cup {NoCmd}, chunk' \in 0..(MaxCalls + 2)
  PROVE  TypeOK'
BY DEF TypeOK, Stages

\* The session queries are sent as the first command.
LEMMA AuthSucceedsStep ==
  ASSUME CQInv, AuthSucceeds
  PROVE  CQInv'
<1>1. TypeOK /\ KindsKnown /\ Phases /\ Untouched /\ Known /\ Order /\ NeverStuck
  BY DEF CQInv
<1>2. /\ handshake' = "setup" /\ status' = "init" /\ addCommand' = "enabled"
      /\ IF pipelining THEN AddCommandEnablePipeline(Setup) ELSE AddCommandEnable(Setup)
      /\ UNCHANGED <<fixed, issued, socket, closedBy, waiting, expired, doomed, reader, tick, killing>>
  BY DEF AuthSucceeds
<1>3. status = "connecting"
  BY <1>1 DEF AuthSucceeds, Phases, LoopDrained, Between
<1>4. /\ sendQueue = <<>> /\ receiveQueue = <<>> /\ wire = <<>> /\ sending = {} /\ \A c \in Cmds : New(c)
      /\ cached = NoCmd /\ direct = NoCmd /\ chunk = 0
  BY <1>1, <1>3 DEF Untouched
<1>5. /\ Open /\ doomed = {} /\ doomed' = {} /\ expired = {} /\ ~tick /\ ~quitDone /\ closedBy = "nobody" /\ socket = "open"
      /\ ~killing /\ Open'
  BY <1>1, <1>2, <1>3 DEF Phases, Open
<1>6. UNCHANGED <<pipelining, kind, issued, socket, closedBy, waiting, expired, cached, direct, chunk, tick, killing>>
  BY <1>2 DEF fixed, reader
<1>7. Adding(Setup)
  <2>1. Setup \in Cmds /\ Setup # Quit /\ New(Setup) /\ \A d \in Cmds : ~Active(d)
    BY <1>4, CmdsNumbers DEF New, Active
  <2>2. Setup = 0 /\ issued \in 0..MaxCalls /\ issued' = issued /\ MaxCalls \in Nat /\ waiting' = waiting
    BY <1>1, <1>6, CommandQueueAssumption DEF TypeOK, Setup
  <2>3. \A d \in Range(sendQueue) \cup Range(receiveQueue) \cup Range(wire) : d < Setup
    BY <1>4, QueueElements
  <2>4. waiting' \in Seq(Cmds) /\ Increasing(waiting')
    BY <1>1, <2>2 DEF TypeOK, Order
  <2>5. \A d \in Range(waiting) : d \in 1..issued /\ New(d)
    BY <1>1 DEF Known
  <2>6. \A d \in Range(waiting) : Setup < d
    BY <2>2, <2>5
  <2> QED
    BY <1>6, <2>1, <2>2, <2>3, <2>4, <2>5, <2>6 DEF Adding
<1>8. Matched /\ OneStream
  BY <1>4, QueueElements DEF Matched, OneStream, New, Active
<1>9. PICK S : Enters(Setup, S)
  BY <1>1, <1>2, <1>7, AddEnters
<1>10. S = {Setup} /\ Range(sendQueue') \subseteq {Setup}
  <2> DEFINE q == Append(sendQueue, Setup)
  <2>1. Sent(S, q, Now) /\ S # {}
    BY <1>4, <1>9 DEF Enters
  <2>2. Range(q) = {Setup}
    <3>1. q = <<Setup>>
      BY <1>4
    <3> HIDE DEF q
    <3> QED
      BY <3>1, QueueSingle, CmdsNumbers
  <2> HIDE DEF q
  <2>3. S \subseteq Range(q) /\ Range(sendQueue') \subseteq Range(q)
    BY <2>1 DEF Sent
  <2> QED
    BY <2>1, <2>2, <2>3
<1>11. /\ Order' /\ Known' /\ Matched'
       /\ receiveQueue' \in Seq(Cmds) /\ sendQueue' \in Seq(Cmds) /\ wire' \in Seq(Cmds)
       /\ stage' \in [Cmds -> Stages] /\ sending' \subseteq Cmds /\ quitDone' = quitDone
  BY <1>1, <1>5, <1>7, <1>8, <1>9, <1>10, Added
<1>12. (pipelining => OneStream') /\ NeverStuck' /\ (~pipelining => Len(wire') <= 1)
  BY <1>1, <1>4, <1>5, <1>6, <1>7, <1>8, <1>9, AddedAlone
<1>13. sendQueue' = <<>> /\ sending' = {}
  <2>1. Range(sendQueue') = {}
    BY <1>10, <1>11 DEF Known
  <2>2. sendQueue' = <<>>
    BY <1>11, <2>1, QueueElements
  <2>3. sending' = Now.sending \cup Streamed({Setup})
    BY <1>9, <1>10 DEF Enters, Sent
  <2>4. Streamed({Setup}) = {} /\ Now.sending = {}
    BY <1>1, <1>4, QuitUnanswered, NowIsReady DEF Streamed
  <2> QED
    BY <2>2, <2>3, <2>4
<1>14. Setup \in Range(wire') /\ \A c \in Calls : New(c)'
  <2>1. stage' = [c \in Cmds |-> IF c \notin {Setup} THEN Now.stage[c] ELSE IF Answered(c) THEN "active" ELSE "over"]
    BY <1>9, <1>10 DEF Enters, Sent
  <2>2. Active(Setup)'
    BY <1>1, <2>1, QuitUnanswered, CmdsNumbers DEF Active
  <2>3. \A c \in Calls : New(c)'
    BY <1>1, <1>4, <2>1, NowIsReady, CmdsNumbers DEF New
  <2> QED
    BY <1>11, <2>2, <2>3, CmdsNumbers DEF Matched
<1>15. wire' # <<>>
  BY <1>14, QueueElements
<1>16. Range(receiveQueue') \subseteq {Setup}
  <2>1. Range(receiveQueue') = Range(receiveQueue) \cup IF kind[Setup] = "close" THEN {} ELSE {Setup}
    BY <1>1, <1>7, <1>9, ExpectingIt DEF Enters
  <2> QED
    BY <1>4, <2>1, QueueElements
<1>17. TypeOK'
  BY <1>1, <1>2, <1>5, <1>6, <1>11, TypeSent DEF TypeOK
<1>18. KindsKnown' /\ Untouched' /\ ErrorSettlesActive'
  BY <1>1, <1>2, <1>5, <1>6 DEF KindsKnown, Untouched, ErrorSettlesActive
<1>19. Phases'
  BY <1>2, <1>5, <1>6, <1>11 DEF Phases, Usable, Open
<1>20. OnlySetup'
  BY <1>13, <1>14, <1>15, <1>16 DEF OnlySetup
<1>21. Match' /\ Streams' /\ SerialOneAtATime'
  BY <1>6, <1>11, <1>12 DEF Match, Streams, SerialOneAtATime
<1>22. Remembered'
  BY <1>4, <1>6 DEF Remembered, Recalled, Cached
<1> QED
  BY <1>11, <1>12, <1>17, <1>18, <1>19, <1>20, <1>21, <1>22 DEF CQInv

\* What is remembered of the receiveQueue stays right when a command is added behind.
LEMMA RecalledAdded ==
  ASSUME TypeOK, KindsKnown, Known, Order, Matched, Recalled, Open, NEW c, Adding(c), NEW S, Enters(c, S),
         UNCHANGED <<cached, direct>>
  PROVE  Recalled'
<1> DEFINE q == Append(sendQueue, c)
<1>1. QueueReady(q, Now, S) /\ Sent(S, q, Now) /\ receiveQueue' = Expecting(c)
  BY AddingReady DEF Enters
<1>2. NowReady(Now) /\ Now.stage = stage /\ Now.wire = wire
  BY NowIsReady
<1>3. receiveQueue # <<>> => receiveQueue' # <<>> /\ Head(receiveQueue') = Head(receiveQueue)
  BY <1>1, ExpectingIt
<1> HIDE DEF q
<1>4. /\ \A d \in S : New(d)
      /\ \A d \in Cmds : New(d)' <=> New(d) /\ d \notin S
      /\ \A d \in Cmds : Active(d)' <=> (d \in S /\ Answered(d)) \/ (d \notin S /\ Now.stage[d] = "active")
      /\ Now.wire # <<>> => wire' # <<>> /\ Head(wire') = Head(Now.wire)
  BY <1>1, <1>2, SentEffect
<1>5. cached \in Cmds \cup {NoCmd} /\ direct \in Cmds \cup {NoCmd}
  BY DEF TypeOK
<1>6. \A d \in Cmds : ~New(d) => ~New(d)' /\ (Active(d)' <=> Active(d))
  BY <1>2, <1>4 DEF Active
<1>7. cached' # NoCmd => ~New(cached)'
  BY <1>5, <1>6 DEF Recalled, New
<1>8. direct' # NoCmd => ~New(direct)'
  BY <1>5, <1>6 DEF Recalled, New
<1>9. Cached' => receiveQueue' # <<>> /\ Head(receiveQueue') = cached'
  BY <1>3, <1>5, <1>6 DEF Recalled, Cached, Active
<1>10. direct' # NoCmd /\ Active(direct)' => wire' # <<>> /\ direct' = Head(wire')
  BY <1>2, <1>4, <1>5, <1>6 DEF Recalled, Active
<1> QED
  BY <1>7, <1>8, <1>9, <1>10 DEF Recalled

\* Adding a command does not start the session queries again.
LEMMA SetupStays ==
  ASSUME TypeOK, KindsKnown, Known, Order, NEW c, Adding(c), c # Setup, NEW S, Enters(c, S), ~Active(Setup)
  PROVE  ~Active(Setup)'
<1>1. QueueReady(Append(sendQueue, c), Now, S) /\ Range(Append(sendQueue, c)) = Range(sendQueue) \cup {c}
  BY AddingReady DEF Enters
<1>2. S \subseteq Range(sendQueue) \cup {c}
  BY <1>1 DEF Enters, Sent
<1>3. Setup \notin S
  BY <1>2 DEF Known
<1>4. stage'[Setup] = stage[Setup]
  BY <1>3, NowIsReady, CmdsNumbers DEF Enters, Sent
<1> QED
  BY <1>4 DEF Active

\* One turn of the loop over the commands that waited.
LEMMA FlushWaitingStep ==
  ASSUME CQInv, FlushWaiting
  PROVE  CQInv'
<1> DEFINE c == Head(waiting)
<1>1. TypeOK /\ KindsKnown /\ Phases /\ Known /\ Order /\ NeverStuck
  BY DEF CQInv
<1>2. status = "connected" /\ handshake = "flush" /\ waiting # <<>> /\ Usable
  BY <1>1 DEF FlushWaiting, Phases, TypeOK, Usable
<1>3. /\ Open /\ Matched /\ Recalled /\ (pipelining => OneStream) /\ ~tick /\ ~quitDone /\ doomed = {} /\ expired = {}
      /\ closedBy = "nobody" /\ socket = "open" /\ (~pipelining => Len(wire) <= 1) /\ addCommand = "enabled" /\ ~killing
  BY <1>2, UsableFacts
<1>4. /\ UNCHANGED <<pipelining, kind, issued, status, addCommand, socket, closedBy, expired, doomed, cached, direct, chunk, tick, killing>>
      /\ waiting' = Tail(waiting) /\ handshake' = IF Len(waiting) = 1 THEN "done" ELSE "flush"
  BY DEF FlushWaiting, fixed, reader
<1>5. IF pipelining THEN AddCommandEnablePipeline(c) ELSE AddCommandEnable(c)
  BY <1>1, <1>3 DEF FlushWaiting, AddNow, TypeOK
<1>6. waiting \in Seq(Cmds) /\ Increasing(waiting)
  BY <1>1 DEF TypeOK, Order
<1>7. /\ waiting' \in Seq(Cmds) /\ Range(waiting) = Range(waiting') \cup {c}
      /\ Increasing(waiting') /\ \A d \in Range(waiting') : c < d
  BY <1>2, <1>4, <1>6, QueueRest, Zenon
<1>8. waiting' = <<>> <=> Len(waiting) = 1
  <2>1. Len(waiting') = Len(waiting) - 1 /\ Len(waiting) \in Nat
    BY <1>2, <1>4, <1>6
  <2>2. waiting' = <<>> <=> Len(waiting') = 0
    BY <1>7
  <2> QED
    BY <2>1, <2>2
<1> HIDE DEF c
<1>9. /\ c \in 1..issued /\ New(c) /\ \A d \in Range(sendQueue) \cup Range(receiveQueue) : d # Quit => d < c
      /\ \A d \in Range(waiting') : d \in 1..issued /\ New(d)
  BY <1>1, <1>7 DEF Known
<1>10. Adding(c)
  <2>1. issued \in 0..MaxCalls /\ MaxCalls \in Nat /\ Quit = MaxCalls + 1 /\ Cmds = 0..(MaxCalls + 1)
    BY <1>1, CommandQueueAssumption DEF TypeOK, Quit, Cmds
  <2>2. c \in Cmds /\ c # Quit /\ c <= issued' /\ issued <= issued' /\ issued' \in 0..MaxCalls
    BY <1>4, <1>9, <2>1
  <2>3. Quit \notin Range(sendQueue) \cup Range(receiveQueue)
    BY <1>1, <1>3 DEF Known
  <2>4. \A d \in Range(sendQueue) \cup Range(receiveQueue) \cup Range(wire) : d < c
    BY <1>3, <1>9, <2>3 DEF Matched
  <2>5. \A d \in Cmds : Active(d) => d < c
    BY <1>1, <1>7, <1>9 DEF Order
  <2> QED
    BY <1>4, <1>7, <1>9, <2>2, <2>4, <2>5 DEF Adding
<1>11. c # Setup
  BY <1>9 DEF Setup
<1>12. PICK S : Enters(c, S)
  BY <1>1, <1>5, <1>10, AddEnters
<1>13. Open' /\ Usable' /\ doomed' = {} /\ ~killing'
  BY <1>2, <1>3, <1>4 DEF Open, Usable
<1>14. /\ Order' /\ Known' /\ Matched'
       /\ receiveQueue' \in Seq(Cmds) /\ sendQueue' \in Seq(Cmds) /\ wire' \in Seq(Cmds)
       /\ stage' \in [Cmds -> Stages] /\ sending' \subseteq Cmds /\ quitDone' = quitDone
  BY <1>1, <1>3, <1>10, <1>11, <1>12, <1>13, Added
<1>15. (pipelining => OneStream') /\ NeverStuck' /\ (~pipelining => Len(wire') <= 1)
  BY <1>1, <1>3, <1>4, <1>10, <1>12, AddedAlone
<1>16. TypeOK'
  BY <1>1, <1>3, <1>4, <1>7, <1>8, <1>14, TypeSent DEF TypeOK
<1>17. KindsKnown' /\ Untouched' /\ OnlySetup' /\ ErrorSettlesActive'
  BY <1>1, <1>2, <1>3, <1>4 DEF KindsKnown, Untouched, OnlySetup, ErrorSettlesActive
<1>18. ~Active(Setup)'
  BY <1>1, <1>2, <1>10, <1>11, <1>12, SetupStays DEF Phases
<1>19. Phases'
  BY <1>2, <1>3, <1>4, <1>8, <1>13, <1>14, <1>18 DEF Phases
<1>20. Match' /\ Streams' /\ SerialOneAtATime'
  BY <1>4, <1>14, <1>15 DEF Match, Streams, SerialOneAtATime
<1>21. Remembered'
  <2>1. Recalled'
    BY <1>1, <1>3, <1>4, <1>10, <1>12, RecalledAdded
  <2> QED
    BY <2>1 DEF Remembered
<1> QED
  BY <1>14, <1>15, <1>16, <1>17, <1>19, <1>20, <1>21 DEF CQInv

\* A call of the client: it waits, is added, or is refused at once.
LEMMA CallStep ==
  ASSUME CQInv, Call, EarlyCalls \subseteq {"connecting"}
  PROVE  CQInv'
<1>0. PICK c : c = issued + 1
  OBVIOUS
<1>1. TypeOK /\ KindsKnown /\ Phases /\ Known /\ Order /\ NeverStuck /\ Untouched
  BY DEF CQInv
<1>2. /\ UNCHANGED <<pipelining, kind, handshake, status, addCommand, socket, closedBy, expired, doomed, cached, direct, chunk,
                     tick, killing>>
      /\ issued' = c /\ issued < MaxCalls /\ handshake # "flush" /\ status # "init"
      /\ IF addCommand = "queue" THEN waiting' = Append(waiting, c) /\ UNCHANGED <<sendQueue, receiveQueue, commands>>
         ELSE AddNow(c) /\ UNCHANGED waiting
  BY <1>0 DEF Call, Between, fixed, link, reader
<1>3. issued \in 0..MaxCalls /\ MaxCalls \in Nat /\ Quit = MaxCalls + 1 /\ Cmds = 0..(MaxCalls + 1) /\ Calls = 1..MaxCalls
      /\ Setup = 0
  BY <1>1, CommandQueueAssumption DEF TypeOK, Quit, Cmds, Calls, Setup
<1>4. /\ c \in Cmds /\ c # Quit /\ c # Setup /\ c \in Calls /\ c \in 1..issued' /\ issued <= issued' /\ issued' \in 0..MaxCalls
      /\ c > issued /\ ~(c <= issued) /\ \A d \in 0..issued : d < c /\ d \in 0..issued'
  BY <1>0, <1>2, <1>3
<1>5. New(c)
  BY <1>1, <1>4 DEF Known
<1>6. waiting \in Seq(Cmds) /\ Increasing(waiting) /\ Range(waiting) \subseteq 1..issued /\ 1..issued \subseteq 0..issued
      /\ 1..issued \subseteq 1..issued'
  BY <1>1, <1>3, <1>4 DEF TypeOK, Order, Known
<1>7. \A d \in Range(sendQueue) \cup Range(receiveQueue) \cup Range(wire) : d = Quit \/ (d < c /\ d \in 0..issued')
  BY <1>1, <1>4 DEF Known
<1>8. CASE status = "connecting"
  <2>1. /\ sendQueue = <<>> /\ receiveQueue = <<>> /\ wire = <<>> /\ sending = {} /\ \A d \in Cmds : New(d)
        /\ cached = NoCmd /\ direct = NoCmd /\ chunk = 0
    BY <1>1, <1>8 DEF Untouched
  <2>2. /\ waiting' = Append(waiting, c) /\ UNCHANGED <<sendQueue, receiveQueue, stage, sending, wire, quitDone>>
    BY <1>1, <1>2, <1>8 DEF Phases, commands
  <2>3. /\ waiting' \in Seq(Cmds) /\ Range(waiting') = Range(waiting) \cup {c} /\ Increasing(waiting')
    <3>1. \A d \in Range(waiting) : d < c
      BY <1>4, <1>6
    <3>2. \A t : t = Append(waiting, c) => t \in Seq(Cmds) /\ Range(t) = Range(waiting) \cup {c} /\ Increasing(t)
      BY <1>4, <1>6, <3>1, QueueAppended, Zenon
    <3> QED
      BY <2>2, <3>2
  <2>4. TypeOK'
    BY <1>1, <1>2, <1>4, <2>2, <2>3 DEF TypeOK
  <2>5. KindsKnown' /\ Untouched' /\ OnlySetup' /\ ErrorSettlesActive' /\ NeverStuck'
    BY <1>1, <1>2, <1>8, <2>1, <2>2 DEF KindsKnown, Untouched, OnlySetup, ErrorSettlesActive, NeverStuck, New, Phases, Open
  <2>6. Phases'
    BY <1>1, <1>2, <1>8, <2>2 DEF Phases, Usable, Open, New, Active
  <2>7. Known'
    <3>1. Range(<<>>) = {}
      BY QueueElements
    <3>2. Range(sendQueue') = {} /\ Range(receiveQueue') = {} /\ Range(wire') = {} /\ \A d \in Cmds : New(d)'
      BY <2>1, <2>2, <3>1 DEF New
    <3>3. \A d \in Range(waiting') : d \in 1..issued' /\ d \in Cmds
      BY <1>4, <1>6, <2>3, QueueElements
    <3>4. doomed' = {} /\ ~quitDone'
      BY <1>1, <1>2, <1>8, <2>2 DEF Phases, Open
    <3> QED
      BY <1>3, <2>1, <2>2, <3>2, <3>3, <3>4, CmdsNumbers DEF Known
  <2>8. Order'
    <3>1. Range(<<>>) = {} /\ Increasing(<<>>)
      BY QueueElements
    <3>2. /\ Range(sendQueue') = {} /\ Range(wire') = {} /\ sending' = {} /\ \A d \in Cmds : New(d)' /\ ~Active(d)'
          /\ Increasing(sendQueue') /\ Increasing(receiveQueue') /\ Increasing(wire') /\ Increasing(waiting')
      BY <2>1, <2>2, <2>3, <3>1 DEF New, Active, Increasing
    <3> QED
      BY <3>2 DEF Order, Increasing
  <2>9. Match' /\ Remembered' /\ Streams' /\ SerialOneAtATime'
    BY <1>2, <1>8, <2>1, <2>2 DEF Match, Remembered, Streams, SerialOneAtATime, Usable, OneStream
  <2> QED
    BY <2>4, <2>5, <2>6, <2>7, <2>8, <2>9 DEF CQInv
<1>9. CASE status = "connected"
  <2>1. Usable /\ handshake = "done" /\ waiting = <<>>
    BY <1>1, <1>2, <1>9 DEF Phases, Usable
  <2>2. /\ Open /\ Matched /\ Recalled /\ (pipelining => OneStream) /\ ~tick /\ ~quitDone /\ doomed = {} /\ expired = {}
        /\ closedBy = "nobody" /\ socket = "open" /\ (~pipelining => Len(wire) <= 1) /\ addCommand = "enabled" /\ ~killing
    BY <2>1, UsableFacts
  <2>3. waiting' = waiting /\ IF pipelining THEN AddCommandEnablePipeline(c) ELSE AddCommandEnable(c)
    BY <1>1, <1>2, <2>2 DEF AddNow, TypeOK
  <2>4. Adding(c)
    <3>1. Quit \notin Range(sendQueue) \cup Range(receiveQueue) \cup Range(wire)
      BY <1>1, <2>2 DEF Known, Matched
    <3>2. \A d \in Range(sendQueue) \cup Range(receiveQueue) \cup Range(wire) : d < c
      BY <1>7, <3>1
    <3>3. \A d \in Cmds : Active(d) => d < c
      BY <2>2, <3>2 DEF Matched
    <3>4. Range(waiting') = {} /\ waiting' \in Seq(Cmds) /\ Increasing(waiting')
      BY <2>1, <2>3, QueueElements
    <3>5. c <= issued'
      BY <1>4
    <3> QED
      BY <1>2, <1>4, <1>5, <3>2, <3>3, <3>4, <3>5 DEF Adding
  <2>5. PICK S : Enters(c, S)
    BY <1>1, <2>3, <2>4, AddEnters
  <2>6. Open' /\ Usable' /\ doomed' = {} /\ ~killing'
    BY <1>2, <1>9, <2>2 DEF Open, Usable
  <2>7. /\ Order' /\ Known' /\ Matched'
        /\ receiveQueue' \in Seq(Cmds) /\ sendQueue' \in Seq(Cmds) /\ wire' \in Seq(Cmds)
        /\ stage' \in [Cmds -> Stages] /\ sending' \subseteq Cmds /\ quitDone' = quitDone
    BY <1>1, <1>4, <2>2, <2>4, <2>5, <2>6, Added
  <2>8. (pipelining => OneStream') /\ NeverStuck' /\ (~pipelining => Len(wire') <= 1)
    BY <1>1, <1>2, <2>2, <2>4, <2>5, AddedAlone
  <2>9. TypeOK'
    BY <1>1, <1>2, <1>4, <1>6, <2>2, <2>3, <2>7, TypeSent DEF TypeOK
  <2>10. KindsKnown' /\ Untouched' /\ OnlySetup' /\ ErrorSettlesActive'
    BY <1>1, <1>2, <1>9, <2>2 DEF KindsKnown, Untouched, OnlySetup, ErrorSettlesActive
  <2>11. ~Active(Setup)'
    BY <1>1, <1>4, <2>1, <2>4, <2>5, SetupStays DEF Phases
  <2>12. Phases'
    BY <1>2, <1>9, <2>1, <2>2, <2>3, <2>6, <2>7, <2>11 DEF Phases
  <2>13. Match' /\ Streams' /\ SerialOneAtATime'
    BY <1>2, <2>7, <2>8 DEF Match, Streams, SerialOneAtATime
  <2>14. Remembered'
    <3>1. Recalled'
      BY <1>1, <1>2, <2>2, <2>4, <2>5, RecalledAdded
    <3> QED
      BY <3>1 DEF Remembered
  <2> QED
    BY <2>7, <2>8, <2>9, <2>10, <2>12, <2>13, <2>14 DEF CQInv
<1>10. CASE status \in {"ending", "closed"}
  <2>1. addCommand = "disabled" /\ ~Usable /\ ~Open
    BY <1>1, <1>10 DEF Phases, Usable, Open
  <2>2. /\ stage' = [stage EXCEPT ![c] = "over"] /\ UNCHANGED <<waiting, sendQueue, receiveQueue, sending, wire, quitDone>>
    BY <1>2, <2>1 DEF AddNow, AddCommandDisabled
  <2>3. /\ \A d \in Cmds : d # c => (New(d)' <=> New(d))
        /\ ~New(c)' /\ ~Active(c) /\ \A d \in Cmds : Active(d)' <=> Active(d)
        /\ stage' \in [Cmds -> {"new", "active", "over"}]
    <3>1. stage \in [Cmds -> {"new", "active", "over"}] /\ c \in Cmds /\ stage[c] = "new"
      BY <1>1, <1>4, <1>5 DEF TypeOK, New
    <3>2. stage' \in [Cmds -> {"new", "active", "over"}] /\ stage'[c] = "over" /\ \A d \in Cmds : d # c => stage'[d] = stage[d]
      BY <2>2, <3>1
    <3>3. \A d \in Cmds : d # c => (New(d)' <=> New(d)) /\ (Active(d)' <=> Active(d))
      BY <3>2 DEF New, Active
    <3>4. ~New(c)' /\ ~Active(c) /\ ~Active(c)'
      BY <3>1, <3>2 DEF New, Active
    <3> QED
      BY <3>2, <3>3, <3>4, Zenon
  <2>4. c \notin Range(sendQueue) \cup Range(receiveQueue) \cup Range(wire) \cup Range(waiting) /\ c \notin sending /\ c \notin doomed
    <3>1. c \notin Range(waiting)
      BY <1>3, <1>4, <1>6
    <3>2. ~(c < c)
      BY <1>3, <1>4
    <3> QED
      BY <1>1, <1>4, <1>5, <1>7, <3>1, <3>2 DEF Order, Known
  <2>5. TypeOK'
    BY <1>1, <1>2, <1>4, <2>2, <2>3 DEF TypeOK
  <2>6. Known'
    <3>1. Range(sendQueue') \cup Range(receiveQueue') \cup Range(wire') \subseteq 0..issued' \cup {Quit}
      BY <1>7, <2>2
    <3>2. \A d \in Calls : d > issued' => New(d)'
      BY <1>1, <1>2, <1>3, <1>4, <2>3 DEF Known
    <3>3. \A d \in Range(waiting') : d \in 1..issued' /\ New(d)'
      BY <1>1, <1>6, <2>2, <2>3, <2>4, QueueElements DEF Known
    <3>4. \A d \in doomed' : ~New(d)'
      BY <1>1, <1>2, <2>3, <2>4 DEF Known, TypeOK
    <3>5. Quit \in Cmds /\ (New(Quit)' <=> New(Quit)) /\ (killing' => killing) /\ ~Open'
      BY <1>2, <1>4, <2>1, <2>3, CmdsNumbers DEF Open
    <3>6. UNCHANGED <<sendQueue, receiveQueue, waiting, quitDone>>
      BY <2>2
    <3> QED
      BY <1>1, <3>1, <3>2, <3>3, <3>4, <3>5, <3>6 DEF Known
  <2>7. Order'
    <3>1. UNCHANGED <<sendQueue, receiveQueue, waiting, wire, sending, kind>>
      BY <1>2, <2>2
    <3>2. Range(sendQueue) \subseteq Cmds /\ Range(wire) \subseteq Cmds /\ Range(waiting) \subseteq Cmds /\ sending \subseteq Cmds
      BY <1>1, QueueElements DEF TypeOK
    <3>3. \A d \in Cmds : Active(d)' => Answered(d)' /\ d <= issued'
      <4>1. SUFFICES ASSUME NEW d \in Cmds, Active(d)' PROVE Answered(d)' /\ d <= issued'
        OBVIOUS
      <4>2. Answered(d) /\ d <= issued /\ d \in Int
        BY <1>1, <2>3, <4>1, CmdsNumbers DEF Order
      <4> QED
        BY <1>3, <1>4, <3>1, <4>2 DEF Answered
    <3>4. /\ \A d \in Range(sendQueue') : New(d)' \/ (d \in sending' /\ d = Head(sendQueue'))
          /\ \A d \in sending' : ~New(d)' /\ kind'[d] = "stream"
          /\ \A d \in Range(wire') : ~New(d)' /\ Answered(d)'
      BY <1>1, <2>3, <2>4, <3>1, <3>2 DEF Order, Answered
    <3>5. /\ \A d \in Range(wire'), e \in Range(sendQueue') : New(e)' => d < e
          /\ \A e \in Cmds : Active(e)' => \A d \in Range(sendQueue') \cup Range(waiting') : New(d)' => e < d
      BY <1>1, <2>3, <2>4, <3>1, <3>2 DEF Order
    <3>6. Increasing(waiting') /\ Increasing(sendQueue') /\ Increasing(receiveQueue') /\ Increasing(wire')
      BY <1>1, <3>1 DEF Order
    <3> QED
      BY <3>3, <3>4, <3>5, <3>6 DEF Order, Increasing
  <2>8. KindsKnown' /\ Untouched' /\ OnlySetup' /\ NeverStuck' /\ Match' /\ Remembered' /\ SerialOneAtATime'
    BY <1>1, <1>2, <1>10, <2>1, <2>2 DEF KindsKnown, Untouched, OnlySetup, NeverStuck, Match, Remembered, SerialOneAtATime, Usable
  <2>9. ErrorSettlesActive'
    BY <1>2, <1>4, <2>3, CmdsNumbers DEF CQInv, ErrorSettlesActive
  <2>10. Streams'
    <3>1. UNCHANGED <<sendQueue, sending, wire, status, closedBy, pipelining>>
      BY <1>2, <2>2
    <3>2. (New(Quit)' <=> New(Quit)) /\ sending \subseteq Cmds /\ \A d \in Cmds : Active(d)' <=> Active(d)
      BY <1>1, <1>4, <2>3, CmdsNumbers DEF TypeOK
    <3> QED
      BY <3>1, <3>2 DEF CQInv, Streams, OneStream
  <2>11. Phases'
    <3>1. (New(Setup)' <=> New(Setup)) /\ (Active(Setup)' <=> Active(Setup))
      BY <1>4, <2>3, CmdsNumbers
    <3> QED
      BY <1>1, <1>2, <1>10, <2>1, <2>2, <3>1 DEF Phases, Usable, Open
  <2> QED
    BY <2>5, <2>6, <2>7, <2>8, <2>9, <2>10, <2>11 DEF CQInv
<1> QED
  BY <1>1, <1>2, <1>8, <1>9, <1>10 DEF TypeOK

-----------------------------------------------------------------------------
(***************************************************************************)
(* The steps that only take away, towards the end of the connection.       *)
(***************************************************************************)
\* A step that only takes away, of a connection that is not open any more.
LEMMA ShrinkStep ==
  ASSUME CQInv, Shrinks, TypeOK', Phases', ErrorSettlesActive', ~Open', killing' => killing \/ Open, quitDone' => quitDone,
         \A c \in doomed' : c \in Cmds /\ ~New(c), tick => tick' \/ sendQueue' = <<>>,
         status' # "closed" => status # "closed" /\ (closedBy' # "destroy" => closedBy # "destroy")
  PROVE  CQInv'
<1>1. TypeOK /\ KindsKnown /\ Known /\ Order /\ NeverStuck /\ Streams
  BY DEF CQInv
<1>2. UNCHANGED <<pipelining, kind, issued, waiting, sending>> /\ (sendQueue' = sendQueue \/ sendQueue' = <<>>)
  BY DEF Shrinks, fixed
<1>3. Order'
  BY <1>1, OrderShrinks
<1>4. Known'
  BY <1>1, KnownShrinks
<1>5. ~Usable' /\ status' \notin {"connecting", "init"}
  BY DEF Open, Usable
<1>6. KindsKnown' /\ Untouched' /\ OnlySetup' /\ Match' /\ Remembered' /\ SerialOneAtATime'
  BY <1>1, <1>2, <1>5 DEF KindsKnown, Untouched, OnlySetup, Match, Remembered, SerialOneAtATime
<1>7. NeverStuck'
  BY <1>1, <1>2 DEF NeverStuck
<1>8. Streams'
  <2>1. SUFFICES ASSUME pipelining, closedBy' # "destroy", status' # "closed" PROVE OneStream'
    BY <1>2 DEF Streams
  <2>2. status' = "ending"
    BY <1>5, <2>1 DEF TypeOK, Open
  <2>3. OneStream
    BY <1>1, <2>1 DEF Streams
  <2> QED
    BY <1>1, <2>2, <2>3, OneStreamShrinks
<1> QED
  BY <1>3, <1>4, <1>6, <1>7, <1>8 DEF CQInv

\* What the stages are not changed by.
LEMMA SameStages ==
  ASSUME TypeOK, stage' = stage
  PROVE  /\ stage' \in [Cmds -> Stages] /\ \A c \in Cmds : stage'[c] = stage[c] \/ (Active(c) /\ stage'[c] = "over")
         /\ (New(Setup)' <=> New(Setup)) /\ \A c \in Cmds : Active(c)' <=> Active(c)
BY DEF TypeOK, Stages, New, Active

\* The connection is closed with all that is queued.
LEMMA CloseStep ==
  ASSUME CQInv, NEW by \in {"end", "destroy", "error", "ping"}, Close(by), Between,
         UNCHANGED <<fixed, issued, waiting, stage, sending, wire>>,
         tick' = tick, quitDone' \in BOOLEAN, quitDone' => quitDone, killing' = FALSE,
         handshake' = IF handshake = "answered" THEN "done" ELSE handshake,
         receiveQueue' \in Seq(Cmds), Increasing(receiveQueue'), Range(receiveQueue') \subseteq Range(receiveQueue),
         expired' \subseteq Cmds, doomed' \subseteq Cmds, \A c \in doomed' : ~New(c), ErrorSettlesActive',
         cached' \in Cmds \cup {NoCmd}, direct' \in Cmds \cup {NoCmd}, chunk' \in 0..(MaxCalls + 2)
  PROVE  CQInv'
<1>1. TypeOK /\ Phases /\ handshake # "flush"
  BY DEF CQInv, Between
<1>2. /\ status' = "closed" /\ addCommand' = "disabled" /\ socket' = "none" /\ sendQueue' = <<>>
      /\ closedBy' = IF closedBy = "nobody" THEN by ELSE closedBy
  BY DEF Close
<1>3. UNCHANGED <<pipelining, kind, issued, waiting, stage, sending, wire>>
  BY DEF fixed
<1>4. /\ stage' \in [Cmds -> Stages] /\ \A c \in Cmds : stage'[c] = stage[c] \/ (Active(c) /\ stage'[c] = "over")
      /\ (New(Setup)' <=> New(Setup)) /\ (Active(Setup)' <=> Active(Setup))
  BY <1>1, <1>3, SameStages, CmdsNumbers
<1>5. Shrinks
  BY <1>2, <1>3, <1>4 DEF Shrinks, fixed
<1>6. TypeOK'
  <2>1. sendQueue' \in Seq(Cmds)
    BY <1>2
  <2>2. handshake' \in {"auth", "setup", "answered", "done"} /\ closedBy' \in {"nobody", "end", "destroy", "error", "ping"}
    BY <1>1, <1>2 DEF TypeOK
  <2>3. waiting' \in Seq(Cmds) /\ wire' \in Seq(Cmds) /\ sending' \subseteq Cmds /\ issued' \in 0..MaxCalls
    BY <1>1, <1>3 DEF TypeOK
  <2>4. killing' \in BOOLEAN /\ tick' \in BOOLEAN
    BY <1>1 DEF TypeOK
  <2> QED
    BY <1>1, <1>2, <1>3, <1>4, <2>1, <2>2, <2>3, <2>4, TypeSent
<1>7. ~Open' /\ ~Usable'
  BY <1>2 DEF Open, Usable
<1>8. Phases'
  <2>1. handshake' = "auth" => New(Setup)'
    BY <1>1, <1>4 DEF Phases
  <2>2. Active(Setup)' => handshake = "setup"
    BY <1>1, <1>4 DEF Phases
  <2>3. handshake' # "answered" /\ handshake' # "flush"
    BY <1>1
  <2>4. Active(Setup)' => handshake' = "setup"
    BY <1>1, <2>2
  <2> QED
    BY <1>2, <1>7, <2>1, <2>3, <2>4 DEF Phases, Usable
<1> QED
  BY <1>2, <1>5, <1>6, <1>7, <1>8, ShrinkStep

\* The errors dispatched go to commands that have been started.
LEMMA Dispatched ==
  ASSUME TypeOK, Known, Order, NEW q \in Seq(Cmds), Range(q) \subseteq Range(receiveQueue), Dispatch(q)
  PROVE  /\ receiveQueue' \in Seq(Cmds) /\ Increasing(receiveQueue') /\ Range(receiveQueue') \subseteq Range(receiveQueue)
         /\ doomed' \subseteq Cmds /\ (\A c \in doomed' : ~New(c)) /\ doomed \subseteq doomed'
         /\ \A c \in Range(q) : Active(c) => c \in doomed'
<1>1. receiveQueue' = <<>> /\ doomed' = doomed \cup {c \in Range(q) : Active(c)}
  BY DEF Dispatch
<1>2. Range(q) \subseteq Cmds /\ Range(<<>>) = {} /\ <<>> \in Seq(Cmds) /\ Increasing(<<>>)
  BY QueueElements
<1>3. \A c \in Cmds : Active(c) => ~New(c)
  BY DEF Active, New
<1>4. doomed \subseteq Cmds /\ \A c \in doomed : ~New(c)
  BY DEF TypeOK, Known
<1>5. doomed' \subseteq Cmds /\ \A c \in doomed' : ~New(c)
  BY <1>1, <1>2, <1>3, <1>4
<1>6. receiveQueue' \in Seq(Cmds) /\ Increasing(receiveQueue') /\ Range(receiveQueue') = {}
  BY <1>1, <1>2 DEF Increasing
<1> QED
  BY <1>1, <1>5, <1>6

\* What must be settled when the link fails is settled still.
LEMMA SettledStill ==
  ASSUME TypeOK, ErrorSettlesActive, \A c \in Cmds : Active(c)' => Active(c), closedBy' = "error" => closedBy = "error",
         doomed \subseteq doomed', expired \subseteq expired'
  PROVE  ErrorSettlesActive'
BY CmdsNumbers DEF ErrorSettlesActive

\* The QUIT has been written.
LEMMA QuitEndedStep ==
  ASSUME CQInv, QuitEnded
  PROVE  CQInv'
<1>1. TypeOK /\ Phases /\ Known /\ Order /\ ErrorSettlesActive
  BY DEF CQInv
<1>2. /\ Between /\ quitDone /\ Close("end") /\ quitDone' = FALSE /\ receiveQueue' = <<>>
      /\ UNCHANGED <<pipelining, kind, issued, handshake, waiting, stage, sending, wire, expired, doomed, cached, direct, chunk,
                     tick, killing>>
  BY DEF QuitEnded, fixed, reader
<1>3. ~Open /\ ~killing /\ handshake # "answered"
  BY <1>1, <1>2 DEF Phases, Known, Open
<1>4. receiveQueue' \in Seq(Cmds) /\ Increasing(receiveQueue') /\ Range(receiveQueue') \subseteq Range(receiveQueue)
  BY <1>2, QueueElements DEF Increasing
<1>5. ErrorSettlesActive'
  <2>1. closedBy' = "error" => closedBy = "error"
    BY <1>2 DEF Close
  <2> QED
    BY <1>1, <1>2, <2>1 DEF ErrorSettlesActive, Active
<1>6. \A c \in doomed' : ~New(c)
  BY <1>1, <1>2 DEF Known
<1>7. killing' = FALSE /\ expired' \subseteq Cmds /\ doomed' \subseteq Cmds /\ cached' \in Cmds \cup {NoCmd}
      /\ direct' \in Cmds \cup {NoCmd} /\ chunk' \in 0..(MaxCalls + 2)
  BY <1>1, <1>2, <1>3 DEF TypeOK
<1>8. UNCHANGED <<fixed, issued, waiting, stage, sending, wire>>
  BY <1>2 DEF fixed
<1> QED
  BY <1>2, <1>3, <1>4, <1>5, <1>6, <1>7, <1>8, CloseStep

\* The connection that kills has done so.
LEMMA KillDoneStep ==
  ASSUME CQInv, KillDone
  PROVE  CQInv'
<1>1. TypeOK /\ Phases /\ Known /\ Order /\ ErrorSettlesActive
  BY DEF CQInv
<1>2. /\ Between /\ Close("destroy") /\ killing' = FALSE /\ Dispatch(receiveQueue) /\ handshake # "answered"
      /\ UNCHANGED <<pipelining, kind, issued, handshake, waiting, stage, sending, wire, quitDone, expired, cached, direct, chunk,
                     tick>>
  BY DEF KillDone, LoopDrained, fixed, reader, commands
<1>3. receiveQueue \in Seq(Cmds)
  BY <1>1 DEF TypeOK
<1>4. /\ receiveQueue' \in Seq(Cmds) /\ Increasing(receiveQueue') /\ Range(receiveQueue') \subseteq Range(receiveQueue)
      /\ doomed' \subseteq Cmds /\ (\A c \in doomed' : ~New(c)) /\ doomed \subseteq doomed'
  BY <1>1, <1>2, <1>3, Dispatched
<1>5. ErrorSettlesActive'
  <2>1. closedBy' = "error" => closedBy = "error"
    BY <1>2 DEF Close
  <2> QED
    BY <1>1, <1>2, <1>4, <2>1 DEF ErrorSettlesActive, Active
<1>6. expired' \subseteq Cmds /\ cached' \in Cmds \cup {NoCmd} /\ quitDone' \in BOOLEAN
      /\ direct' \in Cmds \cup {NoCmd} /\ chunk' \in 0..(MaxCalls + 2)
  BY <1>1, <1>2 DEF TypeOK
<1>7. UNCHANGED <<fixed, issued, waiting, stage, sending, wire>>
  BY <1>2 DEF fixed
<1> QED
  BY <1>2, <1>4, <1>5, <1>6, <1>7, CloseStep

\* The link fails: what the server was sent is in the receiveQueue, so that it is settled.
LEMMA LinkFailsStep ==
  ASSUME CQInv, LinkFails
  PROVE  CQInv'
<1>1. TypeOK /\ Phases /\ Known /\ Order /\ Untouched
  BY DEF CQInv
<1>2. /\ Between /\ Close("error") /\ Dispatch(receiveQueue) /\ handshake # "answered" /\ status \notin {"ending", "closed"}
      /\ UNCHANGED <<pipelining, kind, issued, handshake, waiting, stage, sending, wire, quitDone, expired, cached, direct, chunk,
                     tick, killing>>
  BY DEF LinkFails, LoopDrained, fixed, reader, commands
<1>3. receiveQueue \in Seq(Cmds) /\ Open
  BY <1>1, <1>2 DEF TypeOK, Open
<1>4. /\ receiveQueue' \in Seq(Cmds) /\ Increasing(receiveQueue') /\ Range(receiveQueue') \subseteq Range(receiveQueue)
      /\ doomed' \subseteq Cmds /\ (\A c \in doomed' : ~New(c)) /\ doomed \subseteq doomed'
      /\ \A c \in Range(receiveQueue) : Active(c) => c \in doomed'
  BY <1>1, <1>2, <1>3, Dispatched
<1>5. \A c \in Cmds : Active(c) => c \in Range(receiveQueue)
  <2>1. CASE status = "connecting"
    BY <1>1, <2>1 DEF Untouched, New, Active
  <2>2. CASE Usable
    BY <2>2 DEF CQInv, Match, Matched
  <2> QED
    BY <1>3, <2>1, <2>2 DEF Open, Usable
<1>6. ErrorSettlesActive'
  BY <1>2, <1>4, <1>5, CmdsNumbers DEF ErrorSettlesActive, Active
<1>7. expired' \subseteq Cmds /\ cached' \in Cmds \cup {NoCmd} /\ quitDone' \in BOOLEAN /\ killing' = FALSE
      /\ direct' \in Cmds \cup {NoCmd} /\ chunk' \in 0..(MaxCalls + 2)
  BY <1>1, <1>2 DEF TypeOK, Phases
<1>8. UNCHANGED <<fixed, issued, waiting, stage, sending, wire>>
  BY <1>2 DEF fixed
<1> QED
  BY <1>2, <1>4, <1>6, <1>7, <1>8, CloseStep

\* A session query fails with the connection: nothing else has been sent.
LEMMA InitFailsStep ==
  ASSUME CQInv, InitFails
  PROVE  CQInv'
<1>1. TypeOK /\ Phases /\ Known /\ Order /\ OnlySetup
  BY DEF CQInv
<1>2. /\ Between /\ Close("error") /\ Dispatch(Shifted(receiveQueue)) /\ handshake = "answered" /\ status = "init"
      /\ handshake' = "done"
      /\ UNCHANGED <<pipelining, kind, issued, waiting, stage, sending, wire, quitDone, expired, cached, direct, chunk,
                     tick, killing>>
  BY DEF InitFails, fixed, reader, commands
<1>3. Shifted(receiveQueue) \in Seq(Cmds) /\ Range(Shifted(receiveQueue)) \subseteq Range(receiveQueue)
  <2>1. receiveQueue \in Seq(Cmds) /\ Shifted(receiveQueue) = IF receiveQueue = <<>> THEN <<>> ELSE Tail(receiveQueue)
    BY <1>1, QueueShifted DEF TypeOK
  <2>2. \A t : receiveQueue # <<>> /\ t = Tail(receiveQueue) => t \in Seq(Cmds) /\ Range(receiveQueue) = Range(t) \cup {Head(receiveQueue)}
    BY <2>1, QueueRest, Zenon
  <2> QED
    BY <2>1, <2>2, QueueElements
<1>4. /\ receiveQueue' \in Seq(Cmds) /\ Increasing(receiveQueue') /\ Range(receiveQueue') \subseteq Range(receiveQueue)
      /\ doomed' \subseteq Cmds /\ (\A c \in doomed' : ~New(c)) /\ doomed \subseteq doomed'
  <2>1. PICK q : q = Shifted(receiveQueue)
    OBVIOUS
  <2> QED
    BY <1>1, <1>2, <1>3, <2>1, Dispatched
<1>5. \A c \in Calls : ~Active(c)'
  BY <1>1, <1>2 DEF OnlySetup, New, Active
<1>6. ErrorSettlesActive'
  BY <1>5 DEF ErrorSettlesActive
<1>7. expired' \subseteq Cmds /\ cached' \in Cmds \cup {NoCmd} /\ quitDone' \in BOOLEAN /\ killing' = FALSE
      /\ direct' \in Cmds \cup {NoCmd} /\ chunk' \in 0..(MaxCalls + 2)
  BY <1>1, <1>2 DEF TypeOK, Phases
<1>8. UNCHANGED <<fixed, issued, waiting, stage, sending, wire>>
  BY <1>2 DEF fixed
<1> QED
  BY <1>2, <1>4, <1>6, <1>7, <1>8, CloseStep

\* destroy(): a KILL is sent if a command is in flight, and the connection is closed otherwise.
LEMMA DestroyStep ==
  ASSUME CQInv, Destroy, EarlyCalls \subseteq {"connecting"}
  PROVE  CQInv'
<1>1. TypeOK /\ Phases /\ Known /\ Order
  BY DEF CQInv
<1>2. /\ Between /\ status \notin {"ending", "closed"} /\ handshake = "done"
      /\ UNCHANGED <<pipelining, kind, issued, handshake, waiting, receiveQueue, stage, sending, wire, quitDone, expired, doomed,
                     cached, direct, chunk, tick>>
  BY DEF Destroy, fixed, reader, commands
<1>3. Open /\ ~killing /\ doomed = {} /\ ~tick /\ closedBy = "nobody"
  BY <1>1, <1>2 DEF TypeOK, Open, Phases
<1>4. CASE receiveQueue # <<>> \/ handshake = "auth"
  <2>1. /\ status' = "ending" /\ addCommand' = "disabled" /\ closedBy' = "destroy" /\ socket' = socket
        /\ killing' = TRUE /\ sendQueue' = <<>>
    BY <1>4 DEF Destroy, Terminate
  <2>2. /\ stage' \in [Cmds -> Stages] /\ \A c \in Cmds : stage'[c] = stage[c] \/ (Active(c) /\ stage'[c] = "over")
        /\ (New(Setup)' <=> New(Setup)) /\ (Active(Setup)' <=> Active(Setup))
    BY <1>1, <1>2, SameStages, CmdsNumbers
  <2>3. Shrinks
    BY <1>1, <1>2, <2>1, <2>2 DEF Shrinks, fixed, Order, TypeOK, Increasing
  <2>4. TypeOK'
    BY <1>1, <1>2, <2>1 DEF TypeOK
  <2>5. ~Open' /\ ~Usable'
    BY <2>1 DEF Open, Usable
  <2>6. Phases'
    BY <1>1, <1>2, <2>1, <2>2, <2>5 DEF Phases
  <2>7. ErrorSettlesActive' /\ (killing' => killing \/ Open) /\ (quitDone' => quitDone)
    BY <1>2, <1>3, <2>1 DEF ErrorSettlesActive
  <2>8. \A c \in doomed' : c \in Cmds /\ ~New(c)
    BY <1>2, <1>3
  <2>9. status # "closed" /\ closedBy' = "destroy" /\ (tick => tick')
    BY <1>2, <2>1
  <2> QED
    BY <2>3, <2>4, <2>5, <2>6, <2>7, <2>8, <2>9, ShrinkStep
<1>5. CASE ~(receiveQueue # <<>> \/ handshake = "auth")
  <2>1. Close("destroy") /\ killing' = killing
    BY <1>5 DEF Destroy
  <2>2. killing' = FALSE
    BY <1>1, <1>3, <2>1 DEF TypeOK
  <2>3. closedBy' = "destroy"
    BY <1>3, <2>1 DEF Close
  <2>4. ErrorSettlesActive' /\ \A c \in doomed' : ~New(c)
    BY <1>2, <1>3, <2>3 DEF ErrorSettlesActive
  <2>5. expired' \subseteq Cmds /\ doomed' \subseteq Cmds /\ cached' \in Cmds \cup {NoCmd} /\ quitDone' \in BOOLEAN
        /\ direct' \in Cmds \cup {NoCmd} /\ chunk' \in 0..(MaxCalls + 2) /\ (quitDone' => quitDone)
    BY <1>1, <1>2 DEF TypeOK
  <2>6. receiveQueue' \in Seq(Cmds) /\ Increasing(receiveQueue') /\ Range(receiveQueue') \subseteq Range(receiveQueue)
    BY <1>1, <1>2 DEF TypeOK, Order, Increasing
  <2>7. handshake' = IF handshake = "answered" THEN "done" ELSE handshake
    BY <1>2
  <2>8. UNCHANGED <<fixed, issued, waiting, stage, sending, wire>> /\ tick' = tick
    BY <1>2 DEF fixed
  <2> QED
    BY <1>2, <2>1, <2>2, <2>4, <2>5, <2>6, <2>7, <2>8, CloseStep
<1> QED
  BY <1>4, <1>5

\* The timer of a ping.
LEMMA PingTimeoutStep ==
  ASSUME CQInv, NEW c \in Cmds, PingTimeout(c)
  PROVE  CQInv'
<1>1. TypeOK /\ Phases /\ Known /\ Order /\ ErrorSettlesActive
  BY DEF CQInv
<1>2. /\ LoopDrained /\ ~killing /\ expired' = expired \cup {c}
      /\ UNCHANGED <<pipelining, kind, issued, waiting, receiveQueue, stage, sending, wire, quitDone, doomed,
                     cached, direct, chunk, tick, killing>>
  BY DEF PingTimeout, fixed, reader, commands
<1>3. Between /\ ~tick /\ ~quitDone /\ handshake # "answered"
  BY <1>2 DEF LoopDrained
<1>4. /\ stage' \in [Cmds -> Stages] /\ (\A d \in Cmds : stage'[d] = stage[d] \/ (Active(d) /\ stage'[d] = "over"))
      /\ (New(Setup)' <=> New(Setup)) /\ (Active(Setup)' <=> Active(Setup)) /\ (\A d \in Cmds : Active(d)' <=> Active(d))
  BY <1>1, <1>2, SameStages, CmdsNumbers
<1>5. expired' \subseteq Cmds /\ expired \subseteq expired' /\ doomed \subseteq doomed' /\ \A d \in doomed' : d \in Cmds /\ ~New(d)
  BY <1>1, <1>2 DEF TypeOK, Known
<1>6. CASE status = "ending"
  <2>1. sendQueue' = <<>> /\ UNCHANGED <<handshake, status, addCommand, socket, closedBy>>
    BY <1>6 DEF PingTimeout, link
  <2>2. Shrinks
    BY <1>1, <1>2, <1>4, <2>1 DEF Shrinks, fixed, Order, TypeOK, Increasing
  <2>3. TypeOK'
    BY <1>1, <1>2, <1>5, <2>1 DEF TypeOK
  <2>4. ~Open' /\ ~Usable' /\ ~Open /\ ~Usable
    BY <1>6, <2>1 DEF Open, Usable
  <2>5. Phases'
    BY <1>1, <1>2, <1>3, <1>4, <1>6, <2>1, <2>4 DEF Phases
  <2>6. ErrorSettlesActive'
    BY <1>1, <1>4, <1>5, <2>1, SettledStill
  <2> QED
    BY <1>2, <1>5, <1>6, <2>1, <2>2, <2>3, <2>4, <2>5, <2>6, ShrinkStep
<1>7. CASE status # "ending"
  <2>1. Close("ping") /\ handshake' = handshake
    BY <1>7 DEF PingTimeout
  <2>2. closedBy' = "error" => closedBy = "error"
    BY <2>1 DEF Close
  <2>3. ErrorSettlesActive'
    BY <1>1, <1>4, <1>5, <2>2, SettledStill
  <2>4. doomed' \subseteq Cmds /\ cached' \in Cmds \cup {NoCmd} /\ quitDone' \in BOOLEAN /\ killing' = FALSE
        /\ direct' \in Cmds \cup {NoCmd} /\ chunk' \in 0..(MaxCalls + 2) /\ (quitDone' => quitDone)
    BY <1>1, <1>2 DEF TypeOK
  <2>5. receiveQueue' \in Seq(Cmds) /\ Increasing(receiveQueue') /\ Range(receiveQueue') \subseteq Range(receiveQueue)
    BY <1>1, <1>2 DEF TypeOK, Order, Increasing
  <2>6. handshake' = IF handshake = "answered" THEN "done" ELSE handshake
    BY <1>3, <2>1
  <2>7. UNCHANGED <<fixed, issued, waiting, stage, sending, wire>> /\ tick' = tick
    BY <1>2 DEF fixed
  <2> QED
    BY <1>3, <1>5, <2>1, <2>3, <2>4, <2>5, <2>6, <2>7, CloseStep
<1> QED
  BY <1>6, <1>7

\* The socket is silent for too long while the connection ends.
LEMMA SocketTimeoutStep ==
  ASSUME CQInv, SocketTimeout
  PROVE  CQInv'
<1>1. TypeOK /\ Phases /\ Known /\ Order /\ ErrorSettlesActive
  BY DEF CQInv
<1>2. /\ Dispatch(receiveQueue) /\ status = "ending"
      /\ UNCHANGED <<pipelining, kind, issued, handshake, status, addCommand, socket, closedBy, waiting, sendQueue,
                     stage, sending, wire, quitDone, expired, cached, direct, chunk, tick, killing>>
  BY DEF SocketTimeout, fixed, reader, commands, link
<1>3. receiveQueue \in Seq(Cmds)
  BY <1>1 DEF TypeOK
<1>4. /\ receiveQueue' \in Seq(Cmds) /\ Increasing(receiveQueue') /\ Range(receiveQueue') \subseteq Range(receiveQueue)
      /\ doomed' \subseteq Cmds /\ (\A c \in doomed' : ~New(c)) /\ doomed \subseteq doomed'
  BY <1>1, <1>2, <1>3, Dispatched
<1>5. /\ stage' \in [Cmds -> Stages] /\ (\A c \in Cmds : stage'[c] = stage[c] \/ (Active(c) /\ stage'[c] = "over"))
      /\ (New(Setup)' <=> New(Setup)) /\ (Active(Setup)' <=> Active(Setup)) /\ (\A d \in Cmds : Active(d)' <=> Active(d))
  BY <1>1, <1>2, SameStages, CmdsNumbers
<1>6. Shrinks
  BY <1>2, <1>4, <1>5 DEF Shrinks, fixed
<1>7. TypeOK'
  BY <1>1, <1>2, <1>4 DEF TypeOK
<1>8. ~Open' /\ ~Usable' /\ ~Open /\ ~Usable
  BY <1>2 DEF Open, Usable
<1>9. Phases'
  BY <1>1, <1>2, <1>5, <1>8 DEF Phases
<1>10. ErrorSettlesActive'
  BY <1>1, <1>2, <1>4, <1>5, SettledStill
<1> QED
  BY <1>2, <1>4, <1>6, <1>7, <1>8, <1>9, <1>10, ShrinkStep

\* The link is lost while the connection is ending.
LEMMA LinkFailsUnheardStep ==
  ASSUME CQInv, LinkFailsUnheard
  PROVE  CQInv'
<1>1. TypeOK /\ Phases /\ Known /\ Order /\ ErrorSettlesActive
  BY DEF CQInv
<1>2. /\ socket' = "lost" /\ status = "ending"
      /\ UNCHANGED <<pipelining, kind, issued, handshake, status, addCommand, closedBy, waiting, sendQueue, receiveQueue,
                     stage, sending, wire, quitDone, expired, doomed, cached, direct, chunk, tick, killing>>
  BY DEF LinkFailsUnheard, fixed, reader, commands, queues
<1>3. /\ stage' \in [Cmds -> Stages] /\ (\A c \in Cmds : stage'[c] = stage[c] \/ (Active(c) /\ stage'[c] = "over"))
      /\ (New(Setup)' <=> New(Setup)) /\ (Active(Setup)' <=> Active(Setup)) /\ (\A d \in Cmds : Active(d)' <=> Active(d))
  BY <1>1, <1>2, SameStages, CmdsNumbers
<1>4. Shrinks
  BY <1>1, <1>2, <1>3 DEF Shrinks, fixed, TypeOK, Order, Increasing
<1>5. TypeOK'
  BY <1>1, <1>2 DEF TypeOK
<1>6. ~Open' /\ ~Usable' /\ ~Open /\ ~Usable
  BY <1>2 DEF Open, Usable
<1>7. Phases'
  BY <1>1, <1>2, <1>3, <1>6 DEF Phases
<1>8. ErrorSettlesActive'
  BY <1>1, <1>2, <1>3, SettledStill
<1>9. \A c \in doomed' : c \in Cmds /\ ~New(c)
  BY <1>1, <1>2 DEF TypeOK, Known
<1> QED
  BY <1>2, <1>4, <1>5, <1>6, <1>7, <1>8, <1>9, ShrinkStep

\* The session is prepared: the connection is handed out.
LEMMA InitDoneStep ==
  ASSUME CQInv, InitDone
  PROVE  CQInv'
<1>1. TypeOK /\ Phases /\ Known /\ Order /\ KindsKnown /\ NeverStuck
  BY DEF CQInv
<1>2. /\ handshake = "answered" /\ status' = "connected" /\ handshake' = (IF waiting = <<>> THEN "done" ELSE "flush")
      /\ UNCHANGED <<pipelining, kind, issued, addCommand, socket, closedBy, waiting, sendQueue, receiveQueue,
                     stage, sending, wire, quitDone, expired, doomed, cached, direct, chunk, tick, killing>>
  BY DEF InitDone, fixed, reader, commands, queues
<1>3. status = "init" /\ Usable /\ Open /\ Usable' /\ Open'
  BY <1>1, <1>2 DEF Phases, Usable, Open
<1>4. /\ Matched /\ Recalled /\ (pipelining => OneStream) /\ ~tick /\ ~quitDone /\ doomed = {} /\ expired = {}
      /\ closedBy = "nobody" /\ socket = "open" /\ (~pipelining => Len(wire) <= 1) /\ addCommand = "enabled" /\ ~killing
      /\ status \notin {"connecting", "ending", "closed"}
  BY <1>3, UsableFacts
<1>5. /\ (New(Setup)' <=> New(Setup)) /\ (Active(Setup)' <=> Active(Setup)) /\ (\A d \in Cmds : Active(d)' <=> Active(d))
  BY <1>1, <1>2, SameStages, CmdsNumbers
<1>6. TypeOK'
  BY <1>1, <1>2 DEF TypeOK
<1>7. Phases'
  BY <1>1, <1>2, <1>3, <1>4, <1>5 DEF Phases
<1>8. Known'
  BY <1>1, <1>2, <1>3, <1>4 DEF Known, New
<1>9. Order'
  BY <1>1, <1>2 DEF Order, New, Active, Answered, Increasing
<1>10. KindsKnown' /\ Untouched' /\ OnlySetup' /\ NeverStuck' /\ SerialOneAtATime' /\ ErrorSettlesActive'
  BY <1>1, <1>2, <1>4 DEF KindsKnown, Untouched, OnlySetup, NeverStuck, SerialOneAtATime, ErrorSettlesActive
<1>11. Match'
  BY <1>2, <1>4 DEF Match, Matched, New, Active
<1>12. Remembered'
  BY <1>2, <1>4 DEF Remembered, Recalled, Cached, New, Active
<1>13. Streams'
  BY <1>2, <1>4 DEF Streams, OneStream, New, Active
<1> QED
  BY <1>6, <1>7, <1>8, <1>9, <1>10, <1>11, <1>12, <1>13 DEF CQInv

-----------------------------------------------------------------------------
(***************************************************************************)
(* The steps that queue the QUIT.                                          *)
(***************************************************************************)
\* The connection is ending with a QUIT behind all that is queued.
LEMMA QuitStep ==
  ASSUME CQInv, Open \/ killing,
         sendQueue' = Append(sendQueue, Quit), receiveQueue' = Append(receiveQueue, Quit) \/ receiveQueue' = <<Quit>>,
         tick' = (tick \/ sendQueue = <<>>), status' = "ending", addCommand' = "disabled", killing' = FALSE, socket' = socket,
         UNCHANGED <<fixed, issued, waiting, stage, sending, wire, quitDone, expired, doomed, direct, chunk>>,
         cached' \in Cmds \cup {NoCmd}, closedBy' \in {"end", "destroy"}, closedBy' = "end" => Open,
         handshake' = handshake \/ (handshake = "answered" /\ handshake' = "done"), handshake' \notin {"answered", "flush"},
         handshake' \in {"auth", "setup"} => chunk = 0 /\ status \in {"connecting", "init"}
  PROVE  CQInv'
<1>1. TypeOK /\ KindsKnown /\ Phases /\ Known /\ Order /\ NeverStuck /\ Streams /\ Untouched /\ OnlySetup
  BY DEF CQInv
<1>2. UNCHANGED <<pipelining, kind, issued, waiting, stage, sending, wire, quitDone, expired, doomed, direct, chunk>>
  BY DEF fixed
<1>3. /\ New(Quit) /\ Quit \notin Range(sendQueue) \cup Range(receiveQueue) /\ ~quitDone /\ Setup \notin Range(sendQueue)
      /\ Range(sendQueue) \cup Range(receiveQueue) \cup Range(wire) \subseteq 0..issued \cup {Quit}
  BY <1>1 DEF Known
<1>4. /\ sendQueue \in Seq(Cmds) /\ Increasing(sendQueue) /\ receiveQueue \in Seq(Cmds) /\ Increasing(receiveQueue)
      /\ Range(sendQueue) \subseteq Cmds /\ Range(receiveQueue) \subseteq Cmds /\ Range(wire) \subseteq Cmds
      /\ issued \in 0..MaxCalls /\ MaxCalls \in Nat
  BY <1>1, QueueElements, CommandQueueAssumption DEF TypeOK, Order
<1>5. Quit \in Cmds /\ Quit # Setup /\ \A c \in Cmds : c # Quit => c < Quit
  <2>1. \A c \in Cmds : c <= Quit /\ c \in Int /\ Quit \in Int
    BY CmdsNumbers
  <2> QED
    BY <2>1, CmdsNumbers
<1>6. PICK q : q = Append(sendQueue, Quit)
  OBVIOUS
<1>7. /\ q \in Seq(Cmds) /\ q # <<>> /\ Range(q) = Range(sendQueue) \cup {Quit} /\ Increasing(q)
      /\ sendQueue = <<>> => Head(q) = Quit
      /\ sendQueue # <<>> => Head(q) = Head(sendQueue)
  <2>1. \A d \in Range(sendQueue) : d < Quit
    BY <1>3, <1>4, <1>5
  <2> QED
    BY <1>4, <1>5, <1>6, <2>1, QueueAppended, Zenon
<1>8. /\ receiveQueue' \in Seq(Cmds) /\ Range(receiveQueue') \subseteq Range(receiveQueue) \cup {Quit} /\ Increasing(receiveQueue')
  <2>1. \A d \in Range(receiveQueue) : d < Quit
    BY <1>3, <1>4, <1>5
  <2>2. \A t : t = Append(receiveQueue, Quit) =>
          t \in Seq(Cmds) /\ Range(t) = Range(receiveQueue) \cup {Quit} /\ Increasing(t)
    BY <1>4, <1>5, <2>1, QueueAppended, Zenon
  <2>3. \A t : t = <<Quit>> => t \in Seq(Cmds) /\ Range(t) = {Quit} /\ Increasing(t)
    BY <1>5, QueueSingle
  <2> QED
    BY <2>2, <2>3
<1>9. sendQueue' = q
  BY <1>6
<1>10. Sent({}, q, Now)
  BY <1>1, <1>2, <1>7, <1>9, OnlyQueued DEF commands
<1>11. NowReady(Now) /\ Now.stage = stage /\ Now.sending = sending /\ Now.wire = wire
  BY <1>1, NowIsReady
<1>12. QueueReady(q, Now, {})
  <2>1. Range(q) \subseteq 0..issued' \cup {Quit}
    BY <1>2, <1>3, <1>7
  <2>2. \A c \in Range(q) : New(c) \/ (c \in Now.sending /\ c = Head(q))
    <3>1. Range(sendQueue) # {} => sendQueue # <<>>
      BY QueueElements
    <3> QED
      BY <1>1, <1>3, <1>7, <1>11, <3>1 DEF Order
  <2>3. \A c \in Cmds : Answered(c) => c < Quit
    BY <1>1, <1>5, QuitUnanswered
  <2>4. \A c \in Range(wire), d \in Range(q) : New(d) => c < d
    BY <1>1, <1>4, <1>7, <2>3 DEF Order
  <2>5. \A c \in Cmds, d \in Range(q) : Active(c) /\ New(d) => c < d
    BY <1>1, <1>7, <2>3 DEF Order
  <2>6. Increasing(waiting') /\ Range(waiting') \subseteq Cmds /\ \A c \in Range(waiting'), d \in Range(q) : d # Quit => d < c
    BY <1>1, <1>2, <1>7, QueueElements DEF Order, Known, TypeOK, Increasing
  <2>7. \A c \in Range(waiting'), d \in Cmds : Active(d) /\ New(c) => d < c
    BY <1>1, <1>2 DEF Order
  <2> QED
    BY <1>7, <2>1, <2>2, <2>4, <2>5, <2>6, <2>7 DEF QueueReady
<1>13. issued' >= issued /\ issued' \in Nat /\ kind' = kind
  BY <1>2, <1>4
<1>14. Order'
  BY <1>1, <1>8, <1>10, <1>11, <1>12, <1>13, OrderSent
<1>15. ~Open' /\ ~Usable'
  BY DEF Open, Usable
<1>16. KnownReady(q, {})
  <2>1. Range(receiveQueue') \subseteq 0..issued' \cup {Quit}
    BY <1>2, <1>3, <1>8
  <2>2. /\ \A c \in Range(waiting') : c \in 1..issued' /\ New(c)
        /\ \A c \in Range(waiting'), d \in Range(receiveQueue') : d # Quit => d < c
    BY <1>1, <1>2, <1>8 DEF Known
  <2>3. \A c \in doomed' : c \in Cmds /\ ~New(c)
    BY <1>1, <1>2 DEF TypeOK, Known
  <2>4. Setup \notin Range(q)
    BY <1>3, <1>5, <1>7
  <2> QED
    BY <1>2, <1>3, <1>4, <1>15, <2>1, <2>2, <2>3, <2>4 DEF KnownReady
<1>17. Known'
  BY <1>1, <1>10, <1>11, <1>12, <1>16, KnownSent
<1>18. (New(Setup)' <=> New(Setup)) /\ (Active(Setup)' <=> Active(Setup)) /\ (\A d \in Cmds : Active(d)' <=> Active(d))
  BY <1>1, <1>2, SameStages, CmdsNumbers
<1>19. TypeOK'
  <2>1. tick' \in BOOLEAN /\ handshake' \in {"auth", "setup", "done"} /\ sendQueue' \in Seq(Cmds)
    BY <1>1, <1>7, <1>9 DEF TypeOK
  <2>2. /\ wire' \in Seq(Cmds) /\ waiting' \in Seq(Cmds) /\ stage' \in [Cmds -> Stages] /\ sending' \subseteq Cmds
        /\ quitDone' \in BOOLEAN /\ killing' \in BOOLEAN /\ issued' \in 0..MaxCalls /\ socket' \in {"open", "lost", "none"}
        /\ expired' \subseteq Cmds /\ doomed' \subseteq Cmds /\ direct' \in Cmds \cup {NoCmd} /\ chunk' \in 0..(MaxCalls + 2)
    BY <1>1, <1>2 DEF TypeOK, Stages
  <2>3. closedBy' \in {"nobody", "end", "destroy", "error", "ping"}
    OBVIOUS
  <2> QED
    BY <1>1, <1>2, <1>8, <2>1, <2>2, <2>3, TypeSent
<1>20. Phases'
  <2>1. handshake' = "auth" => New(Setup)'
    BY <1>1, <1>18 DEF Phases
  <2>2. Active(Setup)' => handshake' = "setup"
    BY <1>1, <1>18 DEF Phases
  <2>3. handshake' \in {"auth", "setup"} => chunk' = 0 /\ tick' /\ sendQueue' = <<Quit>> /\ sending' = {}
    <3>1. SUFFICES ASSUME handshake' \in {"auth", "setup"} PROVE chunk' = 0 /\ tick' /\ sendQueue' = <<Quit>> /\ sending' = {}
      OBVIOUS
    <3>2. sendQueue = <<>> /\ sending = {}
      BY <1>1, <3>1 DEF Untouched, OnlySetup
    <3>3. sendQueue' = <<Quit>>
      BY <3>2
    <3>4. chunk' = 0 /\ sending' = {}
      BY <1>2, <3>1, <3>2
    <3>5. tick'
      BY <3>2
    <3> QED
      BY <3>3, <3>4, <3>5
  <2> QED
    BY <1>15, <2>1, <2>2, <2>3 DEF Phases
<1>21. NeverStuck'
  BY <1>1, <1>2, <1>7, <1>9 DEF NeverStuck
<1>22. Streams'
  <2>1. SUFFICES ASSUME pipelining, closedBy' = "end" PROVE OneStream'
    BY <1>2 DEF Streams
  <2>2. Open /\ status \notin {"ending", "closed"} /\ closedBy = "nobody"
    BY <1>1, <2>1 DEF Open, Phases
  <2>3. OneStream
    BY <1>1, <2>1, <2>2 DEF Streams
  <2>4. sending # {} => sendQueue' # <<>> /\ sending = {Head(sendQueue')}
    BY <1>7, <1>9, <2>2, <2>3 DEF OneStream
  <2> QED
    BY <1>2, <2>3, <2>4 DEF OneStream, New, Active
<1>23. KindsKnown' /\ Untouched' /\ OnlySetup' /\ Match' /\ Remembered' /\ SerialOneAtATime' /\ ErrorSettlesActive'
  BY <1>1, <1>2, <1>15 DEF KindsKnown, Untouched, OnlySetup, Match, Remembered, SerialOneAtATime, ErrorSettlesActive
<1> QED
  BY <1>14, <1>17, <1>19, <1>20, <1>21, <1>22, <1>23 DEF CQInv

\* The client calls end().
LEMMA EndStep ==
  ASSUME CQInv, End, EarlyCalls \subseteq {"connecting"}
  PROVE  CQInv'
<1>1. TypeOK /\ Phases
  BY DEF CQInv
<1>2. /\ chunk = 0 /\ handshake \notin {"flush", "answered"} /\ status \notin {"ending", "closed"}
      /\ status' = "ending" /\ addCommand' = "disabled" /\ closedBy' = "end" /\ socket' = socket
      /\ sendQueue' = Append(sendQueue, Quit) /\ receiveQueue' = Append(receiveQueue, Quit)
      /\ tick' = (tick \/ sendQueue = <<>>)
      /\ UNCHANGED <<fixed, issued, handshake, waiting, stage, sending, wire, quitDone, expired, doomed, cached, direct, chunk,
                     killing>>
  BY DEF End, Between, Terminate, SendQuit, commands, reader
<1>3. Open /\ killing' = FALSE /\ cached' \in Cmds \cup {NoCmd}
  BY <1>1, <1>2 DEF TypeOK, Open, Phases
<1>4. handshake' \in {"auth", "setup"} => chunk = 0 /\ status \in {"connecting", "init"}
  BY <1>1, <1>2 DEF TypeOK, Phases
<1>5. UNCHANGED <<fixed, issued, waiting, stage, sending, wire, quitDone, expired, doomed, direct, chunk>>
  BY <1>2
<1>6. handshake' = handshake /\ handshake' \notin {"answered", "flush"}
  BY <1>2
<1> QED
  BY <1>2, <1>3, <1>4, <1>5, <1>6, QuitStep

\* A session query is refused.
LEMMA InitRefusedStep ==
  ASSUME CQInv, InitRefused
  PROVE  CQInv'
<1>1. TypeOK /\ Phases
  BY DEF CQInv
<1>2. /\ handshake = "answered" /\ handshake' = "done" /\ status = "init"
      /\ status' = "ending" /\ addCommand' = "disabled" /\ closedBy' = "end" /\ socket' = socket
      /\ sendQueue' = Append(sendQueue, Quit) /\ receiveQueue' = Append(receiveQueue, Quit)
      /\ tick' = (tick \/ sendQueue = <<>>)
      /\ UNCHANGED <<fixed, issued, waiting, stage, sending, wire, quitDone, expired, doomed, cached, direct, chunk, killing>>
  BY DEF InitRefused, Terminate, SendQuit, commands, reader
<1>3. Open /\ killing' = FALSE /\ cached' \in Cmds \cup {NoCmd}
  BY <1>1, <1>2 DEF TypeOK, Open, Phases
<1>4. UNCHANGED <<fixed, issued, waiting, stage, sending, wire, quitDone, expired, doomed, direct, chunk>>
  BY <1>2
<1> QED
  BY <1>2, <1>3, <1>4, QuitStep

\* The connection that was to kill this one could not: the QUIT is sent instead.
LEMMA KillFailsStep ==
  ASSUME CQInv, KillFails
  PROVE  CQInv'
<1>1. TypeOK /\ Phases
  BY DEF CQInv
<1>2. /\ killing /\ killing' = FALSE /\ ~tick /\ ~quitDone /\ handshake \notin {"flush", "answered"}
      /\ sendQueue' = Append(sendQueue, Quit) /\ receiveQueue' = Append(receiveQueue, Quit)
      /\ tick' = (tick \/ sendQueue = <<>>)
      /\ UNCHANGED <<fixed, issued, handshake, status, addCommand, socket, closedBy, waiting, stage, sending, wire, quitDone,
                     expired, doomed, cached, direct, chunk>>
  BY DEF KillFails, LoopDrained, Between, SendQuit, commands, reader, link
<1>3. status' = "ending" /\ addCommand' = "disabled" /\ closedBy' = "destroy" /\ cached' \in Cmds \cup {NoCmd}
  BY <1>1, <1>2 DEF TypeOK, Phases, Usable
<1>4. handshake' \notin {"auth", "setup", "answered", "flush"} /\ handshake' = handshake
  BY <1>1, <1>2, <1>3 DEF Phases
<1>5. UNCHANGED <<fixed, issued, waiting, stage, sending, wire, quitDone, expired, doomed, direct, chunk>>
  BY <1>2
<1> QED
  BY <1>2, <1>3, <1>4, <1>5, QuitStep

\* A packet that no command is owed: the connection is closed, or ended if the server says so.
LEMMA ServerNoticeStep ==
  ASSUME CQInv, ServerNotice
  PROVE  CQInv'
<1>1. TypeOK /\ Phases /\ Known /\ Order /\ OnlySetup /\ ErrorSettlesActive
  BY DEF CQInv
<1>2. /\ LoopDrained /\ socket = "open" /\ handshake # "auth" /\ wire = <<>>
      /\ UNCHANGED <<pipelining, kind, issued, waiting, expired, doomed, direct, chunk, killing>>
  BY DEF ServerNotice, fixed
<1>3. Between /\ ~tick /\ ~quitDone /\ handshake \notin {"auth", "answered", "flush"} /\ chunk = 0
  BY <1>2 DEF LoopDrained, Between
<1>4. status # "ending" => Usable /\ Open /\ handshake = "done"
  <2>1. SUFFICES ASSUME status # "ending" PROVE Usable /\ Open /\ handshake = "done"
    OBVIOUS
  <2>2. status \in {"init", "connected"}
    BY <1>1, <1>2, <2>1 DEF TypeOK, Phases
  <2>3. status # "init"
    BY <1>1, <1>2, <1>3 DEF OnlySetup, Phases
  <2> QED
    BY <1>1, <1>3, <2>2, <2>3 DEF Usable, Open, Phases
<1>5. CASE UnexpectedPacket /\ UNCHANGED wire
  <2>1. /\ receiveQueue' = <<>> /\ cached' = NoCmd
        /\ UNCHANGED <<handshake, stage, sending, quitDone, tick, wire>>
    BY <1>5 DEF UnexpectedPacket
  <2>2. receiveQueue' \in Seq(Cmds) /\ Increasing(receiveQueue') /\ Range(receiveQueue') \subseteq Range(receiveQueue)
    BY <2>1, QueueElements DEF Increasing
  <2>3. /\ stage' \in [Cmds -> Stages] /\ (\A d \in Cmds : stage'[d] = stage[d] \/ (Active(d) /\ stage'[d] = "over"))
        /\ (New(Setup)' <=> New(Setup)) /\ (Active(Setup)' <=> Active(Setup)) /\ (\A d \in Cmds : Active(d)' <=> Active(d))
    BY <1>1, <2>1, SameStages, CmdsNumbers
  <2>4. \A d \in doomed' : d \in Cmds /\ ~New(d)
    BY <1>1, <1>2 DEF TypeOK, Known
  <2>5. CASE status = "ending"
    <3>1. UNCHANGED <<status, addCommand, socket, closedBy, sendQueue>>
      BY <1>5, <2>5 DEF UnexpectedPacket
    <3>2. Shrinks
      BY <1>2, <2>1, <2>2, <2>3, <3>1 DEF Shrinks, fixed
    <3>3. TypeOK'
      BY <1>1, <1>2, <2>1, <2>2, <3>1 DEF TypeOK
    <3>4. ~Open' /\ ~Usable' /\ ~Open /\ ~Usable
      BY <2>5, <3>1 DEF Open, Usable
    <3>5. Phases'
      BY <1>1, <1>2, <1>3, <2>1, <2>3, <2>5, <3>1, <3>4 DEF Phases
    <3>6. ErrorSettlesActive'
      BY <1>1, <1>2, <2>3, <3>1, SettledStill
    <3> QED
      BY <1>2, <2>1, <2>4, <2>5, <3>1, <3>2, <3>3, <3>4, <3>5, <3>6, ShrinkStep
  <2>6. CASE status # "ending"
    <3>1. Close("error")
      BY <1>5, <2>6 DEF UnexpectedPacket
    <3>2. Usable /\ Open
      BY <1>4, <2>6
    <3>3. \A d \in Cmds : ~Active(d)
      BY <1>2, <3>2, QueueElements DEF CQInv, Match, Matched
    <3>4. ErrorSettlesActive'
      BY <2>3, <3>3, CmdsNumbers DEF ErrorSettlesActive
    <3>5. expired' \subseteq Cmds /\ doomed' \subseteq Cmds /\ cached' \in Cmds \cup {NoCmd} /\ quitDone' \in BOOLEAN
          /\ direct' \in Cmds \cup {NoCmd} /\ chunk' \in 0..(MaxCalls + 2) /\ (quitDone' => quitDone) /\ killing' = FALSE
      BY <1>1, <1>2, <2>1, <3>2 DEF TypeOK, Phases
    <3>6. handshake' = IF handshake = "answered" THEN "done" ELSE handshake
      BY <1>3, <2>1
    <3>7. UNCHANGED <<fixed, issued, waiting, stage, sending, wire>> /\ tick' = tick
      BY <1>2, <2>1 DEF fixed
    <3> QED
      BY <1>3, <2>2, <2>4, <3>1, <3>4, <3>5, <3>6, <3>7, CloseStep
  <2> QED
    BY <2>5, <2>6
<1>6. CASE /\ status # "ending"
           /\ Terminate("end") /\ UNCHANGED <<handshake, commands>>
           /\ sendQueue' = Append(sendQueue, Quit)
           /\ receiveQueue' = <<Quit>> /\ cached' = NoCmd
           /\ tick' = (tick \/ sendQueue = <<>>)
  <2>1. /\ status' = "ending" /\ addCommand' = "disabled" /\ closedBy' = "end" /\ socket' = socket /\ handshake' = handshake
        /\ UNCHANGED <<stage, sending, wire, quitDone>>
    BY <1>6 DEF Terminate, commands
  <2>2. Open /\ handshake = "done" /\ killing' = FALSE /\ cached' \in Cmds \cup {NoCmd}
    BY <1>1, <1>2, <1>4, <1>6 DEF TypeOK, Phases
  <2>3. UNCHANGED <<fixed, issued, waiting, stage, sending, wire, quitDone, expired, doomed, direct, chunk>>
    BY <1>2, <2>1 DEF fixed
  <2> QED
    BY <1>6, <2>1, <2>2, <2>3, QuitStep
<1> QED
  BY <1>5, <1>6 DEF ServerNotice

-----------------------------------------------------------------------------
(***************************************************************************)
(* The steps that send what is queued.                                     *)
(***************************************************************************)
\* Starting nothing.
LEMMA StartNothing ==
  ASSUME TypeOK, NEW now, NEW q \in Seq(Cmds), Increasing(q), Start(<<>>, now), sendQueue' = q
  PROVE  Sent({}, q, now)
<1>1. Range(<<>>) = {} /\ Filter(<<>>, {c \in Cmds : Answered(c)}) = <<>>
  BY QueueElements, FilterEmpty
<1>2. Written({}, now)
  <2>1. wire' = now.wire \o <<>> /\ Len(<<>>) <= 1
    <3>1. wire' = now.wire \o Filter(<<>>, {c \in Cmds : Answered(c)})
      BY DEF Start
    <3>2. Len(<<>>) <= 1
      OBVIOUS
    <3> QED
      BY <1>1, <3>1, <3>2
  <2>2. Range(<<>>) = {} \cap {d \in Cmds : Answered(d)}
    BY QueueElements
  <2> QED
    BY <2>1, <2>2, QueueElements, Zenon DEF Written
<1>3. stage' = [d \in Cmds |-> IF d \notin {} THEN now.stage[d] ELSE IF Answered(d) THEN "active" ELSE "over"]
  BY <1>1 DEF Start
<1>4. Streamed({}) = {}
  BY DEF Streamed
<1>5. sendQueue' \in Seq(Cmds) /\ Increasing(sendQueue') /\ Range(sendQueue') \subseteq Range(q)
      /\ Range(q) \subseteq {} \cup Range(sendQueue') /\ {} \subseteq Range(q)
  BY DEF Increasing
<1>6. \A d \in {} : FALSE
  OBVIOUS
<1>7. quitDone' = (quitDone \/ Quit \in {}) /\ sending' = now.sending \cup Streamed({})
  BY <1>1, <1>4 DEF Start
<1>8. pipelining => \A d \in Streamed({}) : sendQueue' # <<>> /\ d = Head(sendQueue') /\ \A e \in {} : e <= d
  BY <1>4
<1> QED
  BY <1>2, <1>3, <1>5, <1>6, <1>7, <1>8, Zenon DEF Sent

\* What is left of the sendQueue keeps the order when the first of it are sent.
Rests(q, now, S) ==
  /\ NowReady(now) /\ Sent(S, q, now)
  /\ q \in Seq(Cmds) /\ Increasing(q) /\ Range(q) \subseteq Range(sendQueue)
  /\ \A c \in Range(q) : New(c) \/ (c \in now.sending /\ c = Head(q))
  /\ S # {} => q # <<>> /\ Head(q) \notin sending
  /\ UNCHANGED <<pipelining, kind, issued, waiting, status, addCommand, socket, closedBy, killing>>
  /\ receiveQueue' \in Seq(Cmds) /\ Increasing(receiveQueue') /\ Range(receiveQueue') \subseteq Range(receiveQueue)
  /\ doomed' \subseteq doomed

\* Order, commands known and types when a first part of the sendQueue is sent.
LEMMA SendRest ==
  ASSUME TypeOK, KindsKnown, Known, Order, NEW S, NEW q, NEW now, Rests(q, now, S)
  PROVE  /\ QueueReady(q, now, S) /\ Order' /\ Known'
         /\ stage' \in [Cmds -> Stages] /\ sending' \subseteq Cmds /\ wire' \in Seq(Cmds) /\ sendQueue' \in Seq(Cmds)
         /\ Setup \notin S /\ (Open \/ killing => Quit \notin S) /\ (sendQueue = <<>> => S = {} /\ sendQueue' = <<>>)
         /\ (New(Setup)' <=> New(Setup)) /\ (Active(Setup)' => Active(Setup) /\ now.stage[Setup] = "active")
         /\ quitDone' = (quitDone \/ Quit \in S)
<1>1. /\ NowReady(now) /\ Sent(S, q, now)
      /\ q \in Seq(Cmds) /\ Increasing(q) /\ Range(q) \subseteq Range(sendQueue) /\ S \subseteq Range(q)
      /\ UNCHANGED <<pipelining, kind, issued, waiting, status, addCommand, socket, closedBy, killing>>
      /\ receiveQueue' \in Seq(Cmds) /\ Increasing(receiveQueue') /\ Range(receiveQueue') \subseteq Range(receiveQueue)
      /\ doomed' \subseteq doomed
  BY DEF Rests, Sent
<1>2. Range(sendQueue) \subseteq Cmds /\ Range(wire) \subseteq Cmds /\ Range(waiting) \subseteq Cmds /\ issued \in 0..MaxCalls
      /\ issued' = issued /\ MaxCalls \in Nat
  BY <1>1, QueueElements, CommandQueueAssumption DEF TypeOK
<1>3. QueueReady(q, now, S)
  <2>1. Range(q) \subseteq 0..issued' \cup {Quit}
    BY <1>1, <1>2 DEF Known
  <2>2. S # {} => New(Head(q))
    <3>1. SUFFICES ASSUME S # {} PROVE New(Head(q))
      OBVIOUS
    <3>2. q # <<>> /\ Head(q) \notin sending /\ now.sending \subseteq sending
      BY <3>1 DEF Rests, NowReady
    <3>3. Head(q) \in Range(q)
      BY <1>1, <3>2, QueueElements
    <3> QED
      BY <3>2, <3>3 DEF Rests
  <2>3. \A c \in Range(wire), d \in Range(q) : New(d) => c < d
    BY <1>1 DEF Order
  <2>4. \A c \in Cmds, d \in Range(q) : Active(c) /\ New(d) => c < d
    BY <1>1 DEF Order
  <2>5. Increasing(waiting') /\ Range(waiting') \subseteq Cmds /\ \A c \in Range(waiting'), d \in Range(q) : d # Quit => d < c
    BY <1>1, <1>2 DEF Order, Known, Increasing
  <2>6. \A c \in Range(waiting'), d \in Cmds : Active(d) /\ New(c) => d < c
    BY <1>1 DEF Order
  <2>7. \A c \in Range(q) : New(c) \/ (c \in now.sending /\ c = Head(q))
    BY DEF Rests
  <2> QED
    BY <1>1, <2>1, <2>2, <2>3, <2>4, <2>5, <2>6, <2>7 DEF QueueReady
<1>4. Order'
  <2>1. issued' >= issued /\ issued' \in Nat /\ kind' = kind
    BY <1>1, <1>2
  <2> QED
    BY <1>1, <1>3, <2>1, OrderSent
<1>5. KnownReady(q, S)
  <2>1. Setup \notin Range(q)
    BY <1>1 DEF Known
  <2>2. Range(receiveQueue') \subseteq 0..issued' \cup {Quit}
    BY <1>1, <1>2 DEF Known
  <2>3. /\ \A c \in Range(waiting') : c \in 1..issued' /\ New(c)
        /\ \A c \in Range(waiting'), d \in Range(receiveQueue') : d # Quit => d < c
    BY <1>1, <1>2 DEF Known
  <2>4. Open' \/ killing' => New(Quit) /\ Quit \notin Range(q) \cup Range(receiveQueue')
    BY <1>1 DEF Known, Open
  <2>5. ~New(Quit) => q = <<>>
    <3>1. sendQueue = <<>> => Range(q) = {}
      BY <1>1, QueueElements
    <3> QED
      BY <1>1, <3>1, QueueElements DEF Known
  <2>6. \A c \in doomed' : c \in Cmds /\ ~New(c)
    BY <1>1 DEF TypeOK, Known
  <2> QED
    BY <1>1, <1>2, <2>1, <2>2, <2>3, <2>4, <2>5, <2>6 DEF KnownReady
<1>6. Known'
  BY <1>1, <1>3, <1>5, KnownSent
<1>7. /\ S \subseteq Cmds /\ stage' \in [Cmds -> Stages] /\ sending' \subseteq Cmds /\ wire' \in Seq(Cmds)
      /\ \A c \in Cmds : New(c)' <=> New(c) /\ c \notin S
      /\ \A c \in Cmds : Active(c)' <=> (c \in S /\ Answered(c)) \/ (c \notin S /\ now.stage[c] = "active")
  BY <1>1, <1>3, SentEffect
<1>8. Setup \notin S /\ (Open \/ killing => Quit \notin S)
  BY <1>1 DEF Known
<1>9. /\ (New(Setup)' <=> New(Setup)) /\ (Active(Setup)' => Active(Setup) /\ now.stage[Setup] = "active")
  <2>1. now.stage[Setup] = "active" => Active(Setup)
    BY <1>1, CmdsNumbers DEF NowReady, Active
  <2> QED
    BY <1>7, <1>8, <2>1, CmdsNumbers
<1>10. sendQueue' \in Seq(Cmds) /\ quitDone' = (quitDone \/ Quit \in S) /\ Range(sendQueue') \subseteq Range(q)
  BY <1>1 DEF Sent
<1>11. sendQueue = <<>> => S = {} /\ sendQueue' = <<>>
  <2>1. sendQueue = <<>> => Range(q) = {}
    BY <1>1, QueueElements
  <2>2. Range(q) = {} => S = {} /\ Range(sendQueue') = {}
    BY <1>1, <1>10
  <2> QED
    BY <1>10, <2>1, <2>2, QueueElements
<1> QED
  BY <1>3, <1>4, <1>6, <1>7, <1>8, <1>9, <1>10, <1>11, Zenon

\* When nothing is sent, the commands are as they were just before.
LEMMA RestSame ==
  ASSUME TypeOK, NEW q, NEW now, NowReady(now), Sent({}, q, now)
  PROVE  stage' = now.stage /\ sending' = now.sending /\ wire' = now.wire /\ sendQueue' = q
<1>1. now.wire \in Seq(Cmds)
  <2>1. wire \in Seq(Cmds) /\ (wire # <<>> => Tail(wire) \in Seq(Cmds))
    BY DEF TypeOK
  <2> QED
    BY <2>1 DEF NowReady
<1>2. now.stage \in [Cmds -> Stages]
  BY DEF NowReady
<1> QED
  BY <1>1, <1>2, NothingSent

\* The phase of the connection stays what it is.
LEMMA PhasesSent ==
  ASSUME TypeOK, Phases, Known, NEW S, quitDone' = (quitDone \/ Quit \in S), Open \/ killing => Quit \notin S,
         New(Setup)' <=> New(Setup), Active(Setup)' => Active(Setup), sendQueue = <<>> => sendQueue' = <<>>,
         UNCHANGED <<handshake, status, addCommand, socket, closedBy, waiting, killing>>,
         Open => ~tick' /\ doomed' = {} /\ expired' = {},
         handshake \in {"auth", "setup"} => status # "ending" \/ (chunk' = 0 /\ quitDone')
  PROVE  Phases'
<1>1. (Usable' <=> Usable) /\ (Open' <=> Open)
  BY DEF Usable, Open
<1>2. Open => ~quitDone'
  BY DEF Phases
<1> QED
  BY <1>1, <1>2 DEF Phases

\* The tick that sends what end() found queued.
LEMMA NextSendTickStep ==
  ASSUME CQInv, NextSendTick
  PROVE  CQInv'
<1>1. TypeOK /\ KindsKnown /\ Phases /\ Known /\ Order /\ NeverStuck /\ Streams
  BY DEF CQInv
<1>2. /\ tick /\ tick' = FALSE /\ NextSendCmd(sendQueue, Now) /\ handshake # "flush" /\ chunk = 0
      /\ UNCHANGED <<pipelining, kind, issued, handshake, status, addCommand, socket, closedBy, waiting, receiveQueue,
                     expired, doomed, cached, direct, chunk, killing>>
  BY DEF NextSendTick, Between, fixed, link, reader
<1>3. ~Open /\ ~Open' /\ ~Usable' /\ status \in {"ending", "closed"} /\ handshake \in {"auth", "setup", "done"}
  BY <1>1, <1>2 DEF Phases, Open, Usable, TypeOK
<1>4. sendQueue \in Seq(Cmds) /\ Increasing(sendQueue)
  BY <1>1 DEF TypeOK, Order
<1>5. PICK S : Sent(S, sendQueue, Now) /\ SentAll(S, sendQueue)
  BY <1>1, <1>2, <1>4, NextSends DEF TypeOK
<1>6. NowReady(Now) /\ Now.stage = stage /\ Now.sending = sending /\ Now.wire = wire
  BY <1>1, NowIsReady
<1>7. Rests(sendQueue, Now, S)
  <2>1. \A c \in Range(sendQueue) : New(c) \/ (c \in Now.sending /\ c = Head(sendQueue))
    BY <1>1, <1>6 DEF Order
  <2>2. receiveQueue' \in Seq(Cmds) /\ Increasing(receiveQueue') /\ Range(receiveQueue') \subseteq Range(receiveQueue)
    BY <1>1, <1>2 DEF TypeOK, Order, Increasing
  <2>3. S # {} => sendQueue # <<>> /\ Head(sendQueue) \notin sending
    BY <1>5 DEF SentAll
  <2> QED
    BY <1>2, <1>4, <1>5, <1>6, <2>1, <2>2, <2>3 DEF Rests
<1>8. /\ QueueReady(sendQueue, Now, S) /\ Order' /\ Known'
      /\ stage' \in [Cmds -> Stages] /\ sending' \subseteq Cmds /\ wire' \in Seq(Cmds) /\ sendQueue' \in Seq(Cmds)
      /\ Setup \notin S /\ (Open \/ killing => Quit \notin S) /\ (sendQueue = <<>> => S = {} /\ sendQueue' = <<>>)
      /\ (New(Setup)' <=> New(Setup)) /\ (Active(Setup)' => Active(Setup) /\ Now.stage[Setup] = "active")
      /\ quitDone' = (quitDone \/ Quit \in S)
  BY <1>1, <1>7, SendRest
<1>9. TypeOK'
  <2>1. quitDone' \in BOOLEAN /\ tick' \in BOOLEAN
    BY <1>2, <1>8
  <2> QED
    BY <1>1, <1>2, <1>7, <1>8, <2>1, TypeSent DEF TypeOK, Rests
<1>10. Phases'
  <2>1. ASSUME handshake \in {"auth", "setup"}, status = "ending" PROVE quitDone'
    <3>1. CASE quitDone
      BY <1>8, <3>1
    <3>2. CASE ~quitDone
      <4>1. sendQueue = <<Quit>> /\ sending = {}
        BY <1>1, <2>1, <3>2 DEF Phases
      <4>2. sendQueue # <<>> /\ Head(sendQueue) = Quit
        BY <4>1
      <4>3. S # {} /\ Head(sendQueue) \in S
        BY <1>5, <4>1, <4>2 DEF SentAll, Sent
      <4> QED
        BY <1>8, <4>2, <4>3
    <3> QED
      BY <3>1, <3>2
  <2>2. handshake \in {"auth", "setup"} => status # "ending" \/ (chunk' = 0 /\ quitDone')
    BY <1>2, <2>1
  <2> QED
    BY <1>1, <1>2, <1>3, <1>8, <2>2, PhasesSent
<1>11. NeverStuck'
  <2>1. SUFFICES ASSUME pipelining, sendQueue' # <<>> PROVE Head(sendQueue') \in sending'
    BY <1>2 DEF NeverStuck
  <2>2. CASE S = {}
    <3>1. sendQueue' = sendQueue /\ sending' = sending
      BY <1>1, <1>5, <1>6, <2>2, RestSame
    <3> QED
      BY <1>5, <2>1, <2>2, <3>1 DEF SentAll
  <2>3. CASE S # {}
    <3>1. Head(sendQueue') \in Streamed(S)
      BY <1>5, <2>1, <2>3 DEF SentAll
    <3> QED
      BY <1>5, <3>1 DEF Sent
  <2> QED
    BY <2>2, <2>3
<1>12. Streams'
  <2>1. SUFFICES ASSUME pipelining, closedBy # "destroy", status # "closed" PROVE OneStream'
    BY <1>2 DEF Streams
  <2>2. OneStream
    BY <1>1, <2>1 DEF Streams
  <2>3. CASE S = {}
    <3>1. sendQueue' = sendQueue /\ sending' = sending /\ wire' = wire /\ stage' = stage
      BY <1>1, <1>5, <1>6, <2>3, RestSame
    <3> QED
      BY <1>2, <2>2, <3>1 DEF OneStream, New, Active
  <2>4. CASE S # {}
    <3>1. sendQueue # <<>> /\ Head(sendQueue) \notin sending
      BY <1>5, <2>4 DEF SentAll
    <3>2. sending = {}
      BY <2>2, <3>1 DEF OneStream
    <3>3. sendQueue # <<>> => New(Quit)
      BY <1>1 DEF Known
    <3> QED
      BY <1>1, <1>5, <1>6, <1>8, <2>1, <3>2, <3>3, OneStreamSent
  <2> QED
    BY <2>3, <2>4
<1>13. ErrorSettlesActive'
  <2>1. SUFFICES ASSUME closedBy = "error" PROVE \A c \in Calls : Active(c)' => c \in doomed' \cup expired'
    BY <1>2 DEF ErrorSettlesActive
  <2>2. S = {}
    BY <1>1, <1>8, <2>1 DEF Phases
  <2>3. stage' = stage
    BY <1>1, <1>5, <1>6, <2>2, RestSame
  <2> QED
    BY <1>2, <2>1, <2>3 DEF CQInv, ErrorSettlesActive, Active
<1>14. KindsKnown' /\ Untouched' /\ OnlySetup' /\ Match' /\ Remembered' /\ SerialOneAtATime'
  BY <1>1, <1>2, <1>3 DEF KindsKnown, Untouched, OnlySetup, Match, Remembered, SerialOneAtATime
<1> QED
  BY <1>8, <1>9, <1>10, <1>11, <1>12, <1>13, <1>14 DEF CQInv

\* A dispatched error reaches its command; without pipelining that sends the next one.
LEMMA RejectDoomedStep ==
  ASSUME CQInv, NEW c \in Cmds, RejectDoomed(c)
  PROVE  CQInv'
<1>1. TypeOK /\ KindsKnown /\ Phases /\ Known /\ Order /\ NeverStuck /\ Streams
  BY DEF CQInv
<1>2. /\ LoopDrained /\ c \in doomed /\ doomed' = doomed \ {c}
      /\ UNCHANGED <<pipelining, kind, issued, handshake, status, addCommand, socket, closedBy, waiting, receiveQueue,
                     expired, cached, direct, chunk, tick, killing>>
  BY DEF RejectDoomed, fixed, link, reader
<1>3. /\ ~Open /\ ~Open' /\ ~Usable' /\ ~New(c) /\ ~tick /\ ~quitDone
      /\ handshake \in {"auth", "setup"} => status # "ending"
  BY <1>1, <1>2 DEF Phases, Open, Usable, TypeOK, Known, LoopDrained
<1>4. receiveQueue' \in Seq(Cmds) /\ Increasing(receiveQueue') /\ Range(receiveQueue') \subseteq Range(receiveQueue)
  BY <1>1, <1>2 DEF TypeOK, Order, Increasing
<1>5. stage \in [Cmds -> Stages] /\ \A d \in Cmds : ~Active(d) /\ ~New(d) => stage[d] = "over"
  BY <1>1 DEF TypeOK, Stages, Active, New
<1>6. \A d \in doomed' : d \in Cmds /\ ~New(d)
  BY <1>1, <1>2 DEF TypeOK, Known
<1>7. CASE stage[c] = "over" \/ pipelining
  <2>1. stage' = [stage EXCEPT ![c] = "over"] /\ UNCHANGED <<sendQueue, sending, wire, quitDone>>
    BY <1>7 DEF RejectDoomed
  <2>2. stage' \in [Cmds -> Stages] /\ (\A d \in Cmds : stage'[d] = stage[d] \/ (Active(d) /\ stage'[d] = "over"))
        /\ stage'[c] = "over"
    <3>1. stage' \in [Cmds -> Stages] /\ stage'[c] = "over" /\ \A d \in Cmds : d # c => stage'[d] = stage[d]
      BY <1>5, <2>1 DEF Stages
    <3>2. stage'[c] = stage[c] \/ Active(c)
      BY <1>3, <1>5, <3>1
    <3> QED
      BY <3>1, <3>2
  <2>3. Shrinks
    BY <1>2, <1>4, <2>1, <2>2 DEF Shrinks, fixed
  <2>4. TypeOK'
    BY <1>1, <1>2, <1>4, <2>1, <2>2, TypeSent DEF TypeOK
  <2>5. \A d \in Cmds : (New(d)' <=> New(d)) /\ (Active(d)' => Active(d) /\ d # c)
    BY <2>2 DEF New, Active
  <2>6. Phases'
    <3>1. (New(Setup)' <=> New(Setup)) /\ (Active(Setup)' => Active(Setup)) /\ (sendQueue = <<>> => sendQueue' = <<>>)
      BY <2>1, <2>5, CmdsNumbers
    <3>2. quitDone' = (quitDone \/ Quit \in {})
      BY <1>1, <2>1 DEF TypeOK
    <3> QED
      BY <1>1, <1>2, <1>3, <3>1, <3>2, PhasesSent
  <2>7. ErrorSettlesActive'
    BY <1>2, <2>5, CmdsNumbers DEF CQInv, ErrorSettlesActive
  <2> QED
    BY <1>2, <1>3, <1>6, <2>1, <2>3, <2>4, <2>6, <2>7, ShrinkStep
<1>8. CASE ~(stage[c] = "over" \/ pipelining)
  <2> DEFINE now == [Now EXCEPT !.stage[c] = "over"]
  <2>1. NextSendCmd(sendQueue, now)
    BY <1>8 DEF RejectDoomed
  <2>2. now.stage = [stage EXCEPT ![c] = "over"] /\ now.sending = sending /\ now.wire = wire
    BY DEF Now
  <2> HIDE DEF now
  <2>3. NowReady(now) /\ ~pipelining /\ now.stage[c] = "over" /\ \A d \in Cmds : d # c => now.stage[d] = stage[d]
    <3>1. now.stage \in [Cmds -> Stages] /\ now.stage[c] = "over" /\ \A d \in Cmds : d # c => now.stage[d] = stage[d]
      BY <1>5, <2>2 DEF Stages
    <3>2. Active(c)
      BY <1>3, <1>5, <1>8
    <3> QED
      BY <1>8, <2>2, <3>1, <3>2 DEF NowReady
  <2>4. sendQueue \in Seq(Cmds) /\ Increasing(sendQueue)
    BY <1>1 DEF TypeOK, Order
  <2>5. PICK S : Sent(S, sendQueue, now) /\ SentAll(S, sendQueue)
    BY <1>1, <2>1, <2>4, NextSends DEF TypeOK
  <2>6. Rests(sendQueue, now, S)
    <3>1. \A d \in Range(sendQueue) : New(d) \/ (d \in now.sending /\ d = Head(sendQueue))
      BY <1>1, <2>2 DEF Order
    <3>2. S # {} => sendQueue # <<>> /\ Head(sendQueue) \notin sending
      BY <2>5 DEF SentAll
    <3>3. doomed' \subseteq doomed
      BY <1>2
    <3> QED
      BY <1>2, <1>4, <2>3, <2>4, <2>5, <3>1, <3>2, <3>3 DEF Rests
  <2>7. /\ QueueReady(sendQueue, now, S) /\ Order' /\ Known'
        /\ stage' \in [Cmds -> Stages] /\ sending' \subseteq Cmds /\ wire' \in Seq(Cmds) /\ sendQueue' \in Seq(Cmds)
        /\ Setup \notin S /\ (Open \/ killing => Quit \notin S) /\ (sendQueue = <<>> => S = {} /\ sendQueue' = <<>>)
        /\ (New(Setup)' <=> New(Setup)) /\ (Active(Setup)' => Active(Setup) /\ now.stage[Setup] = "active")
        /\ quitDone' = (quitDone \/ Quit \in S)
    BY <1>1, <2>6, SendRest
  <2>8. TypeOK'
    <3>1. quitDone' \in BOOLEAN
      BY <2>7
    <3>2. doomed' \subseteq Cmds
      BY <1>6
    <3> QED
      BY <1>1, <1>2, <1>4, <2>7, <3>1, <3>2, TypeSent DEF TypeOK
  <2>9. Phases'
    BY <1>1, <1>2, <1>3, <2>7, PhasesSent
  <2>10. ErrorSettlesActive'
    <3>1. SUFFICES ASSUME closedBy = "error", NEW d \in Calls, Active(d)' PROVE d \in doomed' \cup expired'
      BY <1>2 DEF ErrorSettlesActive
    <3>2. S = {}
      BY <1>1, <2>7, <3>1 DEF Phases
    <3>3. stage' = now.stage
      BY <1>1, <2>3, <2>5, <3>2, RestSame
    <3>4. d # c /\ Active(d)
      BY <2>3, <3>1, <3>3, CmdsNumbers DEF Active
    <3> QED
      BY <1>2, <3>1, <3>4 DEF CQInv, ErrorSettlesActive
  <2>11. Streams' /\ NeverStuck'
    BY <1>2, <2>3 DEF Streams, NeverStuck
  <2>12. KindsKnown' /\ Untouched' /\ OnlySetup' /\ Match' /\ Remembered' /\ SerialOneAtATime'
    BY <1>1, <1>2, <1>3 DEF KindsKnown, Untouched, OnlySetup, Match, Remembered, SerialOneAtATime, Open, Usable
  <2> QED
    BY <2>7, <2>8, <2>9, <2>10, <2>11, <2>12 DEF CQInv
<1> QED
  BY <1>7, <1>8

\* A stream parameter is written to its end.
LEMMA StreamEndsStep ==
  ASSUME CQInv, NEW c \in Cmds, StreamEnds(c)
  PROVE  CQInv'
<1> DEFINE now == [Now EXCEPT !.sending = @ \ {c}]
<1>0. PICK q : q = IF sendQueue # <<>> /\ Head(sendQueue) = c THEN Tail(sendQueue) ELSE sendQueue
  OBVIOUS
<1>1. TypeOK /\ KindsKnown /\ Phases /\ Known /\ Order /\ NeverStuck /\ Streams /\ Untouched /\ OnlySetup
  BY DEF CQInv
<1>2. /\ LoopDrained /\ c \in sending
      /\ IF pipelining THEN NextSendCmd(q, now) ELSE Start(<<>>, now) /\ sendQueue' = q
      /\ UNCHANGED <<pipelining, kind, issued, handshake, status, addCommand, socket, closedBy, waiting, receiveQueue,
                     expired, doomed, cached, direct, chunk, tick, killing>>
  BY <1>0 DEF StreamEnds, fixed, link, reader
<1>3. now.stage = stage /\ now.sending = sending \ {c} /\ now.wire = wire
  BY DEF Now
<1> HIDE DEF now
<1>4. NowReady(now)
  BY <1>1, <1>3 DEF NowReady, TypeOK, Stages
<1>5. /\ ~tick /\ ~quitDone /\ handshake \notin {"answered", "flush"} /\ (handshake \in {"auth", "setup"} => status # "ending")
      /\ status \notin {"connecting", "init"} /\ ~New(c) /\ c # NoCmd
  BY <1>1, <1>2, CmdsNumbers DEF LoopDrained, Between, Phases, Untouched, OnlySetup, Order
<1>6. sendQueue \in Seq(Cmds) /\ Increasing(sendQueue) /\ sending \subseteq Cmds /\ wire \in Seq(Cmds)
  BY <1>1 DEF TypeOK, Order
<1>7. /\ q \in Seq(Cmds) /\ Increasing(q) /\ Range(q) \subseteq Range(sendQueue)
      /\ \A d \in Range(sendQueue) : d \in Range(q) \/ d = c
      /\ c \notin Range(q) \/ (q = sendQueue /\ q # <<>> /\ Head(q) # c)
  <2>1. CASE sendQueue # <<>> /\ Head(sendQueue) = c
    <3>1. /\ q \in Seq(Cmds) /\ Range(sendQueue) = Range(q) \cup {Head(sendQueue)}
          /\ Increasing(q) /\ \A d \in Range(q) : Head(sendQueue) < d
      BY <1>0, <1>6, <2>1, QueueRest, Zenon
    <3>2. ~(c < c)
      BY CmdsNumbers
    <3> QED
      BY <2>1, <3>1, <3>2
  <2>2. CASE ~(sendQueue # <<>> /\ Head(sendQueue) = c)
    <3>1. q = sendQueue
      BY <1>0, <2>2
    <3>2. Range(q) # {} => q # <<>>
      BY QueueElements
    <3> QED
      BY <1>6, <2>2, <3>1, <3>2
  <2> QED
    BY <2>1, <2>2
<1>8. \A d \in Range(q) : New(d) \/ (d \in now.sending /\ d = Head(q))
  <2>1. SUFFICES ASSUME NEW d \in Range(q), ~New(d) PROVE d \in now.sending /\ d = Head(q)
    OBVIOUS
  <2>2. d \in sending /\ d = Head(sendQueue) /\ sendQueue # <<>>
    BY <1>1, <1>7, <2>1, QueueElements DEF Order
  <2>3. q = sendQueue /\ d # c
    BY <1>0, <1>7, <2>1, <2>2
  <2> QED
    BY <1>3, <2>2, <2>3
<1>9. PICK S : /\ Sent(S, q, now)
               /\ pipelining => SentAll(S, q)
               /\ ~pipelining => S = {}
  <2>1. CASE pipelining
    BY <1>1, <1>2, <1>7, <2>1, NextSends DEF TypeOK
  <2>2. CASE ~pipelining
    BY <1>1, <1>2, <1>7, <2>2, StartNothing
  <2> QED
    BY <2>1, <2>2
<1>10. Rests(q, now, S)
  <2>1. receiveQueue' \in Seq(Cmds) /\ Increasing(receiveQueue') /\ Range(receiveQueue') \subseteq Range(receiveQueue)
    BY <1>1, <1>2 DEF TypeOK, Order, Increasing
  <2>2. S # {} => q # <<>> /\ Head(q) \notin sending
    BY <1>9 DEF SentAll
  <2> QED
    BY <1>2, <1>4, <1>7, <1>8, <1>9, <2>1, <2>2 DEF Rests
<1>11. /\ QueueReady(q, now, S) /\ Order' /\ Known'
       /\ stage' \in [Cmds -> Stages] /\ sending' \subseteq Cmds /\ wire' \in Seq(Cmds) /\ sendQueue' \in Seq(Cmds)
       /\ Setup \notin S /\ (Open \/ killing => Quit \notin S) /\ (sendQueue = <<>> => S = {} /\ sendQueue' = <<>>)
       /\ (New(Setup)' <=> New(Setup)) /\ (Active(Setup)' => Active(Setup) /\ now.stage[Setup] = "active")
       /\ quitDone' = (quitDone \/ Quit \in S)
  BY <1>1, <1>10, SendRest
<1>12. TypeOK'
  <2>1. quitDone' \in BOOLEAN
    BY <1>11
  <2>2. receiveQueue' \in Seq(Cmds) /\ waiting' \in Seq(Cmds)
    BY <1>1, <1>2 DEF TypeOK
  <2> QED
    BY <1>1, <1>2, <1>11, <2>1, <2>2, TypeSent DEF TypeOK
<1>13. Phases'
  <2>1. Open => ~tick' /\ doomed' = {} /\ expired' = {}
    BY <1>1, <1>2 DEF Phases
  <2> QED
    BY <1>1, <1>2, <1>5, <1>11, <2>1, PhasesSent
<1>14. q # <<>> => New(Quit)
  <2>1. sendQueue = <<>> => Range(q) = {}
    BY <1>7, QueueElements
  <2> QED
    BY <1>1, <1>7, <2>1, QueueElements DEF Known
<1>15. NeverStuck'
  <2>1. SUFFICES ASSUME pipelining, sendQueue' # <<>> PROVE Head(sendQueue') \in sending'
    BY <1>2 DEF NeverStuck
  <2>2. CASE S = {}
    <3>1. sendQueue' = q /\ sending' = sending \ {c}
      BY <1>1, <1>3, <1>4, <1>9, <2>2, RestSame
    <3>2. Head(q) \in sending /\ Head(q) \in Range(q)
      BY <1>7, <1>9, <2>1, <2>2, <3>1, QueueElements DEF SentAll
    <3>3. Head(q) # c
      BY <1>7, <3>2
    <3> QED
      BY <3>1, <3>2, <3>3
  <2>3. CASE S # {}
    <3>1. Head(sendQueue') \in Streamed(S)
      BY <1>9, <2>1, <2>3 DEF SentAll
    <3> QED
      BY <1>9, <3>1 DEF Sent
  <2> QED
    BY <2>2, <2>3
<1>16. Streams'
  <2>1. SUFFICES ASSUME pipelining, closedBy # "destroy", status # "closed" PROVE OneStream'
    BY <1>2 DEF Streams
  <2>2. OneStream
    BY <1>1, <2>1 DEF Streams
  <2>3. now.sending = {}
    BY <1>2, <1>3, <2>2 DEF OneStream
  <2> QED
    BY <1>1, <1>4, <1>9, <1>11, <1>14, <2>1, <2>3, OneStreamSent
<1>17. ErrorSettlesActive'
  <2>1. SUFFICES ASSUME closedBy = "error" PROVE \A d \in Calls : Active(d)' => d \in doomed' \cup expired'
    BY <1>2 DEF ErrorSettlesActive
  <2>2. S = {}
    BY <1>1, <1>11, <2>1 DEF Phases
  <2>3. stage' = stage
    BY <1>1, <1>3, <1>4, <1>9, <2>2, RestSame
  <2> QED
    BY <1>2, <2>1, <2>3 DEF CQInv, ErrorSettlesActive, Active
<1>18. KindsKnown' /\ Untouched' /\ OnlySetup'
  BY <1>1, <1>2, <1>5 DEF KindsKnown, Untouched, OnlySetup
<1>19. Match'
  <2>1. SUFFICES ASSUME Usable PROVE Matched'
    BY <1>2 DEF Match, Usable
  <2>2. Matched
    BY <2>1 DEF CQInv, Match
  <2>3. Awaited(q, now)
    <3>1. \A d \in Cmds : now.stage[d] = "active" <=> d \in Range(now.wire)
      BY <1>3, <2>2 DEF Matched, Active
    <3>2. Range(now.wire) \subseteq Range(receiveQueue') /\ Range(receiveQueue') \subseteq Cmds
      BY <1>1, <1>2, <1>3, <2>2, QueueElements DEF Matched, TypeOK
    <3>3. \A d \in Range(receiveQueue') : New(d) => d \in Range(q)
      BY <1>2, <1>5, <1>7, <2>2 DEF Matched
    <3>4. \A d \in Range(q) : New(d) /\ kind[d] # "close" => d \in Range(receiveQueue')
      BY <1>2, <1>7, <2>2 DEF Matched
    <3> QED
      BY <1>2, <3>1, <3>2, <3>3, <3>4 DEF Awaited
  <2> QED
    BY <1>1, <1>4, <1>9, <1>11, <2>3, MatchedSent
<1>20. Remembered'
  <2>1. SUFFICES ASSUME Usable PROVE Recalled'
    BY <1>2 DEF Remembered, Usable
  <2>2. Recalled
    BY <2>1 DEF CQInv, Remembered
  <2>3. /\ \A d \in S : New(d)
        /\ \A d \in Cmds : New(d)' <=> New(d) /\ d \notin S
        /\ \A d \in Cmds : Active(d)' <=> (d \in S /\ Answered(d)) \/ (d \notin S /\ now.stage[d] = "active")
        /\ now.wire # <<>> => wire' # <<>> /\ Head(wire') = Head(now.wire)
    BY <1>1, <1>4, <1>9, <1>11, SentEffect
  <2>4. \A d \in Cmds : ~New(d) => ~New(d)' /\ (Active(d)' <=> Active(d))
    BY <1>3, <2>3 DEF Active
  <2>5. cached \in Cmds \cup {NoCmd} /\ direct \in Cmds \cup {NoCmd} /\ UNCHANGED <<cached, direct, receiveQueue>>
    BY <1>1, <1>2 DEF TypeOK
  <2>6. cached' # NoCmd => ~New(cached)'
    BY <2>2, <2>4, <2>5 DEF Recalled, New
  <2>7. direct' # NoCmd => ~New(direct)'
    BY <2>2, <2>4, <2>5 DEF Recalled, New
  <2>8. Cached' => receiveQueue' # <<>> /\ Head(receiveQueue') = cached'
    BY <2>2, <2>4, <2>5 DEF Recalled, Cached, Active
  <2>9. direct' # NoCmd /\ Active(direct)' => wire' # <<>> /\ direct' = Head(wire')
    BY <1>3, <2>2, <2>3, <2>4, <2>5 DEF Recalled, Active
  <2> QED
    BY <2>6, <2>7, <2>8, <2>9 DEF Recalled
<1>21. SerialOneAtATime'
  <2>1. SUFFICES ASSUME ~pipelining, Usable PROVE Len(wire') <= 1
    BY <1>2 DEF SerialOneAtATime, Usable
  <2>2. wire' = wire
    BY <1>1, <1>3, <1>4, <1>9, <2>1, RestSame
  <2> QED
    BY <2>1, <2>2 DEF CQInv, SerialOneAtATime
<1> QED
  BY <1>11, <1>12, <1>13, <1>15, <1>16, <1>17, <1>18, <1>19, <1>20, <1>21 DEF CQInv

-----------------------------------------------------------------------------
(***************************************************************************)
(* The steps that read a packet.                                           *)
(***************************************************************************)
\* When a packet arrives the session is being prepared, usable or ending.
LEMMA ArrivesFacts ==
  ASSUME CQInv, NEW k \in Cmds, Arrives(k)
  PROVE  /\ wire # <<>> /\ socket = "open" /\ (Usable \/ status = "ending") /\ handshake \in {"setup", "done"}
         /\ status = "ending" => handshake = "done"
         /\ k \in 1..(MaxCalls + 1)
<1>1. TypeOK /\ Phases /\ OnlySetup /\ Order
  BY DEF CQInv
<1>2. /\ wire # <<>> /\ socket = "open" /\ handshake \notin {"auth", "flush"}
      /\ IF chunk = 0 THEN LoopDrained /\ k \in 1..Cardinality(Range(wire) \ sending) ELSE k = chunk
  BY DEF Arrives
<1>3. Usable \/ status = "ending"
  BY <1>1, <1>2 DEF TypeOK, Phases, Usable
<1>4. status = "ending" => handshake = "done"
  BY <1>1, <1>2 DEF TypeOK, Phases, LoopDrained
<1>5. handshake # "answered"
  <2>1. SUFFICES ASSUME handshake = "answered" PROVE FALSE
    OBVIOUS
  <2>2. status = "init" /\ Usable
    BY <1>1, <2>1 DEF Phases, Usable
  <2>3. Head(wire) \in Range(wire)
    BY <1>1, <1>2, QueueElements DEF TypeOK
  <2>4. Head(wire) = Setup /\ Active(Head(wire))
    BY <1>1, <2>2, <2>3, QueueElements DEF OnlySetup, CQInv, Match, Matched, TypeOK
  <2> QED
    BY <1>1, <2>1, <2>4 DEF Phases
<1>6. k \in 1..(MaxCalls + 1)
  <2>1. MaxCalls \in Nat /\ Cmds = 0..(MaxCalls + 1) /\ chunk \in Nat
    BY <1>1, CommandQueueAssumption DEF Cmds, TypeOK
  <2>2. Cardinality(Range(wire) \ sending) \in Nat
    <3>1. IsFiniteSet(Cmds)
      BY <2>1, FS_Interval
    <3>2. Range(wire) \ sending \subseteq Cmds
      BY <1>1, QueueElements DEF TypeOK
    <3> QED
      BY <3>1, <3>2, FS_Subset, FS_CardinalityType
  <2>3. k >= 1
    BY <1>2, <2>1, <2>2
  <2> QED
    BY <2>1, <2>3
<1> QED
  BY <1>1, <1>2, <1>3, <1>4, <1>5, <1>6 DEF TypeOK

\* A packet that is not the last of an answer.
LEMMA ReceiveMoreStep ==
  ASSUME CQInv, NEW k \in Cmds, ReceiveMore(k)
  PROVE  CQInv'
<1>0. PICK c : c = CurrentCmd
  OBVIOUS
<1>1. TypeOK /\ KindsKnown /\ Phases /\ Known /\ Order /\ NeverStuck /\ Streams /\ OnlySetup /\ ErrorSettlesActive
  BY DEF CQInv
<1>2. /\ Arrives(k) /\ c # NoCmd /\ chunk' \in {0, k} /\ direct' \in {NoCmd, c} /\ receiveQueue' = CurrentQueue /\ cached' = c
      /\ UNCHANGED <<pipelining, kind, issued, waiting, expired, doomed, killing, handshake, status, addCommand, socket, closedBy,
                     sendQueue, stage, sending, wire, quitDone, tick>>
  BY <1>0 DEF ReceiveMore, MorePackets, fixed, link, commands
<1>3. /\ wire # <<>> /\ (Usable \/ status = "ending") /\ handshake \in {"setup", "done"}
      /\ status = "ending" => handshake = "done"
  BY <1>2, ArrivesFacts
<1>4. /\ receiveQueue' \in Seq(Cmds) /\ Increasing(receiveQueue') /\ Range(receiveQueue') \subseteq Range(receiveQueue)
      /\ c \in Cmds /\ Active(c)
  BY <1>0, <1>1, <1>2, ReadingAny DEF Increasing
<1>5. /\ stage' \in [Cmds -> Stages] /\ (\A d \in Cmds : stage'[d] = stage[d] \/ (Active(d) /\ stage'[d] = "over"))
      /\ (New(Setup)' <=> New(Setup)) /\ (Active(Setup)' <=> Active(Setup)) /\ (\A d \in Cmds : Active(d)' <=> Active(d))
  BY <1>1, <1>2, SameStages, CmdsNumbers
<1>6. Shrinks
  BY <1>2, <1>4, <1>5 DEF Shrinks, fixed
<1>7. TypeOK'
  <2>1. chunk' \in 0..(MaxCalls + 2)
    BY <1>2, CommandQueueAssumption DEF Cmds
  <2> QED
    BY <1>1, <1>2, <1>4, <2>1 DEF TypeOK
<1>8. Phases'
  BY <1>1, <1>2, <1>3, <1>5 DEF Phases, Usable, Open
<1>9. ErrorSettlesActive'
  BY <1>1, <1>2, <1>5, SettledStill
<1>10. \A d \in doomed' : d \in Cmds /\ ~New(d)
  BY <1>1, <1>2 DEF TypeOK, Known
<1>11. CASE status = "ending"
  <2>1. ~Open'
    BY <1>2, <1>11 DEF Open
  <2> QED
    BY <1>2, <1>6, <1>7, <1>8, <1>9, <1>10, <1>11, <2>1, ShrinkStep
<1>12. CASE Usable
  <2>1. Matched /\ Recalled /\ (pipelining => OneStream) /\ status \notin {"connecting", "ending", "closed"} /\ Open
        /\ (~pipelining => Len(wire) <= 1)
    BY <1>12, UsableFacts
  <2>2. /\ c = Head(wire) /\ CurrentQueue # <<>> /\ Head(CurrentQueue) = Head(wire)
        /\ \A d \in Range(receiveQueue) : Head(wire) <= d => d \in Range(CurrentQueue)
    BY <1>0, <1>1, <1>3, <2>1, Reading
  <2>3. Order'
    BY <1>1, <1>6, OrderShrinks
  <2>4. Known'
    BY <1>1, <1>2, <1>6, <1>10, <2>1, KnownShrinks
  <2>5. KindsKnown' /\ Untouched' /\ NeverStuck' /\ SerialOneAtATime'
    BY <1>1, <1>2, <2>1 DEF KindsKnown, Untouched, NeverStuck, SerialOneAtATime
  <2>6. OnlySetup'
    BY <1>1, <1>2, <1>4 DEF OnlySetup, New
  <2>7. wire \in Seq(Cmds) /\ Increasing(wire) /\ Range(wire) \subseteq Cmds /\ c \in Range(wire) /\ \A d \in Range(wire) : c <= d
    BY <1>1, <1>3, <2>2, QueueElements DEF TypeOK, Order
  <2>8. Match'
    <3>1. \A d \in Range(wire) : d \in Range(receiveQueue')
      BY <1>2, <2>1, <2>2, <2>7 DEF Matched
    <3>2. \A d \in Range(sendQueue) : New(d) /\ kind[d] # "close" => d \in Range(receiveQueue')
      <4>1. SUFFICES ASSUME NEW d \in Range(sendQueue), New(d), kind[d] # "close" PROVE d \in Range(receiveQueue')
        OBVIOUS
      <4>2. d \in Range(receiveQueue) /\ c < d
        BY <1>1, <2>1, <2>7, <4>1 DEF Matched, Order
      <4>3. d \in Int /\ c \in Int
        BY <1>1, <1>4, <4>2, QueueElements, CmdsNumbers DEF TypeOK
      <4>4. c <= d
        BY <4>2, <4>3
      <4> QED
        BY <1>2, <2>2, <4>2, <4>4
    <3>3. \A d \in Range(receiveQueue') : New(d) => d \in Range(sendQueue)
      BY <1>4, <2>1 DEF Matched
    <3> QED
      BY <1>2, <2>1, <3>1, <3>2, <3>3 DEF Match, Matched, New, Active
  <2>9. Remembered'
    <3>1. ~New(c)'
      BY <1>2, <1>4 DEF New, Active
    <3> QED
      BY <1>2, <1>3, <2>2, <3>1 DEF Remembered, Recalled, New, Active, Cached
  <2>10. Streams'
    <3>1. pipelining => OneStream'
      BY <1>1, <1>2, <1>6, <2>1, OneStreamShrinks
    <3> QED
      BY <1>2, <3>1 DEF Streams
  <2> QED
    BY <1>7, <1>8, <1>9, <2>3, <2>4, <2>5, <2>6, <2>8, <2>9, <2>10 DEF CQInv
<1> QED
  BY <1>3, <1>11, <1>12

\* A packet nobody expects, of a connection that is ending: what was still awaited is dropped.
LEMMA UnexpectedStep ==
  ASSUME CQInv, NEW k \in Cmds, NEW low \in BOOLEAN, ReceiveLast(k, low), Reader(low) = NoCmd
  PROVE  CQInv'
<1>1. TypeOK /\ Phases /\ Known /\ Order /\ ErrorSettlesActive
  BY DEF CQInv
<1>2. /\ Arrives(k) /\ UnexpectedPacket /\ wire' = Tail(wire) /\ chunk' \in {0, k - 1} /\ direct' \in {direct, NoCmd}
      /\ UNCHANGED <<pipelining, kind, issued, waiting, expired, doomed, killing>>
  BY DEF ReceiveLast, fixed
<1>3. /\ wire # <<>> /\ (Usable \/ status = "ending") /\ (status = "ending" => handshake = "done")
      /\ k \in 1..(MaxCalls + 1)
  BY <1>2, ArrivesFacts
<1>4. status = "ending"
  <2>1. SUFFICES ASSUME Usable PROVE FALSE
    BY <1>3
  <2>2. Matched /\ Recalled
    BY <2>1, UsableFacts
  <2>3. Reader(low) = Head(wire) /\ Head(wire) \in Cmds
    BY <1>1, <1>3, <2>2, Reading
  <2> QED
    BY <2>3, CmdsNumbers
<1>5. /\ receiveQueue' = <<>> /\ cached' = NoCmd
      /\ UNCHANGED <<handshake, status, addCommand, socket, closedBy, sendQueue, stage, sending, quitDone, tick>>
  BY <1>2, <1>4 DEF UnexpectedPacket
<1>6. /\ stage' \in [Cmds -> Stages] /\ (\A d \in Cmds : stage'[d] = stage[d] \/ (Active(d) /\ stage'[d] = "over"))
      /\ (New(Setup)' <=> New(Setup)) /\ (Active(Setup)' <=> Active(Setup)) /\ (\A d \in Cmds : Active(d)' <=> Active(d))
  BY <1>1, <1>5, SameStages, CmdsNumbers
<1>7. receiveQueue' \in Seq(Cmds) /\ Increasing(receiveQueue') /\ Range(receiveQueue') \subseteq Range(receiveQueue)
  BY <1>5, QueueElements DEF Increasing
<1>8. Shrinks
  BY <1>2, <1>3, <1>5, <1>6, <1>7 DEF Shrinks, fixed
<1>9. TypeOK'
  <2>1. chunk' \in 0..(MaxCalls + 2)
    BY <1>2, <1>3, CommandQueueAssumption
  <2>2. wire' \in Seq(Cmds)
    BY <1>1, <1>2, <1>3 DEF TypeOK
  <2> QED
    BY <1>1, <1>2, <1>5, <1>7, <2>1, <2>2 DEF TypeOK
<1>10. Phases'
  BY <1>1, <1>2, <1>3, <1>4, <1>5, <1>6 DEF Phases, Usable, Open
<1>11. ErrorSettlesActive'
  BY <1>1, <1>2, <1>5, <1>6, SettledStill
<1>12. \A d \in doomed' : d \in Cmds /\ ~New(d)
  BY <1>1, <1>2 DEF TypeOK, Known
<1>13. ~Open'
  BY <1>4, <1>5 DEF Open
<1> QED
  BY <1>2, <1>4, <1>5, <1>8, <1>9, <1>10, <1>11, <1>12, <1>13, ShrinkStep

\* What the last packet of an answer leaves of the receiveQueue.
LEMMA ReceiveRest ==
  ASSUME TypeOK, Order, NEW low \in BOOLEAN, receiveQueue' = IF ToDirect(low) THEN receiveQueue ELSE Shifted(CurrentQueue)
  PROVE  /\ receiveQueue' \in Seq(Cmds) /\ Increasing(receiveQueue') /\ Range(receiveQueue') \subseteq Range(receiveQueue)
         /\ Matched /\ Recalled /\ wire # <<>> => \A d \in Range(receiveQueue) : Head(wire) < d => d \in Range(receiveQueue')
<1>1. receiveQueue \in Seq(Cmds) /\ Increasing(receiveQueue) /\ wire \in Seq(Cmds)
  BY DEF TypeOK, Order
<1>2. PICK r : r = CurrentQueue
  OBVIOUS
<1>3. r \in Seq(Cmds) /\ Increasing(r) /\ Range(r) \subseteq Range(receiveQueue)
  BY <1>2, ReadingAny
<1>4. PICK t : t = Shifted(r)
  OBVIOUS
<1>5. /\ t \in Seq(Cmds) /\ Increasing(t) /\ Range(t) \subseteq Range(r)
      /\ \A d \in Range(r) : d \in Range(t) \/ (r # <<>> /\ d = Head(r))
  <2>1. CASE r = <<>>
    <3>1. t = r
      BY <1>3, <1>4, <2>1, QueueShifted
    <3> QED
      BY <1>3, <2>1, <3>1, QueueElements
  <2>2. CASE r # <<>>
    <3>1. t = Tail(r)
      BY <1>3, <1>4, <2>2, QueueShifted
    <3>2. t \in Seq(Cmds) /\ Range(r) = Range(t) \cup {Head(r)} /\ (Increasing(r) => Increasing(t))
      BY <1>3, <2>2, <3>1, QueueRest, Zenon
    <3> QED
      BY <1>3, <2>2, <3>2
  <2> QED
    BY <2>1, <2>2
<1>6. receiveQueue' = IF ToDirect(low) THEN receiveQueue ELSE t
  BY <1>2, <1>4
<1>7. receiveQueue' \in Seq(Cmds) /\ Increasing(receiveQueue') /\ Range(receiveQueue') \subseteq Range(receiveQueue)
  BY <1>1, <1>3, <1>5, <1>6 DEF Increasing
<1>8. ASSUME Matched, Recalled, wire # <<>>, NEW d \in Range(receiveQueue), Head(wire) < d
      PROVE  d \in Range(receiveQueue')
  <2>1. /\ r # <<>> /\ Head(r) = Head(wire) /\ Head(wire) \in Cmds
        /\ \A e \in Range(receiveQueue) : Head(wire) <= e => e \in Range(r)
    BY <1>2, <1>8, Reading
  <2>2. d \in Int /\ Head(wire) \in Int
    BY <1>1, <1>8, <2>1, QueueElements, CmdsNumbers
  <2>3. Head(wire) <= d /\ d # Head(wire)
    BY <1>8, <2>2
  <2>4. d \in Range(t)
    BY <1>5, <2>1, <2>3
  <2> QED
    BY <1>6, <2>4
<1> QED
  BY <1>7, <1>8

\* The last packet of an answer.
LEMMA LastPacketStep ==
  ASSUME CQInv, NEW k \in Cmds, NEW low \in BOOLEAN, ReceiveLast(k, low), NEW c \in Cmds, c = Reader(low)
  PROVE  CQInv'
<1>0. PICK now : now = [stage |-> [stage EXCEPT ![c] = "over"], sending |-> sending, wire |-> Tail(wire)]
  OBVIOUS
<1>1. TypeOK /\ KindsKnown /\ Phases /\ Known /\ Order /\ NeverStuck /\ Streams /\ OnlySetup
  BY DEF CQInv
<1>2. Arrives(k) /\ c # NoCmd /\ LastPacket(c, low)
  BY CmdsNumbers DEF ReceiveLast
<1>3. /\ handshake' = IF c = Setup THEN "answered" ELSE handshake
      /\ IF pipelining THEN Start(<<>>, now) /\ UNCHANGED sendQueue ELSE NextSendCmd(sendQueue, now)
      /\ receiveQueue' = IF ToDirect(low) THEN receiveQueue ELSE Shifted(CurrentQueue)
      /\ cached' = IF ToDirect(low) THEN cached ELSE NoCmd
      /\ direct' = IF ToDirect(low) /\ chunk' # 0 THEN direct ELSE NoCmd
      /\ chunk' \in {0, k - 1}
      /\ UNCHANGED <<pipelining, kind, issued, waiting, expired, doomed, killing, status, addCommand, socket, closedBy, tick>>
  BY <1>0, <1>2 DEF ReceiveLast, LastPacket, fixed
<1>4. /\ wire # <<>> /\ socket = "open" /\ (Usable \/ status = "ending") /\ handshake \in {"setup", "done"}
      /\ (status = "ending" => handshake = "done") /\ k \in 1..(MaxCalls + 1)
  BY <1>2, ArrivesFacts
<1>5. Active(c)
  BY <1>1, <1>2, ReadingAny
<1>6. /\ now.sending = sending /\ now.wire = Tail(wire) /\ now.stage \in [Cmds -> Stages] /\ now.stage[c] = "over"
      /\ \A d \in Cmds : d # c => now.stage[d] = stage[d]
  BY <1>0, <1>1 DEF TypeOK, Stages
<1>7. NowReady(now)
  BY <1>4, <1>5, <1>6 DEF NowReady
<1>8. sendQueue \in Seq(Cmds) /\ Increasing(sendQueue) /\ wire \in Seq(Cmds) /\ Increasing(wire) /\ sending \subseteq Cmds
  BY <1>1 DEF TypeOK, Order
<1>9. PICK S : /\ Sent(S, sendQueue, now)
               /\ pipelining => S = {}
               /\ ~pipelining => SentAll(S, sendQueue)
  <2>1. CASE pipelining
    BY <1>1, <1>3, <1>8, <2>1, StartNothing
  <2>2. CASE ~pipelining
    BY <1>1, <1>3, <1>8, <2>2, NextSends DEF TypeOK
  <2> QED
    BY <2>1, <2>2
<1>10. /\ receiveQueue' \in Seq(Cmds) /\ Increasing(receiveQueue') /\ Range(receiveQueue') \subseteq Range(receiveQueue)
       /\ Matched /\ Recalled /\ wire # <<>> => \A d \in Range(receiveQueue) : Head(wire) < d => d \in Range(receiveQueue')
  BY <1>1, <1>3, ReceiveRest
<1>11. Rests(sendQueue, now, S)
  <2>1. \A d \in Range(sendQueue) : New(d) \/ (d \in now.sending /\ d = Head(sendQueue))
    BY <1>1, <1>6 DEF Order
  <2>2. S # {} => sendQueue # <<>> /\ Head(sendQueue) \notin sending
    BY <1>9 DEF SentAll
  <2> QED
    BY <1>3, <1>7, <1>8, <1>9, <1>10, <2>1, <2>2 DEF Rests
<1>12. /\ QueueReady(sendQueue, now, S) /\ Order' /\ Known'
       /\ stage' \in [Cmds -> Stages] /\ sending' \subseteq Cmds /\ wire' \in Seq(Cmds) /\ sendQueue' \in Seq(Cmds)
       /\ Setup \notin S /\ (Open \/ killing => Quit \notin S) /\ (sendQueue = <<>> => S = {} /\ sendQueue' = <<>>)
       /\ (New(Setup)' <=> New(Setup)) /\ (Active(Setup)' => Active(Setup) /\ now.stage[Setup] = "active")
       /\ quitDone' = (quitDone \/ Quit \in S)
  BY <1>1, <1>11, SendRest
<1>13. S = {} => stage' = now.stage /\ sending' = sending /\ wire' = Tail(wire) /\ sendQueue' = sendQueue
  BY <1>1, <1>6, <1>7, <1>9, RestSame
<1>14. c = Setup => handshake = "setup" /\ status = "init"
  <2>1. SUFFICES ASSUME c = Setup PROVE handshake = "setup" /\ status = "init"
    OBVIOUS
  <2>2. handshake = "setup"
    BY <1>1, <1>5, <2>1 DEF Phases
  <2>3. Usable
    BY <1>4, <2>2
  <2> QED
    BY <1>1, <2>2, <2>3 DEF Phases, Usable
<1>15. TypeOK'
  <2>1. quitDone' \in BOOLEAN
    BY <1>12
  <2>2. waiting' \in Seq(Cmds) /\ handshake' \in {"auth", "setup", "answered", "flush", "done"} /\ handshake' # "flush"
    BY <1>1, <1>3, <1>4 DEF TypeOK
  <2>3. chunk' \in 0..(MaxCalls + 2)
    BY <1>3, <1>4, CommandQueueAssumption
  <2>4. cached' \in Cmds \cup {NoCmd} /\ direct' \in Cmds \cup {NoCmd}
    BY <1>1, <1>3 DEF TypeOK
  <2>5. tick' \in BOOLEAN /\ killing' \in BOOLEAN /\ issued' \in 0..MaxCalls /\ expired' \subseteq Cmds /\ doomed' \subseteq Cmds
    BY <1>1, <1>3 DEF TypeOK
  <2>6. /\ status' \in {"connecting", "init", "connected", "ending", "closed"}
        /\ addCommand' \in {"queue", "enabled", "disabled"} /\ socket' \in {"open", "lost", "none"}
        /\ closedBy' \in {"nobody", "end", "destroy", "error", "ping"}
    BY <1>1, <1>3 DEF TypeOK
  <2> QED
    BY <1>1, <1>3, <1>10, <1>12, <2>1, <2>2, <2>3, <2>4, <2>5, <2>6, TypeSent
<1>16. Phases'
  <2>1. (Usable' <=> Usable) /\ (Open' <=> Open) /\ (Usable => Open)
    BY <1>3 DEF Usable, Open
  <2>2. Active(Setup)' => handshake' = "setup"
    <3>1. SUFFICES ASSUME Active(Setup)' PROVE handshake' = "setup"
      OBVIOUS
    <3>2. Active(Setup) /\ c # Setup
      BY <1>6, <1>12, <3>1
    <3> QED
      BY <1>1, <1>3, <3>2 DEF Phases
  <2>3. Open => ~quitDone'
    BY <1>1, <1>12 DEF Phases
  <2>4. status' # "closed" /\ status' # "connecting"
    BY <1>3, <1>4 DEF Usable
  <2>5. handshake' \in {"setup", "answered", "done"} /\ (handshake' = "setup" => handshake = "setup")
        /\ (handshake' = "answered" => status = "init") /\ (handshake' # "answered" => handshake' = handshake)
    BY <1>3, <1>4, <1>14
  <2>6. status = "connected" => handshake' = "done" /\ waiting' = <<>>
    BY <1>1, <1>3, <1>4, <1>14 DEF Phases
  <2>7. status = "init" => handshake' \in {"setup", "answered"}
    BY <1>1, <1>3 DEF Phases
  <2> QED
    BY <1>1, <1>3, <1>4, <2>1, <2>2, <2>3, <2>4, <2>5, <2>6, <2>7 DEF Phases
<1>17. ErrorSettlesActive'
  BY <1>1, <1>3, <1>4 DEF ErrorSettlesActive, Phases, Usable
<1>18. KindsKnown' /\ Untouched'
  BY <1>1, <1>3, <1>4 DEF KindsKnown, Untouched, Usable
<1>19. OnlySetup'
  <2>1. SUFFICES ASSUME status = "init"
                 PROVE  /\ sendQueue' = <<>> /\ sending' = {} /\ (\A d \in Calls : New(d)')
                        /\ Range(receiveQueue') \subseteq {Setup} /\ handshake' # "setup"
    BY <1>3 DEF OnlySetup
  <2>2. Usable
    BY <2>1 DEF Usable
  <2>3. Matched
    BY <2>2, UsableFacts
  <2>4. sendQueue = <<>> /\ sending = {} /\ (\A d \in Calls : New(d)) /\ Range(receiveQueue) \subseteq {Setup}
    BY <1>1, <2>1 DEF OnlySetup
  <2>5. c = Setup
    BY <1>5, <2>3, <2>4 DEF Matched
  <2>6. sendQueue' = <<>> /\ sending' = {} /\ stage' = now.stage
    BY <1>12, <1>13, <2>4
  <2>7. \A d \in Calls : New(d)'
    BY <1>6, <2>4, <2>5, <2>6, CmdsNumbers DEF New
  <2> QED
    BY <1>3, <1>10, <2>4, <2>5, <2>6, <2>7
<1>20. NeverStuck'
  BY <1>1, <1>3, <1>9, <1>13 DEF NeverStuck
<1>21. Streams'
  <2>1. SUFFICES ASSUME pipelining, closedBy # "destroy", status # "closed" PROVE OneStream'
    BY <1>3 DEF Streams
  <2>2. OneStream
    BY <1>1, <2>1 DEF Streams
  <2>3. stage' = now.stage /\ sending' = sending /\ wire' = Tail(wire) /\ sendQueue' = sendQueue
    BY <1>9, <1>13, <2>1
  <2>4. Shrinks
    <3>1. \A d \in Cmds : stage'[d] = stage[d] \/ (Active(d) /\ stage'[d] = "over")
      BY <1>5, <1>6, <2>3
    <3> QED
      BY <1>3, <1>4, <1>6, <1>10, <2>3, <3>1 DEF Shrinks, fixed
  <2> QED
    BY <1>1, <1>3, <2>2, <2>3, <2>4, OneStreamShrinks
<1>22. SerialOneAtATime'
  <2>1. SUFFICES ASSUME ~pipelining, Usable PROVE Len(wire') <= 1
    BY <1>3 DEF SerialOneAtATime, Usable
  <2>2. Len(wire) <= 1
    BY <2>1, UsableFacts
  <2>3. Tail(wire) = <<>>
    BY <1>4, <1>8, <2>2
  <2> QED
    BY <1>6, <1>9, <2>1, <2>3, OneSent
<1>23. ASSUME Usable
       PROVE  /\ c = Head(wire) /\ CurrentCmd = c /\ Matched /\ Recalled
              /\ \A d \in Range(wire) : d \in Range(Tail(wire)) <=> d # c
              /\ Range(Tail(wire)) \subseteq Range(wire) /\ \A d \in Range(Tail(wire)) : c < d
  <2>1. Matched /\ Recalled
    BY <1>23, UsableFacts
  <2>2. c = Head(wire) /\ CurrentCmd = c
    BY <1>1, <1>4, <2>1, Reading
  <2>3. PICK t : t = Tail(wire)
    OBVIOUS
  <2>4. Range(wire) = Range(t) \cup {c} /\ \A d \in Range(t) : c < d
    <3>1. /\ t \in Seq(Cmds) /\ Range(wire) = Range(t) \cup {Head(wire)}
          /\ t # <<>> => t[Len(t)] = wire[Len(wire)]
          /\ Increasing(wire) => Increasing(t) /\ \A d \in Range(t) : Head(wire) < d
      BY <1>4, <1>8, <2>3, QueueRest, Zenon
    <3> QED
      BY <1>8, <2>2, <3>1
  <2>5. ~(c < c)
    BY CmdsNumbers
  <2> QED
    BY <2>1, <2>2, <2>3, <2>4, <2>5
<1>24. Match'
  <2>1. SUFFICES ASSUME Usable PROVE Matched'
    BY <1>3 DEF Match, Usable
  <2>2. Awaited(sendQueue, now)
    <3>1. \A d \in Cmds : now.stage[d] = "active" <=> d \in Range(now.wire)
      <4>1. SUFFICES ASSUME NEW d \in Cmds PROVE now.stage[d] = "active" <=> d \in Range(Tail(wire))
        BY <1>6
      <4>2. CASE d = c
        BY <1>5, <1>6, <1>23, <2>1, <4>2 DEF Matched
      <4>3. CASE d # c
        BY <1>6, <1>23, <2>1, <4>3 DEF Matched, Active
      <4> QED
        BY <4>2, <4>3
    <3>2. \A d \in Range(receiveQueue) : c < d => d \in Range(receiveQueue')
      BY <1>4, <1>10, <1>23, <2>1
    <3>3. Range(now.wire) \subseteq Range(receiveQueue')
      BY <1>6, <1>23, <2>1, <3>2 DEF Matched
    <3>4. Range(receiveQueue') \subseteq Cmds
      BY <1>10, QueueElements
    <3>5. \A d \in Range(receiveQueue') : New(d) => d \in Range(sendQueue)
      BY <1>10, <1>23, <2>1 DEF Matched
    <3>6. \A d \in Range(sendQueue) : New(d) /\ kind[d] # "close" => d \in Range(receiveQueue')
      <4>1. c \in Range(wire)
        BY <1>5, <1>23, <2>1 DEF Matched
      <4> QED
        BY <1>1, <1>23, <2>1, <3>2, <4>1 DEF Matched, Order
    <3> QED
      BY <1>3, <3>1, <3>3, <3>4, <3>5, <3>6 DEF Awaited
  <2> QED
    BY <1>1, <1>7, <1>9, <1>12, <2>2, MatchedSent
<1>25. Remembered'
  <2>1. SUFFICES ASSUME Usable PROVE Recalled'
    BY <1>3 DEF Remembered, Usable
  <2>2. /\ \A d \in S : New(d)
        /\ \A d \in Cmds : New(d)' <=> New(d) /\ d \notin S
        /\ \A d \in Cmds : Active(d)' <=> (d \in S /\ Answered(d)) \/ (d \notin S /\ now.stage[d] = "active")
    BY <1>1, <1>7, <1>9, <1>12, SentEffect
  <2>3. \A d \in Cmds : ~New(d) => ~New(d)' /\ (Active(d)' => Active(d) /\ d # c)
    BY <1>6, <2>2 DEF Active
  <2>4. Recalled /\ CurrentCmd = c
    BY <1>23, <2>1
  <2>5. cached' # NoCmd => cached' = cached /\ cached \in Cmds /\ ~New(cached) /\ ~Active(cached)'
    <3>1. SUFFICES ASSUME cached' # NoCmd, cached' = cached PROVE cached \in Cmds /\ ~New(cached) /\ ~Active(cached)'
      BY <1>3
    <3>2. cached \in Cmds /\ ~New(cached)
      BY <1>1, <2>4, <3>1 DEF TypeOK, Recalled
    <3>3. Active(cached) => c = cached
      BY <2>4, <3>1 DEF CurrentCmd, Cached
    <3>4. Active(cached)' => FALSE
      <4>1. PICK x \in Cmds : x = cached
        BY <3>2
      <4>2. Active(x)' => Active(x) /\ x # c
        BY <2>3, <3>2, <4>1
      <4>3. Active(cached)' => Active(x)'
        BY <3>1, <4>1 DEF Active
      <4> QED
        BY <3>3, <4>1, <4>2, <4>3
    <3> QED
      BY <3>2, <3>4
  <2>6. direct' # NoCmd => direct' = c
    BY <1>3 DEF Reader
  <2>7. ~New(c)' /\ ~Active(c)'
    BY <1>5, <2>3 DEF New, Active
  <2>8. cached' # NoCmd => ~New(cached)'
    BY <2>3, <2>5 DEF New
  <2>9. direct' # NoCmd => ~New(direct)' /\ ~Active(direct)'
    BY <2>6, <2>7 DEF New, Active
  <2>10. ~Cached'
    BY <2>5 DEF Cached
  <2> QED
    BY <2>8, <2>9, <2>10 DEF Recalled
<1> QED
  BY <1>12, <1>15, <1>16, <1>17, <1>18, <1>19, <1>20, <1>21, <1>22, <1>24, <1>25 DEF CQInv

\* The last packet of an answer, whoever reads it.
LEMMA ReceiveLastStep ==
  ASSUME CQInv, NEW k \in Cmds, NEW low \in BOOLEAN, ReceiveLast(k, low)
  PROVE  CQInv'
<1>1. Reader(low) \in Cmds \cup {NoCmd}
  BY ReadingAny DEF CQInv
<1> QED
  BY <1>1, UnexpectedStep, LastPacketStep

-----------------------------------------------------------------------------
(***************************************************************************)
(* The theorems.                                                           *)
(***************************************************************************)
\* The invariant holds at the start.
LEMMA CQInit == Init => CQInv
<1> SUFFICES ASSUME Init PROVE CQInv
  OBVIOUS
<1>1. /\ pipelining \in Settings /\ kind \in [Cmds -> Kinds \cup {"query", "quit"}]
      /\ kind[Setup] = "query" /\ kind[Quit] = "quit" /\ (\A c \in Calls : kind[c] \in Kinds)
      /\ issued = 0 /\ handshake = "auth" /\ status = "connecting" /\ addCommand = "queue"
      /\ socket = "open" /\ closedBy = "nobody" /\ waiting = <<>> /\ sendQueue = <<>> /\ receiveQueue = <<>>
      /\ stage = [c \in Cmds |-> "new"] /\ sending = {} /\ expired = {} /\ doomed = {}
      /\ cached = NoCmd /\ direct = NoCmd /\ chunk = 0
      /\ wire = <<>> /\ tick = FALSE /\ quitDone = FALSE /\ killing = FALSE
  BY DEF Init
<1>2. MaxCalls \in Nat /\ Settings \subseteq BOOLEAN /\ 0 \in 0..MaxCalls /\ 0 \in 0..(MaxCalls + 2)
  BY CommandQueueAssumption
<1>3. Range(<<>>) = {} /\ <<>> \in Seq(Cmds) /\ Increasing(<<>>)
  BY QueueElements
<1>4. (\A c \in Cmds : New(c) /\ ~Active(c)) /\ Setup \in Cmds /\ Quit \in Cmds /\ Calls \subseteq Cmds
  BY <1>1, CmdsNumbers DEF New, Active
<1>5. TypeOK
  BY <1>1, <1>2, <1>3 DEF TypeOK
<1>6. KindsKnown /\ Untouched /\ OnlySetup /\ Match /\ Remembered /\ SerialOneAtATime /\ NeverStuck /\ ErrorSettlesActive
  BY <1>1, <1>4 DEF KindsKnown, Untouched, OnlySetup, Match, Remembered, SerialOneAtATime, NeverStuck, ErrorSettlesActive, Usable
<1>7. Phases
  BY <1>1, <1>4 DEF Phases, Usable, Open
<1>8. Known
  BY <1>1, <1>3, <1>4 DEF Known
<1>9. Order
  BY <1>1, <1>3, <1>4 DEF Order
<1>10. Streams
  BY <1>1 DEF Streams, OneStream
<1> QED
  BY <1>5, <1>6, <1>7, <1>8, <1>9, <1>10 DEF CQInv

\* A step that changes nothing.
LEMMA CQStutters ==
  ASSUME CQInv, UNCHANGED vars
  PROVE  CQInv'
<1>1. UNCHANGED <<pipelining, kind, issued, handshake, status, addCommand, socket, closedBy, waiting, sendQueue, receiveQueue,
                  stage, sending, wire, quitDone, expired, doomed, cached, direct, chunk, tick, killing>>
  BY DEF vars, fixed, link, queues, commands, reader
<1>2. TypeOK'
  BY <1>1 DEF CQInv, TypeOK
<1>3. KindsKnown' /\ Untouched' /\ OnlySetup'
  BY <1>1 DEF CQInv, KindsKnown, Untouched, OnlySetup, New
<1>4. Phases'
  BY <1>1 DEF CQInv, Phases, Usable, Open, New, Active
<1>5. Known'
  BY <1>1 DEF CQInv, Known, Open, New
<1>6. Order'
  BY <1>1 DEF CQInv, Order, New, Active, Answered, Increasing
<1>7. Match'
  BY <1>1 DEF CQInv, Match, Matched, New, Active, Usable
<1>8. Remembered'
  BY <1>1 DEF CQInv, Remembered, Recalled, New, Active, Usable, Cached
<1>9. Streams' /\ NeverStuck' /\ SerialOneAtATime' /\ ErrorSettlesActive'
  BY <1>1 DEF CQInv, Streams, OneStream, NeverStuck, SerialOneAtATime, ErrorSettlesActive, New, Active, Usable
<1> QED
  BY <1>2, <1>3, <1>4, <1>5, <1>6, <1>7, <1>8, <1>9 DEF CQInv

\* Every step preserves it.
LEMMA CQStep ==
  ASSUME EarlyCalls \subseteq {"connecting"}
  PROVE  CQInv /\ [Next]_vars => CQInv'
<1> SUFFICES ASSUME CQInv, [Next]_vars PROVE CQInv'
  OBVIOUS
<1>1. CASE Call
  BY <1>1, CallStep
<1>2. CASE AuthSucceeds
  BY <1>2, AuthSucceedsStep
<1>3. CASE InitDone
  BY <1>3, InitDoneStep
<1>4. CASE FlushWaiting
  BY <1>4, FlushWaitingStep
<1>5. CASE InitRefused
  BY <1>5, InitRefusedStep
<1>6. CASE InitFails
  BY <1>6, InitFailsStep
<1>7. CASE End
  BY <1>7, EndStep
<1>8. CASE NextSendTick
  BY <1>8, NextSendTickStep
<1>9. CASE QuitEnded
  BY <1>9, QuitEndedStep
<1>10. CASE Destroy
  BY <1>10, DestroyStep
<1>11. CASE KillDone
  BY <1>11, KillDoneStep
<1>12. CASE KillFails
  BY <1>12, KillFailsStep
<1>13. CASE LinkFails
  BY <1>13, LinkFailsStep
<1>14. CASE LinkFailsUnheard
  BY <1>14, LinkFailsUnheardStep
<1>15. CASE SocketTimeout
  BY <1>15, SocketTimeoutStep
<1>16. CASE ServerNotice
  BY <1>16, ServerNoticeStep
<1>17. ASSUME NEW c \in Cmds, PingTimeout(c) PROVE CQInv'
  BY <1>17, PingTimeoutStep
<1>18. ASSUME NEW c \in Cmds, RejectDoomed(c) PROVE CQInv'
  BY <1>18, RejectDoomedStep
<1>19. ASSUME NEW c \in Cmds, StreamEnds(c) PROVE CQInv'
  BY <1>19, StreamEndsStep
<1>20. ASSUME NEW k \in Cmds, ReceiveMore(k) PROVE CQInv'
  BY <1>20, ReceiveMoreStep
<1>21. ASSUME NEW k \in Cmds, NEW low \in BOOLEAN, ReceiveLast(k, low) PROVE CQInv'
  BY <1>21, ReceiveLastStep
<1>22. CASE UNCHANGED vars
  BY <1>22, CQStutters
<1> QED
  BY <1>1, <1>2, <1>3, <1>4, <1>5, <1>6, <1>7, <1>8, <1>9, <1>10, <1>11, <1>12, <1>13, <1>14, <1>15, <1>16, <1>17, <1>18,
     <1>19, <1>20, <1>21, <1>22 DEF Next

\* The inductive invariant of the queues, for a client whose calls before the connection is usable are
\* those of the run: it issues commands while connecting, and neither ends nor destroys it meanwhile.
THEOREM QueuesInvariant ==
  ASSUME EarlyCalls \subseteq {"connecting"}
  PROVE  Spec => []CQInv
<1>1. Init => CQInv
  BY CQInit
<1>2. CQInv /\ [Next]_vars => CQInv'
  BY CQStep
<1> QED
  BY <1>1, <1>2, PTL DEF Spec

\* The variables keep their types: the queues hold numbers of commands, at most what was issued.
THEOREM QueuesTypes ==
  ASSUME EarlyCalls \subseteq {"connecting"}
  PROVE  Spec => []TypeOK
<1>1. CQInv => TypeOK
  BY DEF CQInv
<1>2. Spec => []CQInv
  BY QueuesInvariant
<1> QED
  BY <1>1, <1>2, PTL

\* The commands the server owes an answer are those of the receiveQueue that expect packets, and
\* the next packet goes to the first of them, whichever way onData and receivePacket find it.
THEOREM AnswersReachTheirCommands ==
  ASSUME EarlyCalls \subseteq {"connecting"}
  PROVE  Spec => []AnswersMatch
<1>1. CQInv => AnswersMatch
  <2> SUFFICES ASSUME CQInv, Usable
               PROVE  /\ wire = Filter(receiveQueue, {c \in Cmds : Active(c)})
                      /\ wire # <<>> => \A low \in BOOLEAN : Reader(low) = Head(wire)
    BY DEF AnswersMatch
  <2>1. TypeOK /\ Order /\ Matched /\ Recalled
    BY UsableFacts DEF CQInv
  <2>2. receiveQueue \in Seq(Cmds) /\ Increasing(receiveQueue) /\ wire \in Seq(Cmds) /\ Increasing(wire) /\ Range(wire) \subseteq Cmds
    BY <2>1, QueueElements DEF TypeOK, Order
  <2>3. PICK w : w = Filter(receiveQueue, {c \in Cmds : Active(c)})
    OBVIOUS
  <2>4. w \in Seq(Cmds) /\ Increasing(w) /\ Range(w) = Range(receiveQueue) \cap {c \in Cmds : Active(c)}
    BY <2>2, <2>3, FilterOf
  <2>5. Range(w) = Range(wire)
    BY <2>1, <2>2, <2>4 DEF Matched
  <2>6. wire = w
    <3>1. \A s, t \in Seq(Cmds) : Increasing(s) /\ Increasing(t) /\ Range(s) = Range(t) => s = t
      BY SameElements, CmdsNumbers, Zenon
    <3> QED
      BY <2>2, <2>4, <2>5, <3>1
  <2>7. wire # <<>> => \A low \in BOOLEAN : Reader(low) = Head(wire)
    BY <2>1, Reading
  <2> QED
    BY <2>3, <2>6, <2>7
<1>2. Spec => []CQInv
  BY QueuesInvariant
<1> QED
  BY <1>1, <1>2, PTL

\* Commands are written in the order of the client's calls, and without pipelining each waits for
\* the answer to the one before.
THEOREM SentInOrder ==
  ASSUME EarlyCalls \subseteq {"connecting"}
  PROVE  Spec => []SendOrder
<1>1. CQInv => SendOrder
  <2> SUFFICES ASSUME CQInv PROVE StartOrder
    BY DEF CQInv, SendOrder
  <2>1. Order
    BY DEF CQInv
  <2>2. \A i, j \in DOMAIN wire : i < j => wire[i] < wire[j]
    BY <2>1 DEF Order, Increasing
  <2>3. ASSUME NEW c \in Calls, NEW d \in Calls, c < d, stage[d] = "active", stage[c] = "new",
               c \in Range(sendQueue) \cup Range(waiting)
        PROVE  FALSE
    <3>1. d < c
      BY <2>1, <2>3, CmdsNumbers DEF Order, Active, New
    <3>2. c \in Int /\ d \in Int
      BY CmdsNumbers
    <3> QED
      BY <2>3, <3>1, <3>2
  <2> QED
    BY <2>2, <2>3 DEF StartOrder
<1>2. Spec => []CQInv
  BY QueuesInvariant
<1> QED
  BY <1>1, <1>2, PTL

\* With pipelining nothing is left in the sendQueue without something that will send it: a stream
\* that is being written, whose end sends the next, or a tick to come.
THEOREM NothingLeftQueued ==
  ASSUME EarlyCalls \subseteq {"connecting"}
  PROVE  Spec => []PipelineNeverStuck
<1>1. CQInv => PipelineNeverStuck
  BY DEF CQInv, NeverStuck, PipelineNeverStuck
<1>2. Spec => []CQInv
  BY QueuesInvariant
<1> QED
  BY <1>1, <1>2, PTL

\* With pipelining nothing is written in the middle of a stream parameter, not even the QUIT.
THEOREM StreamsWhole ==
  ASSUME EarlyCalls \subseteq {"connecting"}
  PROVE  Spec => []StreamNotInterrupted
<1>1. CQInv => StreamNotInterrupted
  BY DEF CQInv, Streams, OneStream, StreamNotInterrupted, New
<1>2. Spec => []CQInv
  BY QueuesInvariant
<1> QED
  BY <1>1, <1>2, PTL

\* When the link fails, every command the server was sent is rejected or about to be.
THEOREM FailureSettlesAll ==
  ASSUME EarlyCalls \subseteq {"connecting"}
  PROVE  Spec => []ErrorSettlesActive
<1>1. CQInv => ErrorSettlesActive
  BY DEF CQInv
<1>2. Spec => []CQInv
  BY QueuesInvariant
<1> QED
  BY <1>1, <1>2, PTL

=============================================================================

--------------------------- MODULE SequenceLemmas ---------------------------
(***************************************************************************)
(* Facts about the operators of SequenceFilter that the proofs about the   *)
(* components cite.  They are proved by induction.  The induction theorems *)
(* of the library take a predicate, which has to be instantiated; here the *)
(* induction is over a set, that of the numbers or sequences a fact holds  *)
(* of, and follows from the fact that < is well-founded on Nat.            *)
(***************************************************************************)
EXTENDS SequenceFilter, WellFoundedInduction, TLAPS, SequencesExt

\* A set of naturals that is not empty has a least element.
LEMMA NatMin ==
  ASSUME NEW T, T \subseteq Nat, T # {}
  PROVE  \E x \in T : \A y \in T : x <= y
<1>1. PICK x \in T : \A y \in T : ~ (<<y, x>> \in OpToRel(<, Nat))
  BY NatLessThanWellFounded, WFMin
<1>2. ASSUME NEW y \in T, y < x PROVE <<y, x>> \in OpToRel(<, Nat)
  BY <1>2 DEF OpToRel
<1>3. \A y \in T : ~ (y < x)
  BY <1>1, <1>2, Zenon
<1>4. \A y \in T : x <= y
  BY <1>3
<1> QED
  BY <1>4

\* Induction over the naturals.
LEMMA NatInductionSet ==
  ASSUME NEW T, 0 \in T, \A n \in Nat : n \in T => n + 1 \in T
  PROVE  \A n \in Nat : n \in T
<1>1. SUFFICES ASSUME Nat \ T # {} PROVE FALSE
  OBVIOUS
<1>2. PICK m \in Nat \ T : \A y \in Nat \ T : m <= y
  BY <1>1, NatMin
<1>3. m - 1 \in Nat /\ m - 1 \in T
  BY <1>2
<1> QED
  BY <1>2, <1>3

\* Induction over sequences: they are the empty one, and those longer by one element.
LEMMA SeqInductionSet ==
  ASSUME NEW S, NEW P, <<>> \in P, \A s \in Seq(S), e \in S : s \in P => Append(s, e) \in P
  PROVE  \A s \in Seq(S) : s \in P
<1> DEFINE T == {n \in Nat : \A s \in Seq(S) : Len(s) = n => s \in P}
<1>1. 0 \in T
  OBVIOUS
<1>2. ASSUME NEW n \in Nat, n \in T PROVE n + 1 \in T
  <2>1. SUFFICES ASSUME NEW s \in Seq(S), Len(s) = n + 1 PROVE s \in P
    OBVIOUS
  <2> DEFINE r == SubSeq(s, 1, n)
  <2>2. r \in Seq(S) /\ Len(r) = n /\ s[n + 1] \in S
    BY <2>1
  <2>3. s = Append(r, s[n + 1])
    BY <2>1
  <2>4. r \in P
    BY <1>2, <2>2
  <2> HIDE DEF r
  <2> QED
    BY <2>2, <2>3, <2>4
<1> HIDE DEF T
<1>3. \A n \in Nat : n \in T
  BY <1>1, <1>2, NatInductionSet
<1> QED
  BY <1>3 DEF T

\* A sequence of elements of S is one of elements of a larger set.
LEMMA SeqMonotone == \A S, T : S \subseteq T => \A s \in Seq(S) : s \in Seq(T)
OBVIOUS

-----------------------------------------------------------------------------
\* The recursion that KeptOfFirst is defined by has a solution, so that KeptOfFirst is one.
LEMMA KeptOfFirstDef ==
  ASSUME NEW S, NEW s \in Seq(S), NEW T
  PROVE  KeptOfFirst(s, T) = [n \in 0..Len(s) |->
           IF n = 0 THEN <<>>
           ELSE IF s[n] \in T THEN Append(KeptOfFirst(s, T)[n - 1], s[n]) ELSE KeptOfFirst(s, T)[n - 1]]
<1> DEFINE Solves(k, f) ==
             f = [n \in 0..k |-> IF n = 0 THEN <<>> ELSE IF s[n] \in T THEN Append(f[n - 1], s[n]) ELSE f[n - 1]]
           Solved == {k \in Nat : \E f : Solves(k, f)}
<1>1. 0 \in Solved
  <2>1. Solves(0, [n \in 0..0 |-> <<>>])
    OBVIOUS
  <2> QED
    BY <2>1
<1>2. ASSUME NEW k \in Nat, k \in Solved PROVE k + 1 \in Solved
  <2>1. PICK f : Solves(k, f)
    BY <1>2
  <2> DEFINE last == IF s[k + 1] \in T THEN Append(f[k], s[k + 1]) ELSE f[k]
             g == [n \in 0..k + 1 |-> IF n <= k THEN f[n] ELSE last]
  <2>2. Solves(k + 1, g)
    <3> SUFFICES ASSUME NEW n \in 0..k + 1
                 PROVE  g[n] = IF n = 0 THEN <<>> ELSE IF s[n] \in T THEN Append(g[n - 1], s[n]) ELSE g[n - 1]
      OBVIOUS
    <3>1. CASE n = 0
      BY <2>1, <3>1
    <3>2. CASE n # 0 /\ n <= k
      <4>1. n \in 0..k /\ n - 1 \in 0..k + 1 /\ n - 1 <= k /\ n <= k
        BY <3>2
      <4>2. g[n] = f[n] /\ g[n - 1] = f[n - 1]
        BY <4>1
      <4> QED
        BY <2>1, <3>2, <4>1, <4>2
    <3>3. CASE n = k + 1
      <4>1. g[n] = last /\ g[n - 1] = f[k]
        BY <3>3
      <4> QED
        BY <3>3, <4>1
    <3> QED
      BY <3>1, <3>2, <3>3
  <2> HIDE DEF g
  <2>3. \E h : Solves(k + 1, h)
    BY <2>2
  <2> QED
    BY <2>3
<1> HIDE DEF Solved
<1>3. \A k \in Nat : k \in Solved
  BY <1>1, <1>2, NatInductionSet
<1>4. \E f : Solves(Len(s), f)
  BY <1>3 DEF Solved
<1> QED
  BY <1>4 DEF KeptOfFirst

\* One step of that recursion.
LEMMA KeptOfFirstStep ==
  ASSUME NEW S, NEW s \in Seq(S), NEW T
  PROVE  /\ KeptOfFirst(s, T)[0] = <<>>
         /\ \A n \in 1..Len(s) :
              KeptOfFirst(s, T)[n] = IF s[n] \in T THEN Append(KeptOfFirst(s, T)[n - 1], s[n]) ELSE KeptOfFirst(s, T)[n - 1]
<1> DEFINE P == KeptOfFirst(s, T)
<1>1. P = [n \in 0..Len(s) |-> IF n = 0 THEN <<>> ELSE IF s[n] \in T THEN Append(P[n - 1], s[n]) ELSE P[n - 1]]
  BY KeptOfFirstDef
<1>2. Len(s) \in Nat
  OBVIOUS
<1> HIDE DEF P
<1>3. P[0] = <<>>
  BY <1>1, <1>2
<1>4. ASSUME NEW n \in 1..Len(s)
      PROVE  P[n] = IF s[n] \in T THEN Append(P[n - 1], s[n]) ELSE P[n - 1]
  <2>1. n \in 0..Len(s) /\ n # 0
    BY <1>2, <1>4
  <2> QED
    BY <1>1, <2>1
<1> QED
  BY <1>3, <1>4 DEF P

\* What is kept of the first n elements depends on them, and on which are to be kept.
LEMMA KeptOfFirstAgree ==
  ASSUME NEW S, NEW s \in Seq(S), NEW T, NEW R, NEW t \in Seq(R), NEW U, NEW n \in Nat,
         n <= Len(s), n <= Len(t),
         \A i \in 1..n : s[i] = t[i] /\ (s[i] \in T <=> t[i] \in U)
  PROVE  KeptOfFirst(s, T)[n] = KeptOfFirst(t, U)[n]
<1> DEFINE Same == {k \in Nat : k <= n => KeptOfFirst(s, T)[k] = KeptOfFirst(t, U)[k]}
<1>1. 0 \in Same
  BY KeptOfFirstStep
<1>2. ASSUME NEW k \in Nat, k \in Same PROVE k + 1 \in Same
  <2>1. SUFFICES ASSUME k + 1 <= n PROVE KeptOfFirst(s, T)[k + 1] = KeptOfFirst(t, U)[k + 1]
    OBVIOUS
  <2>2. /\ KeptOfFirst(s, T)[k] = KeptOfFirst(t, U)[k]
        /\ k + 1 \in 1..n /\ k + 1 \in 1..Len(s) /\ k + 1 \in 1..Len(t) /\ (k + 1) - 1 = k
    BY <1>2, <2>1
  <2>3. /\ KeptOfFirst(s, T)[k + 1] = IF s[k + 1] \in T THEN Append(KeptOfFirst(s, T)[k], s[k + 1]) ELSE KeptOfFirst(s, T)[k]
        /\ KeptOfFirst(t, U)[k + 1] = IF t[k + 1] \in U THEN Append(KeptOfFirst(t, U)[k], t[k + 1]) ELSE KeptOfFirst(t, U)[k]
    BY <2>2, KeptOfFirstStep
  <2> QED
    BY <2>2, <2>3
<1> HIDE DEF Same
<1>3. \A k \in Nat : k \in Same
  BY <1>1, <1>2, NatInductionSet
<1> QED
  BY <1>3 DEF Same

\* Nothing is kept of the empty sequence.
LEMMA FilterEmpty == \A T : Filter(<<>>, T) = <<>>
<1> SUFFICES ASSUME NEW T PROVE Filter(<<>>, T) = <<>>
  OBVIOUS
<1>1. <<>> \in Seq({}) /\ Len(<<>>) = 0
  OBVIOUS
<1>2. KeptOfFirst(<<>>, T)[0] = <<>>
  BY <1>1, KeptOfFirstStep
<1> QED
  BY <1>1, <1>2 DEF Filter

\* The last element comes last, if it is kept.
LEMMA FilterAppend ==
  ASSUME NEW S, NEW s \in Seq(S), NEW e \in S, NEW T
  PROVE  Filter(Append(s, e), T) = IF e \in T THEN Append(Filter(s, T), e) ELSE Filter(s, T)
<1> DEFINE t == Append(s, e)
<1>1. t \in Seq(S) /\ Len(t) = Len(s) + 1 /\ t[Len(s) + 1] = e /\ \A i \in 1..Len(s) : t[i] = s[i]
  OBVIOUS
<1>2. Len(s) \in Nat
  OBVIOUS
<1> HIDE DEF t
<1>3. KeptOfFirst(t, T)[Len(s)] = KeptOfFirst(s, T)[Len(s)]
  BY <1>1, <1>2, KeptOfFirstAgree
<1>4. KeptOfFirst(t, T)[Len(s) + 1] = IF e \in T THEN Append(KeptOfFirst(t, T)[Len(s)], e) ELSE KeptOfFirst(t, T)[Len(s)]
  <2>1. Len(s) + 1 \in 1..Len(t) /\ (Len(s) + 1) - 1 = Len(s)
    BY <1>1, <1>2
  <2> QED
    BY <1>1, <2>1, KeptOfFirstStep
<1> QED
  BY <1>1, <1>3, <1>4 DEF Filter, t

\* What is kept depends on which elements of the sequence are to be kept, and on nothing else.
LEMMA FilterAgree ==
  ASSUME NEW S, NEW s \in Seq(S), NEW T, NEW U, \A i \in 1..Len(s) : s[i] \in T <=> s[i] \in U
  PROVE  Filter(s, T) = Filter(s, U)
<1>1. Len(s) \in Nat
  OBVIOUS
<1> QED
  BY <1>1, KeptOfFirstAgree DEF Filter

\* What is kept is in the sequence, and in the set of what is to be kept.
LEMMA FilterType ==
  ASSUME NEW S, NEW T
  PROVE  \A s \in Seq(S) : Filter(s, T) \in Seq(S \cap T) /\ Filter(s, T) \in Seq(S)
<1> DEFINE P == {s \in Seq(S) : Filter(s, T) \in Seq(S \cap T) /\ Filter(s, T) \in Seq(S)}
<1>1. <<>> \in P
  <2>1. <<>> \in Seq(S) /\ <<>> \in Seq(S \cap T)
    OBVIOUS
  <2> QED
    BY <2>1, FilterEmpty
<1>2. ASSUME NEW s \in Seq(S), NEW e \in S, s \in P PROVE Append(s, e) \in P
  <2>1. Append(s, e) \in Seq(S) /\ Filter(s, T) \in Seq(S \cap T) /\ Filter(s, T) \in Seq(S)
    BY <1>2
  <2>2. Filter(Append(s, e), T) = IF e \in T THEN Append(Filter(s, T), e) ELSE Filter(s, T)
    BY FilterAppend
  <2>3. e \in T => Append(Filter(s, T), e) \in Seq(S \cap T) /\ Append(Filter(s, T), e) \in Seq(S)
    BY <2>1
  <2> QED
    BY <2>1, <2>2, <2>3
<1> HIDE DEF P
<1>3. \A s \in Seq(S) : s \in P
  BY <1>1, <1>2, SeqInductionSet
<1> QED
  BY <1>3 DEF P

\* Every element that is to be kept is kept, and no other.
LEMMA FilterElements ==
  ASSUME NEW S, NEW T
  PROVE  \A s \in Seq(S) : {Filter(s, T)[i] : i \in 1..Len(Filter(s, T))} = {s[i] : i \in 1..Len(s)} \cap T
<1> DEFINE Of(s) == {s[i] : i \in 1..Len(s)}
           P == {s \in Seq(S) : Of(Filter(s, T)) = Of(s) \cap T}
<1>0. ASSUME NEW R, NEW r \in Seq(R), NEW e PROVE Of(Append(r, e)) = Of(r) \cup {e}
  <2>1. Len(Append(r, e)) = Len(r) + 1 /\ Len(r) \in Nat /\ Append(r, e)[Len(r) + 1] = e
        /\ \A i \in 1..Len(r) : Append(r, e)[i] = r[i]
    OBVIOUS
  <2>2. 1..Len(r) + 1 = (1..Len(r)) \cup {Len(r) + 1}
    BY <2>1
  <2> QED
    BY <2>1, <2>2
<1>1. <<>> \in P
  BY FilterEmpty
<1>2. ASSUME NEW s \in Seq(S), NEW e \in S, s \in P PROVE Append(s, e) \in P
  <2>1. Of(Append(s, e)) = Of(s) \cup {e} /\ Of(Filter(s, T)) = Of(s) \cap T
    BY <1>0, <1>2
  <2>4. /\ Filter(Append(s, e), T) = IF e \in T THEN Append(Filter(s, T), e) ELSE Filter(s, T)
        /\ Append(s, e) \in Seq(S)
    BY FilterAppend
  <2> HIDE DEF Of
  <2>2. CASE e \in T
    <3>0. Filter(s, T) \in Seq(S)
      BY FilterType
    <3>1. Of(Append(Filter(s, T), e)) = Of(Filter(s, T)) \cup {e}
      BY <1>0, <3>0
    <3> QED
      BY <2>1, <2>2, <2>4, <3>1
  <2>3. CASE e \notin T
    BY <2>1, <2>3, <2>4
  <2> QED
    BY <2>2, <2>3
<1> HIDE DEF P
<1>3. \A s \in Seq(S) : s \in P
  BY <1>1, <1>2, SeqInductionSet
<1> QED
  BY <1>3 DEF P

-----------------------------------------------------------------------------
(***************************************************************************)
(* FlattenSeq, by induction.                                               *)
(***************************************************************************)
\* The first i sequences one behind the other, for each i.
Flattened(ss) ==
  LET flatten[i \in 1..Len(ss)] == IF i = 1 THEN ss[i] ELSE flatten[i-1] \o ss[i] IN flatten

\* The recursion that FlattenSeq is defined by has a solution.
LEMMA FlattenedDef ==
  ASSUME NEW S, NEW ss \in Seq(S)
  PROVE  Flattened(ss) = [i \in 1..Len(ss) |-> IF i = 1 THEN ss[i] ELSE Flattened(ss)[i-1] \o ss[i]]
<1> DEFINE Solves(k, f) == f = [i \in 1..k |-> IF i = 1 THEN ss[i] ELSE f[i-1] \o ss[i]]
           Solved == {k \in Nat : \E f : Solves(k, f)}
<1> HIDE DEF Solves
<1>1. 0 \in Solved
  <2>1. Solves(0, [n \in 1..0 |-> <<>>])
    BY DEF Solves
  <2> QED
    BY <2>1
<1>2. ASSUME NEW k \in Nat, k \in Solved PROVE k + 1 \in Solved
  <2>1. PICK f : Solves(k, f)
    BY <1>2
  <2> DEFINE next == IF k = 0 THEN ss[1] ELSE f[k] \o ss[k + 1]
             g == [i \in 1..k + 1 |-> IF i <= k THEN f[i] ELSE next]
  <2>2. Solves(k + 1, g)
    <3> SUFFICES ASSUME NEW i \in 1..k + 1 PROVE g[i] = IF i = 1 THEN ss[i] ELSE g[i-1] \o ss[i]
      BY DEF Solves
    <3>1. CASE i = 1 /\ k > 0
      <4>1. i \in 1..k
        BY <3>1
      <4>2. g[i] = f[i] /\ f[i] = ss[i]
        BY <2>1, <3>1, <4>1 DEF Solves
      <4> QED
        BY <3>1, <4>2
    <3>2. CASE i # 1 /\ i <= k
      <4>1. i \in 1..k /\ i - 1 \in 1..k /\ i - 1 \in 1..k + 1
        BY <3>2
      <4>2. g[i] = f[i] /\ g[i - 1] = f[i - 1]
        BY <4>1
      <4> QED
        BY <2>1, <3>2, <4>1, <4>2 DEF Solves
    <3>3. CASE i = k + 1
      <4>1. g[i] = next
        BY <3>3
      <4>2. k # 0 => g[i - 1] = f[k] /\ i # 1
        BY <3>3
      <4> QED
        BY <3>3, <4>1, <4>2
    <3> QED
      BY <3>1, <3>2, <3>3
  <2> HIDE DEF g
  <2>3. \E h : Solves(k + 1, h)
    BY <2>2
  <2> QED
    BY <2>3
<1>5. Len(ss) \in Nat
  OBVIOUS
<1> HIDE DEF Solved
<1>3. \A k \in Nat : k \in Solved
  BY <1>1, <1>2, NatInductionSet
<1>4. \E f : Solves(Len(ss), f)
  BY <1>3, <1>5 DEF Solved
<1> QED
  BY <1>4 DEF Flattened, Solves

\* One step of that recursion.
LEMMA FlattenedStep ==
  ASSUME NEW S, NEW ss \in Seq(S), NEW i \in 1..Len(ss)
  PROVE  Flattened(ss)[i] = IF i = 1 THEN ss[i] ELSE Flattened(ss)[i-1] \o ss[i]
<1> DEFINE F == Flattened(ss)
<1>1. F = [j \in 1..Len(ss) |-> IF j = 1 THEN ss[j] ELSE F[j-1] \o ss[j]]
  BY FlattenedDef
<1> HIDE DEF F
<1>2. F[i] = IF i = 1 THEN ss[i] ELSE F[i-1] \o ss[i]
  BY <1>1
<1> QED
  BY <1>2 DEF F

\* The first i sequences do not depend on those behind them, and are sequences.
LEMMA FlattenedPrefix ==
  ASSUME NEW S, NEW ss \in Seq(Seq(S)), NEW s \in Seq(S)
  PROVE  \A i \in 1..Len(ss) : Flattened(Append(ss, s))[i] = Flattened(ss)[i] /\ Flattened(ss)[i] \in Seq(S)
<1> DEFINE t == Append(ss, s)
           Same == {i \in Nat : i + 1 <= Len(ss) => Flattened(t)[i + 1] = Flattened(ss)[i + 1] /\ Flattened(ss)[i + 1] \in Seq(S)}
<1>0. t \in Seq(Seq(S)) /\ Len(t) = Len(ss) + 1 /\ (\A i \in 1..Len(ss) : t[i] = ss[i] /\ ss[i] \in Seq(S)) /\ Len(ss) \in Nat
  OBVIOUS
<1> HIDE DEF t
<1>1. ASSUME 0 + 1 <= Len(ss) PROVE Flattened(t)[0 + 1] = Flattened(ss)[0 + 1] /\ Flattened(ss)[0 + 1] \in Seq(S)
  <2>1. 1 \in 1..Len(ss) /\ 1 \in 1..Len(t)
    BY <1>0, <1>1
  <2>2. Flattened(ss)[1] = ss[1] /\ Flattened(t)[1] = t[1]
    BY <1>0, <2>1, FlattenedStep
  <2> QED
    BY <1>0, <2>1, <2>2
<1>2. ASSUME NEW i \in Nat, i \in Same PROVE i + 1 \in Same
  <2> SUFFICES ASSUME i + 2 <= Len(ss) PROVE Flattened(t)[i + 2] = Flattened(ss)[i + 2] /\ Flattened(ss)[i + 2] \in Seq(S)
    OBVIOUS
  <2>1. i + 2 \in 1..Len(ss) /\ i + 2 \in 1..Len(t) /\ i + 2 # 1 /\ (i + 2) - 1 = i + 1
    BY <1>0
  <2>2. /\ Flattened(ss)[i + 2] = Flattened(ss)[i + 1] \o ss[i + 2]
        /\ Flattened(t)[i + 2] = Flattened(t)[i + 1] \o t[i + 2]
    BY <1>0, <2>1, FlattenedStep
  <2>3. Flattened(t)[i + 1] = Flattened(ss)[i + 1] /\ Flattened(ss)[i + 1] \in Seq(S)
    BY <1>0, <1>2
  <2>4. ss[i + 2] \in Seq(S) /\ t[i + 2] = ss[i + 2]
    BY <1>0, <2>1
  <2> QED
    BY <2>2, <2>3, <2>4
<1>3. 0 \in Same
  BY <1>1
<1> HIDE DEF Same
<1>4. \A i \in Nat : i \in Same
  BY <1>2, <1>3, NatInductionSet
<1>5. ASSUME NEW i \in 1..Len(ss) PROVE Flattened(t)[i] = Flattened(ss)[i] /\ Flattened(ss)[i] \in Seq(S)
  <2>1. i - 1 \in Same /\ (i - 1) + 1 = i
    BY <1>0, <1>4
  <2> QED
    BY <1>0, <2>1 DEF Same
<1> QED
  BY <1>5 DEF t

\* What FlattenSeq is, behind the definition of the library.
LEMMA FlattenIs == \A ss : FlattenSeq(ss) = IF Len(ss) = 0 THEN ss ELSE Flattened(ss)[Len(ss)]
BY DEF FlattenSeq, Flattened

\* A sequence more comes last.
LEMMA FlattenAppend ==
  ASSUME NEW S, NEW ss \in Seq(Seq(S)), NEW s \in Seq(S)
  PROVE  FlattenSeq(Append(ss, s)) = FlattenSeq(ss) \o s /\ FlattenSeq(ss) \in Seq(S)
<1> DEFINE t == Append(ss, s)
<1>1. t \in Seq(Seq(S)) /\ Len(t) = Len(ss) + 1 /\ t[Len(ss) + 1] = s /\ Len(ss) \in Nat
  OBVIOUS
<1>2. FlattenSeq(t) = Flattened(t)[Len(t)]
  <2>1. Len(t) # 0
    BY <1>1
  <2> HIDE DEF t
  <2> QED
    BY <2>1, FlattenIs
<1>3. \A i \in 1..Len(ss) : Flattened(t)[i] = Flattened(ss)[i] /\ Flattened(ss)[i] \in Seq(S)
  BY FlattenedPrefix
<1> HIDE DEF t
<1>4. Flattened(t)[Len(t)] = IF Len(t) = 1 THEN s ELSE Flattened(t)[Len(t) - 1] \o s
  BY <1>1, FlattenedStep
<1>5. CASE Len(ss) = 0
  <2>1. FlattenSeq(ss) = ss /\ ss = <<>>
    BY <1>5, FlattenIs
  <2> QED
    BY <1>1, <1>2, <1>4, <1>5, <2>1 DEF t
<1>6. CASE Len(ss) > 0
  <2>1. FlattenSeq(ss) = Flattened(ss)[Len(ss)] /\ Len(ss) \in 1..Len(ss)
    BY <1>1, <1>6, FlattenIs
  <2> QED
    <3>1. Len(t) # 1 /\ Len(t) - 1 = Len(ss)
      BY <1>1, <1>6
    <3>2. FlattenSeq(t) = FlattenSeq(ss) \o s /\ FlattenSeq(ss) \in Seq(S)
      BY <1>2, <1>3, <1>4, <2>1, <3>1
    <3> QED
      BY <3>2 DEF t
<1> QED
  BY <1>1, <1>5, <1>6

\* Nothing flattened is nothing.
LEMMA FlattenNone == FlattenSeq(<<>>) = <<>>
BY FlattenIs

-----------------------------------------------------------------------------
(***************************************************************************)
(* Where each of the sequences that FlattenSeq puts together ends.         *)
(***************************************************************************)
EndsAt(ss, e) ==
  /\ e \in [0..Len(ss) -> Nat] /\ e[0] = 0
  /\ \A i \in 1..Len(ss) : e[i] = e[i - 1] + Len(ss[i])

\* Each of them is found behind the end of the one before it.
Placed(ss, e) ==
  /\ EndsAt(ss, e) /\ Len(FlattenSeq(ss)) = e[Len(ss)]
  /\ \A i \in 0..Len(ss) : e[i] <= e[Len(ss)]
  /\ \A i \in 1..Len(ss) : \A j \in 1..Len(ss[i]) : FlattenSeq(ss)[e[i - 1] + j] = ss[i][j]

\* One sequence more is placed behind the others.
LEMMA PlacedAppend ==
  ASSUME NEW S, NEW ss \in Seq(Seq(S)), NEW s \in Seq(S), NEW e, Placed(ss, e)
  PROVE  \E d : Placed(Append(ss, s), d)
<1>1. PICK t : t = Append(ss, s)
  OBVIOUS
<1>2. /\ Len(t) = Len(ss) + 1 /\ t[Len(ss) + 1] = s /\ Len(ss) \in Nat /\ Len(s) \in Nat
      /\ \A i \in 1..Len(ss) : t[i] = ss[i] /\ ss[i] \in Seq(S)
  BY <1>1
<1>3. PICK a : a = FlattenSeq(ss)
  OBVIOUS
<1>4. FlattenSeq(t) = a \o s /\ a \in Seq(S)
  BY <1>1, <1>3, FlattenAppend
<1>5. PICK n \in Nat : n = e[Len(ss)]
  BY <1>2 DEF Placed, EndsAt
<1>6. /\ e \in [0..Len(ss) -> Nat] /\ e[0] = 0 /\ Len(a) = n
      /\ \A i \in 1..Len(ss) : e[i] = e[i - 1] + Len(ss[i])
      /\ \A i \in 0..Len(ss) : e[i] \in Nat /\ e[i] <= n
  BY <1>3, <1>5 DEF Placed, EndsAt
<1>7. \A i \in 1..Len(ss) : \A j \in 1..Len(ss[i]) : a[e[i - 1] + j] = ss[i][j]
  BY <1>3 DEF Placed
<1>8. PICK d : d = [i \in 0..(Len(ss) + 1) |-> IF i <= Len(ss) THEN e[i] ELSE n + Len(s)]
  OBVIOUS
<1>9. d[Len(ss) + 1] = n + Len(s) /\ \A i \in 0..Len(ss) : d[i] = e[i]
  BY <1>2, <1>8
<1>10. EndsAt(t, d)
  <2>1. d \in [0..Len(t) -> Nat] /\ d[0] = 0
    BY <1>2, <1>6, <1>8
  <2>2. ASSUME NEW i \in 1..Len(t) PROVE d[i] = d[i - 1] + Len(t[i])
    <3>1. CASE i \in 1..Len(ss)
      <4>1. i - 1 \in 0..Len(ss) /\ i \in 0..Len(ss)
        BY <1>2, <3>1
      <4> QED
        BY <1>2, <1>6, <1>9, <3>1, <4>1
    <3>2. CASE i = Len(ss) + 1
      <4>1. i - 1 = Len(ss) /\ Len(ss) \in 0..Len(ss)
        BY <1>2, <3>2
      <4> QED
        BY <1>2, <1>5, <1>9, <3>2, <4>1
    <3> QED
      BY <1>2, <3>1, <3>2
  <2> QED
    BY <2>1, <2>2 DEF EndsAt
<1>11. Len(FlattenSeq(t)) = d[Len(t)]
  BY <1>2, <1>4, <1>6, <1>9
<1>12. ASSUME NEW i \in 0..Len(t) PROVE d[i] <= d[Len(t)]
  <2>1. CASE i \in 0..Len(ss)
    <3>1. d[i] = e[i] /\ e[i] \in Nat /\ e[i] <= n
      BY <1>6, <1>9, <2>1
    <3> QED
      BY <1>2, <1>9, <3>1
  <2>2. CASE i = Len(t)
    BY <1>2, <1>9, <2>2
  <2> QED
    BY <1>2, <2>1, <2>2
<1>13. ASSUME NEW i \in 1..Len(t), NEW j \in 1..Len(t[i]) PROVE FlattenSeq(t)[d[i - 1] + j] = t[i][j]
  <2>1. CASE i \in 1..Len(ss)
    <3>1. i - 1 \in 0..Len(ss) /\ i \in 0..Len(ss) /\ t[i] = ss[i] /\ Len(ss[i]) \in Nat
      BY <1>2, <2>1
    <3>2. PICK m \in Nat : m = e[i - 1]
      BY <1>6, <3>1
    <3>3. m + j \in 1..Len(a)
      <4>1. e[i] = m + Len(ss[i]) /\ e[i] <= n
        BY <1>6, <2>1, <3>1, <3>2
      <4>2. PICK l \in Nat : l = Len(ss[i])
        BY <3>1
      <4>3. j \in 1..l /\ m + l <= n
        BY <3>1, <4>1, <4>2
      <4> QED
        BY <1>6, <4>3
    <3>4. (a \o s)[m + j] = a[m + j]
      BY <1>4, <3>3
    <3> QED
      BY <1>4, <1>7, <1>9, <2>1, <3>1, <3>2, <3>4
  <2>2. CASE i = Len(ss) + 1
    <3>1. d[i - 1] = n /\ t[i] = s
      <4>1. i - 1 = Len(ss) /\ Len(ss) \in 0..Len(ss)
        BY <1>2, <2>2
      <4> QED
        BY <1>2, <1>5, <1>9, <2>2, <4>1
    <3>2. j \in 1..Len(s)
      BY <3>1
    <3>3. (a \o s)[Len(a) + j] = s[j]
      BY <1>4, <3>2
    <3> QED
      BY <1>4, <1>6, <3>1, <3>3
  <2> QED
    BY <1>2, <2>1, <2>2
<1>14. Placed(t, d)
  BY <1>10, <1>11, <1>12, <1>13 DEF Placed
<1> QED
  BY <1>1, <1>14

\* All are placed.
LEMMA FlattenPlaced ==
  ASSUME NEW S
  PROVE  \A ss \in Seq(Seq(S)) : FlattenSeq(ss) \in Seq(S) /\ \E e : Placed(ss, e)
<1> DEFINE P == {ss \in Seq(Seq(S)) : FlattenSeq(ss) \in Seq(S) /\ \E e : Placed(ss, e)}
<1>1. <<>> \in P
  <2>1. FlattenSeq(<<>>) = <<>> /\ <<>> \in Seq(Seq(S)) /\ <<>> \in Seq(S) /\ Len(<<>>) = 0
    BY FlattenNone
  <2>2. PICK e : e = [i \in 0..0 |-> 0]
    OBVIOUS
  <2>3. e \in [0..0 -> Nat] /\ e[0] = 0 /\ \A i \in 0..0 : e[i] = 0
    BY <2>2
  <2>4. Placed(<<>>, e)
    BY <2>1, <2>3 DEF Placed, EndsAt
  <2> QED
    BY <2>1, <2>4
<1>2. ASSUME NEW ss \in Seq(Seq(S)), NEW s \in Seq(S), ss \in P PROVE Append(ss, s) \in P
  <2>1. PICK e : Placed(ss, e)
    BY <1>2
  <2>2. \E d : Placed(Append(ss, s), d)
    BY <2>1, PlacedAppend
  <2>3. FlattenSeq(Append(ss, s)) = FlattenSeq(ss) \o s /\ FlattenSeq(ss) \in Seq(S)
    BY FlattenAppend
  <2>4. FlattenSeq(Append(ss, s)) \in Seq(S) /\ Append(ss, s) \in Seq(Seq(S))
    BY <2>3
  <2> QED
    BY <2>2, <2>4
<1> HIDE DEF P
<1>3. \A ss \in Seq(Seq(S)) : ss \in P
  BY <1>1, <1>2, SeqInductionSet
<1> QED
  BY <1>3 DEF P

\* Where the first n end does not depend on those behind them.
LEMMA EndsAgree ==
  ASSUME NEW ss, NEW tt, NEW e, NEW d, EndsAt(ss, e), EndsAt(tt, d), Len(ss) \in Nat, Len(tt) \in Nat,
         NEW n \in Nat, n <= Len(ss), n <= Len(tt), \A i \in 1..n : ss[i] = tt[i]
  PROVE  e[n] = d[n]
<1> DEFINE T == {k \in Nat : k <= n => e[k] = d[k]}
<1>1. 0 \in T
  BY DEF EndsAt
<1>2. ASSUME NEW k \in Nat, k \in T PROVE k + 1 \in T
  <2> SUFFICES ASSUME k + 1 <= n PROVE e[k + 1] = d[k + 1]
    OBVIOUS
  <2>1. k + 1 \in 1..Len(ss) /\ k + 1 \in 1..Len(tt) /\ k + 1 \in 1..n /\ (k + 1) - 1 = k
    OBVIOUS
  <2>2. e[k + 1] = e[k] + Len(ss[k + 1]) /\ d[k + 1] = d[k] + Len(tt[k + 1])
    BY <2>1 DEF EndsAt
  <2>3. e[k] = d[k]
    BY <1>2
  <2> QED
    BY <2>1, <2>2, <2>3
<1> HIDE DEF T
<1>3. \A k \in Nat : k \in T
  BY <1>1, <1>2, NatInductionSet
<1> QED
  BY <1>3 DEF T

\* Each ends behind those before it.
LEMMA EndsGrow ==
  ASSUME NEW S, NEW ss \in Seq(Seq(S)), NEW e, EndsAt(ss, e), NEW i \in Nat, NEW j \in Nat, i <= j, j <= Len(ss)
  PROVE  e[i] <= e[j]
<1> DEFINE T == {k \in Nat : i + k <= Len(ss) => e[i] <= e[i + k]}
<1>1. e \in [0..Len(ss) -> Nat] /\ Len(ss) \in Nat /\ i \in 0..Len(ss)
  BY DEF EndsAt
<1>2. 0 \in T
  <2>1. e[i] \in Nat /\ i + 0 = i
    BY <1>1
  <2> QED
    BY <2>1
<1>3. ASSUME NEW k \in Nat, k \in T PROVE k + 1 \in T
  <2> SUFFICES ASSUME i + (k + 1) <= Len(ss) PROVE e[i] <= e[i + (k + 1)]
    OBVIOUS
  <2>1. PICK q \in 1..Len(ss) : q = i + (k + 1) /\ q - 1 = i + k
    BY <1>1
  <2>2. ss[q] \in Seq(S)
    BY <2>1
  <2>3. Len(ss[q]) \in Nat
    BY <2>2
  <2>4. e[q] = e[q - 1] + Len(ss[q]) /\ e[q - 1] \in Nat /\ e[i] \in Nat
    <3>1. e[q] = e[q - 1] + Len(ss[q])
      BY <2>1 DEF EndsAt
    <3>2. q - 1 \in 0..Len(ss)
      BY <1>1, <2>1
    <3> QED
      BY <1>1, <3>1, <3>2
  <2>5. e[i] <= e[q - 1]
    BY <1>1, <1>3, <2>1
  <2> QED
    BY <2>1, <2>3, <2>4, <2>5
<1> HIDE DEF T
<1>4. \A k \in Nat : k \in T
  BY <1>2, <1>3, NatInductionSet
<1>5. PICK k \in Nat : k = j - i /\ i + k = j
  OBVIOUS
<1> QED
  BY <1>4, <1>5 DEF T

\* ts are the first n of ss.
StartOf(ts, ss, n) == Len(ts) = n /\ n <= Len(ss) /\ \A i \in 1..n : ts[i] = ss[i]

\* The first n of them, flattened, are as long as that.
LEMMA FlattenFirst ==
  ASSUME NEW S, NEW ss \in Seq(Seq(S)), NEW e, Placed(ss, e), NEW n \in Nat, NEW ts, StartOf(ts, ss, n), ts \in Seq(Seq(S))
  PROVE  Len(FlattenSeq(ts)) = e[n]
<1>1. PICK d : Placed(ts, d)
  BY FlattenPlaced
<1>2. EndsAt(ts, d) /\ EndsAt(ss, e) /\ Len(FlattenSeq(ts)) = d[n]
  BY <1>1 DEF Placed, StartOf
<1>3. d[n] = e[n]
  BY <1>2, EndsAgree DEF StartOf
<1> QED
  BY <1>2, <1>3
=============================================================================

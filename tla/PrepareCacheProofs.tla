------------------------- MODULE PrepareCacheProofs -------------------------
(***************************************************************************)
(* Proofs about PrepareCache, in four layers that ask more and more of the *)
(* client.  Whatever the client does, a statement is closed exactly when   *)
(* it has left the cache and nobody uses it.  If the client waits for the  *)
(* end of a stream, every call is settled and no statement is forgotten.   *)
(* If it waits for the answer of a USE, the cache is right about the text  *)
(* of its statements.  If it waits for everything, a reset() included,     *)
(* every EXECUTE runs its own statement.                                   *)
(***************************************************************************)
EXTENDS PrepareCache, SequenceLemmas, FiniteSetTheorems, TLAPS

(***************************************************************************)
(* Queues of commands, answers and callbacks: what is in them, once.       *)
(***************************************************************************)
Has(s, op, c) == \E i \in DOMAIN s : s[i].op = op /\ s[i].about = c
Once(s, op) == \A i, j \in DOMAIN s : s[i].op = op /\ s[j].op = op /\ s[i].about = s[j].about => i = j

\* What Append adds to a queue.
LEMMA HasAppend ==
  \A S : \A s \in Seq(S), e \in S : \A op, c :
    Has(Append(s, e), op, c) <=> Has(s, op, c) \/ (op = e.op /\ c = e.about)
<1> SUFFICES ASSUME NEW S, NEW s \in Seq(S), NEW e \in S, NEW op, NEW c
             PROVE  Has(Append(s, e), op, c) <=> Has(s, op, c) \/ (op = e.op /\ c = e.about)
  OBVIOUS
<1> DEFINE a == Append(s, e)
<1>1. /\ DOMAIN a = 1..(Len(s) + 1) /\ DOMAIN s = 1..Len(s) /\ Len(s) \in Nat
      /\ \A i \in 1..Len(s) : a[i] = s[i]
      /\ a[Len(s) + 1] = e
  OBVIOUS
<1> HIDE DEF a
<1>2. ASSUME Has(a, op, c) PROVE Has(s, op, c) \/ (op = e.op /\ c = e.about)
  <2>1. PICK i \in DOMAIN a : a[i].op = op /\ a[i].about = c
    BY <1>2 DEF Has
  <2>2. CASE i = Len(s) + 1
    BY <1>1, <2>1, <2>2
  <2>3. CASE i # Len(s) + 1
    <3>1. i \in DOMAIN s /\ a[i] = s[i]
      BY <1>1, <2>3
    <3> QED
      BY <3>1, <2>1 DEF Has
  <2> QED
    BY <2>2, <2>3
<1>3. ASSUME Has(s, op, c) PROVE Has(a, op, c)
  <2>1. PICK i \in DOMAIN s : s[i].op = op /\ s[i].about = c
    BY <1>3 DEF Has
  <2>2. i \in DOMAIN a /\ a[i] = s[i]
    BY <1>1
  <2> QED
    BY <2>1, <2>2 DEF Has
<1>4. ASSUME op = e.op, c = e.about PROVE Has(a, op, c)
  <2>1. Len(s) + 1 \in DOMAIN a /\ a[Len(s) + 1] = e
    BY <1>1
  <2> QED
    BY <2>1, <1>4 DEF Has
<1> QED
  BY <1>2, <1>3, <1>4 DEF a

\* What the concatenation of two queues has.
LEMMA HasConcat ==
  \A S : \A s, t \in Seq(S) : \A op, c : Has(s \o t, op, c) <=> Has(s, op, c) \/ Has(t, op, c)
<1> SUFFICES ASSUME NEW S, NEW s \in Seq(S), NEW t \in Seq(S), NEW op, NEW c
             PROVE  Has(s \o t, op, c) <=> Has(s, op, c) \/ Has(t, op, c)
  OBVIOUS
<1> DEFINE a == s \o t
<1>1. /\ DOMAIN a = 1..(Len(s) + Len(t)) /\ DOMAIN s = 1..Len(s) /\ DOMAIN t = 1..Len(t)
      /\ Len(s) \in Nat /\ Len(t) \in Nat
      /\ \A i \in 1..Len(s) : a[i] = s[i]
      /\ \A i \in 1..Len(t) : a[i + Len(s)] = t[i]
  OBVIOUS
<1> HIDE DEF a
<1>2. ASSUME Has(a, op, c) PROVE Has(s, op, c) \/ Has(t, op, c)
  <2>1. PICK i \in DOMAIN a : a[i].op = op /\ a[i].about = c
    BY <1>2 DEF Has
  <2>2. CASE i <= Len(s)
    <3>1. i \in DOMAIN s /\ a[i] = s[i]
      BY <1>1, <2>2
    <3> QED
      BY <3>1, <2>1 DEF Has
  <2>3. CASE i > Len(s)
    <3>1. i - Len(s) \in DOMAIN t /\ a[i] = t[i - Len(s)]
      <4>1. i - Len(s) \in 1..Len(t) /\ (i - Len(s)) + Len(s) = i
        BY <1>1, <2>3
      <4> QED
        BY <4>1, <1>1
    <3> QED
      BY <3>1, <2>1 DEF Has
  <2> QED
    BY <2>2, <2>3, <1>1
<1>3. ASSUME Has(s, op, c) PROVE Has(a, op, c)
  <2>1. PICK i \in DOMAIN s : s[i].op = op /\ s[i].about = c
    BY <1>3 DEF Has
  <2>2. i \in DOMAIN a /\ a[i] = s[i]
    BY <1>1
  <2> QED
    BY <2>1, <2>2 DEF Has
<1>4. ASSUME Has(t, op, c) PROVE Has(a, op, c)
  <2>1. PICK i \in DOMAIN t : t[i].op = op /\ t[i].about = c
    BY <1>4 DEF Has
  <2>2. i + Len(s) \in DOMAIN a /\ a[i + Len(s)] = t[i]
    BY <1>1
  <2> QED
    BY <2>1, <2>2 DEF Has
<1> QED
  BY <1>2, <1>3, <1>4 DEF a

\* What is in a queue is its head or in its tail.
LEMMA HasTail ==
  \A S : \A s \in Seq(S) : s # <<>> =>
    \A op, c : Has(s, op, c) <=> (op = Head(s).op /\ c = Head(s).about) \/ Has(Tail(s), op, c)
<1> SUFFICES ASSUME NEW S, NEW s \in Seq(S), s # <<>>, NEW op, NEW c
             PROVE  Has(s, op, c) <=> (op = Head(s).op /\ c = Head(s).about) \/ Has(Tail(s), op, c)
  OBVIOUS
<1> DEFINE a == Tail(s)
<1>1. /\ DOMAIN a = 1..(Len(s) - 1) /\ DOMAIN s = 1..Len(s) /\ Len(s) \in Nat /\ Len(s) > 0
      /\ \A i \in 1..(Len(s) - 1) : a[i] = s[i + 1]
      /\ Head(s) = s[1]
  OBVIOUS
<1> HIDE DEF a
<1>2. ASSUME Has(s, op, c) PROVE (op = s[1].op /\ c = s[1].about) \/ Has(a, op, c)
  <2>1. PICK i \in DOMAIN s : s[i].op = op /\ s[i].about = c
    BY <1>2 DEF Has
  <2>2. CASE i # 1
    <3>1. i - 1 \in DOMAIN a /\ a[i - 1] = s[i]
      <4>1. i - 1 \in 1..(Len(s) - 1) /\ (i - 1) + 1 = i
        BY <1>1, <2>2
      <4> QED
        BY <4>1, <1>1
    <3> QED
      BY <3>1, <2>1 DEF Has
  <2> QED
    BY <2>1, <2>2
<1>3. ASSUME Has(a, op, c) PROVE Has(s, op, c)
  <2>1. PICK i \in DOMAIN a : a[i].op = op /\ a[i].about = c
    BY <1>3 DEF Has
  <2>2. i + 1 \in DOMAIN s /\ a[i] = s[i + 1]
    BY <1>1
  <2> QED
    BY <2>1, <2>2 DEF Has
<1>4. ASSUME op = s[1].op, c = s[1].about PROVE Has(s, op, c)
  <2>1. 1 \in DOMAIN s
    BY <1>1
  <2> QED
    BY <2>1, <1>4 DEF Has
<1> QED
  BY <1>1, <1>2, <1>3, <1>4 DEF a

\* An empty queue has nothing.
LEMMA HasEmpty == \A op, c : ~Has(<<>>, op, c)
BY DEF Has

\* What is appended comes once if it was not there.
LEMMA OnceAppend ==
  \A S : \A s \in Seq(S), e \in S : \A op :
    Once(s, op) /\ (e.op = op => ~Has(s, op, e.about)) => Once(Append(s, e), op)
<1> SUFFICES ASSUME NEW S, NEW s \in Seq(S), NEW e \in S, NEW op, Once(s, op), e.op = op => ~Has(s, op, e.about)
             PROVE  Once(Append(s, e), op)
  OBVIOUS
<1> DEFINE a == Append(s, e)
<1>1. /\ DOMAIN a = 1..(Len(s) + 1) /\ DOMAIN s = 1..Len(s) /\ Len(s) \in Nat
      /\ \A i \in 1..Len(s) : a[i] = s[i]
      /\ a[Len(s) + 1] = e
  OBVIOUS
<1> HIDE DEF a
<1>2. \A i \in DOMAIN a : i \in DOMAIN s \/ i = Len(s) + 1
  BY <1>1
<1>3. \A i \in DOMAIN s : e.op = op => ~(s[i].op = op /\ s[i].about = e.about)
  BY DEF Has
<1>4. Once(a, op)
  BY <1>1, <1>2, <1>3 DEF Once
<1> QED
  BY <1>4 DEF a

\* What comes once is not in the tail when it is the head.
LEMMA OnceTail ==
  \A S : \A s \in Seq(S) : s # <<>> =>
    \A op : Once(s, op) => Once(Tail(s), op) /\ (Head(s).op = op => ~Has(Tail(s), op, Head(s).about))
<1> SUFFICES ASSUME NEW S, NEW s \in Seq(S), s # <<>>, NEW op, Once(s, op)
             PROVE  Once(Tail(s), op) /\ (Head(s).op = op => ~Has(Tail(s), op, Head(s).about))
  OBVIOUS
<1> DEFINE a == Tail(s)
<1>1. /\ DOMAIN a = 1..(Len(s) - 1) /\ DOMAIN s = 1..Len(s) /\ Len(s) \in Nat /\ Len(s) > 0
      /\ \A i \in 1..(Len(s) - 1) : a[i] = s[i + 1]
      /\ Head(s) = s[1]
  OBVIOUS
<1> HIDE DEF a
<1>2. \A i \in DOMAIN a : i + 1 \in DOMAIN s /\ i + 1 # 1 /\ a[i] = s[i + 1] /\ i \in Nat
  BY <1>1
<1>3. 1 \in DOMAIN s
  BY <1>1
<1>4. Once(a, op)
  <2> SUFFICES ASSUME NEW i \in DOMAIN a, NEW j \in DOMAIN a, a[i].op = op, a[j].op = op, a[i].about = a[j].about
               PROVE  i = j
    BY DEF Once
  <2>1. i + 1 = j + 1
    BY <1>2 DEF Once
  <2> QED
    BY <2>1, <1>2
<1>5. s[1].op = op => ~Has(a, op, s[1].about)
  <2> SUFFICES ASSUME s[1].op = op, NEW i \in DOMAIN a, a[i].op = op, a[i].about = s[1].about
               PROVE  FALSE
    BY DEF Has
  <2> QED
    BY <1>2, <1>3 DEF Once
<1> QED
  BY <1>1, <1>4, <1>5 DEF a

\* What two queues have once each, and not both, their concatenation has once.
LEMMA OnceConcat ==
  \A S : \A s, t \in Seq(S) : \A op :
    Once(s, op) /\ Once(t, op) /\ (\A c : ~(Has(s, op, c) /\ Has(t, op, c))) => Once(s \o t, op)
<1> SUFFICES ASSUME NEW S, NEW s \in Seq(S), NEW t \in Seq(S), NEW op, Once(s, op), Once(t, op),
                    \A c : ~(Has(s, op, c) /\ Has(t, op, c))
             PROVE  Once(s \o t, op)
  OBVIOUS
<1> DEFINE a == s \o t
<1>1. /\ DOMAIN a = 1..(Len(s) + Len(t)) /\ DOMAIN s = 1..Len(s) /\ DOMAIN t = 1..Len(t)
      /\ Len(s) \in Nat /\ Len(t) \in Nat
      /\ \A i \in 1..Len(s) : a[i] = s[i]
      /\ \A i \in 1..Len(t) : a[i + Len(s)] = t[i]
  OBVIOUS
<1> HIDE DEF a
<1> DEFINE B(i) == i - Len(s)
<1>2. \A i \in DOMAIN a : i \notin DOMAIN s => B(i) \in DOMAIN t /\ a[i] = t[B(i)] /\ B(i) + Len(s) = i
  <2> SUFFICES ASSUME NEW i \in DOMAIN a, i \notin DOMAIN s
               PROVE  B(i) \in DOMAIN t /\ a[i] = t[B(i)] /\ B(i) + Len(s) = i
    OBVIOUS
  <2>1. B(i) \in 1..Len(t) /\ B(i) + Len(s) = i
    BY <1>1
  <2>2. a[B(i) + Len(s)] = t[B(i)]
    BY <2>1, <1>1
  <2> QED
    BY <2>1, <2>2, <1>1
<1> HIDE DEF B
<1>3. \A i \in DOMAIN s : \A j \in DOMAIN t : ~(s[i].op = op /\ t[j].op = op /\ s[i].about = t[j].about)
  BY DEF Has
<1>4. \A i \in DOMAIN s : a[i] = s[i]
  BY <1>1
<1>5. Once(a, op)
  <2> SUFFICES ASSUME NEW i \in DOMAIN a, NEW j \in DOMAIN a, a[i].op = op, a[j].op = op, a[i].about = a[j].about
               PROVE  i = j
    BY DEF Once
  <2>1. CASE i \in DOMAIN s /\ j \in DOMAIN s
    BY <2>1, <1>4 DEF Once
  <2>2. CASE i \in DOMAIN s /\ j \notin DOMAIN s
    BY <2>2, <1>2, <1>3, <1>4
  <2>3. CASE i \notin DOMAIN s /\ j \in DOMAIN s
    BY <2>3, <1>2, <1>3, <1>4
  <2>4. CASE i \notin DOMAIN s /\ j \notin DOMAIN s
    <3>1. B(i) = B(j)
      BY <2>4, <1>2 DEF Once
    <3> QED
      BY <3>1, <2>4, <1>2
  <2> QED
    BY <2>1, <2>2, <2>3, <2>4
<1> QED
  BY <1>5 DEF a

\* Nothing comes more than once in an empty queue.
LEMMA OnceEmpty == \A op : Once(<<>>, op)
BY DEF Once

\* What is never in a queue comes at most once.
LEMMA OnceNever == \A s, op : (\A c : ~Has(s, op, c)) => Once(s, op)
BY DEF Once, Has

\* A reversed queue has the same elements, as often.
LEMMA HasReversed ==
  \A S : \A s \in Seq(S) :
    /\ Reversed(s) \in Seq(S)
    /\ \A op, c : Has(Reversed(s), op, c) <=> Has(s, op, c)
    /\ \A op : Once(s, op) => Once(Reversed(s), op)
<1> SUFFICES ASSUME NEW S, NEW s \in Seq(S)
             PROVE  /\ Reversed(s) \in Seq(S)
                    /\ \A op, c : Has(Reversed(s), op, c) <=> Has(s, op, c)
                    /\ \A op : Once(s, op) => Once(Reversed(s), op)
  OBVIOUS
<1> DEFINE r == Reversed(s)
           B(i) == Len(s) + 1 - i
<1>1. DOMAIN s = 1..Len(s) /\ Len(s) \in Nat /\ \A i \in DOMAIN s : s[i] \in S
  OBVIOUS
<1>2. \A i \in DOMAIN s : B(i) \in DOMAIN s /\ B(B(i)) = i
  BY <1>1
<1>3. DOMAIN r = DOMAIN s /\ \A i \in DOMAIN s : r[i] = s[B(i)]
  BY <1>1 DEF Reversed
<1>4. r \in Seq(S)
  <2>1. r = [i \in 1..Len(s) |-> s[B(i)]]
    BY <1>1 DEF Reversed
  <2>2. \A i \in 1..Len(s) : s[B(i)] \in S
    BY <1>1, <1>2
  <2> QED
    BY <2>1, <2>2, <1>1
<1> HIDE DEF r, B
<1>5. ASSUME NEW op, NEW c PROVE Has(r, op, c) <=> Has(s, op, c)
  BY <1>2, <1>3 DEF Has
<1>6. ASSUME NEW op, Once(s, op) PROVE Once(r, op)
  <2> SUFFICES ASSUME NEW i \in DOMAIN r, NEW j \in DOMAIN r, r[i].op = op, r[j].op = op, r[i].about = r[j].about
               PROVE  i = j
    BY DEF Once
  <2>1. B(i) = B(j)
    BY <1>2, <1>3, <1>6 DEF Once
  <2> QED
    BY <2>1, <1>2, <1>3
<1> QED
  BY <1>4, <1>5, <1>6 DEF r

-----------------------------------------------------------------------------
(***************************************************************************)
(* What holds whatever the client does.                                    *)
(***************************************************************************)
Commands ==
  [op : {"prepare", "execute", "close"}, about : Calls] \cup [op : {"use"}, about : Databases]
  \cup [op : {"reset"}, about : {None}]

Answers ==
  [op : {"prepare", "execute"}, about : Calls, ok : BOOLEAN] \cup [op : {"use"}, about : Databases, ok : BOOLEAN]
  \cup [op : {"reset"}, about : {None}, ok : BOOLEAN]

Ticks == [op : {"prepared", "executed", "refused"}, about : Calls] \cup [op : {"reset"}, about : {None}]

\* The variables of the LRU and of the wrappers have their types.
LruType ==
  /\ cacheSize \in Nat /\ cache \in Seq(Entries)
  /\ use \in [Calls -> Nat] /\ closed \subseteq Calls
  /\ wrapper \in [Calls -> Calls \cup {None}] /\ open \subseteq Calls

QueueType ==
  /\ sendQueue \in Seq(Commands) /\ inFlight \in Seq(Answers)
  /\ nested \in Seq(Ticks) /\ ticks \in Seq(Ticks)

TypeInv ==
  /\ TypeOK /\ cacheSize \in CacheSizes /\ QueueType
  /\ \A c \in Calls : how[c] # "none" => wants[c] \in Texts

\* The entries of the LRU have different keys and different statements.
Distinct(s) == \A i, j \in DOMAIN s : s[i].key = s[j].key \/ s[i].st = s[j].st => i = j

\* A statement is used, closed or cached only once its PREPARE has been answered, which gave the
\* call that has its number a wrapper of it.
Own ==
  /\ \A c \in Calls : wrapper[c] # None => wrapper[wrapper[c]] = wrapper[c]
  /\ \A c \in open : wrapper[c] # None
  /\ \A st \in closed : wrapper[st] = st
  /\ \A i \in DOMAIN cache : wrapper[cache[i].st] = cache[i].st

Users(st) == {c \in open : wrapper[c] = st}

Counted ==
  \A st \in Calls :
    /\ use[st] = Cardinality(Users(st))
    /\ st \in closed => Users(st) = {} /\ ~IsCached(st)
    /\ (\E c \in Calls : wrapper[c] = st) => (st \in closed \/ Users(st) # {} \/ IsCached(st))

LruOK == LruType /\ Len(cache) <= cacheSize /\ Distinct(cache) /\ Own /\ Counted

\* The calls made so far are the first ones.
Numbered == \E n \in Nat : \A c \in Calls : how[c] # "none" <=> c <= n

\* The PREPARE of a call is sent once, and the call has no wrapper until it is answered.
Unanswered ==
  /\ Once(sendQueue, "prepare") /\ Once(inFlight, "prepare")
  /\ \A c \in Calls :
       /\ Has(sendQueue, "prepare", c) => ~Has(inFlight, "prepare", c)
       /\ Has(sendQueue, "prepare", c) \/ Has(inFlight, "prepare", c) => how[c] # "none" /\ wrapper[c] = None
       /\ how[c] = "none" => wrapper[c] = None

\* The server is told of every statement that is closed, and of no other.
CloseTold ==
  \A st \in Calls :
    /\ st \in closed /\ st \in onServer => Has(sendQueue, "close", st)
    /\ Has(sendQueue, "close", st) => st \in closed
    /\ st \in onServer => wrapper[st] = st \/ Has(inFlight, "prepare", st)
    /\ \A i \in DOMAIN inFlight : inFlight[i].op = "prepare" /\ inFlight[i].about = st /\ st \in onServer => inFlight[i].ok

Closes == TypeInv /\ LruOK /\ Numbered /\ Unanswered /\ CloseTold

\* What is closed goes to the end of the sendQueue.
Closing ==
  /\ closed \subseteq closed'
  /\ \E t \in Seq(Commands) :
       /\ sendQueue' = sendQueue \o t
       /\ \A op, c : Has(t, op, c) <=> op = "close" /\ c \in closed' \ closed

-----------------------------------------------------------------------------
\* Sets of calls are finite.
LEMMA CallsFinite == \A C : C \subseteq Calls => IsFiniteSet(C) /\ Cardinality(C) \in Nat
<1>1. IsFiniteSet(Calls)
  BY FS_Interval, PrepareCacheAssumption DEF Calls
<1>2. ASSUME NEW C, C \subseteq Calls PROVE IsFiniteSet(C) /\ Cardinality(C) \in Nat
  <2>1. IsFiniteSet(C)
    BY <1>1, <1>2, FS_Subset
  <2> QED
    BY <2>1, FS_CardinalityType
<1> QED
  BY <1>2

\* None is no call.
LEMMA NoneIsNoCall == None \notin Calls /\ Calls \subseteq Nat
BY PrepareCacheAssumption DEF None, Calls

\* Closing statements adds a COM_STMT_CLOSE for each one that was not closed.
LEMMA CloseDoes ==
  ASSUME sendQueue \in Seq(Commands), closed \subseteq Calls, NEW s \in Seq(Calls), Close(s)
  PROVE  closed' = closed \cup {s[i] : i \in DOMAIN s} /\ Closing
<1>1. PICK now : /\ now = Filter(s, Calls \ closed)
                 /\ closed' = closed \cup {now[i] : i \in DOMAIN now}
                 /\ sendQueue' = sendQueue \o [i \in DOMAIN now |-> Command("close", now[i])]
  BY DEF Close
<1>2. now \in Seq(Calls)
  BY <1>1, FilterType
<1>3. {now[i] : i \in 1..Len(now)} = {s[i] : i \in 1..Len(s)} \cap (Calls \ closed)
  <2>1. PICK T : T = Calls \ closed
    OBVIOUS
  <2>2. \A r \in Seq(Calls) : {Filter(r, T)[i] : i \in 1..Len(Filter(r, T))} = {r[i] : i \in 1..Len(r)} \cap T
    BY FilterElements
  <2>3. {Filter(s, T)[i] : i \in 1..Len(Filter(s, T))} = {s[i] : i \in 1..Len(s)} \cap T
    BY <2>2
  <2>4. now = Filter(s, T)
    BY <1>1, <2>1
  <2> QED
    BY <2>1, <2>3, <2>4
<1>4. DOMAIN now = 1..Len(now) /\ DOMAIN s = 1..Len(s)
  BY <1>2
<1>5. \A i \in DOMAIN s : s[i] \in Calls
  OBVIOUS
<1>6. closed' = closed \cup {s[i] : i \in DOMAIN s}
  BY <1>1, <1>3, <1>4, <1>5
<1>7. PICK t : t = [i \in DOMAIN now |-> Command("close", now[i])]
  OBVIOUS
<1>8. t \in Seq(Commands)
  <2>1. \A i \in 1..Len(now) : Command("close", now[i]) \in Commands
    BY <1>2 DEF Command, Commands
  <2>2. t = [i \in 1..Len(now) |-> Command("close", now[i])] /\ Len(now) \in Nat
    BY <1>2, <1>4, <1>7
  <2> QED
    BY <2>1, <2>2
<1>9. ASSUME NEW op, NEW c PROVE Has(t, op, c) <=> op = "close" /\ c \in closed' \ closed
  <2>1. DOMAIN t = DOMAIN now /\ \A i \in DOMAIN now : t[i].op = "close" /\ t[i].about = now[i]
    BY <1>7 DEF Command
  <2>2. Has(t, op, c) <=> op = "close" /\ c \in {now[i] : i \in DOMAIN now}
    BY <2>1 DEF Has
  <2>3. closed' \ closed = {now[i] : i \in DOMAIN now}
    BY <1>1, <1>3, <1>4
  <2> QED
    BY <2>2, <2>3
<1>10. Closing
  BY <1>1, <1>7, <1>8, <1>9 DEF Closing
<1> QED
  BY <1>6, <1>10

\* Nothing is closed when neither the closed statements nor the sendQueue change.
LEMMA CloseNothing ==
  ASSUME sendQueue \in Seq(Commands), UNCHANGED <<closed, sendQueue>>
  PROVE  Closing
<1>1. <<>> \in Seq(Commands) /\ sendQueue' = sendQueue \o <<>>
  OBVIOUS
<1>2. \A op, c : Has(<<>>, op, c) <=> op = "close" /\ c \in closed' \ closed
  BY HasEmpty
<1> QED
  BY <1>1, <1>2 DEF Closing

\* unCache() closes the statements nobody uses.
LEMMA UnCacheDoes ==
  ASSUME sendQueue \in Seq(Commands), closed \subseteq Calls, NEW s \in Seq(Entries), UnCache(s)
  PROVE  /\ \A st : st \in closed' <=> st \in closed \/ (use[st] = 0 /\ \E i \in DOMAIN s : s[i].st = st)
         /\ Closing
<1>1. PICK unused : /\ unused = Filter(s, {e \in Entries : use[e.st] = 0})
                    /\ Close([i \in DOMAIN unused |-> unused[i].st])
  BY DEF UnCache
<1>2. unused \in Seq(Entries)
  BY <1>1, FilterType
<1>3. {unused[i] : i \in 1..Len(unused)} = {s[i] : i \in 1..Len(s)} \cap {e \in Entries : use[e.st] = 0}
  <2>1. PICK T : T = {e \in Entries : use[e.st] = 0}
    OBVIOUS
  <2>2. \A r \in Seq(Entries) : {Filter(r, T)[i] : i \in 1..Len(Filter(r, T))} = {r[i] : i \in 1..Len(r)} \cap T
    BY FilterElements
  <2>3. {Filter(s, T)[i] : i \in 1..Len(Filter(s, T))} = {s[i] : i \in 1..Len(s)} \cap T
    BY <2>2
  <2>4. unused = Filter(s, T)
    BY <1>1, <2>1
  <2> QED
    BY <2>1, <2>3, <2>4
<1>4. DOMAIN unused = 1..Len(unused) /\ DOMAIN s = 1..Len(s) /\ \A i \in DOMAIN s : s[i] \in Entries
  BY <1>2
<1>5. PICK sts : sts = [i \in DOMAIN unused |-> unused[i].st]
  OBVIOUS
<1>6. sts \in Seq(Calls)
  <2>1. \A i \in 1..Len(unused) : unused[i].st \in Calls
    <3>1. \A i \in 1..Len(unused) : unused[i] \in Entries
      BY <1>2
    <3> QED
      BY <3>1 DEF Entries
  <2>2. sts = [i \in 1..Len(unused) |-> unused[i].st] /\ Len(unused) \in Nat
    BY <1>2, <1>4, <1>5
  <2> QED
    BY <2>1, <2>2
<1>7. closed' = closed \cup {sts[i] : i \in DOMAIN sts} /\ Closing
  BY <1>1, <1>5, <1>6, CloseDoes
<1>8. ASSUME NEW st PROVE st \in {sts[i] : i \in DOMAIN sts} <=> use[st] = 0 /\ \E i \in DOMAIN s : s[i].st = st
  <2>1. st \in {sts[i] : i \in DOMAIN sts} <=> \E e \in {unused[i] : i \in DOMAIN unused} : e.st = st
    BY <1>5
  <2>2. {unused[i] : i \in DOMAIN unused} = {e \in {s[i] : i \in DOMAIN s} : use[e.st] = 0}
    BY <1>3, <1>4
  <2> QED
    BY <2>1, <2>2
<1> QED
  BY <1>7, <1>8

\* What comes to the front of the LRU is in it, what was at the position given no longer is.
LEMMA ToFrontDoes ==
  ASSUME cache \in Seq(Entries), NEW e \in Entries, NEW n \in 1..(Len(cache) + 1), Distinct(cache),
         \A i \in DOMAIN cache : i # n => cache[i].key # e.key /\ cache[i].st # e.st
  PROVE  /\ ToFront(e, n) \in Seq(Entries)
         /\ Len(ToFront(e, n)) = IF n \in DOMAIN cache THEN Len(cache) ELSE n
         /\ Distinct(ToFront(e, n))
         /\ \A x : (\E j \in DOMAIN ToFront(e, n) : ToFront(e, n)[j] = x)
                   <=> x = e \/ \E i \in DOMAIN cache : i # n /\ cache[i] = x
<1> DEFINE l == IF n \in DOMAIN cache THEN Len(cache) ELSE n
           B(i) == IF i <= n THEN i - 1 ELSE i
           F(i) == IF i < n THEN i + 1 ELSE i
           new == [i \in 1..l |-> IF i = 1 THEN e ELSE cache[B(i)]]
<1>1. /\ DOMAIN cache = 1..Len(cache) /\ Len(cache) \in Nat /\ n \in Nat /\ 1 <= n
      /\ \A i \in DOMAIN cache : cache[i] \in Entries
  OBVIOUS
<1>2. l \in Nat /\ 1 \in 1..l /\ n <= l /\ Len(cache) <= l /\ (n = l \/ l = Len(cache)) /\ (n \notin DOMAIN cache => n = Len(cache) + 1)
  BY <1>1
<1>3. ToFront(e, n) = new
  BY <1>1 DEF ToFront
<1>4. \A i \in 1..l : i # 1 => B(i) \in DOMAIN cache /\ B(i) # n /\ F(B(i)) = i
  BY <1>1, <1>2
<1>5. \A i \in DOMAIN cache : i # n => F(i) \in 1..l /\ F(i) # 1 /\ B(F(i)) = i
  BY <1>1, <1>2
<1> HIDE DEF B, F, l
<1>6. \A i \in 1..l : new[i] = IF i = 1 THEN e ELSE cache[B(i)]
  OBVIOUS
<1>7. new \in Seq(Entries)
  <2>1. \A i \in 1..l : (IF i = 1 THEN e ELSE cache[B(i)]) \in Entries
    BY <1>1, <1>4
  <2> QED
    BY <2>1, <1>2
<1>8. Len(new) = l /\ DOMAIN new = 1..l
  BY <1>2
<1> HIDE DEF new
<1>9. Distinct(new)
  <2> SUFFICES ASSUME NEW i \in 1..l, NEW j \in 1..l, new[i].key = new[j].key \/ new[i].st = new[j].st
               PROVE  i = j
    BY <1>8 DEF Distinct
  <2>1. CASE i # 1 /\ j # 1
    <3>1. B(i) = B(j)
      BY <2>1, <1>4, <1>6 DEF Distinct
    <3> QED
      BY <3>1, <2>1, <1>4
  <2>2. CASE i = 1 /\ j # 1
    BY <2>2, <1>4, <1>6
  <2>3. CASE i # 1 /\ j = 1
    BY <2>3, <1>4, <1>6
  <2> QED
    BY <2>1, <2>2, <2>3
<1>10. ASSUME NEW x PROVE (\E j \in 1..l : new[j] = x) <=> x = e \/ \E i \in DOMAIN cache : i # n /\ cache[i] = x
  <2>1. ASSUME NEW j \in 1..l, new[j] = x PROVE x = e \/ \E i \in DOMAIN cache : i # n /\ cache[i] = x
    BY <2>1, <1>4, <1>6
  <2>2. ASSUME x = e PROVE \E j \in 1..l : new[j] = x
    BY <2>2, <1>2, <1>6
  <2>3. ASSUME NEW i \in DOMAIN cache, i # n, cache[i] = x PROVE \E j \in 1..l : new[j] = x
    <3>1. new[F(i)] = x
      BY <2>3, <1>5, <1>6
    <3> QED
      BY <3>1, <1>5, <2>3
  <2> QED
    BY <2>1, <2>2, <2>3
<1> QED
  BY <1>3, <1>7, <1>8, <1>9, <1>10 DEF l

\* get() on a hit: one more user of the statement that was found, and the entry comes first.
LEMMA GetHitKeeps ==
  ASSUME LruOK, NEW c \in Calls, wrapper[c] = None, NEW key, Found(key) # {}, GetHit(key, c), UNCHANGED cacheSize
  PROVE  /\ LruOK'
         /\ \E st \in Calls : wrapper' = [wrapper EXCEPT ![c] = st] /\ \E i \in DOMAIN cache : cache[i] = [key |-> key, st |-> st]
         /\ open' = open \cup {c} /\ UNCHANGED closed
         /\ \A e : (\E j \in DOMAIN cache' : cache'[j] = e) <=> \E i \in DOMAIN cache : cache[i] = e
<1> USE DEF LruOK, LruType
<1>1. PICK n \in DOMAIN cache : n = At(key) /\ cache[n].key = key
  <2>1. \E i \in DOMAIN cache : cache[i].key = key
    BY DEF Found
  <2> QED
    BY <2>1 DEF At
<1>2. PICK e \in Entries : e = cache[n]
  BY <1>1
<1>3. PICK st \in Calls : st = e.st /\ e = [key |-> key, st |-> st]
  BY <1>1, <1>2 DEF Entries
<1>4. /\ cache' = ToFront(e, n) /\ use' = [use EXCEPT ![st] = @ + 1]
      /\ wrapper' = [wrapper EXCEPT ![c] = st] /\ open' = open \cup {c} /\ UNCHANGED closed
  BY <1>1, <1>2, <1>3 DEF GetHit
<1>5. n \in 1..(Len(cache) + 1) /\ \A i \in DOMAIN cache : i # n => cache[i].key # e.key /\ cache[i].st # e.st
  BY <1>1, <1>2 DEF Distinct
<1>6. /\ ToFront(e, n) \in Seq(Entries)
      /\ Len(ToFront(e, n)) = IF n \in DOMAIN cache THEN Len(cache) ELSE n
      /\ Distinct(ToFront(e, n))
      /\ \A x : (\E j \in DOMAIN ToFront(e, n) : ToFront(e, n)[j] = x)
                <=> x = e \/ \E i \in DOMAIN cache : i # n /\ cache[i] = x
  BY <1>5, ToFrontDoes
<1>7. \A x : (\E j \in DOMAIN cache' : cache'[j] = x) <=> \E i \in DOMAIN cache : cache[i] = x
  BY <1>1, <1>2, <1>4, <1>6
<1>8. cache' \in Seq(Entries) /\ Len(cache') <= cacheSize' /\ Distinct(cache')
  BY <1>1, <1>4, <1>6
<1>9. LruType'
  BY <1>4, <1>8
<1>10. \A s : IsCached(s)' <=> IsCached(s)
  BY <1>7 DEF IsCached
<1>11. wrapper[st] = st /\ IsCached(st)
  BY <1>1, <1>2, <1>3 DEF Own, IsCached
<1>12. Own'
  <2>1. \A d \in Calls : wrapper'[d] = IF d = c THEN st ELSE wrapper[d]
    BY <1>4
  <2>2. st # c /\ st # None /\ None \notin Calls
    BY <1>11, NoneIsNoCall
  <2>3. \A d \in Calls : wrapper[d] # None => wrapper[d] \in Calls /\ wrapper[d] # c
    BY <2>2 DEF Own
  <2>4. \A d \in Calls : wrapper'[d] # None => wrapper'[wrapper'[d]] = wrapper'[d]
    BY <1>11, <2>1, <2>2, <2>3 DEF Own
  <2>5. \A d \in open' : wrapper'[d] # None
    BY <1>4, <2>1, <2>2 DEF Own
  <2>6. \A d \in Calls : wrapper[d] = d => wrapper'[d] = d
    BY <2>1, <2>2, NoneIsNoCall
  <2>7. \A d \in closed' : wrapper'[d] = d
    BY <1>4, <2>6 DEF Own
  <2>8. \A i \in DOMAIN cache' : wrapper'[cache'[i].st] = cache'[i].st
    <3> SUFFICES ASSUME NEW i \in DOMAIN cache' PROVE wrapper'[cache'[i].st] = cache'[i].st
      OBVIOUS
    <3>1. PICK j \in DOMAIN cache : cache[j] = cache'[i]
      BY <1>7
    <3>2. wrapper[cache[j].st] = cache[j].st /\ cache[j] \in Entries
      BY DEF Own
    <3>3. cache[j].st \in Calls
      BY <3>2 DEF Entries
    <3> QED
      BY <3>1, <3>2, <3>3, <2>6
  <2> QED
    BY <2>4, <2>5, <2>7, <2>8 DEF Own
<1>13. Counted'
  <2> SUFFICES ASSUME NEW s \in Calls
               PROVE  /\ use'[s] = Cardinality(Users(s)')
                      /\ s \in closed' => Users(s)' = {} /\ ~IsCached(s)'
                      /\ (\E d \in Calls : wrapper'[d] = s) => (s \in closed' \/ Users(s)' # {} \/ IsCached(s)')
    BY DEF Counted
  <2>1. c \notin open /\ s # None
    BY NoneIsNoCall DEF Own
  <2>2. Users(s)' = IF s = st THEN Users(s) \cup {c} ELSE Users(s)
    BY <1>4, <2>1 DEF Users
  <2>3. c \notin Users(s) /\ Users(s) \subseteq Calls
    BY <2>1 DEF Users
  <2>4. use'[s] = Cardinality(Users(s)')
    <3>1. IsFiniteSet(Users(s)) /\ use[s] = Cardinality(Users(s))
      BY <2>3, CallsFinite DEF Counted
    <3>2. Cardinality(Users(s) \cup {c}) = Cardinality(Users(s)) + 1
      BY <3>1, <2>3, FS_AddElement
    <3>3. use'[s] = IF s = st THEN use[s] + 1 ELSE use[s]
      BY <1>4
    <3> QED
      BY <2>2, <3>1, <3>2, <3>3
  <2>5. s \in closed' => Users(s)' = {} /\ ~IsCached(s)'
    BY <1>4, <1>10, <1>11, <2>2 DEF Counted
  <2>6. (\E d \in Calls : wrapper'[d] = s) => (s \in closed' \/ Users(s)' # {} \/ IsCached(s)')
    <3>1. (\E d \in Calls : wrapper'[d] = s) => s = st \/ \E d \in Calls : wrapper[d] = s
      BY <1>4
    <3> QED
      BY <3>1, <1>4, <1>10, <1>11, <2>2 DEF Counted
  <2> QED
    BY <2>4, <2>5, <2>6
<1> QED
  BY <1>3, <1>2, <1>4, <1>7, <1>8, <1>9, <1>12, <1>13

\* The wrapper of a call is closed: its last user closes a statement that is no longer cached.
LEMMA CloseWrapperKeeps ==
  ASSUME LruOK, sendQueue \in Seq(Commands), NEW c \in Calls, CloseWrapper(c), UNCHANGED <<wrapper, cacheSize>>
  PROVE  LruOK' /\ Closing /\ open' = open \ {c} /\ UNCHANGED cache
<1> USE DEF LruOK, LruType
<1>1. CASE c \notin open
  <2>1. UNCHANGED <<cache, use, closed, open, sendQueue, wrapper, cacheSize>> /\ open' = open \ {c}
    BY <1>1 DEF CloseWrapper, lru
  <2>2. LruOK'
    <3>1. \A s : Users(s)' = Users(s) /\ (IsCached(s)' <=> IsCached(s))
      BY <2>1 DEF Users, IsCached
    <3>2. LruType' /\ Len(cache') <= cacheSize' /\ Distinct(cache')
      BY <2>1
    <3>3. Own'
      BY <2>1 DEF Own
    <3>4. Counted'
      BY <2>1, <3>1 DEF Counted
    <3> QED
      BY <3>2, <3>3, <3>4
  <2> QED
    BY <2>1, <2>2, CloseNothing
<1>2. CASE c \in open
  <2>1. PICK st \in Calls : st = wrapper[c]
    BY <1>2 DEF Own
  <2>2. /\ open' = open \ {c} /\ use' = [use EXCEPT ![st] = @ - 1] /\ UNCHANGED cache
        /\ IF use[st] = 1 /\ ~IsCached(st) THEN Close(<<st>>) ELSE UNCHANGED <<closed, sendQueue>>
    BY <1>2, <2>1 DEF CloseWrapper
  <2>3. closed' = (IF use[st] = 1 /\ ~IsCached(st) THEN closed \cup {st} ELSE closed) /\ Closing
    <3>1. CASE use[st] = 1 /\ ~IsCached(st)
      <4>1. PICK s : s = <<st>>
        OBVIOUS
      <4>2. s \in Seq(Calls) /\ {s[i] : i \in DOMAIN s} = {st}
        BY <4>1
      <4>3. closed' = closed \cup {s[i] : i \in DOMAIN s} /\ Closing
        BY <2>2, <3>1, <4>1, <4>2, CloseDoes
      <4> QED
        BY <3>1, <4>2, <4>3
    <3>2. CASE ~(use[st] = 1 /\ ~IsCached(st))
      <4>1. UNCHANGED <<closed, sendQueue>>
        BY <2>2, <3>2
      <4> QED
        BY <3>2, <4>1, CloseNothing
    <3> QED
      BY <3>1, <3>2
  <2>4. \A s : IsCached(s)' <=> IsCached(s)
    BY <2>2 DEF IsCached
  <2>5. \A s \in Calls : Users(s)' = IF s = st THEN Users(s) \ {c} ELSE Users(s)
    BY <2>1, <2>2 DEF Users
  <2>6. c \in Users(st)
    BY <1>2, <2>1 DEF Users
  <2>7. \A s \in Calls : IsFiniteSet(Users(s)) /\ use[s] = Cardinality(Users(s)) /\ Cardinality(Users(s)) \in Nat
    <3>1. \A s \in Calls : Users(s) \subseteq Calls
      BY DEF Users
    <3> QED
      BY <3>1, CallsFinite DEF Counted
  <2>8. Cardinality(Users(st) \ {c}) = Cardinality(Users(st)) - 1 /\ IsFiniteSet(Users(st) \ {c})
    BY <2>6, <2>7, FS_RemoveElement
  <2>9. Cardinality(Users(st) \ {c}) \in Nat
    BY <2>8, FS_CardinalityType
  <2>10. use[st] \in Nat /\ use[st] # 0 /\ (use[st] = 1 <=> Users(st) \ {c} = {})
    <3>1. Cardinality(Users(st) \ {c}) = 0 <=> Users(st) \ {c} = {}
      BY <2>8, FS_EmptySet
    <3> QED
      BY <3>1, <2>7, <2>8, <2>9
  <2>11. \A s \in Calls : use'[s] = IF s = st THEN use[s] - 1 ELSE use[s]
    BY <2>2
  <2>12. LruType'
    <3>1. use[st] - 1 \in Nat
      BY <2>10
    <3>2. use' \in [Calls -> Nat]
      BY <3>1, <2>2
    <3> QED
      BY <3>2, <2>2, <2>3
  <2>13. Own'
    <3>1. wrapper[st] = st
      BY <1>2, <2>1 DEF Own
    <3>2. wrapper' = wrapper /\ cache' = cache /\ closed' \subseteq closed \cup {st} /\ open' \subseteq open
      BY <2>2, <2>3
    <3> QED
      BY <3>1, <3>2 DEF Own
  <2>14. Counted'
    <3> SUFFICES ASSUME NEW s \in Calls
                 PROVE  /\ use'[s] = Cardinality(Users(s)')
                        /\ s \in closed' => Users(s)' = {} /\ ~IsCached(s)'
                        /\ (\E d \in Calls : wrapper'[d] = s) => (s \in closed' \/ Users(s)' # {} \/ IsCached(s)')
      BY DEF Counted
    <3>1. use'[s] = Cardinality(Users(s)')
      BY <2>5, <2>7, <2>8, <2>11
    <3>2. s \in closed' => Users(s)' = {} /\ ~IsCached(s)'
      BY <2>3, <2>4, <2>5, <2>10 DEF Counted
    <3>3. (\E d \in Calls : wrapper'[d] = s) => (s \in closed' \/ Users(s)' # {} \/ IsCached(s)')
      <4>1. (\E d \in Calls : wrapper[d] = s) => (s \in closed \/ Users(s) # {} \/ IsCached(s))
        BY DEF Counted
      <4>2. CASE s # st
        BY <4>1, <4>2, <2>3, <2>4, <2>5
      <4>3. CASE s = st
        BY <4>3, <2>3, <2>4, <2>5, <2>10
      <4> QED
        BY <4>2, <4>3
    <3> QED
      BY <3>1, <3>2, <3>3
  <2> QED
    BY <2>2, <2>3, <2>12, <2>13, <2>14
<1> QED
  BY <1>1, <1>2

\* The answer of a PREPARE: its statement has one user and comes first in the LRU, which closes the
\* statement that leaves it unless it is in use.
LEMMA CacheSetKeeps ==
  ASSUME LruOK, sendQueue \in Seq(Commands), NEW c \in Calls, wrapper[c] = None, NEW key \in Texts,
         CacheSet(key, c), use' = [use EXCEPT ![c] = 1], wrapper' = [wrapper EXCEPT ![c] = c],
         open' = open \cup {c}, UNCHANGED cacheSize
  PROVE  /\ LruOK' /\ Closing
         /\ \A e : (\E j \in DOMAIN cache' : cache'[j] = e) =>
              e = [key |-> key, st |-> c] \/ \E i \in DOMAIN cache : cache[i] = e
<1> USE DEF LruOK, LruType
<1> DEFINE e == [key |-> key, st |-> c]
<1>1. c # None /\ c \notin open /\ c \notin closed /\ \A d \in Calls : wrapper[d] # c
  BY NoneIsNoCall DEF Own
<1>2. \A i \in DOMAIN cache : cache[i] \in Entries /\ cache[i].st \in Calls /\ cache[i].st # c /\ i \in 1..Len(cache)
  <2>1. \A i \in DOMAIN cache : cache[i] \in Entries /\ i \in 1..Len(cache)
    OBVIOUS
  <2>2. \A i \in DOMAIN cache : cache[i].st \in Calls
    BY <2>1 DEF Entries
  <2> QED
    BY <1>1, <2>1, <2>2 DEF Own
\* What left the LRU, and who is in it now.
<1>3. \E gone \in SUBSET Calls :
        /\ cache' \in Seq(Entries) /\ Len(cache') <= cacheSize' /\ Distinct(cache')
        /\ \A x : (\E j \in DOMAIN cache' : cache'[j] = x) => x = e \/ \E i \in DOMAIN cache : cache[i] = x
        /\ \A s \in Calls : s # c => (IsCached(s)' <=> IsCached(s) /\ s \notin gone)
        /\ \A s \in gone : IsCached(s)
        /\ closed' = closed \cup {s \in gone : use[s] = 0}
        /\ Closing
  <2>1. CASE cacheSize = 0
    <3>1. UNCHANGED <<cache, closed, sendQueue>>
      BY <2>1 DEF CacheSet
    <3>2. Closing
      BY <3>1, CloseNothing
    <3>3. \A s : IsCached(s)' <=> IsCached(s)
      BY <3>1 DEF IsCached
    <3>4. \A x : (\E j \in DOMAIN cache' : cache'[j] = x) => \E i \in DOMAIN cache : cache[i] = x
      BY <3>1
    <3>5. cache' \in Seq(Entries) /\ Len(cache') <= cacheSize' /\ Distinct(cache') /\ closed' = closed \cup {s \in {} : use[s] = 0}
      BY <3>1
    <3> WITNESS {} \in SUBSET Calls
    <3> QED
      BY <3>2, <3>3, <3>4, <3>5
  <2>2. CASE cacheSize # 0
    <3>1. PICK n : n = Leaving(key)
      OBVIOUS
    <3>2. cache' = ToFront(e, n) /\ UnCache(IF n \in DOMAIN cache THEN <<cache[n]>> ELSE <<>>)
      BY <2>2, <3>1 DEF CacheSet
    <3>3. /\ n \in 1..(Len(cache) + 1)
          /\ \A i \in DOMAIN cache : i # n => cache[i].key # key
          /\ n \notin DOMAIN cache => n = Len(cache) + 1 /\ n <= cacheSize
      <4>0. DOMAIN cache = 1..Len(cache) /\ Len(cache) \in Nat
        OBVIOUS
      <4>1. CASE Found(key) # {}
        <5>1. n \in DOMAIN cache /\ cache[n].key = key
          <6>1. \E i \in DOMAIN cache : cache[i].key = key
            BY <4>1 DEF Found
          <6>2. n = At(key)
            BY <3>1, <4>1 DEF Leaving
          <6> QED
            BY <6>1, <6>2 DEF At
        <5> QED
          BY <4>0, <5>1 DEF Distinct
      <4>2. CASE Found(key) = {}
        <5>1. \A i \in DOMAIN cache : cache[i].key # key
          BY <4>2 DEF Found
        <5>2. n = IF Len(cache) = cacheSize THEN cacheSize ELSE Len(cache) + 1
          BY <3>1, <4>2 DEF Leaving
        <5>3. Len(cache) \in Nat /\ cacheSize \in Nat /\ Len(cache) <= cacheSize /\ cacheSize # 0
          BY <2>2
        <5>4. n \in 1..(Len(cache) + 1) /\ (n # Len(cache) => n = Len(cache) + 1 /\ n <= cacheSize) /\ (n = Len(cache) => n \in 1..Len(cache))
          BY <5>2, <5>3
        <5> QED
          BY <4>0, <5>1, <5>4
      <4> QED
        BY <4>1, <4>2
    <3>4. PICK new : new = ToFront(e, n)
      OBVIOUS
    <3>5. /\ new \in Seq(Entries)
          /\ Len(new) = IF n \in DOMAIN cache THEN Len(cache) ELSE n
          /\ Distinct(new)
          /\ \A x : (\E j \in DOMAIN new : new[j] = x) <=> x = e \/ \E i \in DOMAIN cache : i # n /\ cache[i] = x
      <4>1. e \in Entries /\ e.key = key /\ e.st = c
        BY DEF Entries
      <4> HIDE DEF e
      <4>2. \A i \in DOMAIN cache : i # n => cache[i].key # e.key /\ cache[i].st # e.st
        BY <1>2, <3>3, <4>1
      <4> QED
        <5>1. /\ ToFront(e, n) \in Seq(Entries)
              /\ Len(ToFront(e, n)) = IF n \in DOMAIN cache THEN Len(cache) ELSE n
              /\ Distinct(ToFront(e, n))
              /\ \A x : (\E j \in DOMAIN ToFront(e, n) : ToFront(e, n)[j] = x)
                        <=> x = e \/ \E i \in DOMAIN cache : i # n /\ cache[i] = x
          <6>1. PICK f \in Entries : f = e
            BY <4>1
          <6>2. \A i \in DOMAIN cache : i # n => cache[i].key # f.key /\ cache[i].st # f.st
            BY <4>2, <6>1
          <6>3. cache \in Seq(Entries) /\ Distinct(cache)
            OBVIOUS
          <6>4. /\ ToFront(f, n) \in Seq(Entries)
                /\ Len(ToFront(f, n)) = IF n \in DOMAIN cache THEN Len(cache) ELSE n
                /\ Distinct(ToFront(f, n))
                /\ \A x : (\E j \in DOMAIN ToFront(f, n) : ToFront(f, n)[j] = x)
                          <=> x = f \/ \E i \in DOMAIN cache : i # n /\ cache[i] = x
            <7>1. n \in 1..(Len(cache) + 1)
              BY <3>3
            <7> HIDE DEF LruOK, LruType
            <7> QED
              BY <6>2, <6>3, <7>1, ToFrontDoes
          <6> QED
            BY <6>1, <6>4
        <5> QED
          BY <5>1, <3>4
    <3>6. PICK s : s = IF n \in DOMAIN cache THEN <<cache[n]>> ELSE <<>>
      OBVIOUS
    <3>7. s \in Seq(Entries) /\ \A st : (\E i \in DOMAIN s : s[i].st = st) <=> n \in DOMAIN cache /\ cache[n].st = st
      BY <3>6
    <3>8. UnCache(s)
      BY <3>2, <3>6
    <3>9. /\ \A st : st \in closed' <=> st \in closed \/ (use[st] = 0 /\ \E i \in DOMAIN s : s[i].st = st)
          /\ Closing
      BY <3>7, <3>8, UnCacheDoes
    <3> DEFINE gone == {st \in Calls : n \in DOMAIN cache /\ cache[n].st = st}
    <3>10. closed' = closed \cup {st \in gone : use[st] = 0}
      BY <1>2, <3>7, <3>9
    <3>11. \A st \in gone : IsCached(st)
      BY DEF IsCached
    <3>12. \A st \in Calls : st # c => (IsCached(st)' <=> IsCached(st) /\ st \notin gone)
      <4> SUFFICES ASSUME NEW st \in Calls, st # c PROVE IsCached(st)' <=> IsCached(st) /\ st \notin gone
        OBVIOUS
      <4>1. IsCached(st)' <=> \E j \in DOMAIN new : new[j].st = st
        BY <3>2, <3>4 DEF IsCached
      <4>2. (\E j \in DOMAIN new : new[j].st = st) <=> \E i \in DOMAIN cache : i # n /\ cache[i].st = st
        <5>1. \A x : x.st = st => x # e
          OBVIOUS
        <5> HIDE DEF e
        <5> QED
          BY <3>5, <5>1
      <4>3. (\E i \in DOMAIN cache : i # n /\ cache[i].st = st) <=> IsCached(st) /\ st \notin gone
        BY <1>2 DEF IsCached, Distinct
      <4> QED
        BY <4>1, <4>2, <4>3
    <3>13. cache' \in Seq(Entries) /\ Len(cache') <= cacheSize' /\ Distinct(cache')
      BY <3>2, <3>3, <3>4, <3>5
    <3>14. \A x : (\E j \in DOMAIN cache' : cache'[j] = x) => x = e \/ \E i \in DOMAIN cache : cache[i] = x
      BY <3>2, <3>4, <3>5
    <3>15. gone \in SUBSET Calls
      OBVIOUS
    <3> HIDE DEF gone, e
    <3> QED
      BY <3>9, <3>10, <3>11, <3>12, <3>13, <3>14, <3>15
  <2> QED
    BY <2>1, <2>2
<1>4. PICK gone \in SUBSET Calls :
        /\ cache' \in Seq(Entries) /\ Len(cache') <= cacheSize' /\ Distinct(cache')
        /\ \A x : (\E j \in DOMAIN cache' : cache'[j] = x) => x = e \/ \E i \in DOMAIN cache : cache[i] = x
        /\ \A s \in Calls : s # c => (IsCached(s)' <=> IsCached(s) /\ s \notin gone)
        /\ \A s \in gone : IsCached(s)
        /\ closed' = closed \cup {s \in gone : use[s] = 0}
        /\ Closing
  BY <1>3
<1>5. \A d \in Calls : wrapper'[d] = (IF d = c THEN c ELSE wrapper[d]) /\ use'[d] = IF d = c THEN 1 ELSE use[d]
  OBVIOUS
<1>6. LruType'
  BY <1>4
<1>7. Own'
  <2>1. \A d \in Calls : wrapper[d] # None => wrapper[d] \in Calls /\ wrapper[d] # c
    BY <1>1 DEF Own
  <2>2. \A d \in Calls : wrapper'[d] # None => wrapper'[wrapper'[d]] = wrapper'[d]
    BY <1>1, <1>5, <2>1 DEF Own
  <2>3. \A d \in open' : wrapper'[d] # None
    BY <1>1, <1>5 DEF Own
  <2>4. \A d \in Calls : wrapper[d] = d => wrapper'[d] = d
    BY <1>5
  <2>5. \A s \in gone : wrapper[s] = s
    BY <1>4 DEF Own, IsCached
  <2>6. \A d \in closed' : wrapper'[d] = d
    BY <1>4, <2>4, <2>5 DEF Own
  <2>7. \A i \in DOMAIN cache' : wrapper'[cache'[i].st] = cache'[i].st
    <3> SUFFICES ASSUME NEW i \in DOMAIN cache' PROVE wrapper'[cache'[i].st] = cache'[i].st
      OBVIOUS
    <3>1. cache'[i] = e \/ \E j \in DOMAIN cache : cache[j] = cache'[i]
      BY <1>4
    <3>2. CASE cache'[i] = e
      BY <1>5, <3>2
    <3>3. ASSUME NEW j \in DOMAIN cache, cache[j] = cache'[i] PROVE wrapper'[cache'[i].st] = cache'[i].st
      <4>1. wrapper[cache[j].st] = cache[j].st /\ cache[j].st \in Calls
        BY <1>2 DEF Own
      <4> QED
        BY <3>3, <4>1, <2>4
    <3> QED
      BY <3>1, <3>2, <3>3
  <2> QED
    BY <2>2, <2>3, <2>6, <2>7 DEF Own
<1>8. Counted'
  <2> SUFFICES ASSUME NEW s \in Calls
               PROVE  /\ use'[s] = Cardinality(Users(s)')
                      /\ s \in closed' => Users(s)' = {} /\ ~IsCached(s)'
                      /\ (\E d \in Calls : wrapper'[d] = s) => (s \in closed' \/ Users(s)' # {} \/ IsCached(s)')
    BY DEF Counted
  <2>1. CASE s = c
    <3>1. Users(s)' = {c}
      BY <1>1, <1>5, <2>1 DEF Users
    <3>2. c \notin closed'
      BY <1>1, <1>2, <1>4 DEF IsCached
    <3>3. Cardinality({c}) = 1
      BY FS_Singleton
    <3> QED
      BY <2>1, <3>1, <3>2, <3>3, <1>5
  <2>2. CASE s # c
    <3>1. Users(s)' = Users(s)
      BY <1>1, <1>5, <2>2 DEF Users
    <3>2. use[s] = Cardinality(Users(s)) /\ use'[s] = use[s]
      BY <1>5, <2>2 DEF Counted
    <3>3. use[s] = 0 <=> Users(s) = {}
      <4>1. IsFiniteSet(Users(s))
        <5>1. Users(s) \subseteq Calls
          BY DEF Users
        <5> QED
          BY <5>1, CallsFinite
      <4> QED
        BY <3>2, <4>1, FS_EmptySet
    <3>4. IsCached(s)' <=> IsCached(s) /\ s \notin gone
      BY <1>4, <2>2
    <3>5. s \in closed' <=> s \in closed \/ (s \in gone /\ use[s] = 0)
      BY <1>4
    <3>6. s \in closed => Users(s) = {} /\ ~IsCached(s)
      BY DEF Counted
    <3>7. (\E d \in Calls : wrapper[d] = s) => (s \in closed \/ Users(s) # {} \/ IsCached(s))
      BY DEF Counted
    <3>8. (\E d \in Calls : wrapper'[d] = s) => \E d \in Calls : wrapper[d] = s
      BY <1>5, <2>2
    <3> QED
      BY <3>1, <3>2, <3>3, <3>4, <3>5, <3>6, <3>7, <3>8
  <2> QED
    BY <2>1, <2>2
<1> QED
  BY <1>4, <1>6, <1>7, <1>8

\* reset() has been answered: the LRU is emptied, and the statements nobody uses are closed.
LEMMA ClearKeeps ==
  ASSUME LruOK, sendQueue \in Seq(Commands), cache' = <<>>, UnCache(cache),
         UNCHANGED <<use, wrapper, open, cacheSize>>
  PROVE  LruOK' /\ Closing
<1> USE DEF LruOK, LruType
<1>1. /\ \A st : st \in closed' <=> st \in closed \/ (use[st] = 0 /\ \E i \in DOMAIN cache : cache[i].st = st)
      /\ Closing
  BY UnCacheDoes
<1>2. \A i \in DOMAIN cache : cache[i].st \in Calls
  <2>1. \A i \in DOMAIN cache : cache[i] \in Entries
    OBVIOUS
  <2> QED
    BY <2>1 DEF Entries
<1>3. \A s : ~IsCached(s)' /\ Users(s)' = Users(s)
  BY DEF IsCached, Users
<1>4. LruType' /\ Len(cache') <= cacheSize' /\ Distinct(cache')
  <2>1. closed' \subseteq Calls
    BY <1>1, <1>2
  <2> QED
    BY <2>1 DEF Distinct
<1>5. Own'
  <2>1. \A st \in closed' : wrapper[st] = st
    BY <1>1 DEF Own
  <2> QED
    BY <2>1 DEF Own
<1>6. Counted'
  <2> SUFFICES ASSUME NEW s \in Calls
               PROVE  /\ use'[s] = Cardinality(Users(s)')
                      /\ s \in closed' => Users(s)' = {} /\ ~IsCached(s)'
                      /\ (\E d \in Calls : wrapper'[d] = s) => (s \in closed' \/ Users(s)' # {} \/ IsCached(s)')
    BY DEF Counted
  <2>1. use[s] = Cardinality(Users(s))
    BY DEF Counted
  <2>2. use[s] = 0 <=> Users(s) = {}
    <3>1. IsFiniteSet(Users(s))
      <4>1. Users(s) \subseteq Calls
        BY DEF Users
      <4> QED
        BY <4>1, CallsFinite
    <3> QED
      BY <2>1, <3>1, FS_EmptySet
  <2>3. s \in closed' <=> s \in closed \/ (use[s] = 0 /\ IsCached(s))
    BY <1>1 DEF IsCached
  <2>4. s \in closed => Users(s) = {}
    BY DEF Counted
  <2>5. (\E d \in Calls : wrapper[d] = s) => (s \in closed \/ Users(s) # {} \/ IsCached(s))
    BY DEF Counted
  <2> QED
    BY <1>3, <2>1, <2>2, <2>3, <2>4, <2>5
<1> QED
  BY <1>1, <1>4, <1>5, <1>6

-----------------------------------------------------------------------------
(***************************************************************************)
(* What the actions do to the queues.                                      *)
(***************************************************************************)

\* Commands of call c, one of each of the kinds ops, go to the end of the sendQueue.
Adds(ops, c) ==
  \E t \in Seq(Commands) :
    /\ sendQueue' = sendQueue \o t
    /\ \A o, x : Has(t, o, x) <=> o \in ops /\ x = c
    /\ \A o : Once(t, o)

\* A command of call c.
LEMMA CallCommand == \A op \in {"prepare", "execute", "close"}, c \in Calls :
  Command(op, c) \in Commands /\ Command(op, c).op = op /\ Command(op, c).about = c
BY DEF Command, Commands

\* A USE.
LEMMA UseCommand == \A db \in Databases :
  Command("use", db) \in Commands /\ Command("use", db).op = "use" /\ Command("use", db).about = db
BY DEF Command, Commands

\* A COM_RESET_CONNECTION.
LEMMA ResetCommand ==
  Command("reset", None) \in Commands /\ Command("reset", None).op = "reset" /\ Command("reset", None).about = None
BY DEF Command, Commands

\* A callback of call c.
LEMMA CallTick == \A cb \in {"prepared", "executed", "refused"}, c \in Calls :
  Tick(cb, c) \in Ticks /\ Tick(cb, c).op = cb /\ Tick(cb, c).about = c
BY DEF Tick, Ticks

\* What a queue of one has.
LEMMA HasOne == \A m : Len(<<m>>) = 1 /\ (\A o, x : Has(<<m>>, o, x) <=> o = m.op /\ x = m.about) /\ \A o : Once(<<m>>, o)
BY DEF Has, Once

\* A queue and more of its kind.
LEMMA Grown ==
  ASSUME NEW S, NEW s \in Seq(S), NEW t \in Seq(S), NEW u, u = s \o t
  PROVE  /\ u \in Seq(S)
         /\ \A o, x : Has(u, o, x) <=> Has(s, o, x) \/ Has(t, o, x)
         /\ \A o : Once(s, o) /\ Once(t, o) /\ (\A x : ~(Has(s, o, x) /\ Has(t, o, x))) => Once(u, o)
<1>1. s \o t \in Seq(S)
  OBVIOUS
<1>2. \A o, x : Has(s \o t, o, x) <=> Has(s, o, x) \/ Has(t, o, x)
  BY HasConcat
<1>3. \A o : Once(s, o) /\ Once(t, o) /\ (\A x : ~(Has(s, o, x) /\ Has(t, o, x))) => Once(s \o t, o)
  BY OnceConcat
<1> QED
  BY <1>1, <1>2, <1>3

\* Nothing is added.
LEMMA AddsNone == ASSUME sendQueue \in Seq(Commands), UNCHANGED sendQueue, NEW c PROVE Adds({}, c)
<1>1. <<>> \in Seq(Commands) /\ sendQueue' = sendQueue \o <<>>
  OBVIOUS
<1> QED
  BY <1>1, HasEmpty, OnceEmpty DEF Adds

\* One command is added.
LEMMA AddsOne ==
  ASSUME sendQueue \in Seq(Commands), NEW m \in Commands, sendQueue' = Append(sendQueue, m)
  PROVE  Adds({m.op}, m.about)
<1>1. PICK t : t = <<m>>
  OBVIOUS
<1>2. t \in Seq(Commands) /\ sendQueue' = sendQueue \o t
  BY <1>1
<1>3. (\A o, x : Has(t, o, x) <=> o \in {m.op} /\ x = m.about) /\ \A o : Once(t, o)
  BY <1>1, HasOne
<1> QED
  BY <1>2, <1>3 DEF Adds

\* The PREPARE and the EXECUTE of a call are added together.
LEMMA AddsTwo ==
  ASSUME sendQueue \in Seq(Commands), NEW c \in Calls,
         sendQueue' = sendQueue \o <<Command("prepare", c), Command("execute", c)>>
  PROVE  Adds({"prepare", "execute"}, c)
<1>1. PICK a \in Commands : a = Command("prepare", c) /\ a.op = "prepare" /\ a.about = c
  BY CallCommand
<1>2. PICK b \in Commands : b = Command("execute", c) /\ b.op = "execute" /\ b.about = c
  BY CallCommand
<1>3. PICK t : t = <<a, b>>
  OBVIOUS
<1>4. t \in Seq(Commands) /\ sendQueue' = sendQueue \o t /\ DOMAIN t = {1, 2} /\ t[1] = a /\ t[2] = b
  BY <1>1, <1>2, <1>3
<1>5. \A o, x : Has(t, o, x) <=> o \in {"prepare", "execute"} /\ x = c
  BY <1>1, <1>2, <1>4 DEF Has
<1>6. \A o : Once(t, o)
  BY <1>1, <1>2, <1>4 DEF Once
<1> QED
  BY <1>4, <1>5, <1>6 DEF Adds

\* A call that is made has not been made before, and is the next one.
LEMMA Fresh ==
  ASSUME TypeInv, Numbered, NEW c \in Calls, c = Made + 1, NEW kind, kind # "none", how' = [how EXCEPT ![c] = kind]
  PROVE  how[c] = "none" /\ Numbered'
<1> USE PrepareCacheAssumption
<1>1. PICK n \in Nat : \A d \in Calls : how[d] # "none" <=> d <= n
  BY DEF Numbered
<1>2. PICK m \in Nat : m = IF n <= MaxCalls THEN n ELSE MaxCalls
  OBVIOUS
<1>3. {d \in Calls : how[d] # "none"} = 1..m
  BY <1>1, <1>2 DEF Calls
<1>4. Cardinality(1..m) = m
  BY FS_Interval
<1>5. c = m + 1 /\ m = n
  <2>1. Made = m
    BY <1>3, <1>4 DEF Made
  <2>2. c = m + 1 /\ c \in 1..MaxCalls
    BY <2>1 DEF Calls
  <2> QED
    BY <1>2, <2>2
<1>6. how[c] = "none"
  BY <1>1, <1>5
<1>7. n + 1 \in Nat /\ \A d \in Calls : how'[d] # "none" <=> d <= n + 1
  BY <1>1, <1>5 DEF TypeInv, TypeOK, Calls
<1> QED
  BY <1>6, <1>7 DEF Numbered

Asks(c, sql, kind) == IF kind = "prepare" THEN Prepare(c, sql) ELSE Execute(c, sql, kind)

\* prepare() and execute().
LEMMA AskDoes ==
  ASSUME TypeInv, Numbered, NEW c \in Calls, NEW sql \in Sqls, NEW kind \in {"prepare", "execute", "late"}, Asks(c, sql, kind)
  PROVE  /\ how[c] = "none" /\ Numbered' /\ MayAsk
         /\ how' = [how EXCEPT ![c] = kind] /\ wants' = [wants EXCEPT ![c] = <<session, sql>>]
         /\ UNCHANGED <<database, cacheSize, blocked, nested, inFlight, ticks, draining, crashed, client, server>>
         /\ IF Early(sql)
            THEN /\ GetHit(Key(sql), c)
                 /\ bound' = (IF kind = "prepare" THEN bound ELSE bound \cup {c})
                 /\ settled' = (IF kind = "prepare" THEN settled \cup {c} ELSE settled)
                 /\ Adds(IF kind = "prepare" THEN {} ELSE {"execute"}, c)
            ELSE /\ UNCHANGED <<lru, wrapper, open, bound, settled>>
                 /\ Adds(IF kind = "execute" THEN {"prepare", "execute"} ELSE {"prepare"}, c)
<1>1. /\ MayAsk /\ NewCall(c, kind, sql) /\ kind # "none"
      /\ IF Early(sql)
         THEN /\ GetHit(Key(sql), c)
              /\ bound' = (IF kind = "prepare" THEN bound ELSE bound \cup {c})
              /\ settled' = (IF kind = "prepare" THEN settled \cup {c} ELSE settled)
              /\ IF kind = "prepare" THEN UNCHANGED sendQueue ELSE sendQueue' = Append(sendQueue, Command("execute", c))
         ELSE /\ UNCHANGED <<lru, wrapper, open, bound, settled>>
              /\ sendQueue' = IF kind = "execute" THEN sendQueue \o <<Command("prepare", c), Command("execute", c)>>
                              ELSE Append(sendQueue, Command("prepare", c))
  <2>1. CASE kind = "prepare"
    BY <2>1 DEF Asks, Prepare
  <2>2. CASE kind # "prepare"
    <3>1. /\ MayAsk /\ NewCall(c, kind, sql)
          /\ IF Early(sql)
             THEN /\ GetHit(Key(sql), c) /\ bound' = bound \cup {c}
                  /\ sendQueue' = Append(sendQueue, Command("execute", c))
             ELSE /\ UNCHANGED <<lru, wrapper, open, bound>>
                  /\ sendQueue' = sendQueue \o (IF kind = "late" THEN <<Command("prepare", c)>>
                                               ELSE <<Command("prepare", c), Command("execute", c)>>)
          /\ UNCHANGED settled
      BY <2>2 DEF Asks, Execute
    <3>2. kind = "late" \/ kind = "execute"
      BY <2>2
    <3>3. Append(sendQueue, Command("prepare", c)) = sendQueue \o <<Command("prepare", c)>>
      BY CallCommand DEF TypeInv, QueueType
    <3> QED
      BY <3>1, <3>2, <3>3
  <2> QED
    BY <2>1, <2>2
<1>2. /\ c = Made + 1 /\ how' = [how EXCEPT ![c] = kind] /\ wants' = [wants EXCEPT ![c] = <<session, sql>>]
      /\ UNCHANGED <<database, cacheSize, blocked, nested, inFlight, ticks, draining, crashed, client, server>>
  BY <1>1 DEF NewCall
<1>3. how[c] = "none" /\ Numbered'
  BY <1>1, <1>2, Fresh
<1>4. sendQueue \in Seq(Commands)
  BY DEF TypeInv, QueueType
<1>5. ASSUME NEW op \in {"prepare", "execute"}, sendQueue' = Append(sendQueue, Command(op, c)) PROVE Adds({op}, c)
  <2>1. PICK m \in Commands : m = Command(op, c) /\ m.op = op /\ m.about = c
    BY CallCommand
  <2>2. Adds({m.op}, m.about)
    BY <1>4, <1>5, <2>1, AddsOne
  <2> QED
    BY <2>1, <2>2
<1>6. CASE Early(sql)
  <2>1. CASE kind = "prepare"
    <3>1. Adds({}, c)
      BY <1>1, <1>4, <1>6, <2>1, AddsNone
    <3> QED
      BY <1>1, <1>2, <1>3, <1>6, <2>1, <3>1
  <2>2. CASE kind # "prepare"
    <3>1. Adds({"execute"}, c)
      BY <1>1, <1>5, <1>6, <2>2
    <3> QED
      BY <1>1, <1>2, <1>3, <1>6, <2>2, <3>1
  <2> QED
    BY <2>1, <2>2
<1>7. CASE ~Early(sql)
  <2>1. CASE kind = "execute"
    <3>1. Adds({"prepare", "execute"}, c)
      BY <1>1, <1>4, <1>7, <2>1, AddsTwo
    <3> QED
      BY <1>1, <1>2, <1>3, <1>7, <2>1, <3>1
  <2>2. CASE kind # "execute"
    <3>1. Adds({"prepare"}, c)
      BY <1>1, <1>5, <1>7, <2>2
    <3> QED
      BY <1>1, <1>2, <1>3, <1>7, <2>2, <3>1
  <2> QED
    BY <2>1, <2>2
<1> QED
  BY <1>6, <1>7

\* A callback is due, now or when the sendQueue is empty.
Comes(o, c) == Has(ticks, o, c) \/ Has(nested, o, c)
OnceComes(o) == Once(ticks, o) /\ Once(nested, o) /\ \A c : ~(Has(ticks, o, c) /\ Has(nested, o, c))

\* The callbacks of a command that is sent come after those that were due.
LEMMA AfterSendingDoes ==
  ASSUME QueueType, NEW more \in Seq(Ticks), NEW hits \in Seq(Ticks), AfterSending(more, hits)
  PROVE  /\ ticks' \in Seq(Ticks) /\ nested' \in Seq(Ticks)
         /\ nested' = hits \/ nested' = <<>>
         /\ Len(sendQueue) = 1 => nested' = <<>>
         /\ \A o, x : Comes(o, x)' <=> Has(ticks, o, x) \/ Has(more, o, x) \/ Has(hits, o, x)
         /\ \A o : /\ Once(ticks, o) /\ Once(more, o) /\ Once(hits, o)
                   /\ \A x : /\ ~(Has(ticks, o, x) /\ Has(more, o, x)) /\ ~(Has(ticks, o, x) /\ Has(hits, o, x))
                             /\ ~(Has(more, o, x) /\ Has(hits, o, x))
                   => OnceComes(o)'
<1> USE DEF QueueType
<1>1. PICK u : u = ticks \o more
  OBVIOUS
<1>2. /\ u \in Seq(Ticks)
      /\ \A o, x : Has(u, o, x) <=> Has(ticks, o, x) \/ Has(more, o, x)
      /\ \A o : Once(ticks, o) /\ Once(more, o) /\ (\A x : ~(Has(ticks, o, x) /\ Has(more, o, x))) => Once(u, o)
  BY <1>1, Grown
<1>3. CASE Len(sendQueue) = 1
  <2>1. ticks' = u \o Reversed(hits) /\ nested' = <<>>
    BY <1>1, <1>3 DEF AfterSending
  <2>2. /\ Reversed(hits) \in Seq(Ticks)
        /\ \A o, x : Has(Reversed(hits), o, x) <=> Has(hits, o, x)
        /\ \A o : Once(hits, o) => Once(Reversed(hits), o)
    BY HasReversed
  <2>3. PICK r \in Seq(Ticks) : r = Reversed(hits)
    BY <2>2
  <2>4. /\ ticks' \in Seq(Ticks)
        /\ \A o, x : Has(ticks', o, x) <=> Has(u, o, x) \/ Has(r, o, x)
        /\ \A o : Once(u, o) /\ Once(r, o) /\ (\A x : ~(Has(u, o, x) /\ Has(r, o, x))) => Once(ticks', o)
    BY <1>2, <2>1, <2>3, Grown
  <2>5. <<>> \in Seq(Ticks) /\ (\A o, x : ~Has(nested', o, x)) /\ \A o : Once(nested', o)
    BY <2>1, HasEmpty, OnceEmpty
  <2>6. \A o, x : Comes(o, x)' <=> Has(ticks, o, x) \/ Has(more, o, x) \/ Has(hits, o, x)
    BY <1>2, <2>2, <2>3, <2>4, <2>5 DEF Comes
  <2>7. ASSUME NEW o, Once(ticks, o), Once(more, o), Once(hits, o),
               \A x : /\ ~(Has(ticks, o, x) /\ Has(more, o, x)) /\ ~(Has(ticks, o, x) /\ Has(hits, o, x))
                      /\ ~(Has(more, o, x) /\ Has(hits, o, x))
        PROVE  OnceComes(o)'
    <3>1. Once(u, o)
      BY <1>2, <2>7
    <3>2. Once(r, o) /\ \A x : ~(Has(u, o, x) /\ Has(r, o, x))
      BY <1>2, <2>2, <2>3, <2>7
    <3> QED
      BY <2>4, <2>5, <3>1, <3>2 DEF OnceComes
  <2> QED
    BY <2>1, <2>4, <2>5, <2>6, <2>7
<1>4. CASE Len(sendQueue) # 1
  <2>1. ticks' = u /\ nested' = hits
    BY <1>1, <1>4 DEF AfterSending
  <2>2. \A o, x : Comes(o, x)' <=> Has(ticks, o, x) \/ Has(more, o, x) \/ Has(hits, o, x)
    BY <1>2, <2>1 DEF Comes
  <2>3. ASSUME NEW o, Once(ticks, o), Once(more, o), Once(hits, o),
               \A x : /\ ~(Has(ticks, o, x) /\ Has(more, o, x)) /\ ~(Has(ticks, o, x) /\ Has(hits, o, x))
                      /\ ~(Has(more, o, x) /\ Has(hits, o, x))
        PROVE  OnceComes(o)'
    <3>1. Once(u, o)
      BY <1>2, <2>3
    <3>2. \A x : ~(Has(u, o, x) /\ Has(hits, o, x))
      BY <1>2, <2>3
    <3> QED
      BY <2>1, <2>3, <3>1, <3>2 DEF OnceComes
  <2> QED
    BY <1>2, <1>4, <2>1, <2>2, <2>3
<1> QED
  BY <1>3, <1>4

-----------------------------------------------------------------------------
(***************************************************************************)
(* Each action keeps Closes.                                               *)
(***************************************************************************)

\* What of TypeOK is neither about the LRU nor about the queues.
RestType ==
  /\ database \in Databases /\ session \in Databases /\ serverDb \in Databases
  /\ onServer \subseteq Calls /\ last \in Calls \cup {None}
  /\ text \in [Calls -> Texts \cup {<<>>}] /\ wants \in [Calls -> Texts \cup {<<>>}]
  /\ how \in [Calls -> {"none", "prepare", "execute", "late"}]
  /\ bound \subseteq Calls /\ settled \subseteq Calls /\ misrun \subseteq Calls
  /\ blocked \in BOOLEAN /\ draining \in BOOLEAN /\ crashed \in BOOLEAN /\ resetting \in BOOLEAN
  /\ changes \in 0..MaxChanges /\ cacheSize \in CacheSizes
  /\ \A c \in Calls : how[c] # "none" => wants[c] \in Texts

\* The types, part by part.
LEMMA TypeParts == TypeInv <=> LruType /\ QueueType /\ RestType
<1>1. cacheSize \in CacheSizes => cacheSize \in Nat
  BY PrepareCacheAssumption
<1>2. {blocked, draining, crashed, resetting} \subseteq BOOLEAN
      <=> blocked \in BOOLEAN /\ draining \in BOOLEAN /\ crashed \in BOOLEAN /\ resetting \in BOOLEAN
  OBVIOUS
<1> QED
  BY <1>1, <1>2 DEF TypeInv, TypeOK, LruType, RestType

\* The same, after a step.
LEMMA TypePartsNext == (LruType /\ QueueType /\ RestType)' => TypeInv'
<1>1. cacheSize' \in CacheSizes => cacheSize' \in Nat
  BY PrepareCacheAssumption
<1>2. {blocked', draining', crashed', resetting'} \subseteq BOOLEAN
      <=> blocked' \in BOOLEAN /\ draining' \in BOOLEAN /\ crashed' \in BOOLEAN /\ resetting' \in BOOLEAN
  OBVIOUS
<1> QED
  BY <1>1, <1>2 DEF TypeInv, TypeOK, LruType, RestType

\* The LRU is as it was.
LEMMA LruSame == ASSUME LruOK, UNCHANGED <<cacheSize, cache, use, closed, wrapper, open>> PROVE LruOK'
<1>1. \A s : Users(s)' = Users(s) /\ (IsCached(s)' <=> IsCached(s))
  BY DEF Users, IsCached
<1>2. LruType' /\ Len(cache') <= cacheSize' /\ Distinct(cache')
  BY DEF LruOK, LruType
<1>3. Own'
  BY DEF LruOK, Own
<1>4. Counted'
  BY <1>1 DEF LruOK, Counted
<1> QED
  BY <1>2, <1>3, <1>4 DEF LruOK

\* A call is only about a text, whose database and SQL are as they should be.
LEMMA TextsOf == \A t \in Texts : t[1] \in Databases /\ t[2] \in Sqls /\ t = <<t[1], t[2]>>
BY DEF Texts

\* What prepare() and execute() do to the queues.
LEMMA Added ==
  ASSUME QueueType, NEW ops, NEW c, Adds(ops, c)
  PROVE  /\ sendQueue' \in Seq(Commands)
         /\ \A o, x : Has(sendQueue', o, x) <=> Has(sendQueue, o, x) \/ (o \in ops /\ x = c)
         /\ \A o : Once(sendQueue, o) /\ (o \in ops => ~Has(sendQueue, o, c)) => Once(sendQueue', o)
<1>1. PICK t \in Seq(Commands) :
        /\ sendQueue' = sendQueue \o t
        /\ \A o, x : Has(t, o, x) <=> o \in ops /\ x = c
        /\ \A o : Once(t, o)
  BY DEF Adds
<1>2. /\ sendQueue' \in Seq(Commands)
      /\ \A o, x : Has(sendQueue', o, x) <=> Has(sendQueue, o, x) \/ Has(t, o, x)
      /\ \A o : Once(sendQueue, o) /\ Once(t, o) /\ (\A x : ~(Has(sendQueue, o, x) /\ Has(t, o, x))) => Once(sendQueue', o)
  BY <1>1, Grown DEF QueueType
<1> QED
  BY <1>1, <1>2

\* What closing statements does to the queues.
LEMMA ClosingAdds ==
  ASSUME sendQueue \in Seq(Commands), Closing
  PROVE  /\ sendQueue' \in Seq(Commands) /\ closed \subseteq closed'
         /\ \A o, x : Has(sendQueue', o, x) <=> Has(sendQueue, o, x) \/ (o = "close" /\ x \in closed' \ closed)
         /\ \A o : o # "close" /\ Once(sendQueue, o) => Once(sendQueue', o)
<1>1. PICK t \in Seq(Commands) :
        /\ sendQueue' = sendQueue \o t
        /\ \A o, x : Has(t, o, x) <=> o = "close" /\ x \in closed' \ closed
        /\ closed \subseteq closed'
  BY DEF Closing
<1>2. /\ sendQueue' \in Seq(Commands)
      /\ \A o, x : Has(sendQueue', o, x) <=> Has(sendQueue, o, x) \/ Has(t, o, x)
      /\ \A o : Once(sendQueue, o) /\ Once(t, o) /\ (\A x : ~(Has(sendQueue, o, x) /\ Has(t, o, x))) => Once(sendQueue', o)
  BY <1>1, Grown
<1>3. \A o : o # "close" => Once(t, o)
  BY <1>1, OnceNever
<1> QED
  BY <1>1, <1>2, <1>3

\* In the first state nothing has been asked for.
LEMMA InitCloses == Init => Closes
<1> SUFFICES ASSUME Init PROVE Closes
  OBVIOUS
<1> USE DEF Init
<1>1. LruType /\ QueueType /\ RestType
  <2>1. LruType
    <3>1. cacheSize \in Nat
      BY PrepareCacheAssumption
    <3> QED
      BY <3>1 DEF LruType, None
  <2>2. QueueType
    BY DEF QueueType
  <2>3. RestType
    <3>1. changes \in 0..MaxChanges /\ cacheSize \in CacheSizes
      BY PrepareCacheAssumption
    <3>2. /\ text \in [Calls -> Texts \cup {<<>>}] /\ wants \in [Calls -> Texts \cup {<<>>}]
          /\ how \in [Calls -> {"none", "prepare", "execute", "late"}] /\ \A c \in Calls : how[c] = "none"
      OBVIOUS
    <3>3. /\ database \in Databases /\ session \in Databases /\ serverDb \in Databases
          /\ onServer \subseteq Calls /\ last \in Calls \cup {None}
          /\ bound \subseteq Calls /\ settled \subseteq Calls /\ misrun \subseteq Calls
          /\ blocked \in BOOLEAN /\ draining \in BOOLEAN /\ crashed \in BOOLEAN /\ resetting \in BOOLEAN
      BY PrepareCacheAssumption
    <3> QED
      BY <3>1, <3>2, <3>3 DEF RestType
  <2> QED
    BY <2>1, <2>2, <2>3
<1>2. TypeInv
  BY <1>1, TypeParts
<1>3. Len(cache) <= cacheSize /\ Distinct(cache)
  BY <1>1 DEF Distinct, LruType
<1>4. Own
  BY DEF Own
<1>5. Counted
  <2>1. \A s : Users(s) = {} /\ ~IsCached(s)
    BY DEF Users, IsCached
  <2>2. Cardinality({}) = 0 /\ \A d \in Calls : wrapper[d] = None
    BY FS_EmptySet
  <2> QED
    BY <2>1, <2>2, NoneIsNoCall DEF Counted
<1>6. Numbered
  <2>1. \A d \in Calls : ~(d <= 0) /\ how[d] = "none"
    BY DEF Calls
  <2> QED
    BY <2>1 DEF Numbered
<1>7. Unanswered
  BY HasEmpty, OnceEmpty DEF Unanswered
<1>8. CloseTold
  BY HasEmpty DEF CloseTold
<1> QED
  BY <1>1, <1>2, <1>3, <1>4, <1>5, <1>6, <1>7, <1>8 DEF Closes, LruOK

\* prepare() and execute().
LEMMA AskCloses ==
  ASSUME Closes, NEW c \in Calls, NEW sql \in Sqls, NEW kind \in {"prepare", "execute", "late"}, Asks(c, sql, kind)
  PROVE  Closes'
<1>0. TypeInv /\ LruOK /\ Numbered /\ Unanswered /\ CloseTold /\ QueueType /\ RestType
  BY TypeParts DEF Closes
<1>1. /\ how[c] = "none" /\ Numbered' /\ MayAsk
      /\ how' = [how EXCEPT ![c] = kind] /\ wants' = [wants EXCEPT ![c] = <<session, sql>>]
      /\ UNCHANGED <<database, cacheSize, blocked, nested, inFlight, ticks, draining, crashed, client, server>>
      /\ IF Early(sql)
         THEN /\ GetHit(Key(sql), c)
              /\ bound' = (IF kind = "prepare" THEN bound ELSE bound \cup {c})
              /\ settled' = (IF kind = "prepare" THEN settled \cup {c} ELSE settled)
              /\ Adds(IF kind = "prepare" THEN {} ELSE {"execute"}, c)
         ELSE /\ UNCHANGED <<lru, wrapper, open, bound, settled>>
              /\ Adds(IF kind = "execute" THEN {"prepare", "execute"} ELSE {"prepare"}, c)
  BY <1>0, AskDoes
<1>2. wrapper[c] = None /\ ~Has(sendQueue, "prepare", c) /\ ~Has(inFlight, "prepare", c)
  BY <1>0, <1>1 DEF Unanswered
<1>3. /\ LruOK' /\ UNCHANGED closed
      /\ \A s \in Calls : wrapper[s] = s => wrapper'[s] = s
      /\ \A d \in Calls : d # c => wrapper'[d] = wrapper[d]
      /\ ~Early(sql) => UNCHANGED wrapper
  <2>1. CASE Early(sql)
    <3>1. Found(Key(sql)) # {} /\ GetHit(Key(sql), c) /\ UNCHANGED cacheSize
      BY <1>1, <2>1 DEF Early
    <3>2. /\ LruOK' /\ UNCHANGED closed
          /\ \E st \in Calls : wrapper' = [wrapper EXCEPT ![c] = st] /\ \E i \in DOMAIN cache : cache[i] = [key |-> Key(sql), st |-> st]
      BY <1>0, <1>2, <3>1, GetHitKeeps
    <3> QED
      BY <1>0, <1>2, <2>1, <3>2, NoneIsNoCall DEF LruOK, LruType
  <2>2. CASE ~Early(sql)
    <3>1. UNCHANGED <<cacheSize, cache, use, closed, wrapper, open>>
      BY <1>1, <2>2 DEF lru
    <3> QED
      BY <1>0, <3>1, LruSame
  <2> QED
    BY <2>1, <2>2
<1>4. PICK ops \in SUBSET {"prepare", "execute"} : Adds(ops, c) /\ (Early(sql) => "prepare" \notin ops)
  <2>1. CASE Early(sql)
    <3>1. Adds(IF kind = "prepare" THEN {} ELSE {"execute"}, c)
      BY <1>1, <2>1
    <3> QED
      BY <2>1, <3>1
  <2>2. CASE ~Early(sql)
    <3>1. Adds(IF kind = "execute" THEN {"prepare", "execute"} ELSE {"prepare"}, c)
      BY <1>1, <2>2
    <3> QED
      BY <2>2, <3>1
  <2> QED
    BY <2>1, <2>2
<1>5. /\ sendQueue' \in Seq(Commands)
      /\ \A o, x : Has(sendQueue', o, x) <=> Has(sendQueue, o, x) \/ (o \in ops /\ x = c)
      /\ \A o : Once(sendQueue, o) /\ (o \in ops => ~Has(sendQueue, o, c)) => Once(sendQueue', o)
  BY <1>0, <1>4, Added
<1>6. UNCHANGED <<database, session, serverDb, onServer, last, text, misrun, blocked, draining, crashed, resetting,
                  changes, cacheSize, nested, inFlight, ticks>>
  BY <1>1 DEF client, server
<1>7. RestType'
  <2>1. bound' \subseteq Calls /\ settled' \subseteq Calls
    BY <1>0, <1>1 DEF RestType
  <2>2. <<session, sql>> \in Texts
    BY <1>0 DEF RestType, Texts
  <2>3. \A d \in Calls : how'[d] # "none" => wants'[d] \in Texts
    BY <1>0, <1>1, <2>2 DEF RestType
  <2>4. how' \in [Calls -> {"none", "prepare", "execute", "late"}] /\ wants' \in [Calls -> Texts \cup {<<>>}]
    BY <1>0, <1>1, <2>2 DEF RestType
  <2> QED
    BY <1>0, <1>6, <2>1, <2>3, <2>4 DEF RestType
<1>8. TypeInv'
  <2>1. QueueType'
    BY <1>0, <1>5, <1>6 DEF QueueType
  <2> QED
    BY <1>3, <1>7, <2>1, TypePartsNext DEF LruOK
<1>9. Unanswered'
  <2>1. Once(sendQueue', "prepare") /\ Once(inFlight', "prepare")
    BY <1>0, <1>2, <1>5, <1>6 DEF Unanswered
  <2>2. \A d \in Calls : how'[d] = (IF d = c THEN kind ELSE how[d])
    BY <1>0, <1>1 DEF RestType
  <2> SUFFICES ASSUME NEW d \in Calls
               PROVE  /\ Has(sendQueue', "prepare", d) => ~Has(inFlight', "prepare", d)
                      /\ Has(sendQueue', "prepare", d) \/ Has(inFlight', "prepare", d) => how'[d] # "none" /\ wrapper'[d] = None
                      /\ how'[d] = "none" => wrapper'[d] = None
    BY <2>1 DEF Unanswered
  <2>3. CASE d = c
    BY <1>2, <1>3, <1>4, <1>5, <1>6, <2>2, <2>3
  <2>4. CASE d # c
    BY <1>0, <1>3, <1>5, <1>6, <2>2, <2>4 DEF Unanswered
  <2> QED
    BY <2>3, <2>4
<1>10. CloseTold'
  BY <1>0, <1>3, <1>4, <1>5, <1>6 DEF CloseTold
<1> QED
  BY <1>1, <1>3, <1>8, <1>9, <1>10 DEF Closes

\* The elements of a tail are elements of the sequence.
LEMMA TailElements ==
  \A S : \A s \in Seq(S) : s # <<>> =>
    /\ Tail(s) \in Seq(S) /\ Head(s) \in S
    /\ \A i \in DOMAIN Tail(s) : i + 1 \in DOMAIN s /\ Tail(s)[i] = s[i + 1]
OBVIOUS

\* The elements of a sequence with one more.
LEMMA AppendElements ==
  \A S : \A s \in Seq(S), e \in S :
    /\ Append(s, e) \in Seq(S)
    /\ \A i \in DOMAIN Append(s, e) : (i \in DOMAIN s /\ Append(s, e)[i] = s[i]) \/ (i = Len(s) + 1 /\ Append(s, e)[i] = e)
OBVIOUS

\* Closes does not depend on what else happens when LRU and wrappers are left alone, no PREPARE or
\* COM_STMT_CLOSE is added or sent, and the server gets no statement.
LEMMA LruUntouched ==
  ASSUME Closes, UNCHANGED <<cacheSize, cache, use, closed, wrapper, open, how>>, RestType', QueueType',
         \A o \in {"prepare", "close"} : \A x : Has(sendQueue', o, x) <=> Has(sendQueue, o, x),
         Once(sendQueue', "prepare"), Once(inFlight', "prepare"),
         \A x : Has(inFlight', "prepare", x) => Has(inFlight, "prepare", x),
         \A x \in onServer : Has(inFlight, "prepare", x) => Has(inFlight', "prepare", x),
         \A i \in DOMAIN inFlight' : inFlight'[i].op = "prepare" /\ inFlight'[i].about \in onServer => inFlight'[i].ok,
         onServer' \subseteq onServer
  PROVE  Closes'
<1>0. LruOK /\ Numbered /\ Unanswered /\ CloseTold
  BY DEF Closes
<1>1. LruOK'
  BY <1>0, LruSame
<1>2. TypeInv'
  BY <1>1, TypePartsNext DEF LruOK
<1>3. Numbered'
  BY <1>0 DEF Numbered
<1>4. Unanswered'
  BY <1>0 DEF Unanswered
<1>5. CloseTold'
  BY <1>0 DEF CloseTold
<1> QED
  BY <1>1, <1>2, <1>3, <1>4, <1>5 DEF Closes

\* An EXECUTE of a statement the client has, USE and reset() add a command of another kind.
LEMMA OtherAddCloses ==
  ASSUME Closes, NEW m \in Commands, m.op \notin {"prepare", "close"}, sendQueue' = Append(sendQueue, m),
         UNCHANGED <<cacheSize, cache, use, closed, wrapper, open, how, nested, inFlight, ticks, onServer>>, RestType'
  PROVE  Closes'
<1>0. LruOK /\ Unanswered /\ CloseTold /\ QueueType
  BY TypeParts DEF Closes
<1>1. sendQueue' \in Seq(Commands) /\ \A o, x : Has(sendQueue', o, x) <=> Has(sendQueue, o, x) \/ (o = m.op /\ x = m.about)
  BY <1>0, HasAppend, AppendElements DEF QueueType
<1>2. Once(sendQueue', "prepare")
  BY <1>0, OnceAppend DEF QueueType, Unanswered
<1>3. QueueType'
  BY <1>0, <1>1 DEF QueueType
<1>4. \A i \in DOMAIN inFlight' : inFlight'[i].op = "prepare" /\ inFlight'[i].about \in onServer => inFlight'[i].ok
  BY <1>0, TypeParts DEF CloseTold, Closes, RestType
<1>5. Once(inFlight', "prepare") /\ \A x : Has(inFlight', "prepare", x) <=> Has(inFlight, "prepare", x)
  BY <1>0 DEF Unanswered
<1> QED
  BY <1>1, <1>2, <1>3, <1>4, <1>5, LruUntouched

\* The client executes a statement it has.
LEMMA ExecutePreparedCloses == ASSUME Closes, NEW c \in Calls, ExecutePrepared(c) PROVE Closes'
<1>1. RestType
  BY TypeParts DEF Closes
<1>2. PICK m \in Commands : m = Command("execute", c) /\ m.op = "execute"
  BY CallCommand
<1>3. /\ sendQueue' = Append(sendQueue, m)
      /\ UNCHANGED <<cacheSize, cache, use, closed, wrapper, open, how, nested, inFlight, ticks, onServer>>
  BY <1>2 DEF ExecutePrepared, lru, server
<1>4. RestType'
  BY <1>1 DEF ExecutePrepared, RestType, lru, server, client
<1> QED
  BY <1>2, <1>3, <1>4, OtherAddCloses

\* USE.
LEMMA UseCloses == ASSUME Closes, NEW db \in Databases, Use(db) PROVE Closes'
<1>1. RestType
  BY TypeParts DEF Closes
<1>2. PICK m \in Commands : m = Command("use", db) /\ m.op = "use" /\ m.about = db
  BY UseCommand
<1>3. /\ sendQueue' = Append(sendQueue, m)
      /\ UNCHANGED <<cacheSize, cache, use, closed, wrapper, open, how, nested, inFlight, ticks, onServer>>
  BY <1>2 DEF Use, lru, calls, server
<1>4. changes' \in 0..MaxChanges
  BY <1>1, PrepareCacheAssumption DEF RestType, Use, Change
<1>5. RestType'
  BY <1>1, <1>4 DEF Use, RestType, lru, server, calls
<1> QED
  BY <1>2, <1>3, <1>5, OtherAddCloses

\* reset().
LEMMA ResetCloses == ASSUME Closes, Reset PROVE Closes'
<1>1. RestType
  BY TypeParts DEF Closes
<1>2. PICK m \in Commands : m = Command("reset", None) /\ m.op = "reset" /\ m.about = None
  BY ResetCommand
<1>3. /\ sendQueue' = Append(sendQueue, m)
      /\ UNCHANGED <<cacheSize, cache, use, closed, wrapper, open, how, nested, inFlight, ticks, onServer>>
  BY <1>2 DEF Reset, lru, calls, server
<1>4. changes' \in 0..MaxChanges
  BY <1>1, PrepareCacheAssumption DEF RestType, Reset, Change
<1>5. RestType'
  BY <1>1, <1>4 DEF Reset, RestType, lru, server, calls
<1> QED
  BY <1>2, <1>3, <1>5, OtherAddCloses

\* A stream starts or ends.
LEMMA StreamCloses == ASSUME Closes, StreamStarts \/ StreamEnds PROVE Closes'
<1>0. LruOK /\ Unanswered /\ CloseTold /\ QueueType /\ RestType
  BY TypeParts DEF Closes
<1>1. UNCHANGED <<cacheSize, cache, use, closed, wrapper, open, how, sendQueue, nested, inFlight, ticks, onServer>>
  BY DEF StreamStarts, StreamEnds, lru, calls, server
<1>2. changes' \in 0..MaxChanges /\ blocked' \in BOOLEAN
  <2>1. CASE StreamStarts
    <3>1. changes \in 0..MaxChanges /\ changes < MaxChanges /\ changes' = changes + 1 /\ MaxChanges \in Nat /\ blocked' = TRUE
      BY <1>0, <2>1, PrepareCacheAssumption DEF RestType, StreamStarts, Change
    <3> QED
      BY <3>1
  <2>2. CASE StreamEnds
    BY <1>0, <2>2 DEF RestType, StreamEnds, client
  <2> QED
    BY <2>1, <2>2
<1>3. RestType'
  BY <1>0, <1>2 DEF StreamStarts, StreamEnds, RestType, lru, server, calls, client
<1>4. QueueType'
  BY <1>0, <1>1 DEF QueueType
<1>5. \A i \in DOMAIN inFlight' : inFlight'[i].op = "prepare" /\ inFlight'[i].about \in onServer => inFlight'[i].ok
  BY <1>0, <1>1 DEF CloseTold, RestType
<1>6. /\ Once(sendQueue', "prepare") /\ Once(inFlight', "prepare")
      /\ \A o, x : Has(sendQueue', o, x) <=> Has(sendQueue, o, x)
      /\ \A x : Has(inFlight', "prepare", x) <=> Has(inFlight, "prepare", x)
  BY <1>0, <1>1 DEF Unanswered
<1> QED
  BY <1>1, <1>3, <1>4, <1>5, <1>6, LruUntouched

\* The client closes a statement it has.
LEMMA ClosePreparedCloses == ASSUME Closes, NEW c \in Calls, ClosePrepared(c) PROVE Closes'
<1>0. LruOK /\ Numbered /\ Unanswered /\ CloseTold /\ QueueType /\ RestType
  BY TypeParts DEF Closes
<1>1. CloseWrapper(c) /\ UNCHANGED <<cacheSize, how, wrapper, nested, inFlight, ticks, onServer>>
  BY DEF ClosePrepared, server
<1>2. RestType'
  BY <1>0 DEF ClosePrepared, RestType, server, client
<1>3. LruOK' /\ Closing
  BY <1>0, <1>1, CloseWrapperKeeps DEF QueueType
<1>4. /\ sendQueue' \in Seq(Commands) /\ closed \subseteq closed'
      /\ \A o, x : Has(sendQueue', o, x) <=> Has(sendQueue, o, x) \/ (o = "close" /\ x \in closed' \ closed)
      /\ \A o : o # "close" /\ Once(sendQueue, o) => Once(sendQueue', o)
  BY <1>0, <1>3, ClosingAdds DEF QueueType
<1>5. TypeInv'
  BY <1>0, <1>1, <1>2, <1>3, <1>4, TypePartsNext DEF LruOK, QueueType
<1>6. Numbered'
  BY <1>0, <1>1 DEF Numbered
<1>7. Unanswered'
  BY <1>0, <1>1, <1>4 DEF Unanswered
<1>8. CloseTold'
  BY <1>0, <1>1, <1>4 DEF CloseTold
<1> QED
  BY <1>3, <1>5, <1>6, <1>7, <1>8 DEF Closes

\* What a command is.
LEMMA CommandKinds == \A m \in Commands :
  \/ m.op \in {"prepare", "execute", "close"} /\ m.about \in Calls /\ m = Command(m.op, m.about)
  \/ m.op = "use" /\ m.about \in Databases
  \/ m.op = "reset" /\ m.about = None
BY DEF Commands, Command

\* What an answer is.
LEMMA AnswerKinds == \A a \in Answers :
  /\ a.ok \in BOOLEAN
  /\ \/ a.op \in {"prepare", "execute"} /\ a.about \in Calls
     \/ a.op = "use" /\ a.about \in Databases
     \/ a.op = "reset" /\ a.about = None
BY DEF Answers

\* The next command is sent.
LEMMA SendNextDoes ==
  ASSUME QueueType, SendNext
  PROVE  \E m \in Commands :
           /\ sendQueue # <<>> /\ ~blocked /\ m = Head(sendQueue) /\ sendQueue' = Tail(sendQueue)
           /\ sendQueue' \in Seq(Commands)
           /\ \A o, x : Has(sendQueue, o, x) <=> (o = m.op /\ x = m.about) \/ Has(sendQueue', o, x)
           /\ \A o : Once(sendQueue, o) => Once(sendQueue', o) /\ (m.op = o => ~Has(sendQueue', o, m.about))
           /\ UNCHANGED <<database, cacheSize, blocked, draining, how, wants, bound, settled, crashed, client>>
           /\ \/ m.op = "prepare" /\ m.about \in Calls /\ SendPrepare(m.about)
              \/ m.op = "execute" /\ m.about \in Calls /\ SendExecute(m.about)
              \/ m.op = "close" /\ m.about \in Calls /\ SendClose(m.about)
              \/ m.op = "use" /\ m.about \in Databases /\ SendOther(m)
              \/ m.op = "reset" /\ m.about = None /\ SendOther(m)
<1>1. sendQueue # <<>> /\ ~blocked /\ sendQueue \in Seq(Commands) /\ sendQueue' = Tail(sendQueue)
  BY DEF QueueType, SendNext, AllSent
<1>2. PICK m \in Commands : m = Head(sendQueue)
  BY <1>1, TailElements
<1>3. \A o, x : Has(sendQueue, o, x) <=> (o = m.op /\ x = m.about) \/ Has(sendQueue', o, x)
  BY <1>1, <1>2, HasTail
<1>4. \A o : Once(sendQueue, o) => Once(sendQueue', o) /\ (m.op = o => ~Has(sendQueue', o, m.about))
  BY <1>1, <1>2, OnceTail
<1>5. sendQueue' \in Seq(Commands)
  BY <1>1, TailElements
<1>6. UNCHANGED <<database, cacheSize, blocked, draining, how, wants, bound, settled, crashed, client>>
  BY DEF SendNext
<1>7. CASE m.op \in {"prepare", "execute", "close"}
  <2>1. m.about \in Calls
    BY <1>7, CommandKinds
  <2>2. CASE m.op = "prepare"
    BY <1>1, <1>2, <1>3, <1>4, <1>5, <1>6, <2>1, <2>2 DEF SendNext
  <2>3. CASE m.op = "execute"
    BY <1>1, <1>2, <1>3, <1>4, <1>5, <1>6, <2>1, <2>3 DEF SendNext
  <2>4. CASE m.op = "close"
    BY <1>1, <1>2, <1>3, <1>4, <1>5, <1>6, <2>1, <2>4 DEF SendNext
  <2> QED
    BY <1>7, <2>2, <2>3, <2>4
<1>8. CASE m.op = "use"
  <2>1. m.about \in Databases /\ SendOther(m)
    BY <1>2, <1>8, CommandKinds DEF SendNext
  <2> QED
    BY <1>1, <1>2, <1>3, <1>4, <1>5, <1>6, <1>8, <2>1
<1>9. CASE m.op = "reset"
  <2>1. m.about = None /\ SendOther(m)
    BY <1>2, <1>9, CommandKinds DEF SendNext
  <2> QED
    BY <1>1, <1>2, <1>3, <1>4, <1>5, <1>6, <1>9, <2>1
<1> QED
  BY <1>7, <1>8, <1>9, CommandKinds

\* The server's answer to a command follows those to the commands before.
LEMMA AnswerDoes ==
  ASSUME QueueType, NEW m \in Commands, m.op # "close", NEW ok \in BOOLEAN, Answer(m, ok)
  PROVE  \E a \in Answers :
           /\ a.op = m.op /\ a.about = m.about /\ a.ok = ok /\ inFlight' = Append(inFlight, a)
           /\ inFlight' \in Seq(Answers)
           /\ \A o, x : Has(inFlight', o, x) <=> Has(inFlight, o, x) \/ (o = m.op /\ x = m.about)
           /\ \A o : Once(inFlight, o) /\ (m.op = o => ~Has(inFlight, o, m.about)) => Once(inFlight', o)
           /\ \A i \in DOMAIN inFlight' : (i \in DOMAIN inFlight /\ inFlight'[i] = inFlight[i])
                                          \/ (i = Len(inFlight) + 1 /\ inFlight'[i] = a)
<1>1. PICK a : a = [op |-> m.op, about |-> m.about, ok |-> ok]
  OBVIOUS
<1>2. a.op = m.op /\ a.about = m.about /\ a.ok = ok /\ inFlight' = Append(inFlight, a)
  BY <1>1 DEF Answer
<1>3. a \in Answers
  BY <1>1, CommandKinds DEF Answers
<1>4. inFlight \in Seq(Answers)
  BY DEF QueueType
<1>5. \A o, x : Has(Append(inFlight, a), o, x) <=> Has(inFlight, o, x) \/ (o = a.op /\ x = a.about)
  BY <1>3, <1>4, HasAppend
<1>6. \A o : Once(inFlight, o) /\ (a.op = o => ~Has(inFlight, o, a.about)) => Once(Append(inFlight, a), o)
  BY <1>3, <1>4, OnceAppend
<1>7. /\ Append(inFlight, a) \in Seq(Answers)
      /\ \A i \in DOMAIN Append(inFlight, a) : (i \in DOMAIN inFlight /\ Append(inFlight, a)[i] = inFlight[i])
                                               \/ (i = Len(inFlight) + 1 /\ Append(inFlight, a)[i] = a)
  BY <1>3, <1>4, AppendElements
<1> QED
  BY <1>2, <1>3, <1>5, <1>6, <1>7

\* A callback that is scheduled.
LEMMA TickAppended ==
  ASSUME QueueType, NEW s \in Seq(Ticks), NEW cb \in {"prepared", "executed", "refused"}, NEW c \in Calls, NEW u,
         u = Append(s, Tick(cb, c))
  PROVE  /\ u \in Seq(Ticks)
         /\ \A o, x : Has(u, o, x) <=> Has(s, o, x) \/ (o = cb /\ x = c)
         /\ \A o : Once(s, o) /\ (o = cb => ~Has(s, o, c)) => Once(u, o)
<1>1. PICK e \in Ticks : e = Tick(cb, c) /\ e.op = cb /\ e.about = c
  BY CallTick
<1>2. Append(s, e) \in Seq(Ticks)
  OBVIOUS
<1>3. \A o, x : Has(Append(s, e), o, x) <=> Has(s, o, x) \/ (o = e.op /\ x = e.about)
  BY HasAppend
<1>4. \A o : Once(s, o) /\ (e.op = o => ~Has(s, o, e.about)) => Once(Append(s, e), o)
  BY OnceAppend
<1> QED
  BY <1>1, <1>2, <1>3, <1>4

\* A command is sent, and the server has dealt with it.
LEMMA SendNextCloses == ASSUME Closes, SendNext PROVE Closes'
<1>0. LruOK /\ Numbered /\ Unanswered /\ CloseTold /\ QueueType /\ RestType
  BY TypeParts DEF Closes
<1>1. PICK m \in Commands :
           /\ sendQueue # <<>> /\ ~blocked /\ m = Head(sendQueue) /\ sendQueue' = Tail(sendQueue)
           /\ sendQueue' \in Seq(Commands)
           /\ \A o, x : Has(sendQueue, o, x) <=> (o = m.op /\ x = m.about) \/ Has(sendQueue', o, x)
           /\ \A o : Once(sendQueue, o) => Once(sendQueue', o) /\ (m.op = o => ~Has(sendQueue', o, m.about))
           /\ UNCHANGED <<database, cacheSize, blocked, draining, how, wants, bound, settled, crashed, client>>
           /\ \/ m.op = "prepare" /\ m.about \in Calls /\ SendPrepare(m.about)
              \/ m.op = "execute" /\ m.about \in Calls /\ SendExecute(m.about)
              \/ m.op = "close" /\ m.about \in Calls /\ SendClose(m.about)
              \/ m.op = "use" /\ m.about \in Databases /\ SendOther(m)
              \/ m.op = "reset" /\ m.about = None /\ SendOther(m)
  BY <1>0, SendNextDoes
<1>2. UNCHANGED <<database, session, resetting, changes, cacheSize, blocked, draining, how, wants, bound, settled, crashed>>
  BY <1>1 DEF client
<1>3. Once(sendQueue', "prepare") /\ (m.op = "prepare" => ~Has(sendQueue', "prepare", m.about))
  BY <1>0, <1>1 DEF Unanswered
<1>4. <<>> \in Seq(Ticks) /\ nested \in Seq(Ticks) /\ ticks \in Seq(Ticks)
  BY <1>0 DEF QueueType
<1>5. Numbered'
  BY <1>0, <1>2 DEF Numbered
<1>6. CASE m.op = "prepare" /\ m.about \in Calls /\ SendPrepare(m.about)
  <2>1. PICK c \in Calls : c = m.about /\ SendPrepare(c)
    BY <1>6
  <2>2. Has(sendQueue, "prepare", c) /\ ~Has(sendQueue', "prepare", c) /\ ~Has(inFlight, "prepare", c)
        /\ how[c] # "none" /\ wrapper[c] = None
    BY <1>0, <1>1, <1>3, <1>6, <2>1 DEF Unanswered
  <2>3. PICK key : key = Key(wants[c][2])
    OBVIOUS
  <2>4. CASE Found(key) # {}
    <3>1. /\ GetHit(key, c) /\ AfterSending(<<>>, Append(nested, Tick("prepared", c)))
          /\ UNCHANGED <<inFlight, serverDb, onServer, text, last, misrun>>
      BY <2>1, <2>3, <2>4 DEF SendPrepare, server
    <3>2. LruOK' /\ UNCHANGED closed
          /\ \E st \in Calls : wrapper' = [wrapper EXCEPT ![c] = st] /\ \E i \in DOMAIN cache : cache[i] = [key |-> key, st |-> st]
      BY <1>0, <1>2, <2>2, <2>4, <3>1, GetHitKeeps
    <3>3. PICK hits \in Seq(Ticks) : hits = Append(nested, Tick("prepared", c))
      BY <1>0, <1>4, TickAppended
    <3>4. ticks' \in Seq(Ticks) /\ nested' \in Seq(Ticks)
      BY <1>0, <1>4, <3>1, <3>3, AfterSendingDoes
    <3>5. QueueType'
      BY <1>0, <1>1, <3>1, <3>4 DEF QueueType
    <3>6. RestType'
      BY <1>0, <1>2, <3>1 DEF RestType
    <3>7. TypeInv'
      BY <3>2, <3>5, <3>6, TypePartsNext DEF LruOK
    <3>8. /\ \A d \in Calls : d # c => wrapper'[d] = wrapper[d]
          /\ \A d \in Calls : wrapper[d] = d => wrapper'[d] = d
      BY <1>0, <2>2, <3>2, NoneIsNoCall DEF LruOK, LruType
    <3>9. Unanswered'
      <4> SUFFICES ASSUME NEW d \in Calls
                   PROVE  /\ Has(sendQueue', "prepare", d) => ~Has(inFlight', "prepare", d)
                          /\ Has(sendQueue', "prepare", d) \/ Has(inFlight', "prepare", d) => how'[d] # "none" /\ wrapper'[d] = None
                          /\ how'[d] = "none" => wrapper'[d] = None
        BY <1>0, <1>3, <3>1 DEF Unanswered
      <4>1. CASE d = c
        BY <1>2, <2>2, <3>1, <4>1
      <4>2. CASE d # c
        BY <1>0, <1>1, <1>2, <3>1, <3>8, <4>2 DEF Unanswered
      <4> QED
        BY <4>1, <4>2
    <3>10. CloseTold'
      BY <1>0, <1>1, <1>6, <3>1, <3>2, <3>8 DEF CloseTold
    <3> QED
      BY <1>5, <3>2, <3>7, <3>9, <3>10 DEF Closes
  <2>5. CASE Found(key) = {}
    <3>1. PICK ok \in BOOLEAN :
            /\ Answer(m, ok)
            /\ onServer' = (IF ok THEN onServer \cup {c} ELSE onServer)
            /\ last' = (IF ok THEN c ELSE None)
            /\ text' = [text EXCEPT ![c] = <<serverDb, wants[c][2]>>]
            /\ AfterSending(<<>>, nested)
            /\ UNCHANGED <<cache, use, closed, wrapper, open, serverDb, misrun>>
      BY <1>1, <2>1, <2>3, <2>5 DEF SendPrepare, lru
    <3>2. PICK a \in Answers :
           /\ a.op = m.op /\ a.about = m.about /\ a.ok = ok /\ inFlight' = Append(inFlight, a)
           /\ inFlight' \in Seq(Answers)
           /\ \A o, x : Has(inFlight', o, x) <=> Has(inFlight, o, x) \/ (o = m.op /\ x = m.about)
           /\ \A o : Once(inFlight, o) /\ (m.op = o => ~Has(inFlight, o, m.about)) => Once(inFlight', o)
           /\ \A i \in DOMAIN inFlight' : (i \in DOMAIN inFlight /\ inFlight'[i] = inFlight[i])
                                          \/ (i = Len(inFlight) + 1 /\ inFlight'[i] = a)
      BY <1>0, <1>6, <3>1, AnswerDoes
    <3>3. LruOK'
      BY <1>0, <1>2, <3>1, LruSame
    <3>4. QueueType'
      <4>1. ticks' \in Seq(Ticks) /\ nested' \in Seq(Ticks)
        BY <1>0, <1>4, <3>1, AfterSendingDoes
      <4> QED
        BY <1>1, <3>2, <4>1 DEF QueueType
    <3>5. RestType'
      <4>1. <<serverDb, wants[c][2]>> \in Texts
        BY <1>0, <2>2, TextsOf DEF RestType, Texts
      <4>2. text' \in [Calls -> Texts \cup {<<>>}] /\ onServer' \subseteq Calls /\ last' \in Calls \cup {None}
        BY <1>0, <3>1, <4>1 DEF RestType
      <4> QED
        BY <1>0, <1>2, <3>1, <4>2 DEF RestType
    <3>6. TypeInv'
      BY <3>3, <3>4, <3>5, TypePartsNext DEF LruOK
    <3>7. Unanswered'
      <4>1. Once(inFlight', "prepare")
        BY <1>0, <2>1, <2>2, <3>2 DEF Unanswered
      <4> QED
        BY <1>0, <1>1, <1>2, <1>3, <1>6, <2>1, <2>2, <3>1, <3>2, <4>1 DEF Unanswered
    <3>8. c \notin onServer /\ c \notin closed
      BY <1>0, <2>2, NoneIsNoCall DEF CloseTold, LruOK, Own
    <3>9. CloseTold'
      <4>1. ASSUME NEW st \in Calls
            PROVE  /\ st \in closed' /\ st \in onServer' => Has(sendQueue', "close", st)
                   /\ Has(sendQueue', "close", st) => st \in closed'
                   /\ st \in onServer' => wrapper'[st] = st \/ Has(inFlight', "prepare", st)
        BY <1>0, <1>1, <1>6, <2>1, <3>1, <3>2, <3>8 DEF CloseTold
      <4>2. ASSUME NEW i \in DOMAIN inFlight', inFlight'[i].op = "prepare", inFlight'[i].about \in onServer'
            PROVE  inFlight'[i].ok
        <5>1. CASE i \in DOMAIN inFlight /\ inFlight'[i] = inFlight[i]
          <6>1. inFlight[i].about # c
            BY <2>2, <4>2, <5>1 DEF Has
          <6> QED
            BY <1>0, <3>1, <4>2, <5>1, <6>1 DEF CloseTold, RestType
        <5>2. CASE inFlight'[i] = a
          <6>1. a.about = c
            BY <2>1, <3>2
          <6> QED
            BY <3>1, <3>2, <3>8, <4>2, <5>2, <6>1
        <5> QED
          BY <3>2, <5>1, <5>2
      <4> QED
        BY <4>1, <4>2 DEF CloseTold
    <3> QED
      BY <1>5, <3>3, <3>6, <3>7, <3>9 DEF Closes
  <2> QED
    BY <2>4, <2>5
<1>7. CASE m.op # "prepare" /\ m.op # "close"
  <2>1. /\ UNCHANGED <<cacheSize, cache, use, closed, wrapper, open, how, text>>
        /\ onServer' \subseteq onServer
        /\ \/ UNCHANGED inFlight
           \/ \E ok \in BOOLEAN : Answer(m, ok)
        /\ \E more \in Seq(Ticks) : AfterSending(more, nested)
        /\ RestType'
    <3>1. CASE m.op = "execute" /\ m.about \in Calls /\ SendExecute(m.about)
      <4>1. PICK c \in Calls : c = m.about /\ SendExecute(c)
        BY <3>1
      <4>2. /\ UNCHANGED <<cache, use, closed, wrapper, open, serverDb, onServer, text, last>>
            /\ misrun' \subseteq misrun \cup {c}
            /\ \/ UNCHANGED inFlight
               \/ \E ok \in BOOLEAN : Answer(m, ok)
        BY <1>1, <4>1 DEF SendExecute, lru
      <4>3. <<Tick("refused", c)>> \in Seq(Ticks)
        BY CallTick
      <4>4. \E more \in Seq(Ticks) : AfterSending(more, nested)
        BY <1>4, <4>1, <4>3 DEF SendExecute
      <4>5. RestType'
        BY <1>0, <1>2, <4>2 DEF RestType
      <4> QED
        BY <1>2, <4>2, <4>4, <4>5
    <3>2. CASE m.op = "use" /\ m.about \in Databases /\ SendOther(m)
      <4>1. /\ UNCHANGED <<cache, use, closed, wrapper, open, onServer, text, last, misrun>> /\ serverDb' = m.about
            /\ Answer(m, TRUE) /\ AfterSending(<<>>, nested)
        BY <3>2 DEF SendOther, lru
      <4>2. RestType'
        BY <1>0, <1>2, <3>2, <4>1 DEF RestType
      <4> QED
        BY <1>2, <1>4, <4>1, <4>2
    <3>3. CASE m.op = "reset" /\ m.about = None /\ SendOther(m)
      <4>1. /\ UNCHANGED <<cache, use, closed, wrapper, open, text, misrun, serverDb>> /\ onServer' = {} /\ last' = None
            /\ Answer(m, TRUE) /\ AfterSending(<<>>, nested)
        BY <3>3 DEF SendOther, lru
      <4>2. RestType'
        BY <1>0, <1>2, <4>1 DEF RestType
      <4> QED
        BY <1>2, <1>4, <4>1, <4>2
    <3> QED
      BY <1>1, <1>7, <3>1, <3>2, <3>3
  <2>2. ticks' \in Seq(Ticks) /\ nested' \in Seq(Ticks)
    BY <1>0, <1>4, <2>1, AfterSendingDoes
  <2>3. /\ inFlight' \in Seq(Answers) /\ Once(inFlight', "prepare")
        /\ \A x : Has(inFlight', "prepare", x) <=> Has(inFlight, "prepare", x)
        /\ \A i \in DOMAIN inFlight' : inFlight'[i].op = "prepare" /\ inFlight'[i].about \in onServer => inFlight'[i].ok
    <3>0. \A i \in DOMAIN inFlight : inFlight[i].op = "prepare" /\ inFlight[i].about \in onServer => inFlight[i].ok
      BY <1>0 DEF CloseTold, RestType
    <3>1. CASE UNCHANGED inFlight
      BY <1>0, <3>0, <3>1 DEF QueueType, Unanswered
    <3>2. ASSUME NEW ok \in BOOLEAN, Answer(m, ok)
          PROVE  /\ inFlight' \in Seq(Answers) /\ Once(inFlight', "prepare")
                 /\ \A x : Has(inFlight', "prepare", x) <=> Has(inFlight, "prepare", x)
                 /\ \A i \in DOMAIN inFlight' : inFlight'[i].op = "prepare" /\ inFlight'[i].about \in onServer => inFlight'[i].ok
      <4>1. PICK a \in Answers :
           /\ a.op = m.op /\ a.about = m.about /\ a.ok = ok /\ inFlight' = Append(inFlight, a)
           /\ inFlight' \in Seq(Answers)
           /\ \A o, x : Has(inFlight', o, x) <=> Has(inFlight, o, x) \/ (o = m.op /\ x = m.about)
           /\ \A o : Once(inFlight, o) /\ (m.op = o => ~Has(inFlight, o, m.about)) => Once(inFlight', o)
           /\ \A i \in DOMAIN inFlight' : (i \in DOMAIN inFlight /\ inFlight'[i] = inFlight[i])
                                          \/ (i = Len(inFlight) + 1 /\ inFlight'[i] = a)
        BY <1>0, <1>7, <3>2, AnswerDoes
      <4> QED
        BY <1>0, <1>7, <3>0, <4>1 DEF Unanswered
    <3> QED
      BY <2>1, <3>1, <3>2
  <2>4. QueueType'
    BY <1>1, <2>2, <2>3 DEF QueueType
  <2>5. \A o \in {"prepare", "close"} : \A x : Has(sendQueue', o, x) <=> Has(sendQueue, o, x)
    BY <1>1, <1>7
  <2> QED
    BY <1>3, <2>1, <2>3, <2>4, <2>5, LruUntouched
<1>8. CASE m.op = "close" /\ m.about \in Calls /\ SendClose(m.about)
  <2>1. PICK st \in Calls : st = m.about /\ SendClose(st)
    BY <1>8
  <2>2. /\ onServer' = onServer \ {st} /\ last' = (IF last = st THEN None ELSE last) /\ AfterSending(<<>>, nested)
        /\ UNCHANGED <<cache, use, closed, wrapper, open, inFlight, serverDb, text, misrun>>
    BY <2>1 DEF SendClose, lru
  <2>3. LruOK'
    BY <1>0, <1>2, <2>2, LruSame
  <2>4. QueueType'
    <3>1. ticks' \in Seq(Ticks) /\ nested' \in Seq(Ticks)
      BY <1>0, <1>4, <2>2, AfterSendingDoes
    <3> QED
      BY <1>0, <1>1, <2>2, <3>1 DEF QueueType
  <2>5. RestType'
    BY <1>0, <1>2, <2>2 DEF RestType
  <2>6. TypeInv'
    BY <2>3, <2>4, <2>5, TypePartsNext DEF LruOK
  <2>7. Unanswered'
    BY <1>0, <1>1, <1>2, <1>3, <1>8, <2>2 DEF Unanswered
  <2>8. CloseTold'
    BY <1>0, <1>1, <1>8, <2>1, <2>2 DEF CloseTold
  <2> QED
    BY <1>5, <2>3, <2>6, <2>7, <2>8 DEF Closes
<1> QED
  BY <1>1, <1>6, <1>7, <1>8

\* An answer is taken.
LEMMA ReadDoes ==
  ASSUME QueueType, inFlight # <<>>, inFlight' = Tail(inFlight)
  PROVE  \E a \in Answers :
           /\ a = Head(inFlight) /\ 1 \in DOMAIN inFlight /\ inFlight[1] = a
           /\ inFlight' \in Seq(Answers)
           /\ \A o, x : Has(inFlight, o, x) <=> (o = a.op /\ x = a.about) \/ Has(inFlight', o, x)
           /\ \A o : Once(inFlight, o) => Once(inFlight', o) /\ (a.op = o => ~Has(inFlight', o, a.about))
           /\ \A i \in DOMAIN inFlight' : i + 1 \in DOMAIN inFlight /\ inFlight'[i] = inFlight[i + 1]
<1>1. inFlight \in Seq(Answers)
  BY DEF QueueType
<1>2. PICK a \in Answers : a = Head(inFlight)
  BY <1>1, TailElements
<1>3. /\ inFlight' \in Seq(Answers)
      /\ \A i \in DOMAIN inFlight' : i + 1 \in DOMAIN inFlight /\ inFlight'[i] = inFlight[i + 1]
  BY <1>1, TailElements
<1>4. \A o, x : Has(inFlight, o, x) <=> (o = a.op /\ x = a.about) \/ Has(inFlight', o, x)
  BY <1>1, <1>2, HasTail
<1>5. \A o : Once(inFlight, o) => Once(inFlight', o) /\ (a.op = o => ~Has(inFlight', o, a.about))
  BY <1>1, <1>2, OnceTail
<1>6. 1 \in DOMAIN inFlight /\ inFlight[1] = a
  BY <1>1, <1>2
<1> QED
  BY <1>2, <1>3, <1>4, <1>5, <1>6

\* A PREPARE has been answered.
LEMMA ReadPreparedDoes ==
  ASSUME TypeInv, Unanswered, ReadPrepared
  PROVE  \E a \in Answers : \E c \in Calls :
           /\ a = Head(inFlight) /\ a.op = "prepare" /\ a.about = c /\ a.ok /\ 1 \in DOMAIN inFlight /\ inFlight[1] = a
           /\ AllSent /\ ~draining /\ inFlight' = Tail(inFlight)
           /\ inFlight' \in Seq(Answers)
           /\ \A o, x : Has(inFlight, o, x) <=> (o = "prepare" /\ x = c) \/ Has(inFlight', o, x)
           /\ \A o : Once(inFlight, o) => Once(inFlight', o)
           /\ ~Has(inFlight', "prepare", c) /\ ~Has(sendQueue, "prepare", c)
           /\ \A i \in DOMAIN inFlight' : i + 1 \in DOMAIN inFlight /\ inFlight'[i] = inFlight[i + 1]
           /\ how[c] # "none" /\ wrapper[c] = None /\ Key(wants[c][2]) \in Texts
           /\ CacheSet(Key(wants[c][2]), c)
           /\ use' = [use EXCEPT ![c] = 1] /\ wrapper' = [wrapper EXCEPT ![c] = c] /\ open' = open \cup {c}
           /\ bound' = (IF how[c] = "execute" THEN bound \cup {c} ELSE bound)
           /\ ticks' = Append(ticks, Tick("prepared", c))
           /\ UNCHANGED <<database, cacheSize, blocked, nested, draining, how, wants, settled, crashed, client, server>>
<1>0. QueueType /\ RestType
  BY TypeParts
<1>1. inFlight # <<>> /\ inFlight' = Tail(inFlight) /\ Head(inFlight).op = "prepare" /\ Head(inFlight).ok
  BY DEF ReadPrepared, Reading
<1>2. PICK a \in Answers :
           /\ a = Head(inFlight) /\ 1 \in DOMAIN inFlight /\ inFlight[1] = a
           /\ inFlight' \in Seq(Answers)
           /\ \A o, x : Has(inFlight, o, x) <=> (o = a.op /\ x = a.about) \/ Has(inFlight', o, x)
           /\ \A o : Once(inFlight, o) => Once(inFlight', o) /\ (a.op = o => ~Has(inFlight', o, a.about))
           /\ \A i \in DOMAIN inFlight' : i + 1 \in DOMAIN inFlight /\ inFlight'[i] = inFlight[i + 1]
  BY <1>0, <1>1, ReadDoes
<1>3. PICK c \in Calls : c = a.about
  BY <1>1, <1>2, AnswerKinds
<1>4. a.op = "prepare" /\ a.ok /\ Has(inFlight, "prepare", c) /\ ~Has(inFlight', "prepare", c)
  BY <1>1, <1>2, <1>3 DEF Unanswered
<1>5. ~Has(sendQueue, "prepare", c) /\ how[c] # "none" /\ wrapper[c] = None
  BY <1>4 DEF Unanswered
<1>6. Key(wants[c][2]) \in Texts
  BY <1>0, <1>5, TextsOf DEF RestType, Key, Texts
<1>7. \A o, x : Has(inFlight, o, x) <=> (o = "prepare" /\ x = c) \/ Has(inFlight', o, x)
  BY <1>2, <1>3, <1>4
<1>8. /\ AllSent /\ ~draining
      /\ CacheSet(Key(wants[c][2]), c)
      /\ use' = [use EXCEPT ![c] = 1] /\ wrapper' = [wrapper EXCEPT ![c] = c] /\ open' = open \cup {c}
      /\ bound' = (IF how[c] = "execute" THEN bound \cup {c} ELSE bound)
      /\ ticks' = Append(ticks, Tick("prepared", c))
      /\ UNCHANGED <<database, cacheSize, blocked, nested, draining, how, wants, settled, crashed, client, server>>
  BY <1>2, <1>3 DEF ReadPrepared, Reading
<1> QED
  BY <1>1, <1>2, <1>3, <1>4, <1>5, <1>6, <1>7, <1>8

\* The answer of a PREPARE is read.
LEMMA ReadPreparedCloses == ASSUME Closes, ReadPrepared PROVE Closes'
<1>0. TypeInv /\ LruOK /\ Numbered /\ Unanswered /\ CloseTold /\ QueueType /\ RestType
  BY TypeParts DEF Closes
<1>1. PICK a \in Answers : \E c \in Calls :
           /\ a = Head(inFlight) /\ a.op = "prepare" /\ a.about = c /\ a.ok /\ 1 \in DOMAIN inFlight /\ inFlight[1] = a
           /\ AllSent /\ ~draining /\ inFlight' = Tail(inFlight)
           /\ inFlight' \in Seq(Answers)
           /\ \A o, x : Has(inFlight, o, x) <=> (o = "prepare" /\ x = c) \/ Has(inFlight', o, x)
           /\ \A o : Once(inFlight, o) => Once(inFlight', o)
           /\ ~Has(inFlight', "prepare", c) /\ ~Has(sendQueue, "prepare", c)
           /\ \A i \in DOMAIN inFlight' : i + 1 \in DOMAIN inFlight /\ inFlight'[i] = inFlight[i + 1]
           /\ how[c] # "none" /\ wrapper[c] = None /\ Key(wants[c][2]) \in Texts
           /\ CacheSet(Key(wants[c][2]), c)
           /\ use' = [use EXCEPT ![c] = 1] /\ wrapper' = [wrapper EXCEPT ![c] = c] /\ open' = open \cup {c}
           /\ bound' = (IF how[c] = "execute" THEN bound \cup {c} ELSE bound)
           /\ ticks' = Append(ticks, Tick("prepared", c))
           /\ UNCHANGED <<database, cacheSize, blocked, nested, draining, how, wants, settled, crashed, client, server>>
  BY <1>0, ReadPreparedDoes
<1>2. PICK c \in Calls :
           /\ a.about = c
           /\ inFlight' \in Seq(Answers)
           /\ \A o, x : Has(inFlight, o, x) <=> (o = "prepare" /\ x = c) \/ Has(inFlight', o, x)
           /\ \A o : Once(inFlight, o) => Once(inFlight', o)
           /\ ~Has(inFlight', "prepare", c) /\ ~Has(sendQueue, "prepare", c)
           /\ \A i \in DOMAIN inFlight' : i + 1 \in DOMAIN inFlight /\ inFlight'[i] = inFlight[i + 1]
           /\ how[c] # "none" /\ wrapper[c] = None /\ Key(wants[c][2]) \in Texts
           /\ CacheSet(Key(wants[c][2]), c)
           /\ use' = [use EXCEPT ![c] = 1] /\ wrapper' = [wrapper EXCEPT ![c] = c] /\ open' = open \cup {c}
           /\ bound' = (IF how[c] = "execute" THEN bound \cup {c} ELSE bound)
           /\ ticks' = Append(ticks, Tick("prepared", c))
           /\ UNCHANGED <<database, cacheSize, blocked, nested, draining, how, wants, settled, crashed, client, server>>
  BY <1>1
<1>3. UNCHANGED <<database, cacheSize, blocked, nested, draining, how, wants, settled, crashed, session, resetting, changes,
                  serverDb, onServer, text, last, misrun>>
  BY <1>2 DEF client, server
<1>4. PICK key \in Texts : key = Key(wants[c][2])
  BY <1>2
<1>5. LruOK' /\ Closing
  BY <1>0, <1>2, <1>4, CacheSetKeeps DEF QueueType
<1>6. /\ sendQueue' \in Seq(Commands) /\ closed \subseteq closed'
      /\ \A o, x : Has(sendQueue', o, x) <=> Has(sendQueue, o, x) \/ (o = "close" /\ x \in closed' \ closed)
      /\ \A o : o # "close" /\ Once(sendQueue, o) => Once(sendQueue', o)
  BY <1>0, <1>5, ClosingAdds DEF QueueType
<1>7. QueueType'
  <2>1. ticks \in Seq(Ticks) /\ Tick("prepared", c) \in Ticks
    BY <1>0, CallTick DEF QueueType
  <2>2. ticks' = Append(ticks, Tick("prepared", c))
    BY <1>2
  <2>3. ticks' \in Seq(Ticks)
    BY <2>1, <2>2
  <2> QED
    BY <1>0, <1>2, <1>3, <1>6, <2>3 DEF QueueType
<1>8. RestType'
  <2>1. bound' \subseteq Calls
    BY <1>0, <1>2 DEF RestType
  <2> QED
    BY <1>0, <1>3, <2>1 DEF RestType
<1>9. TypeInv'
  BY <1>5, <1>7, <1>8, TypePartsNext DEF LruOK
<1>10. Numbered'
  BY <1>0, <1>3 DEF Numbered
<1>11. \A d \in Calls : wrapper'[d] = IF d = c THEN c ELSE wrapper[d]
  BY <1>0, <1>2 DEF LruOK, LruType
<1>12. Unanswered'
  <2>1. Once(sendQueue', "prepare") /\ Once(inFlight', "prepare")
    BY <1>0, <1>2, <1>6 DEF Unanswered
  <2> SUFFICES ASSUME NEW d \in Calls
               PROVE  /\ Has(sendQueue', "prepare", d) => ~Has(inFlight', "prepare", d)
                      /\ Has(sendQueue', "prepare", d) \/ Has(inFlight', "prepare", d) => how'[d] # "none" /\ wrapper'[d] = None
                      /\ how'[d] = "none" => wrapper'[d] = None
    BY <2>1 DEF Unanswered
  <2> QED
    BY <1>0, <1>2, <1>3, <1>6, <1>11 DEF Unanswered
<1>13. CloseTold'
  <2>1. \A i \in DOMAIN inFlight' : inFlight'[i].op = "prepare" /\ inFlight'[i].about \in onServer => inFlight'[i].ok
    BY <1>0, <1>2 DEF CloseTold, RestType
  <2>2. \A st \in closed' \ closed : st \in Calls /\ st # c
    <3>1. c \notin closed'
      <4>1. c \in Users(c)'
        BY <1>2, <1>11 DEF Users
      <4> QED
        BY <1>5, <4>1 DEF LruOK, Counted
    <3> QED
      BY <1>5, <3>1 DEF LruOK, LruType
  <2>3. \A st \in Calls : st \in closed' => Has(sendQueue', "close", st) \/ st \notin onServer
    BY <1>0, <1>6 DEF CloseTold
  <2> QED
    BY <1>0, <1>2, <1>3, <1>6, <1>11, <2>1, <2>2, <2>3 DEF CloseTold
<1> QED
  BY <1>5, <1>9, <1>10, <1>12, <1>13 DEF Closes

\* Any other answer: what the connection makes of it.
LEMMA ReadOtherDoes ==
  ASSUME QueueType, ReadOther
  PROVE  \E a \in Answers :
           /\ a = Head(inFlight) /\ 1 \in DOMAIN inFlight /\ inFlight[1] = a
           /\ AllSent /\ ~draining /\ inFlight # <<>> /\ inFlight' = Tail(inFlight)
           /\ inFlight' \in Seq(Answers)
           /\ \A o, x : Has(inFlight, o, x) <=> (o = a.op /\ x = a.about) \/ Has(inFlight', o, x)
           /\ \A o : Once(inFlight, o) => Once(inFlight', o) /\ (a.op = o => ~Has(inFlight', o, a.about))
           /\ \A i \in DOMAIN inFlight' : i + 1 \in DOMAIN inFlight /\ inFlight'[i] = inFlight[i + 1]
           /\ database' = (IF a.op = "use" THEN a.about ELSE database)
           /\ \/ a.op = "use" /\ a.about \in Databases /\ UNCHANGED ticks
              \/ a.op = "reset" /\ a.about = None /\ ticks' = Append(ticks, Tick("reset", None))
              \/ a.op = "execute" /\ a.ok /\ a.about \in Calls /\ ticks' = Append(ticks, Tick("executed", a.about))
              \/ a.op \in {"prepare", "execute"} /\ ~a.ok /\ a.about \in Calls /\ ticks' = Append(ticks, Tick("refused", a.about))
           /\ UNCHANGED <<cacheSize, lru, sendQueue, blocked, nested, draining, calls, client, server>>
<1>1. /\ inFlight # <<>> /\ inFlight' = Tail(inFlight) /\ AllSent /\ ~draining
      /\ UNCHANGED <<cacheSize, lru, sendQueue, blocked, nested, draining, calls, client, server>>
  BY DEF ReadOther
<1>2. PICK a \in Answers :
           /\ a = Head(inFlight) /\ 1 \in DOMAIN inFlight /\ inFlight[1] = a
           /\ inFlight' \in Seq(Answers)
           /\ \A o, x : Has(inFlight, o, x) <=> (o = a.op /\ x = a.about) \/ Has(inFlight', o, x)
           /\ \A o : Once(inFlight, o) => Once(inFlight', o) /\ (a.op = o => ~Has(inFlight', o, a.about))
           /\ \A i \in DOMAIN inFlight' : i + 1 \in DOMAIN inFlight /\ inFlight'[i] = inFlight[i + 1]
  BY <1>1, ReadDoes
<1>3. /\ a.op = "prepare" => ~a.ok
      /\ database' = (IF a.op = "use" THEN a.about ELSE database)
      /\ ticks' = CASE a.op = "use" -> ticks
                    [] a.op = "reset" -> Append(ticks, Tick("reset", None))
                    [] a.op = "execute" /\ a.ok -> Append(ticks, Tick("executed", a.about))
                    [] OTHER -> Append(ticks, Tick("refused", a.about))
  BY <1>2 DEF ReadOther
<1>4. \/ a.op = "use" /\ a.about \in Databases /\ UNCHANGED ticks
      \/ a.op = "reset" /\ a.about = None /\ ticks' = Append(ticks, Tick("reset", None))
      \/ a.op = "execute" /\ a.ok /\ a.about \in Calls /\ ticks' = Append(ticks, Tick("executed", a.about))
      \/ a.op \in {"prepare", "execute"} /\ ~a.ok /\ a.about \in Calls /\ ticks' = Append(ticks, Tick("refused", a.about))
  <2>1. CASE a.op = "use"
    BY <1>3, <2>1, AnswerKinds
  <2>2. CASE a.op = "reset"
    BY <1>3, <2>2, AnswerKinds
  <2>3. CASE a.op = "execute" /\ a.ok
    BY <1>3, <2>3, AnswerKinds
  <2>4. CASE a.op \in {"prepare", "execute"} /\ ~a.ok
    BY <1>3, <2>4, AnswerKinds
  <2>5. a.ok \in BOOLEAN
    BY AnswerKinds
  <2> QED
    BY <1>3, <2>1, <2>2, <2>3, <2>4, <2>5, AnswerKinds
<1> QED
  BY <1>1, <1>2, <1>3, <1>4

\* reset() has been answered.
LEMMA ResetTicked ==
  ASSUME NEW s \in Seq(Ticks), NEW u, u = Append(s, Tick("reset", None))
  PROVE  /\ u \in Seq(Ticks)
         /\ \A o, x : Has(u, o, x) <=> Has(s, o, x) \/ (o = "reset" /\ x = None)
         /\ \A o : Once(s, o) /\ (o = "reset" => ~Has(s, o, None)) => Once(u, o)
<1>1. PICK e \in Ticks : e = Tick("reset", None) /\ e.op = "reset" /\ e.about = None
  <2>1. Tick("reset", None) \in Ticks /\ Tick("reset", None).op = "reset" /\ Tick("reset", None).about = None
    BY DEF Tick, Ticks
  <2> QED
    BY <2>1
<1>2. Append(s, e) \in Seq(Ticks)
  OBVIOUS
<1>3. \A o, x : Has(Append(s, e), o, x) <=> Has(s, o, x) \/ (o = e.op /\ x = e.about)
  BY HasAppend
<1>4. \A o : Once(s, o) /\ (e.op = o => ~Has(s, o, e.about)) => Once(Append(s, e), o)
  BY OnceAppend
<1> QED
  BY <1>1, <1>2, <1>3, <1>4

\* Another answer is read.
LEMMA ReadOtherCloses == ASSUME Closes, ReadOther PROVE Closes'
<1>0. LruOK /\ Numbered /\ Unanswered /\ CloseTold /\ QueueType /\ RestType
  BY TypeParts DEF Closes
<1>1. PICK a \in Answers :
           /\ 1 \in DOMAIN inFlight /\ inFlight[1] = a
           /\ inFlight' \in Seq(Answers)
           /\ \A o, x : Has(inFlight, o, x) <=> (o = a.op /\ x = a.about) \/ Has(inFlight', o, x)
           /\ \A o : Once(inFlight, o) => Once(inFlight', o) /\ (a.op = o => ~Has(inFlight', o, a.about))
           /\ \A i \in DOMAIN inFlight' : i + 1 \in DOMAIN inFlight /\ inFlight'[i] = inFlight[i + 1]
           /\ database' = (IF a.op = "use" THEN a.about ELSE database)
           /\ \/ a.op = "use" /\ a.about \in Databases /\ UNCHANGED ticks
              \/ a.op = "reset" /\ a.about = None /\ ticks' = Append(ticks, Tick("reset", None))
              \/ a.op = "execute" /\ a.ok /\ a.about \in Calls /\ ticks' = Append(ticks, Tick("executed", a.about))
              \/ a.op \in {"prepare", "execute"} /\ ~a.ok /\ a.about \in Calls /\ ticks' = Append(ticks, Tick("refused", a.about))
           /\ UNCHANGED <<cacheSize, lru, sendQueue, blocked, nested, draining, calls, client, server>>
  BY <1>0, ReadOtherDoes
<1>2. UNCHANGED <<cacheSize, cache, use, closed, sendQueue, blocked, nested, draining, how, wants, wrapper, bound, open,
                  settled, crashed, session, resetting, changes, serverDb, onServer, text, last, misrun>>
  BY <1>1 DEF lru, calls, client, server
<1>3. ticks' \in Seq(Ticks)
  BY <1>0, <1>1, TickAppended, ResetTicked DEF QueueType
<1>4. QueueType'
  BY <1>0, <1>1, <1>2, <1>3 DEF QueueType
<1>5. RestType'
  <2>1. database' \in Databases
    BY <1>0, <1>1 DEF RestType
  <2> QED
    BY <1>0, <1>2, <2>1 DEF RestType
<1>6. \A i \in DOMAIN inFlight : inFlight[i].op = "prepare" /\ inFlight[i].about \in onServer => inFlight[i].ok
  BY <1>0 DEF CloseTold, RestType
<1>7. \A i \in DOMAIN inFlight' : inFlight'[i].op = "prepare" /\ inFlight'[i].about \in onServer => inFlight'[i].ok
  BY <1>1, <1>6
<1>8. \A x \in onServer : Has(inFlight, "prepare", x) => Has(inFlight', "prepare", x)
  BY <1>1, <1>6
<1>9. Once(sendQueue', "prepare") /\ Once(inFlight', "prepare")
  BY <1>0, <1>1, <1>2 DEF Unanswered
<1>10. /\ \A o \in {"prepare", "close"} : \A x : Has(sendQueue', o, x) <=> Has(sendQueue, o, x)
       /\ \A x : Has(inFlight', "prepare", x) => Has(inFlight, "prepare", x)
       /\ onServer' \subseteq onServer
  BY <1>1, <1>2
<1> QED
  BY <1>2, <1>4, <1>5, <1>7, <1>8, <1>9, <1>10, LruUntouched

\* A callback is run.
LEMMA CallbackDoes ==
  ASSUME QueueType, NEW cb, NEW c, Callback(cb, c)
  PROVE  /\ AllSent /\ ticks # <<>> /\ Has(ticks, cb, c) /\ ticks' \in Seq(Ticks) /\ ticks' = Tail(ticks)
         /\ draining' \in BOOLEAN
         /\ \A o, x : Has(ticks, o, x) <=> (o = cb /\ x = c) \/ Has(ticks', o, x)
         /\ \A o : Once(ticks, o) => Once(ticks', o) /\ (o = cb => ~Has(ticks', o, c))
         /\ UNCHANGED <<database, cacheSize, blocked, nested, inFlight, how, wants, wrapper, session, changes,
                        serverDb, onServer, text, last, misrun>>
<1>1. ticks \in Seq(Ticks) /\ ticks # <<>> /\ Head(ticks).op = cb /\ Head(ticks).about = c /\ ticks' = Tail(ticks)
  BY DEF QueueType, Callback, Tick
<1>2. ticks' \in Seq(Ticks)
  BY <1>1
<1>3. \A o, x : Has(ticks, o, x) <=> (o = Head(ticks).op /\ x = Head(ticks).about) \/ Has(Tail(ticks), o, x)
  BY <1>1, HasTail
<1>4. \A o : Once(ticks, o) => Once(Tail(ticks), o) /\ (Head(ticks).op = o => ~Has(Tail(ticks), o, Head(ticks).about))
  BY <1>1, OnceTail
<1>5. AllSent /\ draining' \in BOOLEAN
      /\ UNCHANGED <<database, cacheSize, blocked, nested, inFlight, how, wants, wrapper, session, changes,
                        serverDb, onServer, text, last, misrun>>
  BY DEF Callback, server
<1> QED
  BY <1>1, <1>2, <1>3, <1>4, <1>5

\* Callbacks that close the wrapper of a call, or nothing, or schedule an EXECUTE.
LEMMA CallbackCloses ==
  ASSUME Closes, NEW cb, NEW c, Callback(cb, c), NEW d \in Calls, RestType',
         \/ CloseWrapper(d)
         \/ UNCHANGED <<cache, use, closed, open, sendQueue>>
         \/ UNCHANGED <<cache, use, closed, open>> /\ sendQueue' = Append(sendQueue, Command("execute", d))
  PROVE  Closes'
<1>0. LruOK /\ Numbered /\ Unanswered /\ CloseTold /\ QueueType
  BY TypeParts DEF Closes
<1>1. /\ ticks' \in Seq(Ticks)
      /\ UNCHANGED <<cacheSize, nested, inFlight, how, wants, wrapper, onServer>>
  BY <1>0, CallbackDoes
<1>2. /\ LruOK' /\ sendQueue' \in Seq(Commands) /\ closed \subseteq closed'
      /\ \A o \in {"prepare", "close"} : \A x :
           Has(sendQueue', o, x) <=> Has(sendQueue, o, x) \/ (o = "close" /\ x \in closed' \ closed)
      /\ Once(sendQueue', "prepare")
  <2>1. CASE CloseWrapper(d)
    <3>1. LruOK' /\ Closing
      BY <1>0, <1>1, <2>1, CloseWrapperKeeps DEF QueueType
    <3>2. /\ sendQueue' \in Seq(Commands) /\ closed \subseteq closed'
          /\ \A o, x : Has(sendQueue', o, x) <=> Has(sendQueue, o, x) \/ (o = "close" /\ x \in closed' \ closed)
          /\ \A o : o # "close" /\ Once(sendQueue, o) => Once(sendQueue', o)
      BY <1>0, <3>1, ClosingAdds DEF QueueType
    <3> QED
      BY <1>0, <3>1, <3>2 DEF Unanswered
  <2>2. CASE UNCHANGED <<cache, use, closed, open, sendQueue>>
    <3>1. LruOK'
      BY <1>0, <1>1, <2>2, LruSame
    <3> QED
      BY <1>0, <2>2, <3>1 DEF QueueType, Unanswered
  <2>3. CASE UNCHANGED <<cache, use, closed, open>> /\ sendQueue' = Append(sendQueue, Command("execute", d))
    <3>1. LruOK'
      BY <1>0, <1>1, <2>3, LruSame
    <3>2. PICK m \in Commands : m = Command("execute", d) /\ m.op = "execute"
      BY CallCommand
    <3>3. sendQueue' = Append(sendQueue, m) /\ sendQueue \in Seq(Commands)
      BY <1>0, <2>3, <3>2 DEF QueueType
    <3>4. \A o, x : Has(sendQueue', o, x) <=> Has(sendQueue, o, x) \/ (o = m.op /\ x = m.about)
      BY <3>3, HasAppend
    <3>5. sendQueue' \in Seq(Commands) /\ Once(sendQueue', "prepare")
      BY <1>0, <3>2, <3>3, OnceAppend DEF Unanswered
    <3> QED
      BY <2>3, <3>1, <3>2, <3>4, <3>5
  <2> QED
    BY <2>1, <2>2, <2>3
<1>3. TypeInv'
  <2>1. QueueType'
    BY <1>0, <1>1, <1>2 DEF QueueType
  <2> QED
    BY <1>2, <2>1, TypePartsNext DEF LruOK
<1>4. Numbered'
  BY <1>0, <1>1 DEF Numbered
<1>5. Unanswered'
  BY <1>0, <1>1, <1>2 DEF Unanswered
<1>6. CloseTold'
  BY <1>0, <1>1, <1>2 DEF CloseTold
<1> QED
  BY <1>2, <1>3, <1>4, <1>5, <1>6 DEF Closes

\* A prepare is resolved.
LEMMA PreparedCloses == ASSUME Closes, NEW c \in Calls, Prepared(c) PROVE Closes'
<1>0. QueueType /\ RestType
  BY TypeParts DEF Closes
<1>1. Callback("prepared", c)
  BY DEF Prepared
<1>2. RestType'
  <2>1. draining' \in BOOLEAN /\ bound' \subseteq Calls /\ settled' \subseteq Calls
    BY <1>0, <1>1, CallbackDoes DEF RestType, Prepared
  <2>2. UNCHANGED <<database, cacheSize, blocked, how, wants, session, changes, serverDb, onServer, text, last, misrun, crashed, resetting>>
    BY <1>0, <1>1, CallbackDoes DEF Prepared
  <2> QED
    BY <1>0, <2>1, <2>2 DEF RestType
<1>3. \/ CloseWrapper(c)
      \/ UNCHANGED <<cache, use, closed, open, sendQueue>>
      \/ UNCHANGED <<cache, use, closed, open>> /\ sendQueue' = Append(sendQueue, Command("execute", c))
  BY DEF Prepared, lru
<1> QED
  BY <1>1, <1>2, <1>3, CallbackCloses

\* A call has its result or its error.
LEMMA AnsweredCloses ==
  ASSUME Closes, NEW c \in Calls, NEW cb \in {"executed", "refused"}, Answered(c, cb)
  PROVE  Closes'
<1>0. QueueType /\ RestType
  BY TypeParts DEF Closes
<1>1. Callback(cb, c)
  BY DEF Answered
<1>2. RestType'
  <2>1. draining' \in BOOLEAN /\ settled' \subseteq Calls /\ crashed' \in BOOLEAN
    BY <1>0, <1>1, CallbackDoes DEF RestType, Answered
  <2>2. UNCHANGED <<database, cacheSize, blocked, how, wants, session, changes, serverDb, onServer, text, last, misrun, bound, resetting>>
    BY <1>0, <1>1, CallbackDoes DEF Answered
  <2> QED
    BY <1>0, <2>1, <2>2 DEF RestType
<1>3. \/ CloseWrapper(c)
      \/ UNCHANGED <<cache, use, closed, open, sendQueue>>
  BY DEF Answered, lru
<1> QED
  BY <1>1, <1>2, <1>3, CallbackCloses

\* reset() has been answered, and empties the LRU.
LEMMA ResetDoneCloses == ASSUME Closes, ResetDone PROVE Closes'
<1>0. LruOK /\ Numbered /\ Unanswered /\ CloseTold /\ QueueType /\ RestType
  BY TypeParts DEF Closes
<1>1. /\ Callback("reset", None) /\ cache' = <<>> /\ UnCache(cache) /\ resetting' = FALSE
      /\ UNCHANGED <<use, open, bound, settled, crashed>>
  BY DEF ResetDone
<1>2. /\ ticks' \in Seq(Ticks) /\ draining' \in BOOLEAN
      /\ UNCHANGED <<database, cacheSize, blocked, nested, inFlight, how, wants, wrapper, session, changes,
                        serverDb, onServer, text, last, misrun>>
  BY <1>0, <1>1, CallbackDoes
<1>3. LruOK' /\ Closing
  BY <1>0, <1>1, <1>2, ClearKeeps DEF QueueType
<1>4. /\ sendQueue' \in Seq(Commands) /\ closed \subseteq closed'
      /\ \A o, x : Has(sendQueue', o, x) <=> Has(sendQueue, o, x) \/ (o = "close" /\ x \in closed' \ closed)
      /\ \A o : o # "close" /\ Once(sendQueue, o) => Once(sendQueue', o)
  BY <1>0, <1>3, ClosingAdds DEF QueueType
<1>5. TypeInv'
  <2>1. QueueType'
    BY <1>0, <1>2, <1>4 DEF QueueType
  <2>2. RestType'
    BY <1>0, <1>1, <1>2 DEF RestType
  <2> QED
    BY <1>3, <2>1, <2>2, TypePartsNext DEF LruOK
<1>6. Numbered'
  BY <1>0, <1>2 DEF Numbered
<1>7. Unanswered'
  BY <1>0, <1>2, <1>4 DEF Unanswered
<1>8. CloseTold'
  BY <1>0, <1>2, <1>4 DEF CloseTold
<1> QED
  BY <1>3, <1>5, <1>6, <1>7, <1>8 DEF Closes

\* A step that changes nothing.
LEMMA StutterCloses == ASSUME Closes, UNCHANGED vars PROVE Closes'
<1>0. LruOK /\ Numbered /\ Unanswered /\ CloseTold /\ QueueType /\ RestType
  BY TypeParts DEF Closes
<1> USE DEF vars, lru, queues, calls, client, server
<1>1. LruOK'
  BY <1>0, LruSame
<1>2. TypeInv'
  BY <1>0, <1>1, TypePartsNext DEF LruOK, QueueType, RestType
<1>3. Numbered' /\ Unanswered' /\ CloseTold'
  BY <1>0 DEF Numbered, Unanswered, CloseTold
<1> QED
  BY <1>1, <1>2, <1>3 DEF Closes

\* The actions, one by one.
LEMMA NextCases ==
  ASSUME [Next]_vars
  PROVE  \/ \E c \in Calls, sql \in Sqls, kind \in {"prepare", "execute", "late"} : Asks(c, sql, kind)
         \/ \E c \in Calls : ExecutePrepared(c)
         \/ \E c \in Calls : ClosePrepared(c)
         \/ \E c \in Calls : Prepared(c)
         \/ \E c \in Calls, cb \in {"executed", "refused"} : Answered(c, cb)
         \/ \E db \in Databases : Use(db)
         \/ Reset \/ StreamStarts \/ StreamEnds
         \/ SendNext \/ ReadPrepared \/ ReadOther \/ ResetDone \/ UNCHANGED vars
<1>1. ASSUME NEW c \in Calls, NEW sql \in Sqls, Prepare(c, sql)
      PROVE  \E kind \in {"prepare", "execute", "late"} : Asks(c, sql, kind)
  <2>1. Asks(c, sql, "prepare")
    BY <1>1 DEF Asks
  <2> QED
    BY <2>1
<1>2. ASSUME NEW c \in Calls, NEW sql \in Sqls, NEW k \in {"execute", "late"}, Execute(c, sql, k)
      PROVE  \E kind \in {"prepare", "execute", "late"} : Asks(c, sql, kind)
  <2>1. Asks(c, sql, k) /\ k \in {"prepare", "execute", "late"}
    BY <1>2 DEF Asks
  <2> QED
    BY <2>1
<1> QED
  BY <1>1, <1>2 DEF Next

\* Each step keeps Closes.
LEMMA NextCloses == ASSUME Closes, [Next]_vars PROVE Closes'
BY NextCases, AskCloses, ExecutePreparedCloses, ClosePreparedCloses, PreparedCloses, AnsweredCloses, UseCloses, ResetCloses,
   StreamCloses, SendNextCloses, ReadPreparedCloses, ReadOtherCloses, ResetDoneCloses, StutterCloses

\* Closes always holds.
LEMMA AlwaysCloses == Spec => []Closes
BY InitCloses, NextCloses, PTL DEF Spec

\* Types: the variables of the connection, its client and its server keep their types.
THEOREM PrepareCacheTypeCorrect == Spec => []TypeOK
<1>1. Closes => TypeOK
  BY DEF Closes, TypeInv
<1> QED
  BY <1>1, AlwaysCloses, PTL

\* Whatever the client does (a USE it does not wait for, a reset() in the middle of its calls), a
\* statement is closed exactly when it has left the LRU and every wrapper of it is closed: use counts
\* of prepare-cache-wrapper.js neither leak nor go below the users there are.
THEOREM ClosedExactlyWhenUnused == Spec => []ClosedWhenUnused
<1>1. Closes => ClosedWhenUnused
  BY DEF Closes, LruOK, Counted, ClosedWhenUnused, Users
<1> QED
  BY <1>1, AlwaysCloses, PTL
-----------------------------------------------------------------------------
(***************************************************************************)
(* What holds if the client waits for the end of a stream before it calls  *)
(* execute(): the stages of a call.                                        *)
(***************************************************************************)
\* PREPARE and EXECUTE of call c are about to be sent together.
Together(c) ==
  /\ ~blocked /\ sendQueue = <<Command("prepare", c), Command("execute", c)>>
  /\ Found(Key(wants[c][2])) = {}

\* An EXECUTE that does not know its statement comes right after the PREPARE of the call.
AtOnce(c) ==
  \/ Together(c)
  \/ ~blocked /\ sendQueue = <<Command("execute", c)>> /\ Has(inFlight, "prepare", c) /\ last \in {c, None}

Replied(c) == Comes("executed", c) \/ Comes("refused", c)

Queued(c) == Has(sendQueue, "prepare", c) =>
  /\ c \notin bound /\ c \notin settled /\ ~Comes("prepared", c) /\ ~Replied(c)
  /\ ~Has(inFlight, "execute", c)
  /\ how[c] = "execute" => Together(c)
  /\ how[c] # "execute" => ~Has(sendQueue, "execute", c)

Sent(c) == Has(inFlight, "prepare", c) =>
  /\ c \notin bound /\ ~Comes("prepared", c)
  /\ how[c] # "execute" =>
       c \notin settled /\ ~Has(sendQueue, "execute", c) /\ ~Has(inFlight, "execute", c) /\ ~Replied(c)

Resolving(c) == Comes("prepared", c) =>
  /\ how[c] # "none"
  /\ how[c] = "execute" => c \in bound
  /\ how[c] # "execute" =>
       /\ c \in open /\ c \notin bound /\ c \notin settled
       /\ ~Has(sendQueue, "execute", c) /\ ~Has(inFlight, "execute", c) /\ ~Replied(c)

Executing(c) ==
  /\ Has(sendQueue, "execute", c) =>
       /\ how[c] # "none" /\ ~Has(inFlight, "execute", c) /\ ~Replied(c)
       /\ c \notin bound => how[c] = "execute" /\ AtOnce(c)
       /\ how[c] # "prepare" => c \notin settled /\ (c \in bound => c \in open)
  /\ Has(inFlight, "execute", c) => how[c] # "none" /\ (c \in bound \/ how[c] = "execute")
  /\ Comes("executed", c) => c \in bound
  /\ Comes("refused", c) => how[c] # "none" /\ (c \in bound \/ how[c] = "execute" \/ c \notin open)

Holding(c) ==
  /\ c \in open /\ how[c] = "execute" => c \in bound
  /\ c \in open /\ c \in settled /\ how[c] # "prepare" => how[c] = "execute" /\ Comes("prepared", c)
  /\ c \in open \/ c \in bound \/ c \in settled => how[c] # "none"

\* What will settle a call is under way.
Preparing(c) == Has(sendQueue, "prepare", c) \/ Has(inFlight, "prepare", c) \/ Comes("prepared", c)
Expected(c) ==
  \/ how[c] = "none" \/ c \in settled \/ Comes("refused", c)
  \/ (how[c] = "prepare" \/ (how[c] = "late" /\ c \notin bound)) /\ Preparing(c)
  \/ /\ how[c] = "execute" \/ (how[c] = "late" /\ c \in bound)
     /\ Has(sendQueue, "execute", c) \/ Has(inFlight, "execute", c) \/ Comes("executed", c)

Stage(c) == Queued(c) /\ Sent(c) /\ Resolving(c) /\ Executing(c) /\ Holding(c) /\ Expected(c)

\* The result of an EXECUTE is read when its statement is known.
Backed ==
  \A j \in DOMAIN inFlight : inFlight[j].op = "execute" /\ inFlight[j].ok =>
    \/ inFlight[j].about \in bound
    \/ \E i \in DOMAIN inFlight : i < j /\ inFlight[i].op = "prepare" /\ inFlight[i].ok /\ inFlight[i].about = inFlight[j].about

DueOnce == Once(sendQueue, "execute") /\ OnceComes("prepared")

NestedNow == AllSent => nested = <<>>

Stages == NestedNow /\ DueOnce /\ Backed /\ (\A c \in Calls : Stage(c)) /\ ~crashed

SameCall(c) ==
  /\ how'[c] = how[c]
  /\ c \in bound' <=> c \in bound
  /\ c \in settled' <=> c \in settled
  /\ c \in open' <=> c \in open
  /\ \A o \in {"prepare", "execute"} :
       (Has(sendQueue', o, c) <=> Has(sendQueue, o, c)) /\ (Has(inFlight', o, c) <=> Has(inFlight, o, c))
  /\ \A o \in {"prepared", "executed", "refused"} : Comes(o, c)' <=> Comes(o, c)

\* What is under way for a call is what it was.
LEMMA SameAtoms ==
  ASSUME NEW c, SameCall(c)
  PROVE  /\ how'[c] = how[c]
         /\ c \in bound' <=> c \in bound
         /\ c \in settled' <=> c \in settled
         /\ c \in open' <=> c \in open
         /\ Has(sendQueue', "prepare", c) <=> Has(sendQueue, "prepare", c)
         /\ Has(sendQueue', "execute", c) <=> Has(sendQueue, "execute", c)
         /\ Has(inFlight', "prepare", c) <=> Has(inFlight, "prepare", c)
         /\ Has(inFlight', "execute", c) <=> Has(inFlight, "execute", c)
         /\ Comes("prepared", c)' <=> Comes("prepared", c)
         /\ Comes("executed", c)' <=> Comes("executed", c)
         /\ Comes("refused", c)' <=> Comes("refused", c)
BY DEF SameCall

\* A call that a step is not about stays in its stage.
LEMMA StageKept ==
  ASSUME NEW c, Stage(c), SameCall(c),
         Has(sendQueue, "prepare", c) /\ how[c] = "execute" => Together(c)',
         Has(sendQueue, "execute", c) /\ c \notin bound => AtOnce(c)'
  PROVE  Stage(c)'
<1>0. /\ how'[c] = how[c]
      /\ c \in bound' <=> c \in bound
      /\ c \in settled' <=> c \in settled
      /\ c \in open' <=> c \in open
      /\ Has(sendQueue', "prepare", c) <=> Has(sendQueue, "prepare", c)
      /\ Has(sendQueue', "execute", c) <=> Has(sendQueue, "execute", c)
      /\ Has(inFlight', "prepare", c) <=> Has(inFlight, "prepare", c)
      /\ Has(inFlight', "execute", c) <=> Has(inFlight, "execute", c)
      /\ Comes("prepared", c)' <=> Comes("prepared", c)
      /\ Comes("executed", c)' <=> Comes("executed", c)
      /\ Comes("refused", c)' <=> Comes("refused", c)
  BY SameAtoms
<1>1. Queued(c) /\ Sent(c) /\ Resolving(c) /\ Executing(c) /\ Holding(c) /\ Expected(c)
  BY DEF Stage
<1>2. Queued(c)'
  BY <1>0, <1>1 DEF Queued, Replied
<1>3. Sent(c)'
  BY <1>0, <1>1 DEF Sent, Replied
<1>4. Resolving(c)'
  BY <1>0, <1>1 DEF Resolving, Replied
<1>5. Executing(c)'
  BY <1>0, <1>1 DEF Executing, Replied
<1>6. Holding(c)'
  BY <1>0, <1>1 DEF Holding
<1>7. Expected(c)'
  BY <1>0, <1>1 DEF Expected, Preparing
<1> QED
  BY <1>2, <1>3, <1>4, <1>5, <1>6, <1>7 DEF Stage

\* Nothing waits to be sent right after its PREPARE while the client or the server has its turn.
LEMMA AllSentStage ==
  ASSUME NEW c, Stage(c), AllSent
  PROVE  /\ Has(sendQueue, "prepare", c) => how[c] # "execute"
         /\ Has(sendQueue, "execute", c) => c \in bound
<1>1. ~Together(c)
  <2>1. <<Command("prepare", c), Command("execute", c)>> # <<>>
    OBVIOUS
  <2> QED
    BY <2>1 DEF Together, AllSent
<1>2. ~AtOnce(c)
  <2>1. <<Command("execute", c)>> # <<>>
    OBVIOUS
  <2> QED
    BY <1>1, <2>1 DEF AtOnce, AllSent
<1> QED
  BY <1>1, <1>2 DEF Stage, Queued, Executing

\* A step that is not about a call, while all is sent.
LEMMA StageLeft ==
  ASSUME NEW c, Stage(c), SameCall(c), AllSent
  PROVE  Stage(c)'
BY AllSentStage, StageKept

\* What is backed stays so while nothing is read or sent.
LEMMA BackedKept == ASSUME Backed, UNCHANGED inFlight, bound \subseteq bound' PROVE Backed'
BY DEF Backed

\* A call that has not been made has nothing under way.
LEMMA NothingYet ==
  ASSUME Unanswered, NEW c \in Calls, Stage(c), how[c] = "none"
  PROVE  /\ \A o \in {"prepare", "execute"} : ~Has(sendQueue, o, c) /\ ~Has(inFlight, o, c)
         /\ ~Comes("prepared", c) /\ ~Comes("executed", c) /\ ~Comes("refused", c)
         /\ c \notin open /\ c \notin bound /\ c \notin settled
<1>1. ~Has(sendQueue, "prepare", c) /\ ~Has(inFlight, "prepare", c)
  BY DEF Unanswered
<1>2. ~Has(sendQueue, "execute", c) /\ ~Has(inFlight, "execute", c)
  BY DEF Stage, Executing
<1>3. c \notin open /\ c \notin bound /\ c \notin settled
  BY DEF Stage, Holding
<1>4. ~Comes("prepared", c) /\ ~Comes("executed", c) /\ ~Comes("refused", c)
  BY <1>3 DEF Stage, Executing, Resolving
<1> QED
  BY <1>1, <1>2, <1>3, <1>4

\* What comes is what came if the callbacks are the same.
LEMMA ComesSame == ASSUME UNCHANGED <<ticks, nested>> PROVE (\A o, x : Comes(o, x)' <=> Comes(o, x)) /\ \A o : OnceComes(o)' <=> OnceComes(o)
BY DEF Comes, OnceComes

\* prepare() and execute(): a call starts, with its EXECUTE behind its PREPARE or with its statement known.
LEMMA AskStages ==
  ASSUME Closes, Stages, "stream" \notin Careless,
         NEW c \in Calls, NEW sql \in Sqls, NEW kind \in {"prepare", "execute", "late"}, Asks(c, sql, kind)
  PROVE  Stages'
<1>0. TypeInv /\ QueueType /\ LruType /\ RestType /\ LruOK /\ Numbered /\ Unanswered
  BY TypeParts DEF Closes
<1>1. /\ how[c] = "none" /\ MayAsk
      /\ how' = [how EXCEPT ![c] = kind] /\ wants' = [wants EXCEPT ![c] = <<session, sql>>]
      /\ UNCHANGED <<database, cacheSize, blocked, nested, inFlight, ticks, draining, crashed, client, server>>
      /\ IF Early(sql)
         THEN /\ GetHit(Key(sql), c)
              /\ bound' = (IF kind = "prepare" THEN bound ELSE bound \cup {c})
              /\ settled' = (IF kind = "prepare" THEN settled \cup {c} ELSE settled)
              /\ Adds(IF kind = "prepare" THEN {} ELSE {"execute"}, c)
         ELSE /\ UNCHANGED <<lru, wrapper, open, bound, settled>>
              /\ Adds(IF kind = "execute" THEN {"prepare", "execute"} ELSE {"prepare"}, c)
  BY <1>0, AskDoes
<1>2. AllSent
  BY <1>1 DEF MayAsk, ClientTurn
<1>3. /\ \A o \in {"prepare", "execute"} : ~Has(sendQueue, o, c) /\ ~Has(inFlight, o, c)
      /\ ~Comes("prepared", c) /\ ~Comes("executed", c) /\ ~Comes("refused", c)
      /\ c \notin open /\ c \notin bound /\ c \notin settled
  BY <1>0, <1>1, NothingYet DEF Stages
<1>4. PICK ops \in SUBSET {"prepare", "execute"} :
        /\ ops = IF Early(sql) THEN IF kind = "prepare" THEN {} ELSE {"execute"}
                 ELSE IF kind = "execute" THEN {"prepare", "execute"} ELSE {"prepare"}
        /\ Adds(ops, c)
  <2>1. CASE Early(sql)
    BY <1>1, <2>1
  <2>2. CASE ~Early(sql)
    BY <1>1, <2>2
  <2> QED
    BY <2>1, <2>2
<1>5. /\ \A o, x : Has(sendQueue', o, x) <=> Has(sendQueue, o, x) \/ (o \in ops /\ x = c)
      /\ \A o : Once(sendQueue, o) /\ (o \in ops => ~Has(sendQueue, o, c)) => Once(sendQueue', o)
  BY <1>0, <1>4, Added
<1>6. (\A o, x : Comes(o, x)' <=> Comes(o, x)) /\ \A o : OnceComes(o)' <=> OnceComes(o)
  BY <1>1, ComesSame
<1>7. /\ bound' = IF Early(sql) /\ kind # "prepare" THEN bound \cup {c} ELSE bound
      /\ settled' = IF Early(sql) /\ kind = "prepare" THEN settled \cup {c} ELSE settled
      /\ open' = IF Early(sql) THEN open \cup {c} ELSE open
  <2>1. CASE Early(sql)
    BY <1>1, <2>1 DEF GetHit
  <2>2. CASE ~Early(sql)
    BY <1>1, <2>2
  <2> QED
    BY <2>1, <2>2
<1>8. ASSUME NEW d \in Calls, d # c PROVE Stage(d)'
  <2>1. SameCall(d)
    BY <1>0, <1>1, <1>5, <1>6, <1>7, <1>8 DEF SameCall, RestType
  <2> QED
    BY <1>2, <2>1, StageLeft DEF Stages
<1>9. how'[c] = kind
  BY <1>0, <1>1 DEF RestType
<1>10. kind = "execute" /\ ~Early(sql) => Together(c)'
  <2> SUFFICES ASSUME kind = "execute", ~Early(sql)
               PROVE  Together(c)'
    OBVIOUS
  <2>1. Execute(c, sql, kind)
    BY DEF Asks
  <2>2. ~blocked /\ sendQueue' = sendQueue \o <<Command("prepare", c), Command("execute", c)>>
    BY <2>1 DEF Execute
  <2>3. sendQueue = <<>>
    BY <2>2, <1>2 DEF AllSent
  <2>4. sendQueue' = <<Command("prepare", c), Command("execute", c)>>
    BY <2>2, <2>3
  <2>5. Found(Key(sql)) = {}
    BY <2>2 DEF Early
  <2>6. wants'[c][2] = sql
    BY <1>0, <1>1 DEF RestType
  <2>7. Found(Key(wants[c][2]))' = {}
    BY <2>5, <2>6, <1>1 DEF Found, Key, lru
  <2> QED
    BY <2>2, <2>4, <2>7, <1>1 DEF Together
<1>11. Stage(c)'
  <2>1. /\ Has(sendQueue', "prepare", c) <=> ~Early(sql)
        /\ Has(sendQueue', "execute", c) <=> (Early(sql) /\ kind # "prepare") \/ (~Early(sql) /\ kind = "execute")
    BY <1>3, <1>4, <1>5
  <2>2. ~Has(inFlight', "prepare", c) /\ ~Has(inFlight', "execute", c)
    BY <1>1, <1>3
  <2>3. ~Comes("prepared", c)' /\ ~Comes("executed", c)' /\ ~Comes("refused", c)'
    BY <1>3, <1>6
  <2>4. /\ c \in bound' <=> Early(sql) /\ kind # "prepare"
        /\ c \in settled' <=> Early(sql) /\ kind = "prepare"
        /\ c \in open' <=> Early(sql)
    BY <1>3, <1>7
  <2>5. Queued(c)' /\ Sent(c)' /\ Resolving(c)' /\ Holding(c)'
    BY <2>1, <2>2, <2>3, <2>4, <1>9, <1>10 DEF Queued, Sent, Resolving, Holding, Replied
  <2>6. Executing(c)' /\ Expected(c)'
    BY <2>1, <2>2, <2>3, <2>4, <1>9, <1>10 DEF Executing, AtOnce, Expected, Preparing, Replied
  <2> QED
    BY <2>5, <2>6 DEF Stage
<1>12. NestedNow'
  <2>1. nested' = <<>>
    BY <1>1, <1>2 DEF Stages, NestedNow
  <2> QED
    BY <2>1 DEF NestedNow
<1>13. DueOnce'
  BY <1>3, <1>4, <1>5, <1>6 DEF DueOnce, Stages
<1>14. Backed'
  BY <1>1, <1>7, BackedKept DEF Stages
<1> QED
  BY <1>1, <1>8, <1>11, <1>12, <1>13, <1>14 DEF Stages

\* At the start no call is made.
LEMMA InitStages == Init => Stages
<1> SUFFICES ASSUME Init PROVE Stages
  OBVIOUS
<1>1. \A o, x : ~Has(sendQueue, o, x) /\ ~Has(inFlight, o, x) /\ ~Comes(o, x)
  BY HasEmpty DEF Init, Comes
<1>2. NestedNow /\ DueOnce /\ ~crashed
  BY <1>1, OnceEmpty, HasEmpty DEF Init, NestedNow, DueOnce, OnceComes
<1>3. Backed
  BY DEF Init, Backed
<1>4. ASSUME NEW c \in Calls PROVE Stage(c)
  <2>1. how[c] = "none" /\ c \notin bound /\ c \notin settled /\ c \notin open
    BY DEF Init
  <2> QED
    BY <1>1, <2>1 DEF Stage, Queued, Sent, Resolving, Executing, Holding, Expected
<1> QED
  BY <1>2, <1>3, <1>4 DEF Stages

\* A step while all is sent: each call it is about has a stage, the others keep theirs.
LEMMA StagesStep ==
  ASSUME Stages, AllSent, \A d \in Calls : SameCall(d) \/ Stage(d)', UNCHANGED nested,
         Once(sendQueue', "execute"), OnceComes("prepared")', Backed', ~crashed'
  PROVE  Stages'
<1>1. \A d \in Calls : Stage(d)'
  BY StageLeft DEF Stages
<1>2. NestedNow'
  BY DEF Stages, NestedNow
<1> QED
  BY <1>1, <1>2 DEF Stages, DueOnce

\* A step that is about no call.
LEMMA StagesLeft ==
  ASSUME Stages, AllSent, UNCHANGED <<how, bound, settled, open, inFlight, ticks, nested, crashed>>,
         \A o \in {"prepare", "execute"} : \A x : Has(sendQueue', o, x) <=> Has(sendQueue, o, x),
         Once(sendQueue', "execute")
  PROVE  Stages'
<1>1. (\A o, x : Comes(o, x)' <=> Comes(o, x)) /\ \A o : OnceComes(o)' <=> OnceComes(o)
  BY ComesSame
<1>2. \A d \in Calls : SameCall(d)
  BY <1>1 DEF SameCall
<1>3. Backed'
  BY BackedKept DEF Stages
<1>4. OnceComes("prepared")' /\ ~crashed'
  BY <1>1 DEF Stages, DueOnce
<1> QED
  BY <1>2, <1>3, <1>4, StagesStep

\* An EXECUTE is added.
LEMMA AddsExecute ==
  ASSUME sendQueue \in Seq(Commands), NEW c \in Calls, sendQueue' = Append(sendQueue, Command("execute", c))
  PROVE  Adds({"execute"}, c)
<1>1. PICK m : m = Command("execute", c)
  OBVIOUS
<1>2. m \in Commands /\ m.op = "execute" /\ m.about = c
  BY <1>1, CallCommand
<1>3. Adds({m.op}, m.about)
  BY <1>1, <1>2, AddsOne
<1> QED
  BY <1>2, <1>3

\* Commands that are about no call.
LEMMA UseResetStreamStages ==
  ASSUME Closes, Stages, (\E db \in Databases : Use(db)) \/ Reset \/ StreamStarts
  PROVE  Stages'
<1>0. QueueType
  BY DEF Closes, TypeInv
<1>1. /\ AllSent
      /\ UNCHANGED <<how, bound, settled, open, inFlight, ticks, nested, crashed>>
  BY DEF Use, Reset, StreamStarts, Change, ClientTurn, calls
<1>2. CASE StreamStarts
  BY <1>1, <1>2, StagesLeft DEF StreamStarts, Stages, DueOnce
<1>3. ASSUME NEW m \in Commands, m.op \notin {"prepare", "execute"}, sendQueue' = Append(sendQueue, m)
      PROVE  Stages'
  <2>1. Adds({m.op}, m.about)
    BY <1>0, <1>3, AddsOne DEF QueueType
  <2>2. /\ \A o, x : Has(sendQueue', o, x) <=> Has(sendQueue, o, x) \/ (o \in {m.op} /\ x = m.about)
        /\ \A o : Once(sendQueue, o) /\ (o \in {m.op} => ~Has(sendQueue, o, m.about)) => Once(sendQueue', o)
    BY <1>0, <2>1, Added
  <2> QED
    BY <1>1, <1>3, <2>2, StagesLeft DEF Stages, DueOnce
<1>4. CASE \E db \in Databases : Use(db)
  BY <1>4, <1>3, UseCommand DEF Use
<1>5. CASE Reset
  BY <1>5, <1>3, ResetCommand DEF Reset
<1> QED
  BY <1>2, <1>4, <1>5

\* A stream ends, and the commands that wait for it are sent one by one.
LEMMA StreamEndsStages == ASSUME Closes, Stages, StreamEnds PROVE Stages'
<1>1. AllSent /\ UNCHANGED <<how, bound, settled, open, inFlight, ticks, nested, crashed, sendQueue>>
  BY DEF StreamEnds, AllSent, calls
<1>2. NestedNow'
  BY <1>1 DEF Stages, NestedNow
<1>3. (\A o, x : Comes(o, x)' <=> Comes(o, x)) /\ \A o : OnceComes(o)' <=> OnceComes(o)
  BY <1>1, ComesSame
<1>4. \A d \in Calls : SameCall(d)
  BY <1>1, <1>3 DEF SameCall
<1>5. \A d \in Calls : Stage(d)'
  BY <1>1, <1>4, StageLeft DEF Stages
<1>6. Backed'
  BY <1>1, BackedKept DEF Stages
<1> QED
  BY <1>1, <1>2, <1>3, <1>5, <1>6 DEF Stages, DueOnce

\* An EXECUTE of a statement the client holds is due once.
LEMMA ExecutePreparedStages == ASSUME Closes, Stages, NEW c \in Calls, ExecutePrepared(c) PROVE Stages'
<1>0. QueueType
  BY DEF Closes, TypeInv
<1>1. /\ AllSent /\ c \in open /\ c \notin bound /\ how[c] = "prepare" /\ c \in settled
      /\ bound' = bound \cup {c} /\ sendQueue' = Append(sendQueue, Command("execute", c))
      /\ UNCHANGED <<how, settled, open, inFlight, ticks, nested, crashed>>
  BY DEF ExecutePrepared, ClientTurn, Held
<1>2. Adds({"execute"}, c)
  BY <1>0, <1>1, AddsExecute DEF QueueType
<1>3. /\ \A o, x : Has(sendQueue', o, x) <=> Has(sendQueue, o, x) \/ (o \in {"execute"} /\ x = c)
      /\ \A o : Once(sendQueue, o) /\ (o \in {"execute"} => ~Has(sendQueue, o, c)) => Once(sendQueue', o)
  BY <1>0, <1>2, Added
<1>4. (\A o, x : Comes(o, x)' <=> Comes(o, x)) /\ \A o : OnceComes(o)' <=> OnceComes(o)
  BY <1>1, ComesSame
<1>5. \A d \in Calls : d # c => SameCall(d)
  BY <1>1, <1>3, <1>4 DEF SameCall
<1>6. Stage(c)
  BY DEF Stages
<1>7. ~Has(sendQueue, "execute", c)
  BY <1>1, <1>6, AllSentStage
<1>8. Stage(c)'
  <2>1. /\ ~Has(sendQueue', "prepare", c) /\ ~Has(inFlight', "prepare", c) /\ ~Has(inFlight', "execute", c)
        /\ ~Comes("prepared", c)' /\ ~Comes("executed", c)' /\ ~Comes("refused", c)'
    BY <1>1, <1>3, <1>4, <1>6 DEF Stage, Queued, Sent, Resolving, Executing
  <2>2. how'[c] = "prepare" /\ c \in bound' /\ c \in settled' /\ c \in open'
    BY <1>1
  <2> QED
    BY <2>1, <2>2 DEF Stage, Queued, Sent, Resolving, Executing, Holding, Expected, Replied
<1>9. Once(sendQueue', "execute") /\ OnceComes("prepared")'
  BY <1>3, <1>4, <1>7 DEF Stages, DueOnce
<1>10. Backed'
  BY <1>1, BackedKept DEF Stages
<1> QED
  BY <1>1, <1>5, <1>8, <1>9, <1>10, StagesStep DEF Stages

\* The client closes what it holds, its own call being settled.
LEMMA ClosePreparedStages == ASSUME Closes, Stages, NEW c \in Calls, ClosePrepared(c) PROVE Stages'
<1>0. QueueType /\ LruOK
  BY DEF Closes, TypeInv
<1>1. /\ AllSent /\ how[c] = "prepare" /\ c \in settled /\ CloseWrapper(c)
      /\ UNCHANGED <<how, settled, bound, inFlight, ticks, nested, crashed, wrapper, cacheSize>>
  BY DEF ClosePrepared, ClientTurn, Held
<1>2. Closing /\ open' = open \ {c}
  BY <1>0, <1>1, CloseWrapperKeeps DEF QueueType
<1>3. /\ \A o, x : Has(sendQueue', o, x) <=> Has(sendQueue, o, x) \/ (o = "close" /\ x \in closed' \ closed)
      /\ \A o : o # "close" /\ Once(sendQueue, o) => Once(sendQueue', o)
  BY <1>0, <1>2, ClosingAdds DEF QueueType
<1>4. (\A o, x : Comes(o, x)' <=> Comes(o, x)) /\ \A o : OnceComes(o)' <=> OnceComes(o)
  BY <1>1, ComesSame
<1>5. \A d \in Calls : d # c => SameCall(d)
  BY <1>1, <1>2, <1>3, <1>4 DEF SameCall
<1>6. Stage(c)
  BY DEF Stages
<1>7. Stage(c)'
  <2>1. ~Comes("prepared", c)
    BY <1>1, <1>6 DEF Stage, Resolving
  <2>2. /\ how'[c] = "prepare" /\ (c \in bound' <=> c \in bound) /\ c \in settled' /\ c \notin open'
        /\ Has(sendQueue', "prepare", c) <=> Has(sendQueue, "prepare", c)
        /\ Has(sendQueue', "execute", c) <=> Has(sendQueue, "execute", c)
        /\ Has(inFlight', "prepare", c) <=> Has(inFlight, "prepare", c)
        /\ Has(inFlight', "execute", c) <=> Has(inFlight, "execute", c)
        /\ ~Comes("prepared", c)' /\ (Comes("executed", c)' <=> Comes("executed", c))
        /\ Comes("refused", c)' <=> Comes("refused", c)
    BY <1>1, <1>2, <1>3, <1>4, <2>1
  <2>3. Has(sendQueue, "execute", c) => c \in bound
    BY <1>1, <1>6, AllSentStage
  <2> QED
    BY <1>1, <1>6, <2>2, <2>3 DEF Stage, Queued, Sent, Resolving, Executing, Holding, Expected, Replied
<1>8. Once(sendQueue', "execute") /\ OnceComes("prepared")'
  BY <1>3, <1>4 DEF Stages, DueOnce
<1>9. Backed'
  BY <1>1, BackedKept DEF Stages
<1> QED
  BY <1>1, <1>5, <1>7, <1>8, <1>9, StagesStep DEF Stages

\* A callback has run: it no longer comes, the others still do.
LEMMA CallbackComes ==
  ASSUME QueueType, NestedNow, NEW cb, NEW c, Callback(cb, c)
  PROVE  /\ AllSent /\ Comes(cb, c)
         /\ \A o, x : Comes(o, x) <=> (o = cb /\ x = c) \/ Comes(o, x)'
         /\ \A o : OnceComes(o) => OnceComes(o)' /\ (o = cb => ~Comes(o, c)')
         /\ UNCHANGED <<database, cacheSize, blocked, nested, inFlight, how, wants, wrapper, session, changes,
                        serverDb, onServer, text, last, misrun>>
<1>1. /\ AllSent /\ ticks # <<>> /\ Has(ticks, cb, c) /\ ticks' \in Seq(Ticks) /\ ticks' = Tail(ticks)
      /\ \A o, x : Has(ticks, o, x) <=> (o = cb /\ x = c) \/ Has(ticks', o, x)
      /\ \A o : Once(ticks, o) => Once(ticks', o) /\ (o = cb => ~Has(ticks', o, c))
      /\ UNCHANGED <<database, cacheSize, blocked, nested, inFlight, how, wants, wrapper, session, changes,
                     serverDb, onServer, text, last, misrun>>
  BY CallbackDoes
<1>2. nested = <<>> /\ nested' = <<>>
  BY <1>1 DEF NestedNow
<1>3. \A o, x : ~Has(nested, o, x) /\ ~Has(nested', o, x)
  BY <1>2, HasEmpty
<1>4. \A o : Once(nested', o)
  BY <1>2, OnceEmpty
<1>5. \A o, x : (Comes(o, x) <=> Has(ticks, o, x)) /\ (Comes(o, x)' <=> Has(ticks', o, x))
  BY <1>3 DEF Comes
<1>6. ASSUME NEW o, OnceComes(o) PROVE OnceComes(o)' /\ (o = cb => ~Comes(o, c)')
  <2>1. Once(ticks', o) /\ (o = cb => ~Has(ticks', o, c))
    BY <1>1, <1>6 DEF OnceComes
  <2> QED
    BY <2>1, <1>3, <1>4, <1>5 DEF OnceComes
<1> QED
  BY <1>1, <1>5, <1>6

\* A prepare is resolved: an EXECUTE that failed before closes the wrapper, one that waits is sent.
LEMMA PreparedStages == ASSUME Closes, Stages, NEW c \in Calls, Prepared(c) PROVE Stages'
<1>0. QueueType /\ LruOK
  BY DEF Closes, TypeInv
<1>1. /\ AllSent /\ Comes("prepared", c)
      /\ \A o, x : Comes(o, x) <=> (o = "prepared" /\ x = c) \/ Comes(o, x)'
      /\ \A o : OnceComes(o) => OnceComes(o)' /\ (o = "prepared" => ~Comes(o, c)')
      /\ UNCHANGED <<database, cacheSize, blocked, nested, inFlight, how, wants, wrapper, session, changes,
                     serverDb, onServer, text, last, misrun>>
  BY <1>0, CallbackComes DEF Prepared, Stages
<1>2. Stage(c)
  BY DEF Stages
<1>3. /\ how[c] \in {"prepare", "execute", "late"}
      /\ how[c] = "execute" => c \in bound
      /\ how[c] # "execute" =>
           /\ c \in open /\ c \notin bound /\ c \notin settled
           /\ ~Has(sendQueue, "execute", c) /\ ~Has(inFlight, "execute", c) /\ ~Comes("executed", c) /\ ~Comes("refused", c)
      /\ ~Has(sendQueue, "prepare", c) /\ ~Has(inFlight, "prepare", c)
  <2>1. how[c] \in {"none", "prepare", "execute", "late"}
    BY DEF Closes, TypeInv, TypeOK
  <2> QED
    BY <2>1, <1>1, <1>2 DEF Stage, Resolving, Queued, Sent, Replied
<1>4. /\ settled' = (IF how[c] = "prepare" THEN settled \cup {c} ELSE settled)
      /\ bound' = (IF how[c] = "late" THEN bound \cup {c} ELSE bound)
      /\ UNCHANGED crashed
  BY DEF Prepared
<1>5. /\ \A o \in {"prepare", "execute"} : \A x : Has(sendQueue', o, x) <=> Has(sendQueue, o, x) \/ (o = "execute" /\ x = c /\ how[c] = "late")
      /\ Once(sendQueue', "execute")
      /\ open' = IF how[c] = "execute" /\ c \in settled THEN open \ {c} ELSE open
  <2>1. CASE how[c] = "execute" /\ c \in settled
    <3>1. CloseWrapper(c)
      BY <2>1 DEF Prepared
    <3>2. Closing /\ open' = open \ {c}
      BY <1>0, <1>1, <3>1, CloseWrapperKeeps DEF QueueType
    <3>3. /\ \A o, x : Has(sendQueue', o, x) <=> Has(sendQueue, o, x) \/ (o = "close" /\ x \in closed' \ closed)
          /\ \A o : o # "close" /\ Once(sendQueue, o) => Once(sendQueue', o)
      BY <1>0, <3>2, ClosingAdds DEF QueueType
    <3> QED
      BY <2>1, <3>2, <3>3 DEF Stages, DueOnce
  <2>2. CASE ~(how[c] = "execute" /\ c \in settled) /\ how[c] # "late"
    <3>1. UNCHANGED <<open, sendQueue>>
      BY <2>2 DEF Prepared
    <3> QED
      BY <2>2, <3>1 DEF Stages, DueOnce
  <2>3. CASE how[c] = "late"
    <3>1. open' = open /\ sendQueue' = Append(sendQueue, Command("execute", c))
      BY <2>3 DEF Prepared
    <3>2. Adds({"execute"}, c)
      BY <1>0, <3>1, AddsExecute DEF QueueType
    <3>3. /\ \A o, x : Has(sendQueue', o, x) <=> Has(sendQueue, o, x) \/ (o \in {"execute"} /\ x = c)
          /\ \A o : Once(sendQueue, o) /\ (o \in {"execute"} => ~Has(sendQueue, o, c)) => Once(sendQueue', o)
      BY <1>0, <3>2, Added
    <3> QED
      BY <1>3, <2>3, <3>1, <3>3 DEF Stages, DueOnce
  <2> QED
    BY <2>1, <2>2, <2>3
<1>6. \A d \in Calls : d # c => SameCall(d)
  <2> SUFFICES ASSUME NEW d \in Calls, d # c PROVE SameCall(d)
    OBVIOUS
  <2>1. \A o \in {"prepare", "execute"} : Has(sendQueue', o, d) <=> Has(sendQueue, o, d)
    BY <1>5
  <2>2. /\ bound' = bound \/ bound' = bound \cup {c}
        /\ settled' = settled \/ settled' = settled \cup {c}
        /\ open' = open \/ open' = open \ {c}
    BY <1>4, <1>5
  <2>3. \A o : Comes(o, d)' <=> Comes(o, d)
    BY <1>1
  <2> QED
    BY <1>1, <2>1, <2>2, <2>3 DEF SameCall
<1>7. Stage(c)'
  <2>1. /\ how'[c] = how[c]
        /\ c \in bound' <=> c \in bound \/ how[c] = "late"
        /\ c \in settled' <=> c \in settled \/ how[c] = "prepare"
        /\ c \in open' <=> c \in open /\ ~(how[c] = "execute" /\ c \in settled)
        /\ ~Has(sendQueue', "prepare", c) /\ ~Has(inFlight', "prepare", c)
        /\ Has(sendQueue', "execute", c) <=> Has(sendQueue, "execute", c) \/ how[c] = "late"
        /\ Has(inFlight', "execute", c) <=> Has(inFlight, "execute", c)
    BY <1>1, <1>3, <1>4, <1>5
  <2>2. /\ ~Comes("prepared", c)' /\ (Comes("executed", c)' <=> Comes("executed", c))
        /\ Comes("refused", c)' <=> Comes("refused", c)
    <3>1. OnceComes("prepared")
      BY DEF Stages, DueOnce
    <3> QED
      BY <1>1, <3>1
  <2>3. CASE how[c] = "execute"
    BY <1>2, <1>3, <2>1, <2>2, <2>3 DEF Stage, Queued, Sent, Resolving, Executing, Holding, Expected, Replied
  <2>4. CASE how[c] # "execute"
    BY <1>2, <1>3, <2>1, <2>2, <2>4 DEF Stage, Queued, Sent, Resolving, Executing, Holding, Expected, Replied
  <2> QED
    BY <2>3, <2>4
<1>8. OnceComes("prepared")'
  BY <1>1 DEF Stages, DueOnce
<1>9. Backed'
  BY <1>1, <1>4, BackedKept DEF Stages
<1> QED
  BY <1>1, <1>4, <1>5, <1>6, <1>7, <1>8, <1>9, StagesStep DEF Stages

\* The first answer of a call settles it, the second finds it settled.
LEMMA AnsweredStages ==
  ASSUME Closes, Stages, NEW c \in Calls, NEW cb \in {"executed", "refused"}, Answered(c, cb)
  PROVE  Stages'
<1>0. QueueType /\ LruOK
  BY DEF Closes, TypeInv
<1>1. /\ AllSent /\ Comes(cb, c)
      /\ \A o, x : Comes(o, x) <=> (o = cb /\ x = c) \/ Comes(o, x)'
      /\ \A o : OnceComes(o) => OnceComes(o)' /\ (o = cb => ~Comes(o, c)')
      /\ UNCHANGED <<database, cacheSize, blocked, nested, inFlight, how, wants, wrapper, session, changes,
                     serverDb, onServer, text, last, misrun>>
  BY <1>0, CallbackComes DEF Answered, Stages
<1>2. Stage(c)
  BY DEF Stages
<1>3. how[c] \in {"prepare", "execute", "late"}
  <2>1. how[c] \in {"none", "prepare", "execute", "late"}
    BY DEF Closes, TypeInv, TypeOK
  <2> QED
    BY <2>1, <1>1, <1>2 DEF Stage, Executing, Holding
<1>4. /\ settled' = settled \cup {c} /\ UNCHANGED bound
      /\ crashed' = (crashed \/ (cb = "executed" /\ c \notin bound /\ c \notin settled))
  BY DEF Answered
<1>5. /\ \A o \in {"prepare", "execute"} : \A x : Has(sendQueue', o, x) <=> Has(sendQueue, o, x)
      /\ Once(sendQueue', "execute")
      /\ open' = IF how[c] # "prepare" /\ c \notin settled /\ c \in bound THEN open \ {c} ELSE open
  <2>1. CASE how[c] # "prepare" /\ c \notin settled /\ c \in bound
    <3>1. CloseWrapper(c)
      BY <2>1 DEF Answered
    <3>2. Closing /\ open' = open \ {c}
      BY <1>0, <1>1, <3>1, CloseWrapperKeeps DEF QueueType
    <3>3. /\ \A o, x : Has(sendQueue', o, x) <=> Has(sendQueue, o, x) \/ (o = "close" /\ x \in closed' \ closed)
          /\ \A o : o # "close" /\ Once(sendQueue, o) => Once(sendQueue', o)
      BY <1>0, <3>2, ClosingAdds DEF QueueType
    <3> QED
      BY <2>1, <3>2, <3>3 DEF Stages, DueOnce
  <2>2. CASE ~(how[c] # "prepare" /\ c \notin settled /\ c \in bound)
    <3>1. UNCHANGED <<open, sendQueue>>
      BY <2>2 DEF Answered
    <3> QED
      BY <2>2, <3>1 DEF Stages, DueOnce
  <2> QED
    BY <2>1, <2>2
<1>6. \A d \in Calls : d # c => SameCall(d)
  <2> SUFFICES ASSUME NEW d \in Calls, d # c PROVE SameCall(d)
    OBVIOUS
  <2>1. \A o : Comes(o, d)' <=> Comes(o, d)
    BY <1>1
  <2> QED
    BY <1>1, <1>4, <1>5, <2>1 DEF SameCall
<1>7. Stage(c)'
  <2>1. /\ how'[c] = how[c] /\ (c \in bound' <=> c \in bound) /\ c \in settled'
        /\ c \in open' <=> c \in open /\ ~(how[c] # "prepare" /\ c \notin settled /\ c \in bound)
        /\ Has(sendQueue', "prepare", c) <=> Has(sendQueue, "prepare", c)
        /\ Has(sendQueue', "execute", c) <=> Has(sendQueue, "execute", c)
        /\ Has(inFlight', "prepare", c) <=> Has(inFlight, "prepare", c)
        /\ Has(inFlight', "execute", c) <=> Has(inFlight, "execute", c)
        /\ Comes("prepared", c)' <=> Comes("prepared", c)
        /\ Comes("executed", c)' => Comes("executed", c)
        /\ Comes("refused", c)' => Comes("refused", c)
    BY <1>1, <1>4, <1>5
  <2>2. /\ Has(sendQueue, "prepare", c) => how[c] # "execute"
        /\ Has(sendQueue, "execute", c) => c \in bound
    BY <1>1, <1>2, AllSentStage
  <2>3. Comes("executed", c) \/ Comes("refused", c)
    BY <1>1
  <2>4. Queued(c)' /\ Sent(c)'
    BY <1>2, <2>1, <2>2, <2>3 DEF Stage, Queued, Sent, Replied
  <2>5. Resolving(c)' /\ Executing(c)'
    BY <1>2, <2>1, <2>2, <2>3 DEF Stage, Resolving, Executing, Replied
  <2>6. Holding(c)' /\ Expected(c)'
    BY <1>2, <1>3, <2>1, <2>2, <2>3 DEF Stage, Resolving, Executing, Holding, Expected, Replied
  <2> QED
    BY <2>4, <2>5, <2>6 DEF Stage
<1>8. OnceComes("prepared")'
  BY <1>1 DEF Stages, DueOnce
<1>9. Backed'
  BY <1>1, <1>4, BackedKept DEF Stages
<1>10. ~crashed'
  BY <1>1, <1>2, <1>4 DEF Stages, Stage, Executing
<1> QED
  BY <1>1, <1>5, <1>6, <1>7, <1>8, <1>9, <1>10, StagesStep DEF Stages

\* An emptied LRU leaves the calls where they are.
LEMMA ResetDoneStages == ASSUME Closes, Stages, ResetDone PROVE Stages'
<1>0. QueueType /\ LruOK
  BY DEF Closes, TypeInv
<1>1. /\ AllSent /\ Comes("reset", None)
      /\ \A o, x : Comes(o, x) <=> (o = "reset" /\ x = None) \/ Comes(o, x)'
      /\ \A o : OnceComes(o) => OnceComes(o)' /\ (o = "reset" => ~Comes(o, None)')
      /\ UNCHANGED <<database, cacheSize, blocked, nested, inFlight, how, wants, wrapper, session, changes,
                     serverDb, onServer, text, last, misrun>>
  BY <1>0, CallbackComes DEF ResetDone, Stages
<1>2. Closing /\ UNCHANGED <<use, open, bound, settled, crashed>>
  BY <1>0, <1>1, ClearKeeps DEF ResetDone, QueueType
<1>3. /\ \A o, x : Has(sendQueue', o, x) <=> Has(sendQueue, o, x) \/ (o = "close" /\ x \in closed' \ closed)
      /\ \A o : o # "close" /\ Once(sendQueue, o) => Once(sendQueue', o)
  BY <1>0, <1>2, ClosingAdds DEF QueueType
<1>4. \A d \in Calls : SameCall(d)
  <2>1. \A o \in {"prepared", "executed", "refused"} : \A x : Comes(o, x)' <=> Comes(o, x)
    BY <1>1
  <2> QED
    BY <1>1, <1>2, <1>3, <2>1 DEF SameCall
<1>5. Once(sendQueue', "execute") /\ OnceComes("prepared")'
  BY <1>1, <1>3 DEF Stages, DueOnce
<1>6. Backed'
  BY <1>1, <1>2, BackedKept DEF Stages
<1> QED
  BY <1>1, <1>2, <1>4, <1>5, <1>6, StagesStep DEF Stages

\* A callback is scheduled by an answer that is read.
LEMMA TickComes ==
  ASSUME QueueType, nested = <<>>, UNCHANGED nested, NEW m \in Ticks, ticks' = Append(ticks, m)
  PROVE  /\ \A o, x : Comes(o, x)' <=> Comes(o, x) \/ (o = m.op /\ x = m.about)
         /\ \A o : OnceComes(o) /\ (o = m.op => ~Comes(o, m.about)) => OnceComes(o)'
<1>1. \A o, x : ~Has(nested, o, x) /\ ~Has(nested', o, x)
  BY HasEmpty
<1>2. \A o : Once(nested', o)
  BY OnceEmpty
<1>3. \A o, x : Has(Append(ticks, m), o, x) <=> Has(ticks, o, x) \/ (o = m.op /\ x = m.about)
  BY HasAppend DEF QueueType
<1>4. \A o : Once(ticks, o) /\ (m.op = o => ~Has(ticks, o, m.about)) => Once(Append(ticks, m), o)
  BY OnceAppend DEF QueueType
<1>5. \A o, x : Has(ticks', o, x) <=> Has(ticks, o, x) \/ (o = m.op /\ x = m.about)
  BY <1>3
<1>6. \A o : Once(ticks, o) /\ (m.op = o => ~Has(ticks, o, m.about)) => Once(ticks', o)
  BY <1>4
<1>7. \A o, x : (Comes(o, x) <=> Has(ticks, o, x)) /\ (Comes(o, x)' <=> Has(ticks', o, x))
  BY <1>1 DEF Comes
<1>8. ASSUME NEW o, OnceComes(o), o = m.op => ~Comes(o, m.about) PROVE OnceComes(o)'
  <2>1. Once(ticks', o)
    BY <1>6, <1>7, <1>8 DEF OnceComes
  <2> QED
    BY <2>1, <1>1, <1>2 DEF OnceComes
<1> QED
  BY <1>5, <1>7, <1>8

\* An answer is read, and what it backed is bound.
LEMMA BackedTail ==
  ASSUME QueueType, Backed, inFlight # <<>>, inFlight' = Tail(inFlight), bound \subseteq bound',
         Head(inFlight).op = "prepare" /\ Head(inFlight).ok /\ Has(inFlight', "execute", Head(inFlight).about)
           => Head(inFlight).about \in bound'
  PROVE  Backed'
<1> SUFFICES ASSUME NEW j \in DOMAIN inFlight', inFlight'[j].op = "execute", inFlight'[j].ok, inFlight'[j].about \notin bound'
             PROVE  \E i \in DOMAIN inFlight' : /\ i < j /\ inFlight'[i].op = "prepare" /\ inFlight'[i].ok
                                                /\ inFlight'[i].about = inFlight'[j].about
  BY DEF Backed
<1>1. /\ DOMAIN inFlight' = 1..(Len(inFlight) - 1) /\ DOMAIN inFlight = 1..Len(inFlight) /\ Len(inFlight) \in Nat
      /\ \A i \in 1..(Len(inFlight) - 1) : inFlight'[i] = inFlight[i + 1]
      /\ Head(inFlight) = inFlight[1]
  BY DEF QueueType
<1>2. j + 1 \in DOMAIN inFlight /\ inFlight'[j] = inFlight[j + 1]
  BY <1>1
<1>3. PICK i \in DOMAIN inFlight : /\ i < j + 1 /\ inFlight[i].op = "prepare" /\ inFlight[i].ok
                                   /\ inFlight[i].about = inFlight[j + 1].about
  BY <1>2 DEF Backed
<1>4. i # 1
  <2> SUFFICES ASSUME i = 1 PROVE FALSE
    OBVIOUS
  <2>1. Has(inFlight', "execute", Head(inFlight).about)
    BY <1>1, <1>2, <1>3 DEF Has
  <2> QED
    BY <1>1, <1>2, <1>3, <2>1
<1>5. i - 1 \in DOMAIN inFlight' /\ inFlight'[i - 1] = inFlight[i] /\ i - 1 < j
  <2>1. i - 1 \in 1..(Len(inFlight) - 1) /\ (i - 1) + 1 = i
    BY <1>1, <1>3, <1>4
  <2> QED
    BY <2>1, <1>1, <1>3
<1> QED
  BY <1>2, <1>3, <1>5

\* The statement of a PREPARE is known to its EXECUTE before the answer of the EXECUTE is read.
LEMMA ReadPreparedStages == ASSUME Closes, Stages, ReadPrepared PROVE Stages'
<1>0. QueueType /\ LruOK /\ TypeInv /\ Unanswered
  BY DEF Closes, TypeInv
<1>1. PICK a \in Answers, c \in Calls :
        /\ a = Head(inFlight) /\ a.op = "prepare" /\ a.about = c /\ a.ok /\ 1 \in DOMAIN inFlight /\ inFlight[1] = a
        /\ AllSent /\ ~draining /\ inFlight' = Tail(inFlight)
        /\ inFlight' \in Seq(Answers)
        /\ \A o, x : Has(inFlight, o, x) <=> (o = "prepare" /\ x = c) \/ Has(inFlight', o, x)
        /\ \A o : Once(inFlight, o) => Once(inFlight', o)
        /\ ~Has(inFlight', "prepare", c) /\ ~Has(sendQueue, "prepare", c)
        /\ \A i \in DOMAIN inFlight' : i + 1 \in DOMAIN inFlight /\ inFlight'[i] = inFlight[i + 1]
        /\ how[c] # "none" /\ wrapper[c] = None /\ Key(wants[c][2]) \in Texts
        /\ CacheSet(Key(wants[c][2]), c)
        /\ use' = [use EXCEPT ![c] = 1] /\ wrapper' = [wrapper EXCEPT ![c] = c] /\ open' = open \cup {c}
        /\ bound' = (IF how[c] = "execute" THEN bound \cup {c} ELSE bound)
        /\ ticks' = Append(ticks, Tick("prepared", c))
        /\ UNCHANGED <<database, cacheSize, blocked, nested, draining, how, wants, settled, crashed, client, server>>
  BY <1>0, ReadPreparedDoes
<1>2. PICK key \in Texts : key = Key(wants[c][2])
  BY <1>1
<1>3. Closing
  BY <1>0, <1>1, <1>2, CacheSetKeeps DEF QueueType
<1>4. /\ \A o, x : Has(sendQueue', o, x) <=> Has(sendQueue, o, x) \/ (o = "close" /\ x \in closed' \ closed)
      /\ \A o : o # "close" /\ Once(sendQueue, o) => Once(sendQueue', o)
  BY <1>0, <1>3, ClosingAdds DEF QueueType
<1>5. Stage(c) /\ how[c] \in {"prepare", "execute", "late"}
  BY <1>0, <1>1 DEF Stages, TypeInv, TypeOK
<1>6. nested = <<>>
  BY <1>1 DEF Stages, NestedNow
<1>7. PICK m \in Ticks : m = Tick("prepared", c) /\ m.op = "prepared" /\ m.about = c
  BY CallTick
<1>8. /\ \A o, x : Comes(o, x)' <=> Comes(o, x) \/ (o = "prepared" /\ x = c)
      /\ \A o : OnceComes(o) /\ (o = "prepared" => ~Comes(o, c)) => OnceComes(o)'
  BY <1>0, <1>1, <1>6, <1>7, TickComes
<1>9. ASSUME NEW d \in Calls, d # c PROVE SameCall(d)
  <2>1. \A o : Comes(o, d)' <=> Comes(o, d)
    BY <1>8, <1>9
  <2> QED
    BY <1>1, <1>4, <1>9, <2>1 DEF SameCall
<1>10. /\ c \notin bound /\ ~Comes("prepared", c) /\ Has(inFlight, "prepare", c)
       /\ Has(sendQueue, "execute", c) => c \in bound
  <2>1. Has(inFlight, "prepare", c)
    BY <1>1
  <2> QED
    BY <1>1, <1>5, <2>1, AllSentStage DEF Stage, Sent
<1>11. Stage(c)'
  <2>1. /\ how'[c] = how[c] /\ (c \in bound' <=> how[c] = "execute")
        /\ c \in settled' <=> c \in settled
        /\ c \in open'
        /\ ~Has(sendQueue', "prepare", c) /\ ~Has(inFlight', "prepare", c)
        /\ Has(sendQueue', "execute", c) <=> Has(sendQueue, "execute", c)
        /\ Has(inFlight', "execute", c) <=> Has(inFlight, "execute", c)
        /\ Comes("prepared", c)'
        /\ Comes("executed", c)' <=> Comes("executed", c)
        /\ Comes("refused", c)' <=> Comes("refused", c)
    BY <1>1, <1>4, <1>8, <1>10
  <2>2. CASE how[c] = "execute"
    BY <1>5, <1>10, <2>1, <2>2 DEF Stage, Queued, Sent, Resolving, Executing, Holding, Expected, Replied
  <2>3. CASE how[c] # "execute"
    BY <1>5, <1>10, <2>1, <2>3 DEF Stage, Queued, Sent, Resolving, Executing, Holding, Expected, Preparing, Replied
  <2> QED
    BY <2>2, <2>3
<1>12. Once(sendQueue', "execute") /\ OnceComes("prepared")'
  BY <1>4, <1>8, <1>10 DEF Stages, DueOnce
<1>13. Backed'
  <2>1. Has(inFlight', "execute", c) => c \in bound'
    BY <1>1, <1>5, <1>10 DEF Stage, Executing
  <2> QED
    BY <1>0, <1>1, <2>1, BackedTail DEF Stages
<1> QED
  BY <1>1, <1>9, <1>11, <1>12, <1>13, StagesStep DEF Stages

\* The callback of a reset().
LEMMA ResetTick == Tick("reset", None) \in Ticks /\ Tick("reset", None).op = "reset" /\ Tick("reset", None).about = None
BY DEF Ticks, Tick, None

\* A result, or an error, is read in the order of the commands.
LEMMA ReadOtherStages == ASSUME Closes, Stages, ReadOther PROVE Stages'
<1>0. QueueType /\ LruOK /\ TypeInv /\ Unanswered
  BY DEF Closes, TypeInv
<1>1. PICK a \in Answers :
        /\ a = Head(inFlight) /\ 1 \in DOMAIN inFlight /\ inFlight[1] = a
        /\ AllSent /\ ~draining /\ inFlight # <<>> /\ inFlight' = Tail(inFlight)
        /\ inFlight' \in Seq(Answers)
        /\ \A o, x : Has(inFlight, o, x) <=> (o = a.op /\ x = a.about) \/ Has(inFlight', o, x)
        /\ \A o : Once(inFlight, o) => Once(inFlight', o) /\ (a.op = o => ~Has(inFlight', o, a.about))
        /\ \A i \in DOMAIN inFlight' : i + 1 \in DOMAIN inFlight /\ inFlight'[i] = inFlight[i + 1]
        /\ database' = (IF a.op = "use" THEN a.about ELSE database)
        /\ \/ a.op = "use" /\ a.about \in Databases /\ UNCHANGED ticks
           \/ a.op = "reset" /\ a.about = None /\ ticks' = Append(ticks, Tick("reset", None))
           \/ a.op = "execute" /\ a.ok /\ a.about \in Calls /\ ticks' = Append(ticks, Tick("executed", a.about))
           \/ a.op \in {"prepare", "execute"} /\ ~a.ok /\ a.about \in Calls /\ ticks' = Append(ticks, Tick("refused", a.about))
        /\ UNCHANGED <<cacheSize, lru, sendQueue, blocked, nested, draining, calls, client, server>>
  BY <1>0, ReadOtherDoes
<1>2. UNCHANGED <<how, wrapper, bound, open, settled, crashed>>
  BY <1>1 DEF calls
<1>3. nested = <<>>
  BY <1>1 DEF Stages, NestedNow
<1>4. Once(sendQueue', "execute")
  BY <1>1 DEF Stages, DueOnce
<1>5. ASSUME a.op = "prepare", a.ok PROVE FALSE
  BY <1>1, <1>5
<1>6. Backed'
  BY <1>0, <1>1, <1>2, <1>5, BackedTail DEF Stages
<1>7. CASE a.op = "use"
  <2>1. UNCHANGED <<ticks, nested>>
    BY <1>1, <1>7
  <2>2. (\A o, x : Comes(o, x)' <=> Comes(o, x)) /\ \A o : OnceComes(o)' <=> OnceComes(o)
    BY <2>1, ComesSame
  <2>3. \A o \in {"prepare", "execute"} : \A x : Has(inFlight', o, x) <=> Has(inFlight, o, x)
    BY <1>1, <1>7
  <2>4. \A d \in Calls : SameCall(d)
    BY <1>1, <1>2, <2>2, <2>3 DEF SameCall
  <2> QED
    BY <1>1, <1>2, <1>4, <1>6, <2>2, <2>4, StagesStep DEF Stages, DueOnce
<1>8. CASE a.op = "reset"
  <2>1. PICK m \in Ticks : m = Tick("reset", None) /\ m.op = "reset" /\ m.about = None
    BY ResetTick
  <2>2. ticks' = Append(ticks, m)
    BY <1>1, <1>8, <2>1
  <2>3. /\ \A o, x : Comes(o, x)' <=> Comes(o, x) \/ (o = m.op /\ x = m.about)
        /\ \A o : OnceComes(o) /\ (o = m.op => ~Comes(o, m.about)) => OnceComes(o)'
    BY <1>0, <1>1, <1>3, <2>2, TickComes
  <2>4. \A o \in {"prepare", "execute"} : \A x : Has(inFlight', o, x) <=> Has(inFlight, o, x)
    BY <1>1, <1>8
  <2>5. \A o \in {"prepared", "executed", "refused"} : \A x : Comes(o, x)' <=> Comes(o, x)
    BY <2>1, <2>3
  <2>6. \A d \in Calls : SameCall(d)
    BY <1>1, <1>2, <2>4, <2>5 DEF SameCall
  <2> QED
    BY <1>1, <1>2, <1>4, <1>6, <2>1, <2>3, <2>6, StagesStep DEF Stages, DueOnce
<1>9. CASE a.op \in {"prepare", "execute"}
  <2>1. PICK c \in Calls : c = a.about
    BY <1>1, <1>9
  <2>2. PICK cb \in {"executed", "refused"} :
          /\ ticks' = Append(ticks, Tick(cb, c))
          /\ cb = "executed" => a.op = "execute" /\ a.ok
          /\ cb = "refused" => ~a.ok
    BY <1>1, <1>9, <2>1
  <2>3. PICK m \in Ticks : m = Tick(cb, c) /\ m.op = cb /\ m.about = c
    BY CallTick
  <2>4. ticks' = Append(ticks, m)
    BY <2>2, <2>3
  <2>5. /\ \A o, x : Comes(o, x)' <=> Comes(o, x) \/ (o = m.op /\ x = m.about)
        /\ \A o : OnceComes(o) /\ (o = m.op => ~Comes(o, m.about)) => OnceComes(o)'
    BY <1>0, <1>1, <1>3, <2>4, TickComes
  <2>6. Stage(c) /\ Has(inFlight, a.op, c)
    BY <1>1, <2>1 DEF Stages
  <2>7. ASSUME NEW d \in Calls, d # c PROVE SameCall(d)
    <3>1. \A o : Comes(o, d)' <=> Comes(o, d)
      BY <2>3, <2>5, <2>7
    <3>2. \A o \in {"prepare", "execute"} : Has(inFlight', o, d) <=> Has(inFlight, o, d)
      BY <1>1, <2>1, <2>7
    <3> QED
      BY <1>1, <1>2, <3>1, <3>2 DEF SameCall
  <2>8. /\ how'[c] = how[c] /\ (c \in bound' <=> c \in bound)
        /\ c \in settled' <=> c \in settled
        /\ c \in open' <=> c \in open
        /\ Has(sendQueue', "prepare", c) <=> Has(sendQueue, "prepare", c)
        /\ Has(sendQueue', "execute", c) <=> Has(sendQueue, "execute", c)
        /\ Has(inFlight', "prepare", c) => Has(inFlight, "prepare", c)
        /\ Has(inFlight', "execute", c) => Has(inFlight, "execute", c)
        /\ a.op = "prepare" => (Has(inFlight', "execute", c) <=> Has(inFlight, "execute", c))
        /\ a.op = "prepare" => ~Has(inFlight', "prepare", c)
        /\ a.op = "execute" => (Has(inFlight', "prepare", c) <=> Has(inFlight, "prepare", c))
        /\ Comes("prepared", c)' <=> Comes("prepared", c)
        /\ Comes("executed", c)' <=> Comes("executed", c) \/ cb = "executed"
        /\ Comes("refused", c)' <=> Comes("refused", c) \/ cb = "refused"
    <3>1. a.op = "prepare" => ~Has(inFlight', "prepare", c)
      BY <1>0, <1>1, <2>1 DEF Unanswered
    <3>2. \A o : o # a.op => (Has(inFlight', o, c) <=> Has(inFlight, o, c))
      BY <1>1
    <3>3. \A o : Has(inFlight', o, c) => Has(inFlight, o, c)
      BY <1>1
    <3> QED
      BY <1>1, <1>2, <2>3, <2>5, <3>1, <3>2, <3>3
  <2>9. /\ Has(sendQueue, "prepare", c) => how[c] # "execute"
        /\ Has(sendQueue, "execute", c) => c \in bound
    BY <1>1, <2>6, AllSentStage
  <2>10. cb = "executed" => c \in bound
    <3> SUFFICES ASSUME cb = "executed" PROVE c \in bound
      OBVIOUS
    <3>1. inFlight[1].op = "execute" /\ inFlight[1].ok /\ inFlight[1].about = c
      BY <1>1, <2>1, <2>2
    <3>2. \A i \in DOMAIN inFlight : ~(i < 1)
      BY <1>0 DEF QueueType
    <3> QED
      BY <1>1, <3>1, <3>2 DEF Stages, Backed
  <2>11. Stage(c)'
    <3>1. CASE a.op = "prepare"
      <4>1. cb = "refused" /\ Has(inFlight, "prepare", c)
        BY <2>2, <2>6, <3>1
      <4>2. wrapper[c] = None /\ how[c] # "none" /\ ~Has(sendQueue, "prepare", c)
        BY <1>0, <4>1 DEF Unanswered
      <4>3. c \notin open
        BY <1>0, <4>2 DEF LruOK, Own
      <4>4. Queued(c)' /\ Sent(c)' /\ Resolving(c)'
        BY <2>6, <2>8, <2>9, <4>1, <4>2, <4>3, <3>1 DEF Stage, Queued, Sent, Resolving, Replied
      <4>5. Executing(c)'
        BY <2>6, <2>8, <2>9, <4>1, <4>2, <4>3, <3>1 DEF Stage, Sent, Executing, Replied
      <4>6. Holding(c)' /\ Expected(c)'
        BY <2>6, <2>8, <4>1 DEF Stage, Holding, Expected
      <4> QED
        BY <4>4, <4>5, <4>6 DEF Stage
    <3>2. CASE a.op = "execute"
      <4>1. Has(inFlight, "execute", c)
        BY <2>6, <3>2
      <4>2. Queued(c)' /\ Sent(c)' /\ Resolving(c)'
        BY <2>6, <2>8, <2>9, <4>1, <3>2 DEF Stage, Queued, Sent, Resolving, Replied
      <4>3. Executing(c)'
        BY <2>6, <2>8, <2>9, <2>10, <4>1, <3>2 DEF Stage, Executing, Replied
      <4>4. Holding(c)' /\ Expected(c)'
        BY <2>6, <2>8, <4>1, <3>2 DEF Stage, Holding, Expected, Preparing, Executing
      <4> QED
        BY <4>2, <4>3, <4>4 DEF Stage
    <3> QED
      BY <1>9, <3>1, <3>2
  <2>12. OnceComes("prepared")'
    BY <2>3, <2>5 DEF Stages, DueOnce
  <2> QED
    BY <1>1, <1>2, <1>4, <1>6, <2>7, <2>11, <2>12, StagesStep DEF Stages
<1> QED
  BY <1>1, <1>7, <1>8, <1>9

\* What is sent right after its PREPARE is all that is to be sent.
LEMMA HeadAtOnce ==
  ASSUME NEW d, Together(d) \/ AtOnce(d)
  PROVE  Head(sendQueue).about = d /\ Head(sendQueue).op \in {"prepare", "execute"} /\ (Together(d) => Head(sendQueue).op = "prepare")
<1>1. Together(d) => Head(sendQueue) = Command("prepare", d)
  BY DEF Together
<1>2. AtOnce(d) => Head(sendQueue) = Command("prepare", d) \/ Head(sendQueue) = Command("execute", d)
  BY <1>1 DEF AtOnce
<1> QED
  BY <1>1, <1>2 DEF Command

\* An answer is appended, backed by an earlier one if need be.
LEMMA BackedAppend ==
  ASSUME QueueType, Backed, UNCHANGED bound, NEW a \in Answers, inFlight' = Append(inFlight, a),
         a.op = "execute" /\ a.ok /\ a.about \notin bound =>
           \E i \in DOMAIN inFlight : inFlight[i].op = "prepare" /\ inFlight[i].ok /\ inFlight[i].about = a.about
  PROVE  Backed'
<1> SUFFICES ASSUME NEW j \in DOMAIN inFlight', inFlight'[j].op = "execute", inFlight'[j].ok, inFlight'[j].about \notin bound
             PROVE  \E i \in DOMAIN inFlight' : /\ i < j /\ inFlight'[i].op = "prepare" /\ inFlight'[i].ok
                                                /\ inFlight'[i].about = inFlight'[j].about
  BY DEF Backed
<1>1. /\ DOMAIN inFlight' = 1..(Len(inFlight) + 1) /\ DOMAIN inFlight = 1..Len(inFlight) /\ Len(inFlight) \in Nat
      /\ \A i \in 1..Len(inFlight) : inFlight'[i] = inFlight[i]
      /\ inFlight'[Len(inFlight) + 1] = a
  BY DEF QueueType
<1>2. CASE j = Len(inFlight) + 1
  <2>1. PICK i \in DOMAIN inFlight : inFlight[i].op = "prepare" /\ inFlight[i].ok /\ inFlight[i].about = a.about
    BY <1>1, <1>2
  <2>2. i \in DOMAIN inFlight' /\ i < j /\ inFlight'[i] = inFlight[i]
    BY <1>1, <1>2
  <2> QED
    BY <1>1, <1>2, <2>1, <2>2
<1>3. CASE j # Len(inFlight) + 1
  <2>1. j \in DOMAIN inFlight /\ inFlight'[j] = inFlight[j]
    BY <1>1, <1>3
  <2>2. PICK i \in DOMAIN inFlight : /\ i < j /\ inFlight[i].op = "prepare" /\ inFlight[i].ok
                                     /\ inFlight[i].about = inFlight[j].about
    BY <2>1 DEF Backed
  <2>3. i \in DOMAIN inFlight' /\ inFlight'[i] = inFlight[i]
    BY <1>1
  <2> QED
    BY <2>1, <2>2, <2>3
<1> QED
  BY <1>2, <1>3

\* A command may have no callback.
LEMMA NoTicks == \E e \in Seq(Ticks) : e = <<>>
<1>1. <<>> \in Seq(Ticks)
  OBVIOUS
<1> QED
  BY <1>1

\* A command has been sent and no callback is new.
LEMMA SentSilently ==
  ASSUME QueueType, AfterSending(<<>>, nested)
  PROVE  (\A o, x : Comes(o, x)' <=> Comes(o, x)) /\ \A o : OnceComes(o) => OnceComes(o)'
<1>0. PICK e \in Seq(Ticks) : e = <<>>
  BY NoTicks
<1>1. /\ \A o, x : Comes(o, x)' <=> Has(ticks, o, x) \/ Has(e, o, x) \/ Has(nested, o, x)
      /\ \A o : /\ Once(ticks, o) /\ Once(e, o) /\ Once(nested, o)
                /\ \A x : /\ ~(Has(ticks, o, x) /\ Has(e, o, x)) /\ ~(Has(ticks, o, x) /\ Has(nested, o, x))
                          /\ ~(Has(e, o, x) /\ Has(nested, o, x))
                => OnceComes(o)'
  BY <1>0, AfterSendingDoes DEF QueueType
<1>2. (\A o, x : ~Has(e, o, x)) /\ \A o : Once(e, o)
  BY <1>0, HasEmpty, OnceEmpty
<1> QED
  BY <1>1, <1>2 DEF Comes, OnceComes

\* An EXECUTE has been refused when it was to be sent.
LEMMA SentRefused ==
  ASSUME QueueType, NEW c \in Calls, AfterSending(<<Tick("refused", c)>>, nested)
  PROVE  /\ \A o, x : Comes(o, x)' <=> Comes(o, x) \/ (o = "refused" /\ x = c)
         /\ \A o : o # "refused" /\ OnceComes(o) => OnceComes(o)'
<1>0. PICK m \in Ticks : m = Tick("refused", c) /\ m.op = "refused" /\ m.about = c
  BY CallTick
<1>1. PICK e \in Seq(Ticks) : e = <<m>>
  <2>1. <<m>> \in Seq(Ticks)
    OBVIOUS
  <2> QED
    BY <2>1
<1>2. (\A o, x : Has(e, o, x) <=> o = m.op /\ x = m.about) /\ \A o : Once(e, o)
  BY <1>1, HasOne
<1>3. /\ \A o, x : Comes(o, x)' <=> Has(ticks, o, x) \/ Has(e, o, x) \/ Has(nested, o, x)
      /\ \A o : /\ Once(ticks, o) /\ Once(e, o) /\ Once(nested, o)
                /\ \A x : /\ ~(Has(ticks, o, x) /\ Has(e, o, x)) /\ ~(Has(ticks, o, x) /\ Has(nested, o, x))
                          /\ ~(Has(e, o, x) /\ Has(nested, o, x))
                => OnceComes(o)'
  BY <1>0, <1>1, AfterSendingDoes DEF QueueType
<1>4. \A o, x : o # "refused" => ~Has(e, o, x)
  BY <1>0, <1>2
<1> QED
  BY <1>0, <1>2, <1>3, <1>4 DEF Comes, OnceComes

\* A PREPARE was found in the cache when it was to be sent.
LEMMA SentHit ==
  ASSUME QueueType, NEW c \in Calls, ~Comes("prepared", c),
         AfterSending(<<>>, Append(nested, Tick("prepared", c)))
  PROVE  /\ \A o, x : Comes(o, x)' <=> Comes(o, x) \/ (o = "prepared" /\ x = c)
         /\ \A o : OnceComes(o) => OnceComes(o)'
<1>0. PICK e \in Seq(Ticks) : e = <<>>
  BY NoTicks
<1>1. PICK h : h = Append(nested, Tick("prepared", c))
  OBVIOUS
<1>2. /\ h \in Seq(Ticks)
      /\ \A o, x : Has(h, o, x) <=> Has(nested, o, x) \/ (o = "prepared" /\ x = c)
      /\ \A o : Once(nested, o) /\ (o = "prepared" => ~Has(nested, o, c)) => Once(h, o)
  <2>1. PICK m \in Ticks : m = Tick("prepared", c) /\ m.op = "prepared" /\ m.about = c
    BY CallTick
  <2>2. nested \in Seq(Ticks) /\ h = Append(nested, m)
    BY <1>1, <2>1 DEF QueueType
  <2>3. \A o, x : Has(Append(nested, m), o, x) <=> Has(nested, o, x) \/ (o = m.op /\ x = m.about)
    BY <2>2, HasAppend
  <2>4. \A o : Once(nested, o) /\ (m.op = o => ~Has(nested, o, m.about)) => Once(Append(nested, m), o)
    BY <2>2, OnceAppend
  <2> QED
    BY <2>1, <2>2, <2>3, <2>4
<1>3. /\ \A o, x : Comes(o, x)' <=> Has(ticks, o, x) \/ Has(e, o, x) \/ Has(h, o, x)
      /\ \A o : /\ Once(ticks, o) /\ Once(e, o) /\ Once(h, o)
                /\ \A x : /\ ~(Has(ticks, o, x) /\ Has(e, o, x)) /\ ~(Has(ticks, o, x) /\ Has(h, o, x))
                          /\ ~(Has(e, o, x) /\ Has(h, o, x))
                => OnceComes(o)'
  BY <1>0, <1>1, <1>2, AfterSendingDoes
<1>4. (\A o, x : ~Has(e, o, x)) /\ \A o : Once(e, o)
  BY <1>0, HasEmpty, OnceEmpty
<1> QED
  BY <1>2, <1>3, <1>4 DEF Comes, OnceComes

\* What has an empty tail has one element.
LEMMA TailEmpty == \A S : \A s \in Seq(S) : s # <<>> /\ Tail(s) = <<>> => Len(s) = 1
<1> SUFFICES ASSUME NEW S, NEW s \in Seq(S), s # <<>>, Len(s) # 1 PROVE Tail(s) # <<>>
  OBVIOUS
<1>1. Len(s) \in Nat /\ Len(s) > 0 /\ DOMAIN Tail(s) = 1..(Len(s) - 1)
  <2>1. Len(s) \in Nat /\ Len(s) > 0
    OBVIOUS
  <2>2. Tail(s) \in Seq(S) /\ Len(Tail(s)) = Len(s) - 1
    OBVIOUS
  <2> QED
    BY <2>1, <2>2
<1>2. 1 \in DOMAIN Tail(s)
  <2>1. PICK n \in Nat : n = Len(s)
    BY <1>1
  <2>2. n > 0 /\ n # 1
    BY <1>1, <2>1
  <2>3. 1 \in 1..(n - 1)
    BY <2>2
  <2> QED
    BY <1>1, <2>1, <2>3, Zenon
<1>3. 1 \notin DOMAIN <<>>
  OBVIOUS
<1> QED
  BY <1>2, <1>3, Zenon

\* The last callbacks of prepares found in the cache are due when all is sent.
LEMMA NestedSent ==
  ASSUME QueueType, sendQueue # <<>>, ~blocked, UNCHANGED blocked, sendQueue' = Tail(sendQueue),
         NEW more \in Seq(Ticks), NEW hits, AfterSending(more, hits)
  PROVE  NestedNow'
<1>1. sendQueue' = <<>> => Len(sendQueue) = 1
  <2>1. sendQueue \in Seq(Commands)
    BY DEF QueueType
  <2>2. Tail(sendQueue) = <<>> => Len(sendQueue) = 1
    BY <2>1, TailEmpty
  <2> QED
    BY <2>2, Zenon
<1> QED
  BY <1>1 DEF NestedNow, AllSent, AfterSending

\* A PREPARE is sent, or found in the LRU after all: its EXECUTE is then not behind it.
LEMMA SendPrepareStages ==
  ASSUME Closes, Stages, SendNext, Head(sendQueue).op = "prepare"
  PROVE  Stages'
<1>0. QueueType /\ LruOK /\ TypeInv /\ Unanswered /\ RestType
  BY TypeParts DEF Closes
<1>1. PICK m \in Commands :
        /\ sendQueue # <<>> /\ ~blocked /\ m = Head(sendQueue) /\ sendQueue' = Tail(sendQueue)
        /\ \A o, x : Has(sendQueue, o, x) <=> (o = m.op /\ x = m.about) \/ Has(sendQueue', o, x)
        /\ \A o : Once(sendQueue, o) => Once(sendQueue', o) /\ (m.op = o => ~Has(sendQueue', o, m.about))
        /\ UNCHANGED <<database, cacheSize, blocked, draining, how, wants, bound, settled, crashed, client>>
        /\ m.op = "prepare" /\ m.about \in Calls /\ SendPrepare(m.about)
  BY <1>0, SendNextDoes
<1>2. PICK c \in Calls : c = m.about
  BY <1>1
<1>3. /\ Has(sendQueue, "prepare", c) /\ ~Has(sendQueue', "prepare", c)
      /\ \A x : Has(sendQueue', "execute", x) <=> Has(sendQueue, "execute", x)
      /\ \A x : x # c => (Has(sendQueue', "prepare", x) <=> Has(sendQueue, "prepare", x))
      /\ Once(sendQueue', "execute")
  BY <1>0, <1>1, <1>2 DEF Unanswered, Stages, DueOnce
<1>4. ~Has(inFlight, "prepare", c) /\ how[c] \in {"prepare", "execute", "late"} /\ wrapper[c] = None
  BY <1>0, <1>3 DEF Unanswered, RestType
<1>5. /\ Stage(c) /\ c \notin bound /\ c \notin settled
      /\ ~Comes("prepared", c) /\ ~Comes("executed", c) /\ ~Comes("refused", c)
      /\ ~Has(inFlight, "execute", c)
      /\ how[c] = "execute" => Together(c)
      /\ how[c] # "execute" => ~Has(sendQueue, "execute", c)
  BY <1>3 DEF Stages, Stage, Queued, Replied
<1>6. ASSUME NEW d \in Calls, d # c PROVE ~Together(d) /\ ~AtOnce(d)
  BY <1>1, <1>2, <1>6, HeadAtOnce
<1>7. OnceComes("prepared")
  BY DEF Stages, DueOnce
<1>8. ASSUME NEW d \in Calls, d # c, SameCall(d) PROVE Stage(d)'
  BY <1>6, <1>8, StageKept DEF Stages, Stage, Queued, Executing
<1>9. CASE Found(Key(wants[c][2])) # {}
  <2>1. /\ GetHit(Key(wants[c][2]), c) /\ UNCHANGED <<inFlight, server>>
        /\ AfterSending(<<>>, Append(nested, Tick("prepared", c)))
    BY <1>1, <1>2, <1>9 DEF SendPrepare
  <2>2. open' = open \cup {c}
    BY <2>1 DEF GetHit
  <2>3. (\A o, x : Comes(o, x)' <=> Comes(o, x) \/ (o = "prepared" /\ x = c)) /\ OnceComes("prepared")'
    BY <1>0, <1>5, <1>7, <2>1, SentHit
  <2>4. ASSUME NEW d \in Calls, d # c PROVE Stage(d)'
    <3>1. \A o : Comes(o, d)' <=> Comes(o, d)
      BY <2>3, <2>4
    <3>2. SameCall(d)
      BY <1>1, <1>3, <2>1, <2>2, <2>4, <3>1 DEF SameCall
    <3> QED
      BY <2>4, <3>2, <1>8
  <2>5. how[c] # "execute"
    BY <1>5, <1>9 DEF Together
  <2>6. Stage(c)'
    <3>1. /\ how'[c] = how[c] /\ c \notin bound' /\ c \notin settled' /\ c \in open'
          /\ ~Has(sendQueue', "prepare", c) /\ ~Has(inFlight', "prepare", c)
          /\ ~Has(sendQueue', "execute", c) /\ ~Has(inFlight', "execute", c)
          /\ Comes("prepared", c)' /\ ~Comes("executed", c)' /\ ~Comes("refused", c)'
      BY <1>1, <1>3, <1>4, <1>5, <2>1, <2>2, <2>3, <2>5
    <3> QED
      BY <1>4, <2>5, <3>1 DEF Stage, Queued, Sent, Resolving, Executing, Holding, Expected, Preparing, Replied
  <2>7. Backed'
    BY <1>1, <2>1, BackedKept DEF Stages
  <2>8. NestedNow'
    <3>1. PICK e \in Seq(Ticks) : e = <<>>
      BY NoTicks
    <3> QED
      BY <1>0, <1>1, <2>1, <3>1, NestedSent
  <2> QED
    BY <1>1, <1>3, <2>3, <2>4, <2>6, <2>7, <2>8 DEF Stages, DueOnce
<1>10. CASE Found(Key(wants[c][2])) = {}
  <2>1. PICK ok \in BOOLEAN : Answer(Head(sendQueue), ok) /\ last' = IF ok THEN c ELSE None
    BY <1>1, <1>2, <1>10 DEF SendPrepare
  <2>2. AfterSending(<<>>, nested) /\ UNCHANGED <<lru, wrapper, open>>
    BY <1>1, <1>2, <1>10 DEF SendPrepare
  <2>3. PICK a \in Answers :
           /\ a.op = m.op /\ a.about = m.about /\ inFlight' = Append(inFlight, a)
           /\ \A o, x : Has(inFlight', o, x) <=> Has(inFlight, o, x) \/ (o = m.op /\ x = m.about)
    BY <1>0, <1>1, <2>1, AnswerDoes
  <2>4. (\A o, x : Comes(o, x)' <=> Comes(o, x)) /\ OnceComes("prepared")'
    BY <1>0, <1>7, <2>2, SentSilently
  <2>5. ASSUME NEW d \in Calls, d # c PROVE Stage(d)'
    <3>1. SameCall(d)
      BY <1>1, <1>2, <1>3, <2>2, <2>3, <2>4, <2>5 DEF SameCall
    <3> QED
      BY <2>5, <3>1, <1>8
  <2>6. how[c] = "execute" => AtOnce(c)'
    <3> SUFFICES ASSUME how[c] = "execute" PROVE AtOnce(c)'
      OBVIOUS
    <3>1. sendQueue = <<Command("prepare", c), Command("execute", c)>>
      BY <1>5 DEF Together
    <3>2. sendQueue' = <<Command("execute", c)>>
      BY <1>1, <3>1
    <3>3. Has(inFlight', "prepare", c) /\ last' \in {c, None} /\ ~blocked'
      BY <1>1, <1>2, <2>1, <2>3
    <3> QED
      BY <3>2, <3>3 DEF AtOnce
  <2>7. Stage(c)'
    <3>1. /\ how'[c] = how[c] /\ c \notin bound' /\ c \notin settled' /\ (c \in open' <=> c \in open)
          /\ ~Has(sendQueue', "prepare", c) /\ Has(inFlight', "prepare", c)
          /\ Has(sendQueue', "execute", c) <=> Has(sendQueue, "execute", c)
          /\ ~Has(inFlight', "execute", c)
          /\ ~Comes("prepared", c)' /\ ~Comes("executed", c)' /\ ~Comes("refused", c)'
      BY <1>1, <1>2, <1>3, <1>4, <1>5, <2>2, <2>3, <2>4
    <3> QED
      BY <1>4, <1>5, <2>6, <3>1 DEF Stage, Queued, Sent, Resolving, Executing, Holding, Expected, Preparing, Replied
  <2>8. Backed'
    BY <1>0, <1>1, <2>3, BackedAppend DEF Stages
  <2>9. NestedNow'
    <3>1. PICK e \in Seq(Ticks) : e = <<>>
      BY NoTicks
    <3> QED
      BY <1>0, <1>1, <2>2, <3>1, NestedSent
  <2> QED
    BY <1>1, <1>3, <2>4, <2>5, <2>7, <2>8, <2>9 DEF Stages, DueOnce
<1> QED
  BY <1>9, <1>10

\* CLOSE, USE and RESET are about no call that is under way.
LEMMA SendOthersStages ==
  ASSUME Closes, Stages, SendNext, Head(sendQueue).op \in {"close", "use", "reset"}
  PROVE  Stages'
<1>0. QueueType
  BY DEF Closes, TypeInv
<1>1. PICK m \in Commands :
        /\ sendQueue # <<>> /\ ~blocked /\ m = Head(sendQueue) /\ sendQueue' = Tail(sendQueue)
        /\ \A o, x : Has(sendQueue, o, x) <=> (o = m.op /\ x = m.about) \/ Has(sendQueue', o, x)
        /\ \A o : Once(sendQueue, o) => Once(sendQueue', o) /\ (m.op = o => ~Has(sendQueue', o, m.about))
        /\ UNCHANGED <<database, cacheSize, blocked, draining, how, wants, bound, settled, crashed, client>>
        /\ \/ m.op = "close" /\ m.about \in Calls /\ SendClose(m.about)
           \/ m.op = "use" /\ m.about \in Databases /\ SendOther(m)
           \/ m.op = "reset" /\ m.about = None /\ SendOther(m)
  BY <1>0, SendNextDoes
<1>2. AfterSending(<<>>, nested) /\ UNCHANGED <<wrapper, open>>
  BY <1>1 DEF SendClose, SendOther
<1>3. (\A o, x : Comes(o, x)' <=> Comes(o, x)) /\ OnceComes("prepared")'
  BY <1>0, <1>2, SentSilently DEF Stages, DueOnce
<1>4. /\ \A o \in {"prepare", "execute"} : \A x : Has(inFlight', o, x) <=> Has(inFlight, o, x)
      /\ Backed'
  <2>1. CASE m.op = "close"
    <3>1. UNCHANGED inFlight
      BY <1>1, <2>1 DEF SendClose
    <3> QED
      BY <1>1, <3>1, BackedKept DEF Stages
  <2>2. CASE m.op \in {"use", "reset"}
    <3>1. PICK ok \in BOOLEAN : ok = TRUE
      OBVIOUS
    <3>2. Answer(m, ok)
      BY <1>1, <2>2, <3>1 DEF SendOther
    <3>3. PICK a \in Answers :
            /\ a.op = m.op /\ a.about = m.about /\ inFlight' = Append(inFlight, a)
            /\ \A o, x : Has(inFlight', o, x) <=> Has(inFlight, o, x) \/ (o = m.op /\ x = m.about)
      BY <1>0, <2>2, <3>2, AnswerDoes
    <3>4. Backed'
      BY <1>0, <1>1, <2>2, <3>3, BackedAppend DEF Stages
    <3> QED
      BY <2>2, <3>3, <3>4
  <2> QED
    BY <1>1, <2>1, <2>2
<1>5. ASSUME NEW d \in Calls PROVE Stage(d)'
  <2>1. ~Together(d) /\ ~AtOnce(d)
    BY HeadAtOnce
  <2>2. SameCall(d)
    BY <1>1, <1>2, <1>3, <1>4 DEF SameCall
  <2> QED
    BY <2>1, <2>2, StageKept DEF Stages, Stage, Queued, Executing
<1>6. NestedNow'
  <2>1. PICK e \in Seq(Ticks) : e = <<>>
    BY NoTicks
  <2> QED
    BY <1>0, <1>1, <1>2, <2>1, NestedSent
<1> QED
  BY <1>1, <1>3, <1>4, <1>5, <1>6 DEF Stages, DueOnce

\* An EXECUTE whose statement is not known is sent right after its PREPARE: the last statement is its own.
LEMMA SendExecuteStages ==
  ASSUME Closes, Stages, SendNext, Head(sendQueue).op = "execute"
  PROVE  Stages'
<1>0. QueueType /\ LruOK /\ TypeInv /\ Unanswered /\ RestType /\ CloseTold
  BY TypeParts DEF Closes
<1>1. PICK m \in Commands :
        /\ sendQueue # <<>> /\ ~blocked /\ m = Head(sendQueue) /\ sendQueue' = Tail(sendQueue)
        /\ \A o, x : Has(sendQueue, o, x) <=> (o = m.op /\ x = m.about) \/ Has(sendQueue', o, x)
        /\ \A o : Once(sendQueue, o) => Once(sendQueue', o) /\ (m.op = o => ~Has(sendQueue', o, m.about))
        /\ UNCHANGED <<database, cacheSize, blocked, draining, how, wants, bound, settled, crashed, client>>
        /\ m.op = "execute" /\ m.about \in Calls /\ SendExecute(m.about)
  BY <1>0, SendNextDoes
<1>2. PICK c \in Calls : c = m.about
  BY <1>1
<1>3. /\ Has(sendQueue, "execute", c) /\ ~Has(sendQueue', "execute", c)
      /\ \A x : Has(sendQueue', "prepare", x) <=> Has(sendQueue, "prepare", x)
      /\ \A x : x # c => (Has(sendQueue', "execute", x) <=> Has(sendQueue, "execute", x))
      /\ Once(sendQueue', "execute")
  BY <1>1, <1>2 DEF Stages, DueOnce
<1>4. ~Together(c) /\ Head(sendQueue).op = "execute"
  BY <1>1, HeadAtOnce
<1>5. /\ Stage(c) /\ how[c] # "none" /\ ~Has(inFlight, "execute", c)
      /\ ~Comes("executed", c) /\ ~Comes("refused", c)
      /\ c \notin bound => how[c] = "execute" /\ AtOnce(c)
      /\ how[c] # "prepare" => c \notin settled /\ (c \in bound => c \in open)
      /\ ~Has(sendQueue, "prepare", c)
  BY <1>3, <1>4 DEF Stages, Stage, Executing, Queued, Replied
<1>6. ASSUME NEW d \in Calls, d # c, SameCall(d) PROVE Stage(d)'
  <2>1. ~Together(d) /\ ~AtOnce(d)
    BY <1>1, <1>2, <1>6, HeadAtOnce
  <2> QED
    BY <1>6, <2>1, StageKept DEF Stages, Stage, Queued, Executing
<1>7. OnceComes("prepared") /\ UNCHANGED <<wrapper, open, onServer>>
  BY <1>1 DEF Stages, DueOnce, SendExecute
<1>8. CASE AfterSending(<<Tick("refused", c)>>, nested) /\ UNCHANGED inFlight
  <2>1. (\A o, x : Comes(o, x)' <=> Comes(o, x) \/ (o = "refused" /\ x = c)) /\ OnceComes("prepared")'
    BY <1>0, <1>7, <1>8, SentRefused
  <2>2. ASSUME NEW d \in Calls, d # c PROVE Stage(d)'
    <3>1. \A o : Comes(o, d)' <=> Comes(o, d)
      BY <2>1, <2>2
    <3>2. SameCall(d)
      BY <1>1, <1>3, <1>7, <1>8, <2>2, <3>1 DEF SameCall
    <3> QED
      BY <2>2, <3>2, <1>6
  <2>3. Stage(c)'
    <3>1. /\ how'[c] = how[c] /\ (c \in bound' <=> c \in bound)
          /\ c \in settled' <=> c \in settled
          /\ c \in open' <=> c \in open
          /\ ~Has(sendQueue', "prepare", c) /\ ~Has(sendQueue', "execute", c)
          /\ Has(inFlight', "prepare", c) <=> Has(inFlight, "prepare", c)
          /\ ~Has(inFlight', "execute", c)
          /\ Comes("prepared", c)' <=> Comes("prepared", c)
          /\ ~Comes("executed", c)' /\ Comes("refused", c)'
      BY <1>1, <1>3, <1>5, <1>7, <1>8, <2>1
    <3>2. how[c] # "execute" => c \in bound /\ ~Has(inFlight, "prepare", c) /\ ~Comes("prepared", c)
      BY <1>3, <1>5 DEF Stage, Sent, Resolving
    <3> QED
      BY <1>5, <3>1, <3>2 DEF Stage, Queued, Sent, Resolving, Executing, Holding, Expected, Replied
  <2>4. Backed'
    BY <1>1, <1>8, BackedKept DEF Stages
  <2>5. NestedNow'
    <3>1. Tick("refused", c) \in Ticks
      BY CallTick
    <3>2. PICK e \in Seq(Ticks) : e = <<Tick("refused", c)>>
      <4>1. <<Tick("refused", c)>> \in Seq(Ticks)
        BY <3>1
      <4> QED
        BY <4>1
    <3> QED
      BY <1>0, <1>1, <1>8, <3>2, NestedSent
  <2> QED
    BY <1>1, <1>3, <2>1, <2>2, <2>3, <2>4, <2>5 DEF Stages, DueOnce
<1>9. CASE \E ok \in BOOLEAN : (ok => Named(c) \in onServer) /\ Answer(m, ok) /\ AfterSending(<<>>, nested)
  <2>1. PICK ok \in BOOLEAN : (ok => Named(c) \in onServer) /\ Answer(m, ok) /\ AfterSending(<<>>, nested)
    BY <1>9
  <2>2. PICK a \in Answers :
          /\ a.op = m.op /\ a.about = m.about /\ a.ok = ok /\ inFlight' = Append(inFlight, a)
          /\ \A o, x : Has(inFlight', o, x) <=> Has(inFlight, o, x) \/ (o = m.op /\ x = m.about)
    BY <1>0, <1>1, <2>1, AnswerDoes
  <2>3. (\A o, x : Comes(o, x)' <=> Comes(o, x)) /\ OnceComes("prepared")'
    BY <1>0, <1>7, <2>1, SentSilently
  <2>4. ASSUME NEW d \in Calls, d # c PROVE Stage(d)'
    <3>1. SameCall(d)
      BY <1>1, <1>2, <1>3, <1>7, <2>2, <2>3, <2>4 DEF SameCall
    <3> QED
      BY <2>4, <3>1, <1>6
  <2>5. Stage(c)'
    <3>1. /\ how'[c] = how[c] /\ (c \in bound' <=> c \in bound)
          /\ c \in settled' <=> c \in settled
          /\ c \in open' <=> c \in open
          /\ ~Has(sendQueue', "prepare", c) /\ ~Has(sendQueue', "execute", c)
          /\ Has(inFlight', "prepare", c) <=> Has(inFlight, "prepare", c)
          /\ Has(inFlight', "execute", c)
          /\ Comes("prepared", c)' <=> Comes("prepared", c)
          /\ ~Comes("executed", c)' /\ ~Comes("refused", c)'
      BY <1>1, <1>2, <1>3, <1>5, <1>7, <2>2, <2>3
    <3>2. how[c] # "execute" => c \in bound /\ ~Has(inFlight, "prepare", c) /\ ~Comes("prepared", c)
      BY <1>3, <1>5 DEF Stage, Sent, Resolving
    <3>3. how[c] \in {"prepare", "execute", "late"}
      BY <1>0, <1>5 DEF RestType
    <3>4. Queued(c)' /\ Sent(c)' /\ Resolving(c)'
      BY <1>5, <3>1, <3>2 DEF Stage, Queued, Sent, Resolving, Replied
    <3>5. Executing(c)'
      BY <1>5, <3>1 DEF Executing, Replied
    <3>6. Holding(c)'
      BY <1>5, <3>1 DEF Stage, Holding
    <3>7. Expected(c)'
      <4>1. CASE how[c] = "prepare"
        BY <1>3, <1>5, <3>1, <3>2, <4>1 DEF Stage, Expected, Preparing
      <4>2. CASE how[c] # "prepare"
        BY <1>5, <3>1, <3>2, <3>3, <4>2 DEF Expected
      <4> QED
        BY <4>1, <4>2
    <3> QED
      BY <3>4, <3>5, <3>6, <3>7 DEF Stage
  <2>6. Backed'
    <3>1. ASSUME ok, c \notin bound
          PROVE  \E i \in DOMAIN inFlight : inFlight[i].op = "prepare" /\ inFlight[i].ok /\ inFlight[i].about = c
      <4>1. Has(inFlight, "prepare", c) /\ last \in {c, None}
        BY <1>4, <1>5, <3>1 DEF AtOnce
      <4>2. last \in onServer
        BY <2>1, <3>1 DEF Named
      <4>3. c \in onServer
        BY <1>0, <4>1, <4>2, NoneIsNoCall DEF RestType
      <4>4. PICK i \in DOMAIN inFlight : inFlight[i].op = "prepare" /\ inFlight[i].about = c
        BY <4>1 DEF Has
      <4> QED
        BY <1>0, <4>3, <4>4 DEF CloseTold
    <3> QED
      BY <1>0, <1>1, <1>2, <2>2, <3>1, BackedAppend DEF Stages
  <2>7. NestedNow'
    <3>1. PICK e \in Seq(Ticks) : e = <<>>
      BY NoTicks
    <3> QED
      BY <1>0, <1>1, <2>1, <3>1, NestedSent
  <2> QED
    BY <1>1, <1>3, <2>3, <2>4, <2>5, <2>6, <2>7 DEF Stages, DueOnce
<1> QED
  BY <1>1, <1>2, <1>8, <1>9 DEF SendExecute

\* Nothing happens.
LEMMA StutterStages == ASSUME Stages, UNCHANGED vars PROVE Stages'
<1>1. /\ UNCHANGED <<database, cache, sendQueue, blocked, nested, inFlight, ticks, how, wants, bound, open, settled, crashed, last>>
  BY DEF vars, lru, queues, calls, client, server
<1>2. (\A o, x : Comes(o, x)' <=> Comes(o, x)) /\ \A o : OnceComes(o)' <=> OnceComes(o)
  BY <1>1, ComesSame
<1>3. ASSUME NEW d \in Calls PROVE Stage(d)'
  <2>1. SameCall(d)
    BY <1>1, <1>2 DEF SameCall
  <2>2. Together(d)' <=> Together(d)
    BY <1>1 DEF Together, Found, Key
  <2>3. AtOnce(d)' <=> AtOnce(d)
    BY <1>1, <2>2 DEF AtOnce
  <2> QED
    BY <2>1, <2>2, <2>3, StageKept DEF Stages, Stage, Queued, Executing
<1>4. Backed'
  BY <1>1, BackedKept DEF Stages
<1> QED
  BY <1>1, <1>2, <1>3, <1>4 DEF Stages, DueOnce, NestedNow, AllSent

\* Each step of a client that waits for the end of a stream keeps Stages.
LEMMA NextStages == ASSUME Closes, Stages, "stream" \notin Careless, [Next]_vars PROVE Stages'
<1>1. \/ \E c \in Calls, sql \in Sqls, kind \in {"prepare", "execute", "late"} : Asks(c, sql, kind)
      \/ \E c \in Calls : ExecutePrepared(c)
      \/ \E c \in Calls : ClosePrepared(c)
      \/ \E c \in Calls : Prepared(c)
      \/ \E c \in Calls, cb \in {"executed", "refused"} : Answered(c, cb)
      \/ \E db \in Databases : Use(db)
      \/ Reset \/ StreamStarts \/ StreamEnds
      \/ SendNext \/ ReadPrepared \/ ReadOther \/ ResetDone \/ UNCHANGED vars
  BY NextCases
<1>2. CASE \E c \in Calls, sql \in Sqls, kind \in {"prepare", "execute", "late"} : Asks(c, sql, kind)
  BY <1>2, AskStages
<1>3. CASE \E c \in Calls : ExecutePrepared(c)
  BY <1>3, ExecutePreparedStages
<1>4. CASE \E c \in Calls : ClosePrepared(c)
  BY <1>4, ClosePreparedStages
<1>5. CASE \E c \in Calls : Prepared(c)
  BY <1>5, PreparedStages
<1>6. CASE \E c \in Calls, cb \in {"executed", "refused"} : Answered(c, cb)
  BY <1>6, AnsweredStages
<1>7. CASE (\E db \in Databases : Use(db)) \/ Reset \/ StreamStarts
  BY <1>7, UseResetStreamStages
<1>8. CASE SendNext
  <2>1. QueueType
    BY DEF Closes, TypeInv
  <2>2. Head(sendQueue).op \in {"prepare", "execute", "close", "use", "reset"}
    BY <1>8, <2>1, SendNextDoes
  <2> QED
    BY <1>8, <2>2, SendPrepareStages, SendExecuteStages, SendOthersStages
<1> QED
  BY <1>1, <1>2, <1>3, <1>4, <1>5, <1>6, <1>7, <1>8, StreamEndsStages, ReadPreparedStages, ReadOtherStages,
     ResetDoneStages, StutterStages

\* Stages always holds.
LEMMA AlwaysStages == ASSUME "stream" \notin Careless PROVE Spec => [](Closes /\ Stages)
<1>1. Init => Closes /\ Stages
  BY InitCloses, InitStages
<1>2. Closes /\ Stages /\ [Next]_vars => (Closes /\ Stages)'
  BY NextCloses, NextStages
<1> QED
  BY <1>1, <1>2, PTL DEF Spec

\* When nothing is under way, what would settle a call has come.
LEMMA StagesSettle == ASSUME Stages PROVE CallsSettled
<1> SUFFICES ASSUME Idle, NEW c \in Calls, how[c] # "none" PROVE c \in settled
  BY DEF CallsSettled, Stages
<1>1. sendQueue = <<>> /\ inFlight = <<>> /\ ticks = <<>> /\ nested = <<>>
  BY DEF Idle, AllSent, Stages, NestedNow
<1>2. \A o, x : ~Has(sendQueue, o, x) /\ ~Has(inFlight, o, x) /\ ~Comes(o, x)
  BY <1>1, HasEmpty DEF Comes
<1> QED
  BY <1>2 DEF Stages, Stage, Expected, Preparing

\* When nothing is under way, what is on the server is in the cache or in the hands of the client:
\* whoever else uses it is a call that is not settled.
LEMMA StagesBound == ASSUME Closes, Stages PROVE StatementsBounded
<1> SUFFICES ASSUME Idle, NEW st \in onServer
             PROVE  IsCached(st) \/ \E c \in open : wrapper[c] = st /\ how[c] = "prepare"
  BY DEF StatementsBounded
<1>0. st \in Calls /\ open \subseteq Calls /\ how \in [Calls -> {"none", "prepare", "execute", "late"}]
  BY TypeParts DEF Closes, RestType, LruType
<1>1. sendQueue = <<>> /\ inFlight = <<>> /\ ticks = <<>> /\ nested = <<>>
  BY DEF Idle, AllSent, Stages, NestedNow
<1>2. \A o, x : ~Has(sendQueue, o, x) /\ ~Has(inFlight, o, x) /\ ~Comes(o, x)
  BY <1>1, HasEmpty DEF Comes
<1>3. st \notin closed /\ wrapper[st] = st
  BY <1>0, <1>2 DEF Closes, CloseTold
<1>4. Users(st) # {} \/ IsCached(st)
  BY <1>0, <1>3 DEF Closes, LruOK, Counted
<1>5. ASSUME NEW c \in Users(st) PROVE c \in open /\ wrapper[c] = st /\ how[c] = "prepare"
  <2>1. c \in open /\ wrapper[c] = st /\ c \in Calls
    BY <1>0 DEF Users
  <2>2. CallsSettled
    BY StagesSettle
  <2>3. Stage(c)
    BY <2>1 DEF Stages
  <2>4. how[c] # "none" /\ c \in settled
    BY <2>1, <2>2, <2>3 DEF Stage, Holding, CallsSettled
  <2> QED
    BY <1>2, <2>1, <2>3, <2>4 DEF Stage, Holding
<1> QED
  BY <1>4, <1>5

\* A client that waits for the end of a stream before it calls execute() has every prepare() and
\* execute() settled, in whatever order the PREPARE and EXECUTE of a call, its answers and the
\* callbacks of the others come, and no result is read for a statement that is not known.
THEOREM EveryCallSettled == ASSUME "stream" \notin Careless PROVE Spec => []CallsSettled
<1>1. Closes /\ Stages => CallsSettled
  BY StagesSettle
<1> QED
  BY <1>1, AlwaysStages, PTL

\* The statements of such a client are closed on the server once, not before their last use, and none
\* is forgotten there: it holds what is in the cache and what the client holds.
THEOREM NoStatementForgotten == ASSUME "stream" \notin Careless PROVE Spec => []StatementsClosed
<1>1. Closes /\ Stages => StatementsBounded
  BY StagesBound
<1>2. ClosedWhenUnused /\ StatementsBounded => StatementsClosed
  BY DEF StatementsClosed
<1> QED
  BY <1>1, <1>2, AlwaysStages, ClosedExactlyWhenUnused, PTL

-----------------------------------------------------------------------------
(***************************************************************************)
(* What holds if the client waits for the answer of a USE before it        *)
(* prepares or executes: texts are what they are said to be.               *)
(***************************************************************************)
\* No USE and no PREPARE come after a USE.
UseLast(s) == \A i, j \in DOMAIN s : i < j /\ s[i].op = "use" => s[j].op \notin {"use", "prepare"}

UseOrder ==
  /\ UseLast(inFlight) /\ UseLast(sendQueue)
  /\ \A x : Has(inFlight, "use", x) => x = session /\ \A y : ~Has(sendQueue, "use", y) /\ ~Has(sendQueue, "prepare", y)
  /\ \A x : Has(sendQueue, "use", x) => x = session
  /\ serverDb = IF Has(inFlight, "use", session) THEN session ELSE database
  /\ session = database <=> ~Has(inFlight, "use", session) /\ ~Has(sendQueue, "use", session)

RightText ==
  /\ \A c \in Calls :
       /\ Has(sendQueue, "prepare", c) \/ Has(inFlight, "prepare", c) => wants[c][1] = database
       /\ Has(inFlight, "prepare", c) => text[c] = wants[c]
       /\ wrapper[c] # None => text[wrapper[c]] = wants[c]
  /\ \A i \in DOMAIN cache : text[cache[i].st] = cache[i].key

\* USE comes last in a queue that has none.
LEMMA UseLastNone == \A s : (\A x : ~Has(s, "use", x)) => UseLast(s)
BY DEF UseLast, Has

\* USE comes last after what is neither a USE nor a PREPARE is added.
LEMMA UseLastConcat ==
  \A S : \A s, t \in Seq(S) :
    UseLast(s) /\ (\A x : ~Has(t, "use", x) /\ ~Has(t, "prepare", x)) => UseLast(s \o t)
<1> SUFFICES ASSUME NEW S, NEW s \in Seq(S), NEW t \in Seq(S), UseLast(s), \A x : ~Has(t, "use", x) /\ ~Has(t, "prepare", x)
             PROVE  UseLast(s \o t)
  OBVIOUS
<1> DEFINE a == s \o t
<1>1. /\ DOMAIN a = 1..(Len(s) + Len(t)) /\ DOMAIN s = 1..Len(s) /\ DOMAIN t = 1..Len(t)
      /\ Len(s) \in Nat /\ Len(t) \in Nat
      /\ \A i \in 1..Len(s) : a[i] = s[i]
      /\ \A i \in 1..Len(t) : a[i + Len(s)] = t[i]
  OBVIOUS
<1> HIDE DEF a
<1>2. \A i \in DOMAIN t : t[i].op \notin {"use", "prepare"}
  BY DEF Has
<1>3. \A i \in DOMAIN a : i \notin DOMAIN s => i > Len(s) /\ a[i].op \notin {"use", "prepare"}
  <2> SUFFICES ASSUME NEW i \in DOMAIN a, i \notin DOMAIN s PROVE i > Len(s) /\ a[i].op \notin {"use", "prepare"}
    OBVIOUS
  <2>1. i - Len(s) \in 1..Len(t) /\ (i - Len(s)) + Len(s) = i /\ i > Len(s)
    BY <1>1
  <2>2. a[i] = t[i - Len(s)] /\ i - Len(s) \in DOMAIN t
    BY <1>1, <2>1
  <2> QED
    BY <1>2, <2>1, <2>2
<1>4. UseLast(a)
  <2> SUFFICES ASSUME NEW i \in DOMAIN a, NEW j \in DOMAIN a, i < j, a[i].op = "use"
               PROVE  a[j].op \notin {"use", "prepare"}
    BY DEF UseLast
  <2>1. CASE j \notin DOMAIN s
    BY <1>3, <2>1
  <2>2. CASE j \in DOMAIN s
    <3>1. i \in DOMAIN s
      BY <1>1, <2>2
    <3> QED
      BY <1>1, <2>2, <3>1 DEF UseLast
  <2> QED
    BY <2>1, <2>2
<1> QED
  BY <1>4 DEF a

\* USE comes last after a USE is added to a queue that has none.
LEMMA UseLastAppend ==
  \A S : \A s \in Seq(S), e \in S :
    UseLast(s) /\ (e.op \in {"use", "prepare"} => \A x : ~Has(s, "use", x)) => UseLast(Append(s, e))
<1> SUFFICES ASSUME NEW S, NEW s \in Seq(S), NEW e \in S, UseLast(s), e.op \in {"use", "prepare"} => \A x : ~Has(s, "use", x)
             PROVE  UseLast(Append(s, e))
  OBVIOUS
<1> DEFINE a == Append(s, e)
<1>1. /\ DOMAIN a = 1..(Len(s) + 1) /\ DOMAIN s = 1..Len(s) /\ Len(s) \in Nat
      /\ \A i \in 1..Len(s) : a[i] = s[i]
      /\ a[Len(s) + 1] = e
  OBVIOUS
<1> HIDE DEF a
<1>2. e.op \in {"use", "prepare"} => \A i \in DOMAIN s : s[i].op # "use"
  BY DEF Has
<1>3. UseLast(a)
  <2> SUFFICES ASSUME NEW i \in DOMAIN a, NEW j \in DOMAIN a, i < j, a[i].op = "use"
               PROVE  a[j].op \notin {"use", "prepare"}
    BY DEF UseLast
  <2>1. i \in DOMAIN s /\ a[i] = s[i]
    BY <1>1
  <2>2. CASE j = Len(s) + 1
    BY <1>1, <1>2, <2>1, <2>2
  <2>3. CASE j # Len(s) + 1
    <3>1. j \in DOMAIN s /\ a[j] = s[j]
      BY <1>1, <2>3
    <3> QED
      BY <2>1, <3>1 DEF UseLast
  <2> QED
    BY <2>2, <2>3
<1> QED
  BY <1>3 DEF a

\* What comes after a USE is neither a USE nor a PREPARE.
LEMMA UseLastTail ==
  \A S : \A s \in Seq(S) : s # <<>> /\ UseLast(s) =>
    UseLast(Tail(s)) /\ (Head(s).op = "use" => \A x : ~Has(Tail(s), "use", x) /\ ~Has(Tail(s), "prepare", x))
<1> SUFFICES ASSUME NEW S, NEW s \in Seq(S), s # <<>>, UseLast(s)
             PROVE  UseLast(Tail(s)) /\ (Head(s).op = "use" => \A x : ~Has(Tail(s), "use", x) /\ ~Has(Tail(s), "prepare", x))
  OBVIOUS
<1> DEFINE a == Tail(s)
<1>1. /\ DOMAIN a = 1..(Len(s) - 1) /\ DOMAIN s = 1..Len(s) /\ Len(s) \in Nat /\ Len(s) > 0
      /\ \A i \in 1..(Len(s) - 1) : a[i] = s[i + 1]
      /\ Head(s) = s[1]
  OBVIOUS
<1> HIDE DEF a
<1>2. \A i \in DOMAIN a : i + 1 \in DOMAIN s /\ 1 < i + 1 /\ a[i] = s[i + 1] /\ i \in Int
  BY <1>1
<1>3. 1 \in DOMAIN s
  BY <1>1
<1>4. UseLast(a)
  <2> SUFFICES ASSUME NEW i \in DOMAIN a, NEW j \in DOMAIN a, i < j, a[i].op = "use"
               PROVE  a[j].op \notin {"use", "prepare"}
    BY DEF UseLast
  <2>1. i + 1 < j + 1
    BY <1>2
  <2> QED
    BY <1>2, <2>1 DEF UseLast
<1>5. s[1].op = "use" => \A j \in DOMAIN a : a[j].op \notin {"use", "prepare"}
  BY <1>2, <1>3 DEF UseLast
<1>6. s[1].op = "use" => \A x : ~Has(a, "use", x) /\ ~Has(a, "prepare", x)
  BY <1>5 DEF Has
<1> QED
  BY <1>1, <1>4, <1>6 DEF a

\* A step that adds no USE, and a PREPARE only if no USE is under way.
LEMMA UseOrderGrows ==
  ASSUME QueueType, UseOrder, NEW t \in Seq(Commands), sendQueue' = sendQueue \o t, \A x : ~Has(t, "use", x),
         (\E x : Has(t, "prepare", x)) => session = database,
         UNCHANGED <<session, database, serverDb, inFlight>>
  PROVE  UseOrder'
<1>1. \A o, x : Has(sendQueue', o, x) <=> Has(sendQueue, o, x) \/ Has(t, o, x)
  BY Grown DEF QueueType
<1>2. UseLast(sendQueue')
  <2>1. CASE \E x : Has(t, "prepare", x)
    <3>1. session = database
      BY <2>1
    <3>2. \A x : ~Has(sendQueue', "use", x)
      BY <1>1, <3>1 DEF UseOrder
    <3> QED
      BY <3>2, UseLastNone
  <2>2. CASE \A x : ~Has(t, "prepare", x)
    <3>1. UseLast(sendQueue \o t)
      BY <2>2, UseLastConcat DEF QueueType, UseOrder
    <3> QED
      BY <3>1
  <2> QED
    BY <2>1, <2>2
<1>3. UseLast(inFlight')
  BY DEF UseOrder
<1>4. \A x : Has(sendQueue', "use", x) <=> Has(sendQueue, "use", x)
  BY <1>1
<1>5. \A x : Has(inFlight', "use", x) => x = session' /\ \A y : ~Has(sendQueue', "use", y) /\ ~Has(sendQueue', "prepare", y)
  BY <1>1 DEF UseOrder
<1> QED
  BY <1>2, <1>3, <1>4, <1>5 DEF UseOrder

\* A step that leaves the queues to the server and the databases alone.
LEMMA UseOrderKept ==
  ASSUME UseOrder, UNCHANGED <<session, database, serverDb, inFlight, sendQueue>>
  PROVE  UseOrder'
BY DEF UseOrder

\* A step that adds at most COM_STMT_CLOSE commands.
LEMMA UseOrderCloses ==
  ASSUME QueueType, UseOrder, Closing, UNCHANGED <<session, database, serverDb, inFlight>>
  PROVE  UseOrder'
<1>1. PICK t \in Seq(Commands) : sendQueue' = sendQueue \o t /\ \A op, c : Has(t, op, c) <=> op = "close" /\ c \in closed' \ closed
  BY DEF Closing
<1>2. \A x : ~Has(t, "use", x) /\ ~Has(t, "prepare", x)
  BY <1>1
<1> QED
  BY <1>1, <1>2, UseOrderGrows

\* A step that adds a command that is neither USE nor PREPARE.
LEMMA UseOrderAdds ==
  ASSUME QueueType, UseOrder, NEW m \in Commands, m.op \notin {"use", "prepare"}, sendQueue' = Append(sendQueue, m),
         UNCHANGED <<session, database, serverDb, inFlight>>
  PROVE  UseOrder'
<1>1. Adds({m.op}, m.about)
  BY AddsOne DEF QueueType
<1>2. PICK t \in Seq(Commands) : sendQueue' = sendQueue \o t /\ \A o, x : Has(t, o, x) <=> o \in {m.op} /\ x = m.about
  BY <1>1 DEF Adds
<1>3. \A x : ~Has(t, "use", x) /\ ~Has(t, "prepare", x)
  BY <1>2
<1> QED
  BY <1>2, <1>3, UseOrderGrows

\* A step after which texts, wrappers, cache and databases are what they were.
LEMMA RightTextKept ==
  ASSUME RightText, UNCHANGED <<database, wants, text, wrapper, cache>>,
         \A c : Has(sendQueue', "prepare", c) \/ Has(inFlight', "prepare", c) => Has(sendQueue, "prepare", c) \/ Has(inFlight, "prepare", c),
         \A c : Has(inFlight', "prepare", c) => Has(inFlight, "prepare", c)
  PROVE  RightText'
BY DEF RightText

\* prepare() and execute(): the database of the client is the one the LRU looks into.
LEMMA AskTexts ==
  ASSUME Closes, UseOrder, RightText, "use" \notin Careless,
         NEW c \in Calls, NEW sql \in Sqls, NEW kind \in {"prepare", "execute", "late"}, Asks(c, sql, kind)
  PROVE  UseOrder' /\ RightText'
<1>0. TypeInv /\ QueueType /\ LruType /\ RestType /\ LruOK /\ Numbered /\ Unanswered
  BY TypeParts DEF Closes
<1>1. /\ how[c] = "none" /\ MayAsk
      /\ how' = [how EXCEPT ![c] = kind] /\ wants' = [wants EXCEPT ![c] = <<session, sql>>]
      /\ UNCHANGED <<database, cacheSize, blocked, nested, inFlight, ticks, draining, crashed, client, server>>
      /\ IF Early(sql)
         THEN /\ GetHit(Key(sql), c)
              /\ bound' = (IF kind = "prepare" THEN bound ELSE bound \cup {c})
              /\ settled' = (IF kind = "prepare" THEN settled \cup {c} ELSE settled)
              /\ Adds(IF kind = "prepare" THEN {} ELSE {"execute"}, c)
         ELSE /\ UNCHANGED <<lru, wrapper, open, bound, settled>>
              /\ Adds(IF kind = "execute" THEN {"prepare", "execute"} ELSE {"prepare"}, c)
  BY <1>0, AskDoes
<1>2. session = database /\ UNCHANGED <<session, serverDb, text>>
  BY <1>1 DEF MayAsk, client, server
<1>3. PICK ops \in SUBSET {"prepare", "execute"} : Adds(ops, c)
  <2>1. CASE Early(sql)
    BY <1>1, <2>1
  <2>2. CASE ~Early(sql)
    BY <1>1, <2>2
  <2> QED
    BY <2>1, <2>2
<1>4. PICK t \in Seq(Commands) : sendQueue' = sendQueue \o t /\ \A o, x : Has(t, o, x) <=> o \in ops /\ x = c
  BY <1>3 DEF Adds
<1>5. UseOrder'
  <2>1. \A x : ~Has(t, "use", x)
    BY <1>4
  <2> QED
    BY <1>0, <1>1, <1>2, <1>4, <2>1, UseOrderGrows
<1>6. \A o, x : Has(sendQueue', o, x) <=> Has(sendQueue, o, x) \/ Has(t, o, x)
  BY <1>0, <1>4, Grown DEF QueueType
<1>7. /\ wants'[c] = <<session, sql>> /\ wants'[c][1] = session
      /\ \A d \in Calls : d # c => wants'[d] = wants[d]
  BY <1>0, <1>1 DEF RestType
<1>8. ~Has(inFlight, "prepare", c) /\ wrapper[c] = None
  BY <1>0, <1>1 DEF Unanswered
<1>9. \A d \in Calls : wrapper'[d] # None => text[wrapper'[d]] = wants'[d]
  <2>1. CASE Early(sql)
    <3>1. PICK st \in Calls : /\ wrapper' = [wrapper EXCEPT ![c] = st]
                              /\ \E i \in DOMAIN cache : cache[i] = [key |-> Key(sql), st |-> st]
      <4>1. GetHit(Key(sql), c) /\ Found(Key(sql)) # {} /\ UNCHANGED cacheSize
        BY <1>1, <2>1 DEF Early
      <4>2. PICK key : key = Key(sql)
        OBVIOUS
      <4> QED
        BY <1>0, <1>8, <4>1, <4>2, GetHitKeeps
    <3>2. text[st] = <<database, sql>>
      <4>1. PICK i \in DOMAIN cache : cache[i] = [key |-> Key(sql), st |-> st]
        BY <3>1
      <4>2. cache[i].st = st /\ cache[i].key = Key(sql)
        BY <4>1
      <4> QED
        BY <4>2 DEF RightText, Key
    <3> QED
      BY <1>0, <1>2, <1>7, <3>1, <3>2 DEF RightText, LruType
  <2>2. CASE ~Early(sql)
    BY <1>1, <1>7, <1>8, <2>2 DEF RightText
  <2> QED
    BY <2>1, <2>2
<1>10. \A i \in DOMAIN cache' : text[cache'[i].st] = cache'[i].key
  <2>1. CASE Early(sql)
    <3>1. \A e : (\E j \in DOMAIN cache' : cache'[j] = e) <=> \E i \in DOMAIN cache : cache[i] = e
      <4>1. GetHit(Key(sql), c) /\ Found(Key(sql)) # {} /\ UNCHANGED cacheSize
        BY <1>1, <2>1 DEF Early
      <4>2. PICK key : key = Key(sql)
        OBVIOUS
      <4> QED
        BY <1>0, <1>8, <4>1, <4>2, GetHitKeeps
    <3> QED
      BY <3>1 DEF RightText
  <2>2. CASE ~Early(sql)
    BY <1>1, <2>2 DEF RightText, lru
  <2> QED
    BY <2>1, <2>2
<1>11. \A d \in Calls : Has(sendQueue', "prepare", d) \/ Has(inFlight', "prepare", d) => wants'[d][1] = database'
  BY <1>1, <1>2, <1>4, <1>6, <1>7 DEF RightText
<1>12. \A d \in Calls : Has(inFlight', "prepare", d) => text'[d] = wants'[d]
  BY <1>1, <1>2, <1>7, <1>8 DEF RightText
<1>13. RightText'
  BY <1>2, <1>9, <1>10, <1>11, <1>12 DEF RightText
<1> QED
  BY <1>5, <1>13

\* USE, when no other one is under way.
LEMMA UseTexts ==
  ASSUME Closes, UseOrder, RightText, "use" \notin Careless, NEW db \in Databases, Use(db)
  PROVE  UseOrder' /\ RightText'
<1>0. QueueType
  BY DEF Closes, TypeInv
<1>1. /\ session = database /\ session' = db /\ db # session /\ sendQueue' = Append(sendQueue, Command("use", db))
      /\ UNCHANGED <<database, cache, inFlight, serverDb, text, wants, wrapper>>
  BY DEF Use, Change, lru, calls, server
<1>2. PICK m \in Commands : m = Command("use", db) /\ m.op = "use" /\ m.about = db
  BY UseCommand
<1>3. \A o, x : Has(sendQueue', o, x) <=> Has(sendQueue, o, x) \/ (o = "use" /\ x = db)
  <2>1. \A o, x : Has(Append(sendQueue, m), o, x) <=> Has(sendQueue, o, x) \/ (o = m.op /\ x = m.about)
    BY <1>0, HasAppend DEF QueueType
  <2> QED
    BY <1>1, <1>2, <2>1
<1>4. \A x : ~Has(sendQueue, "use", x) /\ ~Has(inFlight, "use", x)
  BY <1>1 DEF UseOrder
<1>5. UseLast(sendQueue')
  <2>1. UseLast(Append(sendQueue, m))
    BY <1>0, <1>4, UseLastAppend DEF QueueType, UseOrder
  <2> QED
    BY <1>1, <1>2, <2>1
<1>6. UseOrder'
  BY <1>1, <1>3, <1>4, <1>5 DEF UseOrder
<1>7. RightText'
  BY <1>1, <1>3, RightTextKept
<1> QED
  BY <1>6, <1>7

\* A step that adds commands other than USE and PREPARE, and is about no text.
LEMMA OtherTexts ==
  ASSUME QueueType, UseOrder, RightText, UNCHANGED <<session, database, serverDb, inFlight, wants, text, wrapper, cache>>,
         \/ UNCHANGED sendQueue
         \/ \E m \in Commands : m.op \notin {"use", "prepare"} /\ sendQueue' = Append(sendQueue, m)
         \/ Closing
  PROVE  UseOrder' /\ RightText'
<1>1. CASE UNCHANGED sendQueue
  BY <1>1, UseOrderKept, RightTextKept
<1>2. ASSUME NEW m \in Commands, m.op \notin {"use", "prepare"}, sendQueue' = Append(sendQueue, m)
      PROVE  UseOrder' /\ RightText'
  <2>1. UseOrder'
    BY <1>2, UseOrderAdds
  <2>2. \A o, x : Has(Append(sendQueue, m), o, x) <=> Has(sendQueue, o, x) \/ (o = m.op /\ x = m.about)
    BY HasAppend DEF QueueType
  <2>3. \A x : Has(sendQueue', "prepare", x) <=> Has(sendQueue, "prepare", x)
    BY <1>2, <2>2
  <2> QED
    BY <2>1, <2>3, RightTextKept
<1>3. CASE Closing
  <2>1. UseOrder'
    BY <1>3, UseOrderCloses
  <2>2. \A o, x : Has(sendQueue', o, x) <=> Has(sendQueue, o, x) \/ (o = "close" /\ x \in closed' \ closed)
    BY <1>3, ClosingAdds DEF QueueType
  <2> QED
    BY <2>1, <2>2, RightTextKept
<1> QED
  BY <1>1, <1>2, <1>3

\* Steps that concern neither a USE nor a PREPARE.
LEMMA ExecuteResetStreamTexts ==
  ASSUME Closes, UseOrder, RightText, (\E c \in Calls : ExecutePrepared(c)) \/ Reset \/ StreamStarts \/ StreamEnds
  PROVE  UseOrder' /\ RightText'
<1>0. QueueType
  BY DEF Closes, TypeInv
<1>1. UNCHANGED <<session, database, serverDb, inFlight, wants, text, wrapper, cache>>
  BY DEF ExecutePrepared, Reset, StreamStarts, StreamEnds, Change, lru, calls, client, server
<1>2. CASE \E c \in Calls : ExecutePrepared(c)
  <2>1. PICK c \in Calls : sendQueue' = Append(sendQueue, Command("execute", c))
    BY <1>2 DEF ExecutePrepared
  <2>2. PICK m : m = Command("execute", c)
    OBVIOUS
  <2>3. m \in Commands /\ m.op = "execute"
    BY <2>2, CallCommand
  <2> QED
    BY <1>0, <1>1, <2>1, <2>2, <2>3, OtherTexts
<1>3. CASE Reset
  BY <1>0, <1>1, <1>3, ResetCommand, OtherTexts DEF Reset
<1>4. CASE StreamStarts \/ StreamEnds
  BY <1>0, <1>1, <1>4, OtherTexts DEF StreamStarts, StreamEnds
<1> QED
  BY <1>2, <1>3, <1>4

\* Callbacks and close() change no text; a reset empties the cache.
LEMMA CallbackTexts ==
  ASSUME Closes, UseOrder, RightText,
         \/ \E c \in Calls : ClosePrepared(c) \/ Prepared(c) \/ \E cb \in {"executed", "refused"} : Answered(c, cb)
         \/ ResetDone
  PROVE  UseOrder' /\ RightText'
<1>0. QueueType /\ LruOK
  BY DEF Closes, TypeInv
<1>1. UNCHANGED <<session, database, serverDb, inFlight, wants, text, wrapper, cacheSize>>
  BY DEF ClosePrepared, Prepared, Answered, ResetDone, Callback, client, server
<1>2. CASE ResetDone
  <2>1. Closing /\ cache' = <<>>
    BY <1>0, <1>1, <1>2, ClearKeeps DEF ResetDone, QueueType
  <2>2. UseOrder'
    BY <1>0, <1>1, <2>1, UseOrderCloses
  <2>3. \A o, x : Has(sendQueue', o, x) <=> Has(sendQueue, o, x) \/ (o = "close" /\ x \in closed' \ closed)
    BY <1>0, <2>1, ClosingAdds DEF QueueType
  <2>4. RightText'
    BY <1>1, <2>1, <2>3 DEF RightText
  <2> QED
    BY <2>2, <2>4
<1>3. ASSUME NEW c \in Calls, CloseWrapper(c) PROVE UseOrder' /\ RightText'
  <2>1. Closing /\ UNCHANGED cache
    BY <1>0, <1>1, <1>3, CloseWrapperKeeps DEF QueueType
  <2> QED
    BY <1>0, <1>1, <2>1, OtherTexts
<1>4. ASSUME NEW c \in Calls, UNCHANGED lru, UNCHANGED sendQueue \/ sendQueue' = Append(sendQueue, Command("execute", c))
      PROVE  UseOrder' /\ RightText'
  <2>1. PICK m : m = Command("execute", c)
    OBVIOUS
  <2>2. m \in Commands /\ m.op = "execute"
    BY <2>1, CallCommand
  <2>3. UNCHANGED cache
    BY <1>4 DEF lru
  <2> QED
    BY <1>0, <1>1, <1>4, <2>1, <2>2, <2>3, OtherTexts
<1>5. ASSUME NEW c \in Calls, ClosePrepared(c) PROVE UseOrder' /\ RightText'
  BY <1>3, <1>5 DEF ClosePrepared
<1>6. ASSUME NEW c \in Calls, Prepared(c) PROVE UseOrder' /\ RightText'
  BY <1>3, <1>4, <1>6 DEF Prepared
<1>7. ASSUME NEW c \in Calls, NEW cb \in {"executed", "refused"}, Answered(c, cb) PROVE UseOrder' /\ RightText'
  BY <1>3, <1>4, <1>7 DEF Answered
<1> QED
  BY <1>2, <1>5, <1>6, <1>7

\* A command other than USE is sent.
LEMMA UseOrderSent ==
  ASSUME QueueType, UseOrder, NEW m \in Commands, m.op # "use", sendQueue # <<>>, m = Head(sendQueue), sendQueue' = Tail(sendQueue),
         UNCHANGED <<session, database, serverDb>>,
         inFlight' = inFlight \/ \E a \in Answers : a.op = m.op /\ a.about = m.about /\ inFlight' = Append(inFlight, a)
  PROVE  UseOrder'
<1>1. \A o, x : Has(sendQueue, o, x) <=> (o = m.op /\ x = m.about) \/ Has(sendQueue', o, x)
  BY HasTail DEF QueueType
<1>2. UseLast(sendQueue')
  <2>1. UseLast(Tail(sendQueue))
    BY UseLastTail DEF QueueType, UseOrder
  <2> QED
    BY <2>1
<1>3. UseLast(inFlight') /\ \A x : Has(inFlight', "use", x) <=> Has(inFlight, "use", x)
  <2>1. CASE inFlight' = inFlight
    BY <2>1 DEF UseOrder
  <2>2. ASSUME NEW a \in Answers, a.op = m.op, a.about = m.about, inFlight' = Append(inFlight, a)
        PROVE  UseLast(inFlight') /\ \A x : Has(inFlight', "use", x) <=> Has(inFlight, "use", x)
    <3>1. \A o, x : Has(Append(inFlight, a), o, x) <=> Has(inFlight, o, x) \/ (o = a.op /\ x = a.about)
      BY HasAppend DEF QueueType
    <3>2. a.op = "prepare" => \A x : ~Has(inFlight, "use", x)
      BY <1>1, <2>2 DEF UseOrder
    <3>3. UseLast(Append(inFlight, a))
      <4>1. UseLast(inFlight) /\ inFlight \in Seq(Answers)
        BY DEF QueueType, UseOrder
      <4>2. a.op \in {"use", "prepare"} => \A x : ~Has(inFlight, "use", x)
        BY <2>2, <3>2
      <4> QED
        BY <4>1, <4>2, UseLastAppend
    <3> QED
      BY <2>2, <3>1, <3>3
  <2> QED
    BY <2>1, <2>2
<1>4. \A x : Has(sendQueue', "use", x) <=> Has(sendQueue, "use", x)
  BY <1>1
<1>5. \A x : Has(sendQueue', "prepare", x) => Has(sendQueue, "prepare", x)
  BY <1>1
<1>6. \A x : Has(inFlight', "use", x) => x = session' /\ \A y : ~Has(sendQueue', "use", y) /\ ~Has(sendQueue', "prepare", y)
  BY <1>3, <1>4, <1>5 DEF UseOrder
<1> QED
  BY <1>2, <1>3, <1>4, <1>6 DEF UseOrder

\* What a statement is prepared from is what the call asks for.
LEMMA SendTexts == ASSUME Closes, UseOrder, RightText, SendNext PROVE UseOrder' /\ RightText'
<1>0. TypeInv /\ QueueType /\ LruType /\ RestType /\ LruOK /\ Unanswered
  BY TypeParts DEF Closes
<1>1. PICK m \in Commands :
        /\ sendQueue # <<>> /\ ~blocked /\ m = Head(sendQueue) /\ sendQueue' = Tail(sendQueue)
        /\ \A o, x : Has(sendQueue, o, x) <=> (o = m.op /\ x = m.about) \/ Has(sendQueue', o, x)
        /\ \A o : Once(sendQueue, o) => Once(sendQueue', o) /\ (m.op = o => ~Has(sendQueue', o, m.about))
        /\ UNCHANGED <<database, cacheSize, blocked, draining, how, wants, bound, settled, crashed, client>>
        /\ \/ m.op = "prepare" /\ m.about \in Calls /\ SendPrepare(m.about)
           \/ m.op = "execute" /\ m.about \in Calls /\ SendExecute(m.about)
           \/ m.op = "close" /\ m.about \in Calls /\ SendClose(m.about)
           \/ m.op = "use" /\ m.about \in Databases /\ SendOther(m)
           \/ m.op = "reset" /\ m.about = None /\ SendOther(m)
  BY <1>0, SendNextDoes
<1>2. session' = session
  BY <1>1 DEF client
<1>3. \A x : Has(sendQueue', "prepare", x) => Has(sendQueue, "prepare", x)
  BY <1>1
<1>4. CASE m.op \in {"execute", "close", "reset"}
  <2>1. UNCHANGED <<serverDb, text, wrapper, cache>>
    BY <1>1, <1>4 DEF SendExecute, SendClose, SendOther, lru
  <2>2. inFlight' = inFlight \/ \E a \in Answers : a.op = m.op /\ a.about = m.about /\ inFlight' = Append(inFlight, a)
    <3>1. UNCHANGED inFlight \/ \E ok \in BOOLEAN : Answer(m, ok)
      <4>1. CASE m.op = "execute"
        BY <1>1, <4>1 DEF SendExecute
      <4>2. CASE m.op = "close"
        BY <1>1, <4>2 DEF SendClose
      <4>3. CASE m.op = "reset"
        BY <1>1, <4>3 DEF SendOther
      <4> QED
        BY <1>4, <4>1, <4>2, <4>3
    <3>2. ASSUME NEW ok \in BOOLEAN, Answer(m, ok), m.op # "close"
          PROVE  \E a \in Answers : a.op = m.op /\ a.about = m.about /\ inFlight' = Append(inFlight, a)
      BY <1>0, <3>2, AnswerDoes
    <3>3. m.op = "close" => UNCHANGED inFlight
      BY <1>1 DEF SendClose
    <3> QED
      BY <3>1, <3>2, <3>3
  <2>3. UseOrder'
    BY <1>0, <1>1, <1>2, <1>4, <2>1, <2>2, UseOrderSent
  <2>4. \A x : Has(inFlight', "prepare", x) => Has(inFlight, "prepare", x)
    <3>1. ASSUME NEW a \in Answers, a.op = m.op, inFlight' = Append(inFlight, a)
          PROVE  \A x : Has(inFlight', "prepare", x) => Has(inFlight, "prepare", x)
      <4>1. \A o, x : Has(Append(inFlight, a), o, x) <=> Has(inFlight, o, x) \/ (o = a.op /\ x = a.about)
        BY <1>0, HasAppend DEF QueueType
      <4> QED
        BY <1>4, <3>1, <4>1
    <3> QED
      BY <2>2, <3>1
  <2>5. RightText'
    BY <1>1, <1>3, <2>1, <2>4, RightTextKept
  <2> QED
    BY <2>3, <2>5
<1>5. CASE m.op = "use"
  <2>1. PICK ok \in BOOLEAN : ok = TRUE
    OBVIOUS
  <2>2. Answer(m, ok) /\ serverDb' = m.about /\ UNCHANGED <<text, wrapper, cache>>
    BY <1>1, <1>5, <2>1 DEF SendOther, lru
  <2>3. PICK a \in Answers :
          /\ a.op = m.op /\ a.about = m.about /\ inFlight' = Append(inFlight, a)
          /\ \A o, x : Has(inFlight', o, x) <=> Has(inFlight, o, x) \/ (o = m.op /\ x = m.about)
    BY <1>0, <1>5, <2>2, AnswerDoes
  <2>4. Has(sendQueue, "use", m.about) /\ m.about = session /\ \A x : ~Has(inFlight, "use", x)
    BY <1>1, <1>5 DEF UseOrder
  <2>5. UseLast(inFlight')
    <3>1. UseLast(Append(inFlight, a))
      BY <1>0, <2>4, UseLastAppend DEF QueueType, UseOrder
    <3> QED
      BY <2>3, <3>1
  <2>6. UseLast(sendQueue') /\ \A x : ~Has(sendQueue', "use", x) /\ ~Has(sendQueue', "prepare", x)
    <3>1. /\ UseLast(Tail(sendQueue))
          /\ Head(sendQueue).op = "use" => \A x : ~Has(Tail(sendQueue), "use", x) /\ ~Has(Tail(sendQueue), "prepare", x)
      BY <1>0, <1>1, UseLastTail DEF QueueType, UseOrder
    <3> QED
      BY <1>1, <1>5, <3>1
  <2>7. UseOrder'
    <3>1. \A x : Has(inFlight', "use", x) <=> x = session
      BY <1>5, <2>3, <2>4
    <3>2. session # database
      BY <2>4 DEF UseOrder
    <3> QED
      BY <1>1, <1>2, <2>2, <2>4, <2>5, <2>6, <3>1, <3>2 DEF UseOrder
  <2>8. \A x : Has(inFlight', "prepare", x) <=> Has(inFlight, "prepare", x)
    BY <1>5, <2>3
  <2>9. RightText'
    BY <1>1, <1>3, <2>2, <2>8, RightTextKept
  <2> QED
    BY <2>7, <2>9
<1>6. CASE m.op = "prepare"
  <2>1. PICK c \in Calls : c = m.about
    BY <1>1, <1>6
  <2>2. /\ Has(sendQueue, "prepare", c) /\ ~Has(inFlight, "prepare", c) /\ wrapper[c] = None /\ how[c] # "none"
        /\ ~Has(sendQueue', "prepare", c)
    BY <1>0, <1>1, <1>6, <2>1 DEF Unanswered
  <2>3. /\ \A x : ~Has(inFlight, "use", x)
        /\ serverDb = database /\ wants[c][1] = database
    BY <2>2 DEF UseOrder, RightText
  <2>4. wants[c] \in Texts /\ Key(wants[c][2]) = wants[c]
    <3>1. wants[c] \in Texts
      BY <1>0, <2>2 DEF RestType
    <3>2. wants[c] = <<wants[c][1], wants[c][2]>>
      BY <3>1, TextsOf
    <3> QED
      BY <2>3, <3>1, <3>2 DEF Key
  <2>5. SendPrepare(c)
    BY <1>1, <1>6, <2>1
  <2>6. CASE Found(Key(wants[c][2])) # {}
    <3>1. PICK key : key = Key(wants[c][2])
      OBVIOUS
    <3>2. GetHit(key, c) /\ Found(key) # {} /\ UNCHANGED <<inFlight, server>> /\ UNCHANGED cacheSize
      BY <1>1, <2>5, <2>6, <3>1 DEF SendPrepare
    <3>3. /\ \E st \in Calls : wrapper' = [wrapper EXCEPT ![c] = st] /\ \E i \in DOMAIN cache : cache[i] = [key |-> key, st |-> st]
          /\ \A e : (\E j \in DOMAIN cache' : cache'[j] = e) <=> \E i \in DOMAIN cache : cache[i] = e
      BY <1>0, <2>2, <3>2, GetHitKeeps
    <3>4. PICK st \in Calls : wrapper' = [wrapper EXCEPT ![c] = st] /\ text[st] = key
      <4>1. PICK st \in Calls, i \in DOMAIN cache : wrapper' = [wrapper EXCEPT ![c] = st] /\ cache[i] = [key |-> key, st |-> st]
        BY <3>3
      <4>2. cache[i].st = st /\ cache[i].key = key
        BY <4>1
      <4> QED
        BY <4>1, <4>2 DEF RightText
    <3>5. UNCHANGED <<serverDb, text>>
      BY <3>2 DEF server
    <3>6. UseOrder'
      BY <1>0, <1>1, <1>2, <1>6, <3>2, <3>5, UseOrderSent
    <3>7. \A d \in Calls : wrapper'[d] # None => text[wrapper'[d]] = wants[d]
      BY <1>0, <2>4, <3>1, <3>4 DEF RightText, LruType
    <3>8. \A i \in DOMAIN cache' : text[cache'[i].st] = cache'[i].key
      BY <3>3 DEF RightText
    <3>9. RightText'
      BY <1>1, <1>3, <3>2, <3>5, <3>7, <3>8 DEF RightText
    <3> QED
      BY <3>6, <3>9
  <2>7. CASE Found(Key(wants[c][2])) = {}
    <3>1. PICK ok \in BOOLEAN : Answer(m, ok)
      BY <1>1, <2>5, <2>7 DEF SendPrepare
    <3>2. text' = [text EXCEPT ![c] = <<serverDb, wants[c][2]>>] /\ UNCHANGED <<cache, wrapper, serverDb>>
      BY <2>5, <2>7 DEF SendPrepare, lru
    <3>3. PICK a \in Answers :
            /\ a.op = m.op /\ a.about = m.about /\ inFlight' = Append(inFlight, a)
            /\ \A o, x : Has(inFlight', o, x) <=> Has(inFlight, o, x) \/ (o = m.op /\ x = m.about)
      BY <1>0, <1>6, <3>1, AnswerDoes
    <3>4. UseOrder'
      BY <1>0, <1>1, <1>2, <1>6, <3>2, <3>3, UseOrderSent
    <3>5. /\ text'[c] = wants[c] /\ \A d \in Calls : d # c => text'[d] = text[d]
      BY <1>0, <2>3, <2>4, <3>2 DEF RestType, Key
    <3>6. \A x : Has(inFlight', "prepare", x) <=> Has(inFlight, "prepare", x) \/ x = c
      BY <1>6, <2>1, <3>3
    <3>7. \A d \in Calls : wrapper[d] # None => wrapper[d] \in Calls /\ wrapper[d] # c
      BY <1>0, <2>2 DEF LruOK, LruType, Own
    <3>8. \A i \in DOMAIN cache : cache[i].st \in Calls /\ cache[i].st # c
      <4>1. \A i \in DOMAIN cache : cache[i] \in Entries
        BY <1>0 DEF LruType
      <4>2. \A i \in DOMAIN cache : cache[i].st \in Calls
        BY <4>1 DEF Entries
      <4>3. \A i \in DOMAIN cache : wrapper[cache[i].st] # None
        BY <1>0, <4>2, NoneIsNoCall DEF LruOK, Own
      <4> QED
        BY <2>2, <4>2, <4>3
    <3>9. /\ \A d \in Calls : Has(sendQueue', "prepare", d) \/ Has(inFlight', "prepare", d) => wants[d][1] = database
          /\ \A d \in Calls : Has(inFlight', "prepare", d) => text'[d] = wants[d]
      BY <1>3, <2>3, <3>5, <3>6 DEF RightText
    <3>10. \A d \in Calls : wrapper[d] # None => text'[wrapper[d]] = wants[d]
      BY <3>5, <3>7 DEF RightText
    <3>11. \A i \in DOMAIN cache : text'[cache[i].st] = cache[i].key
      BY <3>5, <3>8 DEF RightText
    <3>12. RightText'
      BY <1>1, <3>2, <3>9, <3>10, <3>11 DEF RightText
    <3> QED
      BY <3>4, <3>12
  <2> QED
    BY <2>6, <2>7
<1> QED
  BY <1>1, <1>4, <1>5, <1>6

\* An answer other than that of a USE is read, and statements may be closed.
LEMMA UseOrderRead ==
  ASSUME QueueType, UseOrder, Closing, inFlight # <<>>, Head(inFlight).op # "use", inFlight' = Tail(inFlight),
         UNCHANGED <<session, database, serverDb>>
  PROVE  UseOrder'
<1>1. \A o, x : Has(inFlight, o, x) <=> (o = Head(inFlight).op /\ x = Head(inFlight).about) \/ Has(Tail(inFlight), o, x)
  BY HasTail DEF QueueType
<1>2. \A x : Has(inFlight', "use", x) <=> Has(inFlight, "use", x)
  BY <1>1
<1>3. UseLast(inFlight')
  <2>1. UseLast(Tail(inFlight))
    BY UseLastTail DEF QueueType, UseOrder
  <2> QED
    BY <2>1
<1>4. PICK t \in Seq(Commands) : sendQueue' = sendQueue \o t /\ \A op, c : Has(t, op, c) <=> op = "close" /\ c \in closed' \ closed
  BY DEF Closing
<1>5. UseLast(sendQueue')
  <2>1. \A x : ~Has(t, "use", x) /\ ~Has(t, "prepare", x)
    BY <1>4
  <2>2. UseLast(sendQueue \o t)
    BY <2>1, UseLastConcat DEF QueueType, UseOrder
  <2> QED
    BY <1>4, <2>2
<1>6. \A o, x : Has(sendQueue', o, x) <=> Has(sendQueue, o, x) \/ (o = "close" /\ x \in closed' \ closed)
  BY ClosingAdds DEF QueueType
<1>7. \A x : (Has(sendQueue', "use", x) <=> Has(sendQueue, "use", x)) /\ (Has(sendQueue', "prepare", x) <=> Has(sendQueue, "prepare", x))
  BY <1>6
<1>8. \A x : Has(inFlight', "use", x) => x = session' /\ \A y : ~Has(sendQueue', "use", y) /\ ~Has(sendQueue', "prepare", y)
  BY <1>2, <1>7 DEF UseOrder
<1> QED
  BY <1>2, <1>3, <1>5, <1>7, <1>8 DEF UseOrder

\* The statement a PREPARE made is put into the LRU under the text it was made from.
LEMMA ReadPreparedTexts == ASSUME Closes, UseOrder, RightText, ReadPrepared PROVE UseOrder' /\ RightText'
<1>0. TypeInv /\ QueueType /\ LruType /\ RestType /\ LruOK /\ Unanswered
  BY TypeParts DEF Closes
<1>1. PICK a \in Answers, c \in Calls :
        /\ a = Head(inFlight) /\ a.op = "prepare" /\ a.about = c /\ 1 \in DOMAIN inFlight
        /\ inFlight' = Tail(inFlight)
        /\ \A o, x : Has(inFlight, o, x) <=> (o = "prepare" /\ x = c) \/ Has(inFlight', o, x)
        /\ how[c] # "none" /\ wrapper[c] = None /\ Key(wants[c][2]) \in Texts
        /\ CacheSet(Key(wants[c][2]), c)
        /\ use' = [use EXCEPT ![c] = 1] /\ wrapper' = [wrapper EXCEPT ![c] = c] /\ open' = open \cup {c}
        /\ UNCHANGED <<database, cacheSize, blocked, nested, draining, how, wants, settled, crashed, client, server>>
  BY <1>0, ReadPreparedDoes
<1>2. PICK key \in Texts : key = Key(wants[c][2])
  BY <1>1
<1>3. UNCHANGED <<session, serverDb, text>> /\ inFlight # <<>>
  BY <1>1 DEF client, server
<1>4. /\ Closing
      /\ \A e : (\E j \in DOMAIN cache' : cache'[j] = e) => e = [key |-> key, st |-> c] \/ \E i \in DOMAIN cache : cache[i] = e
  BY <1>0, <1>1, <1>2, CacheSetKeeps DEF QueueType
<1>5. UseOrder'
  BY <1>0, <1>1, <1>3, <1>4, UseOrderRead
<1>6. \A o, x : Has(sendQueue', o, x) <=> Has(sendQueue, o, x) \/ (o = "close" /\ x \in closed' \ closed)
  BY <1>0, <1>4, ClosingAdds DEF QueueType
<1>7. text[c] = wants[c] /\ key = wants[c]
  <2>1. Has(inFlight, "prepare", c)
    BY <1>1
  <2>2. text[c] = wants[c] /\ wants[c][1] = database
    BY <2>1 DEF RightText
  <2>3. wants[c] \in Texts
    BY <1>0, <1>1 DEF RestType
  <2>4. wants[c] = <<wants[c][1], wants[c][2]>>
    BY <2>3, TextsOf
  <2> QED
    BY <1>2, <2>2, <2>4 DEF Key
<1>8. \A d \in Calls : wrapper'[d] # None => text[wrapper'[d]] = wants[d]
  BY <1>0, <1>1, <1>7 DEF LruType, RightText
<1>9. \A i \in DOMAIN cache' : text[cache'[i].st] = cache'[i].key
  <2> SUFFICES ASSUME NEW i \in DOMAIN cache' PROVE text[cache'[i].st] = cache'[i].key
    OBVIOUS
  <2>1. CASE cache'[i] = [key |-> key, st |-> c]
    <3>1. cache'[i].key = key /\ cache'[i].st = c
      BY <2>1
    <3> QED
      BY <1>7, <3>1
  <2>2. CASE \E j \in DOMAIN cache : cache[j] = cache'[i]
    BY <2>2 DEF RightText
  <2> QED
    BY <1>4, <2>1, <2>2
<1>10. /\ \A d \in Calls : Has(sendQueue', "prepare", d) \/ Has(inFlight', "prepare", d) => wants[d][1] = database
       /\ \A d \in Calls : Has(inFlight', "prepare", d) => text[d] = wants[d]
  BY <1>1, <1>6 DEF RightText
<1>11. RightText'
  BY <1>1, <1>3, <1>8, <1>9, <1>10 DEF RightText
<1> QED
  BY <1>5, <1>11

\* The answer of a USE changes the database only when no PREPARE is under way.
LEMMA ReadOtherTexts == ASSUME Closes, UseOrder, RightText, ReadOther PROVE UseOrder' /\ RightText'
<1>0. QueueType
  BY DEF Closes, TypeInv
<1>1. PICK a \in Answers :
        /\ a = Head(inFlight) /\ inFlight # <<>> /\ inFlight' = Tail(inFlight)
        /\ \A o, x : Has(inFlight, o, x) <=> (o = a.op /\ x = a.about) \/ Has(inFlight', o, x)
        /\ database' = (IF a.op = "use" THEN a.about ELSE database)
        /\ UNCHANGED <<cacheSize, lru, sendQueue, blocked, nested, draining, calls, client, server>>
  BY <1>0, ReadOtherDoes
<1>2. UNCHANGED <<session, serverDb, text, cache, closed, wants, wrapper, sendQueue>>
  BY <1>1 DEF client, server, lru, calls
<1>3. CASE a.op # "use"
  <2>1. Closing
    BY <1>0, <1>2, CloseNothing DEF QueueType
  <2>2. UseOrder'
    BY <1>0, <1>1, <1>2, <1>3, <2>1, UseOrderRead
  <2> QED
    BY <1>1, <1>2, <1>3, <2>2, RightTextKept
<1>4. CASE a.op = "use"
  <2>1. Has(inFlight, "use", a.about)
    BY <1>1, <1>4
  <2>2. a.about = session /\ \A y : ~Has(sendQueue, "use", y) /\ ~Has(sendQueue, "prepare", y)
    BY <2>1 DEF UseOrder
  <2>3. UseLast(inFlight') /\ \A x : ~Has(inFlight', "use", x) /\ ~Has(inFlight', "prepare", x)
    <3>1. /\ UseLast(Tail(inFlight))
          /\ Head(inFlight).op = "use" => \A x : ~Has(Tail(inFlight), "use", x) /\ ~Has(Tail(inFlight), "prepare", x)
      BY <1>0, <1>1, UseLastTail DEF QueueType, UseOrder
    <3> QED
      BY <1>1, <1>4, <3>1
  <2>4. serverDb = session /\ database' = session
    BY <1>1, <1>4, <2>1, <2>2 DEF UseOrder
  <2>5. UseOrder'
    BY <1>2, <2>2, <2>3, <2>4 DEF UseOrder
  <2>6. RightText'
    BY <1>2, <2>2, <2>3 DEF RightText
  <2> QED
    BY <2>5, <2>6
<1> QED
  BY <1>3, <1>4

\* Each step of a client that waits for the answer of a USE keeps the order and the texts.
LEMMA NextTexts ==
  ASSUME Closes, UseOrder, RightText, "use" \notin Careless, [Next]_vars
  PROVE  UseOrder' /\ RightText'
<1>1. \/ \E c \in Calls, sql \in Sqls, kind \in {"prepare", "execute", "late"} : Asks(c, sql, kind)
      \/ \E c \in Calls : ExecutePrepared(c)
      \/ \E c \in Calls : ClosePrepared(c)
      \/ \E c \in Calls : Prepared(c)
      \/ \E c \in Calls, cb \in {"executed", "refused"} : Answered(c, cb)
      \/ \E db \in Databases : Use(db)
      \/ Reset \/ StreamStarts \/ StreamEnds
      \/ SendNext \/ ReadPrepared \/ ReadOther \/ ResetDone \/ UNCHANGED vars
  BY NextCases
<1>2. CASE \E c \in Calls, sql \in Sqls, kind \in {"prepare", "execute", "late"} : Asks(c, sql, kind)
  BY <1>2, AskTexts
<1>3. CASE (\E c \in Calls : ExecutePrepared(c)) \/ Reset \/ StreamStarts \/ StreamEnds
  BY <1>3, ExecuteResetStreamTexts
<1>4. CASE \/ \E c \in Calls : ClosePrepared(c) \/ Prepared(c) \/ \E cb \in {"executed", "refused"} : Answered(c, cb)
           \/ ResetDone
  BY <1>4, CallbackTexts
<1>5. CASE \E db \in Databases : Use(db)
  BY <1>5, UseTexts
<1>6. CASE UNCHANGED vars
  <2>1. QueueType
    BY DEF Closes, TypeInv
  <2>2. UNCHANGED <<session, database, serverDb, inFlight, wants, text, wrapper, cache, sendQueue>>
    BY <1>6 DEF vars, lru, queues, calls, client, server
  <2> QED
    BY <2>1, <2>2, OtherTexts
<1> QED
  BY <1>1, <1>2, <1>3, <1>4, <1>5, <1>6, SendTexts, ReadPreparedTexts, ReadOtherTexts

\* At the start there is no statement.
LEMMA InitTexts == Init => UseOrder /\ RightText
<1> SUFFICES ASSUME Init PROVE UseOrder /\ RightText
  OBVIOUS
<1>1. \A o, x : ~Has(sendQueue, o, x) /\ ~Has(inFlight, o, x)
  BY HasEmpty DEF Init
<1>2. UseLast(inFlight) /\ UseLast(sendQueue)
  BY <1>1, UseLastNone
<1> QED
  BY <1>1, <1>2 DEF Init, UseOrder, RightText

\* The order and the texts always hold.
LEMMA AlwaysTexts == ASSUME "use" \notin Careless PROVE Spec => [](Closes /\ UseOrder /\ RightText)
<1>1. Init => Closes /\ UseOrder /\ RightText
  BY InitCloses, InitTexts
<1>2. Closes /\ UseOrder /\ RightText /\ [Next]_vars => (Closes /\ UseOrder /\ RightText)'
  BY NextCloses, NextTexts
<1> QED
  BY <1>1, <1>2, PTL DEF Spec

\* Every call that has a statement has one of the text it asked for, whether its own PREPARE made it
\* or the LRU had it.
StatementsOfTheirText ==
  /\ \A c \in Calls : wrapper[c] # None => text[wrapper[c]] = wants[c]
  /\ \A i \in DOMAIN cache : text[cache[i].st] = cache[i].key

\* A client that waits for the answer of a USE before it prepares or executes is never given the
\* statement of another text or database, however many PREPAREs are under way when the database
\* changes, and even if its connection is reset meanwhile.
THEOREM StatementsHaveTheirText == ASSUME "use" \notin Careless PROVE Spec => []StatementsOfTheirText
<1>1. RightText => StatementsOfTheirText
  BY DEF RightText, StatementsOfTheirText
<1> QED
  BY <1>1, AlwaysTexts, PTL

-----------------------------------------------------------------------------
(***************************************************************************)
(* What holds if the client waits for everything: a reset() finds no call  *)
(* under way, and no EXECUTE its statement gone.                           *)
(***************************************************************************)
\* One reset() at a time.
Resets ==
  /\ Once(sendQueue, "reset") /\ Once(inFlight, "reset") /\ OnceComes("reset")
  /\ Has(sendQueue, "reset", None) => ~Has(inFlight, "reset", None) /\ ~Comes("reset", None)
  /\ Has(inFlight, "reset", None) => ~Comes("reset", None)
  /\ Has(sendQueue, "reset", None) \/ Has(inFlight, "reset", None) \/ Comes("reset", None) => resetting

\* No call is under way while the connection is reset.
Quiet == resetting =>
  \A c \in Calls :
    /\ how[c] # "none" => c \in settled
    /\ ~Has(sendQueue, "prepare", c) /\ ~Has(inFlight, "prepare", c) /\ ~Comes("prepared", c)

\* The server has every statement that is in use or may be found.
Alive ==
  /\ ~resetting => \A i \in DOMAIN cache : cache[i].st \in onServer
  /\ \A i \in DOMAIN inFlight : inFlight[i].op = "prepare" /\ inFlight[i].ok => inFlight[i].about \in onServer
  /\ \A c \in open : how[c] # "prepare" => wrapper[c] \in onServer

Sound == Resets /\ Quiet /\ Alive /\ misrun = {}

\* A step that sends, reads and resets nothing, and makes no call.
LEMMA SoundKept ==
  ASSUME Sound, UNCHANGED <<resetting, onServer, misrun, how, wrapper, cache, inFlight>>,
         settled \subseteq settled', open' \subseteq open,
         \A x : Has(sendQueue', "reset", x) <=> Has(sendQueue, "reset", x), Once(sendQueue', "reset"),
         \A x : Has(sendQueue', "prepare", x) => Has(sendQueue, "prepare", x),
         \A x : Comes("reset", x)' <=> Comes("reset", x), OnceComes("reset")',
         \A x : Comes("prepared", x)' => Comes("prepared", x)
  PROVE  Sound'
<1>1. Resets'
  BY DEF Sound, Resets
<1>2. Quiet'
  BY DEF Sound, Quiet
<1>3. Alive'
  BY DEF Sound, Alive
<1> QED
  BY <1>1, <1>2, <1>3 DEF Sound

\* Steps that send, read and settle nothing.
LEMMA SmallStepsSound ==
  ASSUME Closes, Sound,
         \/ (\E c \in Calls : ExecutePrepared(c)) \/ (\E db \in Databases : Use(db)) \/ StreamStarts \/ StreamEnds
         \/ UNCHANGED vars
  PROVE  Sound'
<1>0. QueueType
  BY DEF Closes, TypeInv
<1>1. UNCHANGED <<resetting, onServer, misrun, how, wrapper, cache, inFlight, settled, open, ticks, nested>>
  BY DEF ExecutePrepared, Use, StreamStarts, StreamEnds, Change, lru, calls, client, server, vars, queues
<1>2. (\A o, x : Comes(o, x)' <=> Comes(o, x)) /\ \A o : OnceComes(o)' <=> OnceComes(o)
  BY <1>1, ComesSame
<1>3. OnceComes("reset")' /\ Once(sendQueue, "reset")
  BY <1>2 DEF Sound, Resets
<1>4. CASE UNCHANGED sendQueue
  BY <1>1, <1>2, <1>3, <1>4, SoundKept
<1>5. ASSUME NEW m \in Commands, m.op \in {"execute", "use"}, sendQueue' = Append(sendQueue, m) PROVE Sound'
  <2>1. \A o, x : Has(Append(sendQueue, m), o, x) <=> Has(sendQueue, o, x) \/ (o = m.op /\ x = m.about)
    BY <1>0, HasAppend DEF QueueType
  <2>2. Once(Append(sendQueue, m), "reset")
    BY <1>0, <1>3, <1>5, OnceAppend DEF QueueType
  <2>3. /\ \A x : Has(sendQueue', "reset", x) <=> Has(sendQueue, "reset", x)
        /\ \A x : Has(sendQueue', "prepare", x) <=> Has(sendQueue, "prepare", x)
        /\ Once(sendQueue', "reset")
    BY <1>5, <2>1, <2>2
  <2> QED
    BY <1>1, <1>2, <1>3, <2>3, SoundKept
<1>6. CASE \E c \in Calls : ExecutePrepared(c)
  <2>1. PICK c \in Calls : sendQueue' = Append(sendQueue, Command("execute", c))
    BY <1>6 DEF ExecutePrepared
  <2>2. PICK m : m = Command("execute", c)
    OBVIOUS
  <2>3. m \in Commands /\ m.op = "execute"
    BY <2>2, CallCommand
  <2> QED
    BY <1>5, <2>1, <2>2, <2>3
<1>7. CASE \E db \in Databases : Use(db)
  BY <1>5, <1>7, UseCommand DEF Use
<1> QED
  BY <1>4, <1>6, <1>7 DEF StreamStarts, StreamEnds, vars, queues

\* Callbacks, and a close(), close wrappers and end no reset().
LEMMA CallbacksSound ==
  ASSUME Closes, Stages, Sound,
         \E c \in Calls : ClosePrepared(c) \/ Prepared(c) \/ \E cb \in {"executed", "refused"} : Answered(c, cb)
  PROVE  Sound'
<1>0. QueueType /\ LruOK
  BY DEF Closes, TypeInv
<1>1. UNCHANGED <<resetting, onServer, misrun, how, wrapper, inFlight, nested, cacheSize>> /\ settled \subseteq settled'
  BY DEF ClosePrepared, Prepared, Answered, Callback, client, server
<1>2. /\ \A x : Comes("reset", x)' <=> Comes("reset", x)
      /\ \A x : Comes("prepared", x)' => Comes("prepared", x)
      /\ OnceComes("reset")'
  <2>0. OnceComes("reset")
    BY DEF Sound, Resets
  <2>1. ASSUME NEW c \in Calls, NEW cb \in {"prepared", "executed", "refused"}, Callback(cb, c)
        PROVE  /\ \A x : Comes("reset", x)' <=> Comes("reset", x)
               /\ \A x : Comes("prepared", x)' => Comes("prepared", x)
               /\ OnceComes("reset")'
    <3>1. /\ \A o, x : Comes(o, x) <=> (o = cb /\ x = c) \/ Comes(o, x)'
          /\ \A o : OnceComes(o) => OnceComes(o)'
      BY <1>0, <2>1, CallbackComes DEF Stages
    <3> QED
      BY <2>0, <3>1
  <2>2. ASSUME NEW c \in Calls, ClosePrepared(c)
        PROVE  /\ \A x : Comes("reset", x)' <=> Comes("reset", x)
               /\ \A x : Comes("prepared", x)' => Comes("prepared", x)
               /\ OnceComes("reset")'
    <3>1. UNCHANGED <<ticks, nested>>
      BY <2>2 DEF ClosePrepared
    <3> QED
      BY <2>0, <3>1, ComesSame
  <2> QED
    BY <2>1, <2>2 DEF Prepared, Answered
<1>3. Once(sendQueue, "reset")
  BY DEF Sound, Resets
<1>4. ASSUME NEW c \in Calls, CloseWrapper(c) PROVE Sound'
  <2>1. Closing /\ UNCHANGED cache /\ open' = open \ {c}
    BY <1>0, <1>1, <1>4, CloseWrapperKeeps DEF QueueType
  <2>2. /\ \A o, x : Has(sendQueue', o, x) <=> Has(sendQueue, o, x) \/ (o = "close" /\ x \in closed' \ closed)
        /\ \A o : o # "close" /\ Once(sendQueue, o) => Once(sendQueue', o)
    BY <1>0, <2>1, ClosingAdds DEF QueueType
  <2>3. /\ \A x : Has(sendQueue', "reset", x) <=> Has(sendQueue, "reset", x)
        /\ \A x : Has(sendQueue', "prepare", x) <=> Has(sendQueue, "prepare", x)
        /\ Once(sendQueue', "reset")
    BY <1>3, <2>2
  <2> QED
    BY <1>1, <1>2, <2>1, <2>3, SoundKept
<1>5. ASSUME NEW c \in Calls, UNCHANGED lru, UNCHANGED open, UNCHANGED sendQueue \/ sendQueue' = Append(sendQueue, Command("execute", c))
      PROVE  Sound'
  <2>1. UNCHANGED cache
    BY <1>5 DEF lru
  <2>2. CASE UNCHANGED sendQueue
    BY <1>1, <1>2, <1>3, <1>5, <2>1, <2>2, SoundKept
  <2>3. CASE sendQueue' = Append(sendQueue, Command("execute", c))
    <3>1. Adds({"execute"}, c)
      BY <1>0, <2>3, AddsExecute DEF QueueType
    <3>2. /\ \A o, x : Has(sendQueue', o, x) <=> Has(sendQueue, o, x) \/ (o \in {"execute"} /\ x = c)
          /\ \A o : Once(sendQueue, o) /\ (o \in {"execute"} => ~Has(sendQueue, o, c)) => Once(sendQueue', o)
      BY <1>0, <3>1, Added
    <3>3. /\ \A x : Has(sendQueue', "reset", x) <=> Has(sendQueue, "reset", x)
          /\ \A x : Has(sendQueue', "prepare", x) <=> Has(sendQueue, "prepare", x)
          /\ Once(sendQueue', "reset")
      BY <1>3, <3>2
    <3> QED
      BY <1>1, <1>2, <1>5, <2>1, <3>3, SoundKept
  <2> QED
    BY <1>5, <2>2, <2>3
<1>6. ASSUME NEW c \in Calls, ClosePrepared(c) PROVE Sound'
  BY <1>4, <1>6 DEF ClosePrepared
<1>7. ASSUME NEW c \in Calls, Prepared(c) PROVE Sound'
  BY <1>4, <1>5, <1>7 DEF Prepared
<1>8. ASSUME NEW c \in Calls, NEW cb \in {"executed", "refused"}, Answered(c, cb) PROVE Sound'
  BY <1>4, <1>5, <1>8 DEF Answered
<1> QED
  BY <1>6, <1>7, <1>8

\* No call is made while the connection is reset.
LEMMA AskSound ==
  ASSUME Closes, Sound, Careless = {},
         NEW c \in Calls, NEW sql \in Sqls, NEW kind \in {"prepare", "execute", "late"}, Asks(c, sql, kind)
  PROVE  Sound'
<1>0. TypeInv /\ QueueType /\ LruType /\ RestType /\ LruOK /\ Numbered /\ Unanswered
  BY TypeParts DEF Closes
<1>1. /\ how[c] = "none" /\ MayAsk
      /\ how' = [how EXCEPT ![c] = kind]
      /\ UNCHANGED <<database, cacheSize, blocked, nested, inFlight, ticks, draining, crashed, client, server>>
      /\ IF Early(sql)
         THEN /\ GetHit(Key(sql), c)
              /\ bound' = (IF kind = "prepare" THEN bound ELSE bound \cup {c})
              /\ settled' = (IF kind = "prepare" THEN settled \cup {c} ELSE settled)
              /\ Adds(IF kind = "prepare" THEN {} ELSE {"execute"}, c)
         ELSE /\ UNCHANGED <<lru, wrapper, open, bound, settled>>
              /\ Adds(IF kind = "execute" THEN {"prepare", "execute"} ELSE {"prepare"}, c)
  BY <1>0, AskDoes
<1>2. ~resetting /\ UNCHANGED <<resetting, onServer, misrun>> /\ wrapper[c] = None
  BY <1>0, <1>1 DEF MayAsk, client, server, Unanswered
<1>3. PICK ops \in SUBSET {"prepare", "execute"} : Adds(ops, c)
  <2>1. CASE Early(sql)
    BY <1>1, <2>1
  <2>2. CASE ~Early(sql)
    BY <1>1, <2>2
  <2> QED
    BY <2>1, <2>2
<1>4. /\ \A o, x : Has(sendQueue', o, x) <=> Has(sendQueue, o, x) \/ (o \in ops /\ x = c)
      /\ \A o : Once(sendQueue, o) /\ (o \in ops => ~Has(sendQueue, o, c)) => Once(sendQueue', o)
  BY <1>0, <1>3, Added
<1>5. (\A o, x : Comes(o, x)' <=> Comes(o, x)) /\ \A o : OnceComes(o)' <=> OnceComes(o)
  BY <1>1, ComesSame
<1>6. Resets'
  <2>1. "reset" \notin ops
    OBVIOUS
  <2>2. Once(sendQueue', "reset") /\ (Has(sendQueue', "reset", None) <=> Has(sendQueue, "reset", None))
    BY <1>4, <2>1 DEF Sound, Resets
  <2> QED
    BY <1>1, <1>2, <1>5, <2>2 DEF Sound, Resets
<1>7. Quiet'
  BY <1>2 DEF Quiet
<1>8. Alive'
  <2>1. CASE Early(sql)
    <3>1. PICK key : key = Key(sql)
      OBVIOUS
    <3>2. GetHit(key, c) /\ Found(key) # {} /\ UNCHANGED cacheSize
      BY <1>1, <2>1, <3>1 DEF Early
    <3>3. /\ \E st \in Calls : wrapper' = [wrapper EXCEPT ![c] = st] /\ \E i \in DOMAIN cache : cache[i] = [key |-> key, st |-> st]
          /\ open' = open \cup {c}
          /\ \A e : (\E j \in DOMAIN cache' : cache'[j] = e) <=> \E i \in DOMAIN cache : cache[i] = e
      BY <1>0, <1>2, <3>2, GetHitKeeps
    <3>4. PICK st \in Calls : wrapper' = [wrapper EXCEPT ![c] = st] /\ st \in onServer
      <4>1. PICK st \in Calls, i \in DOMAIN cache : wrapper' = [wrapper EXCEPT ![c] = st] /\ cache[i] = [key |-> key, st |-> st]
        BY <3>3
      <4>2. cache[i].st = st
        BY <4>1
      <4> QED
        BY <1>2, <4>1, <4>2 DEF Sound, Alive
    <3>5. \A i \in DOMAIN cache' : cache'[i].st \in onServer
      BY <1>2, <3>3 DEF Sound, Alive
    <3>6. \A d \in open' : how'[d] # "prepare" => wrapper'[d] \in onServer
      <4> SUFFICES ASSUME NEW d \in open', how'[d] # "prepare" PROVE wrapper'[d] \in onServer
        OBVIOUS
      <4>1. CASE d = c
        BY <1>0, <3>4, <4>1 DEF LruType
      <4>2. CASE d # c
        <5>1. d \in open /\ d \in Calls
          BY <1>0, <3>3, <4>2 DEF LruType
        <5> QED
          BY <1>0, <1>1, <3>4, <4>2, <5>1 DEF LruType, RestType, Sound, Alive
      <4> QED
        BY <4>1, <4>2
    <3> QED
      BY <1>1, <1>2, <3>5, <3>6 DEF Sound, Alive
  <2>2. CASE ~Early(sql)
    <3>1. UNCHANGED <<cache, wrapper, open>>
      BY <1>1, <2>2 DEF lru
    <3>2. c \notin open
      BY <1>0, <1>2 DEF LruOK, Own
    <3>3. \A d \in open : how'[d] = how[d]
      BY <1>0, <1>1, <3>2 DEF LruType, RestType
    <3> QED
      BY <1>1, <1>2, <3>1, <3>3 DEF Sound, Alive
  <2> QED
    BY <2>1, <2>2
<1> QED
  BY <1>2, <1>6, <1>7, <1>8 DEF Sound

\* reset() is called when nothing is under way.
LEMMA ResetSound == ASSUME Closes, Stages, Sound, Careless = {}, Reset PROVE Sound'
<1>0. QueueType
  BY DEF Closes, TypeInv
<1>1. /\ Idle /\ ~resetting /\ sendQueue' = Append(sendQueue, Command("reset", None))
      /\ UNCHANGED <<onServer, misrun, how, wrapper, cache, inFlight, settled, open, ticks, nested>>
  BY DEF Reset, lru, calls, server
<1>2. sendQueue = <<>> /\ inFlight = <<>> /\ ticks = <<>> /\ nested = <<>>
  BY <1>1 DEF Idle, AllSent, Stages, NestedNow
<1>3. \A o, x : ~Has(sendQueue, o, x) /\ ~Has(inFlight, o, x) /\ ~Comes(o, x)
  BY <1>2, HasEmpty DEF Comes
<1>4. (\A o, x : Comes(o, x)' <=> Comes(o, x)) /\ \A o : OnceComes(o)' <=> OnceComes(o)
  BY <1>1, ComesSame
<1>5. PICK m \in Commands : m = Command("reset", None) /\ m.op = "reset" /\ m.about = None
  BY ResetCommand
<1>6. \A o, x : Has(sendQueue', o, x) <=> o = "reset" /\ x = None
  <2>1. \A o, x : Has(Append(sendQueue, m), o, x) <=> Has(sendQueue, o, x) \/ (o = m.op /\ x = m.about)
    BY <1>0, HasAppend DEF QueueType
  <2> QED
    BY <1>1, <1>3, <1>5, <2>1
<1>7. Once(sendQueue', "reset")
  <2>1. Once(Append(sendQueue, m), "reset")
    BY <1>0, <1>3, OnceAppend DEF QueueType, Sound, Resets
  <2> QED
    BY <1>1, <1>5, <2>1
<1>8. resetting' = TRUE
  BY DEF Reset
<1>9. Resets'
  BY <1>1, <1>3, <1>4, <1>6, <1>7, <1>8 DEF Sound, Resets
<1>10. Quiet'
  <2>1. \A c \in Calls : how[c] # "none" => c \in settled
    BY <1>1, StagesSettle DEF CallsSettled
  <2> QED
    BY <1>1, <1>3, <1>4, <1>6, <2>1 DEF Quiet
<1>11. Alive'
  BY <1>1, <1>8 DEF Sound, Alive
<1> QED
  BY <1>1, <1>9, <1>10, <1>11 DEF Sound

\* When a reset() has been answered the LRU is empty.
LEMMA ResetDoneSound == ASSUME Closes, Stages, Sound, ResetDone PROVE Sound'
<1>0. QueueType /\ LruOK
  BY DEF Closes, TypeInv
<1>1. /\ Comes("reset", None)
      /\ \A o, x : Comes(o, x) <=> (o = "reset" /\ x = None) \/ Comes(o, x)'
      /\ \A o : OnceComes(o) => OnceComes(o)' /\ (o = "reset" => ~Comes(o, None)')
      /\ UNCHANGED <<database, cacheSize, blocked, nested, inFlight, how, wants, wrapper, session, changes,
                     serverDb, onServer, text, last, misrun>>
  BY <1>0, CallbackComes DEF ResetDone, Stages
<1>2. Closing /\ cache' = <<>> /\ UNCHANGED <<use, open, bound, settled, crashed>> /\ resetting' = FALSE
  BY <1>0, <1>1, ClearKeeps DEF ResetDone, QueueType
<1>3. /\ \A o, x : Has(sendQueue', o, x) <=> Has(sendQueue, o, x) \/ (o = "close" /\ x \in closed' \ closed)
      /\ \A o : o # "close" /\ Once(sendQueue, o) => Once(sendQueue', o)
  BY <1>0, <1>2, ClosingAdds DEF QueueType
<1>4. ~Has(sendQueue', "reset", None) /\ ~Has(inFlight', "reset", None) /\ ~Comes("reset", None)' /\ OnceComes("reset")'
  BY <1>1, <1>3 DEF Sound, Resets
<1>5. Resets'
  BY <1>1, <1>3, <1>4 DEF Sound, Resets
<1>6. Quiet'
  BY <1>2 DEF Quiet
<1>7. Alive'
  BY <1>1, <1>2 DEF Sound, Alive
<1> QED
  BY <1>1, <1>5, <1>6, <1>7 DEF Sound

\* A statement that enters the LRU is on the server: no reset() has come after its PREPARE.
LEMMA ReadPreparedSound == ASSUME Closes, Stages, Sound, ReadPrepared PROVE Sound'
<1>0. TypeInv /\ QueueType /\ LruType /\ RestType /\ LruOK /\ Unanswered
  BY TypeParts DEF Closes
<1>1. PICK a \in Answers, c \in Calls :
        /\ a = Head(inFlight) /\ a.op = "prepare" /\ a.about = c /\ a.ok /\ 1 \in DOMAIN inFlight /\ inFlight[1] = a
        /\ AllSent /\ ~draining /\ inFlight' = Tail(inFlight)
        /\ inFlight' \in Seq(Answers)
        /\ \A o, x : Has(inFlight, o, x) <=> (o = "prepare" /\ x = c) \/ Has(inFlight', o, x)
        /\ \A o : Once(inFlight, o) => Once(inFlight', o)
        /\ ~Has(inFlight', "prepare", c) /\ ~Has(sendQueue, "prepare", c)
        /\ \A i \in DOMAIN inFlight' : i + 1 \in DOMAIN inFlight /\ inFlight'[i] = inFlight[i + 1]
        /\ how[c] # "none" /\ wrapper[c] = None /\ Key(wants[c][2]) \in Texts
        /\ CacheSet(Key(wants[c][2]), c)
        /\ use' = [use EXCEPT ![c] = 1] /\ wrapper' = [wrapper EXCEPT ![c] = c] /\ open' = open \cup {c}
        /\ bound' = (IF how[c] = "execute" THEN bound \cup {c} ELSE bound)
        /\ ticks' = Append(ticks, Tick("prepared", c))
        /\ UNCHANGED <<database, cacheSize, blocked, nested, draining, how, wants, settled, crashed, client, server>>
  BY <1>0, ReadPreparedDoes
<1>2. PICK key \in Texts : key = Key(wants[c][2])
  BY <1>1
<1>3. /\ Closing
      /\ \A e : (\E j \in DOMAIN cache' : cache'[j] = e) => e = [key |-> key, st |-> c] \/ \E i \in DOMAIN cache : cache[i] = e
  BY <1>0, <1>1, <1>2, CacheSetKeeps DEF QueueType
<1>4. /\ \A o, x : Has(sendQueue', o, x) <=> Has(sendQueue, o, x) \/ (o = "close" /\ x \in closed' \ closed)
      /\ \A o : o # "close" /\ Once(sendQueue, o) => Once(sendQueue', o)
  BY <1>0, <1>3, ClosingAdds DEF QueueType
<1>5. nested = <<>>
  BY <1>1 DEF Stages, NestedNow
<1>6. PICK m \in Ticks : m = Tick("prepared", c) /\ m.op = "prepared" /\ m.about = c
  BY CallTick
<1>7. /\ \A o, x : Comes(o, x)' <=> Comes(o, x) \/ (o = "prepared" /\ x = c)
      /\ \A o : OnceComes(o) /\ (o = "prepared" => ~Comes(o, c)) => OnceComes(o)'
  BY <1>0, <1>1, <1>5, <1>6, TickComes
<1>8. UNCHANGED <<resetting, onServer, misrun>> /\ ~resetting
  <2>1. Has(inFlight, "prepare", c)
    BY <1>1
  <2> QED
    BY <1>1, <2>1 DEF client, server, Sound, Quiet
<1>9. Resets'
  BY <1>1, <1>4, <1>7, <1>8 DEF Sound, Resets
<1>10. Quiet'
  BY <1>8 DEF Quiet
<1>11. c \in onServer
  BY <1>1 DEF Sound, Alive
<1>12. Alive'
  <2>1. \A i \in DOMAIN cache' : cache'[i].st \in onServer
    <3> SUFFICES ASSUME NEW i \in DOMAIN cache' PROVE cache'[i].st \in onServer
      OBVIOUS
    <3>1. CASE cache'[i] = [key |-> key, st |-> c]
      <4>1. cache'[i].st = c
        BY <3>1
      <4> QED
        BY <1>11, <4>1
    <3>2. CASE \E j \in DOMAIN cache : cache[j] = cache'[i]
      BY <1>8, <3>2 DEF Sound, Alive
    <3> QED
      BY <1>3, <3>1, <3>2
  <2>2. \A i \in DOMAIN inFlight' : inFlight'[i].op = "prepare" /\ inFlight'[i].ok => inFlight'[i].about \in onServer
    BY <1>1 DEF Sound, Alive
  <2>3. \A d \in open' : how'[d] # "prepare" => wrapper'[d] \in onServer
    <3> SUFFICES ASSUME NEW d \in open', how'[d] # "prepare" PROVE wrapper'[d] \in onServer
      OBVIOUS
    <3>1. CASE d = c
      BY <1>0, <1>1, <1>11, <3>1 DEF LruType
    <3>2. CASE d # c
      <4>1. d \in open /\ d \in Calls
        BY <1>0, <1>1, <3>2 DEF LruType
      <4> QED
        BY <1>0, <1>1, <3>2, <4>1 DEF LruType, RestType, Sound, Alive
    <3> QED
      BY <3>1, <3>2
  <2> QED
    BY <1>8, <2>1, <2>2, <2>3 DEF Alive
<1> QED
  BY <1>8, <1>9, <1>10, <1>12 DEF Sound

\* The answer of the reset() is read once.
LEMMA ReadOtherSound == ASSUME Closes, Stages, Sound, ReadOther PROVE Sound'
<1>0. QueueType
  BY DEF Closes, TypeInv
<1>1. PICK a \in Answers :
        /\ a = Head(inFlight) /\ 1 \in DOMAIN inFlight /\ inFlight[1] = a
        /\ AllSent /\ ~draining /\ inFlight # <<>> /\ inFlight' = Tail(inFlight)
        /\ inFlight' \in Seq(Answers)
        /\ \A o, x : Has(inFlight, o, x) <=> (o = a.op /\ x = a.about) \/ Has(inFlight', o, x)
        /\ \A o : Once(inFlight, o) => Once(inFlight', o) /\ (a.op = o => ~Has(inFlight', o, a.about))
        /\ \A i \in DOMAIN inFlight' : i + 1 \in DOMAIN inFlight /\ inFlight'[i] = inFlight[i + 1]
        /\ database' = (IF a.op = "use" THEN a.about ELSE database)
        /\ \/ a.op = "use" /\ a.about \in Databases /\ UNCHANGED ticks
           \/ a.op = "reset" /\ a.about = None /\ ticks' = Append(ticks, Tick("reset", None))
           \/ a.op = "execute" /\ a.ok /\ a.about \in Calls /\ ticks' = Append(ticks, Tick("executed", a.about))
           \/ a.op \in {"prepare", "execute"} /\ ~a.ok /\ a.about \in Calls /\ ticks' = Append(ticks, Tick("refused", a.about))
        /\ UNCHANGED <<cacheSize, lru, sendQueue, blocked, nested, draining, calls, client, server>>
  BY <1>0, ReadOtherDoes
<1>2. UNCHANGED <<how, wrapper, open, settled, cache, resetting, onServer, misrun>>
  BY <1>1 DEF calls, lru, client, server
<1>3. nested = <<>>
  BY <1>1 DEF Stages, NestedNow
<1>4. \A o, x : Has(inFlight', o, x) => Has(inFlight, o, x)
  BY <1>1
<1>5. /\ \A x : Comes("prepared", x)' <=> Comes("prepared", x)
      /\ \A x : Comes("reset", x)' <=> Comes("reset", x) \/ (a.op = "reset" /\ x = None)
      /\ OnceComes("reset") /\ (a.op = "reset" => ~Comes("reset", None)) => OnceComes("reset")'
  <2>1. CASE a.op = "use"
    BY <1>1, <2>1, ComesSame
  <2>2. ASSUME NEW m \in Ticks, ticks' = Append(ticks, m), m.op # "prepared", m.op = "reset" <=> a.op = "reset",
               m.op = "reset" => m.about = None
        PROVE  /\ \A x : Comes("prepared", x)' <=> Comes("prepared", x)
               /\ \A x : Comes("reset", x)' <=> Comes("reset", x) \/ (a.op = "reset" /\ x = None)
               /\ OnceComes("reset") /\ (a.op = "reset" => ~Comes("reset", None)) => OnceComes("reset")'
    <3>1. /\ \A o, x : Comes(o, x)' <=> Comes(o, x) \/ (o = m.op /\ x = m.about)
          /\ \A o : OnceComes(o) /\ (o = m.op => ~Comes(o, m.about)) => OnceComes(o)'
      BY <1>0, <1>1, <1>3, <2>2, TickComes
    <3> QED
      BY <2>2, <3>1
  <2>3. CASE a.op = "reset"
    BY <1>1, <2>2, <2>3, ResetTick
  <2>4. CASE a.op \in {"prepare", "execute"}
    <3>1. PICK c \in Calls, cb \in {"executed", "refused"} : ticks' = Append(ticks, Tick(cb, c))
      BY <1>1, <2>4
    <3>2. PICK m \in Ticks : m = Tick(cb, c) /\ m.op = cb /\ m.about = c
      BY CallTick
    <3> QED
      BY <2>2, <2>4, <3>1, <3>2
  <2> QED
    BY <1>1, <2>1, <2>3, <2>4
<1>6. Has(inFlight, a.op, a.about)
  BY <1>1
<1>7. Resets'
  <2>1. Once(inFlight', "reset") /\ Once(sendQueue', "reset")
    BY <1>1 DEF Sound, Resets
  <2>2. CASE a.op = "reset"
    <3>1. Has(inFlight, "reset", None) /\ ~Has(inFlight', "reset", None)
      BY <1>1, <1>6, <2>2 DEF Sound, Resets
    <3> QED
      BY <1>1, <1>2, <1>5, <2>1, <2>2, <3>1 DEF Sound, Resets
  <2>3. CASE a.op # "reset"
    BY <1>1, <1>2, <1>4, <1>5, <2>1, <2>3 DEF Sound, Resets
  <2> QED
    BY <2>2, <2>3
<1>8. Quiet'
  BY <1>1, <1>2, <1>4, <1>5 DEF Sound, Quiet
<1>9. Alive'
  BY <1>1, <1>2 DEF Sound, Alive
<1> QED
  BY <1>2, <1>7, <1>8, <1>9 DEF Sound

\* A PREPARE is sent, or found in the LRU, whose statements the server has.
LEMMA SendPrepareSound == ASSUME Closes, Stages, Sound, SendNext, Head(sendQueue).op = "prepare" PROVE Sound'
<1>0. TypeInv /\ QueueType /\ LruType /\ RestType /\ LruOK /\ Unanswered
  BY TypeParts DEF Closes
<1>1. PICK m \in Commands :
        /\ m = Head(sendQueue)
        /\ \A o, x : Has(sendQueue, o, x) <=> (o = m.op /\ x = m.about) \/ Has(sendQueue', o, x)
        /\ \A o : Once(sendQueue, o) => Once(sendQueue', o) /\ (m.op = o => ~Has(sendQueue', o, m.about))
        /\ UNCHANGED <<database, cacheSize, blocked, draining, how, wants, bound, settled, crashed, client>>
        /\ m.op = "prepare" /\ m.about \in Calls /\ SendPrepare(m.about)
  BY <1>0, SendNextDoes
<1>2. PICK c \in Calls : c = m.about
  BY <1>1
<1>3. Has(sendQueue, "prepare", c)
  BY <1>1, <1>2
<1>4. wrapper[c] = None /\ ~resetting /\ UNCHANGED resetting /\ ~Comes("prepared", c)
  BY <1>0, <1>1, <1>3 DEF Unanswered, Sound, Quiet, client, Stages, Stage, Queued
<1>5. c \notin open
  BY <1>0, <1>4 DEF LruOK, Own
<1>6. Once(sendQueue', "reset") /\ (Has(sendQueue', "reset", None) <=> Has(sendQueue, "reset", None))
  BY <1>1 DEF Sound, Resets
<1>7. Quiet'
  BY <1>4 DEF Quiet
<1>8. SendPrepare(c)
  BY <1>1, <1>2
<1>9. CASE Found(Key(wants[c][2])) # {}
  <2>1. PICK key : key = Key(wants[c][2])
    OBVIOUS
  <2>2. GetHit(key, c) /\ Found(key) # {} /\ UNCHANGED <<inFlight, server>> /\ UNCHANGED cacheSize
    BY <1>1, <1>8, <1>9, <2>1 DEF SendPrepare
  <2>3. /\ \E st \in Calls : wrapper' = [wrapper EXCEPT ![c] = st] /\ \E i \in DOMAIN cache : cache[i] = [key |-> key, st |-> st]
        /\ open' = open \cup {c}
        /\ \A e : (\E j \in DOMAIN cache' : cache'[j] = e) <=> \E i \in DOMAIN cache : cache[i] = e
    BY <1>0, <1>4, <2>2, GetHitKeeps
  <2>4. PICK st \in Calls : wrapper' = [wrapper EXCEPT ![c] = st] /\ st \in onServer
    <3>1. PICK st \in Calls, i \in DOMAIN cache : wrapper' = [wrapper EXCEPT ![c] = st] /\ cache[i] = [key |-> key, st |-> st]
      BY <2>3
    <3>2. cache[i].st = st
      BY <3>1
    <3> QED
      BY <1>4, <3>1, <3>2 DEF Sound, Alive
  <2>5. AfterSending(<<>>, Append(nested, Tick("prepared", c)))
    BY <1>8, <1>9 DEF SendPrepare
  <2>6. /\ \A o, x : Comes(o, x)' <=> Comes(o, x) \/ (o = "prepared" /\ x = c)
        /\ \A o : OnceComes(o) => OnceComes(o)'
    BY <1>0, <1>4, <2>5, SentHit
  <2>7. Resets'
    BY <1>4, <1>6, <2>2, <2>6 DEF Sound, Resets
  <2>8. UNCHANGED <<onServer, misrun>>
    BY <2>2 DEF server
  <2>9. Alive'
    <3>1. \A i \in DOMAIN cache' : cache'[i].st \in onServer
      BY <1>4, <2>3 DEF Sound, Alive
    <3>2. \A d \in open' : how'[d] # "prepare" => wrapper'[d] \in onServer
      <4> SUFFICES ASSUME NEW d \in open', how'[d] # "prepare" PROVE wrapper'[d] \in onServer
        OBVIOUS
      <4>1. CASE d = c
        BY <1>0, <2>4, <4>1 DEF LruType
      <4>2. CASE d # c
        <5>1. d \in open /\ d \in Calls
          BY <1>0, <2>3, <4>2 DEF LruType
        <5> QED
          BY <1>0, <1>1, <2>4, <4>2, <5>1 DEF LruType, Sound, Alive
      <4> QED
        BY <4>1, <4>2
    <3> QED
      BY <2>2, <2>8, <3>1, <3>2 DEF Sound, Alive
  <2> QED
    BY <1>7, <2>7, <2>8, <2>9 DEF Sound
<1>10. CASE Found(Key(wants[c][2])) = {}
  <2>1. PICK ok \in BOOLEAN : Answer(m, ok) /\ onServer' = IF ok THEN onServer \cup {c} ELSE onServer
    BY <1>1, <1>8, <1>10 DEF SendPrepare
  <2>2. AfterSending(<<>>, nested) /\ UNCHANGED <<cache, wrapper, open, misrun>>
    BY <1>8, <1>10 DEF SendPrepare, lru
  <2>3. PICK a \in Answers :
          /\ a.op = m.op /\ a.about = m.about /\ a.ok = ok
          /\ \A o, x : Has(inFlight', o, x) <=> Has(inFlight, o, x) \/ (o = m.op /\ x = m.about)
          /\ \A o : Once(inFlight, o) /\ (m.op = o => ~Has(inFlight, o, m.about)) => Once(inFlight', o)
          /\ \A i \in DOMAIN inFlight' : (i \in DOMAIN inFlight /\ inFlight'[i] = inFlight[i])
                                         \/ (i = Len(inFlight) + 1 /\ inFlight'[i] = a)
    BY <1>0, <1>1, <2>1, AnswerDoes
  <2>4. (\A o, x : Comes(o, x)' <=> Comes(o, x)) /\ \A o : OnceComes(o) => OnceComes(o)'
    BY <1>0, <2>2, SentSilently
  <2>5. Once(inFlight', "reset") /\ (Has(inFlight', "reset", None) <=> Has(inFlight, "reset", None))
    BY <1>1, <2>3 DEF Sound, Resets
  <2>6. Resets'
    BY <1>4, <1>6, <2>4, <2>5 DEF Sound, Resets
  <2>7. onServer \subseteq onServer' /\ (ok => c \in onServer')
    BY <2>1
  <2>8. \A i \in DOMAIN inFlight' : inFlight'[i].op = "prepare" /\ inFlight'[i].ok => inFlight'[i].about \in onServer'
    BY <1>2, <2>3, <2>7 DEF Sound, Alive
  <2>9. Alive'
    BY <1>1, <1>4, <2>2, <2>7, <2>8 DEF Sound, Alive
  <2> QED
    BY <1>7, <2>2, <2>6, <2>9 DEF Sound
<1> QED
  BY <1>9, <1>10

\* Every EXECUTE names a statement of its own text that the server has, or none.
LEMMA NoMisrun ==
  ASSUME Closes, Stages, RightText, Sound, NEW c \in Calls, Has(sendQueue, "execute", c), Head(sendQueue).op = "execute"
  PROVE  ~Misruns(c)
<1>0. TypeInv /\ LruType /\ RestType /\ LruOK /\ Unanswered
  BY TypeParts DEF Closes
<1>1. Executing(c)
  BY DEF Stages, Stage
<1> SUFFICES ASSUME how[c] # "prepare" PROVE ~(IF Named(c) \in onServer THEN text[Named(c)] # wants[c] ELSE wrapper[c] # None)
  BY DEF Misruns
<1>2. CASE c \in bound
  <2>1. Named(c) = wrapper[c] /\ c \in open
    BY <1>1, <1>2 DEF Executing, Named
  <2>2. wrapper[c] \in onServer /\ wrapper[c] # None
    BY <1>0, <2>1 DEF Sound, Alive, LruOK, Own
  <2>3. text[wrapper[c]] = wants[c]
    BY <2>2 DEF RightText
  <2> QED
    BY <2>1, <2>2, <2>3
<1>3. CASE c \notin bound
  <2>1. AtOnce(c) /\ ~Together(c)
    BY <1>1, <1>3, HeadAtOnce DEF Executing
  <2>2. Has(inFlight, "prepare", c) /\ last \in {c, None} /\ Named(c) = last
    BY <1>3, <2>1 DEF AtOnce, Named
  <2>3. text[c] = wants[c] /\ wrapper[c] = None
    BY <1>0, <2>2 DEF RightText, Unanswered
  <2>4. None \notin onServer
    BY <1>0, NoneIsNoCall DEF RestType
  <2> QED
    BY <2>2, <2>3, <2>4
<1> QED
  BY <1>2, <1>3

\* An EXECUTE is sent: nothing is executed but its own statement.
LEMMA SendExecuteSound == ASSUME Closes, Stages, RightText, Sound, SendNext, Head(sendQueue).op = "execute" PROVE Sound'
<1>0. TypeInv /\ QueueType /\ LruType /\ RestType /\ LruOK /\ Unanswered
  BY TypeParts DEF Closes
<1>1. PICK m \in Commands :
        /\ m = Head(sendQueue)
        /\ \A o, x : Has(sendQueue, o, x) <=> (o = m.op /\ x = m.about) \/ Has(sendQueue', o, x)
        /\ \A o : Once(sendQueue, o) => Once(sendQueue', o) /\ (m.op = o => ~Has(sendQueue', o, m.about))
        /\ UNCHANGED <<database, cacheSize, blocked, draining, how, wants, bound, settled, crashed, client>>
        /\ m.op = "execute" /\ m.about \in Calls /\ SendExecute(m.about)
  BY <1>0, SendNextDoes
<1>2. PICK c \in Calls : c = m.about
  BY <1>1
<1>3. Has(sendQueue, "execute", c) /\ UNCHANGED <<resetting, wrapper, open, onServer, cache>>
  BY <1>1, <1>2 DEF client, SendExecute, lru
<1>4. ~Misruns(c)
  BY <1>1, <1>3, NoMisrun
<1>5. misrun' = misrun
  BY <1>1, <1>2, <1>4 DEF SendExecute
<1>6. /\ \A o \in {"prepared", "reset"} : \A x : Comes(o, x)' <=> Comes(o, x)
      /\ OnceComes("reset")'
  <2>0. OnceComes("reset")
    BY DEF Sound, Resets
  <2>1. CASE AfterSending(<<>>, nested)
    BY <1>0, <2>0, <2>1, SentSilently
  <2>2. CASE AfterSending(<<Tick("refused", c)>>, nested)
    <3>1. /\ \A o, x : Comes(o, x)' <=> Comes(o, x) \/ (o = "refused" /\ x = c)
          /\ \A o : o # "refused" /\ OnceComes(o) => OnceComes(o)'
      BY <1>0, <2>2, SentRefused
    <3> QED
      BY <2>0, <3>1
  <2> QED
    BY <1>1, <1>2, <2>1, <2>2 DEF SendExecute
<1>7. /\ \A o \in {"prepare", "reset"} : \A x : Has(inFlight', o, x) <=> Has(inFlight, o, x)
      /\ Once(inFlight', "reset")
      /\ \A i \in DOMAIN inFlight' : inFlight'[i].op = "prepare" => i \in DOMAIN inFlight /\ inFlight'[i] = inFlight[i]
  <2>0. Once(inFlight, "reset")
    BY DEF Sound, Resets
  <2>1. CASE UNCHANGED inFlight
    BY <2>0, <2>1
  <2>2. ASSUME NEW ok \in BOOLEAN, Answer(m, ok)
        PROVE  /\ \A o \in {"prepare", "reset"} : \A x : Has(inFlight', o, x) <=> Has(inFlight, o, x)
               /\ Once(inFlight', "reset")
               /\ \A i \in DOMAIN inFlight' : inFlight'[i].op = "prepare" => i \in DOMAIN inFlight /\ inFlight'[i] = inFlight[i]
    <3>1. PICK a \in Answers :
            /\ a.op = m.op /\ a.about = m.about
            /\ \A o, x : Has(inFlight', o, x) <=> Has(inFlight, o, x) \/ (o = m.op /\ x = m.about)
            /\ \A o : Once(inFlight, o) /\ (m.op = o => ~Has(inFlight, o, m.about)) => Once(inFlight', o)
            /\ \A i \in DOMAIN inFlight' : (i \in DOMAIN inFlight /\ inFlight'[i] = inFlight[i])
                                           \/ (i = Len(inFlight) + 1 /\ inFlight'[i] = a)
      BY <1>0, <1>1, <2>2, AnswerDoes
    <3> QED
      BY <1>1, <2>0, <3>1
  <2> QED
    BY <1>1, <2>1, <2>2 DEF SendExecute
<1>8. Once(sendQueue', "reset") /\ (Has(sendQueue', "reset", None) <=> Has(sendQueue, "reset", None))
      /\ \A x : Has(sendQueue', "prepare", x) <=> Has(sendQueue, "prepare", x)
  BY <1>1 DEF Sound, Resets
<1>9. Resets'
  BY <1>3, <1>6, <1>7, <1>8 DEF Sound, Resets
<1>10. Quiet'
  BY <1>1, <1>3, <1>6, <1>7, <1>8 DEF Sound, Quiet
<1>11. Alive'
  BY <1>1, <1>3, <1>7 DEF Sound, Alive
<1> QED
  BY <1>5, <1>9, <1>10, <1>11 DEF Sound

\* A statement the server is told to close is not found and not used again, and a reset() finds no
\* call under way.
LEMMA SendOthersSound ==
  ASSUME Closes, Stages, Sound, SendNext, Head(sendQueue).op \in {"close", "use", "reset"}
  PROVE  Sound'
<1>0. TypeInv /\ QueueType /\ LruType /\ RestType /\ LruOK /\ Unanswered /\ CloseTold
  BY TypeParts DEF Closes
<1>1. PICK m \in Commands :
        /\ m = Head(sendQueue)
        /\ \A o, x : Has(sendQueue, o, x) <=> (o = m.op /\ x = m.about) \/ Has(sendQueue', o, x)
        /\ \A o : Once(sendQueue, o) => Once(sendQueue', o) /\ (m.op = o => ~Has(sendQueue', o, m.about))
        /\ UNCHANGED <<database, cacheSize, blocked, draining, how, wants, bound, settled, crashed, client>>
        /\ \/ m.op = "close" /\ m.about \in Calls /\ SendClose(m.about)
           \/ m.op = "use" /\ m.about \in Databases /\ SendOther(m)
           \/ m.op = "reset" /\ m.about = None /\ SendOther(m)
  BY <1>0, SendNextDoes
<1>2. AfterSending(<<>>, nested) /\ UNCHANGED <<wrapper, open, cache, misrun, resetting>>
  BY <1>1 DEF SendClose, SendOther, lru, client
<1>3. (\A o, x : Comes(o, x)' <=> Comes(o, x)) /\ OnceComes("reset")'
  BY <1>0, <1>2, SentSilently DEF Sound, Resets
<1>4. Once(sendQueue', "reset") /\ Has(sendQueue, m.op, m.about)
  BY <1>1 DEF Sound, Resets
<1>5. CASE m.op = "close"
  <2>1. PICK st \in Calls : st = m.about /\ onServer' = onServer \ {st} /\ UNCHANGED inFlight
    BY <1>1, <1>5 DEF SendClose
  <2>2. st \in closed /\ Users(st) = {} /\ ~IsCached(st) /\ wrapper[st] = st
    BY <1>0, <1>4, <1>5, <2>1 DEF CloseTold, LruOK, Counted, Own
  <2>3. Resets' /\ Quiet'
    BY <1>1, <1>2, <1>3, <1>4, <1>5, <2>1 DEF Sound, Resets, Quiet
  <2>4. \A i \in DOMAIN inFlight' : inFlight'[i].op = "prepare" /\ inFlight'[i].ok => inFlight'[i].about \in onServer'
    <3>1. ~Has(inFlight, "prepare", st)
      BY <1>0, <2>1, <2>2, NoneIsNoCall DEF Unanswered
    <3> QED
      BY <2>1, <3>1 DEF Sound, Alive, Has
  <2>5. ~resetting' => \A i \in DOMAIN cache' : cache'[i].st \in onServer'
    BY <1>2, <2>1, <2>2 DEF Sound, Alive, IsCached
  <2>6. \A d \in open' : how'[d] # "prepare" => wrapper'[d] \in onServer'
    BY <1>1, <1>2, <2>1, <2>2 DEF Sound, Alive, Users
  <2> QED
    BY <1>2, <2>3, <2>4, <2>5, <2>6 DEF Sound, Alive
<1>6. CASE m.op \in {"use", "reset"}
  <2>1. PICK ok \in BOOLEAN : ok = TRUE
    OBVIOUS
  <2>2. Answer(m, ok)
    BY <1>1, <1>6, <2>1 DEF SendOther
  <2>3. PICK a \in Answers :
          /\ a.op = m.op /\ a.about = m.about
          /\ \A o, x : Has(inFlight', o, x) <=> Has(inFlight, o, x) \/ (o = m.op /\ x = m.about)
          /\ \A o : Once(inFlight, o) /\ (m.op = o => ~Has(inFlight, o, m.about)) => Once(inFlight', o)
          /\ \A i \in DOMAIN inFlight' : (i \in DOMAIN inFlight /\ inFlight'[i] = inFlight[i])
                                         \/ (i = Len(inFlight) + 1 /\ inFlight'[i] = a)
    BY <1>0, <1>6, <2>2, AnswerDoes
  <2>4. \A i \in DOMAIN inFlight' : inFlight'[i].op = "prepare" => i \in DOMAIN inFlight /\ inFlight'[i] = inFlight[i]
    BY <1>6, <2>3
  <2>5. Quiet'
    BY <1>1, <1>2, <1>3, <1>6, <2>3 DEF Sound, Quiet
  <2>6. CASE m.op = "use"
    <3>1. UNCHANGED onServer
      BY <1>1, <2>6 DEF SendOther
    <3>2. Once(inFlight', "reset") /\ (Has(inFlight', "reset", None) <=> Has(inFlight, "reset", None))
          /\ (Has(sendQueue', "reset", None) <=> Has(sendQueue, "reset", None))
      BY <1>1, <2>3, <2>6 DEF Sound, Resets
    <3>3. Resets'
      BY <1>2, <1>3, <1>4, <3>2 DEF Sound, Resets
    <3>4. Alive'
      BY <1>1, <1>2, <2>4, <3>1 DEF Sound, Alive
    <3> QED
      BY <1>2, <2>5, <3>3, <3>4 DEF Sound
  <2>7. CASE m.op = "reset"
    <3>1. m.about = None /\ onServer' = {}
      BY <1>1, <2>7 DEF SendOther
    <3>2. /\ Has(sendQueue, "reset", None) /\ ~Has(sendQueue', "reset", None)
          /\ ~Has(inFlight, "reset", None) /\ ~Comes("reset", None) /\ resetting
      BY <1>1, <1>4, <2>7, <3>1 DEF Sound, Resets
    <3>3. Once(inFlight', "reset")
      BY <2>3, <2>7, <3>1, <3>2 DEF Sound, Resets
    <3>4. Resets'
      BY <1>2, <1>3, <1>4, <3>2, <3>3 DEF Resets
    <3>5. \A d \in Calls : (how[d] # "none" => d \in settled) /\ ~Has(inFlight, "prepare", d) /\ ~Comes("prepared", d)
      BY <3>2 DEF Sound, Quiet
    <3>6. \A d \in open : how[d] = "prepare"
      <4> SUFFICES ASSUME NEW d \in open PROVE how[d] = "prepare"
        OBVIOUS
      <4>1. d \in Calls
        BY <1>0 DEF LruType
      <4>2. Holding(d)
        BY <4>1 DEF Stages, Stage
      <4> QED
        BY <3>5, <4>1, <4>2 DEF Holding
    <3>7. \A i \in DOMAIN inFlight : inFlight[i].op # "prepare"
      <4> SUFFICES ASSUME NEW i \in DOMAIN inFlight, inFlight[i].op = "prepare" PROVE FALSE
        OBVIOUS
      <4>1. inFlight[i].about \in Calls
        <5>1. inFlight[i] \in Answers
          BY <1>0 DEF QueueType
        <5> QED
          BY <5>1, AnswerKinds
      <4> QED
        BY <3>5, <4>1 DEF Has
    <3>8. Alive'
      BY <1>1, <1>2, <2>4, <3>2, <3>6, <3>7 DEF Alive
    <3> QED
      BY <1>2, <2>5, <3>4, <3>8 DEF Sound
  <2> QED
    BY <1>6, <2>6, <2>7
<1> QED
  BY <1>1, <1>5, <1>6

\* Each step of a client that waits for everything keeps Sound.
LEMMA NextSound == ASSUME Closes, Stages, RightText, Sound, Careless = {}, [Next]_vars PROVE Sound'
<1>1. \/ \E c \in Calls, sql \in Sqls, kind \in {"prepare", "execute", "late"} : Asks(c, sql, kind)
      \/ \E c \in Calls : ExecutePrepared(c)
      \/ \E c \in Calls : ClosePrepared(c)
      \/ \E c \in Calls : Prepared(c)
      \/ \E c \in Calls, cb \in {"executed", "refused"} : Answered(c, cb)
      \/ \E db \in Databases : Use(db)
      \/ Reset \/ StreamStarts \/ StreamEnds
      \/ SendNext \/ ReadPrepared \/ ReadOther \/ ResetDone \/ UNCHANGED vars
  BY NextCases
<1>2. CASE \E c \in Calls, sql \in Sqls, kind \in {"prepare", "execute", "late"} : Asks(c, sql, kind)
  BY <1>2, AskSound
<1>3. CASE (\E c \in Calls : ExecutePrepared(c)) \/ (\E db \in Databases : Use(db)) \/ StreamStarts \/ StreamEnds
           \/ UNCHANGED vars
  BY <1>3, SmallStepsSound
<1>4. CASE \E c \in Calls : ClosePrepared(c) \/ Prepared(c) \/ \E cb \in {"executed", "refused"} : Answered(c, cb)
  BY <1>4, CallbacksSound
<1>5. CASE SendNext
  <2>1. QueueType
    BY DEF Closes, TypeInv
  <2>2. Head(sendQueue).op \in {"prepare", "execute", "close", "use", "reset"}
    BY <1>5, <2>1, SendNextDoes
  <2> QED
    BY <1>5, <2>2, SendPrepareSound, SendExecuteSound, SendOthersSound
<1> QED
  BY <1>1, <1>2, <1>3, <1>4, <1>5, ResetSound, ReadPreparedSound, ReadOtherSound, ResetDoneSound

\* At the start nothing is under way.
LEMMA InitSound == Init => Sound
<1> SUFFICES ASSUME Init PROVE Sound
  OBVIOUS
<1>1. \A o, x : ~Has(sendQueue, o, x) /\ ~Has(inFlight, o, x) /\ ~Comes(o, x)
  BY HasEmpty DEF Init, Comes
<1>2. Resets
  BY <1>1, OnceEmpty, HasEmpty DEF Init, Resets, OnceComes
<1>3. Quiet /\ Alive /\ misrun = {}
  BY DEF Init, Quiet, Alive
<1> QED
  BY <1>2, <1>3 DEF Sound

\* All that has been said of the calls and the statements always holds.
LEMMA AlwaysSound == ASSUME Careless = {} PROVE Spec => [](Closes /\ RightText /\ Sound)
<1>0. "use" \notin Careless /\ "stream" \notin Careless
  OBVIOUS
<1>1. Init => Closes /\ Stages /\ UseOrder /\ RightText /\ Sound
  BY InitCloses, InitStages, InitTexts, InitSound
<1>2. Closes /\ Stages /\ UseOrder /\ RightText /\ Sound /\ [Next]_vars
        => (Closes /\ Stages /\ UseOrder /\ RightText /\ Sound)'
  BY <1>0, NextCloses, NextStages, NextTexts, NextSound
<1> QED
  BY <1>1, <1>2, PTL DEF Spec

\* A client that waits for the answer of a USE, for what is in flight before reset() and for its end,
\* and for the end of a stream before execute(), has every EXECUTE run its own SQL in the database
\* that was current at the call, with a statement the server still has: what the LRU says of a
\* statement is true.
THEOREM EveryExecuteRight == ASSUME Careless = {} PROVE Spec => []RightStatement
<1>1. Closes /\ RightText /\ Sound => RightStatement
  <2> SUFFICES ASSUME Closes, RightText, Sound PROVE RightStatement
    OBVIOUS
  <2>1. Distinct(cache)
    BY DEF Closes, LruOK
  <2>2. CacheCoherent
    BY <2>1 DEF CacheCoherent, Distinct, RightText, Sound, Alive
  <2> QED
    BY <2>2 DEF RightStatement, ExecutesOwnStatement, Sound
<1> QED
  BY <1>1, AlwaysSound, PTL
=============================================================================

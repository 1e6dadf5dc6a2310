--------------------------- MODULE CompressionProofs ---------------------------
(***************************************************************************)
(* Proofs about CompressionOutput and CompressionInput: what the server    *)
(* inflates is what was written, in blocks numbered as it expects, for     *)
(* every size of the buffers and of the blocks; and the packets that are   *)
(* given to the commands are those the server sent, however it cuts and    *)
(* packs them and however the socket cuts its bytes.                       *)
(***************************************************************************)
EXTENDS CompressionInput, CompressionOutput, SequenceLemmas, SequenceTheorems

-----------------------------------------------------------------------------
(***************************************************************************)
(* The invariant.                                                          *)
(***************************************************************************)
BlockType == [size : Nat, no : Nat, plain : Nat, len : Nat, body : Seq(Nat)]

OutputType ==
  /\ buf \in Seq(Nat) /\ arr \in Seq(Nat) /\ cap \in Nat
  /\ step \in {"idle", "writeBuf", "fill", "stream", "flush", "sent"} /\ ending \in {"more", "flush", "flushPacket"}
  /\ compressSequenceNo \in Int /\ compressSequenceNo >= -1
  /\ turn \in {"client", "server"} /\ first \in Nat /\ sent \in Seq(BlockType) /\ written \in Nat

\* What is still to be written has its place: behind a full block no more than what the
\* smallest buffer takes.
Fits ==
  /\ Len(buf) <= MaxBlock /\ (step \in {"idle", "writeBuf", "fill", "sent"} => buf = <<>>)
  /\ step \in {"idle", "flush", "sent"} => arr = <<>>
  /\ step = "writeBuf" => Len(arr) <= MaxBlock + 4
  /\ step = "fill" => arr # <<>> /\ (cap = MaxBuf \/ Len(arr) + HeaderLen <= cap) /\ Len(arr) <= MaxBlock + 4
  /\ step = "stream" => arr # <<>> /\ Len(arr) <= 4
  /\ cap <= MaxBuf

\* While the client writes the next block has the number that the server waits for; a number
\* may have begun again at zero.
Numbered ==
  /\ turn = "server" => step = "idle" /\ sent # <<>>
  /\ step = "sent" => sent # <<>>
  /\ turn = "server" /\ ending = "flush" => compressSequenceNo = -1
  /\ turn = "client" /\ ~Overlong => compressSequenceNo + 1 \in {first + Len(sent), first + Len(sent) + NumberMod}

Numbers(n) == [i \in 1..n |-> i]
BlockRight(i) == sent[i].no = (first + i - 1) % NumberMod /\ sent[i].size = sent[i].len /\ Inflated(sent[i])
Faithful == ~Overlong => (\A i \in DOMAIN sent : BlockRight(i)) /\ Inflation \o buf \o arr = Numbers(written)

OutputInv == OutputType /\ Fits /\ Numbered /\ Faithful

-----------------------------------------------------------------------------
(***************************************************************************)
(* Numbers that begin again at zero.                                       *)
(***************************************************************************)
\* Division leaves one remainder.
LEMMA ModUnique ==
  ASSUME NEW a \in Nat, NEW b \in Nat \ {0}, NEW q \in Int, NEW r \in Int, a = b * q + r, 0 <= r, r < b
  PROVE  a % b = r
<1>1. PICK u \in Int, v \in Int : u = a \div b /\ v = a % b /\ a = b * u + v /\ 0 <= v /\ v < b
  OBVIOUS
<1>2. PICK d \in Int : d = q - u
  OBVIOUS
<1>3. b * d = v - r
  <2>1. b * d = b * q - b * u
    BY <1>2
  <2> QED
    BY <1>1, <2>1
<1>4. d = 0
  <2>1. ASSUME d >= 1 PROVE b * d >= b
    BY <2>1
  <2>2. ASSUME d <= -1 PROVE b * d <= -b
    BY <2>2
  <2> QED
    BY <1>1, <1>2, <1>3, <2>1, <2>2
<1> QED
  BY <1>1, <1>3, <1>4

\* A multiple of b more makes no difference.
LEMMA ModAdd ==
  ASSUME NEW a \in Nat, NEW b \in Nat \ {0}
  PROVE  (a + b) % b = a % b
<1>1. PICK q \in Int, r \in Int : q = a \div b /\ r = a % b /\ a = b * q + r /\ 0 <= r /\ r < b
  OBVIOUS
<1>2. PICK u \in Int : u = q + 1
  OBVIOUS
<1>3. b * u = b * q + b
  BY <1>2
<1>4. a + b \in Nat /\ a + b = b * u + r
  BY <1>1, <1>3
<1> QED
  BY <1>1, <1>4, ModUnique

\* The number behind another.
LEMMA ModNext ==
  ASSUME NEW a \in Nat, NEW b \in Nat \ {0}
  PROVE  (a % b) + 1 \in {(a + 1) % b, ((a + 1) % b) + b} /\ a % b \in Nat /\ (a + 1) % b \in Nat
<1>1. PICK q \in Int, r \in Int : q = a \div b /\ r = a % b /\ a = b * q + r /\ 0 <= r /\ r < b
  OBVIOUS
<1>2. CASE r + 1 < b
  <2>1. PICK s \in Int : s = r + 1
    BY <1>1
  <2>2. a + 1 \in Nat /\ a + 1 = b * q + s /\ 0 <= s /\ s < b
    BY <1>1, <1>2, <2>1
  <2>3. (a + 1) % b = s
    BY <2>2, ModUnique
  <2> QED
    BY <1>1, <2>1, <2>3
<1>3. CASE ~(r + 1 < b)
  <2>1. PICK u \in Int : u = q + 1
    BY <1>1
  <2>2. b * u = b * q + b
    BY <2>1
  <2>3. r + 1 = b
    BY <1>1, <1>3
  <2>4. PICK c \in Nat, z \in Int : c = a + 1 /\ z = 0
    OBVIOUS
  <2>5. c = b * u + z /\ 0 <= z /\ z < b
    BY <1>1, <2>2, <2>3, <2>4
  <2>6. c % b = z
    BY <2>5, ModUnique
  <2>7. (a + 1) % b = 0
    BY <2>4, <2>6
  <2> QED
    BY <1>1, <2>3, <2>7
<1> QED
  BY <1>2, <1>3

\* What is smaller than b stays.
LEMMA ModSmall ==
  ASSUME NEW a \in Nat, NEW b \in Nat \ {0}
  PROVE  a % b \in Nat /\ a % b < b /\ (a < b => a % b = a)
OBVIOUS

\* The constants.
LEMMA OutputConstants ==
  /\ MaxBlock \in Nat \ {0} /\ Small \in Nat \ {0} /\ NumberMod \in Nat \ {0} /\ RawBelow \in Nat /\ Levels \in Seq(Nat)
  /\ MaxBuf = MaxBlock + 7 /\ HeaderLen = 7 /\ Small >= 11 /\ Small <= MaxBuf /\ \A i \in DOMAIN Levels : Levels[i] <= MaxBuf
  /\ FrameLens \subseteq 4..(MaxBlock + 4) /\ Growth \subseteq Nat
BY CompressionOutputAssumption DEF MaxBuf, HeaderLen

-----------------------------------------------------------------------------
(***************************************************************************)
(* Buffers.                                                                *)
(***************************************************************************)
\* A level above what is needed is one of them, the first, or there is none.
LEMMA LevelFound ==
  ASSUME NEW levels \in Seq(Nat), NEW need \in Nat
  PROVE  \/ LevelAbove(levels, need) = MaxBuf /\ ~ \E i \in DOMAIN levels : need < levels[i]
         \/ \E i \in DOMAIN levels :
              /\ LevelAbove(levels, need) = levels[i] /\ need < levels[i]
              /\ \A j \in DOMAIN levels : need < levels[j] => i <= j
<1> DEFINE I == {i \in 1..Len(levels) : need < levels[i]}
<1>1. DOMAIN levels = 1..Len(levels) /\ Len(levels) \in Nat
  OBVIOUS
<1>2. CASE ~ \E i \in DOMAIN levels : need < levels[i]
  BY <1>2 DEF LevelAbove
<1>3. CASE \E i \in DOMAIN levels : need < levels[i]
  <2>1. I # {} /\ I \subseteq Nat
    BY <1>1, <1>3
  <2>2. SelectInSeq(levels, LAMBDA l : need < l) = Min(I)
    BY <2>1 DEF SelectInSeq
  <2>3. \E i \in I : \A j \in I : i <= j
    <3> HIDE DEF I
    <3> QED
      BY <2>1, NatMin
  <2>4. Min(I) \in I /\ \A j \in I : Min(I) <= j
    <3> HIDE DEF I
    <3> QED
      BY <2>3 DEF Min
  <2>5. LevelAbove(levels, need) = levels[Min(I)]
    BY <1>3, <2>2 DEF LevelAbove
  <2>6. PICK i \in I : i = Min(I)
    BY <2>4
  <2>7. i \in DOMAIN levels /\ LevelAbove(levels, need) = levels[i] /\ need < levels[i]
    BY <1>1, <2>5, <2>6
  <2>8. \A j \in DOMAIN levels : need < levels[j] => i <= j
    BY <1>1, <2>4, <2>6
  <2> QED
    BY <2>7, <2>8
<1> QED
  BY <1>2, <1>3

\* A buffer grown for what is to be written has room for it, or is as large as they get.
LEMMA GrownFits ==
  ASSUME NEW len \in Nat, buf \in Seq(Nat)
  PROVE  GrownCapacity(len) \in Nat /\ GrownCapacity(len) <= MaxBuf /\ (GrownCapacity(len) = MaxBuf \/ len + Pos < GrownCapacity(len))
<1>1. len + Pos \in Nat
  BY OutputConstants DEF Pos
<1>2. Levels \in Seq(Nat) /\ MaxBuf \in Nat /\ \A i \in DOMAIN Levels : Levels[i] \in Nat /\ Levels[i] <= MaxBuf
  BY OutputConstants
<1>3. \/ LevelAbove(Levels, len + Pos) = MaxBuf
      \/ \E i \in DOMAIN Levels : LevelAbove(Levels, len + Pos) = Levels[i] /\ len + Pos < Levels[i]
  BY <1>1, <1>2, LevelFound
<1> QED
  BY <1>2, <1>3 DEF GrownCapacity

\* The buffer a flush leaves has room for the four bytes that a full frame has more than a block.
LEMMA AllocatedFits ==
  ASSUME NEW len \in Nat, len <= 4
  PROVE  AllocateBuffer(len) = Small
<1>1. CASE len = 0
  BY <1>1 DEF AllocateBuffer
<1>2. CASE len # 0
  <2>1. PICK levels : levels = <<Small>> \o Levels
    OBVIOUS
  <2>2. levels \in Seq(Nat) /\ 1 \in DOMAIN levels /\ levels[1] = Small /\ \A j \in DOMAIN levels : j \in Nat /\ j >= 1
    BY <2>1, OutputConstants
  <2>3. len + 4 < levels[1] /\ len + 4 \in Nat
    BY <2>2, OutputConstants
  <2>4. \/ LevelAbove(levels, len + 4) = MaxBuf /\ ~ \E i \in DOMAIN levels : len + 4 < levels[i]
        \/ \E i \in DOMAIN levels :
             /\ LevelAbove(levels, len + 4) = levels[i] /\ len + 4 < levels[i]
             /\ \A j \in DOMAIN levels : len + 4 < levels[j] => i <= j
    BY <2>2, <2>3, LevelFound
  <2>5. LevelAbove(levels, len + 4) = levels[1]
    BY <2>2, <2>3, <2>4
  <2> QED
    BY <1>2, <2>1, <2>2, <2>5 DEF AllocateBuffer
<1> QED
  BY <1>1, <1>2

-----------------------------------------------------------------------------
(***************************************************************************)
(* What the server inflates.                                               *)
(***************************************************************************)
\* What is in the blocks s.
Bodies(s) == [i \in DOMAIN s |-> s[i].body]

\* A block more is inflated behind the others.
LEMMA InflationAppend ==
  ASSUME NEW s \in Seq(BlockType), NEW b \in BlockType
  PROVE  FlattenSeq(Bodies(Append(s, b))) = FlattenSeq(Bodies(s)) \o b.body /\ FlattenSeq(Bodies(s)) \in Seq(Nat)
<1>1. Len(s) \in Nat /\ DOMAIN s = 1..Len(s) /\ \A r \in 1..Len(s) : s[r] \in BlockType
  OBVIOUS
<1>2. \A x \in BlockType : x.body \in Seq(Nat)
  BY DEF BlockType
<1>3. PICK q : q = Bodies(s)
  OBVIOUS
<1>4. q = [r \in 1..Len(s) |-> s[r].body] /\ \A r \in 1..Len(s) : s[r].body \in Seq(Nat)
  BY <1>1, <1>2, <1>3 DEF Bodies
<1>5. q \in Seq(Seq(Nat)) /\ Len(q) = Len(s)
  <2> HIDE DEF BlockType
  <2> QED
    BY <1>1, <1>4
<1>6. PICK y \in Seq(Nat) : y = b.body
  BY <1>2
<1>7. PICK t : t = Append(s, b)
  OBVIOUS
<1>8. DOMAIN t = 1..(Len(s) + 1) /\ t[Len(s) + 1] = b /\ \A r \in 1..Len(s) : t[r] = s[r]
  <2> HIDE DEF BlockType
  <2> QED
    BY <1>7
<1>9. Bodies(t) = Append(q, y)
  <2>1. Bodies(t) = [r \in 1..(Len(s) + 1) |-> t[r].body]
    BY <1>8 DEF Bodies
  <2>2. PICK v : v = Append(q, y)
    OBVIOUS
  <2>3. v = [r \in 1..(Len(s) + 1) |-> v[r]] /\ v[Len(s) + 1] = y /\ \A r \in 1..Len(s) : v[r] = q[r]
    <3>1. v \in Seq(Seq(Nat)) /\ Len(v) = Len(s) + 1 /\ v[Len(s) + 1] = y /\ \A r \in 1..Len(s) : v[r] = q[r]
      BY <1>1, <1>5, <1>6, <2>2
    <3>2. v = [r \in 1..Len(v) |-> v[r]]
      BY <3>1
    <3> QED
      BY <3>1, <3>2
  <2>4. ASSUME NEW r \in 1..(Len(s) + 1) PROVE v[r] = t[r].body
    <3>1. CASE r = Len(s) + 1
      BY <1>6, <1>8, <2>3, <3>1
    <3>2. CASE r \in 1..Len(s)
      BY <1>4, <1>8, <2>3, <3>2
    <3> QED
      BY <1>1, <3>1, <3>2
  <2>5. v = Bodies(t)
    BY <2>1, <2>3, <2>4
  <2> QED
    BY <2>2, <2>5
<1>10. FlattenSeq(Append(q, y)) = FlattenSeq(q) \o y /\ FlattenSeq(q) \in Seq(Nat)
  BY <1>5, <1>6, FlattenAppend
<1> QED
  BY <1>3, <1>6, <1>7, <1>9, <1>10

\* Inflation in those terms, before and after a step; it is a sequence of bytes.
LEMMA InflationIs ==
  ASSUME sent \in Seq(BlockType)
  PROVE  Inflation = FlattenSeq(Bodies(sent)) /\ Inflation' = FlattenSeq(Bodies(sent')) /\ Inflation \in Seq(Nat)
<1>1. Inflation = FlattenSeq(Bodies(sent)) /\ Inflation' = FlattenSeq(Bodies(sent'))
  BY DEF Inflation, Bodies
<1>2. PICK b : b = [size |-> 0, no |-> 0, plain |-> 0, len |-> 0, body |-> <<>>]
  OBVIOUS
<1>3. b \in BlockType
  BY <1>2 DEF BlockType
<1> QED
  BY <1>1, <1>3, InflationAppend

\* Joining sequences of bytes is associative.
LEMMA JoinAssociative == \A f, b, a \in Seq(Nat) : (f \o b) \o a = f \o (b \o a)
<1> SUFFICES ASSUME NEW f \in Seq(Nat), NEW b \in Seq(Nat), NEW a \in Seq(Nat)
             PROVE  (f \o b) \o a = f \o (b \o a)
  OBVIOUS
<1>1. PICK l, r : l = (f \o b) \o a /\ r = f \o (b \o a)
  OBVIOUS
<1>2. l \in Seq(Nat) /\ r \in Seq(Nat) /\ Len(l) = Len(r)
  BY <1>1
<1>3. ASSUME NEW i \in 1..Len(l) PROVE l[i] = r[i]
  BY <1>1
<1>4. l = r
  BY <1>2, <1>3, SeqEqual
<1> QED
  BY <1>1, <1>4

\* Two pieces, and three, one behind the other.
Both(b, a) == b \o a
Three(f, b, a) == (f \o b) \o a

\* What is the same in two parts is the same behind others.
LEMMA ThreeBehind == \A f, b, a, c, d \in Seq(Nat) : Both(b, a) = Both(c, d) => Three(f, b, a) = Three(f, c, d)
<1> SUFFICES ASSUME NEW f \in Seq(Nat), NEW b \in Seq(Nat), NEW a \in Seq(Nat), NEW c \in Seq(Nat), NEW d \in Seq(Nat),
                    Both(b, a) = Both(c, d)
             PROVE  Three(f, b, a) = Three(f, c, d)
  OBVIOUS
<1>1. Three(f, b, a) = f \o Both(b, a)
  BY JoinAssociative DEF Three, Both
<1>2. Three(f, c, d) = f \o Both(c, d)
  BY JoinAssociative DEF Three, Both
<1> QED
  BY <1>1, <1>2

\* A step that sends no block and moves what is to be written leaves it all to come.
LEMMA NothingSent ==
  ASSUME OutputType, Faithful, UNCHANGED <<sent, first, written>>, buf' \in Seq(Nat), arr' \in Seq(Nat), buf' \o arr' = buf \o arr
  PROVE  Faithful'
<1>1. UNCHANGED <<Inflation, Overlong>>
  BY InflationIs DEF OutputType, Overlong
<1>2. \A i \in DOMAIN sent : BlockRight(i)' = BlockRight(i)
  BY DEF BlockRight, Inflated
<1>3. PICK f \in Seq(Nat) : f = Inflation
  BY InflationIs DEF OutputType
<1>5. (f \o buf') \o arr' = (f \o buf) \o arr
  <2>1. PICK b1 \in Seq(Nat), a1 \in Seq(Nat) : b1 = buf /\ a1 = arr
    BY DEF OutputType
  <2>2. PICK b2 \in Seq(Nat), a2 \in Seq(Nat) : b2 = buf' /\ a2 = arr'
    OBVIOUS
  <2>3. Both(b1, a1) = Both(b2, a2)
    BY <2>1, <2>2 DEF Both
  <2>4. Three(f, b1, a1) = Three(f, b2, a2)
    BY <2>3, ThreeBehind
  <2> QED
    BY <2>1, <2>2, <2>4 DEF Three
<1>6. Numbers(written)' = Numbers(written)
  BY DEF Numbers
<1> QED
  BY <1>1, <1>2, <1>3, <1>5, <1>6 DEF Faithful

-----------------------------------------------------------------------------
(***************************************************************************)
(* Filling the buffer.                                                     *)
(***************************************************************************)
\* FlushBufferBasic.
LEMMA FlushBufferBasicRight ==
  ASSUME OutputInv, NEW len \in FrameLens, NEW kind \in {"more", "flush", "flushPacket"}, FlushBufferBasic(len, kind)
  PROVE  OutputInv'
<1>0. OutputType /\ Fits /\ Numbered /\ Faithful
  BY DEF OutputInv
<1>1. /\ step = "idle" /\ turn = "client" /\ arr' = [i \in 1..len |-> written + i] /\ written' = written + len
      /\ step' = "writeBuf" /\ ending' = kind /\ UNCHANGED <<buf, cap, compressSequenceNo, turn, first, sent>>
  BY DEF FlushBufferBasic, output
<1>2. len \in Nat /\ len >= 4 /\ len <= MaxBlock + 4 /\ written \in Nat
  BY <1>0, OutputConstants DEF OutputType
<1>3. buf = <<>> /\ arr = <<>>
  BY <1>0, <1>1 DEF Fits
<1>4. arr' \in Seq(Nat) /\ Len(arr') = len
  BY <1>1, <1>2
<1>5. OutputType'
  BY <1>0, <1>1, <1>2, <1>4 DEF OutputType
<1>6. Fits'
  BY <1>0, <1>1, <1>2, <1>3, <1>4 DEF Fits
<1>7. UNCHANGED Overlong
  BY <1>1 DEF Overlong
<1>8. Numbered'
  BY <1>0, <1>1, <1>7 DEF Numbered
<1>9. Faithful'
  <2> SUFFICES ASSUME ~Overlong'
               PROVE  (\A i \in DOMAIN sent' : BlockRight(i)') /\ (Inflation' \o buf') \o arr' = Numbers(written')
    BY DEF Faithful, Numbers
  <2>1. \A i \in DOMAIN sent : BlockRight(i)' = BlockRight(i)
    BY <1>1 DEF BlockRight, Inflated
  <2>2. PICK f \in Seq(Nat) : f = Inflation /\ f = Inflation'
    BY <1>0, <1>1, InflationIs DEF OutputType
  <2>3. f = Numbers(written)
    <3>1. (f \o <<>>) \o <<>> = f
      OBVIOUS
    <3> QED
      BY <1>0, <1>3, <1>7, <2>2, <3>1 DEF Faithful
  <2>4. f \o arr' = Numbers(written + len)
    <3>1. PICK w \in Nat, l \in Nat : w = written /\ l = len
      BY <1>2
    <3>2. f = [i \in 1..w |-> i] /\ arr' = [i \in 1..l |-> w + i]
      BY <1>1, <2>3, <3>1 DEF Numbers
    <3>3. Len(f) = w /\ Len(arr') = l
      BY <1>4, <2>2, <3>1, <3>2
    <3>4. PICK g : g = f \o arr'
      OBVIOUS
    <3>5. g \in Seq(Nat) /\ Len(g) = w + l /\ \A i \in 1..(w + l) : g[i] = IF i <= w THEN f[i] ELSE arr'[i - w]
      <4>1. PICK a \in Seq(Nat) : a = arr'
        BY <1>4
      <4>2. /\ f \o a \in Seq(Nat) /\ Len(f \o a) = Len(f) + Len(a)
            /\ \A i \in 1..(Len(f) + Len(a)) : (f \o a)[i] = IF i <= Len(f) THEN f[i] ELSE a[i - Len(f)]
        BY <2>2, ConcatProperties
      <4> QED
        BY <3>3, <3>4, <4>1, <4>2
    <3>6. ASSUME NEW i \in 1..(w + l) PROVE g[i] = i
      <4>1. CASE i <= w
        BY <3>2, <3>5, <4>1
      <4>2. CASE ~(i <= w)
        <5>1. i - w \in 1..l
          BY <4>2
        <5> QED
          BY <3>2, <3>5, <4>2, <5>1
      <4> QED
        BY <4>1, <4>2
    <3>7. g = [i \in 1..(w + l) |-> i]
      BY <3>5, <3>6
    <3> QED
      BY <3>1, <3>4, <3>7 DEF Numbers
  <2>5. (f \o <<>>) \o arr' = f \o arr'
    BY <1>4, <2>2
  <2> QED
    BY <1>0, <1>1, <1>3, <1>7, <2>1, <2>2, <2>4, <2>5 DEF Faithful
<1> QED
  BY <1>5, <1>6, <1>8, <1>9 DEF OutputInv

\* WriteBuf.
LEMMA WriteBufRight ==
  ASSUME OutputInv, WriteBuf
  PROVE  OutputInv'
<1>0. OutputType /\ Fits /\ Numbered /\ Faithful
  BY DEF OutputInv
<1>1. /\ step = "writeBuf" /\ cap' = (IF Len(arr) > Room(cap) /\ cap # MaxBuf THEN GrownCapacity(Len(arr)) ELSE cap)
      /\ UNCHANGED <<ending, compressSequenceNo, turn, first, written, sent>>
      /\ IF Len(arr) > Room(cap') THEN step' = "fill" /\ UNCHANGED <<buf, arr>>
         ELSE buf' = buf \o arr /\ arr' = <<>> /\ step' = "flush"
  BY DEF WriteBuf, sending
<1>2. buf = <<>> /\ Pos = 7 /\ Len(arr) <= MaxBlock + 4 /\ Len(arr) \in Nat /\ cap \in Nat /\ cap <= MaxBuf
  BY <1>0, <1>1, OutputConstants DEF Fits, OutputType, Pos
<1>3. /\ GrownCapacity(Len(arr)) \in Nat /\ GrownCapacity(Len(arr)) <= MaxBuf
      /\ GrownCapacity(Len(arr)) = MaxBuf \/ Len(arr) + Pos < GrownCapacity(Len(arr))
  BY <1>0, <1>2, GrownFits DEF OutputType
<1>4. cap' \in Nat /\ cap' <= MaxBuf /\ (Len(arr) > Room(cap') => cap' = MaxBuf)
  BY <1>1, <1>2, <1>3, OutputConstants DEF Room
<1>5. UNCHANGED Overlong
  BY <1>1 DEF Overlong
<1>6. Numbered'
  BY <1>0, <1>1, <1>5 DEF Numbered
<1>7. CASE Len(arr) > Room(cap')
  <2>1. Len(arr) > 0
    BY <1>2, <1>4, <1>7, OutputConstants DEF Room
  <2>2. OutputType'
    BY <1>0, <1>1, <1>4, <1>7 DEF OutputType
  <2>3. Fits'
    BY <1>0, <1>1, <1>2, <1>4, <1>7, <2>1 DEF Fits, OutputType
  <2>4. Faithful'
    BY <1>0, <1>1, <1>7, NothingSent DEF OutputType
  <2> QED
    BY <1>6, <2>2, <2>3, <2>4 DEF OutputInv
<1>8. CASE ~(Len(arr) > Room(cap'))
  <2>1. buf' = arr /\ arr' = <<>> /\ step' = "flush" /\ buf' \in Seq(Nat) /\ arr' \in Seq(Nat) /\ buf' \o arr' = buf \o arr
    BY <1>0, <1>1, <1>2, <1>8 DEF OutputType
  <2>2. OutputType'
    BY <1>0, <1>1, <1>4, <2>1 DEF OutputType
  <2>3. Fits'
    BY <1>0, <1>1, <1>2, <1>4, <1>8, <2>1, OutputConstants DEF Fits, Room
  <2>4. Faithful'
    BY <1>0, <1>1, <2>1, NothingSent
  <2> QED
    BY <1>6, <2>2, <2>3, <2>4 DEF OutputInv
<1> QED
  BY <1>7, <1>8

\* A sequence cut in two.
LEMMA CutInTwo ==
  ASSUME NEW s \in Seq(Nat), NEW n \in Nat, n <= Len(s)
  PROVE  /\ SubSeq(s, 1, n) \in Seq(Nat) /\ Len(SubSeq(s, 1, n)) = n
         /\ SubSeq(s, n + 1, Len(s)) \in Seq(Nat) /\ Len(SubSeq(s, n + 1, Len(s))) = Len(s) - n
         /\ SubSeq(s, 1, n) \o SubSeq(s, n + 1, Len(s)) = s
<1>1. Len(s) \in Nat /\ \A i \in 1..Len(s) : s[i] \in Nat
  OBVIOUS
<1>2. PICK a : a = SubSeq(s, 1, n)
  OBVIOUS
<1>3. PICK b : b = SubSeq(s, n + 1, Len(s))
  OBVIOUS
<1>4. a \in Seq(Nat) /\ Len(a) = n /\ \A i \in 1..n : a[i] = s[i]
  BY <1>1, <1>2
<1>5. b \in Seq(Nat) /\ Len(b) = Len(s) - n /\ \A i \in 1..(Len(s) - n) : b[i] = s[n + i]
  BY <1>1, <1>3
<1>6. PICK c : c = a \o b
  OBVIOUS
<1>7. c \in Seq(Nat) /\ Len(c) = Len(s) /\ \A i \in 1..Len(s) : c[i] = IF i <= n THEN a[i] ELSE b[i - n]
  BY <1>1, <1>4, <1>5, <1>6, ConcatProperties
<1>8. ASSUME NEW i \in 1..Len(s) PROVE c[i] = s[i]
  <2>1. CASE i <= n
    BY <1>1, <1>4, <1>7, <2>1
  <2>2. CASE ~(i <= n)
    <3>1. i - n \in 1..(Len(s) - n) /\ n + (i - n) = i
      BY <1>1, <2>2
    <3>2. c[i] = b[i - n] /\ b[i - n] = s[n + (i - n)]
      BY <1>5, <1>7, <2>2, <3>1
    <3> QED
      BY <3>1, <3>2
  <2> QED
    BY <2>1, <2>2
<1>9. c = s
  BY <1>7, <1>8, SeqEqual
<1> QED
  BY <1>2, <1>3, <1>4, <1>5, <1>6, <1>9

\* Fill.
LEMMA FillRight ==
  ASSUME OutputInv, Fill
  PROVE  OutputInv'
<1>0. OutputType /\ Fits /\ Numbered /\ Faithful
  BY DEF OutputInv
<1>1. PICK n : n = Smaller(MaxBuf - Pos, Len(arr))
  OBVIOUS
<1>2. /\ step = "fill" /\ buf' = buf \o SubSeq(arr, 1, Smaller(n, Room(cap))) /\ arr' = SubSeq(arr, n + 1, Len(arr))
      /\ step' = (IF arr' = <<>> THEN "flush" ELSE "stream")
      /\ UNCHANGED <<cap, ending, compressSequenceNo, turn, first, written, sent>>
  BY <1>1 DEF Fill, sending
<1>3. /\ buf = <<>> /\ Pos = 7 /\ Len(arr) <= MaxBlock + 4 /\ Len(arr) \in Nat /\ cap \in Nat /\ cap <= MaxBuf /\ arr \in Seq(Nat)
      /\ arr # <<>> /\ (cap = MaxBuf \/ Len(arr) + 7 <= cap)
  BY <1>0, <1>2, OutputConstants DEF Fits, OutputType, Pos
<1>4. n \in Nat /\ n <= Len(arr) /\ n <= MaxBlock /\ Smaller(n, Room(cap)) = n /\ Len(arr) - n <= 4
  BY <1>1, <1>3, OutputConstants DEF Smaller, Room
<1>5. /\ SubSeq(arr, 1, n) \in Seq(Nat) /\ Len(SubSeq(arr, 1, n)) = n
      /\ arr' \in Seq(Nat) /\ Len(arr') = Len(arr) - n /\ SubSeq(arr, 1, n) \o arr' = arr
  BY <1>2, <1>3, <1>4, CutInTwo
<1>6. buf' = SubSeq(arr, 1, n) /\ buf' \in Seq(Nat) /\ Len(buf') = n /\ buf' \o arr' = buf \o arr
  <2>1. \A s \in Seq(Nat) : <<>> \o s = s
    OBVIOUS
  <2> QED
    BY <1>2, <1>3, <1>4, <1>5, <2>1
<1>7. UNCHANGED Overlong
  BY <1>2 DEF Overlong
<1>8. OutputType'
  BY <1>0, <1>2, <1>5, <1>6 DEF OutputType
<1>9. Fits'
  BY <1>0, <1>2, <1>3, <1>4, <1>5, <1>6 DEF Fits
<1>10. Numbered'
  BY <1>0, <1>2, <1>7 DEF Numbered
<1>11. Faithful'
  BY <1>0, <1>2, <1>5, <1>6, NothingSent
<1> QED
  BY <1>8, <1>9, <1>10, <1>11 DEF OutputInv

-----------------------------------------------------------------------------
(***************************************************************************)
(* Sending a block, and the next packet.                                   *)
(***************************************************************************)
\* What is sent is a block that says what is in it, unless it has become too long, with the
\* next number; an empty block follows only what is too long.
LEMMA SendIs ==
  ASSUME OutputType, Fits, Flush
  PROVE  \E b \in BlockType, e \in BlockType :
           /\ b.body = buf /\ b.no = (compressSequenceNo + 1) % NumberMod /\ Inflated(b)
           /\ b.len <= MaxBlock => b.size = b.len
           /\ sent' = Append(sent, b) \/ (b.len > MaxBlock /\ sent' = Append(Append(sent, b), e))
<1>1. compressSequenceNo' = compressSequenceNo + 1 /\ compressSequenceNo' \in Nat /\ Send
  BY DEF Flush, OutputType
<1>2. MaxBlock \in Nat \ {0} /\ NumberMod \in Nat \ {0} /\ MaxBlock + 1 \in Nat \ {0} /\ MaxBuf > MaxBlock
  BY OutputConstants
<1>3. buf \in Seq(Nat) /\ Len(buf) \in Nat /\ Len(buf) <= MaxBlock
  BY DEF OutputType, Fits
<1>4. PICK no \in Nat : no = compressSequenceNo'
  BY <1>1
<1>5. ASSUME NEW len \in Nat, NEW plain \in Nat, plain <= MaxBlock, NEW body \in Seq(Nat), NEW b, b = Block(len, no, plain, body)
      PROVE  /\ b \in BlockType /\ b.body = body /\ b.no = no % NumberMod /\ b.plain = plain /\ b.len = len
             /\ b.len <= MaxBlock => b.size = b.len
  <2>1. PICK size \in Nat, n \in Nat, p \in Nat :
          size = len % (MaxBlock + 1) /\ n = no % NumberMod /\ p = plain % (MaxBlock + 1)
    BY <1>2, ModSmall
  <2>2. (len <= MaxBlock => size = len) /\ p = plain
    <3>1. (len < MaxBlock + 1 => size = len) /\ (plain < MaxBlock + 1 => p = plain)
      BY <1>2, <2>1, ModSmall
    <3> QED
      BY <1>2, <1>5, <3>1
  <2>3. b = [size |-> size, no |-> n, plain |-> p, len |-> len, body |-> body]
    BY <1>5, <2>1 DEF Block
  <2>4. b \in BlockType /\ b.body = body /\ b.no = n /\ b.plain = p /\ b.len = len /\ b.size = size
    BY <2>3 DEF BlockType
  <2> QED
    BY <2>1, <2>2, <2>4
<1>6. PICK e : e = EmptyBlock(no)
  OBVIOUS
<1>7. e \in BlockType
  <2>1. 0 \in Nat /\ 0 <= MaxBlock /\ <<>> \in Seq(Nat)
    BY <1>2
  <2> QED
    BY <1>5, <1>6, <2>1 DEF EmptyBlock
<1>8. CASE Pos < RawBelow
  <2>1. PICK b : b = RawBlock(no)
    OBVIOUS
  <2>2. 0 \in Nat /\ 0 <= MaxBlock
    BY <1>2
  <2>3. /\ b \in BlockType /\ b.body = buf /\ b.no = no % NumberMod /\ b.plain = 0
        /\ b.len <= MaxBlock => b.size = b.len
    BY <1>3, <1>5, <2>1, <2>2 DEF RawBlock
  <2>4. sent' = Append(sent, b)
    BY <1>1, <1>4, <1>8, <2>1 DEF Send
  <2>5. Inflated(b)
    BY <2>3 DEF Inflated
  <2> QED
    BY <1>1, <1>4, <1>7, <2>3, <2>4, <2>5
<1>9. CASE ~(Pos < RawBelow)
  <2>1. PICK len \in DeflatedLengths :
          sent' = sent \o <<DeflatedBlock(no, len)>> \o (IF step = "flush" /\ len = MaxBuf THEN <<EmptyBlock(no)>> ELSE <<>>)
    BY <1>1, <1>4, <1>9 DEF Send
  <2>2. len \in Nat
    <3>1. Len(buf) \div 2 \in Nat
      BY <1>3
    <3>2. \A n \in Growth : Len(buf) + n \in Nat
      BY <1>3, OutputConstants
    <3> QED
      BY <3>1, <3>2 DEF DeflatedLengths
  <2>3. PICK b : b = DeflatedBlock(no, len)
    OBVIOUS
  <2>4. /\ b \in BlockType /\ b.body = buf /\ b.no = no % NumberMod /\ b.plain = Len(buf) /\ b.len = len
        /\ b.len <= MaxBlock => b.size = b.len
    BY <1>3, <1>5, <2>2, <2>3 DEF DeflatedBlock
  <2>5. Inflated(b)
    BY <2>4 DEF Inflated
  <2>6. sent \in Seq(BlockType)
    BY DEF OutputType
  <2>7. \A s \in Seq(BlockType), x \in BlockType : s \o <<x>> = Append(s, x) /\ s \o <<>> = s /\ Append(s, x) \in Seq(BlockType)
    <3> HIDE DEF BlockType
    <3> QED
      OBVIOUS
  <2>8. CASE step = "flush" /\ len = MaxBuf
    <3>1. sent' = (sent \o <<b>>) \o <<e>>
      BY <1>6, <2>1, <2>3, <2>8
    <3>2. sent' = Append(Append(sent, b), e)
      BY <1>7, <2>4, <2>6, <2>7, <3>1
    <3>3. b.len > MaxBlock
      BY <1>2, <2>4, <2>8
    <3> QED
      BY <1>1, <1>4, <1>7, <2>4, <2>5, <3>2, <3>3
  <2>9. CASE ~(step = "flush" /\ len = MaxBuf)
    <3>1. sent' = (sent \o <<b>>) \o <<>>
      BY <2>1, <2>3, <2>9
    <3>2. sent' = Append(sent, b)
      BY <2>4, <2>6, <2>7, <3>1
    <3> QED
      BY <1>1, <1>4, <1>7, <2>4, <2>5, <3>2
  <2> QED
    BY <2>8, <2>9
<1> QED
  BY <1>8, <1>9

\* Flush.
LEMMA FlushRight ==
  ASSUME OutputInv, Flush
  PROVE  OutputInv'
<1>0. OutputType /\ Fits /\ Numbered /\ Faithful
  BY DEF OutputInv
<1>1. /\ step \in {"flush", "stream"} /\ compressSequenceNo' = compressSequenceNo + 1 /\ buf' = <<>>
      /\ cap' = AllocateBuffer(Len(arr)) /\ step' = (IF step = "stream" THEN "fill" ELSE "sent")
      /\ UNCHANGED <<arr, ending, turn, first, written>>
  BY DEF Flush, sending
<1>2. PICK b \in BlockType, e \in BlockType :
        /\ b.body = buf /\ b.no = (compressSequenceNo + 1) % NumberMod /\ Inflated(b)
        /\ b.len <= MaxBlock => b.size = b.len
        /\ sent' = Append(sent, b) \/ (b.len > MaxBlock /\ sent' = Append(Append(sent, b), e))
  BY <1>0, SendIs
<1>3. PICK s \in Seq(BlockType) : s = sent
  BY <1>0 DEF OutputType
<1>4. /\ Append(s, b) \in Seq(BlockType) /\ Len(Append(s, b)) = Len(s) + 1 /\ Len(s) \in Nat
      /\ Append(s, b)[Len(s) + 1] = b /\ \A i \in 1..Len(s) : Append(s, b)[i] = s[i]
  <2> HIDE DEF BlockType
  <2> QED
    OBVIOUS
<1>5. sent' \in Seq(BlockType) /\ sent' # <<>>
  <2>1. CASE sent' = Append(sent, b)
    BY <1>3, <1>4, <2>1
  <2>2. CASE sent' = Append(Append(sent, b), e)
    <3>1. PICK u \in Seq(BlockType) : u = Append(s, b)
      BY <1>4
    <3>2. Append(u, e) \in Seq(BlockType) /\ Append(u, e) # <<>>
      <4> HIDE DEF BlockType
      <4> QED
        OBVIOUS
    <3> QED
      BY <1>3, <2>2, <3>1, <3>2
  <2> QED
    BY <1>2, <2>1, <2>2
<1>6. turn = "client" /\ compressSequenceNo \in Int /\ compressSequenceNo >= -1 /\ turn' = "client"
  BY <1>0, <1>1 DEF Numbered, OutputType
<1>7. ASSUME ~Overlong' PROVE sent' = Append(s, b) /\ b.len <= MaxBlock /\ ~Overlong
  <2>1. b.len \in Nat /\ MaxBlock \in Nat
    BY OutputConstants DEF BlockType
  <2>2. CASE sent' = Append(Append(sent, b), e) /\ b.len > MaxBlock
    <3>1. PICK u \in Seq(BlockType) : u = Append(s, b) /\ Len(u) = Len(s) + 1 /\ u[Len(s) + 1] = b
      BY <1>4
    <3>2. Len(Append(u, e)) = Len(s) + 2 /\ Append(u, e)[Len(s) + 1] = b
      <4> HIDE DEF BlockType
      <4> QED
        BY <1>4, <3>1
    <3>3. Len(s) + 1 \in DOMAIN sent' /\ sent'[Len(s) + 1].len > MaxBlock
      <4>1. sent' = Append(u, e)
        BY <1>3, <2>2, <3>1
      <4> QED
        BY <1>4, <1>5, <2>2, <3>2, <4>1
    <3> QED
      BY <1>7, <3>3 DEF Overlong
  <2>3. CASE sent' = Append(sent, b)
    <3>1. sent' = Append(s, b) /\ DOMAIN sent' = 1..(Len(s) + 1)
      BY <1>3, <1>4, <2>3
    <3>2. \A i \in 1..(Len(s) + 1) : ~(sent'[i].len > MaxBlock)
      BY <1>7, <3>1 DEF Overlong
    <3>3. ~(b.len > MaxBlock)
      <4>1. Len(s) + 1 \in 1..(Len(s) + 1)
        BY <1>4
      <4> QED
        BY <1>4, <3>1, <3>2, <4>1
    <3>4. \A i \in DOMAIN sent : ~(sent[i].len > MaxBlock)
      BY <1>3, <1>4, <3>1, <3>2
    <3> QED
      BY <2>1, <3>1, <3>3, <3>4 DEF Overlong
  <2> QED
    BY <1>2, <2>2, <2>3
<1>8. Len(arr) \in Nat /\ Len(arr) <= 4 /\ cap' = Small /\ (step = "stream" => arr # <<>>) /\ (step = "flush" => arr = <<>>)
  <2>1. Len(arr) \in Nat /\ Len(arr) <= 4 /\ (step = "stream" => arr # <<>>) /\ (step = "flush" => arr = <<>>)
    BY <1>0, <1>1 DEF Fits, OutputType
  <2> QED
    BY <1>1, <2>1, AllocatedFits
<1>9. OutputType'
  <2>1. cap' \in Nat /\ buf' \in Seq(Nat)
    BY <1>1, <1>8, OutputConstants
  <2> QED
    BY <1>0, <1>1, <1>5, <1>6, <2>1 DEF OutputType
<1>10. Fits'
  <2>1. Len(buf') = 0 /\ MaxBlock \in Nat
    BY <1>1, OutputConstants
  <2> QED
    BY <1>1, <1>8, <2>1, OutputConstants DEF Fits
<1>11. Numbered'
  <2>1. ASSUME ~Overlong' PROVE compressSequenceNo' + 1 \in {first' + Len(sent'), first' + Len(sent') + NumberMod'}
    <3>1. sent' = Append(s, b) /\ Len(sent') = Len(sent) + 1 /\ Len(sent) \in Nat
      BY <1>3, <1>4, <1>7, <2>1
    <3>2. compressSequenceNo + 1 \in {first + Len(sent), first + Len(sent) + NumberMod}
      BY <1>0, <1>6, <1>7, <2>1 DEF Numbered
    <3>3. first \in Nat /\ NumberMod \in Nat
      BY <1>0, OutputConstants DEF OutputType
    <3> QED
      BY <1>1, <1>6, <3>1, <3>2, <3>3
  <2> QED
    BY <1>1, <1>5, <1>6, <2>1 DEF Numbered
<1>12. Faithful'
  <2> SUFFICES ASSUME ~Overlong'
               PROVE  (\A i \in DOMAIN sent' : BlockRight(i)') /\ (Inflation' \o buf') \o arr' = Numbers(written')
    BY DEF Faithful, Numbers
  <2>1. sent' = Append(s, b) /\ b.len <= MaxBlock /\ ~Overlong
    BY <1>7
  <2>2. (\A i \in DOMAIN sent : BlockRight(i)) /\ (Inflation \o buf) \o arr = Numbers(written)
    BY <1>0, <2>1 DEF Faithful
  <2>3. DOMAIN sent' = 1..(Len(s) + 1) /\ DOMAIN sent = 1..Len(s)
    BY <1>3, <1>4, <2>1
  <2>4. ASSUME NEW i \in 1..Len(s) PROVE BlockRight(i)'
    <3>1. sent'[i] = sent[i] /\ BlockRight(i)
      BY <1>3, <1>4, <2>1, <2>2, <2>3
    <3> QED
      BY <1>1, <3>1 DEF BlockRight, Inflated
  <2>5. PICK n : n = Len(s) + 1
    OBVIOUS
  <2>6. BlockRight(n)'
    <3>1. sent'[n] = b /\ b.size = b.len
      BY <1>2, <1>4, <2>1, <2>5
    <3>2. b.no = (first + n - 1) % NumberMod
      <4>1. PICK a \in Nat : a = first + Len(s)
        BY <1>0, <1>4 DEF OutputType
      <4>2. compressSequenceNo + 1 \in {a, a + NumberMod}
        BY <1>0, <1>3, <1>6, <2>1, <4>1 DEF Numbered
      <4>3. (a + NumberMod) % NumberMod = a % NumberMod
        BY OutputConstants, ModAdd
      <4>4. first + n - 1 = a
        BY <1>0, <1>4, <2>5, <4>1 DEF OutputType
      <4> QED
        BY <1>2, <4>2, <4>3, <4>4
    <3> QED
      BY <1>1, <1>2, <3>1, <3>2 DEF BlockRight, Inflated
  <2>7. \A i \in DOMAIN sent' : BlockRight(i)'
    BY <1>4, <2>3, <2>4, <2>5, <2>6
  <2>8. PICK f \in Seq(Nat), u \in Seq(Nat) : f = Inflation /\ u = buf
    BY <1>0, InflationIs DEF OutputType
  <2>9. Inflation' = f \o u
    <3>1. FlattenSeq(Bodies(Append(s, b))) = FlattenSeq(Bodies(s)) \o b.body
      BY InflationAppend
    <3> QED
      BY <1>0, <1>2, <1>3, <2>1, <2>8, <3>1, InflationIs DEF OutputType
  <2>10. (f \o u) \o <<>> = f \o u
    BY <2>8
  <2> QED
    BY <1>1, <2>2, <2>7, <2>8, <2>9, <2>10 DEF Numbers
<1> QED
  BY <1>9, <1>10, <1>11, <1>12 DEF OutputInv

\* FrameSent.
LEMMA FrameSentRight ==
  ASSUME OutputInv, FrameSent
  PROVE  OutputInv'
<1>0. OutputType /\ Fits /\ Numbered /\ Faithful
  BY DEF OutputInv
<1>1. /\ step = "sent" /\ step' = "idle" /\ turn' = (IF ending = "more" THEN "client" ELSE "server")
      /\ compressSequenceNo' = (IF ending = "flush" THEN -1 ELSE compressSequenceNo)
      /\ UNCHANGED <<buf, cap, arr, ending, first, written, sent>>
  BY DEF FrameSent, output
<1>2. turn = "client" /\ sent # <<>>
  BY <1>0, <1>1 DEF Numbered, OutputType
<1>3. OutputType'
  BY <1>0, <1>1 DEF OutputType
<1>4. Fits'
  BY <1>0, <1>1 DEF Fits
<1>5. Numbered'
  <2>1. UNCHANGED Overlong
    BY <1>1 DEF Overlong
  <2> QED
    BY <1>0, <1>1, <1>2, <2>1 DEF Numbered
<1>6. Faithful'
  BY <1>0, <1>1, NothingSent DEF OutputType
<1> QED
  BY <1>3, <1>4, <1>5, <1>6 DEF OutputInv

\* NewCommand, SamePackets and GoOnNumbered.
LEMMA NextPacketRight ==
  ASSUME OutputInv, \/ NewCommand \/ SamePackets \/ GoOnNumbered
  PROVE  OutputInv'
<1>0. OutputType /\ Fits /\ Numbered /\ Faithful
  BY DEF OutputInv
<1>1. PICK no, expected : /\ NextPacket(no, expected) /\ no \in Int /\ no >= -1 /\ expected \in Nat
                          /\ no + 1 \in {expected, expected + NumberMod}
  <2>1. CASE NewCommand
    <3>1. -1 \in Int /\ -1 >= -1 /\ 0 \in Nat /\ -1 + 1 = 0
      OBVIOUS
    <3> QED
      BY <2>1, <3>1 DEF NewCommand
  <2>2. CASE SamePackets
    <3>1. compressSequenceNo = -1
      BY <1>0, <2>2 DEF SamePackets, NextPacket, Numbered
    <3>2. -1 \in Int /\ -1 >= -1 /\ 0 \in Nat /\ -1 + 1 = 0
      OBVIOUS
    <3> QED
      BY <2>2, <3>1, <3>2 DEF SamePackets
  <2>3. CASE GoOnNumbered
    <3>1. sent \in Seq(BlockType) /\ sent # <<>>
      BY <1>0, <2>3 DEF GoOnNumbered, NextPacket, Numbered, OutputType
    <3>2. PICK b \in BlockType : b = Last(sent)
      <4>1. sent[Len(sent)] \in BlockType
        <5> HIDE DEF BlockType
        <5> QED
          BY <3>1
      <4> QED
        BY <4>1 DEF Last
    <3>3. PICK a \in Nat : a = b.no + 1
      BY DEF BlockType
    <3>4. (a % NumberMod) + 1 \in {(a + 1) % NumberMod, ((a + 1) % NumberMod) + NumberMod}
          /\ a % NumberMod \in Nat /\ (a + 1) % NumberMod \in Nat
      BY OutputConstants, ModNext
    <3>5. b.no + 2 = a + 1
      BY <3>3 DEF BlockType
    <3>6. PICK m \in Nat, n \in Nat : m = a % NumberMod /\ n = (a + 1) % NumberMod
      BY <3>4
    <3>7. NextPacket(m, n)
      BY <2>3, <3>2, <3>3, <3>5, <3>6 DEF GoOnNumbered
    <3>8. m + 1 \in {n, n + NumberMod} /\ m >= -1 /\ m \in Int
      BY <3>4, <3>6
    <3> QED
      BY <3>7, <3>8
  <2> QED
    BY <2>1, <2>2, <2>3
<1>2. /\ step = "idle" /\ turn' = "client" /\ compressSequenceNo' = no /\ first' = expected
      /\ sent' = <<>> /\ written' = 0 /\ UNCHANGED <<buf, cap, arr, step, ending>>
  BY <1>1 DEF NextPacket, output
<1>3. buf = <<>> /\ arr = <<>> /\ Len(sent') = 0 /\ <<>> \in Seq(BlockType)
  BY <1>0, <1>2 DEF Fits
<1>4. OutputType'
  BY <1>0, <1>1, <1>2, <1>3 DEF OutputType
<1>5. Fits'
  BY <1>0, <1>2 DEF Fits
<1>6. Numbered'
  <2>1. expected + 0 = expected /\ NumberMod \in Nat
    BY <1>1, OutputConstants
  <2> QED
    BY <1>1, <1>2, <1>3, <2>1 DEF Numbered
<1>7. Faithful'
  <2>1. Inflation' = <<>>
    <3>1. Bodies(<<>>) = <<>>
      BY DEF Bodies
    <3> QED
      BY <1>0, <1>2, <3>1, InflationIs, FlattenNone DEF OutputType
  <2>2. Numbers(0) = <<>> /\ (<<>> \o <<>>) \o <<>> = <<>>
    BY DEF Numbers
  <2>3. Numbers(written)' = Numbers(0)
    BY <1>2 DEF Numbers
  <2>4. DOMAIN sent' = {}
    BY <1>2
  <2> QED
    BY <1>2, <1>3, <2>1, <2>2, <2>3, <2>4 DEF Faithful
<1> QED
  BY <1>4, <1>5, <1>6, <1>7 DEF OutputInv

-----------------------------------------------------------------------------
(***************************************************************************)
(* The invariant, and what it is for.                                      *)
(***************************************************************************)
\* Nothing is written at first.
LEMMA OutputStart == OutputInit => OutputInv
<1> SUFFICES ASSUME OutputInit PROVE OutputInv
  OBVIOUS
<1>1. /\ buf = <<>> /\ cap = Small /\ arr = <<>> /\ step = "idle" /\ ending = "more"
      /\ compressSequenceNo = -1 /\ turn = "client" /\ first = 0 /\ sent = <<>> /\ written = 0
  BY DEF OutputInit
<1>2. <<>> \in Seq(Nat) /\ <<>> \in Seq(BlockType) /\ Len(buf) = 0 /\ Len(sent) = 0
  BY <1>1
<1>3. OutputType
  BY <1>1, <1>2, OutputConstants DEF OutputType
<1>4. Fits
  BY <1>1, <1>2, OutputConstants DEF Fits
<1>5. Numbered
  BY <1>1, <1>2, OutputConstants DEF Numbered
<1>6. Faithful
  <2>1. Inflation = <<>>
    <3>1. Bodies(<<>>) = <<>>
      BY DEF Bodies
    <3> QED
      BY <1>1, <1>3, <3>1, InflationIs, FlattenNone DEF OutputType
  <2>2. Numbers(0) = <<>> /\ (<<>> \o <<>>) \o <<>> = <<>> /\ DOMAIN sent = {}
    BY <1>1 DEF Numbers
  <2> QED
    BY <1>1, <2>1, <2>2 DEF Faithful
<1> QED
  BY <1>3, <1>4, <1>5, <1>6 DEF OutputInv

\* Every step of the output keeps what is sent right.
LEMMA OutputStep == OutputInv /\ [OutputNext]_outputVars => OutputInv'
<1> SUFFICES ASSUME OutputInv, [OutputNext]_outputVars PROVE OutputInv'
  OBVIOUS
<1>1. CASE \E len \in FrameLens, kind \in {"more", "flush", "flushPacket"} : FlushBufferBasic(len, kind)
  BY <1>1, FlushBufferBasicRight
<1>2. CASE WriteBuf \/ Fill \/ Flush \/ FrameSent
  BY <1>2, WriteBufRight, FillRight, FlushRight, FrameSentRight
<1>3. CASE NewCommand \/ SamePackets \/ GoOnNumbered
  BY <1>3, NextPacketRight
<1>4. CASE UNCHANGED outputVars
  <2>1. UNCHANGED <<buf, cap, arr, step, ending, compressSequenceNo, turn, first, sent, written>>
    BY <1>4 DEF outputVars, output, sending
  <2>2. OutputType /\ Fits /\ Numbered /\ Faithful
    BY DEF OutputInv
  <2>3. OutputType' /\ Fits'
    BY <2>1, <2>2 DEF OutputType, Fits
  <2>4. Numbered'
    BY <2>1, <2>2 DEF Numbered, Overlong
  <2>5. Faithful'
    BY <2>1, <2>2, NothingSent DEF OutputType
  <2> QED
    BY <2>3, <2>4, <2>5 DEF OutputInv
<1> QED
  BY <1>1, <1>2, <1>3, <1>4 DEF OutputNext

\* The invariant holds whatever is written, in frames of whatever sizes.
THEOREM AlwaysOutput == OutputSpec => []OutputInv
BY OutputStart, OutputStep, PTL DEF OutputSpec

\* Unless zlib makes a block longer than its header can say, the server inflates what was
\* written, from blocks numbered as it expects, and nothing is left in the buffer when a frame
\* is written: writeBuf() and flush() with buffers of all sizes.
THEOREM OutputBlocksRight == OutputSpec => []BlocksRight
<1>1. OutputInv => BlocksRight
  BY DEF OutputInv, Faithful, BlockRight, Fits, Numbers, BlocksRight
<1> QED
  BY <1>1, AlwaysOutput, PTL

-----------------------------------------------------------------------------
(***************************************************************************)
(* The bytes of the server's packets: where each frame begins, and what is *)
(* found there.                                                            *)
(***************************************************************************)
\* The bytes of a packet before its frame f, how many that one has, and where it begins.
Before(f) == (f - 1) * MaxLen
FrameCount(p) == (packets[p] \div MaxLen) + 1
FrameLen(p, f) == IF packets[p] - Before(f) < MaxLen THEN packets[p] - Before(f) ELSE MaxLen
FrameAt(p, f) == UpTo(p - 1) + Before(f) + 4 * (f - 1)

\* Division leaves one quotient.
LEMMA DivUnique ==
  ASSUME NEW a \in Nat, NEW b \in Nat \ {0}, NEW q \in Int, NEW r \in Int, a = b * q + r, 0 <= r, r < b
  PROVE  a \div b = q
<1>1. PICK u \in Int, v \in Int : u = a \div b /\ a = b * u + v /\ 0 <= v /\ v < b
  OBVIOUS
<1>2. PICK d \in Int : d = q - u
  OBVIOUS
<1>3. b * d = v - r
  <2>1. b * d = b * q - b * u
    BY <1>2
  <2> QED
    BY <1>1, <2>1
<1>4. d = 0
  <2>1. ASSUME d >= 1 PROVE b * d >= b
    BY <2>1
  <2>2. ASSUME d <= -1 PROVE b * d <= -b
    BY <2>2
  <2> QED
    BY <1>1, <1>2, <1>3, <2>1, <2>2
<1> QED
  BY <1>1, <1>2, <1>4

\* The constants.
LEMMA ReaderConstants ==
  Base \in Nat /\ Base >= 2 /\ MaxLen \in Nat \ {0} /\ PacketLens \subseteq Nat \ {0} /\ MaxPackets \in Nat \ {0}
<1>1. Base \in Nat /\ Base >= 2 /\ PacketLens \subseteq Nat \ {0} /\ MaxPackets \in Nat \ {0}
  BY PacketInputAssumption
<1>2. PICK b \in Nat : b = Base * Base
  BY <1>1
<1>3. b >= 2
  BY <1>1, <1>2
<1>4. b * Base \in Nat /\ b * Base >= 2
  BY <1>1, <1>3
<1> QED
  BY <1>1, <1>2, <1>4 DEF MaxLen

\* The length in a header is the one that was written there.
LEMMA LengthRead ==
  ASSUME NEW len \in Nat
  PROVE  /\ len % Base \in Nat /\ (len \div Base) % Base \in Nat /\ len \div (Base * Base) \in Nat
         /\ (len % Base) + ((len \div Base) % Base) * Base + (len \div (Base * Base)) * Base * Base = len
<1>0. PICK b \in Nat \ {0} : b = Base
  BY ReaderConstants
<1>1. PICK q \in Nat, r \in Nat : q = len \div b /\ r = len % b /\ len = b * q + r /\ r < b
  OBVIOUS
<1>2. PICK u \in Nat, v \in Nat : u = q \div b /\ v = q % b /\ q = b * u + v /\ v < b
  OBVIOUS
<1>3. PICK c \in Nat \ {0} : c = b * b
  OBVIOUS
<1>4. PICK w \in Nat : w = b * v
  OBVIOUS
<1>5. b * q = c * u + w
  <2>1. b * (b * u) = c * u
    BY <1>3
  <2> QED
    BY <1>2, <1>4, <2>1
<1>6. w <= c - b
  <2>1. v <= b - 1
    BY <1>2
  <2>2. b * v <= b * (b - 1)
    BY <2>1
  <2>3. b * (b - 1) = c - b
    BY <1>3
  <2> QED
    BY <1>4, <2>2, <2>3
<1>7. PICK z \in Nat : z = w + r
  OBVIOUS
<1>8. len = c * u + z /\ 0 <= z /\ z < c
  BY <1>1, <1>5, <1>6, <1>7
<1>9. len \div c = u
  BY <1>8, DivUnique
<1>10. r + v * b + u * b * b = len
  <2>1. u * b * b = c * u
    BY <1>3
  <2>2. v * b = w
    BY <1>4
  <2> QED
    BY <1>1, <1>5, <2>1, <2>2
<1> QED
  BY <1>0, <1>1, <1>2, <1>3, <1>9, <1>10

\* The frames before the last are full, and the last one is not.
LEMMA FramesFit ==
  ASSUME packets \in Seq(Nat \ {0}), NEW p \in DOMAIN packets
  PROVE  /\ FrameCount(p) \in Nat \ {0} /\ Before(1) = 0
         /\ \A f \in 1..FrameCount(p) :
              /\ Before(f) \in Nat /\ FrameLen(p, f) \in 0..MaxLen /\ Before(f) + FrameLen(p, f) <= packets[p]
              /\ f < FrameCount(p) => FrameLen(p, f) = MaxLen /\ Before(f + 1) = Before(f) + MaxLen
              /\ f = FrameCount(p) => FrameLen(p, f) < MaxLen /\ Before(f) + FrameLen(p, f) = packets[p]
              /\ f > 1 => Before(f) >= MaxLen
<1>0. packets[p] \in Nat \ {0} /\ MaxLen \in Nat \ {0}
  BY ReaderConstants
<1>1. PICK m \in Nat \ {0}, n \in Nat \ {0} : m = MaxLen /\ n = packets[p]
  BY <1>0
<1>2. PICK q \in Nat, r \in Nat : q = n \div m /\ n = m * q + r /\ r < m
  OBVIOUS
<1>3. FrameCount(p) = q + 1
  BY <1>1, <1>2 DEF FrameCount
<1>4. Before(1) = 0
  BY <1>1 DEF Before
<1>5. ASSUME NEW f \in 1..q + 1
      PROVE  /\ Before(f) \in Nat /\ FrameLen(p, f) \in 0..m /\ Before(f) + FrameLen(p, f) <= n
             /\ f < q + 1 => FrameLen(p, f) = m /\ Before(f + 1) = Before(f) + m
             /\ f = q + 1 => FrameLen(p, f) < m /\ Before(f) + FrameLen(p, f) = n
             /\ f > 1 => Before(f) >= m
  <2>1. PICK g \in Nat : g = f - 1 /\ g <= q
    BY <1>2
  <2>2. PICK b \in Nat : b = m * g
    OBVIOUS
  <2>3. Before(f) = b
    BY <1>1, <2>1, <2>2 DEF Before
  <2>4. f < q + 1 => b + m <= m * q
    <3> SUFFICES ASSUME f < q + 1 PROVE b + m <= m * q
      OBVIOUS
    <3>1. PICK d \in Nat : d = q - (g + 1)
      BY <2>1
    <3>2. m * q = m * g + m + m * d
      BY <3>1
    <3>3. m * d \in Nat
      OBVIOUS
    <3> QED
      BY <2>2, <3>2, <3>3
  <2>5. f = q + 1 => b = m * q
    BY <2>1, <2>2
  <2>6. Before(f + 1) = b + m
    <3>1. (f + 1) - 1 = g + 1 /\ m * (g + 1) = m * g + m
      BY <2>1
    <3>2. Before(f + 1) = m * (g + 1)
      BY <1>1, <3>1 DEF Before
    <3> QED
      BY <2>2, <3>1, <3>2
  <2>7. f > 1 => b >= m
    <3> SUFFICES ASSUME f > 1 PROVE b >= m
      OBVIOUS
    <3>1. PICK d \in Nat : d = g - 1
      BY <2>1
    <3>2. m * g = m + m * d /\ m * d \in Nat
      BY <3>1
    <3> QED
      BY <2>2, <3>2
  <2>8. FrameLen(p, f) = IF n - b < m THEN n - b ELSE m
    BY <1>1, <2>3 DEF FrameLen
  <2>9. m * q \in Nat /\ n = m * q + r
    BY <1>2
  <2>10. CASE f < q + 1
    BY <1>2, <2>3, <2>4, <2>6, <2>7, <2>8, <2>9, <2>10
  <2>11. CASE f = q + 1
    BY <1>2, <2>3, <2>5, <2>7, <2>8, <2>9, <2>11
  <2> QED
    BY <2>10, <2>11
<1>6. ASSUME NEW f \in 1..FrameCount(p)
      PROVE  /\ Before(f) \in Nat /\ FrameLen(p, f) \in 0..MaxLen /\ Before(f) + FrameLen(p, f) <= packets[p]
             /\ f < FrameCount(p) => FrameLen(p, f) = MaxLen /\ Before(f + 1) = Before(f) + MaxLen
             /\ f = FrameCount(p) => FrameLen(p, f) < MaxLen /\ Before(f) + FrameLen(p, f) = packets[p]
             /\ f > 1 => Before(f) >= MaxLen
  <2>1. f \in 1..q + 1
    BY <1>3
  <2> QED
    BY <1>1, <1>3, <1>5, <2>1
<1>7. FrameCount(p) \in Nat \ {0}
  BY <1>2, <1>3
<1> QED
  BY <1>4, <1>6, <1>7

\* A part of a sequence.
LEMMA PartOf ==
  ASSUME NEW S, NEW w \in Seq(S), NEW a \in Nat, NEW l \in Nat, a + l <= Len(w), NEW y, y = SubSeq(w, a + 1, a + l)
  PROVE  y \in Seq(S) /\ Len(y) = l /\ \A j \in 1..l : y[j] = w[a + j]
<1>1. y = [j \in 1..l |-> w[a + j]]
  OBVIOUS
<1>2. \A j \in 1..l : a + j \in 1..Len(w) /\ w[a + j] \in S
  OBVIOUS
<1> QED
  BY <1>1, <1>2

\* Two sequences, one behind the other.
LEMMA JoinOf ==
  ASSUME NEW S, NEW h \in Seq(S), NEW y \in Seq(S), NEW w, w = h \o y
  PROVE  /\ w \in Seq(S) /\ Len(w) = Len(h) + Len(y) /\ \A j \in 1..Len(h) : w[j] = h[j]
         /\ \A j \in 1..Len(y) : w[Len(h) + j] = y[j]
OBVIOUS

\* The bytes of a frame.
LEMMA FrameBytes ==
  ASSUME packets \in Seq(Nat \ {0}), NEW p \in DOMAIN packets, NEW f \in 1..FrameCount(p)
  PROVE  /\ FramesOf(p)[f] \in Seq(Nat) /\ Len(FramesOf(p)[f]) = 4 + FrameLen(p, f)
         /\ FramesOf(p)[f][1] + FramesOf(p)[f][2] * Base + FramesOf(p)[f][3] * Base * Base = FrameLen(p, f)
         /\ FramesOf(p)[f][4] = f
         /\ \A j \in 1..FrameLen(p, f) : FramesOf(p)[f][4 + j] = 100 * p + Before(f) + j
<1>1. PICK l \in Nat, b \in Nat, n \in Nat : l = FrameLen(p, f) /\ b = Before(f) /\ n = packets[p] /\ b + l <= n
  BY FramesFit
<1>2. PICK h : h = HeaderOf(l, f)
  OBVIOUS
<1>3. h \in Seq(Nat) /\ Len(h) = 4 /\ h[1] + h[2] * Base + h[3] * Base * Base = l /\ h[4] = f
  <2>1. /\ l % Base \in Nat /\ (l \div Base) % Base \in Nat /\ l \div (Base * Base) \in Nat
        /\ (l % Base) + ((l \div Base) % Base) * Base + (l \div (Base * Base)) * Base * Base = l
    BY LengthRead
  <2>2. PICK x \in Nat, y \in Nat, z \in Nat :
          /\ x = l % Base /\ y = (l \div Base) % Base /\ z = l \div (Base * Base)
          /\ x + y * Base + z * Base * Base = l
    BY <2>1
  <2>3. h = <<x, y, z, f>>
    BY <1>2, <2>2 DEF HeaderOf
  <2>4. h[1] = x /\ h[2] = y /\ h[3] = z /\ h[4] = f /\ Len(h) = 4 /\ h \in Seq(Nat)
    BY <2>3
  <2> QED
    BY <2>2, <2>4
<1>4. PICK y : y = SubSeq(PayloadOf(p), b + 1, b + l)
  OBVIOUS
<1>5. y \in Seq(Nat) /\ Len(y) = l /\ \A j \in 1..l : y[j] = 100 * p + b + j
  <2>1. PICK w : w = PayloadOf(p)
    OBVIOUS
  <2>2. w = [i \in 1..n |-> 100 * p + i] /\ p \in Nat
    BY <1>1, <2>1 DEF PayloadOf
  <2>3. w \in Seq(Nat) /\ Len(w) = n /\ \A i \in 1..n : w[i] = 100 * p + i
    BY <2>2
  <2>4. y = SubSeq(w, b + 1, b + l)
    BY <1>4, <2>1
  <2>5. y \in Seq(Nat) /\ Len(y) = l /\ \A j \in 1..l : y[j] = w[b + j]
    <3>1. w \in Seq(Nat)
      BY <2>3
    <3>2. b + l <= Len(w)
      BY <1>1, <2>3
    <3>3. b \in Nat /\ l \in Nat
      BY <1>1
    <3>4. y = [j \in 1..l |-> w[b + j]]
      BY ONLY <2>4, <3>1, <3>2, <3>3
    <3>5. \A j \in 1..l : w[b + j] \in Nat
      BY ONLY <3>1, <3>2, <3>3
    <3> QED
      BY ONLY <3>3, <3>4, <3>5
  <2>6. ASSUME NEW j \in 1..l PROVE y[j] = 100 * p + b + j
    <3>1. y[j] = w[b + j]
      BY <2>5
    <3>2. b + j \in 1..n
      BY <1>1
    <3> QED
      BY <2>2, <2>3, <3>1, <3>2
  <2> QED
    BY <2>5, <2>6
<1>6. FramesOf(p)[f] = h \o y
  BY <1>1, <1>2, <1>4 DEF FramesOf, FrameCount, FrameLen, Before
<1>7. PICK w : w = h \o y
  OBVIOUS
<1>8. /\ w \in Seq(Nat) /\ Len(w) = 4 + l /\ w[1] = h[1] /\ w[2] = h[2] /\ w[3] = h[3] /\ w[4] = h[4]
      /\ \A j \in 1..l : w[4 + j] = y[j]
  <2>1. /\ w \in Seq(Nat) /\ Len(w) = Len(h) + Len(y) /\ \A j \in 1..Len(h) : w[j] = h[j]
        /\ \A j \in 1..Len(y) : w[Len(h) + j] = y[j]
    <3>1. h \in Seq(Nat)
      BY <1>3
    <3>2. y \in Seq(Nat)
      BY <1>5
    <3> QED
      BY ONLY <1>7, <3>1, <3>2
  <2> QED
    BY <1>3, <1>5, <2>1
<1>9. FramesOf(p)[f] = w
  BY <1>6, <1>7
<1>10. w[1] + w[2] * Base + w[3] * Base * Base = l
  BY <1>3, <1>8
<1>11. \A j \in 1..l : w[4 + j] = 100 * p + b + j
  BY <1>5, <1>8
<1> QED
  BY <1>1, <1>3, <1>8, <1>9, <1>10, <1>11

\* The four numbers of the header of a frame and the bytes behind it, from place o of w on.
FrameThere(w, o, p, f) ==
  /\ o + 4 + FrameLen(p, f) <= Len(w)
  /\ w[o + 1] + w[o + 2] * Base + w[o + 3] * Base * Base = FrameLen(p, f)
  /\ w[o + 4] = f
  /\ \A j \in 1..FrameLen(p, f) : w[o + 4 + j] = 100 * p + Before(f) + j

\* Where the frames of a packet are.
LEMMA PacketBytes ==
  ASSUME packets \in Seq(Nat \ {0}), NEW p \in DOMAIN packets
  PROVE  /\ BytesOf(p) \in Seq(Nat)
         /\ \A f \in 1..FrameCount(p) :
              /\ FrameThere(BytesOf(p), Before(f) + 4 * (f - 1), p, f)
              /\ f = FrameCount(p) => Len(BytesOf(p)) = Before(f) + 4 * (f - 1) + 4 + FrameLen(p, f)
<1>1. PICK n \in Nat \ {0} : n = FrameCount(p)
  <2>1. FrameCount(p) \in Nat \ {0}
    BY FramesFit
  <2> QED
    BY <2>1
<1>2. PICK ss : ss = FramesOf(p)
  OBVIOUS
<1>3. /\ \A f \in 1..n : ss[f] \in Seq(Nat) /\ Len(ss[f]) = 4 + FrameLen(p, f)
      /\ \A f \in 1..n : ss[f][1] + ss[f][2] * Base + ss[f][3] * Base * Base = FrameLen(p, f) /\ ss[f][4] = f
      /\ \A f \in 1..n : \A j \in 1..FrameLen(p, f) : ss[f][4 + j] = 100 * p + Before(f) + j
  <2>1. ASSUME NEW f \in 1..n
        PROVE  /\ ss[f] \in Seq(Nat) /\ Len(ss[f]) = 4 + FrameLen(p, f)
               /\ ss[f][1] + ss[f][2] * Base + ss[f][3] * Base * Base = FrameLen(p, f) /\ ss[f][4] = f
               /\ \A j \in 1..FrameLen(p, f) : ss[f][4 + j] = 100 * p + Before(f) + j
    <3>1. f \in 1..FrameCount(p)
      BY <1>1
    <3>2. /\ FramesOf(p)[f] \in Seq(Nat) /\ Len(FramesOf(p)[f]) = 4 + FrameLen(p, f)
          /\ FramesOf(p)[f][1] + FramesOf(p)[f][2] * Base + FramesOf(p)[f][3] * Base * Base = FrameLen(p, f)
          /\ FramesOf(p)[f][4] = f
          /\ \A j \in 1..FrameLen(p, f) : FramesOf(p)[f][4 + j] = 100 * p + Before(f) + j
      BY <3>1, FrameBytes, Zenon
    <3> QED
      BY <1>2, <3>2, Zenon
  <2> QED
    BY <2>1
<1>4. ss = [f \in 1..n |-> ss[f]]
  BY <1>1, <1>2 DEF FramesOf, FrameCount
<1>5. ss \in Seq(Seq(Nat)) /\ Len(ss) = n
  <2>1. \A f \in 1..n : ss[f] \in Seq(Nat)
    BY <1>3
  <2>2. PICK B : B = Seq(Nat)
    OBVIOUS
  <2>3. ss \in [1..n -> B]
    BY <1>4, <2>1, <2>2
  <2>4. ss \in Seq(B) /\ Len(ss) = n
    BY <2>3
  <2> QED
    BY <2>2, <2>4
<1>6. PICK w : w = FlattenSeq(ss)
  OBVIOUS
<1>7. w \in Seq(Nat) /\ \E e : Placed(ss, e)
  BY <1>5, <1>6, FlattenPlaced
<1>8. PICK e : Placed(ss, e)
  BY <1>7
<1>9. /\ e[0] = 0 /\ \A i \in 0..n : e[i] \in Nat /\ e[i] <= e[n]
      /\ \A i \in 1..n : e[i] = e[i - 1] + Len(ss[i])
  BY <1>5, <1>8 DEF Placed, EndsAt
<1>10. Len(w) = e[n] /\ \A i \in 1..n : \A j \in 1..Len(ss[i]) : w[e[i - 1] + j] = ss[i][j]
  BY <1>5, <1>6, <1>8 DEF Placed
<1>11. /\ Before(1) = 0
       /\ \A f \in 1..n : Before(f) \in Nat /\ FrameLen(p, f) \in Nat
                          /\ (f < n => FrameLen(p, f) = MaxLen /\ Before(f + 1) = Before(f) + MaxLen)
  <2>1. MaxLen \in Nat
    BY ReaderConstants
  <2> QED
    BY <1>1, <2>1, FramesFit
<1>12. \A f \in 1..n : e[f - 1] = Before(f) + 4 * (f - 1)
  <2> DEFINE T == {k \in Nat : k < n => e[k] = Before(k + 1) + 4 * k}
  <2>1. 0 \in T
    <3>1. e[0] = Before(0 + 1) + 4 * 0
      BY <1>9, <1>11
    <3> QED
      BY <3>1
  <2>2. ASSUME NEW k \in Nat, k \in T PROVE k + 1 \in T
    <3> SUFFICES ASSUME k + 1 < n PROVE e[k + 1] = Before(k + 2) + 4 * (k + 1)
      OBVIOUS
    <3>1. k + 1 \in 1..n /\ (k + 1) - 1 = k /\ (k + 1) + 1 = k + 2 /\ k \in 0..n
      OBVIOUS
    <3>2. e[k + 1] = e[k] + Len(ss[k + 1]) /\ Len(ss[k + 1]) = 4 + FrameLen(p, k + 1)
      BY <1>3, <1>9, <3>1
    <3>3. e[k] = Before(k + 1) + 4 * k
      BY <2>2
    <3>4. FrameLen(p, k + 1) = MaxLen /\ Before(k + 2) = Before(k + 1) + MaxLen /\ Before(k + 1) \in Nat /\ MaxLen \in Nat
      BY <1>11, <3>1, ReaderConstants
    <3> QED
      BY <3>2, <3>3, <3>4
  <2> HIDE DEF T
  <2>3. \A k \in Nat : k \in T
    BY <2>1, <2>2, NatInductionSet
  <2>4. ASSUME NEW f \in 1..n PROVE e[f - 1] = Before(f) + 4 * (f - 1)
    <3>1. f - 1 \in T /\ f - 1 < n /\ (f - 1) + 1 = f
      BY <2>3
    <3> QED
      BY <3>1 DEF T
  <2> QED
    BY <2>4
<1>13. ASSUME NEW f \in 1..n
       PROVE  /\ FrameThere(w, e[f - 1], p, f)
              /\ f = n => Len(w) = e[f - 1] + 4 + FrameLen(p, f)
  <2>1. PICK l \in Nat : l = FrameLen(p, f)
    BY <1>11
  <2>2. PICK o \in Nat : o = e[f - 1]
    BY <1>9
  <2>3. e[f] = o + (4 + l) /\ e[f] <= e[n] /\ Len(ss[f]) = 4 + l
    BY <1>3, <1>9, <2>1, <2>2
  <2>4. \A j \in 1..4 + l : w[o + j] = ss[f][j]
    BY <1>10, <2>2, <2>3
  <2>5. w[o + 1] = ss[f][1] /\ w[o + 2] = ss[f][2] /\ w[o + 3] = ss[f][3] /\ w[o + 4] = ss[f][4]
    BY <2>4
  <2>6. ASSUME NEW j \in 1..l PROVE w[o + 4 + j] = 100 * p + Before(f) + j
    <3>1. 4 + j \in 1..4 + l /\ o + (4 + j) = o + 4 + j
      OBVIOUS
    <3>2. w[o + (4 + j)] = ss[f][4 + j]
      BY <2>4, <3>1
    <3> QED
      BY <1>3, <2>1, <3>1, <3>2
  <2>7. o + 4 + l <= Len(w) /\ (f = n => Len(w) = o + 4 + l)
    <3>1. e[n] \in Nat
      BY <1>9
    <3> QED
      BY <1>10, <2>3, <3>1
  <2>8. w[o + 1] + w[o + 2] * Base + w[o + 3] * Base * Base = l /\ w[o + 4] = f
    <3>1. ss[f][1] + ss[f][2] * Base + ss[f][3] * Base * Base = l /\ ss[f][4] = f
      BY <1>3, <2>1
    <3> QED
      BY <2>5, <3>1
  <2> QED
    BY <2>1, <2>2, <2>6, <2>7, <2>8 DEF FrameThere
<1>14. BytesOf(p) = w
  BY <1>2, <1>6 DEF BytesOf
<1>15. ASSUME NEW f \in 1..n
       PROVE  /\ FrameThere(w, Before(f) + 4 * (f - 1), p, f)
              /\ f = n => Len(w) = Before(f) + 4 * (f - 1) + 4 + FrameLen(p, f)
  <2>1. e[f - 1] = Before(f) + 4 * (f - 1)
    BY <1>12
  <2> QED
    BY <1>13, <2>1
<1> QED
  BY <1>1, <1>7, <1>14, <1>15

\* The bytes of each packet.
PacketsBytes == [q \in DOMAIN packets |-> BytesOf(q)]

\* The first packets have the places they have in the whole stream.
LEMMA UpToIs ==
  ASSUME packets \in Seq(Nat \ {0}), NEW e, Placed(PacketsBytes, e)
  PROVE  \A p \in 0..Len(packets) : UpTo(p) = e[p]
<1> SUFFICES ASSUME NEW p \in 0..Len(packets) PROVE UpTo(p) = e[p]
  OBVIOUS
<1>1. PICK m \in Nat : m = Len(packets) /\ DOMAIN packets = 1..m
  OBVIOUS
<1>0. PICK bs : bs = PacketsBytes
  OBVIOUS
<1>2. \A q \in 1..m : BytesOf(q) \in Seq(Nat)
  BY <1>1, PacketBytes
<1>3. bs = [q \in 1..m |-> bs[q]] /\ \A q \in 1..m : bs[q] = BytesOf(q)
  BY <1>0, <1>1 DEF PacketsBytes
<1>4. PICK ts : ts = [q \in 1..p |-> BytesOf(q)]
  OBVIOUS
<1>5. PICK B : B = Seq(Nat)
  OBVIOUS
<1>6. ts \in Seq(B) /\ Len(ts) = p /\ \A q \in 1..p : ts[q] = BytesOf(q)
  <2>1. p \in Nat /\ \A q \in 1..p : BytesOf(q) \in B
    BY <1>1, <1>2, <1>5
  <2> QED
    BY <1>4, <2>1
<1>7. Len(bs) = m
  BY <1>3
<1>8. ts \in Seq(Seq(Nat))
  BY <1>5, <1>6
<1>9. bs \in Seq(B)
  <2>1. bs \in [1..m -> B]
    BY <1>2, <1>3, <1>5
  <2> QED
    BY <2>1
<1>12. Placed(bs, e)
  BY <1>0
<1>10. p \in Nat /\ p <= Len(bs) /\ \A i \in 1..p : ts[i] = bs[i]
  <2>1. \A i \in 1..p : i \in 1..m
    BY <1>1
  <2> QED
    BY <1>1, <1>3, <1>6, <1>7, <2>1
<1>11. Len(FlattenSeq(ts)) = e[p]
  <2>1. bs \in Seq(Seq(Nat))
    BY <1>5, <1>9
  <2>2. p \in Nat
    BY <1>10
  <2>3. StartOf(ts, bs, p)
    BY <1>6, <1>10 DEF StartOf
  <2> QED
    BY <1>8, <1>12, <2>1, <2>2, <2>3, FlattenFirst
<1> QED
  BY <1>4, <1>11 DEF UpTo

\* Where the frames are in the stream.
LEMMA StreamBytes ==
  ASSUME packets \in Seq(Nat \ {0})
  PROVE  /\ Stream \in Seq(Nat) /\ UpTo(0) = 0 /\ UpTo(Len(packets)) = Len(Stream)
         /\ \A p \in 0..Len(packets) : UpTo(p) \in Nat /\ UpTo(p) <= Len(Stream)
         /\ \A p \in DOMAIN packets : \A f \in 1..FrameCount(p) :
              /\ FrameAt(p, f) \in Nat /\ FrameThere(Stream, FrameAt(p, f), p, f)
              /\ FrameAt(p, f) + 4 + FrameLen(p, f) <= UpTo(p)
              /\ f = FrameCount(p) => FrameAt(p, f) + 4 + FrameLen(p, f) = UpTo(p)
<1>1. PICK m \in Nat : m = Len(packets) /\ DOMAIN packets = 1..m
  OBVIOUS
<1>2. PICK bs : bs = PacketsBytes /\ bs = [q \in DOMAIN packets |-> BytesOf(q)]
  BY DEF PacketsBytes
<1>3. \A q \in 1..m : BytesOf(q) \in Seq(Nat)
  BY <1>1, PacketBytes
<1>4. Len(bs) = m /\ bs \in Seq(Seq(Nat)) /\ \A q \in 1..m : bs[q] = BytesOf(q)
  <2>1. PICK B : B = Seq(Nat)
    OBVIOUS
  <2>2. bs \in [1..m -> B]
    BY <1>1, <1>2, <1>3, <2>1
  <2>3. bs \in Seq(B) /\ Len(bs) = m
    BY <2>2
  <2> QED
    BY <1>1, <1>2, <2>1, <2>3
<1>5. Stream \in Seq(Nat) /\ Stream = FlattenSeq(bs)
  BY <1>2, <1>4, FlattenPlaced DEF Stream
<1>6. PICK w \in Seq(Nat) : w = Stream
  BY <1>5
<1>7. PICK e : Placed(bs, e)
  BY <1>4, FlattenPlaced
<1>8. \A p \in 0..m : UpTo(p) = e[p]
  BY <1>1, <1>2, <1>7, UpToIs
<1>9. /\ e[0] = 0 /\ Len(w) = e[m] /\ \A i \in 0..m : e[i] \in Nat /\ e[i] <= e[m]
      /\ \A i \in 1..m : e[i] = e[i - 1] + Len(bs[i])
  BY <1>4, <1>5, <1>6, <1>7 DEF Placed, EndsAt
<1>10. \A i \in 1..m : \A j \in 1..Len(bs[i]) : w[e[i - 1] + j] = bs[i][j]
  BY <1>4, <1>5, <1>6, <1>7 DEF Placed
<1>11. ASSUME NEW p \in 1..m, NEW f \in 1..FrameCount(p)
       PROVE  /\ FrameAt(p, f) \in Nat /\ FrameThere(w, FrameAt(p, f), p, f)
              /\ FrameAt(p, f) + 4 + FrameLen(p, f) <= UpTo(p)
              /\ f = FrameCount(p) => FrameAt(p, f) + 4 + FrameLen(p, f) = UpTo(p)
  <2>1. PICK l \in Nat, b \in Nat, fs \in Nat : l = FrameLen(p, f) /\ b = Before(f) /\ fs = FrameCount(p)
    <3>1. p \in DOMAIN packets /\ MaxLen \in Nat
      BY <1>1, ReaderConstants
    <3>2. FrameCount(p) \in Nat \ {0} /\ Before(f) \in Nat /\ FrameLen(p, f) \in 0..MaxLen
      BY <3>1, FramesFit
    <3> QED
      BY <3>1, <3>2
  <2>2. PICK a \in Nat : a = e[p - 1]
    BY <1>9
  <2>3. PICK k \in Nat : k = b + 4 * (f - 1)
    BY <2>1
  <2>4. FrameAt(p, f) = a + k
    <3>1. p - 1 \in 0..m /\ UpTo(p - 1) = a
      BY <1>8, <2>2
    <3> QED
      BY <2>1, <2>3, <3>1 DEF FrameAt
  <2>5. PICK x \in Seq(Nat) : x = BytesOf(p)
    BY <1>3
  <2>6. FrameThere(x, k, p, f) /\ (f = fs => Len(x) = k + 4 + l)
    <3>1. p \in DOMAIN packets
      BY <1>1
    <3>2. /\ FrameThere(BytesOf(p), Before(f) + 4 * (f - 1), p, f)
          /\ f = FrameCount(p) => Len(BytesOf(p)) = Before(f) + 4 * (f - 1) + 4 + FrameLen(p, f)
      BY <3>1, PacketBytes
    <3>3. Before(f) + 4 * (f - 1) = k
      BY <2>1, <2>3
    <3> QED
      BY <2>1, <2>5, <3>2, <3>3
  <2>7. k + 4 + l <= Len(x)
    BY <2>1, <2>6 DEF FrameThere
  <2>8. e[p] = a + Len(x) /\ e[p] <= Len(w) /\ UpTo(p) = e[p]
    <3>1. p \in 0..m /\ bs[p] = x
      BY <1>4, <2>5
    <3> QED
      BY <1>8, <1>9, <2>2, <3>1
  <2>9. \A j \in 1..Len(x) : w[a + j] = x[j]
    BY <1>4, <1>10, <2>2, <2>5
  <2>10. a + k + 4 + l <= UpTo(p) /\ (f = fs => a + k + 4 + l = UpTo(p)) /\ a + k + 4 + l <= Len(w)
    <3>1. PICK z \in Nat, u \in Nat : z = Len(x) /\ u = Len(w)
      OBVIOUS
    <3>2. k + 4 + l <= z /\ (f = fs => z = k + 4 + l)
      BY <2>6, <2>7, <3>1
    <3>3. PICK v \in Nat : v = UpTo(p) /\ v = a + z /\ v <= u
      BY <2>8, <3>1
    <3>4. a + k + 4 + l <= v /\ a + k + 4 + l <= u
      BY <3>2, <3>3
    <3>5. f = fs => a + k + 4 + l = v
      BY <3>2, <3>3
    <3> QED
      BY <3>1, <3>3, <3>4, <3>5
  <2>11. w[a + k + 1] = x[k + 1] /\ w[a + k + 2] = x[k + 2] /\ w[a + k + 3] = x[k + 3] /\ w[a + k + 4] = x[k + 4]
    <3>1. /\ k + 1 \in 1..Len(x) /\ k + 2 \in 1..Len(x) /\ k + 3 \in 1..Len(x) /\ k + 4 \in 1..Len(x)
          /\ a + (k + 1) = a + k + 1 /\ a + (k + 2) = a + k + 2 /\ a + (k + 3) = a + k + 3 /\ a + (k + 4) = a + k + 4
      BY <2>7
    <3> QED
      BY <2>9, <3>1
  <2>12. ASSUME NEW j \in 1..l PROVE w[a + k + 4 + j] = 100 * p + Before(f) + j
    <3>1. k + 4 + j \in 1..Len(x) /\ a + (k + 4 + j) = a + k + 4 + j
      BY <2>7
    <3>2. x[k + 4 + j] = 100 * p + Before(f) + j
      BY <2>1, <2>6 DEF FrameThere
    <3> QED
      BY <2>9, <3>1, <3>2
  <2>13. w[a + k + 1] + w[a + k + 2] * Base + w[a + k + 3] * Base * Base = l /\ w[a + k + 4] = f
    <3>1. x[k + 1] + x[k + 2] * Base + x[k + 3] * Base * Base = l /\ x[k + 4] = f
      BY <2>1, <2>6 DEF FrameThere
    <3> QED
      BY <2>11, <3>1
  <2>14. PICK o \in Nat : o = a + k
    OBVIOUS
  <2>15. FrameThere(w, o, p, f)
    BY <2>1, <2>10, <2>12, <2>13, <2>14 DEF FrameThere
  <2> QED
    BY <2>1, <2>4, <2>10, <2>14, <2>15
<1>12. /\ UpTo(0) = 0 /\ UpTo(m) = Len(w)
       /\ \A p \in 0..m : UpTo(p) \in Nat /\ UpTo(p) <= Len(w)
  <2>1. 0 \in 0..m /\ m \in 0..m
    OBVIOUS
  <2>2. UpTo(0) = e[0] /\ UpTo(m) = e[m]
    BY <1>8, <2>1
  <2>3. ASSUME NEW p \in 0..m PROVE UpTo(p) \in Nat /\ UpTo(p) <= Len(w)
    <3>1. UpTo(p) = e[p]
      BY <1>8
    <3> QED
      BY <1>9, <3>1
  <2> QED
    BY <1>9, <2>2, <2>3
<1> QED
  BY <1>1, <1>5, <1>6, <1>11, <1>12

\* A packet ends behind those before it.
LEMMA UpToGrows ==
  ASSUME packets \in Seq(Nat \ {0}), NEW q \in DOMAIN packets, NEW p \in DOMAIN packets, p >= q
  PROVE  UpTo(p) >= UpTo(q)
<1>1. PICK m \in Nat : m = Len(packets) /\ DOMAIN packets = 1..m
  OBVIOUS
<1>2. PICK bs : bs = PacketsBytes /\ bs = [x \in 1..m |-> BytesOf(x)]
  BY <1>1 DEF PacketsBytes
<1>3. \A x \in 1..m : BytesOf(x) \in Seq(Nat)
  BY <1>1, PacketBytes
<1>4. bs \in Seq(Seq(Nat)) /\ Len(bs) = m
  <2>1. PICK B : B = Seq(Nat)
    OBVIOUS
  <2>2. bs \in [1..m -> B]
    BY <1>2, <1>3, <2>1
  <2> QED
    BY <2>1, <2>2
<1>5. PICK e : Placed(bs, e)
  BY <1>4, FlattenPlaced
<1>6. UpTo(p) = e[p] /\ UpTo(q) = e[q]
  BY <1>1, <1>2, <1>5, UpToIs
<1>7. p \in Nat /\ q \in Nat /\ q <= p /\ p <= Len(bs)
  BY <1>1, <1>4
<1>8. EndsAt(bs, e)
  BY <1>5 DEF Placed
<1>9. e[q] <= e[p]
  BY <1>4, <1>7, <1>8, EndsGrow
<1>10. e[p] \in Nat /\ e[q] \in Nat
  BY <1>1, <1>4, <1>8 DEF EndsAt
<1> QED
  BY <1>6, <1>9, <1>10
-----------------------------------------------------------------------------
(***************************************************************************)
(* The invariant of the reader, of which g bytes of the stream have been   *)
(* given to it.                                                            *)
(***************************************************************************)
Given(g) ==
  /\ packets \in Seq(Nat \ {0}) /\ stream = Stream /\ g \in Nat /\ g <= Len(stream)
  /\ chunk \in Seq(Nat) /\ Len(chunk) <= g
  /\ \A i \in 1..Len(chunk) : chunk[i] = stream[(g - Len(chunk)) + i]

Packet == [bytes : Seq(Nat), seq : Nat]

DeliveredSoFar ==
  /\ delivered \in Seq(Packet) /\ Len(delivered) <= Len(packets)
  /\ \A d \in 1..Len(delivered) : delivered[d] = Expected(d)

\* The first n bytes of packet p are kept.
PartsAre(p, n) ==
  IF parts = None THEN n = 0
  ELSE /\ parts \in Seq(Nat) /\ Len(parts) = n /\ partsTotalLen = n
       /\ \A i \in 1..n : parts[i] = 100 * p + i

\* Before frame f of packet p, or in its header.
AtFrame(g, p, f) ==
  /\ header \in Seq(Nat) /\ Len(header) < 4 /\ remainingLen = 0
  /\ \A i \in 1..Len(header) : header[i] = stream[FrameAt(p, f) + i]
  /\ g - Len(chunk) = FrameAt(p, f) + Len(header)
  /\ PartsAre(p, Before(f))

\* Behind that header, where some bytes of the frame are left to read.
InFrame(g, p, f, left) ==
  /\ packetLen = FrameLen(p, f) /\ sequenceNo = f /\ left \in 0..FrameLen(p, f)
  /\ g - Len(chunk) = FrameAt(p, f) + 4 + FrameLen(p, f) - left
  /\ PartsAre(p, Before(f) + FrameLen(p, f) - left)

\* Behind the last packet.
AtEnd(g, p) ==
  /\ p = Len(packets) + 1 /\ phase = "idle" /\ header = <<>> /\ remainingLen = 0 /\ parts = None
  /\ g = Len(stream)

\* Where the reader is when packet p is the next one to deliver.
Between(g, p) == phase = "fast" /\ parts = None /\ g - Len(chunk) = UpTo(p - 1)
Within(g, p, f) ==
  \/ phase # "fast" /\ length = -1 /\ AtFrame(g, p, f)
  \/ phase \in {"idle", "header"} /\ remainingLen > 0 /\ InFrame(g, p, f, remainingLen)
  \/ phase = "payload" /\ (length > 0 \/ (length = 0 /\ FrameLen(p, f) = 0)) /\ InFrame(g, p, f, length)
Place(g, p) ==
  \/ AtEnd(g, p) \/ Between(g, p)
  \/ p \in DOMAIN packets /\ \E f \in 1..FrameCount(p) : Within(g, p, f)

ReaderType ==
  /\ phase \in {"idle", "header", "payload", "fast"} /\ length \in Int /\ remainingLen \in Nat
  /\ phase \in {"idle", "header"} => length = -1
  /\ phase = "idle" => chunk = <<>>

ReaderAt(g) == Given(g) /\ ReaderType /\ DeliveredSoFar /\ \E p \in Nat : p = Len(delivered) + 1 /\ Place(g, p)

\* All of this is about the packets only.
LEMMA LayoutKept ==
  ASSUME packets' = packets
  PROVE  /\ \A p, f : FrameLen(p, f)' = FrameLen(p, f) /\ FrameAt(p, f)' = FrameAt(p, f)
         /\ \A p : FrameCount(p)' = FrameCount(p) /\ UpTo(p)' = UpTo(p) /\ Expected(p)' = Expected(p)
         /\ Stream' = Stream
<1>1. \A p : UpTo(p)' = UpTo(p)
  BY DEF UpTo, BytesOf, FramesOf, PayloadOf
<1>2. \A p, f : FrameLen(p, f)' = FrameLen(p, f)
  BY DEF FrameLen, Before
<1>3. \A p, f : FrameAt(p, f)' = FrameAt(p, f)
  BY <1>1 DEF FrameAt, Before
<1>4. \A p : FrameCount(p)' = FrameCount(p) /\ Expected(p)' = Expected(p)
  BY DEF FrameCount, Expected, PayloadOf
<1>5. Stream' = Stream
  BY DEF Stream, BytesOf, FramesOf, PayloadOf
<1> QED
  BY <1>1, <1>2, <1>3, <1>4, <1>5

\* What there is to know of a frame: where it begins, what it has, what is before it,
\* how long its packet is, in how many frames, and where that one ends.
FrameIs(p, f, o, l, b, n, c, u) ==
  /\ o = FrameAt(p, f) /\ l = FrameLen(p, f) /\ b = Before(f) /\ n = packets[p] /\ c = FrameCount(p) /\ u = UpTo(p)
  /\ o + 4 + l <= u /\ u <= Len(stream) /\ b + l <= n /\ n > 0 /\ f \in 1..c /\ l <= MaxLen
  /\ f = c => o + 4 + l = u /\ b + l = n /\ l < MaxLen
  /\ f < c => l = MaxLen /\ f + 1 \in 1..c /\ FrameAt(p, f + 1) = o + 4 + l /\ Before(f + 1) = b + l
  /\ f = 1 => b = 0 /\ o = UpTo(p - 1)
  /\ f > 1 => b >= MaxLen
  /\ \A h : h[1] = stream[o + 1] /\ h[2] = stream[o + 2] /\ h[3] = stream[o + 3] => LengthIn(h) = l
  /\ stream[o + 4] = f
  /\ \A j \in 1..l : stream[o + 4 + j] = 100 * p + b + j

\* So every frame is.
LEMMA FrameHere ==
  ASSUME NEW g, Given(g), NEW p \in DOMAIN packets, NEW f \in 1..FrameCount(p)
  PROVE  \E o, l, b, n, c, u \in Nat : FrameIs(p, f, o, l, b, n, c, u)
<1>1. packets \in Seq(Nat \ {0}) /\ stream = Stream /\ p \in Nat /\ p \in 0..Len(packets) /\ p - 1 \in 0..Len(packets)
  BY DEF Given
<1>2. /\ FrameCount(p) \in Nat \ {0} /\ Before(1) = 0
      /\ Before(f) \in Nat /\ FrameLen(p, f) \in 0..MaxLen /\ Before(f) + FrameLen(p, f) <= packets[p]
      /\ f < FrameCount(p) => FrameLen(p, f) = MaxLen /\ Before(f + 1) = Before(f) + MaxLen
      /\ f = FrameCount(p) => FrameLen(p, f) < MaxLen /\ Before(f) + FrameLen(p, f) = packets[p]
      /\ f > 1 => Before(f) >= MaxLen
  BY <1>1, FramesFit
<1>3. /\ FrameAt(p, f) \in Nat /\ FrameThere(Stream, FrameAt(p, f), p, f)
      /\ FrameAt(p, f) + 4 + FrameLen(p, f) <= UpTo(p)
      /\ f = FrameCount(p) => FrameAt(p, f) + 4 + FrameLen(p, f) = UpTo(p)
  BY <1>1, StreamBytes
<1>4. UpTo(p) \in Nat /\ UpTo(p) <= Len(stream) /\ UpTo(p - 1) \in Nat
  BY <1>1, StreamBytes
<1>5. PICK m \in Nat : m = MaxLen
  BY ReaderConstants
<1>61. PICK o \in Nat : o = FrameAt(p, f)
  BY <1>3
<1>62. PICK l \in Nat : l = FrameLen(p, f)
  BY <1>2, <1>5
<1>63. PICK b \in Nat : b = Before(f)
  BY <1>2
<1>64. PICK n \in Nat : n = packets[p]
  BY <1>1
<1>65. PICK c \in Nat : c = FrameCount(p)
  BY <1>2
<1>66. PICK u \in Nat : u = UpTo(p)
  BY <1>4
<1>6. o = FrameAt(p, f) /\ l = FrameLen(p, f) /\ b = Before(f) /\ n = packets[p] /\ c = FrameCount(p) /\ u = UpTo(p)
  BY <1>61, <1>62, <1>63, <1>64, <1>65, <1>66
<1>7. o + 4 + l <= u /\ u <= Len(stream) /\ b + l <= n /\ n > 0 /\ f \in 1..c /\ l <= m
  <2>1. packets[p] \in Nat \ {0}
    BY <1>1
  <2> QED
    BY <1>2, <1>3, <1>4, <1>5, <1>6, <2>1
<1>8. f = c => o + 4 + l = u /\ b + l = n /\ l < m
  BY <1>2, <1>3, <1>5, <1>6
<1>9. f < c => l = m /\ f + 1 \in 1..c /\ FrameAt(p, f + 1) = o + 4 + l /\ Before(f + 1) = b + l
  <2> SUFFICES ASSUME f < c PROVE l = m /\ f + 1 \in 1..c /\ FrameAt(p, f + 1) = o + 4 + l /\ Before(f + 1) = b + l
    OBVIOUS
  <2>1. l = m /\ Before(f + 1) = b + m
    BY <1>2, <1>5, <1>6
  <2>2. PICK z \in Nat : z = UpTo(p - 1)
    BY <1>4
  <2>3. o = z + b + 4 * (f - 1)
    BY <1>6, <2>2 DEF FrameAt
  <2>4. FrameAt(p, f + 1) = z + (b + m) + 4 * ((f + 1) - 1)
    BY <2>1, <2>2 DEF FrameAt
  <2> QED
    BY <1>6, <2>1, <2>3, <2>4
<1>10. f = 1 => b = 0 /\ o = UpTo(p - 1)
  <2> SUFFICES ASSUME f = 1 PROVE b = 0 /\ o = UpTo(p - 1)
    OBVIOUS
  <2>1. b = 0
    BY <1>2, <1>6
  <2>2. PICK z \in Nat : z = UpTo(p - 1)
    BY <1>4
  <2>3. o = z + b + 4 * (f - 1)
    BY <1>6, <2>2 DEF FrameAt
  <2> QED
    BY <2>1, <2>2, <2>3
<1>11. f > 1 => b >= m
  BY <1>2, <1>5, <1>6
<1>12. \A h : h[1] = stream[o + 1] /\ h[2] = stream[o + 2] /\ h[3] = stream[o + 3] => LengthIn(h) = l
  <2>1. stream[o + 1] + stream[o + 2] * Base + stream[o + 3] * Base * Base = l
    BY <1>1, <1>3, <1>6 DEF FrameThere
  <2> QED
    BY <2>1 DEF LengthIn
<1>13. stream[o + 4] = f /\ \A j \in 1..l : stream[o + 4 + j] = 100 * p + b + j
  BY <1>1, <1>3, <1>6 DEF FrameThere
<1>14. FrameIs(p, f, o, l, b, n, c, u)
  BY <1>5, <1>6, <1>7, <1>8, <1>9, <1>10, <1>11, <1>12, <1>13 DEF FrameIs
<1> QED
  BY <1>14

-----------------------------------------------------------------------------
(***************************************************************************)
(* What is read of the chunk, kept and delivered.                          *)
(***************************************************************************)
\* One behind the other, and a part of one: named, for the lemmas to be found.
Joins(w, h, y) == w = h \o y
CutOf(y, w, a, k) == y = SubSeq(w, a + 1, a + k)
\* The k bytes of packet p behind its first n.
BytesFrom(y, p, n, k) == y \in Seq(Nat) /\ Len(y) = k /\ \A j \in 1..k : y[j] = 100 * p + n + j

\* What there is in one sequence behind another.
LEMMA JoinsIs ==
  ASSUME NEW w, NEW h \in Seq(Nat), NEW y \in Seq(Nat), Joins(w, h, y)
  PROVE  /\ w \in Seq(Nat) /\ Len(w) = Len(h) + Len(y) /\ \A j \in 1..Len(h) : w[j] = h[j]
         /\ \A j \in 1..Len(y) : w[Len(h) + j] = y[j]
BY DEF Joins

\* What is cut of the chunk is what comes next in the stream.
LEMMA ChunkPart ==
  ASSUME NEW g, Given(g), NEW k \in Nat, NEW a \in Nat, a + k <= Len(chunk), NEW y, CutOf(y, chunk, a, k)
  PROVE  y \in Seq(Nat) /\ Len(y) = k /\ \A j \in 1..k : y[j] = stream[(g - Len(chunk)) + a + j]
<1>1. chunk \in Seq(Nat) /\ g \in Nat /\ \A i \in 1..Len(chunk) : chunk[i] = stream[(g - Len(chunk)) + i]
  BY DEF Given
<1>2. y \in Seq(Nat) /\ Len(y) = k /\ \A j \in 1..k : y[j] = chunk[a + j]
  <2>1. chunk \in Seq(Nat)
    BY <1>1
  <2>2. a + k <= Len(chunk)
    OBVIOUS
  <2>3. y = SubSeq(chunk, a + 1, a + k)
    BY DEF CutOf
  <2> QED
    BY <2>1, <2>2, <2>3, PartOf
<1>3. PICK m \in Nat, d \in Int : m = Len(chunk) /\ d = g - m
  BY <1>1
<1>4. \A j \in 1..k : a + j \in 1..m /\ d + (a + j) = d + a + j
  BY <1>3
<1> QED
  BY <1>1, <1>2, <1>3, <1>4

\* What is left of it is still the end of what was given.
LEMMA ChunkRest ==
  ASSUME NEW g, Given(g), NEW k \in Nat, k <= Len(chunk), Read(k), packets' = packets, stream' = stream
  PROVE  Given(g)' /\ Len(chunk') = Len(chunk) - k
<1>1. /\ packets \in Seq(Nat \ {0}) /\ stream = Stream /\ g \in Nat /\ g <= Len(stream) /\ chunk \in Seq(Nat)
      /\ Len(chunk) <= g /\ chunk' = SubSeq(chunk, k + 1, Len(chunk))
  BY DEF Given, Read
<1>2. PICK m \in Nat, e \in Nat : m = Len(chunk) /\ e = m - k /\ m = k + e
  BY <1>1
<1>3. PICK y : y = chunk'
  OBVIOUS
<1>4. CutOf(y, chunk, k, e)
  BY <1>1, <1>2, <1>3 DEF CutOf
<1>5. y \in Seq(Nat) /\ Len(y) = e /\ \A j \in 1..e : y[j] = stream[(g - Len(chunk)) + k + j]
  <2>1. Given(g)
    OBVIOUS
  <2>2. k + e <= Len(chunk)
    BY <1>2
  <2>3. k \in Nat /\ e \in Nat
    OBVIOUS
  <2> QED
    BY ONLY <1>4, <2>1, <2>2, <2>3, ChunkPart
<1>6. \A j \in 1..e : (g - m) + k + j = (g - e) + j
  BY <1>1, <1>2
<1>7. \A j \in 1..e : y[j] = stream[(g - e) + j]
  BY <1>2, <1>5, <1>6
<1>8. Stream' = Stream
  BY LayoutKept
<1>91. Len(chunk') = e /\ chunk' \in Seq(Nat) /\ e <= g
  <2>1. e <= g
    BY ONLY <1>1, <1>2
  <2> QED
    BY ONLY <1>3, <1>5, <2>1
<1>92. PICK z : z = chunk' /\ Len(z) = e /\ \A j \in 1..e : z[j] = stream'[(g - e) + j]
  BY <1>3, <1>5, <1>7
<1>9. \A i \in 1..Len(chunk') : chunk'[i] = stream'[(g - Len(chunk')) + i]
  BY <1>92
<1>10. packets' \in Seq(Nat \ {0}) /\ stream' = Stream' /\ g \in Nat /\ g <= Len(stream')
  BY <1>1, <1>8
<1> QED
  BY <1>2, <1>9, <1>91, <1>10 DEF Given

\* Nothing is read.
LEMMA ChunkSame ==
  ASSUME NEW g, Given(g), chunk' = chunk, packets' = packets, stream' = stream
  PROVE  Given(g)'
<1>1. Stream' = Stream
  BY LayoutKept
<1> QED
  BY <1>1 DEF Given

\* The absence of parts is no sequence of bytes.
LEMMA NoneApart ==
  None \notin Seq(Nat)
<1> SUFFICES ASSUME None \in Seq(Nat) PROVE FALSE
  OBVIOUS
<1>1. None[1] = -1 /\ Len(None) = 1
  BY DEF None
<1>2. None[1] \in Nat
  BY <1>1
<1> QED
  BY <1>1, <1>2

\* Bytes are kept behind those that were.
LEMMA KeepIs ==
  ASSUME NEW p \in Nat, NEW n \in Nat, PartsAre(p, n), NEW k \in Nat, NEW y, BytesFrom(y, p, n, k), Keep(y)
  PROVE  PartsAre(p, n + k)' /\ parts' # None
<1>0. y \in Seq(Nat) /\ Len(y) = k /\ \A j \in 1..k : y[j] = 100 * p + n + j
  BY DEF BytesFrom
<1>1. CASE parts = None
  <2>1. n = 0 /\ parts' = y /\ partsTotalLen' = k
    BY <1>0, <1>1 DEF PartsAre, Keep
  <2>2. parts' # None
    BY <1>0, <2>1, NoneApart
  <2>3. \A j \in 1..k : y[j] = 100 * p + j
    BY <1>0, <2>1
  <2> QED
    BY <1>0, <2>1, <2>2, <2>3 DEF PartsAre
<1>2. CASE parts # None
  <2>1. parts \in Seq(Nat) /\ Len(parts) = n /\ partsTotalLen = n /\ \A i \in 1..n : parts[i] = 100 * p + i
    BY <1>2 DEF PartsAre
  <2>2. parts' = parts \o y /\ partsTotalLen' = n + k
    BY <1>0, <1>2, <2>1 DEF Keep
  <2>3. PICK w : w = parts \o y
    OBVIOUS
  <2>4. /\ w \in Seq(Nat) /\ Len(w) = Len(parts) + Len(y) /\ \A j \in 1..Len(parts) : w[j] = parts[j]
        /\ \A j \in 1..Len(y) : w[Len(parts) + j] = y[j]
    <3>1. parts \in Seq(Nat)
      BY <2>1
    <3>2. PICK h \in Seq(Nat) : h = parts
      BY <3>1
    <3>3. Joins(w, h, y)
      BY <2>3, <3>2 DEF Joins
    <3>5. y \in Seq(Nat)
      BY <1>0
    <3>4. /\ w \in Seq(Nat) /\ Len(w) = Len(h) + Len(y) /\ \A j \in 1..Len(h) : w[j] = h[j]
          /\ \A j \in 1..Len(y) : w[Len(h) + j] = y[j]
      BY <3>3, <3>5, JoinsIs
    <3> QED
      BY <3>2, <3>4
  <2>5. Len(w) = n + k
    BY <1>0, <2>1, <2>4
  <2>6. ASSUME NEW i \in 1..(n + k) PROVE w[i] = 100 * p + i
    <3>1. CASE i <= n
      BY <2>1, <2>4, <3>1
    <3>2. CASE i > n
      <4>1. PICK j \in 1..k : j = i - n
        BY <3>2
      <4>2. y[j] = 100 * p + n + j /\ w[n + j] = y[j] /\ i = n + j
        BY <1>0, <2>1, <2>4, <4>1
      <4> QED
        BY <4>2
    <3> QED
      BY <3>1, <3>2
  <2>7. parts' # None
    BY <2>2, <2>3, <2>4, NoneApart
  <2> QED
    BY <2>2, <2>3, <2>4, <2>5, <2>6, <2>7 DEF PartsAre
<1> QED
  BY <1>1, <1>2

\* Nothing is kept.
LEMMA PartsSame ==
  ASSUME NEW p, NEW n, PartsAre(p, n), parts' = parts, partsTotalLen' = partsTotalLen
  PROVE  PartsAre(p, n)'
BY DEF PartsAre

\* A packet is given to its command.
LEMMA DeliverOne ==
  ASSUME NEW g, Given(g), DeliveredSoFar, packets' = packets, NEW p \in DOMAIN packets, p = Len(delivered) + 1,
         NEW y, NEW s, s = FrameCount(p), NEW n \in Nat, n = packets[p], BytesFrom(y, p, 0, n), Deliver(y, s)
  PROVE  DeliveredSoFar' /\ Len(delivered') = p
<1>1. packets \in Seq(Nat \ {0}) /\ p \in Nat /\ p <= Len(packets)
  BY DEF Given
<1>2. y = PayloadOf(p)
  <2>1. y \in Seq(Nat) /\ Len(y) = n /\ \A j \in 1..n : y[j] = 100 * p + 0 + j
    BY DEF BytesFrom
  <2>2. y = [j \in 1..n |-> y[j]] /\ \A j \in 1..n : y[j] = 100 * p + j
    BY <1>1, <2>1
  <2> QED
    BY <2>2 DEF PayloadOf
<1>3. PICK v : v = [bytes |-> y, seq |-> s]
  OBVIOUS
<1>4. v = Expected(p)
  BY <1>2, <1>3 DEF Expected, FrameCount
<1>5. s \in Nat
  <2>1. FrameCount(p) \in Nat \ {0}
    BY <1>1, FramesFit
  <2> QED
    BY <2>1
<1>6. v \in Packet
  BY <1>3, <1>5 DEF Packet, BytesFrom
<1>7. delivered \in Seq(Packet) /\ \A d \in 1..Len(delivered) : delivered[d] = Expected(d)
  BY DEF DeliveredSoFar
<1>8. delivered' = Append(delivered, v)
  BY <1>3 DEF Deliver
<1>91. delivered' \in Seq(Packet) /\ Len(delivered') = p
  BY <1>1, <1>6, <1>7, <1>8
<1>92. ASSUME NEW d \in 1..p PROVE delivered'[d] = Expected(d)
  <2>1. delivered'[d] = IF d <= Len(delivered) THEN delivered[d] ELSE v
    BY <1>1, <1>7, <1>8
  <2>2. CASE d <= Len(delivered)
    BY <1>7, <2>1, <2>2
  <2>3. CASE d = p
    BY <1>4, <1>7, <2>1, <2>3
  <2> QED
    BY <1>1, <1>7, <2>2, <2>3
<1>9. delivered' \in Seq(Packet) /\ Len(delivered') = p /\ \A d \in 1..p : delivered'[d] = Expected(d)
  BY <1>91, <1>92
<1>10. \A d : Expected(d)' = Expected(d)
  BY LayoutKept
<1>11. \A d \in 1..p : delivered'[d] = Expected(d)'
  BY <1>9, <1>10
<1> QED
  BY <1>1, <1>9, <1>11 DEF DeliveredSoFar

\* None is.
LEMMA DeliverNone ==
  ASSUME DeliveredSoFar, packets' = packets, delivered' = delivered
  PROVE  DeliveredSoFar'
<1>1. \A d : Expected(d)' = Expected(d)
  BY LayoutKept
<1> QED
  BY <1>1 DEF DeliveredSoFar

\* What is read of a frame, behind the a bytes of a header.
LEMMA FramePart ==
  ASSUME NEW g, Given(g), NEW p \in Nat, NEW f, NEW o \in Nat, NEW l \in Nat, NEW b \in Nat, NEW n \in Nat, NEW c \in Nat, NEW u \in Nat,
         FrameIs(p, f, o, l, b, n, c, u), NEW left \in 0..l, NEW k \in Nat, k = b + l - left, NEW a \in Nat,
         (g - Len(chunk)) + a = o + 4 + l - left, NEW q \in Nat, q <= left, a + q <= Len(chunk), NEW y, CutOf(y, chunk, a, q)
  PROVE  BytesFrom(y, p, k, q)
<1>1. y \in Seq(Nat) /\ Len(y) = q /\ \A j \in 1..q : y[j] = stream[(g - Len(chunk)) + a + j]
  BY ChunkPart
<1>2. PICK d \in Nat : d = l - left
  OBVIOUS
<1>3. PICK m \in Nat : m = Len(chunk) /\ g \in Nat
  <2>1. chunk \in Seq(Nat) /\ g \in Nat
    BY DEF Given
  <2> QED
    BY <2>1
<1>4. ASSUME NEW j \in 1..q PROVE y[j] = 100 * p + k + j
  <2>1. (g - m) + a + j = o + 4 + (d + j) /\ d + j \in 1..l /\ 100 * p + b + (d + j) = 100 * p + k + j
    BY <1>2, <1>3
  <2>2. stream[o + 4 + (d + j)] = 100 * p + b + (d + j)
    BY <2>1 DEF FrameIs
  <2> QED
    BY <1>1, <1>3, <2>1, <2>2
<1> QED
  BY <1>1, <1>4 DEF BytesFrom

\* Bytes of the length that is asked for are the ones that are joined.
LEMMA ConcatSame ==
  ASSUME NEW x, NEW p, NEW n \in Nat, BytesFrom(x, p, 0, n)
  PROVE  Concat(x, n) = x
<1>1. x \in Seq(Nat) /\ Len(x) = n
  BY DEF BytesFrom
<1> QED
  BY <1>1 DEF Concat

\* The parts, and what is put behind them.
LEMMA PartsAnd ==
  ASSUME NEW p \in Nat, NEW k \in Nat, PartsAre(p, k), parts # None, NEW q \in Nat, NEW y, BytesFrom(y, p, k, q), NEW n, n = k + q
  PROVE  BytesFrom(parts \o y, p, 0, n)
<1>1. parts \in Seq(Nat) /\ Len(parts) = k /\ \A i \in 1..k : parts[i] = 100 * p + i
  BY DEF PartsAre
<1>2. y \in Seq(Nat) /\ Len(y) = q /\ \A j \in 1..q : y[j] = 100 * p + k + j
  BY DEF BytesFrom
<1>3. PICK h \in Seq(Nat) : h = parts
  BY <1>1
<1>4. PICK w : w = h \o y /\ Joins(w, h, y)
  BY DEF Joins
<1>5. y \in Seq(Nat)
  BY <1>2
<1>6. /\ w \in Seq(Nat) /\ Len(w) = Len(h) + Len(y) /\ \A j \in 1..Len(h) : w[j] = h[j]
      /\ \A j \in 1..Len(y) : w[Len(h) + j] = y[j]
  BY <1>4, <1>5, JoinsIs
<1>7. Len(w) = n
  BY <1>1, <1>2, <1>3, <1>6
<1>8. ASSUME NEW i \in 1..n PROVE w[i] = 100 * p + 0 + i
  <2>1. CASE i <= k
    <3>1. i \in 1..k
      BY <2>1
    <3>2. parts[i] = 100 * p + i
      BY <1>1, <3>1
    <3>3. w[i] = h[i]
      BY <1>1, <1>3, <1>6, <3>1
    <3> QED
      BY <1>3, <3>2, <3>3
  <2>2. CASE i > k
    <3>1. PICK j \in 1..q : j = i - k /\ i = k + j
      BY <2>2
    <3>2. w[k + j] = y[j]
      BY <1>1, <1>2, <1>3, <1>6
    <3>3. y[j] = 100 * p + k + j
      BY <1>2
    <3> QED
      BY <3>1, <3>2, <3>3
  <2> QED
    BY <2>1, <2>2
<1> QED
  BY <1>3, <1>4, <1>6, <1>7, <1>8 DEF BytesFrom

-----------------------------------------------------------------------------
(***************************************************************************)
(* Where the reader is, before and after a step.                           *)
(***************************************************************************)
\* What the invariant says of the next packet.
LEMMA NextIs ==
  ASSUME NEW g, ReaderAt(g)
  PROVE  Given(g) /\ ReaderType /\ DeliveredSoFar /\ \E p \in Nat : p = Len(delivered) + 1 /\ Place(g, p)
BY DEF ReaderAt

\* Between two packets, on the fast path.
LEMMA WhenFast ==
  ASSUME NEW g, NEW p, Place(g, p), phase = "fast"
  PROVE  Between(g, p)
BY DEF Place, AtEnd, Within

\* Before a frame, or in its header.
LEMMA WhenHeader ==
  ASSUME NEW g, NEW p, Place(g, p), ReaderType, (phase = "header" /\ remainingLen = 0) \/ (phase = "payload" /\ length = -1)
  PROVE  p \in DOMAIN packets /\ \E f \in 1..FrameCount(p) : AtFrame(g, p, f)
BY DEF Place, AtEnd, Between, Within, ReaderType

\* The chunk before ended within a frame.
LEMMA WhenCut ==
  ASSUME NEW g, NEW p, Place(g, p), ReaderType, phase = "header", remainingLen > 0
  PROVE  p \in DOMAIN packets /\ \E f \in 1..FrameCount(p) : InFrame(g, p, f, remainingLen)
BY DEF Place, AtEnd, Between, Within, ReaderType, AtFrame

\* Behind the header of a frame.
LEMMA WhenPayload ==
  ASSUME NEW g, NEW p, Place(g, p), ReaderType, phase = "payload", length # -1
  PROVE  /\ p \in DOMAIN packets
         /\ \E f \in 1..FrameCount(p) : (length > 0 \/ (length = 0 /\ FrameLen(p, f) = 0)) /\ InFrame(g, p, f, length)
BY DEF Place, AtEnd, Between, Within, ReaderType

\* There is room in the frame for what is read of it.
LEMMA ToPayload ==
  ASSUME NEW g, NEW p \in DOMAIN packets, NEW f \in 1..FrameCount(p), packets' = packets,
         NEW o \in Nat, NEW l \in Nat, NEW b \in Nat, o = FrameAt(p, f), l = FrameLen(p, f), b = Before(f),
         NEW left \in 0..l, NEW k, k = b + l - left, packetLen' = l, sequenceNo' = f,
         g - Len(chunk') = o + 4 + l - left, PartsAre(p, k)',
         phase' = "payload", length' = left, left > 0 \/ l = 0
  PROVE  Place(g, p)'
<1>1. FrameLen(p, f)' = l /\ FrameAt(p, f)' = o /\ FrameCount(p)' = FrameCount(p)
  BY LayoutKept
<1>2. Before(f)' = b
  BY DEF Before
<1>3. InFrame(g, p, f, left)'
  BY <1>1, <1>2 DEF InFrame, PartsAre
<1>4. InFrame(g, p, f, length)'
  BY <1>3 DEF InFrame, PartsAre
<1>5. Within(g, p, f)'
  BY <1>1, <1>4 DEF Within
<1> QED
  BY <1>1, <1>5 DEF Place

\* The chunk ended within the frame.
LEMMA ToRest ==
  ASSUME NEW g, NEW p \in DOMAIN packets, NEW f \in 1..FrameCount(p), packets' = packets,
         NEW o \in Nat, NEW l \in Nat, NEW b \in Nat, o = FrameAt(p, f), l = FrameLen(p, f), b = Before(f),
         NEW left \in 1..l, NEW k, k = b + l - left, packetLen' = l, sequenceNo' = f,
         g - Len(chunk') = o + 4 + l - left, PartsAre(p, k)',
         phase' \in {"idle", "header"}, remainingLen' = left
  PROVE  Place(g, p)'
<1>1. FrameLen(p, f)' = l /\ FrameAt(p, f)' = o /\ FrameCount(p)' = FrameCount(p)
  BY LayoutKept
<1>2. Before(f)' = b
  BY DEF Before
<1>3. InFrame(g, p, f, left)'
  BY <1>1, <1>2 DEF InFrame, PartsAre
<1>4. InFrame(g, p, f, remainingLen)'
  BY <1>3 DEF InFrame, PartsAre
<1>5. Within(g, p, f)'
  BY <1>4 DEF Within
<1> QED
  BY <1>1, <1>5 DEF Place

\* The m bytes of a header that has come.
HeadIs(h, m, o) == h \in Seq(Nat) /\ Len(h) = m /\ \A i \in 1..m : h[i] = stream[o + i]

\* Before a frame, or in its header.
LEMMA ToHeader ==
  ASSUME NEW g, NEW p \in DOMAIN packets, NEW f \in 1..FrameCount(p), packets' = packets, stream' = stream,
         NEW o \in Nat, NEW b \in Nat, o = FrameAt(p, f), b = Before(f),
         NEW h, NEW m \in 0..3, header' = h, HeadIs(h, m, o),
         remainingLen' = 0, g - Len(chunk') = o + m, PartsAre(p, b)',
         phase' # "fast", length' = -1
  PROVE  Place(g, p)'
<1>1. FrameAt(p, f)' = o /\ FrameCount(p)' = FrameCount(p)
  BY LayoutKept
<1>2. Before(f)' = b
  BY DEF Before
<1>3. PartsAre(p, Before(f))'
  BY <1>2 DEF PartsAre
<1>4. AtFrame(g, p, f)'
  BY <1>1, <1>3 DEF AtFrame, HeadIs
<1>5. Within(g, p, f)'
  BY <1>4 DEF Within
<1> QED
  BY <1>1, <1>5 DEF Place

\* Behind a packet: before the next, or at the end.
LEMMA ToNext ==
  ASSUME NEW g, Given(g)', packets' = packets, stream' = stream, packets \in Seq(Nat \ {0}), stream = Stream,
         NEW q \in 1..(Len(packets) + 1), NEW u \in Nat, u = UpTo(q - 1), g - Len(chunk') = u,
         header' = <<>>, remainingLen' = 0, parts' = None, length' = -1,
         phase' \in {"idle", "header"}, Len(chunk') = 0 => phase' = "idle"
  PROVE  Place(g, q)'
<1>1. CASE q \in DOMAIN packets
  <2>1. PICK o \in Nat, b \in Nat : o = FrameAt(q, 1) /\ b = Before(1) /\ b = 0 /\ o = u
    BY <1>1, FramesFit DEF FrameAt
  <2>2. 1 \in 1..FrameCount(q)
    <3>1. FrameCount(q) \in Nat \ {0}
      BY <1>1, FramesFit
    <3> QED
      BY <3>1
  <2>3. PICK h \in Seq(Nat) : h = <<>> /\ Len(h) = 0 /\ header' = h
    <3>1. <<>> \in Seq(Nat) /\ Len(<<>>) = 0
      OBVIOUS
    <3> QED
      BY <3>1
  <2>4. PartsAre(q, b)'
    BY <2>1 DEF PartsAre
  <2>5. PICK m \in 0..3 : m = 0
    OBVIOUS
  <2>6. HeadIs(h, m, o)
    BY <2>3, <2>5 DEF HeadIs
  <2>7. g - Len(chunk') = o + m
    BY <2>1, <2>5
  <2>8. o = FrameAt(q, 1)
    BY <2>1
  <2>9. b = Before(1)
    BY <2>1
  <2>10. header' = h
    BY <2>3
  <2>12. phase' # "fast"
    OBVIOUS
  <2> QED
    BY <1>1, <2>2, <2>4, <2>6, <2>7, <2>8, <2>9, <2>10, <2>12, ToHeader
<1>2. CASE q = Len(packets) + 1
  <2>1. u = Len(Stream)
    BY <1>2, StreamBytes
  <2>2. g \in Nat /\ g <= Len(stream') /\ Len(chunk') \in Nat
    BY DEF Given
  <2>3. Stream \in Seq(Nat)
    BY StreamBytes
  <2>4. g = Len(stream) /\ Len(chunk') = 0
    BY <2>1, <2>2, <2>3
  <2>5. AtEnd(g, q)'
    BY <1>2, <2>4 DEF AtEnd
  <2> QED
    BY <2>5 DEF Place
<1> QED
  BY <1>1, <1>2

\* On the fast path.
LEMMA ToBetween ==
  ASSUME NEW g, packets' = packets, NEW q, NEW u, u = UpTo(q - 1), g - Len(chunk') = u, phase' = "fast", parts' = None
  PROVE  Place(g, q)'
<1>1. UpTo(q - 1)' = u
  BY LayoutKept
<1> QED
  BY <1>1 DEF Between, Place

\* The invariant holds again.
LEMMA ThereAgain ==
  ASSUME NEW g, NEW q \in Nat, Given(g)', ReaderType', DeliveredSoFar', Len(delivered') + 1 = q, Place(g, q)'
  PROVE  ReaderAt(g)'
BY DEF ReaderAt

\* The loop of onData goes on while there are bytes.
LEMMA TurnIs ==
  ASSUME NEW g, Given(g), NEW k \in Nat, k <= Len(chunk), Read(k), NextTurn(k)
  PROVE  phase' \in {"idle", "header"} /\ (phase' = "idle" => chunk' = <<>>) /\ (Len(chunk') = 0 => phase' = "idle")
<1>1. chunk \in Seq(Nat) /\ chunk' = SubSeq(chunk, k + 1, Len(chunk))
  BY DEF Given, Read
<1>2. Len(chunk') = Len(chunk) - k
  BY <1>1
<1>3. CASE k < Len(chunk)
  BY <1>1, <1>2, <1>3 DEF NextTurn
<1>4. CASE k = Len(chunk)
  BY <1>1, <1>2, <1>4 DEF NextTurn
<1> QED
  BY <1>1, <1>3, <1>4

\* A turn that reads nothing.
LEMMA TurnSame ==
  ASSUME NEW g, Given(g), chunk' = chunk, NextTurn(0)
  PROVE  phase' \in {"idle", "header"} /\ (phase' = "idle" => chunk' = <<>>) /\ (Len(chunk') = 0 => phase' = "idle")
BY DEF NextTurn, Given

-----------------------------------------------------------------------------
(***************************************************************************)
(* Every step of the reader.                                               *)
(***************************************************************************)
\* A packet under way goes on with the frame the chunk before has cut.
LEMMA GoOnKept ==
  ASSUME NEW g, ReaderAt(g), stream' = stream, GoOn
  PROVE  ReaderAt(g)'
<1>1. Given(g) /\ ReaderType /\ DeliveredSoFar
  BY NextIs
<1>2. PICK p \in Nat : p = Len(delivered) + 1 /\ Place(g, p)
  BY NextIs
<1>3. phase = "header" /\ remainingLen > 0
  BY DEF GoOn
<1>4. p \in DOMAIN packets
  BY <1>1, <1>2, <1>3, WhenCut
<1>5. PICK f \in 1..FrameCount(p) : InFrame(g, p, f, remainingLen)
  BY <1>1, <1>2, <1>3, WhenCut
<1>6. PICK o \in Nat, l \in Nat, b \in Nat, n \in Nat, c \in Nat, u \in Nat : FrameIs(p, f, o, l, b, n, c, u)
  BY <1>1, <1>4, FrameHere
<1>7. o = FrameAt(p, f) /\ l = FrameLen(p, f) /\ b = Before(f)
  BY <1>6 DEF FrameIs
<1>8. PICK left \in 0..l : left = remainingLen
  BY <1>5, <1>7 DEF InFrame
<1>9. PICK k : k = b + l - left
  OBVIOUS
<1>10. packetLen = l /\ sequenceNo = f /\ g - Len(chunk) = o + 4 + l - left /\ PartsAre(p, k)
  BY <1>5, <1>7, <1>8, <1>9 DEF InFrame
<1>11. /\ packets' = packets /\ chunk' = chunk /\ packetLen' = l /\ sequenceNo' = f /\ g - Len(chunk') = o + 4 + l - left
       /\ parts' = parts /\ partsTotalLen' = partsTotalLen /\ delivered' = delivered /\ remainingLen' = remainingLen
       /\ phase' = "payload" /\ length' = left /\ left > 0
  BY <1>3, <1>8, <1>10 DEF GoOn, frame
<1>12. PartsAre(p, k)'
  BY <1>10, <1>11, PartsSame
<1>13. Place(g, p)'
  BY <1>4, <1>7, <1>9, <1>11, <1>12, ToPayload
<1>14. Given(g)'
  BY <1>1, <1>11, ChunkSame
<1>15. DeliveredSoFar'
  BY <1>1, <1>11, DeliverNone
<1>16. ReaderType'
  BY <1>1, <1>11 DEF ReaderType
<1> QED
  BY <1>2, <1>11, <1>13, <1>14, <1>15, <1>16, ThereAgain

\* A header is at hand.
LEMMA HeaderAtHandKept ==
  ASSUME NEW g, ReaderAt(g), stream' = stream, HeaderAtHand
  PROVE  ReaderAt(g)'
<1>1. Given(g) /\ ReaderType /\ DeliveredSoFar
  BY NextIs
<1>2. PICK p \in Nat : p = Len(delivered) + 1 /\ Place(g, p)
  BY NextIs
<1>3. phase = "header" /\ remainingLen = 0 /\ header = <<>> /\ Len(chunk) >= 4
  BY DEF HeaderAtHand, Left
<1>4. p \in DOMAIN packets
  BY <1>1, <1>2, <1>3, WhenHeader
<1>5. PICK f \in 1..FrameCount(p) : AtFrame(g, p, f)
  BY <1>1, <1>2, <1>3, WhenHeader
<1>6. PICK o \in Nat, l \in Nat, b \in Nat, n \in Nat, c \in Nat, u \in Nat : FrameIs(p, f, o, l, b, n, c, u)
  BY <1>1, <1>4, FrameHere
<1>7. o = FrameAt(p, f) /\ l = FrameLen(p, f) /\ b = Before(f)
  BY <1>6 DEF FrameIs
<1>8. g - Len(chunk) = o /\ PartsAre(p, b)
  BY <1>3, <1>5, <1>7 DEF AtFrame
<1>9. PICK m \in Nat : m = Len(chunk) /\ g \in Nat /\ m >= 4
  <2>1. chunk \in Seq(Nat) /\ g \in Nat
    BY <1>1 DEF Given
  <2> QED
    BY <1>3, <2>1
<1>10. PICK h : h = Taken(4)
  OBVIOUS
<1>11. PICK e \in Nat, a \in Nat : e = 4 /\ a = 0
  OBVIOUS
<1>12. h \in Seq(Nat) /\ Len(h) = 4 /\ \A j \in 1..4 : h[j] = stream[(g - Len(chunk)) + 0 + j]
  <2>1. CutOf(h, chunk, a, e)
    BY <1>10, <1>11 DEF CutOf, Taken
  <2>2. a + e <= Len(chunk)
    BY <1>9, <1>11
  <2>3. h \in Seq(Nat) /\ Len(h) = e /\ \A j \in 1..e : h[j] = stream[(g - Len(chunk)) + a + j]
    BY <1>1, <2>1, <2>2, ChunkPart
  <2> QED
    BY <1>11, <2>3
<1>13. h[1] = stream[o + 1] /\ h[2] = stream[o + 2] /\ h[3] = stream[o + 3] /\ h[4] = stream[o + 4]
  BY <1>8, <1>12
<1>14. LengthIn(h) = l /\ h[4] = f
  BY <1>6, <1>13 DEF FrameIs
<1>15. chunk[4] = h[4]
  <2>1. chunk[4] = stream[(g - Len(chunk)) + 4]
    BY <1>1, <1>9 DEF Given
  <2> QED
    BY <1>8, <1>13, <2>1
<1>16. /\ packets' = packets /\ packetLen' = l /\ sequenceNo' = f /\ length' = l /\ phase' = "payload" /\ Read(4)
       /\ parts' = parts /\ partsTotalLen' = partsTotalLen /\ delivered' = delivered /\ remainingLen' = 0
  BY <1>3, <1>10, <1>14, <1>15 DEF HeaderAtHand
<1>17. Given(g)' /\ Len(chunk') = m - 4
  BY <1>1, <1>9, <1>16, ChunkRest
<1>18. PICK left \in 0..l : left = l
  OBVIOUS
<1>19. PICK k : k = b + l - left
  OBVIOUS
<1>20. Place(g, p)'
  <2>1. k = b
    BY <1>18, <1>19
  <2>2. PartsAre(p, k)'
    BY <1>8, <1>16, <2>1, PartsSame
  <2>3. g - Len(chunk') = o + 4 + l - left
    BY <1>8, <1>9, <1>17, <1>18
  <2>4. length' = left
    BY <1>16, <1>18
  <2>5. left > 0 \/ l = 0
    BY <1>18
  <2> QED
    BY <1>4, <1>7, <1>16, <1>19, <2>2, <2>3, <2>4, <2>5, ToPayload
<1>21. DeliveredSoFar'
  BY <1>1, <1>16, DeliverNone
<1>22. ReaderType'
  BY <1>16 DEF ReaderType
<1> QED
  BY <1>2, <1>16, <1>17, <1>20, <1>21, <1>22, ThereAgain

\* A header comes in pieces, or its last one.
LEMMA CutHeaderKept ==
  ASSUME NEW g, ReaderAt(g), stream' = stream, CutHeader
  PROVE  ReaderAt(g)'
<1>1. Given(g) /\ ReaderType /\ DeliveredSoFar
  BY NextIs
<1>2. PICK p \in Nat : p = Len(delivered) + 1 /\ Place(g, p)
  BY NextIs
<1>3. phase = "header" /\ remainingLen = 0
  BY DEF CutHeader
<1>4. p \in DOMAIN packets
  BY <1>1, <1>2, <1>3, WhenHeader
<1>5. PICK f \in 1..FrameCount(p) : AtFrame(g, p, f)
  BY <1>1, <1>2, <1>3, WhenHeader
<1>6. PICK o \in Nat, l \in Nat, b \in Nat, n \in Nat, c \in Nat, u \in Nat : FrameIs(p, f, o, l, b, n, c, u)
  BY <1>1, <1>4, FrameHere
<1>7. o = FrameAt(p, f) /\ l = FrameLen(p, f) /\ b = Before(f)
  BY <1>6 DEF FrameIs
<1>8. PICK x \in Seq(Nat), e \in 0..3 : x = header /\ e = Len(x) /\ \A i \in 1..e : x[i] = stream[o + i]
  <2>1. header \in Seq(Nat) /\ Len(header) < 4 /\ \A i \in 1..Len(header) : header[i] = stream[o + i]
    BY <1>5, <1>7 DEF AtFrame
  <2>2. PICK z \in Nat : z = Len(header) /\ z < 4
    <3>1. header \in Seq(Nat) /\ Len(header) < 4
      BY <2>1
    <3> QED
      BY <3>1
  <2>3. Len(header) \in 0..3
    BY <2>2
  <2> QED
    BY <2>1, <2>3
<1>9. g - Len(chunk) = o + e /\ PartsAre(p, b)
  BY <1>5, <1>7, <1>8 DEF AtFrame
<1>10. PICK m \in Nat : m = Len(chunk) /\ g \in Nat
  <2>1. chunk \in Seq(Nat) /\ g \in Nat
    BY <1>1 DEF Given
  <2> QED
    BY <2>1
<1>11. PICK k \in Nat : k = (IF m < 4 - e THEN m ELSE 4 - e)
  <2>1. 4 - e \in Nat
    OBVIOUS
  <2> QED
    BY <2>1
<1>12. k <= Len(chunk) /\ e + k \in 0..4
  BY <1>10, <1>11
<1>13. PICK y : y = Taken(k)
  OBVIOUS
<1>14. y \in Seq(Nat) /\ Len(y) = k /\ \A j \in 1..k : y[j] = stream[o + e + j]
  <2>1. PICK a \in Nat : a = 0
    OBVIOUS
  <2>2. CutOf(y, chunk, a, k)
    BY <1>13, <2>1 DEF CutOf, Taken
  <2>3. a + k <= Len(chunk)
    BY <1>12, <2>1
  <2>4. y \in Seq(Nat) /\ Len(y) = k /\ \A j \in 1..k : y[j] = stream[(g - Len(chunk)) + a + j]
    BY <1>1, <2>2, <2>3, ChunkPart
  <2>5. \A j \in 1..k : (g - Len(chunk)) + a + j = o + e + j
    BY <1>9, <2>1
  <2> QED
    BY <2>4, <2>5
<1>15. PICK h : Joins(h, x, y)
  BY DEF Joins
<1>16. /\ h \in Seq(Nat) /\ Len(h) = Len(x) + Len(y) /\ \A j \in 1..Len(x) : h[j] = x[j]
       /\ \A j \in 1..Len(y) : h[Len(x) + j] = y[j]
  BY <1>14, <1>15, JoinsIs
<1>17. PICK w \in 0..4 : w = e + k /\ Len(h) = w
  BY <1>8, <1>12, <1>14, <1>16
<1>18. ASSUME NEW i \in 1..w PROVE h[i] = stream[o + i]
  <2>1. CASE i <= e
    BY <1>8, <1>16, <2>1
  <2>2. CASE i > e
    <3>1. PICK j \in 1..k : j = i - e
      BY <1>17, <2>2
    <3>2. h[e + j] = y[j]
      BY <1>8, <1>14, <1>16
    <3>3. y[j] = stream[o + e + j]
      BY <1>14
    <3>4. i = e + j /\ o + e + j = o + i
      BY <3>1
    <3> QED
      BY <3>2, <3>3, <3>4
  <2> QED
    BY <2>1, <2>2
<1>19. h = header \o Taken(k)
  BY <1>8, <1>13, <1>15 DEF Joins
<1>20. k = (IF Left < 4 - Len(header) THEN Left ELSE 4 - Len(header))
  BY <1>8, <1>10, <1>11 DEF Left
<1>21. /\ header' = h /\ Read(k) /\ phase' = "payload" /\ packets' = packets /\ remainingLen' = 0
       /\ parts' = parts /\ partsTotalLen' = partsTotalLen /\ delivered' = delivered
       /\ IF w = 4 THEN packetLen' = LengthIn(h) /\ sequenceNo' = h[4] /\ length' = packetLen' ELSE length' = -1
  BY <1>3, <1>17, <1>19, <1>20 DEF CutHeader
<1>22. Given(g)' /\ Len(chunk') = m - k
  BY <1>1, <1>10, <1>12, <1>21, ChunkRest
<1>23. PartsAre(p, b)'
  BY <1>9, <1>21, PartsSame
<1>24. g - Len(chunk') = o + w
  BY <1>9, <1>10, <1>17, <1>22
<1>25. DeliveredSoFar'
  BY <1>1, <1>21, DeliverNone
<1>26. CASE w = 4
  <2>1. h[1] = stream[o + 1] /\ h[2] = stream[o + 2] /\ h[3] = stream[o + 3] /\ h[4] = stream[o + 4]
    BY <1>18, <1>26
  <2>2. LengthIn(h) = l /\ h[4] = f
    BY <1>6, <2>1 DEF FrameIs
  <2>3. PICK left \in 0..l : left = l
    OBVIOUS
  <2>4. PICK z : z = b + l - left
    OBVIOUS
  <2>5. packetLen' = l /\ sequenceNo' = f /\ length' = left
    BY <1>21, <1>26, <2>2, <2>3
  <2>6. z = b /\ g - Len(chunk') = o + 4 + l - left
    BY <1>24, <1>26, <2>3, <2>4
  <2>7. PartsAre(p, z)'
    BY <1>9, <1>21, <2>6, PartsSame
  <2>8. left > 0 \/ l = 0
    BY <2>3
  <2>9. Place(g, p)'
    <3>1. g - Len(chunk') = o + 4 + l - left
      BY <2>6
    <3>2. length' = left
      BY <2>5
    <3> QED
      BY <1>4, <1>7, <1>21, <2>4, <2>5, <2>7, <2>8, <3>1, <3>2, ToPayload
  <2>10. ReaderType'
    BY <1>21, <2>3, <2>5 DEF ReaderType
  <2> QED
    BY <1>2, <1>21, <1>22, <1>25, <2>9, <2>10, ThereAgain
<1>27. CASE w # 4
  <2>1. w \in 0..3 /\ length' = -1 /\ phase' # "fast"
    BY <1>21, <1>27
  <2>2. Place(g, p)'
    <3>1. PICK v \in 0..3 : v = w
      BY <2>1
    <3>2. HeadIs(h, v, o)
      BY <1>16, <1>17, <1>18, <3>1 DEF HeadIs
    <3>5. g - Len(chunk') = o + v
      BY <1>24, <3>1
    <3>6. header' = h
      BY <1>21
    <3>7. phase' # "fast" /\ length' = -1
      BY <2>1
    <3>8. packets' = packets /\ remainingLen' = 0
      BY <1>21
    <3> QED
      BY <1>4, <1>7, <1>23, <3>2, <3>5, <3>6, <3>7, <3>8, ToHeader
  <2>3. ReaderType'
    BY <1>21, <2>1 DEF ReaderType
  <2> QED
    BY <1>2, <1>21, <1>22, <1>25, <2>2, <2>3, ThereAgain
<1> QED
  BY <1>26, <1>27

\* A turn that has nothing to do.
LEMMA NothingYetKept ==
  ASSUME NEW g, ReaderAt(g), stream' = stream, NothingYet
  PROVE  ReaderAt(g)'
<1>1. Given(g) /\ ReaderType /\ DeliveredSoFar
  BY NextIs
<1>2. PICK p \in Nat : p = Len(delivered) + 1 /\ Place(g, p)
  BY NextIs
<1>3. phase = "payload" /\ (length = -1 \/ (length = 0 /\ parts = None))
  BY DEF NothingYet
<1>4. length = -1
  <2> SUFFICES ASSUME length = 0, parts = None PROVE FALSE
    BY <1>3
  <2>1. p \in DOMAIN packets
    BY <1>1, <1>2, <1>3, WhenPayload
  <2>2. PICK f \in 1..FrameCount(p) : FrameLen(p, f) = 0 /\ InFrame(g, p, f, length)
    BY <1>1, <1>2, <1>3, WhenPayload
  <2>3. PICK o \in Nat, l \in Nat, b \in Nat, n \in Nat, c \in Nat, u \in Nat : FrameIs(p, f, o, l, b, n, c, u)
    BY <1>1, <2>1, FrameHere
  <2>4. b = Before(f) /\ l = 0 /\ n > 0
    BY <2>2, <2>3 DEF FrameIs
  <2>5. PartsAre(p, b)
    BY <2>2, <2>4 DEF InFrame
  <2>6. b = 0
    BY <2>5 DEF PartsAre
  <2>7. PICK w \in Nat \ {0} : w = MaxLen
    BY ReaderConstants
  <2>8. /\ f > 1 => b >= w
        /\ f < c => l = w
        /\ f = c => b + l = n
        /\ f \in 1..c
    BY <2>3, <2>7 DEF FrameIs
  <2> QED
    BY <2>4, <2>6, <2>7, <2>8
<1>5. p \in DOMAIN packets
  BY <1>1, <1>2, <1>3, <1>4, WhenHeader
<1>6. PICK f \in 1..FrameCount(p) : AtFrame(g, p, f)
  BY <1>1, <1>2, <1>3, <1>4, WhenHeader
<1>7. PICK o \in Nat, l \in Nat, b \in Nat, n \in Nat, c \in Nat, u \in Nat : FrameIs(p, f, o, l, b, n, c, u)
  BY <1>1, <1>5, FrameHere
<1>8. o = FrameAt(p, f) /\ l = FrameLen(p, f) /\ b = Before(f)
  BY <1>7 DEF FrameIs
<1>9. PICK h \in Seq(Nat), m \in 0..3 : h = header /\ m = Len(h) /\ \A i \in 1..m : h[i] = stream[o + i]
  <2>1. header \in Seq(Nat) /\ Len(header) < 4 /\ \A i \in 1..Len(header) : header[i] = stream[o + i]
    BY <1>6, <1>8 DEF AtFrame
  <2>2. PICK z \in Nat : z = Len(header) /\ z < 4
    <3>1. header \in Seq(Nat) /\ Len(header) < 4
      BY <2>1
    <3> QED
      BY <3>1
  <2>3. Len(header) \in 0..3
    BY <2>2
  <2> QED
    BY <2>1, <2>3
<1>10. g - Len(chunk) = o + m /\ PartsAre(p, b) /\ remainingLen = 0
  BY <1>6, <1>8, <1>9 DEF AtFrame
<1>11. /\ packets' = packets /\ chunk' = chunk /\ header' = h /\ remainingLen' = 0 /\ parts' = parts
       /\ partsTotalLen' = partsTotalLen /\ delivered' = delivered /\ NextTurn(0) /\ length' = -1
  BY <1>9, <1>10 DEF NothingYet, frame
<1>12. phase' \in {"idle", "header"} /\ (phase' = "idle" => chunk' = <<>>)
  BY <1>1, <1>11, TurnSame
<1>13. PartsAre(p, b)'
  BY <1>10, <1>11, PartsSame
<1>14. g - Len(chunk') = o + m /\ phase' # "fast"
  BY <1>10, <1>11, <1>12
<1>15. Place(g, p)'
  <2>2. HeadIs(h, m, o)
    BY <1>9 DEF HeadIs
  <2>3. g - Len(chunk') = o + m
    BY <1>14
  <2>4. phase' # "fast" /\ length' = -1 /\ header' = h /\ packets' = packets /\ remainingLen' = 0
    BY <1>11, <1>14
  <2> QED
    BY <1>5, <1>8, <1>13, <2>2, <2>3, <2>4, ToHeader
<1>16. Given(g)'
  BY <1>1, <1>11, ChunkSame
<1>17. DeliveredSoFar'
  BY <1>1, <1>11, DeliverNone
<1>18. ReaderType'
  BY <1>11, <1>12 DEF ReaderType
<1> QED
  BY <1>2, <1>11, <1>15, <1>16, <1>17, <1>18, ThereAgain

\* What is known in the payload of a frame: what is left of it, and that k bytes of the packet are kept.
InPayload(g, p, f, o, l, b, n, c, u, left, k) ==
  /\ p \in DOMAIN packets /\ p = Len(delivered) + 1 /\ f \in 1..FrameCount(p) /\ FrameIs(p, f, o, l, b, n, c, u)
  /\ left \in 0..l /\ left = length /\ k = b + l - left /\ (left > 0 \/ l = 0)
  /\ packetLen = l /\ sequenceNo = f /\ g - Len(chunk) = o + 4 + l - left /\ PartsAre(p, k)

\* So it is behind the header of a frame.
LEMMA PayloadHere ==
  ASSUME NEW g, ReaderAt(g), phase = "payload", length # -1
  PROVE  \E p, f, o, l, b, n, c, u, left, k \in Nat : InPayload(g, p, f, o, l, b, n, c, u, left, k)
<1>1. Given(g) /\ ReaderType /\ DeliveredSoFar
  BY NextIs
<1>2. PICK p \in Nat : p = Len(delivered) + 1 /\ Place(g, p)
  BY NextIs
<1>3. p \in DOMAIN packets
  BY <1>1, <1>2, WhenPayload
<1>4. PICK f \in 1..FrameCount(p) : (length > 0 \/ (length = 0 /\ FrameLen(p, f) = 0)) /\ InFrame(g, p, f, length)
  BY <1>1, <1>2, WhenPayload
<1>5. PICK o \in Nat, l \in Nat, b \in Nat, n \in Nat, c \in Nat, u \in Nat : FrameIs(p, f, o, l, b, n, c, u)
  BY <1>1, <1>3, FrameHere
<1>6. o = FrameAt(p, f) /\ l = FrameLen(p, f) /\ b = Before(f) /\ c = FrameCount(p)
  BY <1>5 DEF FrameIs
<1>7. PICK left \in Nat : left = length /\ left \in 0..l /\ (left > 0 \/ l = 0)
  BY <1>4, <1>6 DEF InFrame
<1>8. PICK k \in Nat : k = b + l - left
  BY <1>7
<1>9. packetLen = l /\ sequenceNo = f /\ g - Len(chunk) = o + 4 + l - left /\ PartsAre(p, k)
  BY <1>4, <1>6, <1>7, <1>8 DEF InFrame
<1>10. f \in Nat
  OBVIOUS
<1>11. InPayload(g, p, f, o, l, b, n, c, u, left, k)
  BY <1>2, <1>3, <1>5, <1>7, <1>8, <1>9 DEF InPayload
<1> QED
  BY <1>10, <1>11

\* The chunk ends before the frame does.
LEMMA ChunkEndsKept ==
  ASSUME NEW g, ReaderAt(g), stream' = stream, ChunkEnds
  PROVE  ReaderAt(g)'
<1>1. Given(g) /\ ReaderType /\ DeliveredSoFar
  BY NextIs
<1>2. PICK m \in Nat : m = Len(chunk) /\ g \in Nat
  <2>1. chunk \in Seq(Nat) /\ g \in Nat
    BY <1>1 DEF Given
  <2> QED
    BY <2>1
<1>3. phase = "payload" /\ length # -1 /\ length > 0 /\ m < length
  BY <1>2 DEF ChunkEnds, Left
<1>4. PICK p, f, o, l, b, n, c, u, left, k \in Nat : InPayload(g, p, f, o, l, b, n, c, u, left, k)
  BY <1>3, PayloadHere
<1>5. /\ p \in DOMAIN packets /\ f \in 1..FrameCount(p) /\ FrameIs(p, f, o, l, b, n, c, u)
      /\ left \in 0..l /\ left = length /\ k = b + l - left /\ p = Len(delivered) + 1
      /\ packetLen = l /\ sequenceNo = f /\ g - Len(chunk) = o + 4 + l - left /\ PartsAre(p, k)
  BY <1>4 DEF InPayload
<1>6. o = FrameAt(p, f) /\ l = FrameLen(p, f) /\ b = Before(f)
  BY <1>5 DEF FrameIs
<1>7. PICK y : y = Taken(m)
  OBVIOUS
<1>8. BytesFrom(y, p, k, m)
  <2>1. PICK a \in Nat : a = 0
    OBVIOUS
  <2>2. CutOf(y, chunk, a, m)
    BY <1>7, <2>1 DEF CutOf, Taken
  <2>3. a + m <= Len(chunk)
    BY <1>2, <2>1
  <2>4. (g - Len(chunk)) + a = o + 4 + l - left
    BY <1>2, <1>5, <2>1
  <2>5. m <= left
    BY <1>3, <1>5
  <2>6. left \in 0..l /\ k = b + l - left /\ FrameIs(p, f, o, l, b, n, c, u)
    BY <1>5
  <2> QED
    BY <1>1, <2>2, <2>3, <2>4, <2>5, <2>6, FramePart
<1>9. /\ Keep(y) /\ remainingLen' = left - m /\ phase' = "idle" /\ Read(m) /\ length' = -1 /\ packets' = packets
      /\ packetLen' = l /\ sequenceNo' = f /\ delivered' = delivered
  BY <1>2, <1>5, <1>7 DEF ChunkEnds, Left
<1>10. Given(g)' /\ Len(chunk') = m - m
  BY <1>1, <1>2, <1>9, ChunkRest
<1>11. PICK r \in 1..l : r = left - m
  BY <1>3, <1>5
<1>12. PICK z : z = k + m
  OBVIOUS
<1>13. PartsAre(p, z)'
  <2>1. PartsAre(p, k)
    BY <1>5
  <2>2. PartsAre(p, k + m)'
    BY <1>8, <1>9, <2>1, KeepIs
  <2> QED
    BY <1>12, <2>2 DEF PartsAre
<1>14. z = b + l - r
  BY <1>5, <1>11, <1>12
<1>15. g - Len(chunk') = o + 4 + l - r
  BY <1>2, <1>5, <1>10, <1>11
<1>16. Place(g, p)'
  <2>1. remainingLen' = r
    BY <1>9, <1>11
  <2>2. p \in DOMAIN packets /\ f \in 1..FrameCount(p)
    BY <1>5
  <2>3. packets' = packets /\ packetLen' = l /\ sequenceNo' = f /\ phase' \in {"idle", "header"}
    BY <1>9
  <2>4. o = FrameAt(p, f)
    BY <1>6
  <2>5. l = FrameLen(p, f)
    BY <1>6
  <2>6. b = Before(f)
    BY <1>6
  <2> QED
    BY <1>13, <1>14, <1>15, <2>1, <2>2, <2>3, <2>4, <2>5, <2>6, ToRest
<1>17. DeliveredSoFar'
  BY <1>1, <1>9, DeliverNone
<1>18. ReaderType'
  <2>1. chunk' = <<>>
    BY <1>2, <1>10 DEF Given
  <2> QED
    BY <1>9, <1>11, <2>1 DEF ReaderType
<1>19. Len(delivered') + 1 = p
  BY <1>5, <1>9
<1> QED
  BY <1>10, <1>16, <1>17, <1>18, <1>19, ThereAgain

\* A packet that is all there, in one frame.
LEMMA WholePacketKept ==
  ASSUME NEW g, ReaderAt(g), stream' = stream, WholePacket
  PROVE  ReaderAt(g)'
<1>1. Given(g) /\ ReaderType /\ DeliveredSoFar
  BY NextIs
<1>2. PICK m \in Nat : m = Len(chunk) /\ g \in Nat
  <2>1. chunk \in Seq(Nat) /\ g \in Nat
    BY <1>1 DEF Given
  <2> QED
    BY <2>1
<1>3. phase = "payload" /\ length # -1 /\ length > 0 /\ m >= length /\ parts = None /\ packetLen < MaxLen
  BY <1>2 DEF WholePacket, Left
<1>4. PICK p, f, o, l, b, n, c, u, left, k \in Nat : InPayload(g, p, f, o, l, b, n, c, u, left, k)
  BY <1>3, PayloadHere
<1>5. /\ p \in DOMAIN packets /\ f \in 1..FrameCount(p) /\ FrameIs(p, f, o, l, b, n, c, u)
      /\ left \in 0..l /\ left = length /\ k = b + l - left /\ p = Len(delivered) + 1
      /\ packetLen = l /\ sequenceNo = f /\ g - Len(chunk) = o + 4 + l - left /\ PartsAre(p, k)
  BY <1>4 DEF InPayload
<1>6. PICK w \in Nat \ {0} : w = MaxLen
  BY ReaderConstants
<1>7. /\ f \in 1..c /\ c = FrameCount(p) /\ n = packets[p] /\ u = UpTo(p)
      /\ (f = c => o + 4 + l = u /\ b + l = n) /\ (f < c => l = w)
  BY <1>5, <1>6 DEF FrameIs
<1>8. k = 0 /\ b = 0 /\ left = l
  BY <1>3, <1>5 DEF PartsAre
<1>9. f = c /\ o + 4 + l = u /\ l = n
  BY <1>3, <1>5, <1>6, <1>7, <1>8
<1>10. PICK y : y = Taken(left)
  OBVIOUS
<1>11. left <= Len(chunk)
  BY <1>2, <1>3, <1>5
<1>12. BytesFrom(y, p, k, left)
  <2>1. PICK a \in Nat : a = 0
    OBVIOUS
  <2>2. CutOf(y, chunk, a, left)
    BY <1>10, <2>1 DEF CutOf, Taken
  <2>3. a + left <= Len(chunk)
    BY <1>2, <1>11, <2>1
  <2>4. (g - Len(chunk)) + a = o + 4 + l - left
    BY <1>2, <1>5, <2>1
  <2>5. left <= left
    OBVIOUS
  <2>6. left \in 0..l /\ k = b + l - left /\ FrameIs(p, f, o, l, b, n, c, u)
    BY <1>5
  <2> QED
    BY <1>1, <2>2, <2>3, <2>4, <2>5, <2>6, FramePart
<1>13. /\ Deliver(y, f) /\ Read(left) /\ phase' = "fast" /\ packets' = packets /\ parts' = None
       /\ length' = left /\ remainingLen' = remainingLen
  BY <1>3, <1>5, <1>10 DEF WholePacket, frame
<1>14. Given(g)' /\ Len(chunk') = m - left
  BY <1>1, <1>2, <1>11, <1>13, ChunkRest
<1>15. BytesFrom(y, p, 0, n)
  BY <1>8, <1>9, <1>12
<1>16. DeliveredSoFar' /\ Len(delivered') = p
  <2>1. f = FrameCount(p) /\ n = packets[p] /\ p \in DOMAIN packets /\ p = Len(delivered) + 1
    BY <1>5, <1>7, <1>9
  <2> QED
    BY <1>1, <1>13, <1>15, <2>1, DeliverOne
<1>17. PICK q \in Nat : q = p + 1 /\ q - 1 = p
  OBVIOUS
<1>18. Place(g, q)'
  <2>1. u = UpTo(q - 1)
    BY <1>7, <1>17
  <2>2. g - Len(chunk') = u
    BY <1>2, <1>5, <1>8, <1>9, <1>14
  <2>3. packets' = packets /\ phase' = "fast" /\ parts' = None
    BY <1>13
  <2> QED
    BY <2>1, <2>2, <2>3, ToBetween
<1>19. ReaderType'
  BY <1>1, <1>13 DEF ReaderType
<1>20. Len(delivered') + 1 = q
  BY <1>16, <1>17
<1> QED
  BY <1>14, <1>16, <1>18, <1>19, <1>20, ThereAgain

\* A full frame: its packet goes on with the next one.
LEMMA FullFrameKept ==
  ASSUME NEW g, ReaderAt(g), stream' = stream, FullFrame
  PROVE  ReaderAt(g)'
<1>1. Given(g) /\ ReaderType /\ DeliveredSoFar
  BY NextIs
<1>2. PICK m \in Nat : m = Len(chunk) /\ g \in Nat
  <2>1. chunk \in Seq(Nat) /\ g \in Nat
    BY <1>1 DEF Given
  <2> QED
    BY <2>1
<1>3. phase = "payload" /\ length # -1 /\ length > 0 /\ m >= length /\ packetLen >= MaxLen
  BY <1>2 DEF FullFrame, Left
<1>4. PICK p, f, o, l, b, n, c, u, left, k \in Nat : InPayload(g, p, f, o, l, b, n, c, u, left, k)
  BY <1>3, PayloadHere
<1>5. /\ p \in DOMAIN packets /\ f \in 1..FrameCount(p) /\ FrameIs(p, f, o, l, b, n, c, u)
      /\ left \in 0..l /\ left = length /\ k = b + l - left /\ p = Len(delivered) + 1
      /\ packetLen = l /\ sequenceNo = f /\ g - Len(chunk) = o + 4 + l - left /\ PartsAre(p, k)
  BY <1>4 DEF InPayload
<1>6. PICK w \in Nat \ {0} : w = MaxLen
  BY ReaderConstants
<1>7. /\ f \in 1..c /\ c = FrameCount(p) /\ n = packets[p] /\ u = UpTo(p)
      /\ (f = c => o + 4 + l = u /\ b + l = n /\ l < w)
      /\ (f < c => l = w /\ f + 1 \in 1..c /\ FrameAt(p, f + 1) = o + 4 + l /\ Before(f + 1) = b + l)
  BY <1>5, <1>6 DEF FrameIs
<1>8. f < c /\ l = w
  BY <1>3, <1>5, <1>6, <1>7
<1>9. PICK y : y = Taken(left)
  OBVIOUS
<1>10. left <= Len(chunk)
  BY <1>2, <1>3, <1>5
<1>11. BytesFrom(y, p, k, left)
  <2>1. PICK a \in Nat : a = 0
    OBVIOUS
  <2>2. CutOf(y, chunk, a, left)
    BY <1>9, <2>1 DEF CutOf, Taken
  <2>3. a + left <= Len(chunk)
    BY <1>2, <1>10, <2>1
  <2>4. (g - Len(chunk)) + a = o + 4 + l - left
    BY <1>2, <1>5, <2>1
  <2>5. left <= left
    OBVIOUS
  <2>6. left \in 0..l /\ k = b + l - left /\ FrameIs(p, f, o, l, b, n, c, u)
    BY <1>5
  <2> QED
    BY <1>1, <2>2, <2>3, <2>4, <2>5, <2>6, FramePart
<1>12. PICK e \in 1..FrameCount(p) : e = f + 1
  BY <1>7, <1>8
<1>13. /\ Keep(y) /\ Read(left) /\ NextTurn(left) /\ packets' = packets /\ delivered' = delivered
       /\ length' = -1 /\ header' = <<>> /\ remainingLen' = 0
  BY <1>5, <1>9 DEF FullFrame, ResetHeader
<1>14. Given(g)' /\ Len(chunk') = m - left
  BY <1>1, <1>2, <1>10, <1>13, ChunkRest
<1>15. phase' \in {"idle", "header"} /\ (phase' = "idle" => chunk' = <<>>)
  BY <1>1, <1>10, <1>13, TurnIs
<1>16. DeliveredSoFar'
  BY <1>1, <1>13, DeliverNone
<1>17. PICK o2 \in Nat, b2 \in Nat : o2 = o + 4 + l /\ b2 = b + l
  OBVIOUS
<1>18. Place(g, p)'
  <2>1. PICK h : h = <<>>
    OBVIOUS
  <2>2. PICK z \in 0..3 : z = 0
    OBVIOUS
  <2>3. HeadIs(h, z, o2)
    BY <2>1, <2>2 DEF HeadIs
  <2>4. PartsAre(p, b2)'
    <3>1. PartsAre(p, k)
      BY <1>5
    <3>2. PartsAre(p, k + left)'
      BY <1>11, <1>13, <3>1, KeepIs
    <3>3. k + left = b2
      BY <1>5, <1>17
    <3> QED
      BY <3>2, <3>3 DEF PartsAre
  <2>5. g - Len(chunk') = o2 + z
    BY <1>2, <1>5, <1>14, <1>17, <2>2
  <2>6. o2 = FrameAt(p, e)
    BY <1>7, <1>8, <1>12, <1>17
  <2>7. b2 = Before(e)
    BY <1>7, <1>8, <1>12, <1>17
  <2>8. header' = h /\ remainingLen' = 0 /\ packets' = packets /\ length' = -1
    BY <1>13, <2>1
  <2>9. phase' # "fast"
    BY <1>15
  <2>10. p \in DOMAIN packets
    BY <1>5
  <2> QED
    BY <2>3, <2>4, <2>5, <2>6, <2>7, <2>8, <2>9, <2>10, ToHeader
<1>19. ReaderType'
  BY <1>13, <1>15 DEF ReaderType
<1>20. Len(delivered') + 1 = p
  BY <1>5, <1>13
<1> QED
  BY <1>14, <1>16, <1>18, <1>19, <1>20, ThereAgain

\* The last part of a packet.
LEMMA LastPartKept ==
  ASSUME NEW g, ReaderAt(g), stream' = stream, LastPart
  PROVE  ReaderAt(g)'
<1>1. Given(g) /\ ReaderType /\ DeliveredSoFar
  BY NextIs
<1>2. PICK m \in Nat : m = Len(chunk) /\ g \in Nat
  <2>1. chunk \in Seq(Nat) /\ g \in Nat
    BY <1>1 DEF Given
  <2> QED
    BY <2>1
<1>3. phase = "payload" /\ length # -1 /\ length > 0 /\ m >= length /\ packetLen < MaxLen /\ parts # None
  BY <1>2 DEF LastPart, Left
<1>4. PICK p, f, o, l, b, n, c, u, left, k \in Nat : InPayload(g, p, f, o, l, b, n, c, u, left, k)
  BY <1>3, PayloadHere
<1>5. /\ p \in DOMAIN packets /\ f \in 1..FrameCount(p) /\ FrameIs(p, f, o, l, b, n, c, u)
      /\ left \in 0..l /\ left = length /\ k = b + l - left /\ p = Len(delivered) + 1
      /\ packetLen = l /\ sequenceNo = f /\ g - Len(chunk) = o + 4 + l - left /\ PartsAre(p, k)
  BY <1>4 DEF InPayload
<1>6. PICK w \in Nat \ {0} : w = MaxLen
  BY ReaderConstants
<1>7. /\ f \in 1..c /\ c = FrameCount(p) /\ n = packets[p] /\ u = UpTo(p)
      /\ (f = c => o + 4 + l = u /\ b + l = n /\ l < w)
      /\ (f < c => l = w /\ f + 1 \in 1..c /\ FrameAt(p, f + 1) = o + 4 + l /\ Before(f + 1) = b + l)
  BY <1>5, <1>6 DEF FrameIs
<1>8. f = c /\ o + 4 + l = u /\ b + l = n /\ k + left = n
  BY <1>3, <1>5, <1>6, <1>7
<1>9. PICK y : y = Taken(left)
  OBVIOUS
<1>10. left <= Len(chunk)
  BY <1>2, <1>3, <1>5
<1>11. BytesFrom(y, p, k, left)
  <2>1. PICK a \in Nat : a = 0
    OBVIOUS
  <2>2. CutOf(y, chunk, a, left)
    BY <1>9, <2>1 DEF CutOf, Taken
  <2>3. a + left <= Len(chunk)
    BY <1>2, <1>10, <2>1
  <2>4. (g - Len(chunk)) + a = o + 4 + l - left
    BY <1>2, <1>5, <2>1
  <2>5. left <= left
    OBVIOUS
  <2>6. left \in 0..l /\ k = b + l - left /\ FrameIs(p, f, o, l, b, n, c, u)
    BY <1>5
  <2> QED
    BY <1>1, <2>2, <2>3, <2>4, <2>5, <2>6, FramePart
<1>12. PICK x : x = parts \o y /\ BytesFrom(x, p, 0, n)
  <2>1. PartsAre(p, k) /\ parts # None
    BY <1>3, <1>5
  <2>2. n = k + left
    BY <1>8
  <2>3. BytesFrom(parts \o y, p, 0, n)
    BY <1>11, <2>1, <2>2, PartsAnd
  <2> QED
    BY <2>3
<1>13. /\ Deliver(x, f) /\ Read(left) /\ NextTurn(left) /\ packets' = packets /\ parts' = None
       /\ length' = -1 /\ header' = <<>> /\ remainingLen' = 0
  <2>1. partsTotalLen = k
    BY <1>3, <1>5 DEF PartsAre
  <2>2. Concat(x, n) = x
    BY <1>12, ConcatSame
  <2>3. Concat(parts \o Taken(length), partsTotalLen + length) = x
    BY <1>5, <1>8, <1>9, <1>12, <2>1, <2>2
  <2> QED
    BY <1>5, <2>3 DEF LastPart, ResetHeader
<1>14. Given(g)' /\ Len(chunk') = m - left
  BY <1>1, <1>2, <1>10, <1>13, ChunkRest
<1>15. phase' \in {"idle", "header"} /\ (phase' = "idle" => chunk' = <<>>) /\ (Len(chunk') = 0 => phase' = "idle")
  BY <1>1, <1>10, <1>13, TurnIs
<1>16. DeliveredSoFar' /\ Len(delivered') = p
  <2>1. f = FrameCount(p) /\ n = packets[p] /\ p \in DOMAIN packets /\ p = Len(delivered) + 1
    BY <1>5, <1>7, <1>8
  <2> QED
    BY <1>1, <1>12, <1>13, <2>1, DeliverOne
<1>17. PICK q \in Nat : q = p + 1 /\ q - 1 = p
  OBVIOUS
<1>18. Place(g, q)'
  <2>1. u = UpTo(q - 1)
    BY <1>7, <1>17
  <2>2. g - Len(chunk') = u
    BY <1>2, <1>5, <1>8, <1>13, <1>14
  <2>3. packets \in Seq(Nat \ {0}) /\ stream = Stream
    BY <1>1 DEF Given
  <2>4. q \in 1..(Len(packets) + 1)
    BY <1>5, <1>17, <2>3
  <2>5. packets' = packets /\ header' = <<>> /\ remainingLen' = 0 /\ parts' = None /\ length' = -1
    BY <1>13
  <2>6. phase' \in {"idle", "header"}
    BY <1>15
  <2>7. Len(chunk') = 0 => phase' = "idle"
    BY <1>15
  <2> QED
    BY <1>14, <2>1, <2>2, <2>3, <2>4, <2>5, <2>6, <2>7, ToNext
<1>19. ReaderType'
  BY <1>13, <1>15 DEF ReaderType
<1>20. Len(delivered') + 1 = q
  BY <1>16, <1>17
<1> QED
  BY <1>14, <1>16, <1>18, <1>19, <1>20, ThereAgain

\* The empty frame that ends a packet of full frames.
LEMMA EmptyFrameKept ==
  ASSUME NEW g, ReaderAt(g), stream' = stream, EmptyFrame
  PROVE  ReaderAt(g)'
<1>1. Given(g) /\ ReaderType /\ DeliveredSoFar
  BY NextIs
<1>2. PICK m \in Nat : m = Len(chunk) /\ g \in Nat
  <2>1. chunk \in Seq(Nat) /\ g \in Nat
    BY <1>1 DEF Given
  <2> QED
    BY <2>1
<1>3. phase = "payload" /\ length # -1 /\ length = 0 /\ parts # None
  BY DEF EmptyFrame
<1>4. PICK p, f, o, l, b, n, c, u, left, k \in Nat : InPayload(g, p, f, o, l, b, n, c, u, left, k)
  BY <1>3, PayloadHere
<1>5. /\ p \in DOMAIN packets /\ f \in 1..FrameCount(p) /\ FrameIs(p, f, o, l, b, n, c, u)
      /\ left \in 0..l /\ left = length /\ k = b + l - left /\ p = Len(delivered) + 1
      /\ packetLen = l /\ sequenceNo = f /\ g - Len(chunk) = o + 4 + l - left /\ PartsAre(p, k)
  BY <1>4 DEF InPayload
<1>6. PICK w \in Nat \ {0} : w = MaxLen
  BY ReaderConstants
<1>7. /\ f \in 1..c /\ c = FrameCount(p) /\ n = packets[p] /\ u = UpTo(p)
      /\ (f = c => o + 4 + l = u /\ b + l = n /\ l < w)
      /\ (f < c => l = w /\ f + 1 \in 1..c /\ FrameAt(p, f + 1) = o + 4 + l /\ Before(f + 1) = b + l)
  BY <1>5, <1>6 DEF FrameIs
<1>8. f = c /\ o + 4 + l = u /\ b + l = n /\ k = n /\ left = 0 /\ l = 0
  <2>1. left = 0 /\ l = 0
    BY <1>3, <1>4, <1>5 DEF InPayload
  <2> QED
    BY <1>5, <1>6, <1>7, <2>1
<1>12. PICK x : x = parts /\ BytesFrom(x, p, 0, n) /\ partsTotalLen = n
  <2>1. parts \in Seq(Nat) /\ Len(parts) = n /\ partsTotalLen = n /\ \A i \in 1..n : parts[i] = 100 * p + i
    BY <1>3, <1>5, <1>8 DEF PartsAre
  <2>2. \A i \in 1..n : parts[i] = 100 * p + 0 + i
    BY <2>1
  <2> QED
    BY <2>1, <2>2 DEF BytesFrom
<1>13. /\ Deliver(x, f) /\ chunk' = chunk /\ NextTurn(0) /\ packets' = packets /\ parts' = None
       /\ length' = -1 /\ header' = <<>> /\ remainingLen' = 0
  <2>1. Concat(x, n) = x
    BY <1>12, ConcatSame
  <2> QED
    BY <1>5, <1>12, <2>1 DEF EmptyFrame, ResetHeader
<1>14. Given(g)' /\ Len(chunk') = m - left
  <2>1. Given(g)'
    BY <1>1, <1>13, ChunkSame
  <2> QED
    BY <1>2, <1>8, <1>13, <2>1
<1>15. phase' \in {"idle", "header"} /\ (phase' = "idle" => chunk' = <<>>) /\ (Len(chunk') = 0 => phase' = "idle")
  BY <1>1, <1>13, TurnSame
<1>16. DeliveredSoFar' /\ Len(delivered') = p
  <2>1. f = FrameCount(p) /\ n = packets[p] /\ p \in DOMAIN packets /\ p = Len(delivered) + 1
    BY <1>5, <1>7, <1>8
  <2> QED
    BY <1>1, <1>12, <1>13, <2>1, DeliverOne
<1>17. PICK q \in Nat : q = p + 1 /\ q - 1 = p
  OBVIOUS
<1>18. Place(g, q)'
  <2>1. u = UpTo(q - 1)
    BY <1>7, <1>17
  <2>2. g - Len(chunk') = u
    BY <1>2, <1>5, <1>8, <1>13, <1>14
  <2>3. packets \in Seq(Nat \ {0}) /\ stream = Stream
    BY <1>1 DEF Given
  <2>4. q \in 1..(Len(packets) + 1)
    BY <1>5, <1>17, <2>3
  <2>5. packets' = packets /\ header' = <<>> /\ remainingLen' = 0 /\ parts' = None /\ length' = -1
    BY <1>13
  <2>6. phase' \in {"idle", "header"}
    BY <1>15
  <2>7. Len(chunk') = 0 => phase' = "idle"
    BY <1>15
  <2> QED
    BY <1>14, <2>1, <2>2, <2>3, <2>4, <2>5, <2>6, <2>7, ToNext
<1>19. ReaderType'
  BY <1>13, <1>15 DEF ReaderType
<1>20. Len(delivered') + 1 = q
  BY <1>16, <1>17
<1> QED
  BY <1>14, <1>16, <1>18, <1>19, <1>20, ThereAgain

\* What is known of the header the fast path finds.
InFast(g, p, f, o, l, b, n, c, u) ==
  /\ p \in DOMAIN packets /\ p = Len(delivered) + 1 /\ f \in 1..FrameCount(p) /\ FrameIs(p, f, o, l, b, n, c, u)
  /\ f = 1 /\ b = 0 /\ g - Len(chunk) = o /\ parts = None /\ FastLen = l /\ chunk[4] = f

\* So it is on the fast path.
LEMMA FastHere ==
  ASSUME NEW g, ReaderAt(g), FastHeader
  PROVE  \E p, f, o, l, b, n, c, u \in Nat : InFast(g, p, f, o, l, b, n, c, u)
<1>1. Given(g) /\ ReaderType /\ DeliveredSoFar
  BY NextIs
<1>2. PICK p \in Nat : p = Len(delivered) + 1 /\ Place(g, p)
  BY NextIs
<1>3. phase = "fast" /\ 4 < Len(chunk)
  BY DEF FastHeader
<1>4. parts = None /\ g - Len(chunk) = UpTo(p - 1)
  BY <1>2, <1>3, WhenFast DEF Between
<1>5. packets \in Seq(Nat \ {0}) /\ stream = Stream /\ g \in Nat /\ g <= Len(stream) /\ chunk \in Seq(Nat)
  BY <1>1 DEF Given
<1>6. p \in DOMAIN packets
  <2>1. p - 1 \in 0..Len(packets)
    BY <1>1, <1>2, <1>5 DEF DeliveredSoFar
  <2> SUFFICES ASSUME p \notin DOMAIN packets PROVE FALSE
    OBVIOUS
  <2>2. p - 1 = Len(packets)
    BY <1>5, <2>1
  <2>3. UpTo(p - 1) = Len(stream) /\ Stream \in Seq(Nat)
    BY <1>5, <2>2, StreamBytes
  <2> QED
    BY <1>3, <1>4, <1>5, <2>3
<1>7. PICK f \in Nat : f = 1 /\ f \in 1..FrameCount(p)
  <2>1. FrameCount(p) \in Nat \ {0}
    BY <1>5, <1>6, FramesFit
  <2> QED
    BY <2>1
<1>8. PICK o \in Nat, l \in Nat, b \in Nat, n \in Nat, c \in Nat, u \in Nat : FrameIs(p, f, o, l, b, n, c, u)
  BY <1>1, <1>6, <1>7, FrameHere
<1>9. b = 0 /\ o = UpTo(p - 1)
  BY <1>7, <1>8 DEF FrameIs
<1>10. PICK h : h = Taken(4)
  OBVIOUS
<1>11. h[1] = stream[o + 1] /\ h[2] = stream[o + 2] /\ h[3] = stream[o + 3] /\ chunk[4] = stream[o + 4]
  <2>1. PICK m \in Nat : m = Len(chunk) /\ m > 4
    BY <1>3, <1>5
  <2>2. h[1] = chunk[1] /\ h[2] = chunk[2] /\ h[3] = chunk[3]
    BY <1>5, <1>10, <2>1 DEF Taken
  <2>3. \A i \in 1..m : chunk[i] = stream[o + i]
    <3>1. \A i \in 1..Len(chunk) : chunk[i] = stream[(g - Len(chunk)) + i]
      BY <1>1 DEF Given
    <3> QED
      BY <1>4, <1>9, <2>1, <3>1
  <2>4. 1 \in 1..m /\ 2 \in 1..m /\ 3 \in 1..m /\ 4 \in 1..m
    BY <2>1
  <2> QED
    BY <2>2, <2>3, <2>4
<1>12. LengthIn(h) = l /\ chunk[4] = f
  BY <1>8, <1>11 DEF FrameIs
<1>13. FastLen = l
  BY <1>10, <1>12 DEF FastLen
<1>14. InFast(g, p, f, o, l, b, n, c, u)
  BY <1>2, <1>4, <1>6, <1>7, <1>8, <1>9, <1>12, <1>13 DEF InFast
<1> QED
  BY <1>14

\* The next packet is all there, in one frame.
LEMMA FastPacketKept ==
  ASSUME NEW g, ReaderAt(g), stream' = stream, FastPacket
  PROVE  ReaderAt(g)'
<1>1. Given(g) /\ ReaderType /\ DeliveredSoFar
  BY NextIs
<1>2. PICK m \in Nat : m = Len(chunk) /\ g \in Nat
  <2>1. chunk \in Seq(Nat) /\ g \in Nat
    BY <1>1 DEF Given
  <2> QED
    BY <2>1
<1>3. FastHeader /\ 4 < m
  BY <1>2 DEF FastPacket, FastHeader
<1>4. PICK p, f, o, l, b, n, c, u \in Nat : InFast(g, p, f, o, l, b, n, c, u)
  BY <1>3, FastHere
<1>5. /\ p \in DOMAIN packets /\ p = Len(delivered) + 1 /\ f \in 1..FrameCount(p) /\ FrameIs(p, f, o, l, b, n, c, u)
      /\ f = 1 /\ b = 0 /\ g - Len(chunk) = o /\ parts = None /\ FastLen = l /\ chunk[4] = f
  BY <1>4 DEF InFast
<1>6. PICK w \in Nat \ {0} : w = MaxLen
  BY ReaderConstants
<1>7. /\ f \in 1..c /\ c = FrameCount(p) /\ n = packets[p] /\ u = UpTo(p) /\ o = FrameAt(p, f) /\ l = FrameLen(p, f) /\ b = Before(f)
      /\ (f = c => o + 4 + l = u /\ b + l = n /\ l < w)
      /\ (f < c => l = w /\ f + 1 \in 1..c /\ FrameAt(p, f + 1) = o + 4 + l /\ Before(f + 1) = b + l)
  BY <1>5, <1>6 DEF FrameIs
<1>8. f = c /\ l = n /\ o + 4 + l = u /\ 4 + l <= m /\ l <= l
  <2>1. m - 4 >= l
    BY <1>2, <1>5 DEF FastPacket, Left
  <2>2. l < w
    BY <1>5, <1>6 DEF FastPacket
  <2>3. f \in 1..c /\ (f < c => l = w)
    BY <1>7
  <2>4. f = c
    BY <2>2, <2>3
  <2>5. o + 4 + l = u /\ b + l = n /\ b = 0
    BY <1>5, <1>7, <2>4
  <2> QED
    BY <1>2, <2>1, <2>4, <2>5
<1>9. PICK y : y = FastRest(l)
  OBVIOUS
<1>10. BytesFrom(y, p, 0, l)
  <2>1. PICK a \in Nat, z \in Nat : a = 4 /\ z = 0
    OBVIOUS
  <2>2. CutOf(y, chunk, a, l)
    <3>1. y = SubSeq(chunk, 4 + 1, 4 + l)
      BY <1>9 DEF FastRest
    <3> QED
      BY <2>1, <3>1 DEF CutOf
  <2>3. a + l <= Len(chunk)
    BY <1>2, <1>8, <2>1
  <2>4. PICK left \in 0..l : left = l
    OBVIOUS
  <2>5. (g - Len(chunk)) + a = o + 4 + l - left
    BY <1>2, <1>5, <2>1, <2>4
  <2>6. l <= left
    BY <1>8, <2>4
  <2>7. z = b + l - left
    BY <1>5, <2>1, <2>4
  <2>8. FrameIs(p, f, o, l, b, n, c, u)
    BY <1>5
  <2>9. BytesFrom(y, p, z, l)
    BY <1>1, <2>2, <2>3, <2>5, <2>6, <2>7, <2>8, FramePart
  <2> QED
    BY <2>1, <2>9
<1>11. PICK k \in Nat : k = 4 + l /\ k <= Len(chunk)
  BY <1>2, <1>8
<1>13. /\ Deliver(y, f) /\ Read(k) /\ phase' = phase /\ packets' = packets /\ parts' = None
       /\ length' = length /\ remainingLen' = remainingLen
  BY <1>5, <1>9, <1>11 DEF FastPacket
<1>14. Given(g)' /\ Len(chunk') = m - k
  BY <1>1, <1>2, <1>11, <1>13, ChunkRest
<1>16. DeliveredSoFar' /\ Len(delivered') = p
  <2>1. f = FrameCount(p) /\ n = packets[p] /\ p \in DOMAIN packets /\ p = Len(delivered) + 1
    BY <1>5, <1>7, <1>8
  <2>2. BytesFrom(y, p, 0, n)
    BY <1>8, <1>10
  <2> QED
    BY <1>1, <1>13, <2>1, <2>2, DeliverOne
<1>17. PICK q \in Nat : q = p + 1 /\ q - 1 = p
  OBVIOUS
<1>18. Place(g, q)'
  <2>1. u = UpTo(q - 1)
    BY <1>7, <1>17
  <2>2. g - Len(chunk') = u
    BY <1>2, <1>5, <1>8, <1>11, <1>14
  <2>3. packets' = packets /\ phase' = "fast" /\ parts' = None
    BY <1>3, <1>13 DEF FastHeader
  <2> QED
    BY <2>1, <2>2, <2>3, ToBetween
<1>19. ReaderType'
  BY <1>1, <1>3, <1>13 DEF ReaderType, FastHeader
<1>20. Len(delivered') + 1 = q
  BY <1>16, <1>17
<1> QED
  BY <1>14, <1>16, <1>18, <1>19, <1>20, ThereAgain

\* The next packet begins with a full frame.
LEMMA FastFullFrameKept ==
  ASSUME NEW g, ReaderAt(g), stream' = stream, FastFullFrame
  PROVE  ReaderAt(g)'
<1>1. Given(g) /\ ReaderType /\ DeliveredSoFar
  BY NextIs
<1>2. PICK m \in Nat : m = Len(chunk) /\ g \in Nat
  <2>1. chunk \in Seq(Nat) /\ g \in Nat
    BY <1>1 DEF Given
  <2> QED
    BY <2>1
<1>3. FastHeader /\ 4 < m
  BY <1>2 DEF FastFullFrame, FastHeader
<1>4. PICK p, f, o, l, b, n, c, u \in Nat : InFast(g, p, f, o, l, b, n, c, u)
  BY <1>3, FastHere
<1>5. /\ p \in DOMAIN packets /\ p = Len(delivered) + 1 /\ f \in 1..FrameCount(p) /\ FrameIs(p, f, o, l, b, n, c, u)
      /\ f = 1 /\ b = 0 /\ g - Len(chunk) = o /\ parts = None /\ FastLen = l /\ chunk[4] = f
  BY <1>4 DEF InFast
<1>6. PICK w \in Nat \ {0} : w = MaxLen
  BY ReaderConstants
<1>7. /\ f \in 1..c /\ c = FrameCount(p) /\ n = packets[p] /\ u = UpTo(p) /\ o = FrameAt(p, f) /\ l = FrameLen(p, f) /\ b = Before(f)
      /\ (f = c => o + 4 + l = u /\ b + l = n /\ l < w)
      /\ (f < c => l = w /\ f + 1 \in 1..c /\ FrameAt(p, f + 1) = o + 4 + l /\ Before(f + 1) = b + l)
  BY <1>5, <1>6 DEF FrameIs
<1>8. f < c /\ l = w /\ 4 + l <= m /\ l <= l
  <2>1. m - 4 >= l
    BY <1>2, <1>5 DEF FastFullFrame, Left
  <2>2. l >= w
    BY <1>5, <1>6 DEF FastFullFrame
  <2>3. l \in Nat /\ m \in Nat /\ w \in Nat /\ c \in Nat /\ f \in Nat
    BY ONLY <1>2, <1>4, <1>6
  <2>4. f # c
    BY ONLY <1>7, <2>2, <2>3
  <2>5. f < c /\ l = w
    BY ONLY <1>7, <2>3, <2>4
  <2> QED
    BY ONLY <2>1, <2>3, <2>5
<1>9. PICK y : y = FastRest(l)
  OBVIOUS
<1>10. BytesFrom(y, p, 0, l)
  <2>1. PICK a \in Nat, z \in Nat : a = 4 /\ z = 0
    OBVIOUS
  <2>2. CutOf(y, chunk, a, l)
    <3>1. y = SubSeq(chunk, 4 + 1, 4 + l)
      BY <1>9 DEF FastRest
    <3> QED
      BY <2>1, <3>1 DEF CutOf
  <2>3. a + l <= Len(chunk)
    BY <1>2, <1>8, <2>1
  <2>4. PICK left \in 0..l : left = l
    OBVIOUS
  <2>5. (g - Len(chunk)) + a = o + 4 + l - left
    BY <1>2, <1>5, <2>1, <2>4
  <2>6. l <= left
    BY <1>8, <2>4
  <2>7. z = b + l - left
    BY <1>5, <2>1, <2>4
  <2>8. FrameIs(p, f, o, l, b, n, c, u)
    BY <1>5
  <2>9. BytesFrom(y, p, z, l)
    BY <1>1, <2>2, <2>3, <2>5, <2>6, <2>7, <2>8, FramePart
  <2> QED
    BY <2>1, <2>9
<1>11. PICK k \in Nat : k = 4 + l /\ k <= Len(chunk)
  BY <1>2, <1>8
<1>12. PICK e \in 1..FrameCount(p) : e = f + 1
  BY <1>7, <1>8
<1>13. /\ parts' = y /\ partsTotalLen' = l /\ Read(k) /\ NextTurn(k) /\ packets' = packets /\ delivered' = delivered
       /\ length' = -1 /\ header' = <<>> /\ remainingLen' = 0
  BY <1>5, <1>9, <1>11 DEF FastFullFrame, ResetHeader
<1>14. Given(g)' /\ Len(chunk') = m - k
  BY <1>1, <1>2, <1>11, <1>13, ChunkRest
<1>15. phase' \in {"idle", "header"} /\ (phase' = "idle" => chunk' = <<>>)
  BY <1>1, <1>11, <1>13, TurnIs
<1>16. DeliveredSoFar'
  BY <1>1, <1>13, DeliverNone
<1>17. PICK o2 \in Nat, b2 \in Nat : o2 = o + 4 + l /\ b2 = b + l
  OBVIOUS
<1>18. Place(g, p)'
  <2>1. PICK h : h = <<>>
    OBVIOUS
  <2>2. PICK z \in 0..3 : z = 0
    OBVIOUS
  <2>3. HeadIs(h, z, o2)
    BY <2>1, <2>2 DEF HeadIs
  <2>4. PartsAre(p, b2)'
    <3>1. y \in Seq(Nat) /\ Len(y) = l /\ \A j \in 1..l : y[j] = 100 * p + 0 + j
      BY <1>10 DEF BytesFrom
    <3>2. b2 = l
      BY <1>5, <1>17
    <3>3. \A j \in 1..l : y[j] = 100 * p + j
      BY <3>1
    <3>4. parts' # None
      BY <1>13, <3>1, NoneApart
    <3> QED
      BY <1>13, <3>1, <3>2, <3>3, <3>4 DEF PartsAre
  <2>5. g - Len(chunk') = o2 + z
    BY <1>2, <1>5, <1>11, <1>14, <1>17, <2>2
  <2>6. o2 = FrameAt(p, e)
    BY <1>7, <1>8, <1>12, <1>17
  <2>7. b2 = Before(e)
    BY <1>7, <1>8, <1>12, <1>17
  <2>8. header' = h /\ remainingLen' = 0 /\ packets' = packets /\ length' = -1
    BY <1>13, <2>1
  <2>9. phase' # "fast"
    BY <1>15
  <2>10. p \in DOMAIN packets
    BY <1>5
  <2> QED
    BY <2>3, <2>4, <2>5, <2>6, <2>7, <2>8, <2>9, <2>10, ToHeader
<1>19. ReaderType'
  BY <1>13, <1>15 DEF ReaderType
<1>20. Len(delivered') + 1 = p
  BY <1>5, <1>13
<1> QED
  BY <1>14, <1>16, <1>18, <1>19, <1>20, ThereAgain

\* The chunk ends within the first frame of the next packet.
LEMMA FastChunkEndsKept ==
  ASSUME NEW g, ReaderAt(g), stream' = stream, FastChunkEnds
  PROVE  ReaderAt(g)'
<1>1. Given(g) /\ ReaderType /\ DeliveredSoFar
  BY NextIs
<1>2. PICK m \in Nat : m = Len(chunk) /\ g \in Nat
  <2>1. chunk \in Seq(Nat) /\ g \in Nat
    BY <1>1 DEF Given
  <2> QED
    BY <2>1
<1>3. FastHeader /\ 4 < m
  BY <1>2 DEF FastChunkEnds, FastHeader
<1>4. PICK p, f, o, l, b, n, c, u \in Nat : InFast(g, p, f, o, l, b, n, c, u)
  BY <1>3, FastHere
<1>5. /\ p \in DOMAIN packets /\ p = Len(delivered) + 1 /\ f \in 1..FrameCount(p) /\ FrameIs(p, f, o, l, b, n, c, u)
      /\ f = 1 /\ b = 0 /\ g - Len(chunk) = o /\ parts = None /\ FastLen = l /\ chunk[4] = f
  BY <1>4 DEF InFast
<1>6. PICK w \in Nat \ {0} : w = MaxLen
  BY ReaderConstants
<1>7. /\ f \in 1..c /\ c = FrameCount(p) /\ n = packets[p] /\ u = UpTo(p) /\ o = FrameAt(p, f) /\ l = FrameLen(p, f) /\ b = Before(f)
      /\ (f = c => o + 4 + l = u /\ b + l = n /\ l < w)
      /\ (f < c => l = w /\ f + 1 \in 1..c /\ FrameAt(p, f + 1) = o + 4 + l /\ Before(f + 1) = b + l)
  BY <1>5, <1>6 DEF FrameIs
<1>71. PICK e \in Nat : e = m - 4
  BY <1>2, <1>3
<1>8. e < l /\ 4 + e <= m /\ 4 + e = m /\ e <= l
  BY <1>2, <1>5, <1>71 DEF FastChunkEnds, Left
<1>9. PICK y : y = FastRest(e)
  OBVIOUS
<1>10. BytesFrom(y, p, 0, e)
  <2>1. PICK a \in Nat, z \in Nat : a = 4 /\ z = 0
    OBVIOUS
  <2>2. CutOf(y, chunk, a, e)
    <3>1. y = SubSeq(chunk, 4 + 1, 4 + e)
      BY <1>9 DEF FastRest
    <3> QED
      BY <2>1, <3>1 DEF CutOf
  <2>3. a + e <= Len(chunk)
    BY <1>2, <1>8, <2>1
  <2>4. PICK left \in 0..l : left = l
    OBVIOUS
  <2>5. (g - Len(chunk)) + a = o + 4 + l - left
    BY <1>2, <1>5, <2>1, <2>4
  <2>6. e <= left
    BY <1>8, <2>4
  <2>7. z = b + l - left
    BY <1>5, <2>1, <2>4
  <2>8. FrameIs(p, f, o, l, b, n, c, u)
    BY <1>5
  <2>9. BytesFrom(y, p, z, e)
    BY <1>1, <2>2, <2>3, <2>5, <2>6, <2>7, <2>8, FramePart
  <2> QED
    BY <2>1, <2>9
<1>12. PICK r \in 1..l : r = l - e
  BY <1>8
<1>13. /\ Keep(y) /\ remainingLen' = r /\ packetLen' = l /\ sequenceNo' = f /\ Read(m) /\ phase' = "idle" /\ length' = -1
       /\ packets' = packets /\ delivered' = delivered
  BY <1>2, <1>5, <1>71, <1>9, <1>12 DEF FastChunkEnds, Left
<1>14. Given(g)' /\ Len(chunk') = m - m
  BY <1>1, <1>2, <1>13, ChunkRest
<1>15. DeliveredSoFar'
  BY <1>1, <1>13, DeliverNone
<1>16. PICK z : z = e
  OBVIOUS
<1>17. PartsAre(p, z)'
  <2>1. PICK t \in Nat : t = 0
    OBVIOUS
  <2>2. PartsAre(p, t) /\ BytesFrom(y, p, t, e)
    BY <1>5, <1>10, <2>1 DEF PartsAre
  <2>3. PartsAre(p, t + e)'
    BY <1>13, <2>2, KeepIs
  <2>4. t + e = z
    BY <1>16, <2>1
  <2> QED
    BY <2>3, <2>4 DEF PartsAre
<1>18. Place(g, p)'
  <2>1. remainingLen' = r
    BY <1>13
  <2>2. p \in DOMAIN packets /\ f \in 1..FrameCount(p)
    BY <1>5
  <2>3. packets' = packets /\ packetLen' = l /\ sequenceNo' = f /\ phase' \in {"idle", "header"}
    BY <1>13
  <2>4. o = FrameAt(p, f)
    BY <1>7
  <2>5. l = FrameLen(p, f)
    BY <1>7
  <2>6. b = Before(f)
    BY <1>7
  <2>7. z = b + l - r
    BY <1>5, <1>12, <1>16
  <2>8. g - Len(chunk') = o + 4 + l - r
    BY <1>2, <1>5, <1>8, <1>12, <1>14
  <2> QED
    BY <1>17, <2>1, <2>2, <2>3, <2>4, <2>5, <2>6, <2>7, <2>8, ToRest
<1>19. ReaderType'
  <2>1. chunk' = <<>>
    BY <1>2, <1>14 DEF Given
  <2> QED
    BY <1>13, <2>1 DEF ReaderType
<1>20. Len(delivered') + 1 = p
  BY <1>5, <1>13
<1> QED
  BY <1>14, <1>15, <1>18, <1>19, <1>20, ThereAgain

\* The fast path finds no header.
LEMMA FastEndsKept ==
  ASSUME NEW g, ReaderAt(g), stream' = stream, FastEnds
  PROVE  ReaderAt(g)'
<1>1. Given(g) /\ ReaderType /\ DeliveredSoFar
  BY NextIs
<1>2. PICK q \in Nat : q = Len(delivered) + 1 /\ Place(g, q)
  BY NextIs
<1>3. phase = "fast"
  BY DEF FastEnds
<1>4. parts = None /\ g - Len(chunk) = UpTo(q - 1)
  BY <1>2, <1>3, WhenFast DEF Between
<1>5. packets \in Seq(Nat \ {0}) /\ stream = Stream
  BY <1>1 DEF Given
<1>6. q \in 1..(Len(packets) + 1) /\ q - 1 \in 0..Len(packets)
  BY <1>1, <1>2, <1>5 DEF DeliveredSoFar
<1>7. PICK u \in Nat : u = UpTo(q - 1)
  BY <1>5, <1>6, StreamBytes
<1>8. /\ chunk' = chunk /\ packets' = packets /\ NextTurn(0) /\ header' = <<>> /\ remainingLen' = 0
      /\ parts' = None /\ delivered' = delivered /\ length' = -1
  BY <1>4 DEF FastEnds, ResetHeader
<1>9. Given(g)'
  BY <1>1, <1>8, ChunkSame
<1>10. phase' \in {"idle", "header"} /\ (phase' = "idle" => chunk' = <<>>) /\ (Len(chunk') = 0 => phase' = "idle")
  BY <1>1, <1>8, TurnSame
<1>11. DeliveredSoFar'
  BY <1>1, <1>8, DeliverNone
<1>12. Place(g, q)'
  <2>1. g - Len(chunk') = u
    BY <1>4, <1>7, <1>8
  <2>2. packets' = packets /\ header' = <<>> /\ remainingLen' = 0 /\ parts' = None /\ length' = -1
    BY <1>8
  <2>3. phase' \in {"idle", "header"}
    BY <1>10
  <2>4. Len(chunk') = 0 => phase' = "idle"
    BY <1>10
  <2> QED
    BY <1>5, <1>6, <1>7, <1>9, <2>1, <2>2, <2>3, <2>4, ToNext
<1>13. ReaderType'
  BY <1>8, <1>10 DEF ReaderType
<1>14. Len(delivered') + 1 = q
  BY <1>2, <1>8
<1> QED
  BY <1>9, <1>11, <1>12, <1>13, <1>14, ThereAgain

\* onData is called with what comes next.
LEMMA OnDataKept ==
  ASSUME NEW g, ReaderAt(g), stream' = stream, NEW j \in Nat \ {0}, g + j <= Len(stream), NEW x, NEW y, HeadIs(y, j, x), x = g, OnData(y),
         NEW e, e = g + j
  PROVE  ReaderAt(e)'
<1>1. Given(g) /\ ReaderType /\ DeliveredSoFar
  BY NextIs
<1>2. PICK p \in Nat : p = Len(delivered) + 1 /\ Place(g, p)
  BY NextIs
<1>3. phase = "idle" /\ chunk = <<>> /\ length = -1
  BY <1>1 DEF OnData, ReaderType
<1>4. packets \in Seq(Nat \ {0}) /\ stream = Stream /\ g \in Nat /\ chunk \in Seq(Nat) /\ Len(chunk) = 0
  BY <1>1, <1>3 DEF Given
<1>5. y \in Seq(Nat) /\ Len(y) = j /\ \A i \in 1..j : y[i] = stream[g + i]
  BY DEF HeadIs
<1>6. /\ chunk' = y /\ length' = -1 /\ phase' = "header" /\ packets' = packets /\ delivered' = delivered
      /\ header' = header /\ packetLen' = packetLen /\ sequenceNo' = sequenceNo /\ remainingLen' = remainingLen
      /\ parts' = parts /\ partsTotalLen' = partsTotalLen
  BY DEF OnData, frame
<1>7. e - Len(chunk') = g /\ g - Len(chunk) = g
  <2>1. Len(chunk') = j
    BY <1>5, <1>6
  <2> QED
    BY <1>4, <2>1
<1>8. Given(e)'
  <2>1. Stream' = stream
    BY <1>4, <1>6, LayoutKept
  <2>2. \A i \in 1..Len(chunk') : chunk'[i] = stream'[(e - Len(chunk')) + i]
    BY <1>5, <1>6, <1>7
  <2>3. packets' \in Seq(Nat \ {0}) /\ e \in Nat /\ e <= Len(stream') /\ chunk' \in Seq(Nat) /\ Len(chunk') <= e
    BY <1>4, <1>5, <1>6
  <2> QED
    BY <2>1, <2>2, <2>3 DEF Given
<1>9. DeliveredSoFar'
  BY <1>1, <1>6, DeliverNone
<1>10. ReaderType'
  BY <1>1, <1>6 DEF ReaderType
<1>11. ~AtEnd(g, p)
  BY <1>4 DEF AtEnd
<1>12. p \in DOMAIN packets
  BY <1>2, <1>3, <1>11 DEF Place, Between
<1>13. PICK f \in 1..FrameCount(p) : Within(g, p, f)
  BY <1>2, <1>3, <1>11 DEF Place, Between
<1>14. PICK o \in Nat, l \in Nat, b \in Nat, n \in Nat, c \in Nat, u \in Nat : FrameIs(p, f, o, l, b, n, c, u)
  BY <1>1, <1>12, FrameHere
<1>15. o = FrameAt(p, f) /\ l = FrameLen(p, f) /\ b = Before(f)
  BY <1>14 DEF FrameIs
<1>16. CASE AtFrame(g, p, f)
  <2>1. /\ header \in Seq(Nat) /\ Len(header) < 4 /\ remainingLen = 0 /\ \A i \in 1..Len(header) : header[i] = stream[o + i]
        /\ g - Len(chunk) = o + Len(header) /\ PartsAre(p, b)
    BY <1>15, <1>16 DEF AtFrame
  <2>2. PICK m \in 0..3 : m = Len(header)
    <3>1. header \in Seq(Nat) /\ Len(header) < 4
      BY <2>1
    <3>2. PICK z \in Nat : z = Len(header) /\ z < 4
      BY <3>1
    <3>3. z \in 0..3
      BY <3>2
    <3> QED
      BY <3>2, <3>3
  <2>3. PICK h : h = header /\ HeadIs(h, m, o)
    BY <2>1, <2>2 DEF HeadIs
  <2>4. PartsAre(p, b)'
    BY <1>6, <2>1, PartsSame
  <2>5. e - Len(chunk') = o + m
    BY <1>7, <2>1, <2>2
  <2>6. phase' # "fast" /\ length' = -1 /\ header' = h /\ packets' = packets /\ remainingLen' = 0
    BY <1>6, <2>1, <2>3
  <2>7. HeadIs(h, m, o)
    BY <2>3
  <2>8. Place(e, p)'
    BY <1>12, <1>15, <2>4, <2>5, <2>6, <2>7, ToHeader
  <2>9. Len(delivered') + 1 = p
    BY <1>2, <1>6
  <2> QED
    BY <1>8, <1>9, <1>10, <2>8, <2>9, ThereAgain
<1>17. CASE remainingLen > 0 /\ InFrame(g, p, f, remainingLen)
  <2>1. PICK left \in 1..l : left = remainingLen
    BY <1>15, <1>17 DEF InFrame
  <2>2. PICK k : k = b + l - left
    OBVIOUS
  <2>3. packetLen = l /\ sequenceNo = f /\ g - Len(chunk) = o + 4 + l - left /\ PartsAre(p, k)
    BY <1>15, <1>17, <2>1, <2>2 DEF InFrame
  <2>4. PartsAre(p, k)'
    BY <1>6, <2>3, PartsSame
  <2>5. e - Len(chunk') = o + 4 + l - left
    BY <1>7, <2>3
  <2>6. packetLen' = l /\ sequenceNo' = f /\ phase' \in {"idle", "header"} /\ remainingLen' = left /\ packets' = packets
    BY <1>6, <2>1, <2>3
  <2>7. Place(e, p)'
    BY <1>12, <1>15, <2>2, <2>4, <2>5, <2>6, ToRest
  <2>8. Len(delivered') + 1 = p
    BY <1>2, <1>6
  <2> QED
    BY <1>8, <1>9, <1>10, <2>7, <2>8, ThereAgain
<1> QED
  BY <1>3, <1>13, <1>16, <1>17 DEF Within

\* One of the steps of the reader.
LEMMA ReadingKept ==
  ASSUME NEW g, ReaderAt(g), stream' = stream, Reading
  PROVE  ReaderAt(g)'
<1>1. ASSUME GoOn \/ HeaderAtHand \/ CutHeader \/ NothingYet PROVE ReaderAt(g)'
  BY <1>1, GoOnKept, HeaderAtHandKept, CutHeaderKept, NothingYetKept
<1>2. ASSUME WholePacket \/ FullFrame \/ LastPart \/ ChunkEnds \/ EmptyFrame PROVE ReaderAt(g)'
  BY <1>2, WholePacketKept, FullFrameKept, LastPartKept, ChunkEndsKept, EmptyFrameKept
<1>3. ASSUME FastPacket \/ FastFullFrame \/ FastChunkEnds \/ FastEnds PROVE ReaderAt(g)'
  BY <1>3, FastPacketKept, FastFullFrameKept, FastChunkEndsKept, FastEndsKept
<1> QED
  BY <1>1, <1>2, <1>3 DEF Reading

\* Nothing of the reader changes.
LEMMA ReaderStays ==
  ASSUME NEW g, ReaderAt(g), UNCHANGED readerVars, stream' = stream
  PROVE  ReaderAt(g)'
<1>1. Given(g) /\ ReaderType /\ DeliveredSoFar
  BY NextIs
<1>2. PICK p \in Nat : p = Len(delivered) + 1 /\ Place(g, p)
  BY NextIs
<1>3. /\ packets' = packets /\ phase' = phase /\ chunk' = chunk /\ length' = length /\ delivered' = delivered
      /\ header' = header /\ packetLen' = packetLen /\ sequenceNo' = sequenceNo /\ remainingLen' = remainingLen
      /\ parts' = parts /\ partsTotalLen' = partsTotalLen
  BY DEF readerVars, reading, frame
<1>4. Given(g)'
  BY <1>1, <1>3, ChunkSame
<1>5. DeliveredSoFar'
  BY <1>1, <1>3, DeliverNone
<1>6. ReaderType'
  BY <1>1, <1>3 DEF ReaderType
<1>7. /\ \A i, f : FrameLen(i, f)' = FrameLen(i, f) /\ FrameAt(i, f)' = FrameAt(i, f)
      /\ \A i : FrameCount(i)' = FrameCount(i) /\ UpTo(i)' = UpTo(i)
  BY <1>3, LayoutKept
<1>8. \A f : Before(f)' = Before(f)
  BY DEF Before
<1>9. AtEnd(g, p) => AtEnd(g, p)'
  BY <1>3 DEF AtEnd
<1>10. Between(g, p) => Between(g, p)'
  BY <1>3, <1>7 DEF Between
<1>11. \A f : AtFrame(g, p, f) => AtFrame(g, p, f)'
  BY <1>3, <1>7, <1>8 DEF AtFrame, PartsAre
<1>12. \A f : InFrame(g, p, f, remainingLen) => InFrame(g, p, f, remainingLen)'
  BY <1>3, <1>7, <1>8 DEF InFrame, PartsAre
<1>13. \A f : InFrame(g, p, f, length) => InFrame(g, p, f, length)'
  BY <1>3, <1>7, <1>8 DEF InFrame, PartsAre
<1>14. \A f : Within(g, p, f) => Within(g, p, f)'
  BY <1>3, <1>7, <1>11, <1>12, <1>13 DEF Within
<1>15. Place(g, p)'
  BY <1>2, <1>3, <1>7, <1>9, <1>10, <1>14 DEF Place
<1>16. Len(delivered') + 1 = p
  BY <1>2, <1>3
<1> QED
  BY <1>4, <1>5, <1>6, <1>15, <1>16, ThereAgain

\* When onData has returned, no packet whose bytes were given is withheld.
LEMMA ReaderPrompt ==
  ASSUME NEW g, ReaderAt(g), phase = "idle"
  PROVE  \A p \in DOMAIN packets : UpTo(p) <= g => Len(delivered) >= p
<1>1. Given(g) /\ ReaderType /\ DeliveredSoFar
  BY NextIs
<1>2. PICK q \in Nat : q = Len(delivered) + 1 /\ Place(g, q)
  BY NextIs
<1>3. packets \in Seq(Nat \ {0}) /\ g \in Nat /\ chunk = <<>> /\ Len(chunk) = 0
  BY <1>1 DEF Given, ReaderType
<1>4. CASE AtEnd(g, q)
  BY <1>2, <1>3, <1>4 DEF AtEnd
<1>5. CASE q \in DOMAIN packets /\ \E f \in 1..FrameCount(q) : Within(g, q, f)
  <2>1. PICK f \in 1..FrameCount(q) : Within(g, q, f)
    BY <1>5
  <2>2. PICK o \in Nat, l \in Nat, b \in Nat, n \in Nat, c \in Nat, u \in Nat : FrameIs(q, f, o, l, b, n, c, u)
    BY <1>1, <1>5, FrameHere
  <2>3. o = FrameAt(q, f) /\ l = FrameLen(q, f) /\ b = Before(f) /\ u = UpTo(q) /\ o + 4 + l <= u
    BY <2>2 DEF FrameIs
  <2>4. g < u
    <3>1. CASE AtFrame(g, q, f)
      <4>1. header \in Seq(Nat) /\ Len(header) < 4 /\ g - Len(chunk) = o + Len(header)
        BY <2>3, <3>1 DEF AtFrame
      <4>2. Len(header) \in Nat
        BY <4>1
      <4> QED
        BY <1>3, <2>3, <4>1, <4>2
    <3>2. CASE remainingLen > 0 /\ InFrame(g, q, f, remainingLen)
      <4>1. PICK r \in 1..l : r = remainingLen /\ g - Len(chunk) = o + 4 + l - r
        BY <2>3, <3>2 DEF InFrame
      <4>2. g = o + 4 + l - r
        BY <1>3, <4>1
      <4>3. o + 4 + l <= u
        BY <2>3
      <4>4. r >= 1 /\ r \in Nat
        BY <4>1
      <4> QED
        BY <4>2, <4>3, <4>4
    <3> QED
      BY <2>1, <3>1, <3>2 DEF Within
  <2>5. ASSUME NEW p \in DOMAIN packets, UpTo(p) <= g, p >= q PROVE FALSE
    <3>1. UpTo(p) >= UpTo(q)
      BY <1>3, <1>5, <2>5, UpToGrows
    <3>2. UpTo(p) \in Nat
      BY <1>3, StreamBytes
    <3> QED
      BY <1>3, <2>3, <2>4, <2>5, <3>1, <3>2
  <2>6. Len(delivered) \in Nat
    BY <1>1 DEF DeliveredSoFar
  <2> QED
    BY <1>2, <1>3, <2>5, <2>6
<1> QED
  BY <1>2, <1>4, <1>5 DEF Place, Between

\* In the beginning.
LEMMA ReaderBegins ==
  ASSUME ReaderInit, stream = Stream
  PROVE  ReaderAt(0)
<1>1. packets \in Seq(Nat \ {0}) /\ Len(packets) > 0
  <2>1. PICK n \in 1..MaxPackets : packets \in [1..n -> PacketLens]
    BY DEF ReaderInit
  <2>2. MaxPackets \in Nat /\ PacketLens \subseteq Nat \ {0}
    BY ReaderConstants
  <2>3. packets \in [1..n -> Nat \ {0}]
    BY <2>1, <2>2
  <2> QED
    BY <2>2, <2>3
<1>2. /\ phase = "idle" /\ chunk = <<>> /\ length = -1 /\ header = <<>> /\ remainingLen = 0 /\ parts = None /\ delivered = <<>>
  BY DEF ReaderInit
<1>3. Given(0)
  <2>1. Stream \in Seq(Nat)
    BY <1>1, StreamBytes
  <2>2. Len(Stream) \in Nat
    BY <2>1
  <2> QED
    BY <1>1, <1>2, <2>2 DEF Given
<1>4. ReaderType
  BY <1>2 DEF ReaderType
<1>5. DeliveredSoFar
  BY <1>1, <1>2 DEF DeliveredSoFar
<1>6. PICK p \in DOMAIN packets : p = 1
  BY <1>1
<1>7. PICK f \in 1..FrameCount(p) : f = 1
  <2>1. FrameCount(p) \in Nat \ {0}
    BY <1>1, FramesFit
  <2> QED
    BY <2>1
<1>8. PICK o \in Nat, l \in Nat, b \in Nat, n \in Nat, c \in Nat, u \in Nat : FrameIs(p, f, o, l, b, n, c, u)
  BY <1>3, FrameHere
<1>9. o = FrameAt(p, f) /\ b = Before(f) /\ b = 0 /\ o = UpTo(p - 1)
  BY <1>7, <1>8 DEF FrameIs
<1>10. o = 0
  <2>1. p - 1 = 0 /\ UpTo(0) = 0
    BY <1>1, <1>6, StreamBytes
  <2> QED
    BY <1>9, <2>1
<1>11. AtFrame(0, p, f)
  <2>1. PartsAre(p, Before(f))
    BY <1>2, <1>9 DEF PartsAre
  <2> QED
    BY <1>2, <1>9, <1>10, <2>1 DEF AtFrame
<1>12. Place(0, p)
  BY <1>2, <1>11 DEF Place, Within
<1>13. Len(delivered) + 1 = p /\ p \in Nat
  BY <1>2, <1>6
<1> QED
  BY <1>3, <1>4, <1>5, <1>12, <1>13 DEF ReaderAt

-----------------------------------------------------------------------------
(***************************************************************************)
(* Without compression, the bytes of the socket are those of the packets.  *)
(***************************************************************************)
PlainReader == ~compress => wire = stream /\ zPhase = "idle" /\ ReaderAt(received)

\* In the beginning.
LEMMA PlainReaderInit ==
  Init => PlainReader
<1> SUFFICES ASSUME Init, ~compress PROVE wire = stream /\ zPhase = "idle" /\ ReaderAt(received)
  BY DEF PlainReader
<1>1. ReaderInit /\ stream = Stream /\ wire = stream /\ zPhase = "idle" /\ received = 0
  BY DEF Init, Written
<1>2. ReaderAt(0)
  BY <1>1, ReaderBegins
<1> QED
  BY <1>1, <1>2

\* The socket has more bytes.
LEMMA PlainSocketData ==
  ASSUME PlainReader, ~compress, NEW n \in Cuts \cup {Len(wire) - received}, n > 0, SocketData(n)
  PROVE  PlainReader'
<1>1. wire = stream /\ zPhase = "idle" /\ ReaderAt(received)
  BY DEF PlainReader
<1>2. PICK g : g = received
  OBVIOUS
<1>3. Given(g) /\ ReaderAt(g)
  BY <1>1, <1>2, NextIs
<1>4. packets \in Seq(Nat \ {0}) /\ stream = Stream /\ g \in Nat /\ g <= Len(stream)
  BY <1>3 DEF Given
<1>5. PICK w \in Seq(Nat) : w = stream /\ wire = w
  BY <1>1, <1>4, StreamBytes
<1>6. n \in Nat \ {0} /\ g + n <= Len(w)
  <2>1. Cuts \subseteq Nat
    BY CompressionInputAssumption
  <2>2. n \in Nat
    BY <1>2, <1>4, <1>5, <2>1
  <2> QED
    BY <1>2, <1>5, <2>2 DEF SocketData
<1>7. PICK y : y = SubSeq(w, g + 1, g + n)
  OBVIOUS
<1>8. y \in Seq(Nat) /\ Len(y) = n /\ \A j \in 1..n : y[j] = w[g + j]
  <2>1. y = [j \in 1..n |-> w[g + j]]
    BY ONLY <1>4, <1>5, <1>6, <1>7
  <2>2. \A j \in 1..n : w[g + j] \in Nat
    BY ONLY <1>4, <1>5, <1>6
  <2> QED
    BY ONLY <1>6, <2>1, <2>2
<1>9. OnData(y) /\ received' = g + n /\ UNCHANGED <<server, zReading>>
  BY <1>2, <1>5, <1>7 DEF SocketData
<1>10. HeadIs(y, n, g)
  BY <1>5, <1>8 DEF HeadIs
<1>11. PICK e : e = g + n
  OBVIOUS
<1>12. stream' = stream /\ wire' = wire /\ zPhase' = zPhase
  BY <1>9 DEF server, zReading
<1>13. g + n <= Len(stream)
  BY <1>5, <1>6
<1>14. ReaderAt(e)'
  BY <1>3, <1>6, <1>9, <1>10, <1>11, <1>12, <1>13, OnDataKept
<1>15. ReaderAt(received)'
  BY <1>9, <1>11, <1>14 DEF ReaderAt, Given, Place, AtEnd, Between, Within, AtFrame, InFrame
<1> QED
  BY <1>1, <1>12, <1>15 DEF PlainReader

\* Each step keeps it.
LEMMA PlainReaderNext ==
  PlainReader /\ [Next]_vars => PlainReader'
<1> SUFFICES ASSUME PlainReader, [Next]_vars, ~compress' PROVE PlainReader'
  BY DEF PlainReader
<1>1. ~compress
  BY DEF Next, vars, server, SocketData, ZGoOn, ZHeader, ZBlock, ZFullBlock, ZChunkEnds, ZNothingYet, ReaderReads
<1>2. wire = stream /\ zPhase = "idle" /\ ReaderAt(received)
  BY <1>1 DEF PlainReader
<1>3. PICK g : g = received /\ ReaderAt(g)
  BY <1>2
<1>4. ASSUME NEW n \in Cuts \cup {Len(wire) - received}, n > 0, SocketData(n) PROVE PlainReader'
  BY <1>1, <1>4, PlainSocketData
<1>5. CASE ReaderReads
  <2>1. Reading /\ stream' = stream /\ wire' = wire /\ zPhase' = zPhase /\ received' = received
    BY <1>5 DEF ReaderReads, server, zReading
  <2>2. ReaderAt(g)'
    BY <1>3, <2>1, ReadingKept
  <2>3. ReaderAt(received)'
    BY <1>3, <2>1, <2>2 DEF ReaderAt, Given, Place, AtEnd, Between, Within, AtFrame, InFrame
  <2> QED
    BY <1>2, <2>1, <2>3 DEF PlainReader
<1>6. CASE UNCHANGED vars
  <2>1. UNCHANGED readerVars /\ stream' = stream /\ wire' = wire /\ zPhase' = zPhase /\ received' = received
    BY <1>6 DEF vars, server, zReading
  <2>2. ReaderAt(g)'
    BY <1>3, <2>1, ReaderStays
  <2>3. ReaderAt(received)'
    BY <1>3, <2>1, <2>2 DEF ReaderAt, Given, Place, AtEnd, Between, Within, AtFrame, InFrame
  <2> QED
    BY <1>2, <2>1, <2>3 DEF PlainReader
<1>7. ~ZGoOn /\ ~ZHeader /\ ~ZBlock /\ ~ZFullBlock /\ ~ZChunkEnds /\ ~ZNothingYet
  BY <1>2 DEF ZGoOn, ZHeader, ZBlock, ZFullBlock, ZChunkEnds, ZNothingYet, ZTurn
<1> QED
  BY <1>4, <1>5, <1>6, <1>7 DEF Next

\* It gives the property.
LEMMA PlainReaderDelivers ==
  PlainReader => (~compress => PacketsDelivered)
<1> SUFFICES ASSUME PlainReader, ~compress PROVE PacketsDelivered
  OBVIOUS
<1>1. PICK g : g = received /\ ReaderAt(g)
  BY DEF PlainReader
<1>2. DeliveredSoFar
  BY <1>1, NextIs
<1>3. DeliveredExact
  BY <1>2 DEF DeliveredSoFar, DeliveredExact
<1>4. NothingWithheld
  <2> SUFFICES ASSUME phase = "idle" PROVE \A p \in DOMAIN packets : UpTo(p) <= Arrived => Len(delivered) >= p
    BY DEF NothingWithheld, Idle
  <2>1. Arrived = g
    BY <1>1 DEF Arrived
  <2> QED
    BY <1>1, <2>1, ReaderPrompt
<1> QED
  BY <1>3, <1>4 DEF PacketsDelivered


-----------------------------------------------------------------------------
(***************************************************************************)
(* Every byte of the packets is one that deflating can pack.               *)
(***************************************************************************)
Bytes == 0..(Pack - 1)

\* The constants of the compressed protocol.
LEMMA BlockConstants ==
  /\ Cuts \subseteq Nat /\ Blocks \subseteq 1..MaxLen /\ Deflates \subseteq {"none", "all", "odd"}
  /\ Pack \in Nat \ {0} /\ Base <= Pack /\ MaxLen >= 7 /\ \A n \in PacketLens : 100 * MaxPackets + n < Pack
<1>1. Base \in Nat /\ Base >= 2
  BY ReaderConstants
<1>2. PICK b \in Nat : b = Base * Base
  BY <1>1
<1>3. b >= 4
  <2>1. Base * Base >= 2 * Base
    BY <1>1
  <2> QED
    BY <1>1, <1>2, <2>1
<1>4. b * Base \in Nat /\ b * Base >= 8
  <2>1. b * Base >= b * 2
    BY <1>1
  <2> QED
    BY <1>1, <1>3, <2>1
<1>5. MaxLen >= 7
  BY <1>1, <1>2, <1>4 DEF MaxLen
<1> QED
  BY <1>1, <1>5, CompressionInputAssumption

\* The third byte of a length is a byte.
LEMMA LengthFits ==
  ASSUME NEW len \in Nat, len <= MaxLen
  PROVE  len % Base < Base /\ (len \div Base) % Base < Base /\ len \div (Base * Base) < Base
<1>1. PICK b \in Nat \ {0} : b = Base
  BY ReaderConstants
<1>2. PICK c \in Nat \ {0} : c = b * b
  BY <1>1
<1>3. len < c * b
  <2>1. c * b \in Nat
    OBVIOUS
  <2> QED
    BY <1>1, <1>2, <2>1 DEF MaxLen
<1>4. PICK u \in Nat, v \in Nat : u = len \div c /\ v = len % c /\ len = c * u + v /\ v < c
  OBVIOUS
<1>5. u < b
  <2> SUFFICES ASSUME u >= b PROVE FALSE
    OBVIOUS
  <2>1. PICK x \in Nat : u = b + x
    BY <1>1
  <2>2. c * u = c * b + c * x /\ c * x \in Nat /\ c * b \in Nat
    BY <2>1
  <2> QED
    BY <1>3, <1>4, <2>2
<1>6. PICK q \in Nat : q = len \div b
  BY <1>1
<1>7. len % b < b /\ q % b < b
  OBVIOUS
<1> QED
  BY <1>1, <1>2, <1>4, <1>5, <1>6, <1>7

\* The packets that are sent are of the lengths and the number the constants say.
Sent == packets \in Seq(Nat \ {0}) /\ Len(packets) <= MaxPackets /\ \A p \in DOMAIN packets : packets[p] \in PacketLens

\* The bytes of a frame can be packed.
LEMMA FrameFits ==
  ASSUME Sent, NEW p \in DOMAIN packets, NEW f \in 1..FrameCount(p)
  PROVE  FramesOf(p)[f] \in Seq(Bytes)
<1>1. packets \in Seq(Nat \ {0}) /\ p \in Nat /\ p <= MaxPackets /\ packets[p] \in PacketLens /\ MaxPackets \in Nat
  BY ReaderConstants DEF Sent
<1>2. PICK P \in Nat \ {0} : P = Pack /\ Base <= P /\ \A n \in PacketLens : 100 * MaxPackets + n < P
  BY BlockConstants
<1>3. PICK l \in Nat, b \in Nat, n \in Nat, c \in Nat, w \in Nat :
        l = FrameLen(p, f) /\ b = Before(f) /\ n = packets[p] /\ c = FrameCount(p) /\ w = MaxLen /\ b + l <= n /\ l <= w
  <2>1. PICK w \in Nat : w = MaxLen
    BY ReaderConstants
  <2>2. /\ Before(f) \in Nat /\ FrameLen(p, f) \in 0..w /\ Before(f) + FrameLen(p, f) <= packets[p]
        /\ FrameCount(p) \in Nat
    BY <1>1, <2>1, FramesFit
  <2>3. packets[p] \in Nat
    BY <1>1
  <2> QED
    BY <2>1, <2>2, <2>3
<1>4. 100 * p + n < P
  <2>1. 100 * MaxPackets + n < P
    BY <1>1, <1>2, <1>3
  <2>2. 100 * p <= 100 * MaxPackets
    BY <1>1
  <2> QED
    BY <1>1, <2>1, <2>2
<1>5. f < P
  <2>1. c <= n + 1
    <3>1. PICK m \in Nat \ {0} : m = MaxLen
      BY ReaderConstants
    <3>2. PICK q \in Nat, r \in Nat : q = n \div m /\ r = n % m /\ n = m * q + r /\ r < m
      OBVIOUS
    <3>3. q <= n
      <4>1. m * q >= q
        BY <3>1
      <4> QED
        BY <3>2, <4>1
    <3>4. c = q + 1
      BY <1>3, <3>1, <3>2 DEF FrameCount
    <3> QED
      BY <3>3, <3>4
  <2>2. f \in Nat /\ f <= c /\ p >= 1
    BY <1>1, <1>3
  <2> QED
    BY <1>1, <1>4, <2>1, <2>2
<1>6. PICK k \in Nat : k = Base /\ k <= P
  BY <1>2, ReaderConstants
<1>7. PICK x \in Nat, y \in Nat, z \in Nat : x = l % Base /\ y = (l \div Base) % Base /\ z = l \div (Base * Base)
  BY LengthRead
<1>8. x < k /\ y < k /\ z < k
  BY <1>3, <1>6, <1>7, LengthFits
<1>9. PICK h : h = HeaderOf(l, f) /\ h = <<x, y, z, f>>
  BY <1>7 DEF HeaderOf
<1>10. PICK B : B = Bytes /\ \A i \in Nat : i < P => i \in B
  BY <1>2 DEF Bytes
<1>11. h \in Seq(B)
  <2>1. x \in B /\ y \in B /\ z \in B /\ f \in B
    BY <1>5, <1>6, <1>8, <1>10
  <2> QED
    BY <1>9, <2>1
<1>12. PICK v : v = SubSeq(PayloadOf(p), b + 1, b + l)
  OBVIOUS
<1>13. PayloadOf(p) \in Seq(B) /\ Len(PayloadOf(p)) = n
  <2>1. \A i \in 1..n : 100 * p + i \in B
    <3> SUFFICES ASSUME NEW i \in 1..n PROVE 100 * p + i \in B
      OBVIOUS
    <3>1. 100 * p + i \in Nat /\ 100 * p + i < P
      BY <1>1, <1>4
    <3> QED
      BY <1>10, <3>1
  <2>2. PICK t : t = PayloadOf(p) /\ t = [i \in 1..n |-> 100 * p + i]
    BY <1>3 DEF PayloadOf
  <2>3. t \in [1..n -> B]
    BY <2>1, <2>2
  <2>4. t \in Seq(B) /\ Len(t) = n
    BY <2>2, <2>3
  <2> QED
    BY <2>2, <2>4
<1>14. v \in Seq(B)
  <2>1. PICK t \in Seq(B) : t = PayloadOf(p) /\ b + l <= Len(t)
    BY <1>3, <1>13
  <2>2. v = SubSeq(t, b + 1, b + l)
    BY <1>12, <2>1
  <2>3. b + l <= Len(t)
    BY <2>1
  <2> QED
    BY <2>2, <2>3, PartOf
<1>15. FramesOf(p)[f] = h \o v
  <2>1. f \in 1..((packets[p] \div MaxLen) + 1)
    BY DEF FrameCount
  <2>2. FramesOf(p)[f] = HeaderOf(FrameLen(p, f), f) \o SubSeq(PayloadOf(p), Before(f) + 1, Before(f) + FrameLen(p, f))
    BY <2>1 DEF FramesOf, FrameLen, Before
  <2> QED
    BY <1>3, <1>9, <1>12, <2>2
<1> QED
  BY <1>10, <1>11, <1>14, <1>15

\* And those of all the packets.
LEMMA StreamFits ==
  ASSUME Sent
  PROVE  Stream \in Seq(Bytes)
<1>1. packets \in Seq(Nat \ {0})
  BY DEF Sent
<1>2. PICK m \in Nat : m = Len(packets) /\ DOMAIN packets = 1..m
  BY <1>1
<1>3. PICK B : B = Seq(Bytes)
  OBVIOUS
<1>4. ASSUME NEW p \in DOMAIN packets PROVE BytesOf(p) \in B
  <2>1. PICK ss : ss = FramesOf(p)
    OBVIOUS
  <2>2. \A f \in 1..FrameCount(p) : ss[f] \in B
    BY <1>3, <2>1, FrameFits
  <2>3. FrameCount(p) \in Nat
    BY <1>1, FramesFit
  <2>4. ss = [f \in 1..FrameCount(p) |-> ss[f]]
    BY <2>1 DEF FramesOf, FrameCount
  <2>5. ss \in Seq(B)
    BY <2>2, <2>3, <2>4
  <2>6. ss \in Seq(Seq(Bytes))
    BY <1>3, <2>5
  <2>7. FlattenSeq(ss) \in Seq(Bytes)
    BY <2>6, FlattenPlaced
  <2> QED
    BY <1>3, <2>1, <2>7 DEF BytesOf
<1>5. PICK bs : bs = [q \in DOMAIN packets |-> BytesOf(q)]
  OBVIOUS
<1>6. bs \in Seq(B)
  BY <1>2, <1>4, <1>5
<1>7. bs \in Seq(Seq(Bytes))
  BY <1>3, <1>6
<1>8. FlattenSeq(bs) \in Seq(Bytes)
  BY <1>7, FlattenPlaced
<1> QED
  BY <1>5, <1>8 DEF Stream

\* What one number of a deflated block stands for.
Two(x) == IF x >= Pack THEN <<(x \div Pack) - 1, x % Pack>> ELSE <<x>>

\* Two bytes packed are the two unpacked.
LEMMA TwoPacked ==
  ASSUME NEW a \in Bytes, NEW b \in Bytes
  PROVE  Two((a + 1) * Pack + b) = <<a, b>> /\ (a + 1) * Pack + b \in Nat
<1>1. PICK P \in Nat \ {0} : P = Pack
  BY BlockConstants
<1>2. a \in Nat /\ b \in Nat /\ b < P
  BY <1>1 DEF Bytes
<1>3. PICK x \in Nat : x = (a + 1) * P + b
  BY <1>2
<1>4. x >= P
  <2>1. (a + 1) * P >= P
    BY <1>2
  <2> QED
    BY <1>2, <1>3, <2>1
<1>5. x = P * (a + 1) + b
  BY <1>2, <1>3
<1>6. x \div P = a + 1
  <2>1. PICK q \in Nat : q = a + 1 /\ x = P * q + b
    BY <1>2, <1>5
  <2>2. x \div P = q
    BY <1>2, <2>1, DivUnique
  <2> QED
    BY <2>1, <2>2
<1>7. x % P = b
  BY <1>2, <1>5, ModUnique
<1> QED
  BY <1>1, <1>2, <1>3, <1>4, <1>6, <1>7 DEF Two

\* One byte alone stays what it is.
LEMMA OneAlone ==
  ASSUME NEW a \in Bytes
  PROVE  Two(a) = <<a>> /\ a \in Nat
<1>1. Pack \in Nat \ {0}
  BY BlockConstants
<1>2. a \in Nat /\ a < Pack
  BY <1>1 DEF Bytes
<1> QED
  BY <1>1, <1>2 DEF Two

\* Inflated, what was deflated is what it was.
LEMMA InflateDeflate ==
  ASSUME NEW s \in Seq(Bytes)
  PROVE  /\ Deflate(s) \in Seq(Nat) /\ Len(Deflate(s)) = (Len(s) + 1) \div 2
         /\ Inflate(Deflate(s)) = s
<1>1. PICK n \in Nat : n = Len(s)
  OBVIOUS
<1>2. PICK m \in Nat, r \in 0..1 : m = (n + 1) \div 2 /\ n + 1 = 2 * m + r
  <2>1. PICK q \in Nat, r \in Nat : q = (n + 1) \div 2 /\ r = (n + 1) % 2 /\ n + 1 = 2 * q + r /\ r < 2
    OBVIOUS
  <2>2. r \in 0..1
    BY <2>1
  <2> QED
    BY <2>1, <2>2
<1>3. PICK d : d = Deflate(s)
  OBVIOUS
<1>4. \A i \in 1..m : 2 * i - 1 \in 1..n /\ (2 * i <= n \/ (i = m /\ 2 * i = n + 1))
  BY <1>2
<1>5. \A i \in 1..n : s[i] \in Bytes
  BY <1>1
<1>6. /\ d = [i \in 1..m |-> d[i]]
      /\ \A i \in 1..m : d[i] = IF 2 * i <= n THEN (s[2 * i - 1] + 1) * Pack + s[2 * i] ELSE s[2 * i - 1]
  BY <1>1, <1>2, <1>3 DEF Deflate
<1>7. ASSUME NEW i \in 1..m
      PROVE  /\ d[i] \in Nat
             /\ (2 * i <= n => Two(d[i]) = <<s[2 * i - 1], s[2 * i]>>)
             /\ (2 * i = n + 1 => Two(d[i]) = <<s[2 * i - 1]>>)
  <2>1. CASE 2 * i <= n
    <3>1. PICK a \in Bytes, b \in Bytes : a = s[2 * i - 1] /\ b = s[2 * i]
      <4>1. 2 * i - 1 \in 1..n /\ 2 * i \in 1..n
        BY <1>4, <2>1
      <4> QED
        BY <1>5, <4>1
    <3>2. d[i] = (a + 1) * Pack + b
      BY <1>6, <2>1, <3>1
    <3>3. Two(d[i]) = <<a, b>> /\ d[i] \in Nat
      BY <3>2, TwoPacked
    <3>4. 2 * i # n + 1
      BY <2>1
    <3> QED
      BY <3>1, <3>3, <3>4
  <2>2. CASE 2 * i = n + 1
    <3>1. PICK a \in Bytes : a = s[2 * i - 1]
      <4>1. 2 * i - 1 \in 1..n
        BY <1>4
      <4> QED
        BY <1>5, <4>1
    <3>2. ~(2 * i <= n)
      BY <2>2
    <3>3. d[i] = a
      BY <1>6, <3>1, <3>2
    <3>4. Two(d[i]) = <<a>> /\ d[i] \in Nat
      BY <3>3, OneAlone
    <3> QED
      BY <3>1, <3>2, <3>4
  <2>3. 2 * i <= n \/ 2 * i = n + 1
    BY <1>4
  <2> QED
    BY <2>1, <2>2, <2>3
<1>8. d \in Seq(Nat) /\ Len(d) = m /\ DOMAIN d = 1..m
  <2>1. d \in [1..m -> Nat]
    BY <1>6, <1>7
  <2> QED
    BY <1>6, <2>1
<1>9. PICK ts : ts = [i \in 1..m |-> Two(d[i])]
  OBVIOUS
<1>10. Inflate(d) = FlattenSeq(ts)
  BY <1>8, <1>9 DEF Inflate, Two
<1>11. PICK B : B = Seq(Bytes)
  OBVIOUS
<1>12. ASSUME NEW i \in 1..m
       PROVE  /\ ts[i] \in B /\ ts[i][1] = s[2 * i - 1]
              /\ (2 * i <= n => Len(ts[i]) = 2 /\ ts[i][2] = s[2 * i])
              /\ (2 * i = n + 1 => Len(ts[i]) = 1)
  <2>1. 2 * i - 1 \in 1..n
    BY <1>4
  <2>2. PICK a \in Bytes : a = s[2 * i - 1]
    BY <1>5, <2>1
  <2>3. CASE 2 * i <= n
    <3>1. PICK b \in Bytes : b = s[2 * i]
      <4>1. 2 * i \in 1..n
        BY <2>3
      <4> QED
        BY <1>5, <4>1
    <3>2. ts[i] = <<a, b>>
      BY <1>7, <1>9, <2>2, <2>3, <3>1
    <3>3. <<a, b>> \in Seq(Bytes)
      OBVIOUS
    <3>4. 2 * i # n + 1
      BY <2>3
    <3> QED
      BY <1>11, <2>2, <3>1, <3>2, <3>3, <3>4
  <2>4. CASE 2 * i = n + 1
    <3>1. ts[i] = <<a>>
      BY <1>7, <1>9, <2>2, <2>4
    <3>2. <<a>> \in Seq(Bytes)
      OBVIOUS
    <3>3. ~(2 * i <= n)
      BY <2>4
    <3> QED
      BY <1>11, <2>2, <3>1, <3>2, <3>3
  <2> QED
    BY <1>4, <2>3, <2>4
<1>13. ts \in Seq(B) /\ Len(ts) = m
  <2>1. ts \in [1..m -> B]
    BY <1>9, <1>12
  <2> QED
    BY <1>9, <2>1
<1>14. ts \in Seq(Seq(Bytes))
  BY <1>11, <1>13
<1>15. PICK w : w = FlattenSeq(ts) /\ w \in Seq(Bytes)
  BY <1>14, FlattenPlaced
<1>16. PICK e : Placed(ts, e)
  BY <1>14, FlattenPlaced
<1>17. /\ e \in [0..m -> Nat] /\ e[0] = 0 /\ Len(w) = e[m] /\ \A i \in 1..m : e[i] = e[i - 1] + Len(ts[i])
  BY <1>13, <1>15, <1>16 DEF Placed, EndsAt
<1>18. \A i \in 1..m : \A j \in 1..Len(ts[i]) : w[e[i - 1] + j] = ts[i][j]
  BY <1>13, <1>15, <1>16 DEF Placed
<1>19. \A k \in Nat : k <= m => e[k] = (IF 2 * k <= n THEN 2 * k ELSE n)
  <2> DEFINE T == {k \in Nat : k <= m => e[k] = (IF 2 * k <= n THEN 2 * k ELSE n)}
  <2>1. 0 \in T
    BY <1>17
  <2>2. ASSUME NEW k \in Nat, k \in T PROVE k + 1 \in T
    <3> SUFFICES ASSUME k + 1 <= m PROVE e[k + 1] = (IF 2 * (k + 1) <= n THEN 2 * (k + 1) ELSE n)
      OBVIOUS
    <3>1. PICK i \in 1..m : i = k + 1 /\ i - 1 = k
      OBVIOUS
    <3>2. e[i] = e[k] + Len(ts[i])
      BY <1>17, <3>1
    <3>3. e[k] = 2 * k
      <4>1. 2 * k <= n
        BY <1>2, <3>1
      <4> QED
        BY <2>2, <3>1, <4>1
    <3>4. CASE 2 * i <= n
      <4>1. Len(ts[i]) = 2
        BY <1>12, <3>4
      <4>2. e[i] = 2 * i
        BY <3>1, <3>2, <3>3, <4>1
      <4> QED
        BY <3>1, <3>4, <4>2
    <3>5. CASE 2 * i = n + 1
      <4>1. Len(ts[i]) = 1
        BY <1>12, <3>5
      <4>2. e[i] = n
        BY <3>1, <3>2, <3>3, <3>5, <4>1
      <4> QED
        BY <3>1, <3>5, <4>2
    <3> QED
      BY <1>4, <3>4, <3>5
  <2> HIDE DEF T
  <2>3. \A k \in Nat : k \in T
    BY <2>1, <2>2, NatInductionSet
  <2> QED
    BY <2>3 DEF T
<1>20. Len(w) = n
  BY <1>2, <1>17, <1>19
<1>21. ASSUME NEW x \in 1..n PROVE w[x] = s[x]
  <2>1. PICK i \in 1..m, j \in 1..2 : x = 2 * (i - 1) + j
    <3>1. PICK q \in Nat, v \in Nat : q = (x + 1) \div 2 /\ v = (x + 1) % 2 /\ x + 1 = 2 * q + v /\ v < 2
      OBVIOUS
    <3>2. q \in 1..m
      BY <1>2, <3>1
    <3>3. v + 1 \in 1..2 /\ x = 2 * (q - 1) + (v + 1)
      BY <3>1
    <3> QED
      BY <3>2, <3>3
  <2>2. e[i - 1] = 2 * (i - 1)
    <3>1. i - 1 \in Nat /\ i - 1 <= m /\ 2 * (i - 1) <= n
      BY <1>2
    <3> QED
      BY <1>19, <3>1
  <2>3. j \in 1..Len(ts[i])
    BY <1>4, <1>12, <2>1
  <2>4. w[x] = ts[i][j]
    BY <1>18, <2>1, <2>2, <2>3
  <2>5. CASE j = 1
    <3>1. x = 2 * i - 1
      BY <2>1, <2>5
    <3> QED
      BY <1>12, <2>4, <2>5, <3>1
  <2>6. CASE j = 2
    <3>1. x = 2 * i /\ 2 * i <= n
      BY <2>1, <2>6
    <3> QED
      BY <1>12, <2>4, <2>6, <3>1
  <2> QED
    BY <2>5, <2>6
<1>22. w = s
  BY <1>1, <1>15, <1>20, <1>21
<1> QED
  BY <1>1, <1>2, <1>3, <1>8, <1>10, <1>15, <1>22

-----------------------------------------------------------------------------
(***************************************************************************)
(* The blocks of the compressed protocol: where each begins, and what is   *)
(* found there.                                                            *)
(***************************************************************************)
\* The bytes before block b, how many it has of them, itself in the wire, and where it begins there.
BlockFrom(b) == (b - 1) * block
DataLen(b) == IF BlockFrom(b) + block < Len(stream) THEN block ELSE Len(stream) - BlockFrom(b)
Data(b) == SubSeq(stream, BlockFrom(b) + 1, BlockFrom(b) + DataLen(b))
BodyLen(b) == IF Deflated(b) THEN (DataLen(b) + 1) \div 2 ELSE DataLen(b)
Body(b) == IF Deflated(b) THEN Deflate(Data(b)) ELSE Data(b)
BlockAt(b) == BlockEnd(b - 1)

ServerIs ==
  /\ compress /\ block \in Blocks /\ deflate \in Deflates /\ ServerCuts /\ wire = Written /\ stream = Stream /\ Sent

\* How the stream is cut.
LEMMA BlocksFit ==
  ASSUME ServerIs, NEW b \in 1..BlockCount
  PROVE  /\ BlockCount \in Nat /\ block \in Nat \ {0} /\ BlockFrom(b) \in Nat
         /\ DataLen(b) \in 1..block /\ BlockFrom(b) + DataLen(b) <= Len(stream)
         /\ b < BlockCount => DataLen(b) = block /\ BlockFrom(b + 1) = BlockFrom(b) + block
         /\ b = BlockCount => BlockFrom(b) + DataLen(b) = Len(stream)
         /\ b = BlockCount => (DataLen(b) = block => Len(stream) % block = 0)
<1>1. PICK k \in Nat \ {0} : k = block
  <2>1. PICK w \in Nat : w = MaxLen
    BY ReaderConstants
  <2>2. block \in 1..w
    BY <2>1, BlockConstants DEF ServerIs
  <2> QED
    BY <2>2
<1>2. PICK L \in Nat : L = Len(stream)
  <2>1. stream \in Seq(Nat)
    BY StreamBytes DEF ServerIs, Sent
  <2> QED
    BY <2>1
<1>3. PICK N \in Nat, r \in Nat : N = (L + k - 1) \div k /\ r = (L + k - 1) % k /\ L + k - 1 = k * N + r /\ r < k
  <2>1. PICK t \in Nat : t = L + k - 1
    BY <1>1
  <2>2. PICK N \in Nat, r \in Nat : N = t \div k /\ r = t % k /\ t = k * N + r /\ r < k
    OBVIOUS
  <2> QED
    BY <2>1, <2>2
<1>4. BlockCount = N
  BY <1>1, <1>2, <1>3 DEF BlockCount
<1>5. PICK x \in Nat, y \in Nat : x = b - 1 /\ y = N - b
  BY <1>4
<1>6. PICK u \in Nat, z \in Nat : u = k * x /\ z = k * y
  OBVIOUS
<1>7. k * N = u + k + z
  <2>1. N = x + 1 + y
    BY <1>4, <1>5
  <2>2. k * (x + 1 + y) = k * x + k + k * y
    OBVIOUS
  <2> QED
    BY <1>6, <2>1, <2>2
<1>8. L + k - 1 = u + k + z + r
  BY <1>3, <1>7
<1>9. BlockFrom(b) = u
  BY <1>1, <1>5, <1>6 DEF BlockFrom
<1>10. CASE b < N
  <2>1. y >= 1
    BY <1>5, <1>10
  <2>2. z >= k
    <3>1. k * y >= k
      BY <2>1
    <3> QED
      BY <1>6, <3>1
  <2>3. u + k <= L
    BY <1>8, <2>2
  <2>4. DataLen(b) = k
    BY <1>1, <1>2, <1>9, <2>3 DEF DataLen
  <2>5. BlockFrom(b + 1) = u + k
    <3>1. BlockFrom(b + 1) = (x + 1) * k
      BY <1>1, <1>5 DEF BlockFrom
    <3>2. (x + 1) * k = k * x + k
      OBVIOUS
    <3> QED
      BY <1>6, <3>1, <3>2
  <2> QED
    BY <1>1, <1>2, <1>4, <1>9, <1>10, <2>3, <2>4, <2>5
<1>11. CASE b = N
  <2>1. y = 0 /\ z = 0
    BY <1>5, <1>6, <1>11
  <2>2. L - 1 = u + r
    BY <1>8, <2>1
  <2>3. DataLen(b) = L - u
    BY <1>1, <1>2, <1>3, <1>9, <2>2 DEF DataLen
  <2>4. L - u \in 1..k /\ u + (L - u) = L
    BY <1>3, <2>2
  <2>5. ASSUME L - u = k PROVE L % k = 0
    <3>1. PICK q \in Nat : q = x + 1
      OBVIOUS
    <3>2. k * q = k * x + k
      BY <3>1
    <3>3. L = k * q + 0
      BY <1>6, <2>5, <3>2
    <3> QED
      BY <3>3, ModUnique
  <2> QED
    BY <1>1, <1>2, <1>4, <1>9, <1>11, <2>3, <2>4, <2>5
<1> QED
  BY <1>4, <1>10, <1>11

\* What a block carries, in the stream and in the wire.
LEMMA BodyFits ==
  ASSUME ServerIs, NEW b \in 1..BlockCount
  PROVE  /\ Data(b) \in Seq(Nat) /\ Len(Data(b)) = DataLen(b)
         /\ \A j \in 1..DataLen(b) : Data(b)[j] = stream[BlockFrom(b) + j]
         /\ Body(b) \in Seq(Nat) /\ Len(Body(b)) = BodyLen(b) /\ BodyLen(b) \in 1..DataLen(b)
         /\ Deflated(b) => Inflate(Body(b)) = Data(b) /\ (BodyLen(b) < DataLen(b) \/ DataLen(b) = 1)
         /\ ~Deflated(b) => Body(b) = Data(b) /\ BodyLen(b) = DataLen(b)
<1>1. PICK d \in Nat, v \in Nat : d = DataLen(b) /\ v = BlockFrom(b) /\ d >= 1 /\ v + d <= Len(stream)
  <2>1. PICK k \in Nat : k = block
    BY BlocksFit
  <2>2. DataLen(b) \in 1..k /\ BlockFrom(b) \in Nat /\ BlockFrom(b) + DataLen(b) <= Len(stream)
    BY <2>1, BlocksFit
  <2> QED
    BY <2>2
<1>2. PICK t \in Seq(Bytes) : t = stream
  BY StreamFits DEF ServerIs
<1>3. PICK y : y = SubSeq(t, v + 1, v + d)
  OBVIOUS
<1>4. v + d <= Len(t)
  BY <1>1, <1>2
<1>5. y \in Seq(Bytes) /\ Len(y) = d /\ \A j \in 1..d : y[j] = t[v + j]
  <2>1. d \in Nat /\ v \in Nat /\ t \in Seq(Bytes)
    BY <1>1, <1>2
  <2>2. y = [j \in 1..d |-> t[v + j]]
    BY ONLY <1>3, <1>4, <2>1
  <2>3. \A j \in 1..d : t[v + j] \in Bytes
    BY ONLY <1>4, <2>1
  <2> QED
    BY ONLY <2>1, <2>2, <2>3
<1>6. Data(b) = y
  BY <1>1, <1>2, <1>3 DEF Data
<1>7. y \in Seq(Nat)
  <2>1. Pack \in Nat
    BY BlockConstants
  <2>2. Bytes \subseteq Nat
    BY <2>1 DEF Bytes
  <2>3. \A j \in 1..d : y[j] \in Bytes
    BY <1>5
  <2>4. y = [j \in 1..d |-> y[j]]
    BY <1>5
  <2>5. y \in [1..d -> Nat]
    BY <2>2, <2>3, <2>4
  <2> QED
    BY <2>5
<1>8. CASE Deflated(b)
  <2>1. Body(b) = Deflate(y) /\ BodyLen(b) = (d + 1) \div 2
    BY <1>1, <1>6, <1>8 DEF Body, BodyLen
  <2>2. Deflate(y) \in Seq(Nat) /\ Len(Deflate(y)) = (Len(y) + 1) \div 2 /\ Inflate(Deflate(y)) = y
    BY <1>5, InflateDeflate
  <2>3. PICK m \in Nat, r \in Nat : m = (d + 1) \div 2 /\ r = (d + 1) % 2 /\ d + 1 = 2 * m + r /\ r < 2
    OBVIOUS
  <2>4. m \in 1..d /\ (m < d \/ d = 1)
    <3>1. d >= 1
      BY <1>1
    <3>2. r \in 0..1 /\ d + 1 = 2 * m + r
      BY <2>3
    <3>3. m >= 1 /\ m <= d /\ (m < d \/ d = 1)
      BY <3>1, <3>2
    <3> QED
      BY <3>3
  <2> QED
    BY <1>1, <1>2, <1>5, <1>6, <1>7, <1>8, <2>1, <2>2, <2>3, <2>4
<1>9. CASE ~Deflated(b)
  <2>1. Body(b) = y /\ BodyLen(b) = d
    BY <1>1, <1>6, <1>9 DEF Body, BodyLen
  <2> QED
    BY <1>1, <1>2, <1>5, <1>6, <1>7, <1>9, <2>1
<1> QED
  BY <1>8, <1>9

\* A block, hidden from those who only need its place.
BlockBytesAre(b, s) ==
  /\ s \in Seq(Nat) /\ Len(s) = 7 + BodyLen(b)
  /\ s[1] + s[2] * Base + s[3] * Base * Base = BodyLen(b)
  /\ s[5] + s[6] * Base + s[7] * Base * Base = (IF Deflated(b) THEN DataLen(b) ELSE 0)
  /\ \A j \in 1..BodyLen(b) : s[7 + j] = Body(b)[j]

\* The bytes of a block.
LEMMA BlockBytesHere ==
  ASSUME ServerIs, NEW b \in 1..BlockCount
  PROVE  BlockBytesAre(b, BlockOf(b))
<1>01. DataLen(b) \in Nat /\ BodyLen(b) \in Nat
  <2>1. PICK k \in Nat : k = block
    BY BlocksFit
  <2>2. DataLen(b) \in 1..k
    BY <2>1, BlocksFit
  <2>3. PICK d \in Nat : d = DataLen(b)
    BY <2>2
  <2>4. BodyLen(b) \in 1..d
    BY <2>3, BodyFits
  <2> QED
    BY <2>3, <2>4
<1>03. PICK l \in Nat, x \in Nat : l = BodyLen(b) /\ x = (IF Deflated(b) THEN DataLen(b) ELSE 0)
  BY <1>01
<1>04. PICK s, y : s = BlockOf(b) /\ y = Body(b)
  OBVIOUS
<1>02. l = BodyLen(b) /\ x = (IF Deflated(b) THEN DataLen(b) ELSE 0) /\ s = BlockOf(b) /\ y = Body(b)
  BY <1>03, <1>04
<1>1. y \in Seq(Nat) /\ Len(y) = l
  BY <1>02, BodyFits
<1>2. PICK f, t : f = HeaderOf(l, b) /\ t = HeaderOf(x, 0) /\ s = f \o SubSeq(t, 1, 3) \o y
  <2>1. PICK k \in Nat, v \in Nat, L \in Nat : k = block /\ v = BlockFrom(b) /\ L = Len(stream)
    <3>1. block \in Nat /\ BlockFrom(b) \in Nat
      BY BlocksFit
    <3>2. stream \in Seq(Nat)
      BY StreamBytes DEF ServerIs, Sent
    <3>3. Len(stream) \in Nat
      BY <3>2
    <3> QED
      BY <3>1, <3>3
  <2>2. DataLen(b) = IF v + k < L THEN k ELSE L - v
    BY <2>1 DEF DataLen
  <2>3. v + DataLen(b) = IF v + k < L THEN v + k ELSE L
    BY <2>2
  <2>4. PICK d : d = SubSeq(stream, v + 1, IF v + k < L THEN v + k ELSE L)
    OBVIOUS
  <2>5. Data(b) = d
    BY <2>1, <2>3, <2>4 DEF Data
  <2>6. BlockOf(b) = HeaderOf(Len(IF Deflated(b) THEN Deflate(d) ELSE d), b)
                     \o SubSeq(HeaderOf(IF Deflated(b) THEN Len(d) ELSE 0, 0), 1, 3) \o (IF Deflated(b) THEN Deflate(d) ELSE d)
    <3>1. v = (b - 1) * block
      BY <2>1 DEF BlockFrom
    <3> QED
      BY <2>1, <2>4, <3>1 DEF BlockOf
  <2>7. y = IF Deflated(b) THEN Deflate(d) ELSE d
    BY <1>02, <2>5 DEF Body
  <2>8. x = IF Deflated(b) THEN Len(d) ELSE 0
    <3>1. Len(Data(b)) = DataLen(b)
      BY BodyFits
    <3> QED
      BY <1>02, <2>5, <3>1
  <2> QED
    BY <1>02, <1>1, <2>6, <2>7, <2>8
<1>3. PICK h1 \in Nat, h2 \in Nat, h3 \in Nat :
        /\ f \in Seq(Nat) /\ Len(f) = 4 /\ f[1] = h1 /\ f[2] = h2 /\ f[3] = h3 /\ h1 + h2 * Base + h3 * Base * Base = l
  <2>1. PICK h1 \in Nat, h2 \in Nat, h3 \in Nat : /\ h1 = l % Base /\ h2 = (l \div Base) % Base /\ h3 = l \div (Base * Base)
                                                /\ h1 + h2 * Base + h3 * Base * Base = l
    <3>1. PICK q \in Nat : q = l
      OBVIOUS
    <3>2. /\ q % Base \in Nat /\ (q \div Base) % Base \in Nat /\ q \div (Base * Base) \in Nat
          /\ (q % Base) + ((q \div Base) % Base) * Base + (q \div (Base * Base)) * Base * Base = q
      BY LengthRead
    <3> QED
      BY <3>1, <3>2
  <2>2. b \in Nat
    BY BlocksFit
  <2>3. f = <<h1, h2, h3, b>>
    BY <1>2, <2>1 DEF HeaderOf
  <2> QED
    BY <2>1, <2>2, <2>3
<1>4. PICK g1 \in Nat, g2 \in Nat, g3 \in Nat :
        /\ t \in Seq(Nat) /\ Len(t) = 4 /\ t[1] = g1 /\ t[2] = g2 /\ t[3] = g3 /\ g1 + g2 * Base + g3 * Base * Base = x
  <2>1. PICK g1 \in Nat, g2 \in Nat, g3 \in Nat : /\ g1 = x % Base /\ g2 = (x \div Base) % Base /\ g3 = x \div (Base * Base)
                                                /\ g1 + g2 * Base + g3 * Base * Base = x
    <3>1. PICK q \in Nat : q = x
      OBVIOUS
    <3>2. /\ q % Base \in Nat /\ (q \div Base) % Base \in Nat /\ q \div (Base * Base) \in Nat
          /\ (q % Base) + ((q \div Base) % Base) * Base + (q \div (Base * Base)) * Base * Base = q
      BY LengthRead
    <3> QED
      BY <3>1, <3>2
  <2>2. t = <<g1, g2, g3, 0>>
    BY <1>2, <2>1 DEF HeaderOf
  <2> QED
    BY <2>1, <2>2
<1>5. PICK w : w = SubSeq(t, 1, 3) /\ w \in Seq(Nat) /\ Len(w) = 3 /\ w[1] = g1 /\ w[2] = g2 /\ w[3] = g3
  <2>1. PICK a \in Nat, k \in Nat : a = 0 /\ k = 3
    OBVIOUS
  <2>2. PICK w : w = SubSeq(t, a + 1, a + k)
    OBVIOUS
  <2>3. t \in Seq(Nat) /\ a + k <= Len(t)
    BY <1>4, <2>1
  <2>4. w \in Seq(Nat) /\ Len(w) = k /\ \A j \in 1..k : w[j] = t[a + j]
    BY <2>2, <2>3, PartOf
  <2>5. w[1] = t[1] /\ w[2] = t[2] /\ w[3] = t[3]
    BY <2>1, <2>4
  <2>6. a + 1 = 1 /\ a + k = 3
    BY <2>1
  <2>7. w = SubSeq(t, 1, 3)
    BY <2>2, <2>6
  <2> QED
    BY <1>4, <2>1, <2>4, <2>5, <2>7
<1>6. PICK h : h = f \o w /\ Joins(h, f, w)
  BY DEF Joins
<1>61. f \in Seq(Nat) /\ w \in Seq(Nat)
  BY <1>3, <1>5
<1>62. /\ h \in Seq(Nat) /\ Len(h) = Len(f) + Len(w) /\ \A j \in 1..Len(f) : h[j] = f[j]
       /\ \A j \in 1..Len(w) : h[Len(f) + j] = w[j]
  BY <1>6, <1>61, JoinsIs
<1>7. h \in Seq(Nat) /\ Len(h) = 7 /\ h[1] = h1 /\ h[2] = h2 /\ h[3] = h3 /\ h[5] = g1 /\ h[6] = g2 /\ h[7] = g3
  <2>1. \A j \in 1..4 : h[j] = f[j]
    BY <1>3, <1>62
  <2>2. \A j \in 1..3 : h[4 + j] = w[j]
    BY <1>3, <1>5, <1>62
  <2>3. h[1] = f[1] /\ h[2] = f[2] /\ h[3] = f[3] /\ h[5] = w[1] /\ h[6] = w[2] /\ h[7] = w[3]
    <3>1. h[4 + 1] = w[1] /\ h[4 + 2] = w[2] /\ h[4 + 3] = w[3]
      BY <2>2
    <3> QED
      BY <2>1, <3>1
  <2>4. Len(h) = 7
    BY <1>3, <1>5, <1>62
  <2> QED
    BY <1>3, <1>5, <1>62, <2>3, <2>4
<1>8. Joins(s, h, y)
  BY <1>2, <1>5, <1>6 DEF Joins
<1>9. h \in Seq(Nat) /\ y \in Seq(Nat)
  BY <1>1, <1>7
<1>10. /\ s \in Seq(Nat) /\ Len(s) = Len(h) + Len(y) /\ \A j \in 1..Len(h) : s[j] = h[j]
       /\ \A j \in 1..Len(y) : s[Len(h) + j] = y[j]
  BY <1>8, <1>9, JoinsIs
<1>11. s[1] = h1 /\ s[2] = h2 /\ s[3] = h3 /\ s[5] = g1 /\ s[6] = g2 /\ s[7] = g3
  <2>1. \A j \in 1..7 : s[j] = h[j]
    BY <1>7, <1>10
  <2>2. s[1] = h[1] /\ s[2] = h[2] /\ s[3] = h[3] /\ s[5] = h[5] /\ s[6] = h[6] /\ s[7] = h[7]
    BY <2>1
  <2> QED
    BY <1>7, <2>2
<1>12. Len(s) = 7 + l /\ \A j \in 1..l : s[7 + j] = y[j]
  BY <1>1, <1>7, <1>10
<1>13. s[1] + s[2] * Base + s[3] * Base * Base = l /\ s[5] + s[6] * Base + s[7] * Base * Base = x
  BY <1>3, <1>4, <1>11
<1> QED
  BY <1>02, <1>10, <1>12, <1>13 DEF BlockBytesAre

\* Where the blocks are in the wire.
LEMMA WireBytes ==
  ASSUME ServerIs
  PROVE  /\ BlockCount \in Nat /\ wire \in Seq(Nat) /\ BlockEnd(0) = 0 /\ BlockEnd(BlockCount) = Len(wire)
         /\ \A b \in 0..BlockCount : BlockEnd(b) \in Nat /\ BlockEnd(b) <= Len(wire)
         /\ \A b \in 1..BlockCount : BlockEnd(b) = BlockEnd(b - 1) + 7 + BodyLen(b)
         /\ \A b \in 1..BlockCount : \A j \in 1..(7 + BodyLen(b)) : wire[BlockEnd(b - 1) + j] = BlockOf(b)[j]
         /\ \A b, c \in 0..BlockCount : b <= c => BlockEnd(b) <= BlockEnd(c)
<1>1. PICK N \in Nat : N = BlockCount
  <2>1. PICK k \in Nat \ {0} : k = block
    <3>1. PICK w \in Nat : w = MaxLen
      BY ReaderConstants
    <3>2. block \in 1..w
      BY <3>1, BlockConstants DEF ServerIs
    <3> QED
      BY <3>2
  <2>2. PICK L \in Nat : L = Len(stream)
    <3>1. stream \in Seq(Nat)
      BY StreamBytes DEF ServerIs, Sent
    <3> QED
      BY <3>1
  <2>3. PICK t \in Nat : t = L + k - 1
    BY <2>1
  <2>4. t \div k \in Nat
    OBVIOUS
  <2> QED
    BY <2>1, <2>2, <2>3, <2>4 DEF BlockCount
<1>2. PICK bs : bs = [b \in 1..N |-> BlockOf(b)]
  OBVIOUS
<1>3. \A b \in 1..N : BlockOf(b) \in Seq(Nat) /\ Len(BlockOf(b)) = 7 + BodyLen(b)
  BY <1>1, BlockBytesHere DEF BlockBytesAre
<1>4. PICK B : B = Seq(Nat)
  OBVIOUS
<1>5. bs \in Seq(B) /\ Len(bs) = N /\ \A b \in 1..N : bs[b] = BlockOf(b)
  <2>1. bs \in [1..N -> B]
    BY <1>2, <1>3, <1>4
  <2> QED
    BY <1>2, <2>1
<1>6. bs \in Seq(Seq(Nat))
  BY <1>4, <1>5
<1>7. wire = FlattenSeq(bs)
  BY <1>1, <1>2 DEF ServerIs, Written
<1>8. PICK e : Placed(bs, e)
  BY <1>6, FlattenPlaced
<1>9. wire \in Seq(Nat)
  BY <1>6, <1>7, FlattenPlaced
<1>10. EndsAt(bs, e)
  BY <1>8 DEF Placed
<1>11. ASSUME NEW b \in 0..N PROVE BlockEnd(b) = e[b]
  <2>1. PICK ts : ts = [c \in 1..b |-> BlockOf(c)]
    OBVIOUS
  <2>2. b \in Nat /\ \A c \in 1..b : c \in 1..N
    OBVIOUS
  <2>3. ts \in [1..b -> B]
    BY <1>3, <1>4, <2>1, <2>2
  <2>4. ts \in Seq(B) /\ Len(ts) = b
    BY <2>1, <2>2, <2>3
  <2>5. ts \in Seq(Seq(Nat))
    BY <1>4, <2>4
  <2>6. StartOf(ts, bs, b)
    BY <1>5, <2>1, <2>2, <2>4 DEF StartOf
  <2>7. Len(FlattenSeq(ts)) = e[b]
    BY <1>6, <1>8, <2>2, <2>5, <2>6, FlattenFirst
  <2> QED
    BY <2>1, <2>7 DEF BlockEnd
<1>12. /\ e \in [0..N -> Nat] /\ e[0] = 0 /\ \A b \in 1..N : e[b] = e[b - 1] + Len(bs[b])
       /\ Len(wire) = e[N] /\ \A b \in 0..N : e[b] <= e[N]
       /\ \A b \in 1..N : \A j \in 1..Len(bs[b]) : wire[e[b - 1] + j] = bs[b][j]
  BY <1>5, <1>7, <1>8 DEF Placed, EndsAt
<1>13. BlockEnd(0) = 0 /\ BlockEnd(N) = Len(wire)
  BY <1>11, <1>12
<1>14. \A b \in 0..N : BlockEnd(b) \in Nat /\ BlockEnd(b) <= Len(wire)
  BY <1>11, <1>12
<1>15. ASSUME NEW b \in 1..N
       PROVE  /\ BlockEnd(b) = BlockEnd(b - 1) + 7 + BodyLen(b)
              /\ \A j \in 1..(7 + BodyLen(b)) : wire[BlockEnd(b - 1) + j] = BlockOf(b)[j]
  <2>1. b \in 0..N /\ b - 1 \in 0..N
    OBVIOUS
  <2>2. BlockEnd(b) = e[b] /\ BlockEnd(b - 1) = e[b - 1] /\ e[b - 1] \in Nat
    BY <1>11, <1>12, <2>1
  <2>3. Len(bs[b]) = 7 + BodyLen(b) /\ bs[b] = BlockOf(b)
    BY <1>3, <1>5
  <2>4. e[b] = e[b - 1] + Len(bs[b])
    BY <1>12
  <2>5. BodyLen(b) \in Nat
    <3>1. PICK d \in Nat : d = DataLen(b)
      <4>1. PICK k \in Nat : k = block
        BY <1>1, BlocksFit
      <4>2. DataLen(b) \in 1..k
        BY <1>1, <4>1, BlocksFit
      <4> QED
        BY <4>2
    <3>2. BodyLen(b) \in 1..d
      BY <1>1, <3>1, BodyFits
    <3> QED
      BY <3>2
  <2>6. \A j \in 1..Len(bs[b]) : wire[e[b - 1] + j] = bs[b][j]
    BY <1>12
  <2>7. PICK z \in Nat, n \in Nat, v \in Nat : z = e[b - 1] /\ n = BodyLen(b) /\ v = e[b]
    BY <1>12, <2>2, <2>5
  <2>8. v = z + 7 + n
    <3>1. v = z + (7 + n)
      BY <2>3, <2>4, <2>7
    <3> QED
      BY <2>7, <3>1
  <2>9. BlockEnd(b) = BlockEnd(b - 1) + 7 + BodyLen(b)
    BY <2>2, <2>7, <2>8
  <2>10. \A j \in 1..(7 + n) : wire[z + j] = BlockOf(b)[j]
    BY <2>3, <2>6, <2>7
  <2>11. BlockEnd(b - 1) = z
    BY <2>2, <2>7
  <2>12. \A j \in 1..(7 + BodyLen(b)) : wire[BlockEnd(b - 1) + j] = BlockOf(b)[j]
    BY <2>7, <2>10, <2>11
  <2> QED
    BY <2>9, <2>12
<1>16. ASSUME NEW b \in 0..N, NEW c \in 0..N, b <= c PROVE BlockEnd(b) <= BlockEnd(c)
  <2>1. b \in Nat /\ c \in Nat /\ c <= Len(bs)
    BY <1>5
  <2>2. e[b] <= e[c]
    BY <1>6, <1>10, <1>16, <2>1, EndsGrow
  <2> QED
    BY <1>11, <2>2
<1> QED
  BY <1>1, <1>9, <1>13, <1>14, <1>15, <1>16

-----------------------------------------------------------------------------
(***************************************************************************)
(* The invariant of the layer, that has read r bytes of the wire and given *)
(* g of the stream to the reader.                                          *)
(***************************************************************************)
ZGiven(r) ==
  /\ r \in Nat /\ r <= Len(wire) /\ zChunk \in Seq(Nat) /\ Len(zChunk) <= r
  /\ \A i \in 1..Len(zChunk) : zChunk[i] = wire[(r - Len(zChunk)) + i]

ZType ==
  /\ zPhase \in {"idle", "header", "payload"} /\ zLength \in Int /\ zRemainingLen \in Nat
  /\ zPhase \in {"idle", "header"} => zLength = -1
  /\ zPhase = "idle" => zChunk = <<>>

\* What is kept for the reader when block b is under way, in front of which the stream was given
\* up to g: a deflated block is alone, the others are joined.
Cargo(b, g, i) == IF Deflated(b) THEN Body(b)[i] ELSE stream[g + i]
CargoFrom(y, b, g, n, k) == y \in Seq(Nat) /\ Len(y) = k /\ \A j \in 1..k : y[j] = Cargo(b, g, n + j)
ZPartsAre(b, g, n) ==
  IF zParts = None THEN n = 0
  ELSE zParts \in Seq(Nat) /\ Len(zParts) = n /\ zPartsTotalLen = n /\ \A i \in 1..n : zParts[i] = Cargo(b, g, i)

\* The first m bytes of the block that begins at o.
ZHeadIs(h, m, o) == h \in Seq(Nat) /\ Len(h) = m /\ \A i \in 1..m : h[i] = wire[o + i]

ZAtHeader(r, g, b) ==
  /\ zRemainingLen = 0 /\ Len(zHeader) < 7 /\ ZHeadIs(zHeader, Len(zHeader), BlockAt(b))
  /\ r - Len(zChunk) = BlockAt(b) + Len(zHeader)
  /\ ZPartsAre(b, g, BlockFrom(b) - g)
ZInBlock(r, g, b, left) ==
  /\ ZHeadIs(zHeader, 7, BlockAt(b)) /\ compressPacketLen = BodyLen(b) /\ left \in 1..BodyLen(b)
  /\ r - Len(zChunk) = BlockAt(b) + 7 + BodyLen(b) - left
  /\ ZPartsAre(b, g, (BlockFrom(b) - g) + BodyLen(b) - left)
ZAtEnd(r, g, b) ==
  /\ b = BlockCount + 1 /\ zPhase = "idle" /\ zHeader = <<>> /\ zRemainingLen = 0 /\ zParts = None
  /\ r = Len(wire) /\ g = Len(stream)
ZWithin(r, g, b) ==
  \/ zLength = -1 /\ ZAtHeader(r, g, b)
  \/ zPhase \in {"idle", "header"} /\ zRemainingLen > 0 /\ ZInBlock(r, g, b, zRemainingLen)
  \/ zPhase = "payload" /\ zLength > 0 /\ ZInBlock(r, g, b, zLength)

\* The stream has not been given beyond block b, nor in front of it when that one is deflated.
Behind(g, b) == g <= BlockFrom(b) /\ (Deflated(b) => g = BlockFrom(b))
\* The blocks before b that are not joined to the next were given.
PassedFrom(g, b, a) ==
  /\ a > 0 => ~Joined(a) /\ BlockFrom(a) + DataLen(a) <= g
  /\ \A c \in (a + 1)..(b - 1) : Joined(c)
Passed(g, b) == \E a \in 0..(b - 1) : PassedFrom(g, b, a)
ZPlace(r, g, b) == ZAtEnd(r, g, b) \/ (b \in 1..BlockCount /\ Behind(g, b) /\ ZWithin(r, g, b))
LayerAt(r, g) ==
  ServerIs /\ ZGiven(r) /\ ZType /\ g \in Nat /\ \E b \in 1..(BlockCount + 1) : Passed(g, b) /\ ZPlace(r, g, b)

\* All of the blocks is about the packets and the way the server cuts them.
LEMMA BlocksKept ==
  ASSUME server' = server, packets' = packets
  PROVE  /\ stream' = stream /\ wire' = wire /\ BlockCount' = BlockCount /\ (ServerIs => ServerIs')
         /\ \A b : /\ BlockFrom(b)' = BlockFrom(b) /\ DataLen(b)' = DataLen(b) /\ BodyLen(b)' = BodyLen(b)
                   /\ BlockAt(b)' = BlockAt(b) /\ Joined(b)' = Joined(b) /\ Deflated(b)' = Deflated(b)
         /\ \A b, g, i : Cargo(b, g, i)' = Cargo(b, g, i)
<1>1. compress' = compress /\ block' = block /\ deflate' = deflate /\ stream' = stream /\ wire' = wire
  BY DEF server
<1>2. BlockCount' = BlockCount
  BY <1>1 DEF BlockCount
<1>3. \A b : Deflated(b)' = Deflated(b) /\ BlockOf(b)' = BlockOf(b)
  BY <1>1 DEF Deflated, BlockOf
<1>4. \A b : BlockEnd(b)' = BlockEnd(b)
  BY <1>3 DEF BlockEnd
<1>5. \A b : BlockFrom(b)' = BlockFrom(b) /\ DataLen(b)' = DataLen(b)
  BY <1>1 DEF BlockFrom, DataLen
<1>6. \A b : BodyLen(b)' = BodyLen(b)
  BY <1>3, <1>5 DEF BodyLen
<1>7. \A b : BlockAt(b)' = BlockAt(b)
  BY <1>4 DEF BlockAt
<1>8. \A b : Joined(b)' = Joined(b)
  BY <1>1, <1>2, <1>3 DEF Joined
<1>9. \A b : Data(b)' = Data(b)
  BY <1>1, <1>5 DEF Data
<1>10. \A b : Body(b)' = Body(b)
  BY <1>3, <1>9 DEF Body
<1>11. \A b, g, i : Cargo(b, g, i)' = Cargo(b, g, i)
  BY <1>1, <1>3, <1>10 DEF Cargo
<1>12. ServerCuts' = ServerCuts
  BY <1>1, <1>2, <1>3 DEF ServerCuts
<1>13. Written' = Written
  BY <1>1, <1>2, <1>3 DEF Written
<1>14. Stream' = Stream
  BY LayoutKept
<1>15. Sent' = Sent
  BY DEF Sent
<1>16. ServerIs => ServerIs'
  BY <1>1, <1>12, <1>13, <1>14, <1>15 DEF ServerIs
<1> QED
  BY <1>1, <1>2, <1>3, <1>5, <1>6, <1>7, <1>8, <1>11, <1>16

\* What there is to know of a block: where it begins in the wire, how many bytes it has there,
\* how many of the stream and where those begin.
BlockIs(b, o, l, d, v) ==
  /\ o = BlockAt(b) /\ l = BodyLen(b) /\ d = DataLen(b) /\ v = BlockFrom(b)
  /\ l \in 1..d /\ v + d <= Len(stream) /\ o + 7 + l <= Len(wire) /\ l <= MaxLen /\ (l = MaxLen <=> Joined(b))
  /\ b < BlockCount => b + 1 \in 1..BlockCount /\ BlockAt(b + 1) = o + 7 + l /\ BlockFrom(b + 1) = v + d
  /\ b = BlockCount => o + 7 + l = Len(wire) /\ v + d = Len(stream)
  /\ Joined(b) => b < BlockCount /\ ~Deflated(b) /\ ~Deflated(b + 1)
  /\ ~Deflated(b) => l = d

\* So it is.
LEMMA BlockHere ==
  ASSUME ServerIs, NEW b \in 1..BlockCount
  PROVE  \E o, l, d, v \in Nat : BlockIs(b, o, l, d, v)
<1>01. PICK w \in Nat : w = MaxLen /\ w >= 7
  BY ReaderConstants, BlockConstants
<1>02. PICK k \in 1..w : k = block
  BY <1>01, BlockConstants DEF ServerIs
<1>03. PICK N \in Nat : N = BlockCount
  BY WireBytes
<1>04. PICK L \in Nat : L = Len(stream)
  <2>1. stream \in Seq(Nat)
    BY StreamBytes DEF ServerIs, Sent
  <2> QED
    BY <2>1
<1>05. PICK W \in Nat : W = Len(wire)
  <2>1. wire \in Seq(Nat)
    BY WireBytes
  <2> QED
    BY <2>1
<1>1. k = block /\ N = BlockCount /\ w = MaxLen /\ L = Len(stream) /\ W = Len(wire) /\ k <= w /\ w >= 7 /\ k \in Nat \ {0}
  BY <1>01, <1>02, <1>03, <1>04, <1>05
<1>21. /\ BlockFrom(b) \in Nat /\ DataLen(b) \in 1..block /\ BlockFrom(b) + DataLen(b) <= Len(stream)
       /\ b < BlockCount => DataLen(b) = block /\ BlockFrom(b + 1) = BlockFrom(b) + block
       /\ b = BlockCount => BlockFrom(b) + DataLen(b) = Len(stream)
       /\ b = BlockCount => (DataLen(b) = block => Len(stream) % block = 0)
  BY BlocksFit
<1>22. PICK v \in Nat : v = BlockFrom(b)
  BY <1>21
<1>23. PICK d \in 1..k : d = DataLen(b)
  BY <1>1, <1>21
<1>24. PICK B : B = BlockFrom(b + 1)
  OBVIOUS
<1>2. /\ v = BlockFrom(b) /\ d = DataLen(b) /\ d \in 1..k /\ v + d <= L /\ d \in Nat
      /\ b < N => d = k /\ BlockFrom(b + 1) = v + k
      /\ b = N => v + d = L
      /\ b = N => (d = k => L % k = 0)
  <2>1. v + d <= L /\ (b = N => v + d = L)
    BY <1>1, <1>21, <1>22, <1>23
  <2>2. b < N => d = k /\ B = v + k
    BY <1>1, <1>21, <1>22, <1>23, <1>24
  <2>3. b = N => (d = k => L % k = 0)
    BY <1>1, <1>21, <1>23
  <2>4. d \in Nat
    BY <1>1, <1>23
  <2> QED
    BY <1>22, <1>23, <1>24, <2>1, <2>2, <2>3, <2>4
<1>3. PICK l \in 1..d : /\ l = BodyLen(b) /\ (Deflated(b) => l < d \/ d = 1) /\ (~Deflated(b) => l = d)
  <2>1. /\ BodyLen(b) \in 1..DataLen(b) /\ (Deflated(b) => BodyLen(b) < DataLen(b) \/ DataLen(b) = 1)
        /\ (~Deflated(b) => BodyLen(b) = DataLen(b))
    BY BodyFits
  <2> QED
    BY <1>2, <2>1
<1>4. PICK o \in Nat : o = BlockAt(b) /\ BlockEnd(b) = o + 7 + l /\ o + 7 + l <= W /\ (b = N => o + 7 + l = W)
  <2>1. b - 1 \in 0..BlockCount /\ b \in 0..BlockCount
    BY <1>1
  <2>2. BlockEnd(b - 1) \in Nat /\ BlockEnd(b) <= Len(wire) /\ BlockEnd(BlockCount) = Len(wire)
    BY <2>1, WireBytes
  <2>3. BlockEnd(b) = BlockEnd(b - 1) + 7 + BodyLen(b)
    BY WireBytes
  <2>4. PICK o \in Nat : o = BlockEnd(b - 1)
    BY <2>2
  <2>5. BlockEnd(b) = o + 7 + l
    BY <1>3, <2>3, <2>4
  <2>6. o + 7 + l <= W
    BY <1>1, <2>2, <2>5
  <2>7. b = N => o + 7 + l = W
    BY <1>1, <2>2, <2>5
  <2> QED
    BY <2>4, <2>5, <2>6, <2>7 DEF BlockAt
<1>5. l \in Nat /\ l <= d /\ d <= k /\ l <= w
  BY <1>1, <1>2, <1>3
<1>6. b < N => b + 1 \in 1..N /\ BlockAt(b + 1) = o + 7 + l /\ BlockFrom(b + 1) = v + d
  <2> SUFFICES ASSUME b < N PROVE b + 1 \in 1..N /\ BlockAt(b + 1) = o + 7 + l /\ BlockFrom(b + 1) = v + d
    OBVIOUS
  <2>1. b \in Nat /\ (b + 1) - 1 = b
    BY <1>1
  <2>2. BlockAt(b + 1) = BlockEnd(b)
    BY <2>1 DEF BlockAt
  <2> QED
    BY <1>1, <1>2, <1>4, <2>1, <2>2
<1>7. Joined(b) => b < N /\ ~Deflated(b) /\ ~Deflated(b + 1) /\ l = w
  <2> SUFFICES ASSUME Joined(b) PROVE b < N /\ ~Deflated(b) /\ ~Deflated(b + 1) /\ l = w
    OBVIOUS
  <2>1. block = MaxLen /\ ~Deflated(b) /\ b < BlockCount
    BY DEF Joined
  <2>2. (b < BlockCount /\ ~Deflated(b + 1)) \/ (b = BlockCount /\ Len(stream) % block # 0)
    BY <2>1 DEF ServerIs, ServerCuts
  <2>3. ~Deflated(b + 1)
    BY <1>1, <2>1, <2>2
  <2> QED
    BY <1>1, <1>2, <1>3, <2>1, <2>3
<1>8. ASSUME l = w PROVE Joined(b)
  <2>1. ~Deflated(b)
    BY <1>1, <1>3, <1>5, <1>8
  <2>2. k = w /\ d = k
    BY <1>1, <1>5, <1>8
  <2>3. (b < BlockCount /\ ~Deflated(b + 1)) \/ (b = BlockCount /\ Len(stream) % block # 0)
    BY <1>1, <2>1, <2>2 DEF ServerIs, ServerCuts
  <2>4. b # N
    BY <1>1, <1>2, <2>2, <2>3
  <2> QED
    BY <1>1, <2>1, <2>2, <2>3, <2>4 DEF Joined
<1>9. BlockIs(b, o, l, d, v)
  BY <1>1, <1>2, <1>3, <1>4, <1>5, <1>6, <1>7, <1>8 DEF BlockIs
<1>10. l \in Nat
  BY <1>5
<1> QED
  BY <1>9, <1>10

\* The header of a block tells how long it is and whether it is deflated.
LEMMA ZHeaderTells ==
  ASSUME ServerIs, NEW b \in 1..BlockCount, NEW o \in Nat, NEW l \in Nat, NEW d \in Nat, NEW v \in Nat, BlockIs(b, o, l, d, v),
         NEW h, ZHeadIs(h, 7, o)
  PROVE  LengthIn(h) = l /\ (Uninflated(h) <=> ~Deflated(b))
<1>1. PICK s : s = BlockOf(b)
  OBVIOUS
<1>2. BlockBytesAre(b, s)
  BY <1>1, BlockBytesHere
<1>3. \A j \in 1..(7 + l) : wire[o + j] = s[j]
  <2>1. \A j \in 1..(7 + BodyLen(b)) : wire[BlockEnd(b - 1) + j] = BlockOf(b)[j]
    BY WireBytes
  <2>2. o = BlockEnd(b - 1) /\ l = BodyLen(b)
    BY DEF BlockIs, BlockAt
  <2> QED
    BY <1>1, <2>1, <2>2
<1>4. h \in Seq(Nat) /\ Len(h) = 7 /\ \A i \in 1..7 : h[i] = wire[o + i]
  BY DEF ZHeadIs
<1>5. \A i \in 1..7 : h[i] = s[i]
  <2>1. \A i \in 1..7 : i \in 1..(7 + l)
    OBVIOUS
  <2> QED
    BY <1>3, <1>4, <2>1
<1>6. h[1] = s[1] /\ h[2] = s[2] /\ h[3] = s[3] /\ h[5] = s[5] /\ h[6] = s[6] /\ h[7] = s[7]
  BY <1>5
<1>7. LengthIn(h) = l
  <2>1. s[1] + s[2] * Base + s[3] * Base * Base = l
    BY <1>2 DEF BlockBytesAre, BlockIs
  <2> QED
    BY <1>6, <2>1 DEF LengthIn
<1>8. PICK a \in Nat, k \in Nat : a = 4 /\ k = 3
  OBVIOUS
<1>9. PICK y : y = SubSeq(h, a + 1, a + k)
  OBVIOUS
<1>10. h \in Seq(Nat) /\ a + k <= Len(h)
  BY <1>4, <1>8
<1>11. y \in Seq(Nat) /\ Len(y) = k /\ \A j \in 1..k : y[j] = h[a + j]
  BY <1>9, <1>10, PartOf
<1>12. y[1] = h[5] /\ y[2] = h[6] /\ y[3] = h[7]
  <2>1. y[1] = h[4 + 1] /\ y[2] = h[4 + 2] /\ y[3] = h[4 + 3]
    BY <1>8, <1>11
  <2> QED
    BY <2>1
<1>13. SubSeq(h, 5, 7) = y
  <2>1. a + 1 = 5 /\ a + k = 7
    BY <1>8
  <2> QED
    BY <1>9, <2>1
<1>14. LengthIn(y) = IF Deflated(b) THEN d ELSE 0
  <2>1. s[5] + s[6] * Base + s[7] * Base * Base = IF Deflated(b) THEN d ELSE 0
    BY <1>2 DEF BlockBytesAre, BlockIs
  <2> QED
    BY <1>6, <1>12, <2>1 DEF LengthIn
<1>15. d >= 1
  BY DEF BlockIs
<1>16. Uninflated(h) <=> LengthIn(y) = 0
  BY <1>13 DEF Uninflated
<1> QED
  BY <1>7, <1>14, <1>15, <1>16

\* What follows is what the block carries.
LEMMA BlockCargo ==
  ASSUME ServerIs, NEW b \in 1..BlockCount, NEW o \in Nat, NEW l \in Nat, NEW d \in Nat, NEW v \in Nat, BlockIs(b, o, l, d, v),
         NEW g \in Nat, Behind(g, b), NEW u \in Nat, u = v - g
  PROVE  \A j \in 1..l : wire[o + 7 + j] = Cargo(b, g, u + j)
<1> SUFFICES ASSUME NEW j \in 1..l PROVE wire[o + 7 + j] = Cargo(b, g, u + j)
  OBVIOUS
<1>1. PICK s : s = BlockOf(b)
  OBVIOUS
<1>2. BlockBytesAre(b, s)
  BY <1>1, BlockBytesHere
<1>3. PICK i \in 1..(7 + l) : i = 7 + j
  OBVIOUS
<1>4. wire[o + i] = s[i]
  <2>1. \A x \in 1..(7 + BodyLen(b)) : wire[BlockEnd(b - 1) + x] = BlockOf(b)[x]
    BY WireBytes
  <2>2. o = BlockEnd(b - 1) /\ l = BodyLen(b)
    BY DEF BlockIs, BlockAt
  <2> QED
    BY <1>1, <2>1, <2>2
<1>5. o + 7 + j = o + i
  BY <1>3
<1>6. s[i] = Body(b)[j]
  <2>1. \A x \in 1..l : s[7 + x] = Body(b)[x]
    BY <1>2 DEF BlockBytesAre, BlockIs
  <2> QED
    BY <1>3, <2>1
<1>7. CASE Deflated(b)
  <2>1. g = v
    BY <1>7 DEF Behind, BlockIs
  <2>2. u + j = j
    BY <2>1
  <2>3. Cargo(b, g, j) = Body(b)[j]
    BY <1>7 DEF Cargo
  <2> QED
    BY <1>4, <1>5, <1>6, <2>2, <2>3
<1>8. CASE ~Deflated(b)
  <2>1. Body(b) = Data(b)
    BY <1>8, BodyFits
  <2>2. l = d /\ d = DataLen(b) /\ v = BlockFrom(b)
    BY <1>8 DEF BlockIs
  <2>3. Data(b)[j] = stream[v + j]
    <3>1. \A x \in 1..DataLen(b) : Data(b)[x] = stream[BlockFrom(b) + x]
      BY BodyFits
    <3> QED
      BY <2>2, <3>1
  <2>4. PICK z \in Nat : z = u + j
    OBVIOUS
  <2>5. g + z = v + j
    <3>1. g <= v
      BY <2>2 DEF Behind
    <3> QED
      BY <2>4
  <2>6. Cargo(b, g, z) = stream[g + z]
    BY <1>8 DEF Cargo
  <2> QED
    BY <1>4, <1>5, <1>6, <2>1, <2>3, <2>4, <2>5, <2>6
<1> QED
  BY <1>7, <1>8

-----------------------------------------------------------------------------
(***************************************************************************)
(* What the layer reads of its chunk, keeps and gives.                     *)
(***************************************************************************)
\* What is cut of the chunk is what comes next in the wire.
LEMMA ZChunkPart ==
  ASSUME NEW r, ZGiven(r), NEW k \in Nat, k <= Len(zChunk), NEW y, y = ZTaken(k)
  PROVE  y \in Seq(Nat) /\ Len(y) = k /\ \A j \in 1..k : y[j] = wire[(r - Len(zChunk)) + j]
<1>1. zChunk \in Seq(Nat) /\ r \in Nat /\ \A i \in 1..Len(zChunk) : zChunk[i] = wire[(r - Len(zChunk)) + i]
  BY DEF ZGiven
<1>2. PICK a \in Nat : a = 0
  OBVIOUS
<1>3. PICK w \in Seq(Nat) : w = zChunk
  BY <1>1
<1>4. a + k <= Len(w)
  BY <1>2, <1>3
<1>5. y = SubSeq(w, a + 1, a + k)
  <2>1. a + 1 = 1 /\ a + k = k
    BY <1>2
  <2> QED
    BY <1>3, <2>1 DEF ZTaken
<1>6. y \in Seq(Nat) /\ Len(y) = k /\ \A j \in 1..k : y[j] = w[a + j]
  BY <1>4, <1>5, PartOf
<1>7. \A j \in 1..k : a + j = j /\ j \in 1..Len(zChunk)
  BY <1>2, <1>3, <1>4
<1> QED
  BY <1>1, <1>3, <1>6, <1>7

\* What is left of the chunk.
LEMMA ZChunkRest ==
  ASSUME NEW r, ZGiven(r), NEW k \in Nat, k <= Len(zChunk), ZRead(k), wire' = wire
  PROVE  ZGiven(r)' /\ Len(zChunk') = Len(zChunk) - k
<1>1. /\ r \in Nat /\ r <= Len(wire) /\ zChunk \in Seq(Nat) /\ Len(zChunk) <= r /\ zChunk' = SubSeq(zChunk, k + 1, Len(zChunk))
      /\ \A i \in 1..Len(zChunk) : zChunk[i] = wire[(r - Len(zChunk)) + i]
  BY DEF ZGiven, ZRead
<1>2. PICK m \in Nat : m = Len(zChunk)
  BY <1>1
<1>31. k <= m
  BY <1>2
<1>3. PICK e \in Nat : e = m - k /\ m = k + e
  BY <1>31
<1>4. PICK w \in Seq(Nat) : w = zChunk /\ Len(w) = m
  BY <1>1, <1>2
<1>5. PICK y : y = SubSeq(w, k + 1, k + e)
  OBVIOUS
<1>6. k + e <= Len(w)
  BY <1>3, <1>4
<1>7. y \in Seq(Nat) /\ Len(y) = e /\ \A j \in 1..e : y[j] = w[k + j]
  <2>1. y = [j \in 1..e |-> w[k + j]]
    BY <1>5
  <2>2. \A j \in 1..e : k + j \in 1..Len(w) /\ w[k + j] \in Nat
    BY <1>6
  <2> QED
    BY <2>1, <2>2
<1>8. zChunk' = y
  BY <1>1, <1>2, <1>3, <1>4, <1>5
<1>9. ASSUME NEW i \in 1..e PROVE y[i] = wire[(r - e) + i]
  <2>1. k + i \in 1..m /\ (r - m) + (k + i) = (r - e) + i
    BY <1>1, <1>2, <1>3
  <2>2. zChunk[k + i] = wire[(r - m) + (k + i)]
    BY <1>1, <1>2, <2>1
  <2> QED
    BY <1>4, <1>7, <2>1, <2>2
<1>10. e <= r /\ r <= Len(wire')
  BY <1>1, <1>2, <1>3
<1> QED
  BY <1>1, <1>2, <1>3, <1>7, <1>8, <1>9, <1>10 DEF ZGiven

\* What is read of a block is what is carried.
LEMMA ZBlockPart ==
  ASSUME NEW r, ZGiven(r), ServerIs, NEW b \in 1..BlockCount,
         NEW o \in Nat, NEW l \in Nat, NEW d \in Nat, NEW v \in Nat, BlockIs(b, o, l, d, v),
         NEW g \in Nat, Behind(g, b), NEW left \in 1..l, NEW n \in Nat, n = (v - g) + l - left,
         r - Len(zChunk) = o + 7 + l - left, NEW q \in Nat, q <= left, q <= Len(zChunk), NEW y, y = ZTaken(q)
  PROVE  CargoFrom(y, b, g, n, q)
<1>0. ZGiven(r) /\ q <= Len(zChunk) /\ y = ZTaken(q)
  OBVIOUS
<1>1. y \in Seq(Nat) /\ Len(y) = q /\ \A j \in 1..q : y[j] = wire[(r - Len(zChunk)) + j]
  BY ONLY <1>0, ZChunkPart, q \in Nat
<1>2. PICK u \in Nat : u = v - g
  <2>1. g <= v
    BY DEF Behind, BlockIs
  <2> QED
    BY <2>1
<1>3. \A j \in 1..l : wire[o + 7 + j] = Cargo(b, g, u + j)
  BY <1>2, BlockCargo
<1>4. PICK x \in Nat : x = l - left
  OBVIOUS
<1>5. PICK a \in Nat : a = r - Len(zChunk) /\ a = o + 7 + x
  BY <1>4
<1>6. ASSUME NEW j \in 1..q PROVE y[j] = Cargo(b, g, n + j)
  <2>1. PICK i \in 1..l : i = x + j
    BY <1>4
  <2>2. a + j = o + 7 + i /\ u + i = n + j
    BY <1>2, <1>4, <1>5, <2>1
  <2>3. wire[o + 7 + i] = Cargo(b, g, u + i)
    BY <1>3
  <2> QED
    BY <1>1, <1>5, <2>2, <2>3
<1> QED
  BY <1>1, <1>6 DEF CargoFrom

\* Bytes are kept behind those that were.
LEMMA ZKeepIs ==
  ASSUME server' = server, packets' = packets, NEW b, NEW g, NEW n \in Nat, ZPartsAre(b, g, n), NEW k \in Nat,
         NEW y, CargoFrom(y, b, g, n, k), ZKeep(y), NEW m, m = n + k
  PROVE  ZPartsAre(b, g, m)'
<1>1. y \in Seq(Nat) /\ Len(y) = k /\ \A j \in 1..k : y[j] = Cargo(b, g, n + j)
  BY DEF CargoFrom
<1>2. \A i : Cargo(b, g, i)' = Cargo(b, g, i)
  BY BlocksKept
<1>3. CASE zParts = None
  <2>1. n = 0 /\ zParts' = y /\ zPartsTotalLen' = k
    BY <1>1, <1>3 DEF ZPartsAre, ZKeep
  <2>2. \A j \in 1..k : n + j = j
    BY <2>1
  <2>3. \A j \in 1..k : y[j] = Cargo(b, g, j)
    BY <1>1, <2>2
  <2>4. m = k /\ zParts' # None
    BY <1>1, <2>1, NoneApart
  <2> QED
    BY <1>1, <1>2, <2>1, <2>3, <2>4 DEF ZPartsAre
<1>4. CASE zParts # None
  <2>1. zParts \in Seq(Nat) /\ Len(zParts) = n /\ zPartsTotalLen = n /\ \A i \in 1..n : zParts[i] = Cargo(b, g, i)
    BY <1>4 DEF ZPartsAre
  <2>2. PICK h \in Seq(Nat) : h = zParts
    BY <2>1
  <2>3. PICK w : w = zParts' /\ w = h \o y /\ Joins(w, h, y)
    BY <1>4, <2>2 DEF ZKeep, Joins
  <2>4. y \in Seq(Nat)
    BY <1>1
  <2>5. /\ w \in Seq(Nat) /\ Len(w) = Len(h) + Len(y) /\ \A j \in 1..Len(h) : w[j] = h[j]
        /\ \A j \in 1..Len(y) : w[Len(h) + j] = y[j]
    BY <2>3, <2>4, JoinsIs
  <2>6. Len(w) = m /\ zPartsTotalLen' = m
    <3>1. zPartsTotalLen' = zPartsTotalLen + Len(y)
      BY <1>4 DEF ZKeep
    <3> QED
      BY <1>1, <2>1, <2>2, <2>5, <3>1
  <2>7. ASSUME NEW i \in 1..m PROVE w[i] = Cargo(b, g, i)
    <3>1. CASE i <= n
      <4>1. i \in 1..n
        BY <3>1
      <4> QED
        BY <2>1, <2>2, <2>5, <4>1
    <3>2. CASE i > n
      <4>1. PICK j \in 1..k : j = i - n /\ i = n + j
        BY <3>2
      <4>2. w[n + j] = y[j]
        BY <1>1, <2>1, <2>2, <2>5
      <4>3. y[j] = Cargo(b, g, n + j)
        BY <1>1
      <4> QED
        BY <4>1, <4>2, <4>3
    <3> QED
      BY <3>1, <3>2
  <2>8. w # None
    BY <2>5, NoneApart
  <2> QED
    BY <1>2, <2>3, <2>5, <2>6, <2>7, <2>8 DEF ZPartsAre
<1> QED
  BY <1>3, <1>4

\* Nothing is kept.
LEMMA ZPartsSame ==
  ASSUME server' = server, packets' = packets, NEW b, NEW g, NEW n, ZPartsAre(b, g, n), zParts' = zParts, zPartsTotalLen' = zPartsTotalLen
  PROVE  ZPartsAre(b, g, n)'
<1>1. \A i : Cargo(b, g, i)' = Cargo(b, g, i)
  BY BlocksKept
<1> QED
  BY <1>1 DEF ZPartsAre

\* What was kept and what is put behind it.
LEMMA ZPartsAnd ==
  ASSUME NEW b, NEW g, NEW n \in Nat, ZPartsAre(b, g, n), zParts # None, NEW k \in Nat, NEW y, CargoFrom(y, b, g, n, k), NEW m, m = n + k
  PROVE  Concat(zParts \o y, m) = zParts \o y /\ CargoFrom(zParts \o y, b, g, 0, m)
<1>1. y \in Seq(Nat) /\ Len(y) = k /\ \A j \in 1..k : y[j] = Cargo(b, g, n + j)
  BY DEF CargoFrom
<1>2. zParts \in Seq(Nat) /\ Len(zParts) = n /\ zPartsTotalLen = n /\ \A i \in 1..n : zParts[i] = Cargo(b, g, i)
  BY DEF ZPartsAre
<1>3. PICK h \in Seq(Nat) : h = zParts
  BY <1>2
<1>4. PICK w : w = h \o y /\ Joins(w, h, y)
  BY DEF Joins
<1>5. y \in Seq(Nat)
  BY <1>1
<1>6. /\ w \in Seq(Nat) /\ Len(w) = Len(h) + Len(y) /\ \A j \in 1..Len(h) : w[j] = h[j]
      /\ \A j \in 1..Len(y) : w[Len(h) + j] = y[j]
  BY <1>4, <1>5, JoinsIs
<1>7. Len(w) = m /\ m \in Nat
  BY <1>1, <1>2, <1>3, <1>6
<1>8. ASSUME NEW i \in 1..m PROVE w[i] = Cargo(b, g, 0 + i)
  <2>0. 0 + i = i
    OBVIOUS
  <2>1. CASE i <= n
    <3>1. i \in 1..n
      BY <2>1
    <3> QED
      BY <1>2, <1>3, <1>6, <2>0, <3>1
  <2>2. CASE i > n
    <3>1. PICK j \in 1..k : j = i - n /\ i = n + j
      BY <1>7, <2>2
    <3>2. w[n + j] = y[j]
      BY <1>1, <1>2, <1>3, <1>6
    <3>3. y[j] = Cargo(b, g, n + j)
      BY <1>1
    <3> QED
      BY <2>0, <3>1, <3>2, <3>3
  <2> QED
    BY <1>7, <2>1, <2>2
<1>9. CargoFrom(w, b, g, 0, m)
  BY <1>6, <1>7, <1>8 DEF CargoFrom
<1>10. Concat(w, m) = w
  BY <1>6, <1>7 DEF Concat
<1> QED
  BY <1>3, <1>4, <1>9, <1>10

\* All that the blocks carry is given, inflated if need be: it is what comes next in the stream.
LEMMA CargoGiven ==
  ASSUME ServerIs, NEW b \in 1..BlockCount, NEW o \in Nat, NEW l \in Nat, NEW d \in Nat, NEW v \in Nat, BlockIs(b, o, l, d, v),
         NEW g \in Nat, Behind(g, b), NEW m \in Nat, m = (v - g) + l, NEW y, CargoFrom(y, b, g, 0, m), NEW h, ZHeadIs(h, 7, o),
         NEW x, x = (IF Uninflated(h) THEN y ELSE Inflate(y)), NEW j \in Nat, j = (v + d) - g
  PROVE  HeadIs(x, j, g)
<1>1. y \in Seq(Nat) /\ Len(y) = m /\ \A i \in 1..m : y[i] = Cargo(b, g, 0 + i)
  BY DEF CargoFrom
<1>2. Uninflated(h) <=> ~Deflated(b)
  BY ZHeaderTells
<1>3. v = BlockFrom(b) /\ d = DataLen(b) /\ l = BodyLen(b) /\ (~Deflated(b) => l = d)
  BY DEF BlockIs
<1>4. \A i \in 1..m : 0 + i = i
  OBVIOUS
<1>5. CASE Deflated(b)
  <2>1. g = v /\ m = l /\ j = d
    BY <1>3, <1>5 DEF Behind
  <2>2. PICK z : z = Body(b) /\ z \in Seq(Nat) /\ Len(z) = l /\ Inflate(z) = Data(b)
    BY <1>3, <1>5, BodyFits
  <2>3. \A i \in 1..m : y[i] = z[i]
    BY <1>1, <1>4, <1>5, <2>2 DEF Cargo
  <2>4. y = z
    BY <1>1, <2>1, <2>2, <2>3
  <2>5. x = Data(b)
    BY <1>2, <1>5, <2>2, <2>4
  <2>6. Data(b) \in Seq(Nat) /\ Len(Data(b)) = d /\ \A i \in 1..d : Data(b)[i] = stream[v + i]
    BY <1>3, BodyFits
  <2> QED
    BY <2>1, <2>5, <2>6 DEF HeadIs
<1>6. CASE ~Deflated(b)
  <2>1. x = y /\ m = j
    <3>1. g <= v
      BY <1>3 DEF Behind
    <3> QED
      BY <1>2, <1>3, <1>6
  <2>2. \A i \in 1..m : y[i] = stream[g + i]
    BY <1>1, <1>4, <1>6 DEF Cargo
  <2> QED
    BY <1>1, <2>1, <2>2 DEF HeadIs
<1> QED
  BY <1>5, <1>6

-----------------------------------------------------------------------------
(***************************************************************************)
(* The places of the layer.                                                *)
(***************************************************************************)
\* What is known of the layer.
LEMMA LayerIs ==
  ASSUME NEW r, NEW g, LayerAt(r, g)
  PROVE  ServerIs /\ ZGiven(r) /\ ZType /\ g \in Nat /\ \E b \in 1..(BlockCount + 1) : Passed(g, b) /\ ZPlace(r, g, b)
BY DEF LayerAt

\* And when it is the case after a step.
LEMMA LayerAgain ==
  ASSUME server' = server, packets' = packets, ServerIs, NEW r, NEW g \in Nat, ZGiven(r)', ZType',
         NEW b \in 1..(BlockCount + 1), Passed(g, b), ZPlace(r, g, b)'
  PROVE  LayerAt(r, g)'
<1>1. ServerIs' /\ BlockCount' = BlockCount
  BY BlocksKept
<1>2. Passed(g, b)'
  <2>1. \A c : BlockFrom(c)' = BlockFrom(c) /\ DataLen(c)' = DataLen(c) /\ Joined(c)' = Joined(c)
    BY BlocksKept
  <2> QED
    BY <2>1 DEF Passed, PassedFrom
<1>3. \E c \in 1..(BlockCount' + 1) : Passed(g, c)' /\ ZPlace(r, g, c)'
  BY <1>1, <1>2
<1> QED
  BY <1>1, <1>3 DEF LayerAt

\* Before a block, or in its header.
LEMMA WhenZHeader ==
  ASSUME NEW r, NEW g, NEW b, ZPlace(r, g, b), ZType, (zPhase = "header" /\ zRemainingLen = 0) \/ (zPhase = "payload" /\ zLength <= 0)
  PROVE  b \in 1..BlockCount /\ Behind(g, b) /\ ZAtHeader(r, g, b)
BY DEF ZPlace, ZAtEnd, ZWithin, ZType

\* The chunk before ended within a block.
LEMMA WhenZCut ==
  ASSUME NEW r, NEW g, NEW b, ZPlace(r, g, b), ZType, zPhase = "header", zRemainingLen > 0
  PROVE  b \in 1..BlockCount /\ Behind(g, b) /\ ZInBlock(r, g, b, zRemainingLen)
BY DEF ZPlace, ZAtEnd, ZWithin, ZType, ZAtHeader

\* Behind the header of a block.
LEMMA WhenZPayload ==
  ASSUME NEW r, NEW g, NEW b, ZPlace(r, g, b), ZType, zPhase = "payload", zLength > 0
  PROVE  b \in 1..BlockCount /\ Behind(g, b) /\ ZInBlock(r, g, b, zLength)
BY DEF ZPlace, ZAtEnd, ZWithin, ZType

\* The layer is in the header of a block.
LEMMA ToZHeader ==
  ASSUME server' = server, packets' = packets, NEW r, NEW g \in Nat, NEW b \in 1..BlockCount, Behind(g, b),
         NEW o, o = BlockAt(b), NEW k, k = BlockFrom(b) - g, NEW m \in 0..6, NEW h, ZHeadIs(h, m, o), zHeader' = h,
         zRemainingLen' = 0, zLength' = -1, r - Len(zChunk') = o + m, ZPartsAre(b, g, k)'
  PROVE  ZPlace(r, g, b)'
<1>1. /\ BlockCount' = BlockCount /\ wire' = wire /\ BlockAt(b)' = o /\ BlockFrom(b)' = BlockFrom(b) /\ Deflated(b)' = Deflated(b)
  BY BlocksKept
<1>2. Behind(g, b)'
  BY <1>1 DEF Behind
<1>3. Len(h) = m /\ h \in Seq(Nat) /\ \A i \in 1..m : h[i] = wire[o + i]
  BY DEF ZHeadIs
<1>4. ZHeadIs(zHeader, Len(zHeader), BlockAt(b))'
  BY <1>1, <1>3 DEF ZHeadIs
<1>5. ZPartsAre(b, g, BlockFrom(b) - g)'
  BY <1>1 DEF ZPartsAre, Cargo
<1>6. ZAtHeader(r, g, b)'
  BY <1>1, <1>3, <1>4, <1>5 DEF ZAtHeader
<1> QED
  BY <1>1, <1>2, <1>6 DEF ZPlace, ZWithin

\* It is in a block.
LEMMA ToZBlock ==
  ASSUME server' = server, packets' = packets, NEW r, NEW g \in Nat, NEW b \in 1..BlockCount, Behind(g, b),
         NEW o \in Nat, o = BlockAt(b), NEW l \in Nat, l = BodyLen(b), NEW v, v = BlockFrom(b), NEW left \in 1..l,
         NEW k, k = (v - g) + l - left, NEW h, ZHeadIs(h, 7, o), zHeader' = h, compressPacketLen' = l,
         r - Len(zChunk') = o + 7 + l - left, ZPartsAre(b, g, k)',
         (zPhase' = "payload" /\ zLength' = left) \/ (zPhase' \in {"idle", "header"} /\ zRemainingLen' = left)
  PROVE  ZPlace(r, g, b)'
<1>1. /\ BlockCount' = BlockCount /\ wire' = wire /\ BlockAt(b)' = o /\ BlockFrom(b)' = v /\ BodyLen(b)' = l
      /\ Deflated(b)' = Deflated(b)
  BY BlocksKept
<1>2. Behind(g, b)'
  BY <1>1 DEF Behind
<1>3. ZHeadIs(zHeader, 7, BlockAt(b))'
  BY <1>1 DEF ZHeadIs
<1>4. PICK z : z = left
  OBVIOUS
<1>5. ZPartsAre(b, g, (BlockFrom(b) - g) + BodyLen(b) - z)'
  BY <1>1, <1>4 DEF ZPartsAre, Cargo
<1>6. ZInBlock(r, g, b, z)'
  BY <1>1, <1>3, <1>4, <1>5 DEF ZInBlock
<1>7. CASE zPhase' = "payload" /\ zLength' = left
  <2>1. ZInBlock(r, g, b, zLength)'
    BY <1>4, <1>6, <1>7 DEF ZInBlock, ZPartsAre, Cargo
  <2> QED
    BY <1>1, <1>2, <1>7, <2>1 DEF ZPlace, ZWithin
<1>8. CASE zPhase' \in {"idle", "header"} /\ zRemainingLen' = left
  <2>1. ZInBlock(r, g, b, zRemainingLen)'
    BY <1>4, <1>6, <1>8 DEF ZInBlock, ZPartsAre, Cargo
  <2> QED
    BY <1>1, <1>2, <1>8, <2>1 DEF ZPlace, ZWithin
<1> QED
  BY <1>7, <1>8

\* A block has been given: the layer is before the next, or at the end.
LEMMA ToZNext ==
  ASSUME server' = server, packets' = packets, ServerIs, NEW r, ZGiven(r)', NEW b \in 1..BlockCount,
         NEW o \in Nat, NEW l \in Nat, NEW d \in Nat, NEW v \in Nat, BlockIs(b, o, l, d, v), NEW e \in Nat, e = v + d,
         zHeader' = <<>>, zRemainingLen' = 0, zLength' = -1, zParts' = None, zPhase' \in {"idle", "header"},
         r - Len(zChunk') = o + 7 + l, Len(zChunk') = 0 => zPhase' = "idle"
  PROVE  ZPlace(r, e, b + 1)'
<1>1. BlockCount' = BlockCount /\ wire' = wire /\ stream' = stream
  BY BlocksKept
<1>2. BlockCount \in Nat
  BY WireBytes
<1>3. PICK c : c = b + 1
  OBVIOUS
<1>4. CASE b < BlockCount
  <2>1. c \in 1..BlockCount /\ BlockAt(c) = o + 7 + l /\ BlockFrom(c) = e
    BY <1>3, <1>4 DEF BlockIs
  <2>2. Behind(e, c)
    BY <2>1 DEF Behind
  <2>3. PICK m \in 0..6 : m = 0
    OBVIOUS
  <2>4. PICK h : h = <<>> /\ zHeader' = h
    OBVIOUS
  <2>5. PICK a \in Nat : a = BlockAt(c) /\ a = o + 7 + l
    BY <2>1
  <2>6. ZHeadIs(h, m, a)
    BY <2>3, <2>4 DEF ZHeadIs
  <2>7. PICK k : k = BlockFrom(c) - e /\ k = 0
    BY <2>1
  <2>8. ZPartsAre(c, e, k)'
    BY <2>7 DEF ZPartsAre
  <2>9. r - Len(zChunk') = a + m
    BY <2>3, <2>5
  <2>10. ZPlace(r, e, c)'
    BY <2>1, <2>2, <2>4, <2>5, <2>6, <2>7, <2>8, <2>9, ToZHeader
  <2> QED
    BY <1>3, <2>10
<1>5. CASE b = BlockCount
  <2>1. o + 7 + l = Len(wire) /\ e = Len(stream)
    BY <1>5 DEF BlockIs
  <2>2. r \in Nat /\ r <= Len(wire) /\ zChunk' \in Seq(Nat)
    BY <1>1 DEF ZGiven
  <2>3. PICK z \in Nat : z = Len(zChunk')
    BY <2>2
  <2>4. z = 0 /\ r = Len(wire)
    BY <2>1, <2>2, <2>3
  <2>5. zPhase' = "idle"
    BY <2>3, <2>4
  <2>6. c = BlockCount + 1
    BY <1>3, <1>5
  <2>7. ZAtEnd(r, e, c)'
    BY <1>1, <2>1, <2>4, <2>5, <2>6 DEF ZAtEnd
  <2> QED
    BY <1>3, <2>7 DEF ZPlace
<1> QED
  BY <1>2, <1>4, <1>5

\* The layer takes another turn when something is left of its chunk.
LEMMA ZTurnIs ==
  ASSUME NEW r, ZGiven(r)', NEW c \in Nat, c = Len(zChunk), NEW q \in Nat, Len(zChunk') = Len(zChunk) - q,
         ZNextTurn(q), zLength' = -1, zRemainingLen' = 0
  PROVE  ZType' /\ zPhase' \in {"idle", "header"} /\ (Len(zChunk') = 0 => zPhase' = "idle")
<1>1. zPhase' = IF q < c THEN "header" ELSE "idle"
  BY DEF ZNextTurn
<1>3. zChunk' \in Seq(Nat)
  BY DEF ZGiven
<1>21. PICK e \in Nat : e = Len(zChunk')
  BY <1>3
<1>2. e = Len(zChunk') /\ e = c - q
  BY <1>21
<1>4. zPhase' = "idle" => zChunk' = <<>>
  <2> SUFFICES ASSUME zPhase' = "idle" PROVE zChunk' = <<>>
    OBVIOUS
  <2>1. e = 0
    BY <1>1, <1>2
  <2> QED
    BY <1>2, <1>3, <2>1
<1>5. e = 0 => zPhase' = "idle"
  BY <1>1, <1>2
<1> QED
  BY <1>1, <1>2, <1>4, <1>5 DEF ZType

-----------------------------------------------------------------------------
(***************************************************************************)
(* Each step of the layer.                                                 *)
(***************************************************************************)
\* The layer is not at the end of the wire, if there is more of it.
LEMMA SocketDataKept ==
  ASSUME NEW r, NEW g, LayerAt(r, g), r = received, NEW n \in Nat \ {0}, SocketData(n), NEW e, e = r + n
  PROVE  LayerAt(e, g)'
<1>1. ServerIs /\ ZGiven(r) /\ ZType /\ g \in Nat
  BY LayerIs
<1>2. PICK b \in 1..(BlockCount + 1) : Passed(g, b) /\ ZPlace(r, g, b)
  BY LayerIs
<1>3. compress
  BY <1>1 DEF ServerIs
<1>4. PICK y : y = SubSeq(wire, r + 1, r + n)
  OBVIOUS
<1>5. /\ zPhase = "idle" /\ r + n <= Len(wire) /\ zChunk' = y /\ zLength' = -1 /\ zPhase' = "header"
      /\ server' = server /\ packets' = packets /\ zHeader' = zHeader /\ compressPacketLen' = compressPacketLen
      /\ zRemainingLen' = zRemainingLen /\ zParts' = zParts /\ zPartsTotalLen' = zPartsTotalLen
  BY <1>3, <1>4 DEF SocketData, readerVars, zFrame
<1>6. wire' = wire
  BY <1>5 DEF server
<1>7. r \in Nat /\ zChunk = <<>> /\ zLength = -1 /\ Len(zChunk) = 0
  BY <1>1, <1>5 DEF ZGiven, ZType
<1>8. PICK w \in Seq(Nat) : w = wire
  BY <1>1, WireBytes
<1>9. y \in Seq(Nat) /\ Len(y) = n /\ \A i \in 1..n : y[i] = w[r + i]
  <2>1. y = [i \in 1..n |-> w[r + i]]
    BY <1>4, <1>7, <1>8
  <2>2. \A i \in 1..n : r + i \in 1..Len(w) /\ w[r + i] \in Nat
    BY <1>5, <1>7, <1>8
  <2> QED
    BY <2>1, <2>2
<1>10. e - Len(zChunk') = r /\ e \in Nat /\ e <= Len(w) /\ Len(zChunk') <= e
  BY <1>5, <1>7, <1>8, <1>9
<1>11. ZGiven(e)'
  <2>1. \A i \in 1..Len(zChunk') : zChunk'[i] = wire'[(e - Len(zChunk')) + i]
    BY <1>5, <1>6, <1>8, <1>9, <1>10
  <2> QED
    BY <1>5, <1>6, <1>8, <1>9, <1>10, <2>1 DEF ZGiven
<1>12. ZType'
  BY <1>1, <1>5 DEF ZType
<1>13. b \in 1..BlockCount
  <2>1. ~ZAtEnd(r, g, b)
    BY <1>5, <1>7, <1>8 DEF ZAtEnd
  <2> QED
    BY <1>2, <2>1 DEF ZPlace
<1>14. Behind(g, b) /\ ZWithin(r, g, b)
  <2>1. ~ZAtEnd(r, g, b)
    BY <1>5, <1>7, <1>8 DEF ZAtEnd
  <2> QED
    BY <1>2, <2>1 DEF ZPlace
<1>15. PICK o \in Nat, l \in Nat, d \in Nat, v \in Nat : BlockIs(b, o, l, d, v)
  BY <1>1, <1>13, BlockHere
<1>16. o = BlockAt(b) /\ l = BodyLen(b) /\ v = BlockFrom(b)
  BY <1>15 DEF BlockIs
<1>17. CASE ZAtHeader(r, g, b)
  <2>1. PICK h : h = zHeader
    OBVIOUS
  <2>2. zRemainingLen = 0 /\ Len(h) < 7 /\ ZHeadIs(h, Len(h), o) /\ r - Len(zChunk) = o + Len(h) /\ ZPartsAre(b, g, v - g)
    BY <1>16, <1>17, <2>1 DEF ZAtHeader
  <2>3. PICK m \in 0..6 : m = Len(h)
    <3>1. h \in Seq(Nat)
      BY <2>2 DEF ZHeadIs
    <3>2. PICK z \in Nat : z = Len(h) /\ z < 7
      BY <2>2, <3>1
    <3>3. ASSUME NEW x \in Nat, x < 7 PROVE x \in 0..6
      BY <3>3
    <3>4. z \in 0..6
      BY <3>2, <3>3
    <3> QED
      BY <3>2, <3>4
  <2>4. PICK k : k = BlockFrom(b) - g /\ ZPartsAre(b, g, k)
    BY <1>16, <2>2
  <2>5. ZPartsAre(b, g, k)'
    BY <1>5, <2>4, ZPartsSame
  <2>6. e - Len(zChunk') = o + m
    BY <1>7, <1>10, <2>2, <2>3
  <2>7. ZHeadIs(h, m, o) /\ zHeader' = h /\ zRemainingLen' = 0 /\ zLength' = -1
    BY <1>5, <2>1, <2>2, <2>3
  <2>8. ZPlace(e, g, b)'
    BY <1>1, <1>5, <1>13, <1>14, <1>16, <2>4, <2>5, <2>6, <2>7, ToZHeader
  <2> QED
    BY <1>1, <1>2, <1>5, <1>11, <1>12, <2>8, LayerAgain
<1>18. CASE zRemainingLen > 0 /\ ZInBlock(r, g, b, zRemainingLen)
  <2>1. PICK left \in 1..l : left = zRemainingLen
    BY <1>16, <1>18 DEF ZInBlock
  <2>2. PICK k : k = (v - g) + l - left
    OBVIOUS
  <2>3. PICK h : h = zHeader
    OBVIOUS
  <2>4. ZHeadIs(h, 7, o) /\ compressPacketLen = l /\ r - Len(zChunk) = o + 7 + l - left /\ ZPartsAre(b, g, k)
    BY <1>16, <1>18, <2>1, <2>2, <2>3 DEF ZInBlock
  <2>5. ZPartsAre(b, g, k)'
    BY <1>5, <2>4, ZPartsSame
  <2>6. e - Len(zChunk') = o + 7 + l - left
    BY <1>7, <1>10, <2>4
  <2>7. zHeader' = h /\ compressPacketLen' = l
    BY <1>5, <2>3, <2>4
  <2>8. zPhase' \in {"idle", "header"} /\ zRemainingLen' = left
    BY <1>5, <2>1
  <2>9. ZPlace(e, g, b)'
    BY <1>1, <1>5, <1>13, <1>14, <1>16, <2>2, <2>4, <2>5, <2>6, <2>7, <2>8, ToZBlock
  <2> QED
    BY <1>1, <1>2, <1>5, <1>11, <1>12, <2>9, LayerAgain
<1> QED
  BY <1>5, <1>14, <1>17, <1>18 DEF ZWithin

\* The rest of a block that the chunk before cut.
LEMMA ZGoOnKept ==
  ASSUME NEW r, NEW g, LayerAt(r, g), ZGoOn
  PROVE  LayerAt(r, g)'
<1>1. ServerIs /\ ZGiven(r) /\ ZType /\ g \in Nat
  BY LayerIs
<1>2. PICK b \in 1..(BlockCount + 1) : Passed(g, b) /\ ZPlace(r, g, b)
  BY LayerIs
<1>3. /\ zPhase = "header" /\ zRemainingLen > 0 /\ zLength' = zRemainingLen /\ zPhase' = "payload" /\ zChunk' = zChunk
      /\ server' = server /\ packets' = packets /\ zHeader' = zHeader /\ compressPacketLen' = compressPacketLen
      /\ zRemainingLen' = zRemainingLen /\ zParts' = zParts /\ zPartsTotalLen' = zPartsTotalLen
  BY DEF ZGoOn, ZTurn, readerVars, zFrame
<1>4. b \in 1..BlockCount /\ Behind(g, b) /\ ZInBlock(r, g, b, zRemainingLen)
  BY <1>1, <1>2, <1>3, WhenZCut
<1>5. PICK o \in Nat, l \in Nat, d \in Nat, v \in Nat : BlockIs(b, o, l, d, v)
  BY <1>1, <1>4, BlockHere
<1>6. o = BlockAt(b) /\ l = BodyLen(b) /\ v = BlockFrom(b)
  BY <1>5 DEF BlockIs
<1>7. PICK left \in 1..l : left = zRemainingLen
  BY <1>4, <1>6 DEF ZInBlock
<1>8. PICK k : k = (v - g) + l - left
  OBVIOUS
<1>9. PICK h : h = zHeader
  OBVIOUS
<1>10. ZHeadIs(h, 7, o) /\ compressPacketLen = l /\ r - Len(zChunk) = o + 7 + l - left /\ ZPartsAre(b, g, k)
  BY <1>4, <1>6, <1>7, <1>8, <1>9 DEF ZInBlock
<1>11. ZPartsAre(b, g, k)'
  BY <1>3, <1>10, ZPartsSame
<1>12. r - Len(zChunk') = o + 7 + l - left
  BY <1>3, <1>10
<1>13. zHeader' = h /\ compressPacketLen' = l /\ zPhase' = "payload" /\ zLength' = left
  BY <1>3, <1>7, <1>9, <1>10
<1>14. ZPlace(r, g, b)'
  BY <1>1, <1>3, <1>4, <1>6, <1>8, <1>10, <1>11, <1>12, <1>13, ToZBlock
<1>15. ZGiven(r)'
  BY <1>1, <1>3 DEF ZGiven, server
<1>16. ZType'
  BY <1>1, <1>3 DEF ZType
<1> QED
  BY <1>1, <1>2, <1>3, <1>14, <1>15, <1>16, LayerAgain

\* The header is read as far as it is there.
LEMMA ZHeaderKept ==
  ASSUME NEW r, NEW g, LayerAt(r, g), ZHeader
  PROVE  LayerAt(r, g)'
<1>1. ServerIs /\ ZGiven(r) /\ ZType /\ g \in Nat
  BY LayerIs
<1>2. PICK b \in 1..(BlockCount + 1) : Passed(g, b) /\ ZPlace(r, g, b)
  BY LayerIs
<1>3. zPhase = "header" /\ zRemainingLen = 0
  BY DEF ZHeader, ZTurn
<1>4. b \in 1..BlockCount /\ Behind(g, b) /\ ZAtHeader(r, g, b)
  BY <1>1, <1>2, <1>3, WhenZHeader
<1>5. PICK o \in Nat, l \in Nat, d \in Nat, v \in Nat : BlockIs(b, o, l, d, v)
  BY <1>1, <1>4, BlockHere
<1>6. o = BlockAt(b) /\ l = BodyLen(b) /\ v = BlockFrom(b) /\ l \in 1..d
  BY <1>5 DEF BlockIs
<1>7. PICK q : q = zHeader
  OBVIOUS
<1>8. Len(q) < 7 /\ ZHeadIs(q, Len(q), o) /\ r - Len(zChunk) = o + Len(q) /\ ZPartsAre(b, g, v - g)
  BY <1>4, <1>6, <1>7 DEF ZAtHeader
<1>9. q \in Seq(Nat) /\ \A i \in 1..Len(q) : q[i] = wire[o + i]
  BY <1>8 DEF ZHeadIs
<1>10. PICK a \in 0..6 : a = Len(q)
  <2>1. PICK z \in Nat : z = Len(q) /\ z < 7
    BY <1>8, <1>9
  <2>2. ASSUME NEW x \in Nat, x < 7 PROVE x \in 0..6
    BY <2>2
  <2>3. z \in 0..6
    BY <2>1, <2>2
  <2> QED
    BY <2>1, <2>3
<1>11. PICK c \in Nat : c = Len(zChunk)
  BY <1>1 DEF ZGiven
<1>12. PICK n \in Nat : n = (IF c < 7 - a THEN c ELSE 7 - a) /\ n <= c /\ a + n <= 7 /\ (a + n < 7 => n = c)
  OBVIOUS
<1>13. PICK y : y = ZTaken(n)
  OBVIOUS
<1>14. n <= Len(zChunk)
  BY <1>11, <1>12
<1>15. y \in Seq(Nat) /\ Len(y) = n /\ \A j \in 1..n : y[j] = wire[(r - Len(zChunk)) + j]
  BY <1>1, <1>13, <1>14, ZChunkPart
<1>16. PICK h : h = q \o y /\ Joins(h, q, y)
  BY DEF Joins
<1>17. y \in Seq(Nat)
  BY <1>15
<1>18. /\ h \in Seq(Nat) /\ Len(h) = Len(q) + Len(y) /\ \A j \in 1..Len(q) : h[j] = q[j]
       /\ \A j \in 1..Len(y) : h[Len(q) + j] = y[j]
  BY <1>9, <1>16, <1>17, JoinsIs
<1>19. PICK m \in Nat : m = a + n
  OBVIOUS
<1>20. ZHeadIs(h, m, o)
  <2>1. Len(h) = m
    BY <1>10, <1>15, <1>18, <1>19
  <2>2. ASSUME NEW i \in 1..m PROVE h[i] = wire[o + i]
    <3>1. CASE i <= a
      <4>1. i \in 1..Len(q)
        BY <1>10, <3>1
      <4> QED
        BY <1>9, <1>18, <4>1
    <3>2. CASE i > a
      <4>1. PICK j \in 1..n : j = i - a /\ i = a + j
        BY <1>19, <3>2
      <4>2. h[a + j] = y[j] /\ y[j] = wire[(r - Len(zChunk)) + j]
        BY <1>10, <1>15, <1>18
      <4>3. (r - Len(zChunk)) + j = o + i
        BY <1>8, <1>10, <4>1
      <4> QED
        BY <4>1, <4>2, <4>3
    <3> QED
      BY <3>1, <3>2
  <2> QED
    BY <1>18, <2>1, <2>2 DEF ZHeadIs
<1>21. /\ zHeader' = h /\ ZRead(n)
       /\ IF Len(h) = 7 /\ n > 0 THEN compressPacketLen' = LengthIn(h) /\ zLength' = compressPacketLen'
          ELSE zLength' = -1 /\ compressPacketLen' = compressPacketLen
  <2>1. n = IF zLeft < 7 - Len(zHeader) THEN zLeft ELSE 7 - Len(zHeader)
    BY <1>7, <1>10, <1>11, <1>12 DEF zLeft
  <2>2. h = zHeader \o ZTaken(n)
    BY <1>7, <1>13, <1>16
  <2> QED
    BY <2>1, <2>2 DEF ZHeader
<1>22. /\ zPhase' = "payload" /\ server' = server /\ packets' = packets /\ zRemainingLen' = 0
       /\ zParts' = zParts /\ zPartsTotalLen' = zPartsTotalLen
  BY <1>3 DEF ZHeader, readerVars
<1>23. Len(h) = m
  BY <1>20 DEF ZHeadIs
<1>24. wire' = wire
  BY <1>22 DEF server
<1>25. ZGiven(r)' /\ Len(zChunk') = Len(zChunk) - n
  BY <1>1, <1>14, <1>21, <1>24, ZChunkRest
<1>26. r - Len(zChunk') = o + m
  <2>1. r \in Nat
    BY <1>1 DEF ZGiven
  <2> QED
    BY <1>8, <1>10, <1>11, <1>19, <1>25, <2>1
<1>27. PICK k : k = BlockFrom(b) - g /\ ZPartsAre(b, g, k)
  BY <1>6, <1>8
<1>28. ZPartsAre(b, g, k)'
  BY <1>22, <1>27, ZPartsSame
<1>29. CASE m < 7
  <2>1. m \in 0..6 /\ zLength' = -1
    BY <1>21, <1>23, <1>29
  <2>2. ZPlace(r, g, b)'
    BY <1>1, <1>4, <1>6, <1>20, <1>21, <1>22, <1>26, <1>27, <1>28, <2>1, ToZHeader
  <2>3. ZType'
    BY <1>22, <2>1 DEF ZType
  <2> QED
    BY <1>1, <1>2, <1>22, <1>25, <2>2, <2>3, LayerAgain
<1>30. CASE m = 7
  <2>1. n > 0
    <3>1. a + n = 7 /\ a <= 6 /\ a \in Nat
      BY <1>19, <1>30
    <3> QED
      BY <3>1
  <2>2. ZHeadIs(h, 7, o)
    BY <1>20, <1>30
  <2>3. LengthIn(h) = l
    BY <1>1, <1>4, <1>5, <2>2, ZHeaderTells
  <2>4. compressPacketLen' = l /\ zLength' = l
    BY <1>21, <1>23, <1>30, <2>1, <2>3
  <2>5. PICK left \in 1..l : left = l
    BY <1>6
  <2>6. PICK z : z = (v - g) + l - left /\ z = k
    <3>1. (v - g) + l - l = v - g
      BY <1>1, <1>6
    <3> QED
      BY <1>6, <1>27, <2>5, <3>1
  <2>7. ZPartsAre(b, g, z)'
    BY <1>28, <2>6
  <2>8. r - Len(zChunk') = o + 7 + l - left
    BY <1>26, <1>30, <2>5
  <2>9. zPhase' = "payload" /\ zLength' = left /\ zHeader' = h
    BY <1>21, <1>22, <2>4, <2>5
  <2>10. ZPlace(r, g, b)'
    BY <1>1, <1>4, <1>6, <1>22, <2>2, <2>4, <2>6, <2>7, <2>8, <2>9, ToZBlock
  <2>11. ZType'
    BY <1>22, <2>4 DEF ZType
  <2> QED
    BY <1>1, <1>2, <1>22, <1>25, <2>10, <2>11, LayerAgain
<1> QED
  BY <1>12, <1>19, <1>29, <1>30

\* There is nothing to read.
LEMMA ZNothingYetKept ==
  ASSUME NEW r, NEW g, LayerAt(r, g), ZNothingYet
  PROVE  LayerAt(r, g)'
<1>1. ServerIs /\ ZGiven(r) /\ ZType /\ g \in Nat
  BY LayerIs
<1>2. PICK b \in 1..(BlockCount + 1) : Passed(g, b) /\ ZPlace(r, g, b)
  BY LayerIs
<1>3. /\ zPhase = "payload" /\ zLength <= 0 /\ zLength' = -1 /\ zChunk' = zChunk /\ ZNextTurn(0)
      /\ server' = server /\ packets' = packets /\ zHeader' = zHeader /\ compressPacketLen' = compressPacketLen
      /\ zRemainingLen' = zRemainingLen /\ zParts' = zParts /\ zPartsTotalLen' = zPartsTotalLen
  BY DEF ZNothingYet, ZTurn, readerVars, zFrame
<1>4. b \in 1..BlockCount /\ Behind(g, b) /\ ZAtHeader(r, g, b)
  BY <1>1, <1>2, <1>3, WhenZHeader
<1>5. PICK o \in Nat, l \in Nat, d \in Nat, v \in Nat : BlockIs(b, o, l, d, v)
  BY <1>1, <1>4, BlockHere
<1>6. o = BlockAt(b) /\ v = BlockFrom(b)
  BY <1>5 DEF BlockIs
<1>7. PICK h : h = zHeader
  OBVIOUS
<1>8. zRemainingLen = 0 /\ Len(h) < 7 /\ ZHeadIs(h, Len(h), o) /\ r - Len(zChunk) = o + Len(h) /\ ZPartsAre(b, g, v - g)
  BY <1>4, <1>6, <1>7 DEF ZAtHeader
<1>9. PICK m \in 0..6 : m = Len(h)
  <2>1. h \in Seq(Nat)
    BY <1>8 DEF ZHeadIs
  <2>2. PICK z \in Nat : z = Len(h) /\ z < 7
    BY <1>8, <2>1
  <2>3. ASSUME NEW x \in Nat, x < 7 PROVE x \in 0..6
    BY <2>3
  <2>4. z \in 0..6
    BY <2>2, <2>3
  <2> QED
    BY <2>2, <2>4
<1>10. PICK k : k = BlockFrom(b) - g /\ ZPartsAre(b, g, k)
  BY <1>6, <1>8
<1>11. ZPartsAre(b, g, k)'
  BY <1>3, <1>10, ZPartsSame
<1>12. r - Len(zChunk') = o + m
  BY <1>3, <1>8, <1>9
<1>13. ZHeadIs(h, m, o) /\ zHeader' = h /\ zRemainingLen' = 0 /\ zLength' = -1
  BY <1>3, <1>7, <1>8, <1>9
<1>14. ZPlace(r, g, b)'
  BY <1>1, <1>3, <1>4, <1>6, <1>10, <1>11, <1>12, <1>13, ToZHeader
<1>15. ZGiven(r)'
  BY <1>1, <1>3 DEF ZGiven, server
<1>16. ZType'
  <2>1. zPhase' \in {"idle", "header"}
    BY <1>3 DEF ZNextTurn
  <2>2. zPhase' = "idle" => zChunk' = <<>>
    <3> SUFFICES ASSUME zPhase' = "idle" PROVE zChunk' = <<>>
      OBVIOUS
    <3>1. ~(0 < Len(zChunk)) /\ zChunk \in Seq(Nat)
      BY <1>1, <1>3 DEF ZNextTurn, ZGiven
    <3>2. Len(zChunk) = 0
      BY <3>1
    <3> QED
      BY <1>3, <3>1, <3>2
  <2> QED
    BY <1>3, <1>8, <1>13, <2>1, <2>2 DEF ZType
<1> QED
  BY <1>1, <1>2, <1>3, <1>14, <1>15, <1>16, LayerAgain

\* What there is to know behind the header of a block.
LEMMA InZBlock ==
  ASSUME NEW r, NEW g, LayerAt(r, g), zPhase = "payload", zLength > 0
  PROVE  /\ ServerIs /\ ZGiven(r) /\ ZType /\ g \in Nat
         /\ \E b \in 1..BlockCount, o, l, d, v, k \in Nat :
              /\ Passed(g, b) /\ Behind(g, b) /\ BlockIs(b, o, l, d, v) /\ zLength \in 1..l /\ k = (v - g) + l - zLength
              /\ ZHeadIs(zHeader, 7, o) /\ compressPacketLen = l /\ r - Len(zChunk) = o + 7 + l - zLength /\ ZPartsAre(b, g, k)
<1>1. ServerIs /\ ZGiven(r) /\ ZType /\ g \in Nat
  BY LayerIs
<1>2. PICK b \in 1..(BlockCount + 1) : Passed(g, b) /\ ZPlace(r, g, b)
  BY LayerIs
<1>3. b \in 1..BlockCount /\ Behind(g, b) /\ ZInBlock(r, g, b, zLength)
  BY <1>1, <1>2, WhenZPayload
<1>4. PICK o \in Nat, l \in Nat, d \in Nat, v \in Nat : BlockIs(b, o, l, d, v)
  BY <1>1, <1>3, BlockHere
<1>5. o = BlockAt(b) /\ l = BodyLen(b) /\ v = BlockFrom(b)
  BY <1>4 DEF BlockIs
<1>6. PICK left \in 1..l : left = zLength
  BY <1>3, <1>5 DEF ZInBlock
<1>7. PICK k \in Nat : k = (v - g) + l - left
  <2>1. g <= v
    BY <1>3, <1>5 DEF Behind
  <2> QED
    BY <1>1, <2>1
<1>8. ZHeadIs(zHeader, 7, o) /\ compressPacketLen = l /\ r - Len(zChunk) = o + 7 + l - left /\ ZPartsAre(b, g, k)
  BY <1>3, <1>5, <1>6, <1>7 DEF ZInBlock
<1> QED
  BY <1>1, <1>2, <1>3, <1>4, <1>6, <1>7, <1>8

\* The chunk ends before the block does.
LEMMA ZChunkEndsKept ==
  ASSUME NEW r, NEW g, LayerAt(r, g), ZChunkEnds
  PROVE  LayerAt(r, g)'
<1>1. zPhase = "payload" /\ zLength > 0 /\ zLeft < zLength
  BY DEF ZChunkEnds, ZTurn
<1>2. ServerIs /\ ZGiven(r) /\ ZType /\ g \in Nat
  BY <1>1, InZBlock
<1>3. PICK b \in 1..BlockCount, o \in Nat, l \in Nat, d \in Nat, v \in Nat, k \in Nat :
        /\ Passed(g, b) /\ Behind(g, b) /\ BlockIs(b, o, l, d, v) /\ zLength \in 1..l /\ k = (v - g) + l - zLength
        /\ ZHeadIs(zHeader, 7, o) /\ compressPacketLen = l /\ r - Len(zChunk) = o + 7 + l - zLength /\ ZPartsAre(b, g, k)
  BY <1>1, InZBlock
<1>4. PICK left \in 1..l : left = zLength
  BY <1>3
<1>5. PICK q \in Nat : q = Len(zChunk) /\ q < left
  <2>1. zChunk \in Seq(Nat)
    BY <1>2 DEF ZGiven
  <2> QED
    BY <1>1, <1>4, <2>1 DEF zLeft
<1>6. PICK y : y = ZTaken(q)
  OBVIOUS
<1>7. /\ ZKeep(y) /\ zRemainingLen' = left - q /\ zPhase' = "idle" /\ ZRead(q) /\ zLength' = -1
      /\ server' = server /\ packets' = packets /\ zHeader' = zHeader /\ compressPacketLen' = compressPacketLen
  BY <1>4, <1>5, <1>6 DEF ZChunkEnds, zLeft, readerVars
<1>8. BlockIs(b, o, l, d, v) /\ Behind(g, b) /\ k = (v - g) + l - left /\ r - Len(zChunk) = o + 7 + l - left /\ q <= left /\ q <= Len(zChunk)
  BY <1>3, <1>4, <1>5
<1>9. CargoFrom(y, b, g, k, q)
  BY <1>2, <1>6, <1>8, ZBlockPart
<1>10. PICK x \in Nat : x = k + q
  OBVIOUS
<1>11. ZPartsAre(b, g, k)
  BY <1>3
<1>12. ZPartsAre(b, g, x)'
  BY <1>7, <1>9, <1>10, <1>11, ZKeepIs
<1>13. wire' = wire
  BY <1>7 DEF server
<1>14. q <= Len(zChunk)
  BY <1>5
<1>15. ZGiven(r)' /\ Len(zChunk') = Len(zChunk) - q
  BY <1>2, <1>7, <1>13, <1>14, ZChunkRest
<1>16. PICK w \in 1..l : w = left - q
  BY <1>5
<1>17. x = (v - g) + l - w
  BY <1>2, <1>8, <1>10, <1>16
<1>18. r - Len(zChunk') = o + 7 + l - w
  <2>1. r \in Nat
    BY <1>2 DEF ZGiven
  <2>2. PICK a \in Int : a = Len(zChunk') /\ a = 0
    BY <1>5, <1>15
  <2> QED
    BY <1>5, <1>8, <1>16, <2>1, <2>2
<1>19. o = BlockAt(b) /\ l = BodyLen(b) /\ v = BlockFrom(b)
  BY <1>8 DEF BlockIs
<1>20. PICK h : h = zHeader
  OBVIOUS
<1>21. ZHeadIs(h, 7, o) /\ zHeader' = h /\ compressPacketLen' = l
  BY <1>3, <1>7, <1>20
<1>22. zPhase' \in {"idle", "header"} /\ zRemainingLen' = w
  BY <1>7, <1>16
<1>23. ZPlace(r, g, b)'
  BY <1>2, <1>7, <1>8, <1>12, <1>17, <1>18, <1>19, <1>21, <1>22, ToZBlock
<1>24. ZType'
  <2>1. zChunk' = <<>>
    <3>1. zChunk' \in Seq(Nat)
      BY <1>15 DEF ZGiven
    <3>2. Len(zChunk') = 0
      BY <1>5, <1>15
    <3> QED
      BY <3>1, <3>2
  <2> QED
    BY <1>7, <1>16, <1>22, <2>1 DEF ZType
<1>25. b \in 1..(BlockCount + 1) /\ Passed(g, b)
  BY <1>2, <1>3, WireBytes
<1> QED
  BY <1>2, <1>7, <1>15, <1>23, <1>24, <1>25, LayerAgain

\* A full block, that is kept for the next.
LEMMA ZFullBlockKept ==
  ASSUME NEW r, NEW g, LayerAt(r, g), ZFullBlock
  PROVE  LayerAt(r, g)'
<1>1. zPhase = "payload" /\ zLength > 0 /\ zLeft >= zLength /\ compressPacketLen >= MaxLen
  BY DEF ZFullBlock, ZTurn
<1>2. ServerIs /\ ZGiven(r) /\ ZType /\ g \in Nat
  BY <1>1, InZBlock
<1>3. PICK b \in 1..BlockCount, o \in Nat, l \in Nat, d \in Nat, v \in Nat, k \in Nat :
        /\ Passed(g, b) /\ Behind(g, b) /\ BlockIs(b, o, l, d, v) /\ zLength \in 1..l /\ k = (v - g) + l - zLength
        /\ ZHeadIs(zHeader, 7, o) /\ compressPacketLen = l /\ r - Len(zChunk) = o + 7 + l - zLength /\ ZPartsAre(b, g, k)
  BY <1>1, InZBlock
<1>4. PICK left \in 1..l : left = zLength
  BY <1>3
<1>5. PICK c \in Nat : c = Len(zChunk) /\ left <= c
  <2>1. zChunk \in Seq(Nat)
    BY <1>2 DEF ZGiven
  <2> QED
    BY <1>1, <1>4, <2>1 DEF zLeft
<1>6. PICK q \in Nat : q = left
  OBVIOUS
<1>7. PICK y : y = ZTaken(q)
  OBVIOUS
<1>8. /\ ZKeep(y) /\ zRemainingLen' = 0 /\ zHeader' = <<>> /\ ZRead(q) /\ ZNextTurn(q) /\ zLength' = -1
      /\ server' = server /\ packets' = packets
  BY <1>4, <1>6, <1>7 DEF ZFullBlock, ZReset, readerVars
<1>9. BlockIs(b, o, l, d, v) /\ Behind(g, b) /\ k = (v - g) + l - left /\ r - Len(zChunk) = o + 7 + l - left /\ q <= left /\ q <= Len(zChunk)
  BY <1>3, <1>4, <1>5, <1>6
<1>10. CargoFrom(y, b, g, k, q)
  BY <1>2, <1>7, <1>9, ZBlockPart
<1>11. PICK x \in Nat : x = k + q
  OBVIOUS
<1>12. ZPartsAre(b, g, k)
  BY <1>3
<1>13. ZPartsAre(b, g, x)'
  BY <1>8, <1>10, <1>11, <1>12, ZKeepIs
<1>14. wire' = wire
  BY <1>8 DEF server
<1>15. q <= Len(zChunk)
  BY <1>9
<1>16. ZGiven(r)' /\ Len(zChunk') = Len(zChunk) - q
  BY <1>2, <1>8, <1>14, <1>15, ZChunkRest
<1>17. Joined(b) /\ ~Deflated(b) /\ ~Deflated(b + 1) /\ l = d /\ b < BlockCount
  <2>1. PICK w \in Nat : w = MaxLen
    BY ReaderConstants
  <2>2. l = w
    BY <1>1, <1>3, <2>1 DEF BlockIs
  <2> QED
    BY <1>9, <2>1, <2>2 DEF BlockIs
<1>18. b + 1 \in 1..BlockCount /\ BlockAt(b + 1) = o + 7 + l /\ BlockFrom(b + 1) = v + d
  BY <1>9, <1>17 DEF BlockIs
<1>19. PICK e \in 1..BlockCount : e = b + 1
  BY <1>18
<1>20. v = BlockFrom(b) /\ g <= v
  BY <1>9 DEF Behind, BlockIs
<1>21. PICK z : z = BlockFrom(e) - g
  OBVIOUS
<1>22. z = x
  <2>1. BlockFrom(e) = v + d
    BY <1>18, <1>19
  <2>2. z = (v + d) - g
    BY <1>21, <2>1
  <2>3. x = ((v - g) + l - left) + left /\ l = d
    BY <1>6, <1>9, <1>11, <1>17
  <2>4. g \in Nat
    BY <1>2
  <2> QED
    BY <2>2, <2>3, <2>4
<1>23. ZPartsAre(e, g, z)'
  <2>1. \A i : Cargo(b, g, i)' = Cargo(b, g, i) /\ Cargo(e, g, i)' = Cargo(e, g, i)
    BY <1>8, BlocksKept
  <2>2. \A i : Cargo(b, g, i) = Cargo(e, g, i)
    BY <1>17, <1>19 DEF Cargo
  <2> QED
    BY <1>13, <1>22, <2>1, <2>2 DEF ZPartsAre
<1>24. Behind(g, e)
  <2>1. g <= BlockFrom(e)
    BY <1>2, <1>18, <1>19, <1>20
  <2> QED
    BY <1>17, <1>19, <2>1 DEF Behind
<1>25. Passed(g, e)
  <2>1. PICK u \in 0..(b - 1) : PassedFrom(g, b, u)
    BY <1>3 DEF Passed
  <2>2. ASSUME NEW i \in (u + 1)..(e - 1) PROVE Joined(i)
    <3>1. i \in (u + 1)..(b - 1) \/ i = b
      BY <1>19
    <3> QED
      BY <1>17, <2>1, <3>1 DEF PassedFrom
  <2>3. PassedFrom(g, e, u)
    BY <2>1, <2>2 DEF PassedFrom
  <2>4. u \in 0..(e - 1)
    BY <1>19
  <2> QED
    BY <2>3, <2>4 DEF Passed
<1>26. PICK m \in 0..6 : m = 0
  OBVIOUS
<1>27. PICK h : h = <<>> /\ zHeader' = h
  BY <1>8
<1>28. PICK a \in Nat : a = BlockAt(e) /\ a = o + 7 + l
  BY <1>18, <1>19
<1>29. ZHeadIs(h, m, a)
  BY <1>26, <1>27 DEF ZHeadIs
<1>30. r - Len(zChunk') = a + m
  <2>1. r \in Nat
    BY <1>2 DEF ZGiven
  <2>2. PICK u \in Int : u = Len(zChunk') /\ u = c - q
    BY <1>5, <1>16
  <2> QED
    BY <1>5, <1>6, <1>9, <1>26, <1>28, <2>1, <2>2
<1>31. ZPlace(r, g, e)'
  BY <1>2, <1>8, <1>21, <1>23, <1>24, <1>27, <1>28, <1>29, <1>30, ToZHeader
<1>32. ZType'
  BY <1>2, <1>5, <1>6, <1>8, <1>16, ZTurnIs
<1>33. e \in 1..(BlockCount + 1)
  BY <1>2, WireBytes
<1> QED
  BY <1>2, <1>8, <1>16, <1>25, <1>31, <1>32, <1>33, LayerAgain

\* A block that is all there, or its last part: the reader is given what was kept and it.
LEMMA ZBlockKept ==
  ASSUME NEW r, NEW g, ReaderAt(g), LayerAt(r, g), ZBlock
  PROVE  \E e \in Nat : ReaderAt(e)' /\ LayerAt(r, e)'
<1>1. zPhase = "payload" /\ zLength > 0 /\ zLeft >= zLength /\ compressPacketLen < MaxLen
  BY DEF ZBlock, ZTurn
<1>2. ServerIs /\ ZGiven(r) /\ ZType /\ g \in Nat
  BY <1>1, InZBlock
<1>3. PICK b \in 1..BlockCount, o \in Nat, l \in Nat, d \in Nat, v \in Nat, k \in Nat :
        /\ Passed(g, b) /\ Behind(g, b) /\ BlockIs(b, o, l, d, v) /\ zLength \in 1..l /\ k = (v - g) + l - zLength
        /\ ZHeadIs(zHeader, 7, o) /\ compressPacketLen = l /\ r - Len(zChunk) = o + 7 + l - zLength /\ ZPartsAre(b, g, k)
  BY <1>1, InZBlock
<1>4. PICK left \in 1..l : left = zLength
  BY <1>3
<1>5. PICK c \in Nat : c = Len(zChunk) /\ left <= c
  <2>1. zChunk \in Seq(Nat)
    BY <1>2 DEF ZGiven
  <2> QED
    BY <1>1, <1>4, <2>1 DEF zLeft
<1>6. PICK q \in Nat : q = left
  OBVIOUS
<1>7. PICK y : y = ZTaken(q)
  OBVIOUS
<1>8. PICK h : h = zHeader
  OBVIOUS
<1>9. BlockIs(b, o, l, d, v) /\ Behind(g, b) /\ k = (v - g) + l - left /\ r - Len(zChunk) = o + 7 + l - left /\ q <= left /\ q <= Len(zChunk)
  BY <1>3, <1>4, <1>5, <1>6
<1>10. CargoFrom(y, b, g, k, q)
  BY <1>2, <1>7, <1>9, ZBlockPart
<1>11. v = BlockFrom(b) /\ g <= v /\ l \in 1..d /\ v + d <= Len(stream) /\ d = DataLen(b)
  BY <1>9 DEF BlockIs, Behind
<1>12. PICK m \in Nat : m = k + q /\ m = (v - g) + l
  <2>1. k + q = (v - g) + l
    BY <1>2, <1>6, <1>9, <1>11
  <2> QED
    BY <2>1
<1>13. PICK j \in Nat \ {0} : j = (v + d) - g
  BY <1>2, <1>11
<1>14. PICK w : CargoFrom(w, b, g, 0, m) /\ Receive(w)
  <2>1. CASE zParts = None
    <3>1. k = 0
      BY <1>3, <2>1 DEF ZPartsAre
    <3>2. CargoFrom(y, b, g, 0, m)
      BY <1>10, <1>12, <3>1
    <3>3. Receive(y)
      BY <1>4, <1>6, <1>7, <2>1 DEF ZBlock
    <3> QED
      BY <3>2, <3>3
  <2>2. CASE zParts # None
    <3>1. ZPartsAre(b, g, k) /\ zParts # None /\ m = k + q
      BY <1>3, <1>12, <2>2
    <3>2. Concat(zParts \o y, m) = zParts \o y /\ CargoFrom(zParts \o y, b, g, 0, m)
      BY <1>10, <3>1, ZPartsAnd
    <3>3. PICK z : z = zParts \o y /\ Concat(z, m) = z /\ CargoFrom(z, b, g, 0, m)
      BY <3>2
    <3>4. zPartsTotalLen = k
      BY <3>1 DEF ZPartsAre
    <3>5. Receive(Concat(zParts \o ZTaken(zLength), zPartsTotalLen + zLength))
      BY <2>2 DEF ZBlock
    <3>6. Receive(z)
      <4>1. zParts \o ZTaken(zLength) = z /\ zPartsTotalLen + zLength = m
        BY <1>4, <1>6, <1>7, <3>1, <3>3, <3>4
      <4>2. Concat(zParts \o ZTaken(zLength), zPartsTotalLen + zLength) = z
        BY <3>3, <4>1
      <4> QED
        BY <3>5, <4>2
    <3> QED
      BY <3>3, <3>6
  <2> QED
    BY <2>1, <2>2
<1>15. PICK x : x = (IF Uninflated(h) THEN w ELSE Inflate(w)) /\ OnData(x)
  BY <1>8, <1>14 DEF Receive
<1>16. ZHeadIs(h, 7, o) /\ CargoFrom(w, b, g, 0, m) /\ m = (v - g) + l /\ x = (IF Uninflated(h) THEN w ELSE Inflate(w)) /\ j = (v + d) - g
  BY <1>3, <1>8, <1>12, <1>13, <1>14, <1>15
<1>17. HeadIs(x, j, g)
  <2>1. PICK i \in Nat : i = j
    OBVIOUS
  <2>2. i = (v + d) - g /\ ZHeadIs(h, 7, o) /\ CargoFrom(w, b, g, 0, m) /\ m = (v - g) + l
        /\ x = (IF Uninflated(h) THEN w ELSE Inflate(w))
    BY <1>16, <2>1
  <2>3. HeadIs(x, i, g)
    BY <1>2, <1>9, <2>2, CargoGiven
  <2> QED
    BY <2>1, <2>3
<1>18. /\ zRemainingLen' = 0 /\ zHeader' = <<>> /\ ZRead(q) /\ ZNextTurn(q) /\ zLength' = -1 /\ zParts' = None
       /\ server' = server
  BY <1>4, <1>6 DEF ZBlock, ZReset
<1>19. packets' = packets
  BY <1>15 DEF OnData
<1>20. wire' = wire /\ stream' = stream
  BY <1>18 DEF server
<1>21. PICK e \in Nat : e = v + d
  OBVIOUS
<1>22. PICK a : a = g
  OBVIOUS
<1>23. HeadIs(x, j, a) /\ a = g /\ e = g + j /\ g + j <= Len(stream)
  BY <1>2, <1>11, <1>13, <1>17, <1>21, <1>22
<1>24. ReaderAt(e)'
  BY <1>15, <1>20, <1>23, OnDataKept
<1>25. q <= Len(zChunk)
  BY <1>9
<1>26. ZGiven(r)' /\ Len(zChunk') = Len(zChunk) - q
  BY <1>2, <1>18, <1>20, <1>25, ZChunkRest
<1>27. ZType' /\ zPhase' \in {"idle", "header"} /\ (Len(zChunk') = 0 => zPhase' = "idle")
  BY <1>5, <1>18, <1>26, ZTurnIs
<1>28. r - Len(zChunk') = o + 7 + l
  <2>1. r \in Nat
    BY <1>2 DEF ZGiven
  <2>2. PICK u \in Int : u = Len(zChunk') /\ u = c - q
    BY <1>5, <1>26
  <2> QED
    BY <1>5, <1>6, <1>9, <2>1, <2>2
<1>29. ZPlace(r, e, b + 1)'
  BY <1>2, <1>9, <1>18, <1>19, <1>21, <1>26, <1>27, <1>28, ToZNext
<1>30. PICK f \in 1..(BlockCount + 1) : f = b + 1
  BY <1>2, WireBytes
<1>31. Passed(e, f)
  <2>1. ~Joined(b)
    <3>1. PICK i \in Nat : i = MaxLen
      BY ReaderConstants
    <3>2. l < i
      BY <1>1, <1>3, <3>1
    <3> QED
      BY <1>9, <3>1, <3>2 DEF BlockIs
  <2>2. PassedFrom(e, f, b)
    <3>1. (b + 1)..(f - 1) = {}
      BY <1>30
    <3> QED
      BY <1>11, <1>21, <2>1, <3>1 DEF PassedFrom
  <2>3. b \in 0..(f - 1)
    BY <1>30
  <2> QED
    BY <2>2, <2>3 DEF Passed
<1>32. ZPlace(r, e, f)'
  BY <1>29, <1>30
<1>33. LayerAt(r, e)'
  BY <1>2, <1>18, <1>19, <1>26, <1>27, <1>30, <1>31, <1>32, LayerAgain
<1> QED
  BY <1>24, <1>33

\* Nothing of the layer changes.
LEMMA LayerStays ==
  ASSUME NEW r, NEW g, LayerAt(r, g), server' = server, packets' = packets, UNCHANGED <<zReading, zFrame>>
  PROVE  LayerAt(r, g)'
<1>1. ServerIs /\ ZGiven(r) /\ ZType /\ g \in Nat
  BY LayerIs
<1>2. PICK b \in 1..(BlockCount + 1) : Passed(g, b) /\ ZPlace(r, g, b)
  BY LayerIs
<1>3. /\ zPhase' = zPhase /\ zChunk' = zChunk /\ zLength' = zLength /\ zHeader' = zHeader /\ compressPacketLen' = compressPacketLen
      /\ zRemainingLen' = zRemainingLen /\ zParts' = zParts /\ zPartsTotalLen' = zPartsTotalLen
  BY DEF zReading, zFrame
<1>4. /\ wire' = wire /\ stream' = stream /\ BlockCount' = BlockCount
      /\ \A c : /\ BlockFrom(c)' = BlockFrom(c) /\ BodyLen(c)' = BodyLen(c)
                /\ BlockAt(c)' = BlockAt(c) /\ Deflated(c)' = Deflated(c)
      /\ \A c, e, i : Cargo(c, e, i)' = Cargo(c, e, i)
  BY BlocksKept
<1>5. ZGiven(r)'
  BY <1>1, <1>3, <1>4 DEF ZGiven
<1>6. ZType'
  BY <1>1, <1>3 DEF ZType
<1>7. ZAtEnd(r, g, b) => ZAtEnd(r, g, b)'
  BY <1>3, <1>4 DEF ZAtEnd
<1>8. Behind(g, b) => Behind(g, b)'
  BY <1>4 DEF Behind
<1>10. ZAtHeader(r, g, b) => ZAtHeader(r, g, b)'
  <2>1. ZPartsAre(b, g, BlockFrom(b) - g) => ZPartsAre(b, g, BlockFrom(b) - g)'
    BY <1>3, <1>4 DEF ZPartsAre
  <2> QED
    BY <1>3, <1>4, <2>1 DEF ZAtHeader, ZHeadIs
<1>11. ZInBlock(r, g, b, zRemainingLen) => ZInBlock(r, g, b, zRemainingLen)'
  <2>1. ZPartsAre(b, g, (BlockFrom(b) - g) + BodyLen(b) - zRemainingLen) => ZPartsAre(b, g, (BlockFrom(b) - g) + BodyLen(b) - zRemainingLen)'
    BY <1>3, <1>4 DEF ZPartsAre
  <2> QED
    BY <1>3, <1>4, <2>1 DEF ZInBlock, ZHeadIs
<1>12. ZInBlock(r, g, b, zLength) => ZInBlock(r, g, b, zLength)'
  <2>1. ZPartsAre(b, g, (BlockFrom(b) - g) + BodyLen(b) - zLength) => ZPartsAre(b, g, (BlockFrom(b) - g) + BodyLen(b) - zLength)'
    BY <1>3, <1>4 DEF ZPartsAre
  <2> QED
    BY <1>3, <1>4, <2>1 DEF ZInBlock, ZHeadIs
<1>13. ZWithin(r, g, b) => ZWithin(r, g, b)'
  BY <1>3, <1>10, <1>11, <1>12 DEF ZWithin
<1>14. ZPlace(r, g, b)'
  BY <1>2, <1>4, <1>7, <1>8, <1>13 DEF ZPlace
<1> QED
  BY <1>1, <1>2, <1>5, <1>6, <1>14, LayerAgain

-----------------------------------------------------------------------------
(***************************************************************************)
(* Reader and layer together.                                              *)
(***************************************************************************)
\* What the socket brought in whole blocks is what the reader was given.
LEMMA ArrivedGiven ==
  ASSUME NEW r, NEW g, LayerAt(r, g), r = received, zPhase = "idle"
  PROVE  Arrived \in Nat /\ Arrived <= g
<1>1. ServerIs /\ ZGiven(r) /\ ZType /\ g \in Nat
  BY LayerIs
<1>2. PICK b \in 1..(BlockCount + 1) : Passed(g, b) /\ ZPlace(r, g, b)
  BY LayerIs
<1>3. PICK N \in Nat : N = BlockCount
  BY <1>1, WireBytes
<1>4. PICK a \in 0..(b - 1) : PassedFrom(g, b, a)
  BY <1>2 DEF Passed
<1>5. a \in 0..N /\ b \in 1..(N + 1)
  BY <1>2, <1>3
<1>6. r \in Nat /\ zChunk = <<>> /\ Len(zChunk) = 0
  BY <1>1 DEF ZGiven, ZType
<1>7. \A i, j \in 0..N : i <= j => BlockEnd(i) <= BlockEnd(j)
  BY <1>1, <1>3, WireBytes
<1>8. \A i \in 0..N : BlockEnd(i) \in Nat
  BY <1>1, <1>3, WireBytes
<1>9. BlockEnd(b - 1) <= r /\ (b \in 1..N => r < BlockEnd(b)) /\ (b = N + 1 => g = Len(stream))
  <2>1. CASE ZAtEnd(r, g, b)
    <3>1. b = N + 1 /\ r = Len(wire) /\ g = Len(stream)
      BY <1>3, <2>1 DEF ZAtEnd
    <3>2. b - 1 = N /\ BlockEnd(N) = Len(wire)
      BY <1>1, <1>3, <3>1, WireBytes
    <3>3. BlockEnd(N) <= r
      BY <1>6, <3>1, <3>2
    <3> QED
      BY <1>5, <3>1, <3>2, <3>3
  <2>2. CASE b \in 1..BlockCount /\ Behind(g, b) /\ ZWithin(r, g, b)
    <3>1. PICK o \in Nat, l \in Nat, d \in Nat, v \in Nat : BlockIs(b, o, l, d, v)
      BY <1>1, <2>2, BlockHere
    <3>2. o = BlockAt(b) /\ l = BodyLen(b) /\ o = BlockEnd(b - 1) /\ l \in 1..d
      BY <3>1 DEF BlockIs, BlockAt
    <3>3. BlockEnd(b) = BlockEnd(b - 1) + 7 + BodyLen(b)
      BY <1>1, <2>2, WireBytes
    <3>4. BlockEnd(b) = o + 7 + l
      BY <3>2, <3>3
    <3>5. o <= r /\ r < o + 7 + l
      <4>1. CASE ZAtHeader(r, g, b)
        <5>1. PICK z \in Nat : z = Len(zHeader) /\ z < 7
          BY <4>1 DEF ZAtHeader, ZHeadIs
        <5>2. r - Len(zChunk) = o + z
          BY <3>2, <4>1, <5>1 DEF ZAtHeader
        <5> QED
          BY <1>6, <5>1, <5>2
      <4>2. CASE zRemainingLen > 0 /\ ZInBlock(r, g, b, zRemainingLen)
        <5>1. PICK z \in 1..l : z = zRemainingLen
          BY <3>2, <4>2 DEF ZInBlock
        <5>2. r - Len(zChunk) = o + 7 + l - z
          BY <3>2, <4>2, <5>1 DEF ZInBlock
        <5> QED
          BY <1>6, <5>1, <5>2
      <4> QED
        BY <2>2, <4>1, <4>2 DEF ZWithin
    <3> QED
      BY <1>3, <2>2, <3>2, <3>4, <3>5
  <2> QED
    BY <1>2, <2>1, <2>2 DEF ZPlace
<1>10. PICK there : there = {i \in 1..BlockCount : BlockEnd(i) <= received /\ ~Joined(i)}
  OBVIOUS
<1>11. ASSUME NEW i \in there PROVE i \in 1..N /\ i <= a
  <2>1. i \in 1..N /\ BlockEnd(i) <= r /\ ~Joined(i)
    BY <1>3, <1>10
  <2>2. i <= b - 1
    <3> SUFFICES ASSUME i > b - 1 PROVE FALSE
      BY <1>5, <2>1
    <3>1. i >= b /\ b \in 1..N
      BY <1>5, <2>1
    <3>2. i \in 0..N /\ b \in 0..N
      BY <2>1, <3>1
    <3>3. BlockEnd(b) <= BlockEnd(i)
      BY <1>7, <3>1, <3>2
    <3>4. BlockEnd(b) \in Nat /\ BlockEnd(i) \in Nat
      BY <1>8, <3>2
    <3> QED
      BY <1>6, <1>9, <2>1, <3>1, <3>3, <3>4
  <2>3. ~(i \in (a + 1)..(b - 1))
    BY <1>4, <2>1 DEF PassedFrom
  <2> QED
    BY <1>5, <2>1, <2>2, <2>3
<1>12. a > 0 => a \in there
  <2> SUFFICES ASSUME a > 0 PROVE a \in there
    OBVIOUS
  <2>1. a \in 1..N /\ ~Joined(a)
    BY <1>4, <1>5 DEF PassedFrom
  <2>2. a \in 0..N /\ b - 1 \in 0..N /\ a <= b - 1
    BY <1>5
  <2>3. BlockEnd(a) <= BlockEnd(b - 1) /\ BlockEnd(a) \in Nat /\ BlockEnd(b - 1) \in Nat
    BY <1>7, <1>8, <2>2
  <2>4. BlockEnd(a) <= r
    BY <1>6, <1>9, <2>3
  <2> QED
    BY <1>3, <1>10, <2>1, <2>4
<1>13. PICK last : last = IF there = {} THEN 0 ELSE CHOOSE i \in there : \A c \in there : c <= i
  OBVIOUS
<1>14. last = a
  <2>1. CASE a = 0
    <3>1. there = {}
      BY <1>11, <2>1
    <3> QED
      BY <1>13, <2>1, <3>1
  <2>2. CASE a > 0
    <3>1. a \in there /\ \A c \in there : c <= a
      BY <1>11, <1>12, <2>2
    <3>2. \A i \in there : (\A c \in there : c <= i) => i = a
      BY <1>5, <1>11, <3>1
    <3>3. last = CHOOSE i \in there : \A c \in there : c <= i
      BY <1>13, <3>1
    <3> QED
      BY <3>1, <3>2, <3>3
  <2> QED
    BY <1>5, <2>1, <2>2
<1>15. Arrived = IF a = N THEN Len(stream) ELSE a * block
  <2>1. compress
    BY <1>1 DEF ServerIs
  <2>2. last = IF {i \in 1..BlockCount : BlockEnd(i) <= received /\ ~Joined(i)} = {} THEN 0
               ELSE CHOOSE j \in {i \in 1..BlockCount : BlockEnd(i) <= received /\ ~Joined(i)} :
                      \A c \in {i \in 1..BlockCount : BlockEnd(i) <= received /\ ~Joined(i)} : c <= j
    BY <1>10, <1>13
  <2>3. Arrived = IF last = BlockCount THEN Len(stream) ELSE last * block
    BY <2>1, <2>2 DEF Arrived
  <2> QED
    BY <1>3, <1>14, <2>3
<1>16. PICK L \in Nat : L = Len(stream)
  <2>1. stream \in Seq(Nat)
    BY <1>1, StreamBytes DEF ServerIs, Sent
  <2> QED
    BY <2>1
<1>17. PICK k \in Nat : k = block
  <2>1. PICK w \in Nat : w = MaxLen
    BY ReaderConstants
  <2>2. block \in 1..w
    BY <1>1, <2>1, BlockConstants DEF ServerIs
  <2> QED
    BY <2>2
<1>18. CASE a = 0
  <2>1. CASE N = 0
    <3>1. b = N + 1 /\ g = L
      BY <1>5, <1>9, <1>16, <2>1
    <3> QED
      BY <1>15, <1>16, <1>18, <2>1, <3>1
  <2>2. CASE N # 0
    <3>1. Arrived = 0
      BY <1>15, <1>17, <1>18, <2>2
    <3> QED
      BY <1>1, <3>1
  <2> QED
    BY <2>1, <2>2
<1>19. CASE a > 0
  <2>1. a \in 1..N
    BY <1>5, <1>19
  <2>2. PICK o \in Nat, l \in Nat, d \in Nat, v \in Nat : BlockIs(a, o, l, d, v)
    BY <1>1, <1>3, <2>1, BlockHere
  <2>3. v = BlockFrom(a) /\ d = DataLen(a) /\ (a = N => v + d = L) /\ (a < N => BlockFrom(a + 1) = v + d)
    BY <1>3, <1>16, <2>2 DEF BlockIs
  <2>4. v + d <= g
    BY <1>4, <1>19, <2>3 DEF PassedFrom
  <2>5. CASE a = N
    BY <1>15, <1>16, <2>3, <2>4, <2>5
  <2>6. CASE a < N
    <3>1. BlockFrom(a + 1) = a * block
      <4>1. (a + 1) - 1 = a
        BY <2>1
      <4> QED
        BY <4>1 DEF BlockFrom
    <3>2. Arrived = v + d
      BY <1>15, <2>3, <2>6, <3>1
    <3> QED
      BY <2>4, <3>2
  <2> QED
    BY <1>5, <2>5, <2>6
<1> QED
  BY <1>5, <1>18, <1>19

\* With compression.
PackedReader == compress => \E g \in Nat : ReaderAt(g) /\ LayerAt(received, g)

\* How many bytes were read, by a name.
LEMMA ReceivedIs ==
  ASSUME NEW e \in Nat, NEW q, q = received', ReaderAt(e)', LayerAt(q, e)'
  PROVE  \E i \in Nat : ReaderAt(i)' /\ LayerAt(received, i)'
<1>1. LayerAt(received, e)'
  BY DEF LayerAt, ZGiven, ZPlace, ZAtEnd, ZWithin, ZAtHeader, ZInBlock
<1> QED
  BY <1>1

\* In the beginning.
LEMMA PackedReaderInit ==
  Init => PackedReader
<1> SUFFICES ASSUME Init, compress PROVE \E g \in Nat : ReaderAt(g) /\ LayerAt(received, g)
  BY DEF PackedReader
<1>1. /\ ReaderInit /\ stream = Stream /\ block \in Blocks /\ deflate \in Deflates /\ ServerCuts /\ wire = Written /\ received = 0
      /\ zPhase = "idle" /\ zChunk = <<>> /\ zLength = -1 /\ zHeader = <<>> /\ zRemainingLen = 0 /\ zParts = None
  BY DEF Init
<1>2. PICK g \in Nat : g = 0
  OBVIOUS
<1>3. ReaderAt(g)
  BY <1>1, <1>2, ReaderBegins
<1>4. Sent
  <2>1. PICK n \in 1..MaxPackets : packets \in [1..n -> PacketLens]
    BY <1>1 DEF ReaderInit
  <2>2. MaxPackets \in Nat /\ PacketLens \subseteq Nat \ {0}
    BY ReaderConstants
  <2>3. packets \in [1..n -> Nat \ {0}]
    BY <2>1, <2>2
  <2>4. packets \in Seq(Nat \ {0}) /\ Len(packets) = n
    BY <2>2, <2>3
  <2> QED
    BY <2>1, <2>2, <2>4 DEF Sent
<1>5. ServerIs
  BY <1>1, <1>4 DEF ServerIs
<1>6. PICK N \in Nat : N = BlockCount
  BY <1>5, WireBytes
<1>7. wire \in Seq(Nat) /\ BlockEnd(0) = 0 /\ BlockEnd(N) = Len(wire)
  BY <1>5, <1>6, WireBytes
<1>8. ZGiven(g)
  <2>1. Len(wire) \in Nat
    BY <1>7
  <2> QED
    BY <1>1, <1>2, <2>1 DEF ZGiven
<1>9. ZType
  BY <1>1 DEF ZType
<1>10. PICK b \in 1..(BlockCount + 1) : b = 1
  BY <1>6
<1>11. Passed(g, b)
  <2>1. PICK a \in 0..(b - 1) : a = 0
    BY <1>10
  <2>2. (a + 1)..(b - 1) = {}
    BY <1>10, <2>1
  <2>3. PassedFrom(g, b, a)
    BY <2>1, <2>2 DEF PassedFrom
  <2> QED
    BY <2>1, <2>3 DEF Passed
<1>12. PICK k \in Nat \ {0} : k = block
  <2>1. PICK w \in Nat : w = MaxLen
    BY ReaderConstants
  <2>2. block \in 1..w
    BY <1>5, <2>1, BlockConstants DEF ServerIs
  <2> QED
    BY <2>2
<1>13. BlockFrom(b) = g
  BY <1>2, <1>10, <1>12 DEF BlockFrom
<1>14. BlockAt(b) = 0
  <2>1. b - 1 = 0
    BY <1>10
  <2> QED
    BY <1>7, <2>1 DEF BlockAt
<1>15. CASE N = 0
  <2>1. PICK L \in Nat : L = Len(stream)
    <3>1. stream \in Seq(Nat)
      BY <1>5, StreamBytes DEF ServerIs, Sent
    <3> QED
      BY <3>1
  <2>2. PICK t \in Nat : t = L + k - 1
    BY <1>12
  <2>3. PICK u \in Nat, v \in Nat : u = t \div k /\ t = k * u + v /\ v < k
    OBVIOUS
  <2>4. u = 0
    BY <1>6, <1>12, <1>15, <2>1, <2>2, <2>3 DEF BlockCount
  <2>5. L = 0
    BY <2>2, <2>3, <2>4
  <2>6. ZAtEnd(g, g, b)
    BY <1>1, <1>2, <1>6, <1>7, <1>10, <1>15, <2>1, <2>5 DEF ZAtEnd
  <2>7. LayerAt(g, g)
    BY <1>5, <1>8, <1>9, <1>11, <2>6 DEF LayerAt, ZPlace
  <2> QED
    BY <1>1, <1>2, <1>3, <2>7
<1>16. CASE N # 0
  <2>1. b \in 1..BlockCount
    BY <1>6, <1>10, <1>16
  <2>2. Behind(g, b)
    BY <1>2, <1>13 DEF Behind
  <2>3. ZPartsAre(b, g, BlockFrom(b) - g)
    BY <1>1, <1>2, <1>13 DEF ZPartsAre
  <2>4. ZAtHeader(g, g, b)
    <3>1. Len(zHeader) = 0 /\ Len(zChunk) = 0 /\ zHeader \in Seq(Nat)
      BY <1>1
    <3>2. ZHeadIs(zHeader, Len(zHeader), BlockAt(b))
      BY <3>1 DEF ZHeadIs
    <3>3. g - Len(zChunk) = BlockAt(b) + Len(zHeader)
      BY <1>2, <1>14, <3>1
    <3> QED
      BY <1>1, <2>3, <3>1, <3>2, <3>3 DEF ZAtHeader
  <2>5. ZPlace(g, g, b)
    BY <1>1, <2>1, <2>2, <2>4 DEF ZPlace, ZWithin
  <2>6. LayerAt(g, g)
    BY <1>5, <1>8, <1>9, <1>11, <2>5 DEF LayerAt
  <2> QED
    BY <1>1, <1>2, <1>3, <2>6
<1> QED
  BY <1>15, <1>16

\* Each step keeps it.
LEMMA PackedReaderNext ==
  PackedReader /\ [Next]_vars => PackedReader'
<1> SUFFICES ASSUME PackedReader, [Next]_vars, compress' PROVE \E e \in Nat : ReaderAt(e)' /\ LayerAt(received, e)'
  BY DEF PackedReader
<1>1. compress
  BY DEF Next, vars, server, SocketData, ZGoOn, ZHeader, ZBlock, ZFullBlock, ZChunkEnds, ZNothingYet, ReaderReads
<1>2. PICK g \in Nat : ReaderAt(g) /\ LayerAt(received, g)
  BY <1>1 DEF PackedReader
<1>3. PICK r : r = received /\ LayerAt(r, g)
  BY <1>2
<1>4. ReaderAt(g) /\ ServerIs /\ ZGiven(r)
  BY <1>2, <1>3, LayerIs
<1>5. ASSUME NEW e \in Nat, NEW q, q = received', ReaderAt(e)', LayerAt(q, e)' PROVE \E i \in Nat : ReaderAt(i)' /\ LayerAt(received, i)'
  BY <1>5, ReceivedIs
<1>6. ASSUME NEW n \in Cuts \cup {Len(wire) - received}, n > 0, SocketData(n) PROVE \E e \in Nat : ReaderAt(e)' /\ LayerAt(received, e)'
  <2>1. n \in Nat \ {0}
    <3>1. Cuts \subseteq Nat
      BY BlockConstants
    <3>2. r \in Nat /\ Len(wire) \in Nat
      <4>1. wire \in Seq(Nat)
        BY <1>4, WireBytes
      <4> QED
        BY <1>4, <4>1 DEF ZGiven
    <3>3. n \in Int
      BY <1>3, <3>1, <3>2
    <3> QED
      BY <1>6, <3>3
  <2>2. PICK q : q = r + n
    OBVIOUS
  <2>3. LayerAt(q, g)'
    BY <1>3, <1>6, <2>1, <2>2, SocketDataKept
  <2>4. UNCHANGED readerVars /\ stream' = stream /\ received' = q
    BY <1>1, <1>3, <1>6, <2>2 DEF SocketData, server
  <2>5. ReaderAt(g)'
    BY <1>4, <2>4, ReaderStays
  <2> QED
    BY <1>5, <2>3, <2>4, <2>5
<1>7. ASSUME UNCHANGED readerVars, stream' = stream, received' = received, LayerAt(r, g)'
      PROVE  \E e \in Nat : ReaderAt(e)' /\ LayerAt(received, e)'
  <2>1. ReaderAt(g)'
    BY <1>4, <1>7, ReaderStays
  <2> QED
    BY <1>3, <1>5, <1>7, <2>1
<1>8. CASE ZGoOn
  <2>1. LayerAt(r, g)'
    BY <1>3, <1>8, ZGoOnKept
  <2>2. UNCHANGED readerVars /\ stream' = stream /\ received' = received
    BY <1>8 DEF ZGoOn, server
  <2> QED
    BY <1>7, <2>1, <2>2
<1>9. CASE ZHeader
  <2>1. LayerAt(r, g)'
    BY <1>3, <1>9, ZHeaderKept
  <2>2. UNCHANGED readerVars /\ stream' = stream /\ received' = received
    BY <1>9 DEF ZHeader, server
  <2> QED
    BY <1>7, <2>1, <2>2
<1>10. CASE ZFullBlock
  <2>1. LayerAt(r, g)'
    BY <1>3, <1>10, ZFullBlockKept
  <2>2. UNCHANGED readerVars /\ stream' = stream /\ received' = received
    BY <1>10 DEF ZFullBlock, server
  <2> QED
    BY <1>7, <2>1, <2>2
<1>11. CASE ZChunkEnds
  <2>1. LayerAt(r, g)'
    BY <1>3, <1>11, ZChunkEndsKept
  <2>2. UNCHANGED readerVars /\ stream' = stream /\ received' = received
    BY <1>11 DEF ZChunkEnds, server
  <2> QED
    BY <1>7, <2>1, <2>2
<1>12. CASE ZNothingYet
  <2>1. LayerAt(r, g)'
    BY <1>3, <1>12, ZNothingYetKept
  <2>2. UNCHANGED readerVars /\ stream' = stream /\ received' = received
    BY <1>12 DEF ZNothingYet, server
  <2> QED
    BY <1>7, <2>1, <2>2
<1>13. CASE ZBlock
  <2>1. PICK e \in Nat : ReaderAt(e)' /\ LayerAt(r, e)'
    BY <1>3, <1>4, <1>13, ZBlockKept
  <2>2. received' = r
    BY <1>3, <1>13 DEF ZBlock
  <2> QED
    BY <1>5, <2>1, <2>2
<1>14. CASE ReaderReads
  <2>1. Reading /\ server' = server /\ received' = r /\ UNCHANGED <<zReading, zFrame>>
    BY <1>3, <1>14 DEF ReaderReads
  <2>2. stream' = stream
    BY <2>1 DEF server
  <2>3. packets' = packets
    BY <2>1 DEF Reading, GoOn, HeaderAtHand, CutHeader, WholePacket, FullFrame, LastPart, ChunkEnds, EmptyFrame, NothingYet,
                FastPacket, FastFullFrame, FastChunkEnds, FastEnds
  <2>4. ReaderAt(g)'
    BY <1>4, <2>1, <2>2, ReadingKept
  <2>5. LayerAt(r, g)'
    BY <1>3, <2>1, <2>3, LayerStays
  <2> QED
    BY <1>5, <2>1, <2>4, <2>5
<1>15. CASE UNCHANGED vars
  <2>1. UNCHANGED readerVars /\ packets' = packets /\ server' = server /\ received' = received /\ UNCHANGED <<zReading, zFrame>>
    BY <1>15 DEF vars, readerVars
  <2>2. stream' = stream
    BY <2>1 DEF server
  <2>3. LayerAt(r, g)'
    BY <1>3, <2>1, LayerStays
  <2> QED
    BY <1>7, <2>1, <2>2, <2>3
<1> QED
  BY <1>6, <1>8, <1>9, <1>10, <1>11, <1>12, <1>13, <1>14, <1>15 DEF Next

\* It gives the property.
LEMMA PackedReaderDelivers ==
  PackedReader => (compress => PacketsDelivered)
<1> SUFFICES ASSUME PackedReader, compress PROVE PacketsDelivered
  OBVIOUS
<1>1. PICK g \in Nat : ReaderAt(g) /\ LayerAt(received, g)
  BY DEF PackedReader
<1>2. DeliveredSoFar /\ Given(g)
  BY <1>1, NextIs
<1>3. DeliveredExact
  BY <1>2 DEF DeliveredSoFar, DeliveredExact
<1>4. NothingWithheld
  <2> SUFFICES ASSUME phase = "idle", zPhase = "idle", NEW p \in DOMAIN packets, UpTo(p) <= Arrived PROVE Len(delivered) >= p
    BY DEF NothingWithheld, Idle
  <2>1. PICK r : r = received /\ LayerAt(r, g)
    BY <1>1
  <2>2. Arrived \in Nat /\ Arrived <= g
    BY <2>1, ArrivedGiven
  <2>3. packets \in Seq(Nat \ {0}) /\ p \in 0..Len(packets)
    BY <1>2 DEF Given
  <2>4. UpTo(p) \in Nat
    BY <2>3, StreamBytes
  <2>5. UpTo(p) <= g
    BY <2>2, <2>4
  <2> QED
    BY <1>1, <2>5, ReaderPrompt
<1> QED
  BY <1>3, <1>4 DEF PacketsDelivered

(* Whatever the packets, the blocks the server packs their bytes into, the *)
(* ones it deflates and the chunks the socket cuts, the commands are given *)
(* the packets that were sent, in order, each once its last byte is there: *)
(* onData of compression-input-stream.js and of packet-input-stream.js.    *)
THEOREM AlwaysPacketsDelivered ==
  Spec => []PacketsDelivered
<1>1. Init => PlainReader /\ PackedReader
  BY PlainReaderInit, PackedReaderInit
<1>2. (PlainReader /\ PackedReader) /\ [Next]_vars => (PlainReader /\ PackedReader)'
  BY PlainReaderNext, PackedReaderNext
<1>3. PlainReader /\ PackedReader => PacketsDelivered
  BY PlainReaderDelivers, PackedReaderDelivers
<1> QED
  BY <1>1, <1>2, <1>3, PTL DEF Spec
================================================================================

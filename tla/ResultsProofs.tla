---------------------------- MODULE ResultsProofs ----------------------------
(***************************************************************************)
(* Proofs about Results: a command reads its answer to the end and no      *)
(* further, and what it gives its caller is what the server sent.          *)
(***************************************************************************)
EXTENDS Results, SequenceLemmas

-----------------------------------------------------------------------------
(***************************************************************************)
(* The invariant: as long as no OK packet has said what the code does not  *)
(* cope with (trouble), command and server go through the answer together. *)
(***************************************************************************)
RowIds == Nat \X Nat
Items == [kind : {"ok", "set"}, rows : Seq(RowIds)]

ServerType ==
  /\ opts \in Options /\ server \in {"respond", "column", "eof", "row", "file", "loaded", "over"}
  /\ left \in Nat /\ outParameters \in BOOLEAN /\ sent \in Seq(Items) /\ failed \in BOOLEAN /\ asked \in Nat

CommandType ==
  /\ handler \in {"respond", "column", "eof", "row", "none"}
  /\ responseIndex \in Nat /\ rows \in Seq(Items) /\ meta \in Seq(Nat) /\ columns \in Nat
  /\ isOutParameter \in BOOLEAN /\ moreResults \in BOOLEAN /\ complaint \in BOOLEAN
  /\ promise \in {"pending", "resolved", "rejected"} /\ ends \in Nat
  /\ redirecting \in {"no", "ok", "set"}
  /\ file \in {"none", "reading", "done"} /\ empties \in Nat
  /\ pushed \in Seq(RowIds) /\ closed \in BOOLEAN

\* The command expects what the server sends next, and OUT parameters where they are; when it
\* waits for a redirection the answer is over.
Together ==
  /\ IF redirecting = "no" THEN handler = Expects(server)
     ELSE /\ server = "over" /\ ~moreResults /\ opts.eofDeprecated
          /\ handler = IF redirecting = "ok" THEN "respond" ELSE "row"
  /\ ends = IF handler = "none" THEN 1 ELSE 0
  /\ server # "over" => isOutParameter = outParameters
  /\ opts.eofDeprecated => ~isOutParameter /\ ~outParameters /\ server # "eof"
  /\ failed => handler = "none"

\* The end of each file asked for is written once.
Files ==
  /\ empties = IF file = "reading" THEN asked - 1 ELSE asked
  /\ file = "reading" => server = "file" /\ asked > 0
  /\ outParameters => server # "loaded" /\ server # "file"

\* What is known of the columns, and which results were read before.
InSet == handler \in {"column", "eof", "row"}
Reading ==
  /\ server = "column" => left + columns = Columns /\ left > 0
  /\ handler \in {"eof", "row"} => columns = Columns
  /\ InSet => sent # <<>> /\ sent[Len(sent)].kind = "set" /\ Len(rows) = responseIndex + 1
  /\ handler = "respond" => Len(rows) = responseIndex
  /\ redirecting = "ok" => sent[Len(sent)].kind = "ok"

\* The results read so far are those sent.
Got == IF redirecting = "ok" THEN Append(rows, Ok) ELSE rows
Kept == handler # "none" => Len(Got) = Len(sent) /\ (~opts.stream => Got = sent)

\* With metaAsArray the columns of a set have their place, and what has none is behind the last set.
ColumnsOf(r) == IF sent[r].kind = "set" THEN Columns ELSE NoColumns
MetaRight == handler # "none" /\ opts.metaAsArray =>
  /\ Len(meta) <= responseIndex /\ responseIndex <= Len(sent)
  /\ \A r \in 1..responseIndex :
       /\ sent[r].kind = "set" => r <= Len(meta)
       /\ r <= Len(meta) => meta[r] = ColumnsOf(r)

\* A command that is over is settled, and was resolved with what was sent.
Settled ==
  /\ handler = "none" => promise # "pending"
  /\ promise = "rejected" => failed \/ complaint
  /\ promise = "resolved" =>
       /\ handler = "none" /\ ~failed /\ Len(value.results) = Len(sent)
       /\ ~opts.stream => value.results = sent
       /\ opts.metaAsArray /\ Len(sent) > 1 => \A r \in DOMAIN sent : r \in DOMAIN value.meta /\ value.meta[r] = ColumnsOf(r)

\* A stream that is not closed was pushed every row and OK packet.
Streams == opts.stream /\ ~closed => pushed = Streamed

\* What holds as long as there is no trouble, and the invariant.
Sound == ServerType /\ CommandType /\ Together /\ Files /\ Reading /\ Kept /\ MetaRight /\ Settled /\ Streams
ResultsInv == trouble = "none" => Sound


-----------------------------------------------------------------------------
(***************************************************************************)
(* What the server sends, and what it does next.                           *)
(***************************************************************************)
\* The fields of a packet.
Packets == [first : {"none", "00", "ff", "fb", "fe", "count", "column", "other"}, long : BOOLEAN, more : BOOLEAN, out : BOOLEAN,
            says : {"nothing", "charset", "insertId", "later", "redirect"}, skips : BOOLEAN]


\* An OK packet.
LEMMA OkPacketKinds ==
  ASSUME ServerType, NEW mores \in SUBSET BOOLEAN, NEW q \in OkPackets(mores)
  PROVE  /\ q \in Packets /\ q.first = "00" /\ q.more \in mores
         /\ q.says \in {"later", "redirect"} => opts.eofDeprecated
<1>1. PICK m \in mores, s \in OkSays : q = [NoPacket EXCEPT !.first = "00", !.more = m, !.says = s]
  <2>1. PICK x \in mores \X OkSays : q = [NoPacket EXCEPT !.first = "00", !.more = x[1], !.says = x[2]]
    BY DEF OkPackets
  <2> QED
    BY <2>1
<1>2. s \in {"nothing", "charset", "insertId", "later", "redirect"} /\ (s \in {"later", "redirect"} => opts.eofDeprecated)
  BY DEF OkSays, Redirects
<1>3. m \in BOOLEAN
  OBVIOUS
<1>4. q \in Packets /\ q.first = "00" /\ q.more = m /\ q.says = s
  BY <1>1, <1>2, <1>3 DEF NoPacket, Packets
<1> QED
  BY <1>2, <1>4

\* A set, a request for a file, an error.
LEMMA OtherKinds ==
  /\ ErrPacket \in Packets /\ ErrPacket.first = "ff" /\ ErrPacket.more = FALSE /\ ErrPacket.says = "nothing"
  /\ InfilePacket \in Packets /\ InfilePacket.first = "fb" /\ InfilePacket.says = "nothing"
  /\ ColumnPacket \in Packets /\ ColumnPacket.first = "column" /\ ColumnPacket.says = "nothing"
  /\ \A q \in SetPackets : q \in Packets /\ q.first = "count" /\ q.says = "nothing"
  /\ \A q \in EofPackets : q \in Packets /\ q.first = "fe" /\ q.more = FALSE /\ q.says = "nothing"
<1>1. /\ ErrPacket \in Packets /\ ErrPacket.first = "ff" /\ ErrPacket.more = FALSE /\ ErrPacket.says = "nothing"
      /\ InfilePacket \in Packets /\ InfilePacket.first = "fb" /\ InfilePacket.says = "nothing"
      /\ ColumnPacket \in Packets /\ ColumnPacket.first = "column" /\ ColumnPacket.says = "nothing"
  BY DEF ErrPacket, InfilePacket, ColumnPacket, NoPacket, Packets
<1>2. ASSUME NEW q \in SetPackets PROVE q \in Packets /\ q.first = "count" /\ q.says = "nothing"
  <2>1. PICK k \in BOOLEAN : q = [NoPacket EXCEPT !.first = "count", !.skips = k]
    BY DEF SetPackets
  <2> QED
    BY <2>1 DEF NoPacket, Packets
<1>3. ASSUME NEW q \in EofPackets PROVE q \in Packets /\ q.first = "fe" /\ q.more = FALSE /\ q.says = "nothing"
  <2>1. PICK o \in BOOLEAN : q = [NoPacket EXCEPT !.first = "fe", !.out = o]
    BY DEF EofPackets
  <2> QED
    BY <2>1 DEF NoPacket, Packets
<1> QED
  BY <1>1, <1>2, <1>3

\* The end of a set, and its rows.
LEMMA RowKinds ==
  ASSUME ServerType
  PROVE  /\ \A q \in EndPackets : /\ q \in Packets /\ q.first = "fe" /\ (outParameters => q.more = FALSE)
                                  /\ q.says \in {"later", "redirect"} => opts.eofDeprecated
         /\ \A q \in RowPackets : q \in Packets /\ q.first \in {"00", "fb", "fe", "other"} /\ q.more = FALSE /\ q.says = "nothing"
<1>1. ASSUME NEW q \in EndPackets
      PROVE  /\ q \in Packets /\ q.first = "fe" /\ (outParameters => q.more = FALSE)
             /\ q.says \in {"later", "redirect"} => opts.eofDeprecated
  <2>1. PICK m \in (IF outParameters THEN {FALSE} ELSE MayContinue), s \in {"nothing"} \cup Redirects :
          q = [NoPacket EXCEPT !.first = "fe", !.more = m, !.says = s]
    <3>1. PICK x \in (IF outParameters THEN {FALSE} ELSE MayContinue) \X ({"nothing"} \cup Redirects) :
            q = [NoPacket EXCEPT !.first = "fe", !.more = x[1], !.says = x[2]]
      BY DEF EndPackets
    <3> QED
      BY <3>1
  <2>2. m \in BOOLEAN /\ (outParameters => m = FALSE)
    BY <2>1 DEF MayContinue
  <2>3. s \in {"nothing", "later"} /\ (s = "later" => opts.eofDeprecated)
    BY <2>1 DEF Redirects
  <2>4. q \in Packets /\ q.first = "fe" /\ q.more = m /\ q.says = s
    BY <2>1, <2>2, <2>3 DEF NoPacket, Packets
  <2> QED
    BY <2>2, <2>3, <2>4
<1>2. ASSUME NEW q \in RowPackets
      PROVE  q \in Packets /\ q.first \in {"00", "fb", "fe", "other"} /\ q.more = FALSE /\ q.says = "nothing"
  <2>1. CASE q = [NoPacket EXCEPT !.first = "00"]
    BY <2>1 DEF NoPacket, Packets
  <2>2. ASSUME NEW f \in {"fb", "fe", "other"}, q = [NoPacket EXCEPT !.first = f, !.long = (f = "fe")]
        PROVE  q \in Packets /\ q.first \in {"00", "fb", "fe", "other"} /\ q.more = FALSE /\ q.says = "nothing"
    <3>1. PICK l \in BOOLEAN : l = (f = "fe")
      OBVIOUS
    <3>2. q = [NoPacket EXCEPT !.first = f, !.long = l]
      BY <2>2, <3>1
    <3> QED
      BY <3>2 DEF NoPacket, Packets
  <2>3. CASE opts.binary
    BY <2>1, <2>3 DEF RowPackets
  <2>4. CASE ~opts.binary
    BY <2>2, <2>4 DEF RowPackets
  <2> QED
    BY <2>3, <2>4
<1> QED
  BY <1>1, <1>2

\* The packets of each phase of the answer.
LEMMA SendsKinds ==
  ASSUME ServerType, NEW p \in Sends
  PROVE  /\ server \in {"respond", "loaded", "column", "eof", "row"} /\ p \in Packets
         /\ server = "respond" => /\ p.first \in {"00", "ff", "fb", "count"}
                                  /\ outParameters => p.first = "00" /\ p.more = FALSE
         /\ server = "loaded" => p.first \in {"ff", "00"}
         /\ server = "column" => p.first = "column"
         /\ server = "eof" => p.first = "fe" /\ p.more = FALSE
         /\ server = "row" => /\ p.first \in {"00", "ff", "fb", "fe", "other"}
                              /\ outParameters => p.more = FALSE
         /\ p.says \in {"later", "redirect"} => opts.eofDeprecated
<1>3. CASE server = "respond"
  <2>1. CASE outParameters
    <3>1. p \in OkPackets({FALSE})
      BY <1>3, <2>1 DEF Sends
    <3>2. p \in Packets /\ p.first = "00" /\ p.more \in {FALSE} /\ (p.says \in {"later", "redirect"} => opts.eofDeprecated)
      BY <3>1, OkPacketKinds
    <3> QED
      BY <1>3, <3>2
  <2>2. CASE ~outParameters
    <3>1. PICK mores \in SUBSET BOOLEAN :
            p \in OkPackets(mores) \cup {ErrPacket} \cup SetPackets \cup {InfilePacket}
      <4>1. (IF Len(sent) + 1 < MaxResults THEN BOOLEAN ELSE {FALSE}) \in SUBSET BOOLEAN
        OBVIOUS
      <4> QED
        BY <1>3, <2>2, <4>1 DEF Sends
    <3>2. CASE p \in SetPackets
      BY <1>3, <2>2, <3>2, OtherKinds
    <3>3. CASE p = InfilePacket
      BY <1>3, <2>2, <3>3, OtherKinds
    <3>4. CASE p \in OkPackets(mores)
      <4>1. p \in Packets /\ p.first = "00" /\ (p.says \in {"later", "redirect"} => opts.eofDeprecated)
        BY <3>4, OkPacketKinds
      <4> QED
        BY <1>3, <2>2, <4>1
    <3>5. CASE p = ErrPacket
      BY <1>3, <2>2, <3>5, OtherKinds
    <3> QED
      BY <3>1, <3>2, <3>3, <3>4, <3>5
  <2> QED
    BY <2>1, <2>2
<1>4. CASE server = "loaded"
  <2>1. PICK mores \in SUBSET BOOLEAN : p \in OkPackets(mores) \cup {ErrPacket}
    <3>1. (IF Len(sent) + 1 < MaxResults THEN BOOLEAN ELSE {FALSE}) \in SUBSET BOOLEAN
      OBVIOUS
    <3> QED
      BY <1>4, <3>1 DEF Sends
  <2>2. CASE p \in OkPackets(mores)
    <3>1. p \in Packets /\ p.first = "00" /\ (p.says \in {"later", "redirect"} => opts.eofDeprecated)
      BY <2>2, OkPacketKinds
    <3> QED
      BY <1>4, <3>1
  <2> QED
    BY <1>4, <2>1, <2>2, OtherKinds
<1>5. CASE server = "column"
  <2>1. p = ColumnPacket
    BY <1>5 DEF Sends
  <2> QED
    BY <1>5, <2>1, OtherKinds
<1>6. CASE server = "eof"
  <2>1. p \in EofPackets
    BY <1>6 DEF Sends
  <2> QED
    BY <1>6, <2>1, OtherKinds
<1>7. CASE server = "row"
  <2>1. p \in EndPackets \cup {ErrPacket} \cup RowPackets
    BY <1>7 DEF Sends
  <2>2. CASE p \in EndPackets
    BY <1>7, <2>2, RowKinds
  <2>3. CASE p \in RowPackets
    BY <1>7, <2>3, RowKinds
  <2> QED
    BY <1>7, <2>1, <2>2, <2>3, OtherKinds
<1>8. server \in {"respond", "loaded", "column", "eof", "row"}
  BY DEF Sends, ServerType
<1> QED
  BY <1>3, <1>4, <1>5, <1>6, <1>7, <1>8

\* What a packet makes of the server.
LEMMA SendDoes ==
  ASSUME ServerType, NEW p, Send(p)
  PROVE  /\ p \in Sends /\ UNCHANGED opts
         /\ server \in {"respond", "loaded"} /\ p.first = "00" =>
              /\ server' = (IF p.more THEN "respond" ELSE "over") /\ sent' = Append(sent, Ok)
              /\ outParameters' = (IF server = "respond" THEN FALSE ELSE outParameters)
              /\ UNCHANGED <<left, failed, asked>>
         /\ p.first = "ff" =>
              /\ server' = "over" /\ failed' = TRUE /\ UNCHANGED <<left, sent, asked>>
              /\ outParameters' = (IF server = "respond" THEN FALSE ELSE outParameters)
         /\ server = "respond" /\ p.first = "count" =>
              /\ server' = (IF p.skips THEN AfterColumns ELSE "column") /\ left' = Columns
              /\ sent' = Append(sent, Set(<<>>)) /\ outParameters' = FALSE /\ UNCHANGED <<failed, asked>>
         /\ server = "respond" /\ p.first = "fb" =>
              server' = "file" /\ asked' = asked + 1 /\ outParameters' = FALSE /\ UNCHANGED <<left, sent, failed>>
         /\ server = "column" =>
              /\ server' = (IF left > 1 THEN "column" ELSE AfterColumns) /\ left' = left - 1
              /\ UNCHANGED <<outParameters, sent, failed, asked>>
         /\ server = "eof" =>
              server' = "row" /\ outParameters' = p.out /\ UNCHANGED <<left, sent, failed, asked>>
         /\ server = "row" /\ p.first # "ff" /\ ~IsEnd(p) =>
              server' = "row" /\ sent' = Grown /\ UNCHANGED <<left, outParameters, failed, asked>>
         /\ server = "row" /\ IsEnd(p) =>
              /\ server' = IF p.more \/ outParameters THEN "respond" ELSE "over"
              /\ UNCHANGED <<left, outParameters, sent, failed, asked>>
<1>0. /\ server \in {"respond", "loaded", "column", "eof", "row"} /\ p \in Packets
      /\ server = "respond" => p.first \in {"00", "ff", "fb", "count"}
      /\ server = "loaded" => p.first \in {"ff", "00"}
      /\ server = "column" => p.first = "column"
      /\ server = "eof" => p.first = "fe"
      /\ server = "row" => p.first \in {"00", "ff", "fb", "fe", "other"}
  BY SendsKinds DEF Send
<1>1. p.long \in BOOLEAN /\ p.more \in BOOLEAN /\ p.skips \in BOOLEAN
  BY <1>0 DEF Packets
<1>2. p \in Sends /\ UNCHANGED opts
  BY DEF Send
<1>3. CASE server \in {"respond", "loaded"} /\ p.first = "00"
  BY <1>0, <1>1, <1>2, <1>3 DEF Send, IsRow, IsEnd, ServerType
<1>4. CASE p.first = "ff"
  BY <1>0, <1>1, <1>2, <1>4 DEF Send, IsRow, IsEnd, ServerType
<1>5. CASE server = "respond" /\ p.first = "count"
  BY <1>0, <1>1, <1>2, <1>5 DEF Send, IsRow, IsEnd, ServerType
<1>6. CASE server = "respond" /\ p.first = "fb"
  BY <1>0, <1>1, <1>2, <1>6 DEF Send, IsRow, IsEnd, ServerType
<1>7. CASE server = "column"
  BY <1>0, <1>1, <1>2, <1>7 DEF Send, IsRow, IsEnd, ServerType
<1>8. CASE server = "eof"
  BY <1>0, <1>1, <1>2, <1>8 DEF Send, IsRow, IsEnd, ServerType
<1>9. CASE server = "row" /\ p.first # "ff" /\ ~IsEnd(p)
  BY <1>0, <1>1, <1>2, <1>9 DEF Send, IsRow, IsEnd, ServerType
<1>10. CASE server = "row" /\ IsEnd(p)
  BY <1>0, <1>1, <1>2, <1>10 DEF Send, IsRow, IsEnd, ServerType
<1> QED
  BY <1>0, <1>1, <1>3, <1>4, <1>5, <1>6, <1>7, <1>8, <1>9, <1>10 DEF IsEnd

-----------------------------------------------------------------------------
(***************************************************************************)
(* Streams: what was pushed is what was sent, one result behind the other. *)
(***************************************************************************)
\* What is pushed of each of the results s.
Pieces(s) == [r \in DOMAIN s |-> IF s[r].kind = "ok" THEN <<<<r, 0>>>> ELSE s[r].rows]

\* A result more.
LEMMA PiecesAppend ==
  ASSUME NEW s \in Seq(Items), NEW x \in Items
  PROVE  /\ Pieces(s) \in Seq(Seq(RowIds))
         /\ FlattenSeq(Pieces(Append(s, x))) = FlattenSeq(Pieces(s)) \o (IF x.kind = "ok" THEN <<<<Len(s) + 1, 0>>>> ELSE x.rows)
         /\ FlattenSeq(Pieces(s)) \in Seq(RowIds)
<1>1. Len(s) \in Nat /\ DOMAIN s = 1..Len(s) /\ \A r \in 1..Len(s) : s[r] \in Items
  OBVIOUS
<1>2. ASSUME NEW i \in Items, NEW r \in Nat PROVE (IF i.kind = "ok" THEN <<<<r, 0>>>> ELSE i.rows) \in Seq(RowIds)
  <2>1. i.rows \in Seq(RowIds)
    BY DEF Items
  <2>2. <<r, 0>> \in RowIds
    BY DEF RowIds
  <2> HIDE DEF RowIds
  <2>3. <<<<r, 0>>>> \in Seq(RowIds)
    BY <2>2
  <2> QED
    BY <2>1, <2>3
<1>3. Pieces(s) \in Seq(Seq(RowIds)) /\ Len(Pieces(s)) = Len(s)
  <2>1. Pieces(s) = [r \in 1..Len(s) |-> IF s[r].kind = "ok" THEN <<<<r, 0>>>> ELSE s[r].rows]
    BY <1>1 DEF Pieces
  <2>2. ASSUME NEW r \in 1..Len(s) PROVE (IF s[r].kind = "ok" THEN <<<<r, 0>>>> ELSE s[r].rows) \in Seq(RowIds)
    <3>1. PICK i \in Items : i = s[r]
      BY <1>1
    <3>2. r \in Nat
      BY <1>1
    <3> HIDE DEF Items, RowIds
    <3> QED
      BY <1>2, <3>1, <3>2
  <2> HIDE DEF RowIds, Items
  <2> QED
    BY <1>1, <2>1, <2>2
<1>4. PICK y : y = IF x.kind = "ok" THEN <<<<Len(s) + 1, 0>>>> ELSE x.rows
  OBVIOUS
<1>5. y \in Seq(RowIds)
  BY <1>1, <1>2, <1>4
<1>6. PICK t : t = Append(s, x)
  OBVIOUS
<1>7. t \in Seq(Items) /\ DOMAIN t = 1..(Len(s) + 1) /\ t[Len(s) + 1] = x /\ \A r \in 1..Len(s) : t[r] = s[r]
  BY <1>6
<1>8. Pieces(t) = Append(Pieces(s), y)
  <2>1. Pieces(t) = [r \in 1..(Len(s) + 1) |-> IF t[r].kind = "ok" THEN <<<<r, 0>>>> ELSE t[r].rows]
    BY <1>7 DEF Pieces
  <2>2. PICK q \in Seq(Seq(RowIds)) : q = Pieces(s)
    BY <1>3
  <2>3. Len(q) = Len(s) /\ \A r \in 1..Len(s) : q[r] = IF s[r].kind = "ok" THEN <<<<r, 0>>>> ELSE s[r].rows
    BY <1>1, <1>3, <2>2 DEF Pieces
  <2>4. PICK v : v = Append(q, y)
    OBVIOUS
  <2>5. v = [r \in 1..(Len(s) + 1) |-> v[r]] /\ v[Len(s) + 1] = y /\ \A r \in 1..Len(s) : v[r] = q[r]
    <3> HIDE DEF RowIds, Items, Pieces
    <3>1. v \in Seq(Seq(RowIds)) /\ Len(v) = Len(s) + 1 /\ v[Len(s) + 1] = y /\ \A r \in 1..Len(s) : v[r] = q[r]
      BY <1>1, <1>5, <2>2, <2>3, <2>4
    <3>2. v = [r \in 1..Len(v) |-> v[r]]
      BY <3>1
    <3> QED
      BY <3>1, <3>2
  <2>6. ASSUME NEW r \in 1..(Len(s) + 1) PROVE v[r] = IF t[r].kind = "ok" THEN <<<<r, 0>>>> ELSE t[r].rows
    <3>1. CASE r = Len(s) + 1
      BY <1>4, <1>7, <2>5, <3>1
    <3>2. CASE r \in 1..Len(s)
      BY <1>7, <2>3, <2>5, <3>2
    <3> QED
      BY <1>1, <3>1, <3>2
  <2>7. v = Pieces(t)
    BY <2>1, <2>5, <2>6
  <2> QED
    BY <2>2, <2>4, <2>7
<1> QED
  <2>1. PICK q \in Seq(Seq(RowIds)) : q = Pieces(s)
    BY <1>3
  <2>2. FlattenSeq(Append(q, y)) = FlattenSeq(q) \o y /\ FlattenSeq(q) \in Seq(RowIds)
    BY <1>5, FlattenAppend
  <2> QED
    BY <1>3, <1>4, <1>6, <1>8, <2>1, <2>2

\* What is pushed, in those terms, before and after a step.
LEMMA StreamedIs == Streamed = FlattenSeq(Pieces(sent)) /\ Streamed' = FlattenSeq(Pieces(sent'))
BY DEF Streamed, StreamItems, Pieces

\* An OK packet is pushed.
LEMMA StreamsOk ==
  ASSUME ServerType, CommandType, Streams, sent' = Append(sent, Ok), UNCHANGED <<opts, closed>>,
         pushed' = Pushed(<<Len(sent) + 1, 0>>)
  PROVE  Streams' /\ pushed' \in Seq(RowIds)
<1>1. Ok \in Items /\ Ok.kind = "ok"
  BY DEF Ok, Items
<1>2. sent \in Seq(Items) /\ Len(sent) \in Nat
  BY DEF ServerType
<1>3. FlattenSeq(Pieces(sent')) = FlattenSeq(Pieces(sent)) \o <<<<Len(sent) + 1, 0>>>> /\ FlattenSeq(Pieces(sent)) \in Seq(RowIds)
  BY <1>1, <1>2, PiecesAppend
<1>4. <<Len(sent) + 1, 0>> \in RowIds
  BY <1>2 DEF RowIds
<1>5. PICK x : x = <<Len(sent) + 1, 0>>
  OBVIOUS
<1>6. ASSUME NEW s \in Seq(RowIds) PROVE s \o <<x>> = Append(s, x) /\ Append(s, x) \in Seq(RowIds)
  <2> HIDE DEF RowIds
  <2> QED
    BY <1>4, <1>5
<1>7. Streamed' = Append(Streamed, x)
  BY <1>3, <1>5, <1>6, StreamedIs
<1>8. pushed' \in Seq(RowIds)
  BY <1>5, <1>6 DEF Pushed, CommandType
<1> QED
  BY <1>5, <1>7, <1>8 DEF Streams, Pushed

\* Nothing is pushed for a set whose rows are still to come.
LEMMA StreamsSet ==
  ASSUME ServerType, Streams, sent' = Append(sent, Set(<<>>)), UNCHANGED <<opts, closed, pushed>>
  PROVE  Streams'
<1>1. Set(<<>>) \in Items /\ Set(<<>>).kind = "set" /\ Set(<<>>).rows = <<>>
  BY DEF Set, Items
<1>2. sent \in Seq(Items)
  BY DEF ServerType
<1>3. FlattenSeq(Pieces(sent')) = FlattenSeq(Pieces(sent)) \o <<>> /\ FlattenSeq(Pieces(sent)) \in Seq(RowIds)
  BY <1>1, <1>2, PiecesAppend
<1>4. ASSUME NEW s \in Seq(RowIds) PROVE s \o <<>> = s
  OBVIOUS
<1> QED
  BY <1>3, <1>4, StreamedIs DEF Streams

\* The last set has a row more.
LEMMA GrownIs ==
  ASSUME ServerType, sent # <<>>, sent[Len(sent)].kind = "set"
  PROVE  \E front \in Seq(Items), rs \in Seq(RowIds) :
           /\ Len(sent) = Len(front) + 1 /\ sent = Append(front, Set(rs)) /\ RowId \in RowIds
           /\ Grown = Append(front, Set(Append(rs, RowId))) /\ Append(rs, RowId) \in Seq(RowIds)
<1>1. sent \in Seq(Items) /\ Len(sent) \in Nat /\ Len(sent) > 0
  BY DEF ServerType
<1>2. PICK n \in Nat : n = Len(sent) /\ n > 0
  BY <1>1
<1>3. sent[n] \in Items
  BY <1>1, <1>2
<1>4. PICK rs \in Seq(RowIds) : rs = sent[n].rows
  BY <1>3 DEF Items
<1>5. sent[n] = Set(rs)
  BY <1>2, <1>3, <1>4 DEF Items, Set
<1>6. PICK front : front = [i \in 1..(n - 1) |-> sent[i]]
  OBVIOUS
<1>7. front \in Seq(Items) /\ Len(front) = n - 1
  BY <1>1, <1>2, <1>6
<1>8. ASSUME NEW x \in Items PROVE [sent EXCEPT ![n] = x] = Append(front, x)
  BY <1>1, <1>2, <1>6, <1>7
<1>9. Set(rs) \in Items
  BY <1>3, <1>5
<1>10. sent = Append(front, Set(rs))
  BY <1>1, <1>2, <1>5, <1>6, <1>7, <1>9
<1>11. RowId = <<n, Len(rs) + 1>> /\ RowId \in RowIds
  BY <1>1, <1>2, <1>4 DEF RowId, RowIds, Last
<1>12. Append(rs, RowId) \in Seq(RowIds)
  <2> HIDE DEF RowIds, RowId
  <2> QED
    BY <1>11
<1>13. Set(Append(rs, RowId)) \in Items
  BY <1>12 DEF Set, Items
<1>14. Grown = [sent EXCEPT ![n] = Set(Append(rs, RowId))]
  BY <1>1, <1>2, <1>4 DEF Grown
<1>15. Grown = Append(front, Set(Append(rs, RowId)))
  BY <1>8, <1>13, <1>14
<1>16. Len(sent) = Len(front) + 1
  BY <1>2, <1>7
<1> USE <1>7
<1> WITNESS front \in Seq(Items), rs \in Seq(RowIds)
<1> QED
  BY <1>10, <1>11, <1>12, <1>15, <1>16

\* A row is pushed.
LEMMA StreamsRow ==
  ASSUME ServerType, CommandType, Streams, sent # <<>>, sent[Len(sent)].kind = "set", sent' = Grown,
         UNCHANGED <<opts, closed>>, pushed' = Pushed(RowId)
  PROVE  Streams' /\ pushed' \in Seq(RowIds)
<1>1. PICK front \in Seq(Items), rs \in Seq(RowIds) :
        /\ Len(sent) = Len(front) + 1 /\ sent = Append(front, Set(rs)) /\ RowId \in RowIds
        /\ Grown = Append(front, Set(Append(rs, RowId))) /\ Append(rs, RowId) \in Seq(RowIds)
  BY GrownIs
<1>2. ASSUME NEW s \in Seq(RowIds) PROVE Set(s) \in Items /\ Set(s).kind = "set" /\ Set(s).rows = s
  BY DEF Set, Items
<1>3. PICK rest \in Seq(RowIds) : rest = FlattenSeq(Pieces(front))
  <2>1. Ok \in Items
    BY DEF Ok, Items
  <2> QED
    BY <2>1, PiecesAppend
<1>4. \A x \in Items : FlattenSeq(Pieces(Append(front, x))) = rest \o (IF x.kind = "ok" THEN <<<<Len(front) + 1, 0>>>> ELSE x.rows)
  BY <1>3, PiecesAppend
<1>5. FlattenSeq(Pieces(sent)) = rest \o rs
  BY <1>1, <1>2, <1>4
<1>6. FlattenSeq(Pieces(sent')) = rest \o Append(rs, RowId)
  BY <1>1, <1>2, <1>4
<1>7. PICK x \in RowIds : x = RowId
  BY <1>1
<1>8. rest \o Append(rs, x) = Append(rest \o rs, x)
  <2> HIDE DEF RowIds
  <2> QED
    BY <1>7
<1>9. Streamed' = Append(Streamed, x)
  BY <1>5, <1>6, <1>7, <1>8, StreamedIs
<1>10. ASSUME NEW s \in Seq(RowIds) PROVE Append(s, x) \in Seq(RowIds)
  <2> HIDE DEF RowIds
  <2> QED
    BY <1>7
<1>11. pushed' \in Seq(RowIds)
  BY <1>7, <1>10 DEF Pushed, CommandType
<1> QED
  BY <1>7, <1>9, <1>11 DEF Streams, Pushed

-----------------------------------------------------------------------------
(***************************************************************************)
(* The columns of each result, and the results.                            *)
(***************************************************************************)
\* When the result that is read gets its columns every result has the ones it should.
LEMMA MetaFilled ==
  ASSUME ServerType, CommandType, MetaRight, handler # "none", opts.metaAsArray,
         sent' = sent \/ sent' = Append(sent, Ok), responseIndex + 1 <= Len(sent'),
         NEW m \in Nat, NEW n, n = responseIndex + 1, m = ColumnsOf(n)'
  PROVE  /\ MetaWith(responseIndex, m) \in Seq(Nat) /\ Len(MetaWith(responseIndex, m)) = responseIndex + 1
         /\ \A r \in 1..(responseIndex + 1) :
              r \in DOMAIN MetaWith(responseIndex, m) /\ MetaWith(responseIndex, m)[r] = ColumnsOf(r)'
<1>0. /\ meta \in Seq(Nat) /\ Len(meta) <= responseIndex /\ responseIndex \in Nat /\ Len(meta) \in Nat
      /\ responseIndex <= Len(sent) /\ sent \in Seq(Items) /\ Len(sent) \in Nat
  BY DEF MetaRight, CommandType, ServerType
<1>1. PICK w : w = MetaWith(responseIndex, m)
  OBVIOUS
<1>2. w = [j \in 1..(responseIndex + 1) |-> IF j = responseIndex + 1 THEN m ELSE IF j <= Len(meta) THEN meta[j] ELSE NoColumns]
  BY <1>0, <1>1 DEF MetaWith
<1>3. \A j \in 1..(responseIndex + 1) : w[j] \in Nat
  BY <1>0, <1>2 DEF NoColumns
<1>4. w \in Seq(Nat) /\ Len(w) = responseIndex + 1 /\ DOMAIN w = 1..(responseIndex + 1)
  BY <1>0, <1>2, <1>3
<1>5. ASSUME NEW r \in 1..responseIndex PROVE sent'[r] = sent[r]
  BY <1>0
<1>6. ASSUME NEW r \in 1..(responseIndex + 1) PROVE w[r] = ColumnsOf(r)'
  <2>1. CASE r = responseIndex + 1
    BY <1>2, <2>1
  <2>2. CASE r # responseIndex + 1
    <3>1. r \in 1..responseIndex
      BY <1>0, <2>2
    <3>2. ColumnsOf(r)' = ColumnsOf(r)
      BY <1>5, <3>1 DEF ColumnsOf
    <3>3. (r <= Len(meta) => meta[r] = ColumnsOf(r)) /\ (sent[r].kind = "set" => r <= Len(meta))
      BY <3>1 DEF MetaRight
    <3>4. ~(r <= Len(meta)) => ColumnsOf(r) = NoColumns
      BY <3>3 DEF ColumnsOf
    <3> QED
      BY <1>2, <2>2, <3>2, <3>3, <3>4
  <2> QED
    BY <2>1, <2>2
<1> QED
  BY <1>1, <1>4, <1>6

\* A result more, for the server and for the command.
LEMMA ResultMore ==
  ASSUME ServerType, CommandType, NEW x \in Items
  PROVE  /\ Append(sent, x) \in Seq(Items) /\ Len(Append(sent, x)) = Len(sent) + 1 /\ Len(sent) \in Nat
         /\ Append(sent, x)[Len(sent) + 1] = x
         /\ \A r \in 1..Len(sent) : Append(sent, x)[r] = sent[r]
         /\ Append(rows, x) \in Seq(Items) /\ Len(Append(rows, x)) = Len(rows) + 1 /\ Len(rows) \in Nat
<1> HIDE DEF Items
<1> QED
  BY DEF ServerType, CommandType

\* OK packets and new sets are results.
LEMMA ResultKinds ==
  Ok \in Items /\ Ok.kind = "ok" /\ Set(<<>>) \in Items /\ Set(<<>>).kind = "set"
BY DEF Ok, Set, Items

\* The command is over: it is resolved with every result, or rejected.
LEMMA CommandOver ==
  ASSUME Sound, handler # "none", promise # "resolved", ServerType', Files', Streams', pushed' \in Seq(RowIds),
         server' = "over", ~failed', opts.eofDeprecated => ~outParameters',
         UNCHANGED <<opts, closed, file, empties, responseIndex, isOutParameter>>,
         redirecting' = "no", moreResults' \in BOOLEAN,
         sent' = sent \/ sent' = Append(sent, Ok), Len(sent') = responseIndex + 1,
         rows' = <<>>, handler' = "none", ends' = ends + 1, columns' = NoColumns, meta' \in Seq(Nat),
         NEW results, Len(results) = Len(sent'), opts.stream \/ results = sent',
         NEW n, n = responseIndex + 1, NEW m,
         opts.metaAsArray /\ responseIndex > 0 => m = MetaWith(responseIndex, ColumnsOf(n)'),
         \/ /\ UNCHANGED complaint
            /\ IF promise = "pending" THEN promise' = "resolved" /\ value' = [results |-> results, meta |-> m]
               ELSE UNCHANGED promise
         \/ promise' = "rejected" /\ complaint' = TRUE
  PROVE  Sound'
<1>0. ServerType /\ CommandType /\ Together /\ Files /\ Reading /\ Kept /\ MetaRight /\ Settled /\ Streams
  BY DEF Sound
<1>1. sent' \in Seq(Items) /\ responseIndex \in Nat
  BY <1>0 DEF ServerType, CommandType
<1>2. CommandType'
  <2>1. handler' \in {"respond", "column", "eof", "row", "none"} /\ responseIndex' \in Nat /\ rows' \in Seq(Items)
    <3>1. <<>> \in Seq(Items)
      OBVIOUS
    <3> QED
      BY <1>0, <3>1 DEF CommandType
  <2>2. /\ meta' \in Seq(Nat) /\ columns' \in Nat /\ isOutParameter' \in BOOLEAN /\ moreResults' \in BOOLEAN
        /\ complaint' \in BOOLEAN
    BY <1>0 DEF CommandType, NoColumns
  <2>3. promise' \in {"pending", "resolved", "rejected"} /\ ends' \in Nat /\ redirecting' \in {"no", "ok", "set"}
    BY <1>0 DEF CommandType
  <2>4. file' \in {"none", "reading", "done"} /\ empties' \in Nat /\ pushed' \in Seq(RowIds) /\ closed' \in BOOLEAN
    BY <1>0 DEF CommandType
  <2> QED
    BY <2>1, <2>2, <2>3, <2>4 DEF CommandType
<1>3. Together'
  BY <1>0 DEF Together, Expects, CommandType
<1>4. Reading'
  BY DEF Reading, InSet
<1>5. Kept' /\ MetaRight'
  BY DEF Kept, MetaRight
<1>6. Settled'
  <2>1. promise' # "pending" /\ (promise' = "rejected" => failed' \/ complaint')
    <3>1. promise = "rejected" => complaint
      <4>1. ~failed
        BY <1>0 DEF Together
      <4> QED
        BY <1>0, <4>1 DEF Settled
    <3> QED
      BY <1>0, <3>1 DEF CommandType
  <2>2. ASSUME promise' = "resolved"
        PROVE  /\ Len(value'.results) = Len(sent') /\ (~opts'.stream => value'.results = sent')
               /\ opts'.metaAsArray /\ Len(sent') > 1 =>
                    \A r \in DOMAIN sent' : r \in DOMAIN value'.meta /\ value'.meta[r] = ColumnsOf(r)'
    <3>1. value' = [results |-> results, meta |-> m]
      BY <2>2
    <3>2. value'.results = results /\ value'.meta = m
      BY <3>1
    <3>3. ASSUME opts'.metaAsArray, Len(sent') > 1, NEW r \in DOMAIN sent'
          PROVE  r \in DOMAIN m /\ m[r] = ColumnsOf(r)'
      <4>1. responseIndex > 0 /\ opts.metaAsArray /\ r \in 1..(responseIndex + 1)
        BY <1>1, <3>3
      <4>2. m = MetaWith(responseIndex, ColumnsOf(n)')
        BY <4>1
      <4>3. PICK k \in Nat : k = ColumnsOf(n)'
        BY DEF ColumnsOf, NoColumns, Columns
      <4>4. \A j \in 1..(responseIndex + 1) :
              j \in DOMAIN MetaWith(responseIndex, k) /\ MetaWith(responseIndex, k)[j] = ColumnsOf(j)'
        <5>1. responseIndex + 1 <= Len(sent') /\ opts.metaAsArray
          BY <1>1, <4>1
        <5>2. ServerType /\ CommandType /\ MetaRight
          BY <1>0
        <5> QED
          BY <4>3, <5>1, <5>2, MetaFilled
      <4> QED
        BY <4>1, <4>2, <4>3, <4>4
    <3> QED
      BY <3>2, <3>3
  <2> QED
    BY <2>1, <2>2 DEF Settled
<1> QED
  BY <1>2, <1>3, <1>4, <1>5, <1>6 DEF Sound

-----------------------------------------------------------------------------
(***************************************************************************)
(* OK packets.                                                             *)
(***************************************************************************)
\* What the command that reads an OK packet knows, and what the packet makes of the server.
OkRead(p) ==
  /\ handler = "respond" /\ redirecting = "no" /\ server \in {"respond", "loaded"} /\ ~failed /\ promise # "resolved"
  /\ p.more \in BOOLEAN /\ (p.more => ~isOutParameter)
  /\ Len(rows) = Len(sent) /\ responseIndex = Len(sent) /\ (~opts.stream => rows = sent)
  /\ sent' = Append(sent, Ok) /\ server' = (IF p.more THEN "respond" ELSE "over") /\ outParameters' = FALSE
  /\ file # "reading" /\ moreResults' = p.more
  /\ UNCHANGED <<opts, left, failed, asked, closed, file, empties>>
  /\ pushed' = Pushed(<<Len(sent) + 1, 0>>)

\* Those facts.
LEMMA OkReadHolds ==
  ASSUME Sound, NEW p, ReadOKPacket(p)
  PROVE  OkRead(p) /\ (p.says \in {"later", "redirect"} => opts.eofDeprecated)
<1>0. ServerType /\ CommandType /\ Together /\ Files /\ Reading /\ Kept /\ Settled
  BY DEF Sound
<1>1. p \in Sends /\ handler = "respond" /\ p.first = "00" /\ Send(p)
  BY DEF ReadOKPacket, Send
<1>2. /\ server \in {"respond", "loaded", "column", "eof", "row"} /\ p \in Packets
      /\ server = "respond" => (outParameters => p.more = FALSE)
      /\ p.says \in {"later", "redirect"} => opts.eofDeprecated
  BY <1>0, <1>1, SendsKinds
<1>3. redirecting = "no" /\ server \in {"respond", "loaded"}
  BY <1>0, <1>1, <1>2 DEF Together, Expects
<1>4. isOutParameter = outParameters /\ (server = "loaded" => ~outParameters) /\ file # "reading" /\ ~failed /\ promise # "resolved"
  BY <1>0, <1>1, <1>3 DEF Together, Files, Settled
<1>5. p.more \in BOOLEAN /\ (p.more => ~isOutParameter)
  BY <1>2, <1>3, <1>4 DEF Packets
<1>6. Len(rows) = Len(sent) /\ responseIndex = Len(sent) /\ (~opts.stream => rows = sent)
  BY <1>0, <1>1, <1>3 DEF Kept, Got, Reading
<1>7. /\ sent' = Append(sent, Ok) /\ server' = (IF p.more THEN "respond" ELSE "over")
      /\ outParameters' = (IF server = "respond" THEN FALSE ELSE outParameters)
      /\ UNCHANGED <<opts, left, failed, asked>>
  BY <1>0, <1>1, <1>3, SendDoes
<1>8. outParameters' = FALSE
  BY <1>0, <1>3, <1>4, <1>7 DEF ServerType
<1>9. moreResults' = p.more /\ UNCHANGED <<closed, file, empties>> /\ pushed' = Pushed(<<Len(sent) + 1, 0>>)
  BY DEF ReadOKPacket, fileVars
<1> QED
  BY <1>1, <1>2, <1>3, <1>4, <1>5, <1>6, <1>7, <1>8, <1>9 DEF OkRead

\* The server's side of the invariant after an OK packet.
LEMMA OkServer ==
  ASSUME Sound, NEW p, OkRead(p)
  PROVE  ServerType' /\ Files' /\ Streams' /\ pushed' \in Seq(RowIds)
<1>0. ServerType /\ CommandType /\ Files /\ Streams
  BY DEF Sound
<1>1. ServerType'
  BY <1>0, ResultMore, ResultKinds DEF OkRead, ServerType
<1>2. Files'
  BY <1>0 DEF OkRead, Files
<1>3. Streams' /\ pushed' \in Seq(RowIds)
  BY <1>0, StreamsOk DEF OkRead
<1> QED
  BY <1>1, <1>2, <1>3

\* The command goes on to the next result.
LEMMA OkContinues ==
  ASSUME Sound, NEW p, OkRead(p), p.more,
         rows' = Append(rows, Ok), responseIndex' = responseIndex + 1, handler' = "respond",
         UNCHANGED <<meta, ends, columns, isOutParameter, redirecting>>,
         UNCHANGED <<promise, complaint>> \/ (promise' = "rejected" /\ complaint' = TRUE)
  PROVE  Sound'
<1>0. ServerType /\ CommandType /\ Together /\ Files /\ Reading /\ Kept /\ MetaRight /\ Settled /\ Streams
  BY DEF Sound
<1>1. ServerType' /\ Files' /\ Streams' /\ pushed' \in Seq(RowIds)
  BY OkServer
<1>2. /\ sent' = Append(sent, Ok) /\ sent' \in Seq(Items) /\ Len(sent') = Len(sent) + 1 /\ Len(sent) \in Nat
      /\ sent'[Len(sent) + 1] = Ok /\ (\A r \in 1..Len(sent) : sent'[r] = sent[r])
      /\ rows' \in Seq(Items) /\ Len(rows') = Len(rows) + 1
  BY <1>0, ResultMore, ResultKinds DEF OkRead
<1>3. CommandType'
  <2>1. handler' \in {"respond", "column", "eof", "row", "none"} /\ responseIndex' \in Nat /\ rows' \in Seq(Items)
    BY <1>0, <1>2 DEF CommandType
  <2>2. /\ meta' \in Seq(Nat) /\ columns' \in Nat /\ isOutParameter' \in BOOLEAN /\ moreResults' \in BOOLEAN
        /\ complaint' \in BOOLEAN
    BY <1>0 DEF OkRead, CommandType
  <2>3. promise' \in {"pending", "resolved", "rejected"} /\ ends' \in Nat /\ redirecting' \in {"no", "ok", "set"}
    BY <1>0 DEF CommandType
  <2>4. file' \in {"none", "reading", "done"} /\ empties' \in Nat /\ pushed' \in Seq(RowIds) /\ closed' \in BOOLEAN
    BY <1>0, <1>1 DEF OkRead, CommandType
  <2> QED
    BY <2>1, <2>2, <2>3, <2>4 DEF CommandType
<1>4. Together'
  BY <1>0 DEF OkRead, Together, Expects, CommandType
<1>5. Reading'
  BY <1>0, <1>2 DEF OkRead, Reading, InSet
<1>6. Kept'
  BY <1>0, <1>2 DEF OkRead, Kept, Got
<1>7. MetaRight'
  <2> SUFFICES ASSUME opts.metaAsArray
               PROVE  /\ Len(meta) <= responseIndex + 1 /\ responseIndex + 1 <= Len(sent')
                      /\ \A r \in 1..(responseIndex + 1) :
                           /\ sent'[r].kind = "set" => r <= Len(meta)
                           /\ r <= Len(meta) => meta[r] = ColumnsOf(r)'
    BY DEF MetaRight, OkRead
  <2>1. /\ Len(meta) <= responseIndex /\ responseIndex = Len(sent)
        /\ \A r \in 1..responseIndex : /\ sent[r].kind = "set" => r <= Len(meta)
                                       /\ r <= Len(meta) => meta[r] = ColumnsOf(r)
    BY <1>0 DEF MetaRight, OkRead
  <2>2. Len(meta) \in Nat
    BY <1>0 DEF CommandType
  <2>3. ASSUME NEW r \in 1..(responseIndex + 1)
        PROVE  /\ sent'[r].kind = "set" => r <= Len(meta)
               /\ r <= Len(meta) => meta[r] = ColumnsOf(r)'
    <3>1. CASE r = responseIndex + 1
      BY <1>2, <2>1, <2>2, <3>1, ResultKinds
    <3>2. CASE r # responseIndex + 1
      <4>1. r \in 1..responseIndex
        BY <1>2, <2>1, <3>2
      <4>2. sent'[r] = sent[r]
        BY <1>2, <2>1, <4>1
      <4> QED
        BY <2>1, <4>1, <4>2 DEF ColumnsOf
    <3> QED
      BY <3>1, <3>2
  <2> QED
    BY <1>2, <2>1, <2>2, <2>3
<1>8. Settled'
  BY <1>0 DEF Settled, OkRead, CommandType
<1> QED
  BY <1>1, <1>3, <1>4, <1>5, <1>6, <1>7, <1>8 DEF Sound

\* The command is over with an OK packet.
LEMMA OkEnds ==
  ASSUME Sound, NEW p, OkRead(p), ~p.more,
         rows' = <<>>, handler' = "none", ends' = ends + 1, columns' = NoColumns, meta' \in Seq(Nat),
         UNCHANGED <<responseIndex, isOutParameter, redirecting>>,
         NEW m, responseIndex > 0 /\ opts.metaAsArray => m = MetaWith(responseIndex, NoColumns),
         \/ /\ UNCHANGED complaint
            /\ IF promise = "pending" THEN promise' = "resolved" /\ value' = [results |-> Append(rows, Ok), meta |-> m]
               ELSE UNCHANGED promise
         \/ promise' = "rejected" /\ complaint' = TRUE
  PROVE  Sound'
<1>0. ServerType /\ CommandType /\ MetaRight
  BY DEF Sound
<1>1. ServerType' /\ Files' /\ Streams' /\ pushed' \in Seq(RowIds)
  BY OkServer
<1>2. /\ sent' = Append(sent, Ok) /\ Len(sent') = Len(sent) + 1 /\ Len(sent) \in Nat
      /\ sent'[Len(sent) + 1] = Ok /\ Len(Append(rows, Ok)) = Len(rows) + 1
  BY <1>0, ResultMore, ResultKinds DEF OkRead
<1>3. PICK n : n = responseIndex + 1
  OBVIOUS
<1>4. ColumnsOf(n)' = NoColumns
  BY <1>2, <1>3, ResultKinds DEF ColumnsOf, OkRead
<1>5. /\ handler # "none" /\ promise # "resolved" /\ server' = "over" /\ ~failed' /\ ~outParameters'
      /\ UNCHANGED <<opts, closed, file, empties>> /\ redirecting' = "no" /\ moreResults' \in BOOLEAN
  BY DEF OkRead
<1>6. Len(sent') = responseIndex + 1 /\ responseIndex = Len(rows) /\ (~opts.stream => Append(rows, Ok) = sent')
  BY <1>2 DEF OkRead
<1>7. PICK results : results = Append(rows, Ok)
  OBVIOUS
<1>8. Len(results) = Len(sent') /\ (opts.stream \/ results = sent')
  BY <1>2, <1>6, <1>7
<1>9. opts.metaAsArray /\ responseIndex > 0 => m = MetaWith(responseIndex, ColumnsOf(n)')
  BY <1>4
<1>10. \/ /\ UNCHANGED complaint
          /\ IF promise = "pending" THEN promise' = "resolved" /\ value' = [results |-> results, meta |-> m]
             ELSE UNCHANGED promise
       \/ promise' = "rejected" /\ complaint' = TRUE
  BY <1>7
<1> QED
  BY <1>1, <1>2, <1>3, <1>5, <1>6, <1>8, <1>9, <1>10, CommandOver

\* ReadOKPacket.
LEMMA ReadOKPacketSound ==
  ASSUME Sound, NEW p, ReadOKPacket(p), trouble' = "none"
  PROVE  Sound' /\ trouble = "none"
<1>0. /\ ServerType /\ CommandType /\ Together /\ Files /\ Reading /\ Kept /\ MetaRight /\ Settled /\ Streams
      /\ OkRead(p) /\ (p.says \in {"later", "redirect"} => opts.eofDeprecated)
  BY OkReadHolds DEF Sound
<1>1. meta \in Seq(Nat) /\ handler = "respond" /\ promise \in {"pending", "resolved", "rejected"} /\ promise # "resolved"
  BY <1>0 DEF CommandType, OkRead
<1>2. CASE p.says = "insertId"
  <2>1. trouble = "none" /\ redirecting' = redirecting /\ complaint' = TRUE /\ promise' = "rejected"
        /\ meta' = meta /\ isOutParameter' = isOutParameter
    BY <1>1, <1>2 DEF ReadOKPacket, Reject, redirectVars
  <2>2. CASE p.more
    <3>1. rows' = Append(rows, Ok) /\ responseIndex' = responseIndex + 1 /\ handler' = "respond" /\ UNCHANGED <<ends, columns>>
      BY <1>2, <2>2 DEF ReadOKPacket
    <3> QED
      BY <1>0, <2>1, <2>2, <3>1, OkContinues
  <2>3. CASE ~p.more
    <3>1. handler' = "none" /\ ends' = ends + 1 /\ rows' = <<>> /\ columns' = NoColumns /\ UNCHANGED responseIndex
      BY <1>2, <2>3 DEF ReadOKPacket
    <3>2. PICK m : m = MetaWith(responseIndex, NoColumns)
      OBVIOUS
    <3> QED
      BY <1>0, <1>1, <2>1, <2>3, <3>1, <3>2, OkEnds
  <2> QED
    BY <2>1, <2>2, <2>3
<1>3. CASE redirecting' = "no" /\ OkPacketSuccess(Ok, p.more) /\ UNCHANGED <<trouble, complaint, isOutParameter>>
  <2>1. UNCHANGED <<trouble, complaint, isOutParameter>> /\ redirecting' = redirecting
    BY <1>0, <1>3 DEF OkRead
  <2>2. CASE p.more
    <3>1. rows' = Append(rows, Ok) /\ responseIndex' = responseIndex + 1 /\ handler' = "respond"
          /\ UNCHANGED <<promise, ends, columns, meta>>
      BY <1>3, <2>2 DEF OkPacketSuccess, promiseVars
    <3> QED
      BY <1>0, <2>1, <2>2, <3>1, OkContinues
  <2>3. CASE ~p.more
    <3>1. PICK m : m = IF responseIndex > 0 /\ opts.metaAsArray THEN MetaWith(responseIndex, NoColumns) ELSE meta
      OBVIOUS
    <3>2. meta' = m
      BY <1>3, <2>3, <3>1 DEF OkPacketSuccess
    <3>3. /\ Resolve([results |-> Append(rows, Ok), meta |-> meta']) /\ handler' = "none" /\ ends' = ends + 1
          /\ columns' = NoColumns /\ rows' = <<>> /\ UNCHANGED responseIndex
      BY <1>3, <2>3 DEF OkPacketSuccess, Success, SuccessEnd
    <3>4. IF promise = "pending" THEN promise' = "resolved" /\ value' = [results |-> Append(rows, Ok), meta |-> m]
          ELSE UNCHANGED promise
      BY <3>2, <3>3 DEF Resolve
    <3>5. m \in Seq(Nat)
      <4>1. CASE responseIndex > 0 /\ opts.metaAsArray
        <5>1. PICK n : n = responseIndex + 1
          OBVIOUS
        <5>2. /\ sent' = Append(sent, Ok) /\ Len(sent') = Len(sent) + 1 /\ sent'[Len(sent) + 1] = Ok
          BY <1>0, ResultMore, ResultKinds DEF OkRead
        <5>3. NoColumns \in Nat /\ NoColumns = ColumnsOf(n)'
          BY <1>0, <5>1, <5>2, ResultKinds DEF OkRead, NoColumns, ColumnsOf
        <5>4. responseIndex + 1 <= Len(sent') /\ opts.metaAsArray /\ handler # "none"
          BY <1>0, <1>1, <4>1, <5>2 DEF OkRead, ServerType
        <5> QED
          BY <1>0, <3>1, <4>1, <5>1, <5>2, <5>3, <5>4, MetaFilled
      <4> QED
        BY <1>1, <3>1, <4>1
    <3>6. (responseIndex > 0 /\ opts.metaAsArray => m = MetaWith(responseIndex, NoColumns)) /\ meta' \in Seq(Nat)
      BY <3>1, <3>2, <3>5
    <3> QED
      BY <1>0, <2>1, <2>3, <3>3, <3>4, <3>6, OkEnds
  <2> QED
    BY <1>3, <2>2, <2>3
<1>4. CASE p.says = "later" /\ ~p.more /\ redirecting' = "ok" /\ Stays /\ UNCHANGED <<trouble, complaint>>
  <2>1. UNCHANGED <<handler, responseIndex, rows, meta, columns, isOutParameter, promise, value, ends, complaint>>
    BY <1>4 DEF Stays, parserVars, promiseVars
  <2>2. ServerType' /\ Files' /\ Streams' /\ pushed' \in Seq(RowIds)
    BY <1>0, OkServer
  <2>3. /\ sent' = Append(sent, Ok) /\ sent' \in Seq(Items) /\ Len(sent') = Len(sent) + 1 /\ Len(sent) \in Nat
        /\ sent'[Len(sent) + 1] = Ok /\ (\A r \in 1..Len(sent) : sent'[r] = sent[r])
        /\ Append(rows, Ok) \in Seq(Items) /\ Len(Append(rows, Ok)) = Len(rows) + 1
    BY <1>0, ResultMore, ResultKinds DEF OkRead
  <2>4. CommandType'
    BY <1>0, <1>4, <2>1, <2>2 DEF OkRead, CommandType
  <2>5. Together'
    BY <1>0, <1>4, <2>1 DEF OkRead, Together, Expects, CommandType
  <2>6. Reading'
    BY <1>0, <1>4, <2>1, <2>3, ResultKinds DEF OkRead, Reading, InSet
  <2>7. Kept'
    BY <1>0, <1>4, <2>1, <2>3 DEF OkRead, Kept, Got
  <2>8. MetaRight'
    <3> SUFFICES ASSUME opts.metaAsArray
                 PROVE  /\ Len(meta) <= responseIndex /\ responseIndex <= Len(sent')
                        /\ \A r \in 1..responseIndex :
                             /\ sent'[r].kind = "set" => r <= Len(meta)
                             /\ r <= Len(meta) => meta[r] = ColumnsOf(r)'
      BY <1>0, <2>1 DEF MetaRight, OkRead
    <3>1. /\ Len(meta) <= responseIndex /\ responseIndex = Len(sent)
          /\ \A r \in 1..responseIndex : /\ sent[r].kind = "set" => r <= Len(meta)
                                         /\ r <= Len(meta) => meta[r] = ColumnsOf(r)
      BY <1>0 DEF MetaRight, OkRead
    <3>2. ASSUME NEW r \in 1..responseIndex PROVE sent'[r] = sent[r] /\ ColumnsOf(r)' = ColumnsOf(r)
      BY <2>3, <3>1 DEF ColumnsOf
    <3> QED
      BY <2>3, <3>1, <3>2
  <2>9. Settled'
    BY <1>0, <2>1 DEF Settled, OkRead
  <2> QED
    BY <1>4, <2>2, <2>4, <2>5, <2>6, <2>7, <2>8, <2>9 DEF Sound
<1>5. CASE p.says # "insertId"
  <2>1. p.says # "redirect" /\ p.says # "charset"
    <3>1. CASE p.says = "redirect"
      BY <3>1 DEF ReadOKPacket
    <3>2. CASE p.says = "charset"
      BY <3>2 DEF ReadOKPacket
    <3> QED
      BY <3>1, <3>2
  <2>2. CASE p.says = "later" /\ ~p.more
    <3>1. /\ UNCHANGED <<trouble, complaint>>
          /\ \/ redirecting' = "ok" /\ Stays
             \/ redirecting' = "no" /\ OkPacketSuccess(Ok, p.more) /\ UNCHANGED isOutParameter
      BY <2>2 DEF ReadOKPacket
    <3> QED
      BY <1>3, <1>4, <2>2, <3>1
  <2>3. CASE ~(p.says = "later" /\ ~p.more)
    <3>1. OkPacketSuccess(Ok, p.more) /\ UNCHANGED <<redirectVars, complaint, isOutParameter>>
      BY <1>5, <2>1, <2>3 DEF ReadOKPacket
    <3>2. redirecting' = "no" /\ UNCHANGED trouble
      BY <1>0, <3>1 DEF OkRead, redirectVars
    <3> QED
      BY <1>3, <3>1, <3>2
  <2> QED
    BY <2>2, <2>3
<1> QED
  BY <1>2, <1>5

-----------------------------------------------------------------------------
(***************************************************************************)
(* Errors, and sets up to their rows.                                      *)
(***************************************************************************)
\* The command that gets a packet is not over, and expects what the server sends.
LEMMA Receiving ==
  ASSUME Sound, NEW p, Send(p)
  PROVE  /\ server \in {"respond", "loaded", "column", "eof", "row"} /\ p \in Packets /\ p \in Sends
         /\ redirecting = "no" /\ handler = Expects(server) /\ handler # "none" /\ ~failed /\ promise # "resolved"
         /\ isOutParameter = outParameters /\ file # "reading" /\ ends = 0
<1>0. ServerType /\ CommandType /\ Together /\ Files /\ Settled
  BY DEF Sound
<1>1. server \in {"respond", "loaded", "column", "eof", "row"} /\ p \in Packets /\ p \in Sends
  BY <1>0, SendsKinds DEF Send
<1>2. redirecting = "no" /\ handler = Expects(server) /\ handler # "none"
  BY <1>0, <1>1 DEF Together, Expects
<1> QED
  BY <1>0, <1>1, <1>2 DEF Together, Files, Settled

\* HandleErrorPacket.
LEMMA HandleErrorPacketSound ==
  ASSUME Sound, NEW p, HandleErrorPacket(p)
  PROVE  Sound'
<1>0. ServerType /\ CommandType /\ Together /\ Files /\ Streams /\ Settled
  BY DEF Sound
<1>1. p.first = "ff" /\ Send(p) /\ Reject /\ handler' = "none" /\ ends' = ends + 1 /\ columns' \in {NoColumns, columns}
      /\ UNCHANGED <<responseIndex, rows, meta, isOutParameter, moreResults, complaint, redirecting, file, empties, pushed, closed>>
  BY DEF HandleErrorPacket, ThrowError, redirectVars, fileVars
<1>2. /\ redirecting = "no" /\ handler # "none" /\ promise # "resolved" /\ file # "reading" /\ ends = 0
      /\ isOutParameter = outParameters
  BY <1>1, Receiving
<1>3. /\ server' = "over" /\ failed' = TRUE /\ UNCHANGED <<opts, left, sent, asked>>
      /\ outParameters' = (IF server = "respond" THEN FALSE ELSE outParameters)
  BY <1>0, <1>1, SendDoes
<1>4. ServerType'
  BY <1>0, <1>3 DEF ServerType
<1>5. CommandType'
  <2>1. promise' \in {"pending", "resolved", "rejected"} /\ ends' \in Nat /\ columns' \in Nat
    BY <1>0, <1>1 DEF CommandType, Reject, NoColumns
  <2> QED
    BY <1>0, <1>1, <2>1 DEF CommandType
<1>6. Together' /\ Files' /\ Reading' /\ Kept' /\ MetaRight'
  BY <1>0, <1>1, <1>2, <1>3 DEF Together, Files, Reading, InSet, Kept, MetaRight, Expects, CommandType, ServerType
<1>7. Settled'
  BY <1>0, <1>1, <1>2, <1>3 DEF Settled, Reject, CommandType
<1>8. Streams'
  BY <1>0, <1>1, <1>3, StreamedIs DEF Streams
<1> QED
  BY <1>4, <1>5, <1>6, <1>7, <1>8 DEF Sound

\* The command may have been rejected, with an error of its own.
LEMMA StillSettled ==
  ASSUME Sound, handler # "none", handler' # "none", promise # "resolved",
         UNCHANGED <<promise, complaint>> \/ (Reject /\ complaint' = TRUE), UNCHANGED failed
  PROVE  Settled' /\ promise' \in {"pending", "resolved", "rejected"} /\ complaint' \in BOOLEAN
<1>0. CommandType /\ Settled
  BY DEF Sound
<1> QED
  BY <1>0 DEF Settled, CommandType, Reject

\* The columns of the results before the one that is read are what they were.
LEMMA MetaStays ==
  ASSUME Sound, handler # "none", UNCHANGED <<opts, responseIndex, meta>>, responseIndex <= Len(sent'),
         \A r \in 1..responseIndex : sent'[r] = sent[r]
  PROVE  MetaRight'
<1>0. CommandType /\ MetaRight
  BY DEF Sound
<1>1. ASSUME NEW r \in 1..responseIndex PROVE ColumnsOf(r)' = ColumnsOf(r)
  BY <1>1 DEF ColumnsOf
<1> QED
  BY <1>0, <1>1 DEF MetaRight

\* ReadResultSet.
LEMMA ReadResultSetSound ==
  ASSUME Sound, NEW p, ReadResultSet(p)
  PROVE  Sound'
<1>0. ServerType /\ CommandType /\ Together /\ Files /\ Reading /\ Kept /\ MetaRight /\ Settled /\ Streams
  BY DEF Sound
<1>1. /\ handler = "respond" /\ p.first = "count" /\ Send(p) /\ rows' = Append(rows, Set(<<>>))
      /\ UNCHANGED <<responseIndex, meta, isOutParameter, ends, moreResults, redirecting, file, empties, pushed, closed>>
  BY DEF ReadResultSet, redirectVars, fileVars, streamVars
<1>2. /\ redirecting = "no" /\ promise # "resolved" /\ file # "reading" /\ ends = 0 /\ isOutParameter = outParameters
      /\ server \in {"respond", "loaded", "column", "eof", "row"} /\ p \in Packets /\ p \in Sends /\ handler = Expects(server)
      /\ ~failed
  BY <1>1, Receiving
<1>3. server = "respond" /\ ~outParameters
  <2>1. server \in {"respond", "loaded"}
    BY <1>1, <1>2 DEF Expects
  <2>2. (server = "respond" => (outParameters => p.first = "00")) /\ (server = "loaded" => p.first \in {"ff", "00"})
    BY <1>0, <1>2, SendsKinds
  <2> QED
    BY <1>1, <2>1, <2>2
<1>4. /\ UNCHANGED <<opts, failed, asked>> /\ server' = (IF p.skips THEN AfterColumns ELSE "column") /\ left' = Columns
      /\ sent' = Append(sent, Set(<<>>)) /\ outParameters' = FALSE
  BY <1>0, <1>1, <1>3, SendDoes
<1>5. /\ columns' = IF p.skips THEN Columns ELSE 0
      /\ handler' = IF p.skips THEN AfterColumns ELSE "column"
      /\ UNCHANGED <<promise, complaint>> \/ (Reject /\ complaint' = TRUE)
  BY DEF ReadResultSet, HandleSkippedMeta, SetParser
<1>6. AfterColumns \in {"row", "eof"} /\ (opts.eofDeprecated => AfterColumns = "row") /\ p.skips \in BOOLEAN
  BY <1>2 DEF AfterColumns, Packets
<1>7. /\ sent' \in Seq(Items) /\ Len(sent') = Len(sent) + 1 /\ Len(sent) \in Nat
      /\ sent'[Len(sent) + 1].kind = "set" /\ (\A r \in 1..Len(sent) : sent'[r] = sent[r])
      /\ rows' \in Seq(Items) /\ Len(rows') = Len(rows) + 1
  BY <1>0, <1>1, <1>4, ResultMore, ResultKinds
<1>8. handler' \in {"column", "row", "eof"} /\ handler' = server'
  BY <1>4, <1>5, <1>6
<1>9. Settled' /\ promise' \in {"pending", "resolved", "rejected"} /\ complaint' \in BOOLEAN
  BY <1>1, <1>2, <1>4, <1>5, <1>8, StillSettled
<1>10. ServerType'
  <2>1. left' \in Nat
    BY <1>4 DEF Columns
  <2> QED
    BY <1>0, <1>4, <1>7, <1>8, <2>1 DEF ServerType
<1>11. CommandType'
  <2>1. columns' \in Nat
    BY <1>5 DEF Columns
  <2> QED
    BY <1>0, <1>1, <1>7, <1>8, <1>9, <2>1 DEF CommandType
<1>12. Together'
  BY <1>0, <1>1, <1>2, <1>3, <1>4, <1>6, <1>8 DEF Together, Expects, ServerType, CommandType
<1>13. Files'
  BY <1>0, <1>1, <1>2, <1>4 DEF Files
<1>14. Len(rows) = Len(sent) /\ responseIndex = Len(sent) /\ (~opts.stream => rows = sent)
  BY <1>0, <1>1, <1>2 DEF Kept, Got, Reading
<1>15. Reading'
  <2>1. sent' # <<>>
    BY <1>7
  <2> QED
    BY <1>1, <1>2, <1>4, <1>5, <1>6, <1>7, <1>8, <1>14, <2>1 DEF Reading, InSet, Columns
<1>16. Kept'
  BY <1>1, <1>2, <1>4, <1>7, <1>14 DEF Kept, Got
<1>17. MetaRight'
  BY <1>1, <1>4, <1>7, <1>14, MetaStays
<1>18. Streams'
  BY <1>0, <1>1, <1>4, StreamsSet
<1> QED
  BY <1>9, <1>10, <1>11, <1>12, <1>13, <1>15, <1>16, <1>17, <1>18 DEF Sound

\* ReadColumn.
LEMMA ReadColumnSound ==
  ASSUME Sound, NEW p, ReadColumn(p)
  PROVE  Sound'
<1>0. ServerType /\ CommandType /\ Together /\ Files /\ Reading /\ Kept /\ MetaRight /\ Settled /\ Streams
  BY DEF Sound
<1>1. /\ handler = "column" /\ Send(p) /\ columns' = columns + 1
      /\ UNCHANGED <<responseIndex, rows, meta, isOutParameter, ends, moreResults, redirecting, file, empties, pushed, closed>>
  BY DEF ReadColumn, redirectVars, fileVars, streamVars
<1>2. /\ redirecting = "no" /\ promise # "resolved" /\ file # "reading" /\ ends = 0 /\ isOutParameter = outParameters
      /\ server \in {"respond", "loaded", "column", "eof", "row"} /\ handler = Expects(server) /\ ~failed
  BY <1>1, Receiving
<1>3. server = "column"
  BY <1>1, <1>2 DEF Expects
<1>4. /\ UNCHANGED <<opts, outParameters, sent, failed, asked>> /\ left' = left - 1
      /\ server' = (IF left > 1 THEN "column" ELSE AfterColumns)
  BY <1>0, <1>1, <1>3, SendDoes
<1>5. left + columns = Columns /\ left > 0 /\ left \in Nat /\ columns \in Nat /\ Columns = 2
  BY <1>0, <1>3 DEF Reading, ServerType, CommandType, Columns
<1>6. AfterColumns \in {"row", "eof"} /\ (opts.eofDeprecated => AfterColumns = "row")
  BY DEF AfterColumns
<1>7. handler' = server' /\ (server' = "column" => left' > 0) /\ (server' # "column" => columns' = Columns)
  <2>1. CASE columns' = Columns
    <3>1. handler' = AfterColumns /\ ~(left > 1)
      BY <1>1, <1>5, <2>1 DEF ReadColumn
    <3> QED
      BY <1>4, <1>6, <2>1, <3>1
  <2>2. CASE columns' # Columns
    <3>1. handler' = "column" /\ left > 1
      BY <1>1, <1>5, <2>2 DEF ReadColumn
    <3> QED
      BY <1>4, <1>5, <3>1
  <2> QED
    BY <2>1, <2>2
<1>8. server' \in {"column", "row", "eof"}
  BY <1>4, <1>6
<1>9. UNCHANGED <<promise, complaint>> \/ (Reject /\ complaint' = TRUE)
  BY DEF ReadColumn, SetParser
<1>10. Settled' /\ promise' \in {"pending", "resolved", "rejected"} /\ complaint' \in BOOLEAN
  BY <1>1, <1>2, <1>4, <1>7, <1>8, <1>9, StillSettled
<1>11. ServerType'
  BY <1>0, <1>4, <1>5, <1>8 DEF ServerType
<1>12. CommandType'
  BY <1>0, <1>1, <1>7, <1>8, <1>10 DEF CommandType
<1>13. Together'
  BY <1>0, <1>1, <1>2, <1>4, <1>6, <1>7, <1>8 DEF Together, Expects
<1>14. Files'
  BY <1>0, <1>1, <1>2, <1>4, <1>8 DEF Files
<1>15. Reading'
  BY <1>0, <1>1, <1>2, <1>4, <1>5, <1>7, <1>8 DEF Reading, InSet
<1>16. Kept'
  BY <1>0, <1>1, <1>2, <1>4 DEF Kept, Got
<1>17. MetaRight'
  <2>1. responseIndex <= Len(sent')
    BY <1>0, <1>1, <1>2, <1>4 DEF Reading, InSet, Kept, Got, CommandType, ServerType
  <2> QED
    BY <1>1, <1>4, <2>1, MetaStays
<1>18. Streams'
  BY <1>0, <1>1, <1>4, StreamedIs DEF Streams
<1> QED
  BY <1>10, <1>11, <1>12, <1>13, <1>14, <1>15, <1>16, <1>17, <1>18 DEF Sound

\* ReadIntermediateEOF.
LEMMA ReadIntermediateEOFSound ==
  ASSUME Sound, NEW p, ReadIntermediateEOF(p)
  PROVE  Sound'
<1>0. ServerType /\ CommandType /\ Together /\ Files /\ Reading /\ Kept /\ MetaRight /\ Settled /\ Streams
  BY DEF Sound
<1>1. /\ handler = "eof" /\ Send(p) /\ isOutParameter' = p.out /\ moreResults' = p.more /\ handler' = "row"
      /\ UNCHANGED <<responseIndex, rows, meta, columns, promise, ends, complaint, redirecting, file, empties, pushed, closed>>
  BY DEF ReadIntermediateEOF, redirectVars, fileVars, streamVars, promiseVars
<1>2. /\ redirecting = "no" /\ promise # "resolved" /\ file # "reading" /\ ends = 0 /\ p \in Packets
      /\ server \in {"respond", "loaded", "column", "eof", "row"} /\ handler = Expects(server) /\ ~failed
  BY <1>1, Receiving
<1>3. server = "eof" /\ p.out \in BOOLEAN /\ p.more \in BOOLEAN /\ ~opts.eofDeprecated
  BY <1>0, <1>1, <1>2 DEF Expects, Packets, Together
<1>4. server' = "row" /\ outParameters' = p.out /\ UNCHANGED <<opts, left, sent, failed, asked>>
  BY <1>0, <1>1, <1>3, SendDoes
<1>5. ServerType'
  BY <1>0, <1>3, <1>4 DEF ServerType
<1>6. CommandType'
  BY <1>0, <1>1, <1>3 DEF CommandType
<1>7. Together'
  BY <1>0, <1>1, <1>2, <1>3, <1>4 DEF Together, Expects
<1>8. Files'
  BY <1>0, <1>1, <1>2, <1>4 DEF Files
<1>9. Reading'
  BY <1>0, <1>1, <1>2, <1>4 DEF Reading, InSet
<1>10. Kept'
  BY <1>0, <1>1, <1>2, <1>4 DEF Kept, Got
<1>11. MetaRight'
  <2>1. responseIndex <= Len(sent')
    BY <1>0, <1>1, <1>2, <1>4 DEF Reading, InSet, Kept, Got, CommandType, ServerType
  <2> QED
    BY <1>1, <1>4, <2>1, MetaStays
<1>12. Settled'
  BY <1>0, <1>1, <1>2, <1>4 DEF Settled
<1>13. Streams'
  BY <1>0, <1>1, <1>4, StreamedIs DEF Streams
<1> QED
  BY <1>5, <1>6, <1>7, <1>8, <1>9, <1>10, <1>11, <1>12, <1>13 DEF Sound

-----------------------------------------------------------------------------
(***************************************************************************)
(* Rows, and the end of a set.                                             *)
(***************************************************************************)
\* ReadRow.
LEMMA ReadRowSound ==
  ASSUME Sound, NEW p, ReadRow(p)
  PROVE  Sound'
<1>0. ServerType /\ CommandType /\ Together /\ Files /\ Reading /\ Kept /\ MetaRight /\ Settled /\ Streams
  BY DEF Sound
<1>1. /\ handler = "row" /\ p.first # "ff" /\ ~IsEnd(p) /\ Send(p) /\ pushed' = Pushed(RowId)
      /\ rows' = IF opts.stream THEN rows ELSE [rows EXCEPT ![responseIndex + 1] = Set(Append(@.rows, RowId))]
      /\ UNCHANGED <<handler, responseIndex, meta, columns, isOutParameter, ends, moreResults, redirecting, file, empties, closed>>
      /\ UNCHANGED <<promise, complaint>> \/ (Reject /\ complaint' = TRUE)
  BY DEF ReadRow, HandleNewRows, ParseRow, redirectVars, fileVars
<1>2. /\ redirecting = "no" /\ promise # "resolved" /\ file # "reading" /\ ends = 0 /\ isOutParameter = outParameters
      /\ server \in {"respond", "loaded", "column", "eof", "row"} /\ handler = Expects(server) /\ ~failed
  BY <1>1, Receiving
<1>3. server = "row"
  BY <1>1, <1>2 DEF Expects
<1>4. server' = "row" /\ sent' = Grown /\ UNCHANGED <<opts, left, outParameters, failed, asked>>
  BY <1>0, <1>1, <1>3, SendDoes
<1>5. /\ sent # <<>> /\ sent[Len(sent)].kind = "set" /\ Len(rows) = responseIndex + 1 /\ columns = Columns
      /\ Len(rows) = Len(sent) /\ (~opts.stream => rows = sent)
  BY <1>0, <1>1, <1>2 DEF Reading, InSet, Kept, Got
<1>6. PICK front \in Seq(Items), rs \in Seq(RowIds) :
        /\ Len(sent) = Len(front) + 1 /\ sent = Append(front, Set(rs)) /\ RowId \in RowIds
        /\ Grown = Append(front, Set(Append(rs, RowId))) /\ Append(rs, RowId) \in Seq(RowIds)
  BY <1>0, <1>5, GrownIs
<1>7. PICK x \in Items : x = Set(Append(rs, RowId)) /\ x.kind = "set"
  <2>1. \A s \in Seq(RowIds) : Set(s) \in Items /\ Set(s).kind = "set"
    BY DEF Set, Items
  <2> QED
    BY <1>6, <2>1
<1>8. PICK y \in Items : y = Set(rs)
  BY DEF Set, Items
<1>9. /\ sent' \in Seq(Items) /\ Len(sent') = Len(sent) /\ sent' # <<>> /\ Len(sent) \in Nat
      /\ sent'[Len(sent)].kind = "set" /\ \A r \in 1..(Len(sent) - 1) : sent'[r] = sent[r]
  <2>1. sent' = Append(front, x) /\ sent = Append(front, y) /\ Len(sent) = Len(front) + 1
    BY <1>4, <1>6, <1>7, <1>8
  <2> HIDE DEF Items
  <2> QED
    BY <1>7, <2>1
<1>10. ~opts.stream => rows' = sent'
  <2> SUFFICES ASSUME ~opts.stream PROVE rows' = sent'
    OBVIOUS
  <2>1. rows = sent /\ responseIndex + 1 = Len(sent)
    BY <1>5
  <2>2. rows' = [sent EXCEPT ![Len(sent)] = Set(Append(@.rows, RowId))]
    BY <1>1, <2>1
  <2> QED
    BY <1>4, <2>2 DEF Grown
<1>11. rows' \in Seq(Items) /\ Len(rows') = Len(sent')
  <2>1. CASE opts.stream
    BY <1>0, <1>1, <1>5, <1>9, <2>1 DEF CommandType
  <2>2. CASE ~opts.stream
    BY <1>9, <1>10, <2>2
  <2> QED
    BY <2>1, <2>2
<1>12. Streams' /\ pushed' \in Seq(RowIds)
  BY <1>0, <1>1, <1>4, <1>5, StreamsRow
<1>13. Settled' /\ promise' \in {"pending", "resolved", "rejected"} /\ complaint' \in BOOLEAN
  BY <1>1, <1>2, <1>4, StillSettled
<1>14. ServerType'
  BY <1>0, <1>3, <1>4, <1>9 DEF ServerType
<1>15. CommandType'
  BY <1>0, <1>1, <1>11, <1>12, <1>13 DEF CommandType
<1>16. Together'
  BY <1>0, <1>1, <1>2, <1>3, <1>4 DEF Together, Expects
<1>17. Files'
  BY <1>0, <1>1, <1>2, <1>3, <1>4 DEF Files
<1>18. Reading'
  BY <1>1, <1>2, <1>4, <1>5, <1>9, <1>11 DEF Reading, InSet
<1>19. Kept'
  BY <1>1, <1>2, <1>4, <1>10, <1>11 DEF Kept, Got
<1>20. MetaRight'
  <2>1. responseIndex = Len(sent) - 1
    BY <1>0, <1>5, <1>9 DEF CommandType
  <2>2. responseIndex <= Len(sent') /\ \A r \in 1..responseIndex : sent'[r] = sent[r]
    BY <1>9, <2>1
  <2> QED
    BY <1>1, <1>4, <2>2, MetaStays
<1> QED
  BY <1>12, <1>13, <1>14, <1>15, <1>16, <1>17, <1>18, <1>19, <1>20 DEF Sound

\* At the end of a set the command goes on to the next result, or is over.
LEMMA SetEnds ==
  ASSUME Sound, handler = "row", columns = Columns, promise # "resolved", ~failed, redirecting' = "no",
         sent # <<>>, sent[Len(sent)].kind = "set",
         Len(rows) = responseIndex + 1, Len(rows) = Len(sent), opts.stream \/ rows = sent,
         NEW continues \in BOOLEAN, moreResults' = continues, ResultSetEndingPacketResult(continues),
         server' = (IF continues \/ isOutParameter THEN "respond" ELSE "over"),
         continues \/ isOutParameter => isOutParameter = outParameters,
         file # "reading",
         UNCHANGED <<opts, left, outParameters, sent, failed, asked, isOutParameter, complaint, file, empties, pushed, closed>>
  PROVE  Sound'
<1>0. ServerType /\ CommandType /\ Together /\ Files /\ Reading /\ Kept /\ MetaRight /\ Settled /\ Streams
  BY DEF Sound
<1>1. ServerType'
  BY <1>0 DEF ServerType
<1>2. Files'
  BY <1>0 DEF Files
<1>3. Streams'
  BY <1>0, StreamedIs DEF Streams
<1>4. PICK n : n = responseIndex + 1
  OBVIOUS
<1>5. ColumnsOf(n)' = Columns /\ Columns \in Nat
  BY <1>4 DEF ColumnsOf, Columns
<1>6. PICK m : m = MetaWith(responseIndex, Columns)
  OBVIOUS
<1>7. opts.metaAsArray =>
        /\ m \in Seq(Nat) /\ Len(m) = responseIndex + 1
        /\ \A r \in 1..(responseIndex + 1) : r \in DOMAIN m /\ m[r] = ColumnsOf(r)'
  <2> SUFFICES ASSUME opts.metaAsArray
               PROVE  /\ m \in Seq(Nat) /\ Len(m) = responseIndex + 1
                      /\ \A r \in 1..(responseIndex + 1) : r \in DOMAIN m /\ m[r] = ColumnsOf(r)'
    OBVIOUS
  <2>1. PICK k \in Nat : k = Columns
    BY <1>5
  <2>2. k = ColumnsOf(n)' /\ responseIndex + 1 <= Len(sent') /\ handler # "none" /\ m = MetaWith(responseIndex, k)
    BY <1>0, <1>5, <1>6, <2>1 DEF CommandType
  <2> HIDE DEF Columns
  <2> QED
    BY <1>0, <1>4, <2>2, MetaFilled
<1>8. CASE continues \/ isOutParameter
  <2>1. /\ responseIndex' = responseIndex + 1 /\ handler' = "respond" /\ server' = "respond"
        /\ meta' = (IF opts.metaAsArray THEN m ELSE meta) /\ UNCHANGED <<rows, columns, promise, ends>>
    <3>1. /\ responseIndex' = responseIndex + 1 /\ handler' = "respond"
          /\ meta' = (IF opts.metaAsArray THEN MetaWith(responseIndex, columns) ELSE meta)
          /\ UNCHANGED <<rows, columns, promise, ends>>
      BY <1>8 DEF ResultSetEndingPacketResult, promiseVars
    <3> QED
      BY <1>6, <1>8, <3>1
  <2>2. CommandType'
    <3>1. meta' \in Seq(Nat) /\ responseIndex' \in Nat
      BY <1>0, <1>7, <2>1 DEF CommandType
    <3> QED
      BY <1>0, <2>1, <3>1 DEF CommandType
  <2>3. Together'
    BY <1>0, <1>8, <2>1 DEF Together, Expects
  <2>4. Reading'
    BY <1>0, <2>1 DEF Reading, InSet
  <2>5. Kept'
    BY <1>0, <2>1 DEF Kept, Got
  <2>6. MetaRight'
    <3> SUFFICES ASSUME opts.metaAsArray
                 PROVE  /\ Len(meta') <= responseIndex' /\ responseIndex' <= Len(sent')
                        /\ \A r \in 1..responseIndex' :
                             /\ sent'[r].kind = "set" => r <= Len(meta')
                             /\ r <= Len(meta') => meta'[r] = ColumnsOf(r)'
      BY DEF MetaRight
    <3>1. meta' = m /\ Len(meta') = responseIndex' /\ responseIndex' = responseIndex + 1 /\ responseIndex' = Len(sent') /\ responseIndex' \in Nat
      BY <1>0, <1>7, <2>1 DEF CommandType
    <3>2. \A r \in 1..responseIndex' : meta'[r] = ColumnsOf(r)' /\ r <= Len(meta')
      BY <1>7, <3>1
    <3> QED
      BY <3>1, <3>2
  <2>7. Settled'
    BY <1>0, <2>1 DEF Settled
  <2> QED
    BY <1>1, <1>2, <1>3, <2>2, <2>3, <2>4, <2>5, <2>6, <2>7 DEF Sound
<1>9. CASE ~continues /\ ~isOutParameter
  <2>1. /\ handler' = "none" /\ ends' = ends + 1 /\ columns' = NoColumns /\ rows' = <<>> /\ UNCHANGED <<responseIndex, meta>>
        /\ Resolve([results |-> rows, meta |-> MetaWith(responseIndex, columns)])
    BY <1>9 DEF ResultSetEndingPacketResult, Success, SuccessEnd
  <2>2. IF promise = "pending" THEN promise' = "resolved" /\ value' = [results |-> rows, meta |-> m] ELSE UNCHANGED promise
    BY <1>6, <2>1 DEF Resolve
  <2>3. /\ handler # "none" /\ server' = "over" /\ ~failed' /\ moreResults' \in BOOLEAN /\ meta' \in Seq(Nat)
        /\ pushed' \in Seq(RowIds) /\ (opts.eofDeprecated => ~outParameters')
    BY <1>0, <1>9, <2>1 DEF CommandType, Together
  <2>4. PICK results : results = rows
    OBVIOUS
  <2>5. Len(results) = Len(sent') /\ (opts.stream \/ results = sent') /\ Len(sent') = responseIndex + 1
    BY <2>4
  <2>6. IF promise = "pending" THEN promise' = "resolved" /\ value' = [results |-> results, meta |-> m] ELSE UNCHANGED promise
    BY <2>2, <2>4
  <2>7. m = MetaWith(responseIndex, ColumnsOf(n)')
    BY <1>5, <1>6
  <2> QED
    BY <1>1, <1>2, <1>3, <1>4, <2>1, <2>3, <2>5, <2>6, <2>7, CommandOver
<1> QED
  BY <1>8, <1>9

\* ReadEnd.
LEMMA ReadEndSound ==
  ASSUME Sound, NEW p, ReadEnd(p)
  PROVE  Sound'
<1>0. ServerType /\ CommandType /\ Together /\ Files /\ Reading /\ Kept /\ MetaRight /\ Settled /\ Streams
  BY DEF Sound
<1>1. /\ handler = "row" /\ IsEnd(p) /\ Send(p) /\ moreResults' = p.more
      /\ UNCHANGED <<complaint, file, empties, pushed, closed>>
  BY DEF ReadEnd, fileVars
<1>2. /\ redirecting = "no" /\ promise # "resolved" /\ file # "reading" /\ ends = 0 /\ isOutParameter = outParameters
      /\ server \in {"respond", "loaded", "column", "eof", "row"} /\ handler = Expects(server) /\ ~failed
      /\ p \in Packets /\ p \in Sends
  BY <1>1, Receiving
<1>3. server = "row" /\ p.more \in BOOLEAN
  BY <1>1, <1>2 DEF Expects, Packets
<1>4. /\ server' = (IF p.more \/ outParameters THEN "respond" ELSE "over")
      /\ UNCHANGED <<opts, left, outParameters, sent, failed, asked>>
  BY <1>0, <1>1, <1>3, SendDoes
<1>5. /\ sent # <<>> /\ sent[Len(sent)].kind = "set" /\ Len(rows) = responseIndex + 1 /\ columns = Columns
      /\ Len(rows) = Len(sent) /\ (~opts.stream => rows = sent)
  BY <1>0, <1>1, <1>2 DEF Reading, InSet, Kept, Got
<1>6. CASE ResultSetEndingPacketResult(p.more) /\ UNCHANGED <<redirecting, isOutParameter>>
  <2>1. PICK continues \in BOOLEAN : continues = p.more
    BY <1>3
  <2>2. server' = (IF continues \/ isOutParameter THEN "respond" ELSE "over")
    BY <1>2, <1>4, <2>1
  <2>3. redirecting' = "no" /\ moreResults' = continues /\ ResultSetEndingPacketResult(continues)
    BY <1>1, <1>2, <1>6, <2>1
  <2> QED
    BY <1>1, <1>2, <1>4, <1>5, <1>6, <2>2, <2>3, SetEnds
<1>7. CASE p.says = "later" /\ ~p.more /\ redirecting' = "set" /\ UNCHANGED <<parserVars, promiseVars>>
  <2>1. UNCHANGED <<handler, responseIndex, rows, meta, columns, isOutParameter, promise, value, ends>>
    BY <1>7 DEF parserVars, promiseVars
  <2>2. opts.eofDeprecated /\ ~outParameters
    <3>1. opts.eofDeprecated
      BY <1>0, <1>2, <1>7, SendsKinds
    <3> QED
      BY <1>0, <3>1 DEF Together
  <2>3. server' = "over" /\ ~moreResults'
    BY <1>1, <1>4, <1>7, <2>2
  <2>4. ServerType'
    BY <1>0, <1>4, <2>3 DEF ServerType
  <2>5. CommandType'
    BY <1>0, <1>1, <1>3, <1>7, <2>1 DEF CommandType
  <2>6. Together'
    BY <1>0, <1>1, <1>2, <1>4, <1>7, <2>1, <2>2, <2>3 DEF Together
  <2>7. Files'
    BY <1>0, <1>1, <1>2, <1>4, <2>2 DEF Files
  <2>8. Reading'
    BY <1>0, <1>1, <1>4, <1>5, <1>7, <2>1, <2>3 DEF Reading, InSet
  <2>9. Kept'
    BY <1>0, <1>4, <1>5, <1>7, <2>1 DEF Kept, Got
  <2>10. MetaRight'
    <3>1. responseIndex <= Len(sent')
      BY <1>0, <1>4, <1>5 DEF CommandType
    <3> QED
      BY <1>1, <1>4, <2>1, <3>1, MetaStays
  <2>11. Settled'
    BY <1>0, <1>1, <1>2, <1>4, <2>1 DEF Settled
  <2>12. Streams'
    BY <1>0, <1>1, <1>4, StreamedIs DEF Streams
  <2> QED
    BY <2>4, <2>5, <2>6, <2>7, <2>8, <2>9, <2>10, <2>11, <2>12 DEF Sound
<1> QED
  BY <1>6, <1>7 DEF ReadEnd

\* Redirected.
LEMMA RedirectedSound ==
  ASSUME Sound, Redirected
  PROVE  Sound'
<1>0. ServerType /\ CommandType /\ Together /\ Files /\ Reading /\ Kept /\ MetaRight /\ Settled /\ Streams
  BY DEF Sound
<1>1. /\ redirecting # "no" /\ redirecting' = "no"
      /\ UNCHANGED <<opts, server, left, outParameters, sent, failed, asked, isOutParameter, moreResults, complaint,
                     file, empties, pushed, closed>>
  BY DEF Redirected, serverVars, fileVars
<1>2. /\ redirecting \in {"ok", "set"} /\ server = "over" /\ moreResults = FALSE /\ opts.eofDeprecated
      /\ handler = (IF redirecting = "ok" THEN "respond" ELSE "row") /\ ~isOutParameter /\ ~outParameters
  BY <1>0, <1>1 DEF Together, CommandType
<1>3. ~failed /\ promise # "resolved" /\ file # "reading" /\ handler # "none"
  BY <1>0, <1>2 DEF Together, Settled, Files
<1>4. CASE redirecting = "set"
  <2>1. ResultSetEndingPacketResult(FALSE)
    BY <1>2, <1>4 DEF Redirected
  <2>2. handler = "row" /\ columns = Columns /\ Len(rows) = responseIndex + 1 /\ sent # <<>> /\ sent[Len(sent)].kind = "set"
        /\ Len(rows) = Len(sent) /\ (opts.stream \/ rows = sent)
    BY <1>0, <1>2, <1>4 DEF Reading, InSet, Kept, Got
  <2>3. server' = (IF FALSE \/ isOutParameter THEN "respond" ELSE "over") /\ moreResults' = FALSE
    BY <1>1, <1>2
  <2>4. (FALSE \/ isOutParameter) => isOutParameter = outParameters
    BY <1>2
  <2>5. PICK continues \in BOOLEAN : continues = FALSE
    OBVIOUS
  <2>6. /\ server' = (IF continues \/ isOutParameter THEN "respond" ELSE "over") /\ moreResults' = continues
        /\ ResultSetEndingPacketResult(continues) /\ (continues \/ isOutParameter => isOutParameter = outParameters)
    BY <2>1, <2>3, <2>4, <2>5
  <2> QED
    BY <1>1, <1>3, <2>2, <2>6, SetEnds
<1>5. CASE redirecting = "ok"
  <2>1. OkPacketSuccess(Ok, FALSE)
    BY <1>2, <1>5 DEF Redirected
  <2>2. PICK m : m = IF responseIndex > 0 /\ opts.metaAsArray THEN MetaWith(responseIndex, NoColumns) ELSE meta
    OBVIOUS
  <2>3. /\ meta' = m /\ Resolve([results |-> Append(rows, Ok), meta |-> meta']) /\ handler' = "none" /\ ends' = ends + 1
        /\ columns' = NoColumns /\ rows' = <<>> /\ UNCHANGED responseIndex
    BY <2>1, <2>2 DEF OkPacketSuccess, Success, SuccessEnd
  <2>4. PICK results : results = Append(rows, Ok)
    OBVIOUS
  <2>5. IF promise = "pending" THEN promise' = "resolved" /\ value' = [results |-> results, meta |-> m] ELSE UNCHANGED promise
    BY <2>3, <2>4 DEF Resolve
  <2>6. /\ Len(results) = Len(rows) + 1 /\ Len(rows) = responseIndex /\ Len(results) = Len(sent')
        /\ (opts.stream \/ results = sent') /\ sent'[Len(sent')].kind = "ok"
    <3>1. Len(Append(rows, Ok)) = Len(rows) + 1
      BY <1>0, ResultMore, ResultKinds
    <3> QED
      BY <1>0, <1>1, <1>2, <1>5, <2>4, <3>1 DEF Kept, Got, Reading
  <2>7. PICK n : n = responseIndex + 1
    OBVIOUS
  <2>8. NoColumns = ColumnsOf(n)' /\ NoColumns \in Nat
    BY <2>6, <2>7 DEF ColumnsOf, NoColumns
  <2>9. opts.metaAsArray /\ responseIndex > 0 => m = MetaWith(responseIndex, ColumnsOf(n)')
    BY <2>2, <2>8
  <2>10. m \in Seq(Nat)
    <3>1. CASE responseIndex > 0 /\ opts.metaAsArray
      <4>1. m = MetaWith(responseIndex, NoColumns) /\ responseIndex + 1 <= Len(sent') /\ opts.metaAsArray
        BY <1>0, <2>2, <2>6, <3>1 DEF CommandType
      <4> QED
        BY <1>0, <1>1, <1>3, <2>7, <2>8, <4>1, MetaFilled
    <3>2. CASE ~(responseIndex > 0 /\ opts.metaAsArray)
      <4>1. m = meta
        BY <2>2, <3>2
      <4> QED
        BY <1>0, <4>1 DEF CommandType
    <3> QED
      BY <3>1, <3>2
  <2>11. ServerType' /\ Files' /\ Streams' /\ pushed' \in Seq(RowIds)
    <3>1. ServerType' /\ Files'
      BY <1>0, <1>1 DEF ServerType, Files
    <3>2. Streams' /\ pushed' \in Seq(RowIds)
      BY <1>0, <1>1, StreamedIs DEF Streams, CommandType
    <3> QED
      BY <3>1, <3>2
  <2>12. server' = "over" /\ ~failed' /\ (opts.eofDeprecated => ~outParameters') /\ moreResults' \in BOOLEAN /\ sent' = sent
         /\ Len(sent') = responseIndex + 1 /\ meta' \in Seq(Nat)
    BY <1>1, <1>2, <1>3, <2>3, <2>6, <2>10
  <2> QED
    BY <1>1, <1>3, <2>3, <2>5, <2>6, <2>7, <2>9, <2>11, <2>12, CommandOver
<1> QED
  BY <1>2, <1>4, <1>5

-----------------------------------------------------------------------------
(***************************************************************************)
(* Files, and who reads a stream.                                          *)
(***************************************************************************)
\* What is read of the answer stays, and the server does too or gets on with a file.
LEMMA NothingRead ==
  ASSUME Sound, UNCHANGED <<opts, outParameters, sent, failed, handler, responseIndex, rows, meta, columns, isOutParameter,
                            ends, moreResults, redirecting, value>>,
         Expects(server') = Expects(server), server' # "over" <=> server # "over",
         server' = "eof" <=> server = "eof", server' = "column" => server = "column", UNCHANGED left
  PROVE  Together' /\ Reading' /\ Kept' /\ MetaRight' /\ Streamed' = Streamed
<1>0. Together /\ Reading /\ Kept /\ MetaRight
  BY DEF Sound
<1>1. Together'
  BY <1>0 DEF Together
<1>2. Reading'
  BY <1>0 DEF Reading, InSet
<1>3. Kept'
  BY <1>0 DEF Kept, Got
<1>4. MetaRight'
  BY <1>0 DEF MetaRight, ColumnsOf
<1>5. Streamed' = Streamed
  BY StreamedIs
<1> QED
  BY <1>1, <1>2, <1>3, <1>4, <1>5

\* ReadLocalInfile.
LEMMA ReadLocalInfileSound ==
  ASSUME Sound, trouble' = "none", NEW p, ReadLocalInfile(p)
  PROVE  Sound'
<1>0. ServerType /\ CommandType /\ Together /\ Files /\ Streams
  BY DEF Sound
<1>1. /\ handler = "respond" /\ p.first = "fb" /\ Send(p)
      /\ UNCHANGED <<handler, responseIndex, rows, meta, columns, isOutParameter, value, ends, moreResults, redirecting,
                     pushed, closed>>
      /\ \/ Reject /\ complaint' = TRUE /\ empties' = empties + 1 /\ UNCHANGED file
         \/ file' = "reading" /\ UNCHANGED <<promise, complaint, empties>>
  BY DEF ReadLocalInfile, Refuse, RejectUnguarded, Reject, parserVars, streamVars
<1>2. /\ promise # "resolved" /\ file # "reading" /\ handler = Expects(server) /\ p \in Sends
      /\ server \in {"respond", "loaded", "column", "eof", "row"}
  BY <1>1, Receiving
<1>3. server = "respond" /\ ~outParameters
  <2>1. server \in {"respond", "loaded"}
    BY <1>1, <1>2 DEF Expects
  <2>2. (server = "respond" => (outParameters => p.first = "00")) /\ (server = "loaded" => p.first \in {"ff", "00"})
    BY <1>0, <1>2, SendsKinds
  <2> QED
    BY <1>1, <2>1, <2>2
<1>4. server' = "file" /\ asked' = asked + 1 /\ outParameters' = outParameters /\ UNCHANGED <<opts, left, sent, failed>>
  BY <1>0, <1>1, <1>3, SendDoes DEF ServerType
<1>5. Together' /\ Reading' /\ Kept' /\ MetaRight' /\ Streamed' = Streamed
  BY <1>1, <1>3, <1>4, NothingRead DEF Expects
<1>6. Settled' /\ promise' \in {"pending", "resolved", "rejected"} /\ complaint' \in BOOLEAN
  BY <1>1, <1>2, <1>4, StillSettled
<1>7. ServerType'
  BY <1>0, <1>4 DEF ServerType
<1>8. CommandType'
  <2>1. file' \in {"none", "reading", "done"} /\ empties' \in Nat
    BY <1>0, <1>1 DEF CommandType
  <2> QED
    BY <1>0, <1>1, <1>6, <2>1 DEF CommandType
<1>9. Files'
  BY <1>0, <1>1, <1>2, <1>3, <1>4 DEF Files, ServerType, CommandType
<1>10. Streams'
  BY <1>0, <1>1, <1>4, <1>5 DEF Streams
<1> QED
  BY <1>5, <1>6, <1>7, <1>8, <1>9, <1>10 DEF Sound

\* FileEnd and FileError.
LEMMA FileClosesSound ==
  ASSUME Sound, trouble' = "none", FileCloses
  PROVE  Sound'
<1>0. ServerType /\ CommandType /\ Together /\ Files /\ Streams
  BY DEF Sound
<1>1. /\ file = "reading" /\ file' = "done" /\ empties' = empties + 1
      /\ UNCHANGED <<opts, server, left, outParameters, sent, failed, asked, handler, responseIndex, rows, meta, columns,
                     isOutParameter, value, ends, moreResults, redirecting, pushed, closed>>
      /\ UNCHANGED <<promise, complaint>> \/ (Reject /\ complaint' = TRUE)
  BY DEF FileCloses, FileEnd, FileError, RejectUnguarded, Reject, serverVars, parserVars, promiseVars, redirectVars, streamVars
<1>2. server = "file" /\ handler # "none" /\ promise # "resolved"
  <2>1. server = "file"
    BY <1>0, <1>1 DEF Files
  <2>2. handler # "none"
    BY <1>0, <2>1 DEF Together, Expects
  <2> QED
    BY <2>1, <2>2 DEF Sound, Settled
<1>3. Together' /\ Reading' /\ Kept' /\ MetaRight' /\ Streamed' = Streamed
  BY <1>1, NothingRead
<1>4. Settled' /\ promise' \in {"pending", "resolved", "rejected"} /\ complaint' \in BOOLEAN
  BY <1>1, <1>2, StillSettled
<1>5. ServerType' /\ Streams'
  BY <1>0, <1>1, <1>3 DEF ServerType, Streams
<1>6. CommandType'
  BY <1>0, <1>1, <1>4 DEF CommandType
<1>7. Files'
  BY <1>0, <1>1 DEF Files, ServerType
<1> QED
  BY <1>3, <1>4, <1>5, <1>6, <1>7 DEF Sound

\* ServerHasFile.
LEMMA ServerHasFileSound ==
  ASSUME Sound, ServerHasFile
  PROVE  Sound'
<1>0. ServerType /\ CommandType /\ Together /\ Files /\ Streams /\ Settled
  BY DEF Sound
<1>1. /\ server = "file" /\ empties = asked /\ server' = "loaded"
      /\ UNCHANGED <<opts, left, outParameters, sent, failed, asked, handler, responseIndex, rows, meta, columns,
                     isOutParameter, promise, value, ends, moreResults, complaint, redirecting, file, empties, pushed, closed>>
  BY DEF ServerHasFile, parserVars, promiseVars, redirectVars, fileVars, streamVars
<1>2. Together' /\ Reading' /\ Kept' /\ MetaRight' /\ Streamed' = Streamed
  BY <1>1, NothingRead DEF Expects
<1>3. ServerType' /\ CommandType' /\ Streams' /\ Settled'
  <2>1. ServerType'
    BY <1>0, <1>1 DEF ServerType
  <2>2. CommandType'
    BY <1>0, <1>1 DEF CommandType
  <2>3. Streams'
    BY <1>0, <1>1, <1>2 DEF Streams
  <2>4. Settled'
    BY <1>0, <1>1 DEF Settled, ColumnsOf
  <2> QED
    BY <2>1, <2>2, <2>3, <2>4
<1>4. Files'
  BY <1>0, <1>1 DEF Files, ServerType
<1> QED
  BY <1>2, <1>3, <1>4 DEF Sound

\* Consume and CloseStream, and steps that change nothing.
LEMMA StreamReaderSound ==
  ASSUME Sound, \/ Consume \/ CloseStream \/ UNCHANGED vars
  PROVE  Sound' /\ UNCHANGED trouble
<1>0. ServerType /\ CommandType /\ Together /\ Files /\ Streams /\ Settled
  BY DEF Sound
<1>1. /\ UNCHANGED <<opts, server, left, outParameters, sent, failed, asked, handler, responseIndex, rows, meta, columns,
                     isOutParameter, promise, value, ends, moreResults, complaint, redirecting, file, empties, pushed>>
      /\ UNCHANGED trouble /\ closed' \in {closed, TRUE}
  <2>1. CASE Consume
    BY <2>1 DEF Consume, serverVars, parserVars, promiseVars, redirectVars, fileVars
  <2>2. CASE CloseStream
    BY <2>2 DEF CloseStream, serverVars, parserVars, promiseVars, redirectVars, fileVars
  <2>3. CASE UNCHANGED vars
    BY <2>3 DEF vars, serverVars, parserVars, promiseVars, redirectVars, fileVars, streamVars
  <2> QED
    BY <2>1, <2>2, <2>3
<1>2. Together' /\ Reading' /\ Kept' /\ MetaRight' /\ Streamed' = Streamed
  BY <1>1, NothingRead
<1>3. ServerType' /\ Files'
  BY <1>0, <1>1 DEF ServerType, Files
<1>4. CommandType'
  BY <1>0, <1>1 DEF CommandType
<1>5. Streams'
  BY <1>0, <1>1, <1>2 DEF Streams
<1>6. Settled'
  BY <1>0, <1>1 DEF Settled, ColumnsOf
<1> QED
  BY <1>1, <1>2, <1>3, <1>4, <1>5, <1>6 DEF Sound

-----------------------------------------------------------------------------
(***************************************************************************)
(* The invariant, and what it is for.                                      *)
(***************************************************************************)
\* The command starts in step with the server.
LEMMA ResultsInit == Init => ResultsInv
<1> SUFFICES ASSUME Init PROVE Sound
  BY DEF ResultsInv
<1>0. /\ opts \in Options /\ server = "respond" /\ left = 0 /\ outParameters = FALSE /\ sent = <<>> /\ failed = FALSE /\ asked = 0
      /\ handler = "respond" /\ responseIndex = 0 /\ rows = <<>> /\ meta = <<>> /\ columns = 0 /\ isOutParameter = FALSE
      /\ promise = "pending" /\ ends = 0 /\ moreResults = FALSE /\ complaint = FALSE /\ redirecting = "no"
      /\ file = "none" /\ empties = 0 /\ pushed = <<>> /\ closed = FALSE
  BY DEF Init, NoColumns
<1>1. <<>> \in Seq(Items) /\ <<>> \in Seq(Nat) /\ <<>> \in Seq(RowIds)
  OBVIOUS
<1>2. ServerType
  BY <1>0, <1>1 DEF ServerType
<1>3. CommandType
  BY <1>0, <1>1 DEF CommandType
<1>4. Together /\ Files /\ Reading /\ Kept /\ MetaRight /\ Settled
  <2>1. Together /\ Files /\ Settled
    BY <1>0 DEF Together, Expects, Files, Settled
  <2>2. Len(rows) = 0 /\ Len(meta) = 0 /\ Len(sent) = 0
    BY <1>0
  <2>3. Reading /\ Kept
    BY <1>0, <2>2 DEF Reading, InSet, Kept, Got
  <2>4. MetaRight
    BY <1>0, <2>2 DEF MetaRight
  <2> QED
    BY <2>1, <2>3, <2>4
<1>5. Streams
  <2>1. Pieces(sent) = <<>>
    BY <1>0 DEF Pieces
  <2> QED
    BY <1>0, <2>1, StreamedIs, FlattenNone DEF Streams
<1> QED
  BY <1>2, <1>3, <1>4, <1>5 DEF Sound

\* Trouble does not go away.
LEMMA TroubleStays ==
  ASSUME Next, trouble' = "none"
  PROVE  trouble = "none"
<1>1. ASSUME NEW p, ReadOKPacket(p) PROVE trouble = "none"
  <2>1. CASE p.says = "redirect"
    BY <1>1, <2>1 DEF ReadOKPacket
  <2>2. CASE p.says = "charset"
    BY <1>1, <2>2 DEF ReadOKPacket
  <2>3. CASE p.says = "insertId"
    BY <1>1, <2>3 DEF ReadOKPacket, redirectVars
  <2>4. CASE p.says = "later" /\ ~p.more
    BY <1>1, <2>4 DEF ReadOKPacket
  <2>5. CASE p.says # "redirect" /\ p.says # "charset" /\ p.says # "insertId" /\ ~(p.says = "later" /\ ~p.more)
    BY <1>1, <2>5 DEF ReadOKPacket, redirectVars
  <2> QED
    BY <2>1, <2>2, <2>3, <2>4, <2>5
<1>2. ASSUME Receive PROVE trouble = "none"
  <2>1. PICK p \in Sends : \/ ReadOKPacket(p) \/ HandleErrorPacket(p) \/ ReadResultSet(p) \/ ReadLocalInfile(p)
                           \/ ReadColumn(p) \/ ReadIntermediateEOF(p) \/ ReadRow(p) \/ ReadEnd(p)
    BY <1>2 DEF Receive
  <2>2. CASE ReadOKPacket(p)
    BY <1>1, <2>2
  <2>3. CASE HandleErrorPacket(p)
    BY <2>3 DEF HandleErrorPacket, redirectVars
  <2>4. CASE ReadResultSet(p)
    BY <2>4 DEF ReadResultSet, redirectVars
  <2>5. CASE ReadLocalInfile(p)
    BY <2>5 DEF ReadLocalInfile, Refuse, RejectUnguarded
  <2>6. CASE ReadColumn(p)
    BY <2>6 DEF ReadColumn, redirectVars
  <2>7. CASE ReadIntermediateEOF(p)
    BY <2>7 DEF ReadIntermediateEOF, redirectVars
  <2>8. CASE ReadRow(p)
    BY <2>8 DEF ReadRow, redirectVars
  <2>9. CASE ReadEnd(p)
    BY <2>9 DEF ReadEnd
  <2> QED
    BY <2>1, <2>2, <2>3, <2>4, <2>5, <2>6, <2>7, <2>8, <2>9
<1>3. CASE Redirected
  BY <1>3 DEF Redirected
<1>4. CASE FileCloses
  BY <1>4 DEF FileCloses, FileEnd, FileError, RejectUnguarded, redirectVars
<1>5. CASE ServerHasFile
  BY <1>5 DEF ServerHasFile, redirectVars
<1>6. CASE Consume \/ CloseStream
  BY <1>6 DEF Consume, CloseStream, redirectVars
<1> QED
  BY <1>2, <1>3, <1>4, <1>5, <1>6 DEF Next

\* Every step keeps them in step, or is the trouble.
LEMMA ResultsStep == ResultsInv /\ [Next]_vars => ResultsInv'
<1> SUFFICES ASSUME ResultsInv, [Next]_vars, trouble' = "none" PROVE Sound'
  BY DEF ResultsInv
<1>1. trouble = "none"
  <2>1. CASE Next
    BY <2>1, TroubleStays
  <2>2. CASE UNCHANGED vars
    BY <2>2 DEF vars, redirectVars
  <2> QED
    BY <2>1, <2>2
<1>2. Sound
  BY <1>1 DEF ResultsInv
<1>3. CASE Receive
  <2>1. PICK p \in Sends : \/ ReadOKPacket(p) \/ HandleErrorPacket(p) \/ ReadResultSet(p) \/ ReadLocalInfile(p)
                           \/ ReadColumn(p) \/ ReadIntermediateEOF(p) \/ ReadRow(p) \/ ReadEnd(p)
    BY <1>3 DEF Receive
  <2> QED
    BY <1>2, <2>1, ReadOKPacketSound, HandleErrorPacketSound, ReadResultSetSound, ReadLocalInfileSound,
       ReadColumnSound, ReadIntermediateEOFSound, ReadRowSound, ReadEndSound
<1>4. CASE Redirected
  BY <1>2, <1>4, RedirectedSound
<1>5. CASE FileCloses
  BY <1>2, <1>5, FileClosesSound
<1>6. CASE ServerHasFile
  BY <1>2, <1>6, ServerHasFileSound
<1>7. CASE Consume \/ CloseStream \/ UNCHANGED vars
  BY <1>2, <1>7, StreamReaderSound
<1> QED
  BY <1>3, <1>4, <1>5, <1>6, <1>7 DEF Next

\* The invariant holds in every state of a command, of any answer and with any options, up to a
\* redirection, a change of character set or an exception that nobody catches.
THEOREM AlwaysResults == Spec => []ResultsInv
BY ResultsInit, ResultsStep, PTL DEF Spec

\* The command reads its answer to the end and no further, and sends each file it is asked for
\* one end: readResponsePacket, readResultSetRow and the file's events agree with the server, as
\* long as a file that goes wrong behind a rejection has not ended the program.
THEOREM ResultsInStep == Spec => []InStep
<1>1. ResultsInv => InStep
  <2> SUFFICES ASSUME ResultsInv, trouble = "none"
               PROVE  /\ empties <= asked /\ (server = "file" /\ file # "reading" => empties = asked)
                      /\ handler = Expects(server) \/ (redirecting # "no" /\ server = "over")
                      /\ ends = IF handler = "none" THEN 1 ELSE 0
    BY DEF InStep, OneEmptyPacket
  <2>1. ServerType /\ CommandType /\ Together /\ Files
    BY DEF ResultsInv, Sound
  <2> QED
    BY <2>1 DEF Together, Files, ServerType, CommandType
<1> QED
  BY <1>1, AlwaysResults, PTL

\* The client gets what the server sent: every result in its place with its rows and columns, or,
\* of a stream, every row and OK packet in order; and it is settled when the command is over.
THEOREM ResultsAnswerFaithful == Spec => []AnswerFaithful
<1>1. ResultsInv => AnswerFaithful
  <2> SUFFICES ASSUME ResultsInv, trouble = "none"
               PROVE  /\ handler = "none" => promise # "pending"
                      /\ promise = "rejected" => failed \/ complaint
                      /\ promise = "resolved" =>
                           /\ server = "over" /\ ~failed /\ Len(value.results) = Len(sent)
                           /\ ~opts.stream => value.results = sent
                           /\ opts.metaAsArray /\ Len(sent) > 1 =>
                                \A r \in DOMAIN sent : r \in DOMAIN value.meta /\ value.meta[r] = IF sent[r].kind = "set" THEN Columns ELSE NoColumns
                      /\ opts.stream /\ ~closed => pushed = Streamed
    BY DEF AnswerFaithful
  <2>1. Settled /\ Together /\ Streams /\ ServerType
    BY DEF ResultsInv, Sound
  <2>2. handler = "none" => server = "over"
    BY <2>1 DEF Together, Expects, ServerType
  <2> QED
    BY <2>1, <2>2 DEF Settled, Streams, ColumnsOf
<1> QED
  BY <1>1, AlwaysResults, PTL
=============================================================================

----------------------------- MODULE PacketOutput -----------------------------
(***************************************************************************)
(* The buffer of lib/io/packet-output-stream.js: data are written behind a *)
(* header of four bytes into a buffer that grows by levels up to a full    *)
(* packet, and are sent as frames of at most MaxLen bytes.  A mark is what *)
(* a bulk command sends if what is behind it makes the packet too large.   *)
(*                                                                         *)
(* A byte is a value of any kind, and a level is a small number: MaxLen is *)
(* 0xffffff, Small 256, and Levels the ones of growBuffer().  Every write  *)
(* (writeInt8, writeLengthEncodedString...) that finds no room makes the   *)
(* buffer grow or goes through writeBuffer(), which is the one modelled.   *)
(***************************************************************************)
EXTENDS Integers, Sequences

CONSTANTS MaxLen, Small, Levels

ASSUME OutputAssumption ==
  /\ MaxLen \in Nat /\ Small \in Nat /\ Levels \in Seq(Nat)
  /\ 4 < Small /\ \A i \in DOMAIN Levels : Small < Levels[i] /\ Levels[i] < MaxLen + 4

HeaderLen == 4
MaxBuf == MaxLen + HeaderLen
NoMark == -1
Larger(a, b) == IF a < b THEN b ELSE a
Smaller(a, b) == IF a < b THEN a ELSE b

\* buf: what is behind the header; mark: how much of it is before the mark; after:
\* bufContainDataAfterMark; cmdLength: sent of the command; seq: cmd.sequenceNo.
\* torn: data that are behind a mark were sent as if they were not.
NewOutput == [buf |-> <<>>, cap |-> Small, mark |-> NoMark, after |-> FALSE, cmdLength |-> 0,
              seq |-> -1, wire |-> <<>>, torn |-> FALSE]

Pos(o) == HeaderLen + Len(o.buf)
Room(o) == o.cap - Pos(o)
IsMarked(o) == o.mark # NoMark

\* The first level that is larger, or the last resort.
LevelAbove(levels, need, otherwise) ==
  IF \E i \in DOMAIN levels : need < levels[i]
  THEN levels[CHOOSE i \in DOMAIN levels : need < levels[i] /\ \A j \in 1..(i - 1) : need >= levels[j]]
  ELSE otherwise

CreateBufferWithMinSize(remainingLen) == LevelAbove(<<Small>> \o Levels, remainingLen + HeaderLen, MaxBuf)

Frame(s, data) == [seq |-> s, data |-> data]

WriteEmptyPacket(o) == [o EXCEPT !.seq = @ + 1, !.wire = Append(@, Frame(o.seq + 1, <<>>)), !.cmdLength = 0]

FlushBuffer(o, commandEnd, remainingLen) ==
  LET sent == [o EXCEPT !.seq = @ + 1, !.wire = Append(@, Frame(o.seq + 1, o.buf)), !.cmdLength = @ + Len(o.buf)]
      ended == IF commandEnd /\ Pos(o) = MaxBuf THEN WriteEmptyPacket(sent) ELSE sent
  IN [ended EXCEPT !.buf = <<>>, !.cap = CreateBufferWithMinSize(remainingLen),
                   !.torn = @ \/ (o.after /\ ~commandEnd)]

FlushBufferStopAtMark(o) ==
  LET before == SubSeq(o.buf, 1, o.mark)
      behind == SubSeq(o.buf, o.mark + 1, Len(o.buf))
      flushed == FlushBuffer([o EXCEPT !.buf = before], TRUE, Len(behind))
  IN [flushed EXCEPT !.cmdLength = 0, !.buf = behind, !.cap = Larger(Small, Len(behind) + HeaderLen),
                     !.mark = NoMark, !.after = TRUE]

GrownCapacity(o, len) == LevelAbove(Levels, len + Pos(o), IF o.after THEN len + Pos(o) ELSE MaxBuf)

GrowBuffer(o, len) ==
  IF len + Pos(o) > GrownCapacity(o, len) /\ IsMarked(o)
  THEN LET flushed == FlushBufferStopAtMark(o)
       IN IF len <= Room(flushed) THEN flushed ELSE [flushed EXCEPT !.cap = GrownCapacity(flushed, len)]
  ELSE [o EXCEPT !.cap = GrownCapacity(o, len)]

\* Fill and flush until the data are in the buffer.
RECURSIVE FillAndFlush(_, _)
FillAndFlush(o, data) ==
  LET n == Smaller(MaxBuf - Pos(o), Len(data))
      filled == [o EXCEPT !.buf = @ \o SubSeq(data, 1, n)]
      rest == SubSeq(data, n + 1, Len(data))
  IN IF rest = <<>> THEN filled ELSE FillAndFlush(FlushBuffer(filled, FALSE, Len(rest)), rest)

WriteBuffer(o, data) ==
  LET len == Len(data)
      grown == IF len <= Room(o) \/ o.cap = MaxBuf THEN o ELSE GrowBuffer(o, len)
      again == IF len <= Room(grown) \/ ~IsMarked(grown) THEN grown ELSE GrowBuffer(grown, len)
      ready == IF len > Room(grown) /\ IsMarked(again) THEN FlushBufferStopAtMark(again) ELSE again
  IN IF len <= Room(ready) THEN [ready EXCEPT !.buf = @ \o data] ELSE FillAndFlush(ready, data)

Flush(o) ==
  [FlushBuffer(o, TRUE, 0) EXCEPT !.cap = Small, !.seq = -1, !.cmdLength = 0, !.mark = NoMark]

StartPacket(o) == [o EXCEPT !.buf = <<>>]
Mark(o) == [o EXCEPT !.mark = Len(o.buf)]

\* resetMark(): what was behind the mark that was flushed is given back.
DataAfterMark(o) == IF o.after THEN SubSeq(o.buf, 1, o.mark) ELSE <<>>
\* Variant: the next command goes on counting.
ResetMarkCounting(o) ==
  IF o.after THEN [o EXCEPT !.buf = SubSeq(@, 1, o.mark), !.mark = NoMark, !.after = FALSE]
  ELSE [o EXCEPT !.buf = SubSeq(@, 1, o.mark), !.mark = NoMark]

ResetMark(o) ==
  IF o.after THEN [o EXCEPT !.buf = SubSeq(@, 1, o.mark), !.mark = NoMark, !.seq = -1, !.after = FALSE]
  ELSE [o EXCEPT !.buf = SubSeq(@, 1, o.mark), !.mark = NoMark]

CheckMaxAllowedLength(o, length, maxAllowedPacket) == o.cmdLength + length >= maxAllowedPacket
BufIsAfterMaxPacketLength(o, maxAllowedPacket) == Pos(o) > Smaller(MaxBuf, maxAllowedPacket + HeaderLen)

-----------------------------------------------------------------------------
(***************************************************************************)
(* The server reads a packet of frames: all are full but the last one.     *)
(***************************************************************************)
RECURSIVE PacketsFrom(_, _)
PacketsFrom(wire, data) ==
  IF wire = <<>> THEN <<>>
  ELSE LET read == data \o Head(wire).data
       IN IF Len(Head(wire).data) = MaxLen THEN PacketsFrom(Tail(wire), read)
          ELSE <<read>> \o PacketsFrom(Tail(wire), <<>>)
Packets(wire) == PacketsFrom(wire, <<>>)

\* A command begins with frame number zero, and its frames are numbered one after the other.
Numbered(wire) ==
  \A i \in DOMAIN wire :
    wire[i].seq = IF i = 1 \/ Len(wire[i - 1].data) # MaxLen THEN 0 ELSE wire[i - 1].seq + 1
\* The last packet is complete.
Ended(wire) == wire = <<>> \/ Len(wire[Len(wire)].data) # MaxLen
=============================================================================

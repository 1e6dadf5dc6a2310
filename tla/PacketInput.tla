----------------------------- MODULE PacketInput -----------------------------
(***************************************************************************)
(* How the bytes of the socket become packets: onData of                   *)
(* lib/io/packet-input-stream.js.  A packet travels in frames of at most   *)
(* MaxLen bytes, each behind a header of three bytes of length and one of  *)
(* sequence number; a full frame is continued by the next one, so that a   *)
(* packet of a multiple of MaxLen ends with an empty frame.  The bytes     *)
(* come in chunks cut anywhere.                                            *)
(*                                                                         *)
(* Base stands for 256 and MaxLen for 0xffffff.  One action is one turn of *)
(* a phase of the loop of onData; nothing else runs until the chunk is     *)
(* read.  What the receiving command does with a packet is in              *)
(* CommandQueue and Results.                                               *)
(***************************************************************************)
EXTENDS Integers, Sequences, SequencesExt

CONSTANTS
  Base,          (* values of a byte of a length                           *)
  PacketLens,    (* lengths of the packets the server may send             *)
  MaxPackets     (* how many it sends                                      *)

ASSUME PacketInputAssumption ==
  /\ Base \in Nat \ {0, 1}
  /\ PacketLens \subseteq Nat \ {0}
  /\ MaxPackets \in Nat \ {0}

MaxLen == Base * Base * Base - 1
None == <<-1>>

VARIABLES
  packets,        \* lengths of the packets the server sends
  phase,          \* "idle", "header", "payload", "fast": where onData is
  chunk,          \* what is left to read of what it is given
  length,         \* its local variable, -1 for null
  header, packetLen, sequenceNo, remainingLen, parts, partsTotalLen,
  delivered       \* the packets given to commands

frame == <<header, packetLen, sequenceNo, remainingLen, parts, partsTotalLen>>
reading == <<phase, chunk, length>>
readerVars == <<packets, reading, frame, delivered>>

(***************************************************************************)
(* What the server writes.                                                 *)
(***************************************************************************)
PayloadOf(p) == [i \in 1..packets[p] |-> 100 * p + i]
HeaderOf(len, seq) == <<len % Base, (len \div Base) % Base, len \div (Base * Base), seq>>
FramesOf(p) ==
  [f \in 1..(packets[p] \div MaxLen) + 1 |->
     LET from == (f - 1) * MaxLen
         len == IF packets[p] - from < MaxLen THEN packets[p] - from ELSE MaxLen
     IN HeaderOf(len, f) \o SubSeq(PayloadOf(p), from + 1, from + len)]
BytesOf(p) == FlattenSeq(FramesOf(p))
Stream == FlattenSeq([p \in DOMAIN packets |-> BytesOf(p)])
\* How many bytes the first p packets take.
UpTo(p) == Len(FlattenSeq([q \in 1..p |-> BytesOf(q)]))
Expected(p) == [bytes |-> PayloadOf(p), seq |-> (packets[p] \div MaxLen) + 1]

ReaderInit ==
  /\ packets \in UNION {[1..n -> PacketLens] : n \in 1..MaxPackets}
  /\ phase = "idle" /\ chunk = <<>> /\ length = -1
  /\ header = <<>> /\ packetLen = 0 /\ sequenceNo = 0 /\ remainingLen = 0
  /\ parts = None /\ partsTotalLen = 0
  /\ delivered = <<>>

Left == Len(chunk)
LengthIn(h) == h[1] + h[2] * Base + h[3] * Base * Base
Taken(n) == SubSeq(chunk, 1, n)
Read(n) == chunk' = SubSeq(chunk, n + 1, Len(chunk))

\* onData(c) is called.
OnData(c) ==
  /\ phase = "idle"
  /\ chunk' = c /\ length' = -1 /\ phase' = "header"
  /\ UNCHANGED <<packets, frame, delivered>>

(***************************************************************************)
(* The header: of a packet under way, at hand, or cut by the chunks.       *)
(***************************************************************************)
GoOn ==
  /\ phase = "header" /\ remainingLen > 0
  /\ length' = remainingLen /\ phase' = "payload"
  /\ UNCHANGED <<packets, chunk, frame, delivered>>

HeaderAtHand ==
  /\ phase = "header" /\ remainingLen = 0
  /\ header = <<>> /\ Left >= 4
  /\ packetLen' = LengthIn(Taken(4)) /\ sequenceNo' = chunk[4]
  /\ Read(4) /\ length' = packetLen' /\ phase' = "payload"
  /\ UNCHANGED <<packets, header, remainingLen, parts, partsTotalLen, delivered>>

CutHeader ==
  /\ phase = "header" /\ remainingLen = 0
  /\ header # <<>> \/ Left < 4
  /\ LET n == IF Left < 4 - Len(header) THEN Left ELSE 4 - Len(header)
         h == header \o Taken(n)
     IN /\ header' = h /\ Read(n)
        /\ IF Len(h) = 4
           THEN packetLen' = LengthIn(h) /\ sequenceNo' = h[4] /\ length' = packetLen'
           ELSE length' = -1 /\ UNCHANGED <<packetLen, sequenceNo>>
  /\ phase' = "payload"
  /\ UNCHANGED <<packets, remainingLen, parts, partsTotalLen, delivered>>

(***************************************************************************)
(* The payload.                                                            *)
(***************************************************************************)
\* while (pos < chunkLen): another turn, or onData returns.
NextTurn(n) == phase' = IF n < Len(chunk) THEN "header" ELSE "idle"

ResetHeader == remainingLen' = 0 /\ header' = <<>>

\* Buffer.concat(parts, total), that cuts or fills up with zeros.
Concat(bytes, total) == [i \in 1..total |-> IF i <= Len(bytes) THEN bytes[i] ELSE 0]
Deliver(bytes, seq) == delivered' = Append(delivered, [bytes |-> bytes, seq |-> seq])

\* Variant: the total is not counted when parts are there already.
KeepUncounted(bytes) ==
  parts' = (IF parts = None THEN <<>> ELSE parts) \o bytes
  /\ partsTotalLen' = IF parts = None THEN Len(bytes) ELSE partsTotalLen

Keep(bytes) ==
  IF parts = None THEN parts' = bytes /\ partsTotalLen' = Len(bytes)
  ELSE parts' = parts \o bytes /\ partsTotalLen' = partsTotalLen + Len(bytes)

\* A packet that fits in one frame, all there: the fast path follows.
WholePacket ==
  /\ phase = "payload" /\ length > 0 /\ Left >= length
  /\ parts = None /\ packetLen < MaxLen
  /\ Deliver(Taken(length), sequenceNo)
  /\ Read(length) /\ phase' = "fast"
  /\ UNCHANGED <<packets, length, frame>>

\* A full frame: its packet goes on.
FullFrame ==
  /\ phase = "payload" /\ length > 0 /\ Left >= length
  /\ packetLen >= MaxLen
  /\ Keep(Taken(length)) /\ ResetHeader
  /\ Read(length) /\ NextTurn(length) /\ length' = -1
  /\ UNCHANGED <<packets, packetLen, sequenceNo, delivered>>

\* The last part of a packet.
LastPart ==
  /\ phase = "payload" /\ length > 0 /\ Left >= length
  /\ parts # None /\ packetLen < MaxLen
  /\ Deliver(Concat(parts \o Taken(length), partsTotalLen + length), sequenceNo)
  /\ parts' = None /\ partsTotalLen' = partsTotalLen + length /\ ResetHeader
  /\ Read(length) /\ NextTurn(length) /\ length' = -1
  /\ UNCHANGED <<packets, packetLen, sequenceNo>>

\* The chunk ends before the frame does.
ChunkEnds ==
  /\ phase = "payload" /\ length > 0 /\ Left < length
  /\ Keep(Taken(Left)) /\ remainingLen' = length - Left
  /\ phase' = "idle" /\ Read(Left) /\ length' = -1
  /\ UNCHANGED <<packets, header, packetLen, sequenceNo, delivered>>

EmptyFrame ==
  /\ phase = "payload" /\ length = 0 /\ parts # None
  /\ Deliver(Concat(parts, partsTotalLen), sequenceNo)
  /\ parts' = None /\ ResetHeader
  /\ NextTurn(0) /\ length' = -1
  /\ UNCHANGED <<packets, chunk, packetLen, sequenceNo, partsTotalLen>>

\* A header that is not complete (an empty packet would come here too).
NothingYet ==
  /\ phase = "payload" /\ (length = -1 \/ (length = 0 /\ parts = None))
  /\ NextTurn(0) /\ length' = -1
  /\ UNCHANGED <<packets, chunk, frame, delivered>>

(***************************************************************************)
(* The fast path: packets that follow in the same chunk, with no parts.    *)
(***************************************************************************)
FastHeader == phase = "fast" /\ 4 < Len(chunk)
FastLen == LengthIn(Taken(4))
FastRest(n) == SubSeq(chunk, 5, 4 + n)

FastPacket ==
  /\ FastHeader /\ Left - 4 >= FastLen /\ FastLen < MaxLen
  /\ Deliver(FastRest(FastLen), chunk[4])
  /\ packetLen' = FastLen /\ sequenceNo' = chunk[4] /\ Read(4 + FastLen)
  /\ UNCHANGED <<packets, phase, length, header, remainingLen, parts, partsTotalLen>>

FastFullFrame ==
  /\ FastHeader /\ Left - 4 >= FastLen /\ FastLen >= MaxLen
  /\ parts' = FastRest(FastLen) /\ partsTotalLen' = FastLen
  /\ packetLen' = FastLen /\ sequenceNo' = chunk[4] /\ Read(4 + FastLen)
  /\ ResetHeader /\ NextTurn(4 + FastLen) /\ length' = -1
  /\ UNCHANGED <<packets, delivered>>

\* It returns without resetHeader.
FastChunkEnds ==
  /\ FastHeader /\ Left - 4 < FastLen
  /\ Keep(FastRest(Left - 4)) /\ remainingLen' = FastLen - (Left - 4)
  /\ packetLen' = FastLen /\ sequenceNo' = chunk[4]
  /\ phase' = "idle" /\ Read(Left) /\ length' = -1
  /\ UNCHANGED <<packets, header, delivered>>

FastEnds ==
  /\ phase = "fast" /\ 4 >= Len(chunk)
  /\ ResetHeader /\ NextTurn(0) /\ length' = -1
  /\ UNCHANGED <<packets, chunk, packetLen, sequenceNo, parts, partsTotalLen, delivered>>

Reading ==
  \/ GoOn \/ HeaderAtHand \/ CutHeader
  \/ WholePacket \/ FullFrame \/ LastPart \/ ChunkEnds \/ EmptyFrame \/ NothingYet
  \/ FastPacket \/ FastFullFrame \/ FastChunkEnds \/ FastEnds
=============================================================================

--------------------------- MODULE CompressionInput ---------------------------
(***************************************************************************)
(* The socket, the optional compression layer of                           *)
(* lib/io/compression-input-stream.js and the packet reader below it.      *)
(* Compressed, the bytes of PacketInput travel in blocks, each behind a    *)
(* header of seven bytes: length, sequence number, length once inflated,   *)
(* zero for a block that is not deflated.  The layer inflates a block and  *)
(* calls onData of the reader with it, synchronously.                      *)
(***************************************************************************)
EXTENDS PacketInput

CONSTANTS
  Cuts,        (* sizes of a chunk, besides all that is left              *)
  Blocks,      (* sizes of the blocks the server cuts its answer into      *)
  Deflates,    (* which ones it deflates: "none", "all", "odd"             *)
  Pack         (* greater than the numbers that stand for bytes            *)

ASSUME CompressionInputAssumption ==
  /\ Cuts \subseteq Nat
  /\ Blocks \subseteq 1..MaxLen
  /\ Deflates \subseteq {"none", "all", "odd"}
  /\ Pack \in Nat /\ Base <= Pack /\ \A n \in PacketLens : 100 * MaxPackets + n < Pack

VARIABLES
  compress,            \* option compress, and the server can
  block, deflate,      \* how the server cuts and deflates
  stream, wire,        \* its packets as bytes, and the bytes it writes
  received,            \* how many of them have been read
  zPhase,              \* "idle", "header", "payload"
  zChunk, zLength,
  zHeader, compressPacketLen, zRemainingLen, zParts, zPartsTotalLen

zFrame == <<zHeader, compressPacketLen, zRemainingLen, zParts, zPartsTotalLen>>
zReading == <<zPhase, zChunk, zLength>>
server == <<compress, block, deflate, stream, wire>>
vars == <<readerVars, server, received, zReading, zFrame>>

(***************************************************************************)
(* Deflating packs two bytes into one; inflating unpacks.                  *)
(***************************************************************************)
Deflate(s) == [i \in 1..(Len(s) + 1) \div 2 |-> IF 2 * i <= Len(s) THEN (s[2 * i - 1] + 1) * Pack + s[2 * i] ELSE s[2 * i - 1]]
Inflate(s) == FlattenSeq([i \in DOMAIN s |-> IF s[i] >= Pack THEN <<s[i] \div Pack - 1, s[i] % Pack>> ELSE <<s[i]>>])

Deflated(b) == deflate = "all" \/ (deflate = "odd" /\ b % 2 = 1)
BlockOf(b) ==
  LET from == (b - 1) * block
      data == SubSeq(stream, from + 1, IF from + block < Len(stream) THEN from + block ELSE Len(stream))
      body == IF Deflated(b) THEN Deflate(data) ELSE data
  IN HeaderOf(Len(body), b) \o SubSeq(HeaderOf(IF Deflated(b) THEN Len(data) ELSE 0, 0), 1, 3) \o body
BlockCount == (Len(stream) + block - 1) \div block
Written == IF compress THEN FlattenSeq([b \in 1..BlockCount |-> BlockOf(b)]) ELSE stream

(***************************************************************************)
(* A full block that is not deflated is joined to the next by the reader;  *)
(* the server is one that sends none last, nor before a deflated one.      *)
(***************************************************************************)
ServerCuts ==
  \A b \in 1..BlockCount :
    block = MaxLen /\ ~Deflated(b) =>
      (b < BlockCount /\ ~Deflated(b + 1)) \/ (b = BlockCount /\ Len(stream) % block # 0)

Init ==
  /\ ReaderInit
  /\ stream = Stream
  /\ compress \in BOOLEAN
  /\ (IF compress THEN block \in Blocks /\ deflate \in Deflates /\ ServerCuts ELSE block = 1 /\ deflate = "none")
  /\ wire = Written /\ received = 0
  /\ zPhase = "idle" /\ zChunk = <<>> /\ zLength = -1
  /\ zHeader = <<>> /\ compressPacketLen = 0 /\ zRemainingLen = 0
  /\ zParts = None /\ zPartsTotalLen = 0

\* The socket has n more bytes.
SocketData(n) ==
  /\ phase = "idle" /\ zPhase = "idle"
  /\ received + n <= Len(wire)
  /\ received' = received + n
  /\ LET c == SubSeq(wire, received + 1, received + n) IN
     IF compress
     THEN /\ zChunk' = c /\ zLength' = -1 /\ zPhase' = "header"
          /\ UNCHANGED <<readerVars, server, zFrame>>
     ELSE OnData(c) /\ UNCHANGED <<server, zReading, zFrame>>

\* The reader is idle whenever the layer has the hand.
ZTurn(at) == phase = "idle" /\ zPhase = at
zLeft == Len(zChunk)
ZTaken(n) == SubSeq(zChunk, 1, n)
ZRead(n) == zChunk' = SubSeq(zChunk, n + 1, Len(zChunk))
ZNextTurn(n) == zPhase' = IF n < Len(zChunk) THEN "header" ELSE "idle"
Uninflated(h) == LengthIn(SubSeq(h, 5, 7)) = 0

ZGoOn ==
  /\ ZTurn("header") /\ zRemainingLen > 0
  /\ zLength' = zRemainingLen /\ zPhase' = "payload"
  /\ UNCHANGED <<readerVars, server, received, zChunk, zFrame>>

\* At hand or in pieces, the header is copied, and its length is 7 once it is there.
ZHeader ==
  /\ ZTurn("header") /\ zRemainingLen = 0
  /\ LET n == IF zLeft < 7 - Len(zHeader) THEN zLeft ELSE 7 - Len(zHeader)
         h == zHeader \o ZTaken(n)
     IN /\ zHeader' = h /\ ZRead(n)
        /\ IF Len(h) = 7 /\ n > 0 THEN compressPacketLen' = LengthIn(h) /\ zLength' = compressPacketLen'
           ELSE zLength' = -1 /\ UNCHANGED compressPacketLen
  /\ zPhase' = "payload"
  /\ UNCHANGED <<readerVars, server, received, zRemainingLen, zParts, zPartsTotalLen>>

ZKeep(bytes) ==
  IF zParts = None THEN zParts' = bytes /\ zPartsTotalLen' = Len(bytes)
  ELSE zParts' = zParts \o bytes /\ zPartsTotalLen' = zPartsTotalLen + Len(bytes)

\* receivePacket: the last header says whether to inflate.
Receive(body) == OnData(IF Uninflated(zHeader) THEN body ELSE Inflate(body))

ZReset == zRemainingLen' = 0 /\ zHeader' = <<>>

\* A block that is all there, or its last part.
ZBlock ==
  /\ ZTurn("payload") /\ zLength > 0 /\ zLeft >= zLength
  /\ compressPacketLen < MaxLen
  /\ IF zParts = None THEN Receive(ZTaken(zLength)) /\ UNCHANGED zPartsTotalLen
     ELSE /\ Receive(Concat(zParts \o ZTaken(zLength), zPartsTotalLen + zLength))
          /\ zPartsTotalLen' = zPartsTotalLen + zLength
  /\ zParts' = None /\ ZReset
  /\ ZRead(zLength) /\ ZNextTurn(zLength) /\ zLength' = -1
  /\ UNCHANGED <<server, received, compressPacketLen>>

ZFullBlock ==
  /\ ZTurn("payload") /\ zLength > 0 /\ zLeft >= zLength
  /\ compressPacketLen >= MaxLen
  /\ ZKeep(ZTaken(zLength)) /\ ZReset
  /\ ZRead(zLength) /\ ZNextTurn(zLength) /\ zLength' = -1
  /\ UNCHANGED <<readerVars, server, received, compressPacketLen>>

ZChunkEnds ==
  /\ ZTurn("payload") /\ zLength > 0 /\ zLeft < zLength
  /\ ZKeep(ZTaken(zLeft)) /\ zRemainingLen' = zLength - zLeft
  /\ zPhase' = "idle" /\ ZRead(zLeft) /\ zLength' = -1
  /\ UNCHANGED <<readerVars, server, received, zHeader, compressPacketLen>>

ZNothingYet ==
  /\ ZTurn("payload") /\ zLength <= 0
  /\ ZNextTurn(0) /\ zLength' = -1
  /\ UNCHANGED <<readerVars, server, received, zChunk, zFrame>>

ReaderReads == Reading /\ UNCHANGED <<server, received, zReading, zFrame>>

Next ==
  \/ \E n \in Cuts \cup {Len(wire) - received} : n > 0 /\ SocketData(n)
  \/ ZGoOn \/ ZHeader \/ ZBlock \/ ZFullBlock \/ ZChunkEnds \/ ZNothingYet
  \/ ReaderReads

Spec == Init /\ [][Next]_vars

-----------------------------------------------------------------------------
(***************************************************************************)
(* Properties.                                                             *)
(***************************************************************************)
Idle == phase = "idle" /\ zPhase = "idle"

(* How many bytes of the answer have reached the client, in full blocks of  *)
(* the compressed protocol.                                                 *)
BlockEnd(b) == Len(FlattenSeq([c \in 1..b |-> BlockOf(c)]))
Joined(b) == block = MaxLen /\ ~Deflated(b) /\ b < BlockCount
Arrived ==
  IF ~compress THEN received
  ELSE LET there == {b \in 1..BlockCount : BlockEnd(b) <= received /\ ~Joined(b)}
           last == IF there = {} THEN 0 ELSE CHOOSE b \in there : \A c \in there : c <= b
       IN IF last = BlockCount THEN Len(stream) ELSE last * block

(* Whatever the cuts, commands are given the packets the server sent, in    *)
(* order, with their bytes and the sequence number of their last frame: a   *)
(* packet cut in full frames, ended by an empty one, cut within a header or *)
(* read by the fast path is the packet that was written.                    *)
DeliveredExact ==
  /\ Len(delivered) <= Len(packets)
  /\ \A p \in DOMAIN delivered : delivered[p] = Expected(p)

(* When onData returns, no packet whose last byte has arrived is withheld:  *)
(* its command would wait for an answer that is there.  A header cut by the *)
(* chunks, an empty frame at the end and a chunk that ends with a header    *)
(* must not keep it.                                                        *)
NothingWithheld ==
  Idle => \A p \in DOMAIN packets : UpTo(p) <= Arrived => Len(delivered) >= p

(* Commands are given the packets that were sent, each as soon as it is     *)
(* there, whatever the cuts, the blocks and the frames.                     *)
PacketsDelivered == DeliveredExact /\ NothingWithheld
=============================================================================

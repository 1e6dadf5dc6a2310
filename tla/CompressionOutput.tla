--------------------------- MODULE CompressionOutput ---------------------------
(***************************************************************************)
(* The writing side of the compressed protocol,                            *)
(* lib/io/compression-output-stream.js.  The packet output hands it frames *)
(* one by one (writeBuf), and flushes after each: a block behind a header  *)
(* of seven bytes, deflated unless it is short, numbered by the command.   *)
(* A full frame is longer than a block, and is sent as two.                *)
(*                                                                         *)
(* The bytes of a packet are the numbers from 1 on.  Deflating is zlib's:  *)
(* only the length of what it gives is looked at, which may be more than   *)
(* what it was given.  The server answers when a packet has ended, and the *)
(* command may then go on with the numbers (LOCAL INFILE, authentication). *)
(***************************************************************************)
EXTENDS Integers, Sequences, SequencesExt

CONSTANTS
  MaxBlock,    (* 0xffffff: what a length of three bytes can say           *)
  Small,       (* 2048, the buffer a flush leaves                          *)
  Levels,      (* the ones of growBuffer() before the last                 *)
  RawBelow,    (* 1536: a block shorter than this is not deflated          *)
  NumberMod,   (* 256: a block's number has one byte                       *)
  FrameLens,   (* frames to consider, with their header                    *)
  Growth,      (* how much longer deflating may make a block               *)
  MaxFrames    (* bound: frames written before the server answers          *)

HeaderLen == 7
MaxBuf == MaxBlock + HeaderLen

ASSUME CompressionOutputAssumption ==
  /\ {MaxBlock, Small, RawBelow, NumberMod, MaxFrames} \subseteq Nat \ {0} /\ Levels \in Seq(Nat)
  /\ Growth \subseteq Nat
  /\ HeaderLen + 4 <= Small /\ RawBelow <= Small
  /\ Small <= MaxBuf /\ \A i \in DOMAIN Levels : Levels[i] <= MaxBuf
  /\ FrameLens \subseteq 4..(MaxBlock + 4)      \* of a packet output whose frames hold MaxBlock bytes

VARIABLES
  buf, cap,      \* what is behind the header, and the buffer's length
  arr,           \* what writeBuf() has not written yet
  step,          \* "idle", "writeBuf", "fill", "stream" (to flush, and fill again), "flush", "sent"
  ending,        \* what the frame is: "more" to come, or the last, of "flush" or of "flushPacket"
  compressSequenceNo,
  turn,          \* "client", or "server": the packet has ended
  first, sent,   \* of the server: the number it waits for, and the blocks it is sent
  frames, written

output == <<buf, cap>>
sending == <<turn, first, frames, written>>
outputVars == <<output, arr, step, ending, compressSequenceNo, sending, sent>>

OutputInit ==
  /\ buf = <<>> /\ cap = Small /\ arr = <<>> /\ step = "idle" /\ ending = "more"
  /\ compressSequenceNo = -1 /\ turn = "client" /\ first = 0 /\ sent = <<>> /\ frames = 0 /\ written = 0

Pos == HeaderLen + Len(buf)
Room(capacity) == capacity - Pos
Smaller(a, b) == IF a < b THEN a ELSE b

\* The first level that is larger, or the last resort.
LevelAbove(levels, need) ==
  IF \E i \in DOMAIN levels : need < levels[i] THEN levels[SelectInSeq(levels, LAMBDA l : need < l)] ELSE MaxBuf
GrownCapacity(len) == LevelAbove(Levels, len + Pos)
AllocateBuffer(len) == IF len = 0 THEN Small ELSE LevelAbove(<<Small>> \o Levels, len + 4)

(***************************************************************************)
(* writeBuf() and flush(), for each frame of the packet output.            *)
(***************************************************************************)
FlushBufferBasic(len, kind) ==
  /\ step = "idle" /\ turn = "client" /\ (kind = "more" => frames + 1 < MaxFrames)
  /\ arr' = [i \in 1..len |-> written + i] /\ written' = written + len
  /\ step' = "writeBuf" /\ ending' = kind /\ frames' = frames + 1
  /\ UNCHANGED <<output, compressSequenceNo, turn, first, sent>>

WriteBuf ==
  /\ step = "writeBuf"
  /\ cap' = IF Len(arr) > Room(cap) /\ cap # MaxBuf THEN GrownCapacity(Len(arr)) ELSE cap
  /\ IF Len(arr) > Room(cap') THEN step' = "fill" /\ UNCHANGED <<buf, arr>>
     ELSE buf' = buf \o arr /\ arr' = <<>> /\ step' = "flush"
  /\ UNCHANGED <<ending, compressSequenceNo, sending, sent>>

\* Buffer.copy() copies no more than there is room for.
Fill ==
  /\ step = "fill"
  /\ LET n == Smaller(MaxBuf - Pos, Len(arr)) IN
     /\ buf' = buf \o SubSeq(arr, 1, Smaller(n, Room(cap)))
     /\ arr' = SubSeq(arr, n + 1, Len(arr))
  /\ step' = IF arr' = <<>> THEN "flush" ELSE "stream"
  /\ UNCHANGED <<cap, ending, compressSequenceNo, sending, sent>>

\* A header says the length, the number, and the length once inflated, zero for a raw block.
Block(len, no, plain, body) ==
  [size |-> len % (MaxBlock + 1), no |-> no % NumberMod, plain |-> plain % (MaxBlock + 1), len |-> len, body |-> body]
RawBlock(no) == Block(Len(buf), no, 0, buf)
DeflatedBlock(no, len) == Block(len, no, Len(buf), buf)
EmptyBlock(no) == Block(0, no, 0, <<>>)

DeflatedLengths == {Len(buf) \div 2} \cup {Len(buf) + n : n \in Growth}

Send ==
  IF Pos < RawBelow THEN sent' = Append(sent, RawBlock(compressSequenceNo'))
  ELSE \E len \in DeflatedLengths :
         sent' = sent \o <<DeflatedBlock(compressSequenceNo', len)>>
                   \o (IF step = "flush" /\ len = MaxBuf THEN <<EmptyBlock(compressSequenceNo')>> ELSE <<>>)

Flush ==
  /\ step \in {"flush", "stream"}
  /\ compressSequenceNo' = compressSequenceNo + 1 /\ Send
  /\ buf' = <<>> /\ cap' = AllocateBuffer(Len(arr))
  /\ step' = IF step = "stream" THEN "fill" ELSE "sent"
  /\ UNCHANGED <<arr, ending, sending>>

\* Variant: the next packet goes on counting.
FrameSentCounting ==
  /\ step = "sent" /\ step' = "idle"
  /\ turn' = IF ending = "more" THEN "client" ELSE "server"
  /\ UNCHANGED <<output, arr, ending, compressSequenceNo, first, frames, written, sent>>

\* flush() of the packet output ends a command's packet, flushPacket() leaves the number.
FrameSent ==
  /\ step = "sent" /\ step' = "idle"
  /\ compressSequenceNo' = IF ending = "flush" THEN -1 ELSE compressSequenceNo
  /\ turn' = IF ending = "more" THEN "client" ELSE "server"
  /\ UNCHANGED <<output, arr, ending, first, frames, written, sent>>

(***************************************************************************)
(* What comes next.                                                        *)
(***************************************************************************)
NextPacket(no, expected) ==
  /\ step = "idle" /\ turn = "server" /\ turn' = "client"
  /\ compressSequenceNo' = no /\ first' = expected
  /\ sent' = <<>> /\ frames' = 0 /\ written' = 0
  /\ UNCHANGED <<output, arr, step, ending>>

NewCommand == NextPacket(-1, 0)

\* A bulk command sends its next packet, without an answer to the last.
SamePackets == ending = "flush" /\ NextPacket(compressSequenceNo, 0)

\* receivePacket() gives the command the number of the server's last block.
GoOnNumbered == NextPacket((Last(sent).no + 1) % NumberMod, (Last(sent).no + 2) % NumberMod)

OutputNext ==
  \/ \E len \in FrameLens, kind \in {"more", "flush", "flushPacket"} : FlushBufferBasic(len, kind)
  \/ WriteBuf \/ Fill \/ Flush \/ FrameSent
  \/ NewCommand \/ SamePackets \/ GoOnNumbered

OutputSpec == OutputInit /\ [][OutputNext]_outputVars

-----------------------------------------------------------------------------
(***************************************************************************)
(* Properties.                                                             *)
(***************************************************************************)
\* Deflating may give more than a header can say.
Overlong == \E i \in DOMAIN sent : sent[i].len > MaxBlock

Inflated(b) == b.plain \in {0, Len(b.body)}
Inflation == FlattenSeq([i \in DOMAIN sent |-> sent[i].body])

(* The server inflates from the blocks what was written: nothing is lost   *)
(* or sent twice although a full frame does not fit a block and the buffer *)
(* it goes through has many sizes; blocks follow one another from the      *)
(* number that the server waits for, zero for each packet of a command,    *)
(* the one behind its own where a command goes on; and when the frame is   *)
(* written nothing is left in the buffer.  Exempt are blocks zlib makes    *)
(* longer than a header can say, where the code sends what nobody reads.   *)
BlocksRight ==
  ~Overlong =>
    /\ \A i \in DOMAIN sent : /\ sent[i].no = (first + i - 1) % NumberMod
                              /\ sent[i].size = sent[i].len /\ Inflated(sent[i])
    /\ Inflation \o buf \o arr = [i \in 1..written |-> i]
    /\ step = "idle" => buf = <<>> /\ arr = <<>>
=============================================================================

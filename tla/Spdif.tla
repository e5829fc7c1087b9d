------------------------------- MODULE Spdif -------------------------------
(***************************************************************************)
(* The coding of audio as S/PDIF: raspdif_parse_sample() and the encoding     *)
(* half of raspdif_buffer_samples() in source/main.c, and source/spdif.c.      *)
(*                                                                         *)
(* The bytes of one sample become a number, the number a sub-frame of 32      *)
(* bits, the sub-frame eight bytes of line levels, two to a bit.  A receiver   *)
(* that knows nothing but the levels is there to say what arrived.            *)
(***************************************************************************)
EXTENDS Integers, Sequences

CONSTANTS
  FrameCount,  \* SPDIF_FRAME_COUNT
  Formats,     \* raspdif_format_t
  Bytes        \* bound: the values the input's bytes take

ASSUME SpdifAssumption ==
  /\ FrameCount \in 1 .. 192     \* a channel status has 192 bits
  /\ Formats \subseteq {"s16le", "s24le"}
  /\ Bytes \subseteq 0 .. 255

VARIABLES
  pc,           \* "parse", "build" or "send"
  format,       \* arguments.format
  frame_index,  \* static frame_index of raspdif_buffer_samples()
  channel,      \* the channel encoded next, "a" or "b"
  input,        \* samples[]: the bytes of this sample
  sample,       \* sample_a or sample_b
  code,         \* code_a or code_b, most significant byte first
  level,        \* the line's level before the code is sent
  status        \* what the receiver has of the channel status of each channel

vars == <<pc, format, frame_index, channel, input, sample, code, level, status>>

Bit == {0, 1}
Channels == {"a", "b"}

\* Two to the power of i; a table, as << is evaluated for few values only.
Power(i) == <<1, 2, 4, 8, 16, 32, 64, 128, 256, 512, 1024, 2048, 4096, 8192, 16384,
              32768, 65536, 131072, 262144, 524288, 1048576, 2097152, 4194304,
              8388608>>[i + 1]

-----------------------------------------------------------------------------
(* raspdif_parse_sample(): the sign comes from converting to 16 or 24 bits.   *)

Signed(value, half) == IF value < half THEN value ELSE value - 2 * half

\* Mistake: the bytes of the other byte order.
ParseBigEndian(fmt, buffer) ==
  IF fmt = "s16le"
  THEN Signed(buffer[1] * 256 + buffer[2], 32768)
  ELSE Signed(buffer[1] * 65536 + buffer[2] * 256 + buffer[3], 8388608)

ParseSample(fmt, buffer) ==
  IF fmt = "s16le"
  THEN Signed(buffer[2] * 256 + buffer[1], 32768)
  ELSE Signed(buffer[3] * 65536 + buffer[2] * 256 + buffer[1], 8388608)

-----------------------------------------------------------------------------
(* spdif_populate_channel_status() *)

ChannelNumber(c) == IF c = "a" THEN 1 ELSE 2

\* The bytes of the channel status that are not zero: copying permitted, the
\* channel's number in a high nibble, a sampling frequency that is not indicated.
StatusByte(c, n) ==
  CASE n = 0 -> 4
    [] n = 2 -> ChannelNumber(c) * 16
    [] n = 3 -> 1
    [] OTHER -> 0

\* Mistake: a byte's most significant bit goes out first.
StatusBitMsbFirst(c, i) == (StatusByte(c, i \div 8) \div Power(7 - (i % 8))) % 2

StatusBit(c, i) == (StatusByte(c, i \div 8) \div Power(i % 8)) % 2

-----------------------------------------------------------------------------
(* spdif_build_subframe() *)

\* The sample in the 20 bits of its field; 24 bits spill over into aux.
Depth(fmt) == IF fmt = "s24le" THEN 24 ELSE 16
SampleField(fmt, s) ==
  IF Depth(fmt) = 24 THEN (s \div 16) % 1048576 ELSE (s * 16) % 1048576
AuxField(fmt, s) == IF Depth(fmt) = 24 THEN s % 16 ELSE 0

\* Bit i of n.
BitOf(n, i) == (n \div Power(i)) % 2

\* The 32 bits in the order in which they go out.
Raw(aux, smp, cstatus, parity) ==
  [i \in 0 .. 31 |->
     IF i < 4 THEN 0                           \* the preamble's place
     ELSE IF i < 8 THEN BitOf(aux, i - 4)
     ELSE IF i < 28 THEN BitOf(smp, i - 8)
     ELSE IF i < 30 THEN 0                     \* validity, user_data
     ELSE IF i = 30 THEN cstatus ELSE parity]

NibbleOnes(raw, j) == raw[4*j] + raw[4*j + 1] + raw[4*j + 2] + raw[4*j + 3]

\* __builtin_popcount()
Ones(raw) ==
  NibbleOnes(raw, 0) + NibbleOnes(raw, 1) + NibbleOnes(raw, 2) + NibbleOnes(raw, 3)
  + NibbleOnes(raw, 4) + NibbleOnes(raw, 5) + NibbleOnes(raw, 6) + NibbleOnes(raw, 7)

\* Mistake: the parity a block ago is counted with the rest.
SubframeOverStaleParity(fmt, s, cstatus, stale) ==
  Raw(AuxField(fmt, s), SampleField(fmt, s), cstatus,
      Ones(Raw(AuxField(fmt, s), SampleField(fmt, s), cstatus, stale)) % 2)

\* The parity bit is cleared before it is computed: what the sub-frame's memory
\* held before, stale, makes no difference.
Subframe(fmt, s, cstatus, stale) ==
  Raw(AuxField(fmt, s), SampleField(fmt, s), cstatus,
      Ones(Raw(AuxField(fmt, s), SampleField(fmt, s), cstatus, 0)) % 2)

-----------------------------------------------------------------------------
(* spdif_encode_biphase_mark(): a byte of preamble, then a byte a nibble.     *)

Preamble(c, frame) == IF c = "b" THEN "w" ELSE IF frame = 0 THEN "b" ELSE "m"

\* SPDIF_PREAMBLE_M, _W and _B: 0xE2, 0xE4 and 0xE8.
PreambleCode(p) == CASE p = "m" -> 226 [] p = "w" -> 228 [] p = "b" -> 232

\* bmc_lut_0: 0xCC, 0xCD, 0xCB, 0xCA, 0xD3, ...
BmcLut(n) == <<204, 205, 203, 202,
               211, 210, 212, 213,
               179, 178, 180, 181,
               172, 173, 171, 170>>[n + 1]

\* (data >> (28 - 4*j)) & 0xF, where data is the sub-frame in reverse.
Nibble(raw, j) == 8 * raw[4*j] + 4 * raw[4*j + 1] + 2 * raw[4*j + 2] + raw[4*j + 3]

\* Mistake: a nibble's code does not look at the level it starts from.
EncodeUninverted(raw, j, previous) == BmcLut(Nibble(raw, j))

\* A nibble's code, inverted if the byte before ends in 1.
Encode(raw, j, previous) ==
  IF previous % 2 = 1 THEN 255 - BmcLut(Nibble(raw, j)) ELSE BmcLut(Nibble(raw, j))

EncodeBiphaseMark(p, raw) ==
  LET byte6 == BmcLut(Nibble(raw, 1))   \* a preamble always ends in 0
      byte5 == Encode(raw, 2, byte6)
      byte4 == Encode(raw, 3, byte5)
      byte3 == Encode(raw, 4, byte4)
      byte2 == Encode(raw, 5, byte3)
      byte1 == Encode(raw, 6, byte2)
      byte0 == Encode(raw, 7, byte1)
  IN <<PreambleCode(p), byte6, byte5, byte4, byte3, byte2, byte1, byte0>>

-----------------------------------------------------------------------------
(* The receiver: from levels to bits, by the rule of biphase mark code.       *)

Weight(k) == <<128, 64, 32, 16, 8, 4, 2, 1>>[k + 1]

\* The i-th of a sub-frame's 64 levels.
Level(c, i) == (c[(i \div 8) + 1] \div Weight(i % 8)) % 2

\* A bit is 1 if the level changes in its middle.
Received(c, i) == IF Level(c, 2*i) # Level(c, 2*i + 1) THEN 1 ELSE 0

\* The code that begins with a level twice the usual length and goes on so.
Marks(c) == [i \in 0 .. 7 |-> Level(c, i)]
ReceivedPreamble(c) ==
  CASE Marks(c)[3] = 0 /\ Marks(c)[4] = 1 -> "b"
    [] Marks(c)[5] = 1 -> "w"
    [] OTHER -> "m"

\* The 24 bits of the audio word, most significant last.
ReceivedAudio(c) ==
  LET word[i \in 3 .. 27] ==
        IF i = 3 THEN 0 ELSE word[i - 1] + Received(c, i) * Power(i - 4)
  IN word[27]

\* The status bits of a block, collected from its B preamble on.
Collect(c) ==
  LET bit == Received(c, 30)
      p   == ReceivedPreamble(c)
  IN CASE p = "b" -> [a |-> <<bit>>, b |-> <<>>]
       [] p = "m" -> [status EXCEPT !.a = Append(@, bit)]
       [] p = "w" -> [status EXCEPT !.b = Append(@, bit)]

-----------------------------------------------------------------------------
Init ==
  /\ pc = "parse"
  /\ format \in Formats
  /\ frame_index = 0
  /\ channel = "a"
  /\ input = <<>>
  /\ sample = 0
  /\ code = <<>>
  /\ level = 0
  /\ status = [a |-> <<>>, b |-> <<>>]

Width == IF format = "s24le" THEN 3 ELSE 2   \* sample_size in main()

Parse ==
  /\ pc = "parse"
  /\ input' \in [1 .. Width -> Bytes]
  /\ sample' = ParseSample(format, input')
  /\ pc' = "build"
  /\ UNCHANGED <<format, frame_index, channel, code, level, status>>

\* One call of spdif_build_subframe() on a sub-frame used for every block.
Build ==
  /\ pc = "build"
  /\ \E stale \in Bit :
       code' = EncodeBiphaseMark(Preamble(channel, frame_index),
                 Subframe(format, sample, StatusBit(channel, frame_index), stale))
  /\ pc' = "send"
  /\ UNCHANGED <<format, frame_index, channel, input, sample, level, status>>

\* The code is stored, sent and received; then the other channel, or the next frame.
Send ==
  /\ pc = "send"
  /\ level' = Level(code, 63)
  /\ status' = Collect(code)
  /\ channel' = IF channel = "a" THEN "b" ELSE "a"
  /\ frame_index' = IF channel = "a" THEN frame_index ELSE (frame_index + 1) % FrameCount
  /\ input' = <<>> /\ sample' = 0 /\ code' = <<>>
  /\ pc' = "parse"
  /\ UNCHANGED format

Next == Parse \/ Build \/ Send

Spec == Init /\ [][Next]_vars
-----------------------------------------------------------------------------
(***************************************************************************)
(* The level runs on from each byte of the code to the next and from each    *)
(* sub-frame to the one after it: every bit begins with a change of level,    *)
(* and so does every preamble, for any sample whatever.                      *)
(***************************************************************************)
ChangesAtEveryBit ==
  pc = "send" =>
    /\ Level(code, 0) # level
    /\ \A i \in 4 .. 31 : Level(code, 2*i) # Level(code, 2*i - 1)

(***************************************************************************)
(* The fixed preambles assume that the line is low before them, "which        *)
(* shouldn't happen due to even parity" (spdif.c:8-9, of a level of 1): the    *)
(* line is low between any two sub-frames.                                   *)
(***************************************************************************)
LowBetweenSubframes == level = 0

(***************************************************************************)
(* The receiver's 24 bit word is the little-endian two's complement number    *)
(* of the input, left-justified: neither the sign, nor the byte order, nor    *)
(* the way over 20 bits and aux, nor a stale sub-frame, costs a bit of it.    *)
(***************************************************************************)
SampleArrives ==
  pc = "send" =>
    ReceivedAudio(code) =
      IF format = "s16le" THEN 256 * (256 * input[2] + input[1])
      ELSE 65536 * input[3] + 256 * input[2] + input[1]

\* Why: a code that is about to be sent ends low, since parity is even.
LowInv ==
  /\ format \in Formats /\ sample \in Int /\ frame_index \in Nat
  /\ level = 0
  /\ pc = "send" => Level(code, 63) = 0

\* A field of a received channel status, least significant bit first.
Field(bits, first, width) ==
  LET value[i \in 0 .. width] ==
        IF i = 0 THEN 0 ELSE value[i - 1] + bits[first + i] * Power(i - 1)
  IN value[width]

(***************************************************************************)
(* From one B preamble to the next each channel carries one whole channel     *)
(* status, which says: consumer, linear PCM, copying permitted, channel 1 or   *)
(* 2, frequency not indicated, and nothing else.                             *)
(***************************************************************************)
StatusArrives ==
  /\ pc = "parse" /\ frame_index = 0 /\ channel = "a" /\ status.a # <<>> =>
       Len(status.a) = FrameCount /\ Len(status.b) = FrameCount
  /\ \A c \in Channels :
       Len(status[c]) = FrameCount =>
         /\ Field(status[c], 0, 2) = 0
         /\ Field(status[c], 2, 1) = 1
         /\ Field(status[c], 3, 17) = 0
         /\ Field(status[c], 20, 4) = IF c = "a" THEN 1 ELSE 2
         /\ Field(status[c], 24, 4) = 1
         /\ \A i \in 29 .. FrameCount : status[c][i] = 0

\* Why the sample arrives: the code to be sent is that of the bytes just read.
SubframeInv ==
  /\ pc \in {"parse", "build", "send"} /\ format \in Formats
  /\ channel \in Channels /\ frame_index \in 0 .. FrameCount - 1
  /\ pc # "parse" => input \in [1 .. Width -> Bytes] /\ sample = ParseSample(format, input)
  /\ pc = "send" =>
       \E stale \in Bit :
         code = EncodeBiphaseMark(Preamble(channel, frame_index),
                  Subframe(format, sample, StatusBit(channel, frame_index), stale))

\* Why the status arrives: the receiver has as many bits of it as frames were sent.
StatusInv ==
  /\ status \in [a : Seq(Bit), b : Seq(Bit)]
  /\ LET sent == IF channel = "a" THEN frame_index ELSE frame_index + 1
     IN \/ Len(status.a) = sent /\ Len(status.b) = frame_index
        \/ /\ frame_index = 0 /\ channel = "a"
           /\ Len(status.a) = FrameCount /\ Len(status.b) = FrameCount
  /\ \A c \in Channels : \A i \in 1 .. Len(status[c]) : status[c][i] = StatusBit(c, i - 1)
=============================================================================

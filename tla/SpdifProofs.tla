----------------------------- MODULE SpdifProofs -----------------------------
(***************************************************************************)
(* Theorems of Spdif, for any bytes, either format and any length of block:    *)
(* even parity brings the line back to low at the end of every sub-frame,      *)
(* through seven table look-ups, each inverted or not by the one before; and   *)
(* a receiver that sees only the levels gets every sample and every status.   *)
(***************************************************************************)
EXTENDS Spdif, ModularArithmetic, SequenceTheorems, TLAPS

\* A remainder of 2 is a bit.
LEMMA BitIsBit == ASSUME NEW m \in Int PROVE m % 2 \in Bit
BY DEF Bit

LEMMA PowerType == ASSUME NEW i \in 0 .. 23 PROVE Power(i) \in Nat \ {0}
BY DEF Power

LEMMA BitOfType == ASSUME NEW n \in Int, NEW i \in 0 .. 19 PROVE BitOf(n, i) \in Bit
<1>1. Power(i) \in Nat \ {0}  BY PowerType
<1> DEFINE p == Power(i)
<1> HIDE DEF p
<1>2. n \div p \in Int  BY <1>1 DEF p
<1> QED  BY <1>2, BitIsBit DEF BitOf, p

\* The code of a nibble, by its bits.
NibbleCode(p, q, r, s) == BmcLut(8*p + 4*q + 2*r + s)

LutOk(p, q, r, s) ==
  /\ NibbleCode(p, q, r, s) \in Nat
  /\ NibbleCode(p, q, r, s) <= 255
  /\ NibbleCode(p, q, r, s) % 2 = (p + q + r + s) % 2

\* The code of a nibble ends high if and only if the nibble has an odd number of ones.
LEMMA LutParity ==
  ASSUME NEW p \in Bit, NEW q \in Bit, NEW r \in Bit, NEW s \in Bit
  PROVE  LutOk(p, q, r, s)
<1> USE DEF LutOk, NibbleCode, BmcLut, Bit
<1>1. CASE p = 0
  <2>1. CASE q = 0  BY <1>1, <2>1
  <2>2. CASE q = 1  BY <1>1, <2>2
  <2> QED  BY <2>1, <2>2
<1>2. CASE p = 1
  <2>1. CASE q = 0  BY <1>2, <2>1
  <2>2. CASE q = 1  BY <1>2, <2>2
  <2> QED  BY <2>1, <2>2
<1> QED  BY <1>1, <1>2

LEMMA RawType ==
  ASSUME NEW aux \in Int, NEW smp \in Int, NEW cstatus \in Bit, NEW parity \in Bit
  PROVE  /\ Raw(aux, smp, cstatus, parity) \in [0 .. 31 -> Bit]
         /\ NibbleOnes(Raw(aux, smp, cstatus, parity), 0) = 0
<1> DEFINE bit(i) == IF i < 4 THEN 0 ELSE IF i < 8 THEN BitOf(aux, i - 4)
                     ELSE IF i < 28 THEN BitOf(smp, i - 8) ELSE IF i < 30 THEN 0
                     ELSE IF i = 30 THEN cstatus ELSE parity
<1>1. ASSUME NEW i \in 0 .. 31 PROVE bit(i) \in Bit
  <2>1. CASE i < 4  BY <2>1 DEF Bit
  <2>2. CASE i >= 4 /\ i < 8
    <3>1. i - 4 \in 0 .. 19  BY <2>2
    <3> QED  BY <2>2, <3>1, BitOfType
  <2>3. CASE i >= 8 /\ i < 28
    <3>1. i - 8 \in 0 .. 19  BY <2>3
    <3> QED  BY <2>3, <3>1, BitOfType
  <2>4. CASE i >= 28  BY <2>4 DEF Bit
  <2> QED  BY <2>1, <2>2, <2>3, <2>4
<1>2. Raw(aux, smp, cstatus, parity) = [i \in 0 .. 31 |-> bit(i)]  BY DEF Raw
<1>3. bit(0) = 0 /\ bit(1) = 0 /\ bit(2) = 0 /\ bit(3) = 0  OBVIOUS
<1> HIDE DEF bit
<1> QED  BY <1>1, <1>2, <1>3 DEF NibbleOnes

\* The parity bit is the last to go out and part of the last nibble only.
LEMMA ParityInLastNibble ==
  ASSUME NEW aux \in Int, NEW smp \in Int, NEW cstatus \in Bit, NEW parity \in Bit
  PROVE  Ones(Raw(aux, smp, cstatus, parity)) = Ones(Raw(aux, smp, cstatus, 0)) + parity
<1> DEFINE raw == Raw(aux, smp, cstatus, parity)
           zero == Raw(aux, smp, cstatus, 0)
<1>1. \A i \in 0 .. 30 : raw[i] = zero[i]  BY DEF Raw
<1>2. raw[31] = parity /\ zero[31] = 0  BY DEF Raw
<1>3. raw \in [0 .. 31 -> Bit] /\ zero \in [0 .. 31 -> Bit]  BY RawType DEF Bit
<1> HIDE DEF raw, zero
<1>4. \A j \in 0 .. 6 : NibbleOnes(raw, j) = NibbleOnes(zero, j)  BY <1>1 DEF NibbleOnes
<1>5. NibbleOnes(raw, 7) = NibbleOnes(zero, 7) + parity
  <2>1. raw[28] = zero[28] /\ raw[29] = zero[29] /\ raw[30] = zero[30]  BY <1>1
  <2>2. zero[28] \in Int /\ zero[29] \in Int /\ zero[30] \in Int  BY <1>3 DEF Bit
  <2> QED  BY <1>2, <2>1, <2>2 DEF NibbleOnes, Bit
<1>6. \A j \in 0 .. 7 : NibbleOnes(zero, j) \in Int
  <2> TAKE j \in 0 .. 7
  <2>1. 4*j \in 0 .. 31 /\ 4*j + 1 \in 0 .. 31 /\ 4*j + 2 \in 0 .. 31 /\ 4*j + 3 \in 0 .. 31
    OBVIOUS
  <2> QED  BY <1>3, <2>1 DEF NibbleOnes, Bit
<1> QED  BY <1>4, <1>5, <1>6 DEF Ones, Bit, raw, zero

LEMMA NibbleOnesType ==
  ASSUME NEW raw \in [0 .. 31 -> Bit], NEW j \in 0 .. 7
  PROVE  NibbleOnes(raw, j) \in Nat
<1>1. 4*j \in 0 .. 31 /\ 4*j + 1 \in 0 .. 31 /\ 4*j + 2 \in 0 .. 31 /\ 4*j + 3 \in 0 .. 31
  OBVIOUS
<1> QED  BY <1>1 DEF NibbleOnes, Bit

\* A byte of code ends high if and only if the ones so far are odd in number.
LEMMA EncodeParity ==
  ASSUME NEW raw \in [0 .. 31 -> Bit], NEW j \in 0 .. 7, NEW previous \in Nat
  PROVE  /\ BmcLut(Nibble(raw, j)) \in Nat
         /\ BmcLut(Nibble(raw, j)) % 2 = NibbleOnes(raw, j) % 2
         /\ Encode(raw, j, previous) \in Nat
         /\ Encode(raw, j, previous) % 2 = (NibbleOnes(raw, j) + previous) % 2
<1> DEFINE lut == BmcLut(Nibble(raw, j))
           ones == NibbleOnes(raw, j)
<1>1. 4*j \in 0 .. 31 /\ 4*j + 1 \in 0 .. 31 /\ 4*j + 2 \in 0 .. 31 /\ 4*j + 3 \in 0 .. 31
  OBVIOUS
<1>2. raw[4*j] \in Bit /\ raw[4*j + 1] \in Bit /\ raw[4*j + 2] \in Bit /\ raw[4*j + 3] \in Bit
  BY <1>1
<1>3. lut \in Nat /\ lut <= 255 /\ lut % 2 = ones % 2
  <2> DEFINE p == raw[4*j]
             q == raw[4*j + 1]
             r == raw[4*j + 2]
             s == raw[4*j + 3]
  <2>1. lut = NibbleCode(p, q, r, s)  BY DEF Nibble, NibbleCode
  <2>2. ones = p + q + r + s  BY DEF NibbleOnes
  <2>3. p \in Bit /\ q \in Bit /\ r \in Bit /\ s \in Bit  BY <1>2
  <2> HIDE DEF p, q, r, s, lut, ones
  <2>4. LutOk(p, q, r, s)  BY <2>3, LutParity
  <2> QED  BY <2>1, <2>2, <2>4 DEF LutOk
<1>4. ones \in Nat  BY NibbleOnesType
<1>5. Encode(raw, j, previous) = IF previous % 2 = 1 THEN 255 - lut ELSE lut  BY DEF Encode
<1> HIDE DEF lut, ones
<1>6. CASE previous % 2 = 1
  <2>1. (255 - lut) % 2 = (ones + previous) % 2  BY <1>3, <1>4, <1>6
  <2> QED  BY <2>1, <1>3, <1>5, <1>6 DEF lut, ones
<1>7. CASE previous % 2 # 1
  <2>1. lut % 2 = (ones + previous) % 2  BY <1>3, <1>4, <1>7
  <2> QED  BY <2>1, <1>3, <1>5, <1>7 DEF lut, ones
<1> QED  BY <1>6, <1>7

\* A chain of two bytes, each of the parity of a nibble and the byte before.
LEMMA TwoBytes ==
  ASSUME NEW x \in Nat, NEW y \in Nat, NEW first \in Nat, NEW second \in Nat, NEW third \in Nat,
         second % 2 = (x + first) % 2, third % 2 = (y + second) % 2
  PROVE  third % 2 = (x + y + first) % 2
<1>1. (y + second) % 2 = ((x + y) + first) % 2  OBVIOUS
<1> QED  BY <1>1

\* An even sub-frame's code ends low.
LEMMA CodeEndsLow ==
  ASSUME NEW raw \in [0 .. 31 -> Bit], NibbleOnes(raw, 0) = 0, Ones(raw) % 2 = 0, NEW p
  PROVE  Level(EncodeBiphaseMark(p, raw), 63) = 0
<1> DEFINE n(j) == NibbleOnes(raw, j)
           byte6 == BmcLut(Nibble(raw, 1))
           byte5 == Encode(raw, 2, byte6)
           byte4 == Encode(raw, 3, byte5)
           byte3 == Encode(raw, 4, byte4)
           byte2 == Encode(raw, 5, byte3)
           byte1 == Encode(raw, 6, byte2)
           byte0 == Encode(raw, 7, byte1)
<1>a. \A j \in 0 .. 7 : n(j) \in Nat  BY NibbleOnesType
<1>b. n(0) = 0 /\ Ones(raw) = n(0) + n(1) + n(2) + n(3) + n(4) + n(5) + n(6) + n(7)
  BY DEF Ones
<1>c. EncodeBiphaseMark(p, raw)
        = <<PreambleCode(p), byte6, byte5, byte4, byte3, byte2, byte1, byte0>>
  BY DEF EncodeBiphaseMark
<1>6. byte6 \in Nat /\ byte6 % 2 = n(1) % 2  BY EncodeParity
<1>5. byte5 \in Nat /\ byte5 % 2 = (n(2) + byte6) % 2  BY <1>6, EncodeParity
<1>4. byte4 \in Nat /\ byte4 % 2 = (n(3) + byte5) % 2  BY <1>5, EncodeParity
<1>3. byte3 \in Nat /\ byte3 % 2 = (n(4) + byte4) % 2  BY <1>4, EncodeParity
<1>2. byte2 \in Nat /\ byte2 % 2 = (n(5) + byte3) % 2  BY <1>3, EncodeParity
<1>1. byte1 \in Nat /\ byte1 % 2 = (n(6) + byte2) % 2  BY <1>2, EncodeParity
<1>0. byte0 \in Nat /\ byte0 % 2 = (n(7) + byte1) % 2  BY <1>1, EncodeParity
<1> HIDE DEF n, byte6, byte5, byte4, byte3, byte2, byte1, byte0
<1>7. byte0 % 2 = (n(1) + n(2) + n(3) + n(4) + n(5) + n(6) + n(7)) % 2
  <2> DEFINE low == n(1) + n(2) + n(3)
             high == n(4) + n(5)
  <2>1. byte4 % 2 = low % 2  BY <1>a, <1>6, <1>5, <1>4
  <2>a. n(4) \in Nat /\ n(5) \in Nat /\ n(6) \in Nat /\ n(7) \in Nat  BY <1>a
  <2>2. byte2 % 2 = (high + byte4) % 2  BY <2>a, <1>4, <1>3, <1>2
  <2>3. byte0 % 2 = (n(6) + n(7) + byte2) % 2
    <3> DEFINE x == n(6)
               y == n(7)
    <3>1. x \in Nat /\ y \in Nat  BY <2>a
    <3>2. byte1 % 2 = (x + byte2) % 2 /\ byte0 % 2 = (y + byte1) % 2  BY <1>1, <1>0
    <3>3. byte2 \in Nat /\ byte1 \in Nat /\ byte0 \in Nat  BY <1>2, <1>1, <1>0
    <3> HIDE DEF x, y
    <3>4. byte0 % 2 = (x + y + byte2) % 2  BY <3>1, <3>2, <3>3, TwoBytes
    <3> QED  BY <3>4 DEF x, y
  <2>4. low \in Nat /\ high \in Nat  BY <1>a
  <2> HIDE DEF low, high
  <2>5. byte0 % 2 = (low + high + n(6) + n(7)) % 2
    BY <1>a, <1>4, <1>2, <2>1, <2>2, <2>3, <2>4
  <2>6. low + high + n(6) + n(7) = n(1) + n(2) + n(3) + n(4) + n(5) + n(6) + n(7)
    BY <1>a DEF low, high
  <2> QED  BY <2>5, <2>6
<1>8. byte0 % 2 = 0  BY <1>7, <1>a, <1>b
<1>9. EncodeBiphaseMark(p, raw)[8] = byte0  BY <1>c
<1>10. Level(EncodeBiphaseMark(p, raw), 63) = (byte0 \div 1) % 2
  BY <1>9 DEF Level, Weight
<1> QED  BY <1>0, <1>8, <1>10

\* What spdif_build_subframe() builds is even, whatever parity was there before.
LEMMA SubframeEven ==
  ASSUME NEW fmt, NEW smp \in Int, NEW cstatus \in Bit, NEW stale
  PROVE  /\ Subframe(fmt, smp, cstatus, stale) \in [0 .. 31 -> Bit]
         /\ NibbleOnes(Subframe(fmt, smp, cstatus, stale), 0) = 0
         /\ Ones(Subframe(fmt, smp, cstatus, stale)) % 2 = 0
<1> DEFINE aux == AuxField(fmt, smp)
           field == SampleField(fmt, smp)
           ones == Ones(Raw(aux, field, cstatus, 0))
<1>1. aux \in Int  BY SMT DEF AuxField
<1>2. field \in Int  BY SMT DEF SampleField
<1>3. Subframe(fmt, smp, cstatus, stale) = Raw(aux, field, cstatus, ones % 2)
  BY DEF Subframe
<1> HIDE DEF aux, field
<1>4. Raw(aux, field, cstatus, 0) \in [0 .. 31 -> Bit]
  <2>1. 0 \in Bit  BY DEF Bit
  <2> QED  BY <1>1, <1>2, <2>1, RawType
<1>5. ones \in Nat
  <2>1. \A j \in 0 .. 7 : NibbleOnes(Raw(aux, field, cstatus, 0), j) \in Nat
    BY <1>4, NibbleOnesType
  <2> QED  BY <2>1 DEF Ones
<1>6. ones % 2 \in Bit  BY <1>5, BitIsBit
<1>7. Ones(Raw(aux, field, cstatus, ones % 2)) = ones + (ones % 2)
  BY <1>1, <1>2, <1>6, ParityInLastNibble
<1> HIDE DEF ones
<1>8. (ones + (ones % 2)) % 2 = 0  BY <1>5
<1> DEFINE parity == ones % 2
<1> HIDE DEF parity
<1>9. parity \in Bit  BY <1>6 DEF parity
<1>10. /\ Raw(aux, field, cstatus, parity) \in [0 .. 31 -> Bit]
       /\ NibbleOnes(Raw(aux, field, cstatus, parity), 0) = 0
  BY <1>1, <1>2, <1>9, RawType
<1>11. Ones(Raw(aux, field, cstatus, parity)) % 2 = 0  BY <1>7, <1>8 DEF parity
<1>12. Subframe(fmt, smp, cstatus, stale) = Raw(aux, field, cstatus, parity)
  BY <1>3 DEF parity
<1> QED  BY <1>10, <1>11, <1>12

\* Every bit of the channel status is a bit.
LEMMA StatusBitType ==
  ASSUME NEW c, NEW i \in Nat
  PROVE  StatusBit(c, i) \in Bit
<1>1. i % 8 \in 0 .. 19  OBVIOUS
<1> DEFINE byte == StatusByte(c, i \div 8)
           p == Power(i % 8)
<1>2. byte \in Int  BY DEF StatusByte, ChannelNumber
<1>3. p \in Nat \ {0}  BY <1>1, PowerType
<1>4. StatusBit(c, i) = (byte \div p) % 2  BY DEF StatusBit
<1> HIDE DEF byte, p
<1>5. byte \div p \in Int  BY <1>2, <1>3
<1> QED  BY <1>4, <1>5, BitIsBit

LEMMA SignedType == ASSUME NEW v \in Int, NEW half \in Int PROVE Signed(v, half) \in Int
BY DEF Signed

LEMMA SampleType ==
  ASSUME NEW fmt \in {"s16le", "s24le"}, NEW width \in {2, 3},
         width = IF fmt = "s24le" THEN 3 ELSE 2,
         NEW buffer \in [1 .. width -> Int]
  PROVE  ParseSample(fmt, buffer) \in Int
<1>1. 1 \in 1 .. width /\ 2 \in 1 .. width  OBVIOUS
<1>2. buffer[1] \in Int /\ buffer[2] \in Int  BY <1>1
<1>3. CASE fmt = "s16le"
  <2>1. buffer[2] * 256 + buffer[1] \in Int  BY <1>2
  <2>2. 32768 \in Int  OBVIOUS
  <2> QED  BY <1>3, <2>1, <2>2, SignedType DEF ParseSample
<1>4. CASE fmt = "s24le"
  <2>1. 3 \in 1 .. width  BY <1>4
  <2>2. buffer[3] \in Int  BY <2>1
  <2>3. buffer[3] * 65536 + buffer[2] * 256 + buffer[1] \in Int  BY <1>2, <2>2
  <2>4. 8388608 \in Int  OBVIOUS
  <2>5. fmt # "s16le"  BY <1>4
  <2> QED  BY <2>3, <2>4, <2>5, SignedType DEF ParseSample
<1> QED  BY <1>3, <1>4

(***************************************************************************)
(* Between sub-frames the line is low, as the fixed preambles assume: for      *)
(* every sample in either format, every bit of the channel status and         *)
(* whatever parity the sub-frame's memory had before.                        *)
(***************************************************************************)
THEOREM LineReturnsToLow == Spec => []LowBetweenSubframes
<1>1. Init => LowInv
  BY DEF Init, LowInv
<1>2. LowInv /\ [Next]_vars => LowInv'
  <2> SUFFICES ASSUME LowInv, [Next]_vars PROVE LowInv'  OBVIOUS
  <2>1. CASE Parse
    <3>1. format \in {"s16le", "s24le"} /\ Bytes \subseteq Int
      BY SpdifAssumption DEF LowInv, SpdifAssumption
    <3>2. Width \in {2, 3} /\ Width = IF format = "s24le" THEN 3 ELSE 2  BY DEF Width
    <3>3. input' \in [1 .. Width -> Bytes]  BY <2>1 DEF Parse
    <3>4. input' \in [1 .. Width -> Int]  BY <3>1, <3>3
    <3>5. ParseSample(format, input') \in Int  BY <3>1, <3>2, <3>4, SampleType
    <3>6. sample' \in Int  BY <2>1, <3>5 DEF Parse
    <3> QED  BY <2>1, <3>6 DEF Parse, LowInv
  <2>2. CASE Build
    <3>1. PICK stale \in Bit :
            code' = EncodeBiphaseMark(Preamble(channel, frame_index),
                      Subframe(format, sample, StatusBit(channel, frame_index), stale))
      BY <2>2 DEF Build
    <3> DEFINE raw == Subframe(format, sample, StatusBit(channel, frame_index), stale)
    <3>2. raw \in [0 .. 31 -> Bit] /\ NibbleOnes(raw, 0) = 0 /\ Ones(raw) % 2 = 0
      BY StatusBitType, SubframeEven DEF LowInv
    <3>3. code' = EncodeBiphaseMark(Preamble(channel, frame_index), raw)  BY <3>1
    <3> HIDE DEF raw
    <3>4. Level(code', 63) = 0  BY <3>2, <3>3, CodeEndsLow
    <3> QED  BY <2>2, <3>4 DEF Build, LowInv
  <2>3. CASE Send
    <3>1. frame_index' \in Nat
      <4>1. FrameCount \in Nat \ {0}  BY SpdifAssumption DEF SpdifAssumption
      <4>2. (frame_index + 1) % FrameCount \in Nat  BY <4>1 DEF LowInv
      <4> QED  BY <2>3, <4>2 DEF Send, LowInv
    <3> QED  BY <2>3, <3>1 DEF Send, LowInv
  <2>4. CASE UNCHANGED vars
    BY <2>4 DEF vars, LowInv
  <2> QED  BY <2>1, <2>2, <2>3, <2>4 DEF Next
<1>3. LowInv => LowBetweenSubframes  BY DEF LowInv, LowBetweenSubframes
<1> QED  BY <1>1, <1>2, <1>3, PTL DEF Spec

-----------------------------------------------------------------------------
(* What a receiver makes of the levels. *)

\* Level k of a byte of code.
ByteLevel(byte, k) == (byte \div Weight(k)) % 2

\* A byte of code after a level tells four bits: a change of level begins each of
\* them, and there is another in the middle of those that are 1.
Tells(byte, before, p, q, r, s) ==
  /\ ByteLevel(byte, 0) # before
  /\ ByteLevel(byte, 2) # ByteLevel(byte, 1)
  /\ ByteLevel(byte, 4) # ByteLevel(byte, 3)
  /\ ByteLevel(byte, 6) # ByteLevel(byte, 5)
  /\ (ByteLevel(byte, 0) # ByteLevel(byte, 1)) <=> p = 1
  /\ (ByteLevel(byte, 2) # ByteLevel(byte, 3)) <=> q = 1
  /\ (ByteLevel(byte, 4) # ByteLevel(byte, 5)) <=> r = 1
  /\ (ByteLevel(byte, 6) # ByteLevel(byte, 7)) <=> s = 1

\* An entry of the table tells its index, and so it does inverted.
LEMMA LutTells ==
  ASSUME NEW p \in Bit, NEW q \in Bit, NEW r \in Bit, NEW s \in Bit
  PROVE  /\ Tells(NibbleCode(p, q, r, s), 0, p, q, r, s)
         /\ Tells(255 - NibbleCode(p, q, r, s), 1, p, q, r, s)
<1>a. (p = 0 \/ p = 1) /\ (q = 0 \/ q = 1) /\ (r = 0 \/ r = 1) /\ (s = 0 \/ s = 1)
  BY DEF Bit
<1>1. CASE p = 0
  <2>1. CASE q = 0
    <3>1. CASE r = 0
      BY <1>a, <1>1, <2>1, <3>1
         DEF Tells, NibbleCode, BmcLut, ByteLevel, Weight
    <3>2. CASE r = 1
      BY <1>a, <1>1, <2>1, <3>2
         DEF Tells, NibbleCode, BmcLut, ByteLevel, Weight
    <3> QED  BY <1>a, <3>1, <3>2
  <2>2. CASE q = 1
    <3>1. CASE r = 0
      BY <1>a, <1>1, <2>2, <3>1
         DEF Tells, NibbleCode, BmcLut, ByteLevel, Weight
    <3>2. CASE r = 1
      BY <1>a, <1>1, <2>2, <3>2
         DEF Tells, NibbleCode, BmcLut, ByteLevel, Weight
    <3> QED  BY <1>a, <3>1, <3>2
  <2> QED  BY <1>a, <2>1, <2>2
<1>2. CASE p = 1
  <2>1. CASE q = 0
    <3>1. CASE r = 0
      BY <1>a, <1>2, <2>1, <3>1
         DEF Tells, NibbleCode, BmcLut, ByteLevel, Weight
    <3>2. CASE r = 1
      BY <1>a, <1>2, <2>1, <3>2
         DEF Tells, NibbleCode, BmcLut, ByteLevel, Weight
    <3> QED  BY <1>a, <3>1, <3>2
  <2>2. CASE q = 1
    <3>1. CASE r = 0
      BY <1>a, <1>2, <2>2, <3>1
         DEF Tells, NibbleCode, BmcLut, ByteLevel, Weight
    <3>2. CASE r = 1
      BY <1>a, <1>2, <2>2, <3>2
         DEF Tells, NibbleCode, BmcLut, ByteLevel, Weight
    <3> QED  BY <1>a, <3>1, <3>2
  <2> QED  BY <1>a, <2>1, <2>2
<1> QED  BY <1>a, <1>1, <1>2

\* The byte that encodes nibble j tells its bits after the level that ended the byte before.
LEMMA EncodeTells ==
  ASSUME NEW raw \in [0 .. 31 -> Bit], NEW j \in 0 .. 7, NEW previous \in Nat
  PROVE  /\ Encode(raw, j, previous) \in Nat
         /\ Tells(Encode(raw, j, previous), previous % 2,
                  raw[4*j], raw[4*j + 1], raw[4*j + 2], raw[4*j + 3])
<1> DEFINE p == raw[4*j]
           q == raw[4*j + 1]
           r == raw[4*j + 2]
           s == raw[4*j + 3]
<1>1. 4*j \in 0 .. 31 /\ 4*j + 1 \in 0 .. 31 /\ 4*j + 2 \in 0 .. 31 /\ 4*j + 3 \in 0 .. 31
  OBVIOUS
<1>2. p \in Bit /\ q \in Bit /\ r \in Bit /\ s \in Bit  BY <1>1
<1>3. BmcLut(Nibble(raw, j)) = NibbleCode(p, q, r, s)  BY DEF Nibble, NibbleCode
<1> HIDE DEF p, q, r, s
<1>4. /\ Tells(NibbleCode(p, q, r, s), 0, p, q, r, s)
      /\ Tells(255 - NibbleCode(p, q, r, s), 1, p, q, r, s)
  BY <1>2, LutTells
<1>5. Encode(raw, j, previous) \in Nat  BY EncodeParity
<1>6. CASE previous % 2 = 1
  <2>1. Encode(raw, j, previous) = 255 - NibbleCode(p, q, r, s)  BY <1>3, <1>6 DEF Encode
  <2> QED  BY <1>4, <1>5, <1>6, <2>1 DEF p, q, r, s
<1>7. CASE previous % 2 # 1
  <2>1. Encode(raw, j, previous) = NibbleCode(p, q, r, s)  BY <1>3, <1>7 DEF Encode
  <2>2. previous % 2 = 0  BY <1>7
  <2> QED  BY <1>4, <1>5, <2>1, <2>2 DEF p, q, r, s
<1> QED  BY <1>6, <1>7

\* Byte j + 1 of the code encodes nibble j; that goes for the first, too, as all
\* preambles end low.
LEMMA CodeBytes ==
  ASSUME NEW raw \in [0 .. 31 -> Bit], NEW p \in {"b", "m", "w"}
  PROVE  LET c == EncodeBiphaseMark(p, raw)
         IN /\ c[1] = PreambleCode(p) /\ c[1] \in Nat
            /\ \A j \in 1 .. 7 :
                 c[j] \in Nat /\ c[j + 1] \in Nat /\ c[j + 1] = Encode(raw, j, c[j])
<1> DEFINE c == EncodeBiphaseMark(p, raw)
           byte6 == BmcLut(Nibble(raw, 1))
           byte5 == Encode(raw, 2, byte6)
           byte4 == Encode(raw, 3, byte5)
           byte3 == Encode(raw, 4, byte4)
           byte2 == Encode(raw, 5, byte3)
           byte1 == Encode(raw, 6, byte2)
           byte0 == Encode(raw, 7, byte1)
<1>1. c = <<PreambleCode(p), byte6, byte5, byte4, byte3, byte2, byte1, byte0>>
  BY DEF EncodeBiphaseMark
<1>2. PreambleCode(p) \in Nat /\ PreambleCode(p) % 2 = 0  BY DEF PreambleCode
<1>3. byte6 = Encode(raw, 1, PreambleCode(p))  BY <1>2 DEF Encode
<1>4. byte6 \in Nat  BY EncodeParity
<1>5. byte5 \in Nat  BY <1>4, EncodeParity
<1>6. byte4 \in Nat  BY <1>5, EncodeParity
<1>7. byte3 \in Nat  BY <1>6, EncodeParity
<1>8. byte2 \in Nat  BY <1>7, EncodeParity
<1>9. byte1 \in Nat  BY <1>8, EncodeParity
<1>10. byte0 \in Nat  BY <1>9, EncodeParity
<1>11. /\ byte5 = Encode(raw, 2, byte6) /\ byte4 = Encode(raw, 3, byte5)
       /\ byte3 = Encode(raw, 4, byte4) /\ byte2 = Encode(raw, 5, byte3)
       /\ byte1 = Encode(raw, 6, byte2) /\ byte0 = Encode(raw, 7, byte1)
  OBVIOUS
<1> HIDE DEF c, byte6, byte5, byte4, byte3, byte2, byte1, byte0
<1>12. /\ c[1] = PreambleCode(p) /\ c[2] = byte6 /\ c[3] = byte5 /\ c[4] = byte4
       /\ c[5] = byte3 /\ c[6] = byte2 /\ c[7] = byte1 /\ c[8] = byte0
  BY <1>1
<1>13. ASSUME NEW j \in 1 .. 7
       PROVE  c[j] \in Nat /\ c[j + 1] \in Nat /\ c[j + 1] = Encode(raw, j, c[j])
  <2>1. \/ j = 1 \/ j = 2 \/ j = 3 \/ j = 4 \/ j = 5 \/ j = 6 \/ j = 7  OBVIOUS
  <2> QED  BY <2>1, <1>2, <1>3, <1>4, <1>5, <1>6, <1>7, <1>8, <1>9, <1>10, <1>11, <1>12
<1> QED  BY <1>2, <1>12, <1>13 DEF c

\* A code tells the bits of its sub-frame, each begun by a change of level.
LEMMA CodeTells ==
  ASSUME NEW raw \in [0 .. 31 -> Bit], NEW p \in {"b", "m", "w"}, NEW i \in 4 .. 31
  PROVE  /\ Received(EncodeBiphaseMark(p, raw), i) = raw[i]
         /\ Level(EncodeBiphaseMark(p, raw), 2*i) # Level(EncodeBiphaseMark(p, raw), 2*i - 1)
<1> DEFINE c == EncodeBiphaseMark(p, raw)
<1>1. PICK j \in 1 .. 7 : i = 4*j \/ i = 4*j + 1 \/ i = 4*j + 2 \/ i = 4*j + 3
  <2>1. /\ i \div 4 \in 1 .. 7 /\ i % 4 \in 0 .. 3 /\ i = 4 * (i \div 4) + (i % 4)
    OBVIOUS
  <2> QED  BY <2>1
<1>2. c[j] \in Nat /\ c[j + 1] \in Nat /\ c[j + 1] = Encode(raw, j, c[j])
  BY CodeBytes
<1> HIDE DEF c
<1>3. Tells(c[j + 1], c[j] % 2, raw[4*j], raw[4*j + 1], raw[4*j + 2], raw[4*j + 3])
  <2> DEFINE previous == c[j]
  <2>1. previous \in Nat /\ j \in 0 .. 7  BY <1>2
  <2>2. c[j + 1] = Encode(raw, j, previous)  BY <1>2
  <2> HIDE DEF previous
  <2>3. Tells(Encode(raw, j, previous), previous % 2,
              raw[4*j], raw[4*j + 1], raw[4*j + 2], raw[4*j + 3])
    BY <2>1, EncodeTells
  <2> QED  BY <2>2, <2>3 DEF previous
<1>4. \A k \in 0 .. 7 : Level(c, 8*j + k) = ByteLevel(c[j + 1], k)
  <2> TAKE k \in 0 .. 7
  <2>1. (8*j + k) \div 8 = j /\ (8*j + k) % 8 = k  OBVIOUS
  <2> QED  BY <2>1 DEF Level, ByteLevel
<1>5. Level(c, 8*j - 1) = c[j] % 2
  <2>1. (8*j - 1) \div 8 = j - 1 /\ (8*j - 1) % 8 = 7 /\ (j - 1) + 1 = j  OBVIOUS
  <2>2. Level(c, 8*j - 1) = (c[j] \div Weight(7)) % 2  BY <2>1 DEF Level
  <2>3. Weight(7) = 1  BY DEF Weight
  <2> QED  BY <1>2, <2>2, <2>3
<1>6. raw[i] \in Bit  OBVIOUS
<1>7. CASE i = 4*j
  <2>1. 2*i = 8*j + 0 /\ 2*i + 1 = 8*j + 1 /\ 2*i - 1 = 8*j - 1  BY <1>7
  <2> QED  BY <2>1, <1>3, <1>4, <1>5, <1>6, <1>7 DEF Received, Tells, Bit, c
<1>8. CASE i = 4*j + 1
  <2>1. 2*i = 8*j + 2 /\ 2*i + 1 = 8*j + 3 /\ 2*i - 1 = 8*j + 1  BY <1>8
  <2> QED  BY <2>1, <1>3, <1>4, <1>6, <1>8 DEF Received, Tells, Bit, c
<1>9. CASE i = 4*j + 2
  <2>1. 2*i = 8*j + 4 /\ 2*i + 1 = 8*j + 5 /\ 2*i - 1 = 8*j + 3  BY <1>9
  <2> QED  BY <2>1, <1>3, <1>4, <1>6, <1>9 DEF Received, Tells, Bit, c
<1>10. CASE i = 4*j + 3
  <2>1. 2*i = 8*j + 6 /\ 2*i + 1 = 8*j + 7 /\ 2*i - 1 = 8*j + 5  BY <1>10
  <2> QED  BY <2>1, <1>3, <1>4, <1>6, <1>10 DEF Received, Tells, Bit, c
<1> QED  BY <1>1, <1>7, <1>8, <1>9, <1>10

\* The three preambles differ where the receiver looks, and all begin high.
LEMMA PreambleTells ==
  ASSUME NEW raw \in [0 .. 31 -> Bit], NEW p \in {"b", "m", "w"}
  PROVE  /\ ReceivedPreamble(EncodeBiphaseMark(p, raw)) = p
         /\ Level(EncodeBiphaseMark(p, raw), 0) = 1
<1> DEFINE c == EncodeBiphaseMark(p, raw)
<1>1. c[1] = PreambleCode(p)  BY CodeBytes
<1> HIDE DEF c
<1>2. \A i \in 0 .. 7 : Level(c, i) = ByteLevel(PreambleCode(p), i)
  <2> TAKE i \in 0 .. 7
  <2>1. i \div 8 = 0 /\ i % 8 = i /\ 0 + 1 = 1  OBVIOUS
  <2> QED  BY <1>1, <2>1 DEF Level, ByteLevel
<1>3. /\ Marks(c)[3] = ByteLevel(PreambleCode(p), 3)
      /\ Marks(c)[4] = ByteLevel(PreambleCode(p), 4)
      /\ Marks(c)[5] = ByteLevel(PreambleCode(p), 5)
      /\ Level(c, 0) = ByteLevel(PreambleCode(p), 0)
  BY <1>2 DEF Marks
<1>4. ByteLevel(PreambleCode(p), 0) = 1
  BY DEF ByteLevel, PreambleCode, Weight
<1>5. CASE p = "b"
  <2>1. ByteLevel(232, 3) = 0 /\ ByteLevel(232, 4) = 1 /\ ByteLevel(232, 5) = 0
    BY DEF ByteLevel, Weight
  <2>2. PreambleCode(p) = 232  BY <1>5 DEF PreambleCode
  <2>3. Marks(c)[3] = 0 /\ Marks(c)[4] = 1 /\ Marks(c)[5] = 0  BY <1>3, <2>1, <2>2
  <2>4. ReceivedPreamble(c) = "b"  BY <2>3 DEF ReceivedPreamble
  <2> QED  BY <1>3, <1>4, <1>5, <2>4 DEF c
<1>6. CASE p = "w"
  <2>1. ByteLevel(228, 3) = 0 /\ ByteLevel(228, 4) = 0 /\ ByteLevel(228, 5) = 1
    BY DEF ByteLevel, Weight
  <2> QED  BY <1>3, <1>4, <1>6, <2>1 DEF ReceivedPreamble, PreambleCode, c
<1>7. CASE p = "m"
  <2>1. ByteLevel(226, 3) = 0 /\ ByteLevel(226, 4) = 0 /\ ByteLevel(226, 5) = 0
    BY DEF ByteLevel, Weight
  <2> QED  BY <1>3, <1>4, <1>7, <2>1 DEF ReceivedPreamble, PreambleCode, c
<1> QED  BY <1>5, <1>6, <1>7

\* While a code waits to be sent it is that of a sub-frame of the bytes just read.
LEMMA SubframeStep == SubframeInv /\ [Next]_vars => SubframeInv'
<1> SUFFICES ASSUME SubframeInv, [Next]_vars PROVE SubframeInv'
  OBVIOUS
<1>1. CASE Parse
  BY <1>1 DEF Parse, SubframeInv, Width
<1>2. CASE Build
  BY <1>2 DEF Build, SubframeInv, Width
<1>3. CASE Send
  <2>1. FrameCount \in Nat \ {0}  BY SpdifAssumption DEF SpdifAssumption
  <2>2. (frame_index + 1) % FrameCount \in 0 .. FrameCount - 1  BY <2>1 DEF SubframeInv
  <2>3. frame_index' \in 0 .. FrameCount - 1  BY <1>3, <2>2 DEF Send, SubframeInv
  <2> QED  BY <1>3, <2>3 DEF Send, SubframeInv, Channels
<1>4. CASE UNCHANGED vars
  BY <1>4 DEF vars, SubframeInv, Width
<1> QED  BY <1>1, <1>2, <1>3, <1>4 DEF Next

LEMMA AlwaysSubframe == Spec => []SubframeInv
<1>1. Init => SubframeInv
  <2>1. 0 \in 0 .. FrameCount - 1  BY SpdifAssumption DEF SpdifAssumption
  <2> QED  BY <2>1 DEF Init, SubframeInv, Channels
<1> QED  BY <1>1, SubframeStep, PTL DEF Spec

\* The sample is a number, whatever the bytes.
LEMMA SampleKnown ==
  ASSUME SubframeInv, pc # "parse"
  PROVE  sample \in Int
<1>1. format \in {"s16le", "s24le"} /\ Bytes \subseteq Int
  BY SpdifAssumption DEF SubframeInv, SpdifAssumption
<1>2. Width \in {2, 3} /\ Width = IF format = "s24le" THEN 3 ELSE 2  BY DEF Width
<1>3. input \in [1 .. Width -> Int]  BY <1>1 DEF SubframeInv
<1>4. ParseSample(format, input) \in Int  BY <1>1, <1>2, <1>3, SampleType
<1> QED  BY <1>4 DEF SubframeInv

\* What is about to be sent, in the terms of the lemmas on codes.
LEMMA CodeKnown ==
  ASSUME SubframeInv, pc = "send"
  PROVE  \E stale \in Bit :
           /\ Subframe(format, sample, StatusBit(channel, frame_index), stale)
                \in [0 .. 31 -> Bit]
           /\ Preamble(channel, frame_index) \in {"b", "m", "w"}
           /\ code = EncodeBiphaseMark(Preamble(channel, frame_index),
                       Subframe(format, sample, StatusBit(channel, frame_index), stale))
<1>1. PICK stale \in Bit :
        code = EncodeBiphaseMark(Preamble(channel, frame_index),
                 Subframe(format, sample, StatusBit(channel, frame_index), stale))
  BY DEF SubframeInv
<1>2. StatusBit(channel, frame_index) \in Bit  BY StatusBitType DEF SubframeInv
<1>3. sample \in Int  BY SampleKnown
<1>4. Subframe(format, sample, StatusBit(channel, frame_index), stale) \in [0 .. 31 -> Bit]
  BY <1>2, <1>3, SubframeEven
<1>5. Preamble(channel, frame_index) \in {"b", "m", "w"}  BY DEF Preamble
<1> QED  BY <1>1, <1>4, <1>5

(***************************************************************************)
(* Every bit and every preamble on the line begins with a change of level: the *)
(* seven table look-ups, inverted or not, join, and the preambles join the     *)
(* sub-frame before them, for every sample and every channel status.          *)
(***************************************************************************)
THEOREM LevelAlwaysChanges == Spec => []ChangesAtEveryBit
<1>1. SubframeInv /\ LowBetweenSubframes => ChangesAtEveryBit
  <2> SUFFICES ASSUME SubframeInv, LowBetweenSubframes, pc = "send"
               PROVE  /\ Level(code, 0) # level
                      /\ \A i \in 4 .. 31 : Level(code, 2*i) # Level(code, 2*i - 1)
    BY DEF ChangesAtEveryBit
  <2>1. PICK raw \in [0 .. 31 -> Bit] :
          code = EncodeBiphaseMark(Preamble(channel, frame_index), raw)
    BY CodeKnown
  <2>2. Preamble(channel, frame_index) \in {"b", "m", "w"}  BY DEF Preamble
  <2>3. Level(code, 0) = 1  BY <2>1, <2>2, PreambleTells
  <2>4. \A i \in 4 .. 31 : Level(code, 2*i) # Level(code, 2*i - 1)
    BY <2>1, <2>2, CodeTells
  <2> QED  BY <2>3, <2>4 DEF LowBetweenSubframes
<1> QED  BY <1>1, AlwaysSubframe, LineReturnsToLow, PTL

-----------------------------------------------------------------------------
(* The receiver's word. *)

LEMMA PowerDoubles == ASSUME NEW i \in 0 .. 22 PROVE Power(i + 1) = 2 * Power(i)
BY DEF Power

\* One binary digit more.
LEMMA BinaryStep ==
  ASSUME NEW n \in Nat, NEW d \in Nat \ {0}
  PROVE  n % (2 * d) = (n % d) + ((n \div d) % 2) * d
<1> DEFINE q == n \div d
           r == n % d
<1>1. n = d * q + r /\ q \in Nat /\ r \in 0 .. d - 1  BY Division
<1> HIDE DEF q, r
<1>2. PICK h \in Nat, t \in {0, 1} : q = 2 * h + t /\ t = q % 2
  <2>1. q = 2 * (q \div 2) + (q % 2) /\ q \div 2 \in Nat /\ q % 2 \in {0, 1}  BY <1>1
  <2> QED  BY <2>1
<1>3. d * (2 * h + t) = (2 * d) * h + t * d  BY <1>2
<1>4. n = (2 * d) * h + (t * d + r)  BY <1>1, <1>2, <1>3
<1>5. t * d + r \in 0 .. 2 * d - 1 /\ 2 * d \in Nat \ {0}  BY <1>1, <1>2
<1> DEFINE e == 2 * d
           u == t * d + r
<1>6. e \in Nat \ {0} /\ u \in 0 .. e - 1 /\ n = e * h + u  BY <1>4, <1>5
<1> HIDE DEF e, u
<1>7. n % e = u  BY <1>2, <1>6, RemainderUnique
<1>8. n % (2 * d) = t * d + r  BY <1>7 DEF e, u
<1>9. t = (n \div d) % 2 /\ r = n % d  BY <1>2 DEF q, r
<1> QED  BY <1>1, <1>2, <1>8, <1>9

\* Dividing by a product.
LEMMA NestedDivision ==
  ASSUME NEW n \in Nat, NEW d \in Nat \ {0}
  PROVE  n \div (16 * d) = (n \div 16) \div d
<1> DEFINE q == n \div 16
           r == n % 16
           h == q \div d
           t == q % d
<1>1. n = 16 * q + r /\ q \in Nat /\ r \in 0 .. 15  BY SMT
<1> HIDE DEF q, r
<1>2. q = d * h + t /\ h \in Nat /\ t \in 0 .. d - 1  BY <1>1, Division
<1> HIDE DEF h, t
<1>3. 16 * (d * h + t) = (16 * d) * h + 16 * t  BY <1>2
<1>4. n = (16 * d) * h + (16 * t + r)  BY <1>1, <1>2, <1>3
<1> DEFINE e == 16 * d
           u == 16 * t + r
<1>5. e \in Nat \ {0} /\ u \in 0 .. e - 1 /\ n = e * h + u  BY <1>1, <1>2, <1>4
<1> HIDE DEF e, u
<1>6. n % e = u  BY <1>2, <1>5, RemainderUnique
<1>7. n = e * (n \div e) + (n % e) /\ n \div e \in Nat  BY <1>5, Division
<1>8. e * (n \div e) = e * h  BY <1>2, <1>5, <1>6, <1>7
<1> DEFINE g == n \div e
<1> HIDE DEF g
<1>9. g \in Nat /\ e * g = e * h  BY <1>7, <1>8 DEF g
<1>10. g = h
  <2>1. CASE g < h  BY <2>1, <1>2, <1>5, <1>9, MultiplesApart
  <2>2. CASE h < g  BY <2>2, <1>2, <1>5, <1>9, MultiplesApart
  <2> QED  BY <2>1, <2>2, <1>2, <1>9
<1> QED  BY <1>10 DEF g, e, h, q

\* aux and the sample's field are the 24 bits of one number, least significant first.
LEMMA RawBits ==
  ASSUME NEW n \in Nat, NEW cstatus, NEW parity, NEW i \in 4 .. 27
  PROVE  Raw(n % 16, n \div 16, cstatus, parity)[i] = BitOf(n, i - 4)
<1>1. CASE i < 8
  <2> DEFINE k == i - 4
  <2>1. Raw(n % 16, n \div 16, cstatus, parity)[i] = BitOf(n % 16, k)
    BY <1>1 DEF Raw
  <2>2. k = 0 \/ k = 1 \/ k = 2 \/ k = 3  BY <1>1
  <2> HIDE DEF k
  <2>3. Power(0) = 1 /\ Power(1) = 2 /\ Power(2) = 4 /\ Power(3) = 8  BY DEF Power
  <2>4. /\ ((n % 16) \div 1) % 2 = (n \div 1) % 2 /\ ((n % 16) \div 2) % 2 = (n \div 2) % 2
        /\ ((n % 16) \div 4) % 2 = (n \div 4) % 2 /\ ((n % 16) \div 8) % 2 = (n \div 8) % 2
    BY SMT
  <2>5. BitOf(n % 16, k) = BitOf(n, k)  BY <2>2, <2>3, <2>4 DEF BitOf
  <2> QED  BY <2>1, <2>5 DEF k
<1>2. CASE i >= 8
  <2> DEFINE p == Power(i - 8)
  <2>1. Raw(n % 16, n \div 16, cstatus, parity)[i] = BitOf(n \div 16, i - 8)
    BY <1>2 DEF Raw
  <2>2. Power(i - 4) = 16 * p
    BY <1>2 DEF Power
  <2>3. p \in Nat \ {0}
    <3>1. i - 8 \in 0 .. 23  BY <1>2
    <3> QED  BY <3>1, PowerType
  <2> HIDE DEF p
  <2>4. n \div (16 * p) = (n \div 16) \div p  BY <2>3, NestedDivision
  <2> QED  BY <2>1, <2>2, <2>4 DEF BitOf, p
<1> QED  BY <1>1, <1>2

\* The receiver adds up digit after digit to the number that they are the digits of.
LEMMA AudioAddsUp ==
  ASSUME NEW n \in Nat, n < 2 * Power(23), NEW c,
         \A i \in 4 .. 27 : Received(c, i) = BitOf(n, i - 4)
  PROVE  ReceivedAudio(c) = n
<1> DEFINE Rule(word) ==
             word = [i \in 3 .. 27 |->
                       IF i = 3 THEN 0 ELSE word[i - 1] + Received(c, i) * Power(i - 4)]
           low == [i \in 3 .. 27 |-> IF i = 27 THEN n ELSE n % Power(i - 3)]
           sum == CHOOSE word : Rule(word)
<1>1. ReceivedAudio(c) = sum[27]  BY DEF ReceivedAudio
<1>2. \A i \in 4 .. 27 : low[i] = low[i - 1] + Received(c, i) * Power(i - 4)
  <2> TAKE i \in 4 .. 27
  <2> DEFINE d == Power(i - 4)
  <2>1. i - 4 \in 0 .. 23  OBVIOUS
  <2>2. d \in Nat \ {0}  BY <2>1, PowerType
  <2>3. Received(c, i) = (n \div d) % 2  BY DEF BitOf
  <2>4. low[i - 1] = n % d
    <3>1. (i - 1) - 3 = i - 4 /\ i - 1 # 27 /\ i - 1 \in 3 .. 27  OBVIOUS
    <3> QED  BY <3>1
  <2>5. low[i] = n % (2 * d)
    <3>1. CASE i = 27
      <4>1. low[i] = n /\ i - 4 = 23  BY <3>1
      <4>2. n \in 0 .. 2 * d - 1 /\ 2 * d \in Nat \ {0}  BY <4>1, <2>2
      <4> DEFINE e == 2 * d
      <4>3. n \in 0 .. e - 1 /\ e \in Nat \ {0}  BY <4>2
      <4> HIDE DEF e
      <4>4. n % e = n  BY <4>3, RemainderSmall
      <4> QED  BY <4>1, <4>4 DEF e
    <3>2. CASE i # 27
      <4>1. low[i] = n % Power(i - 3)  BY <3>2
      <4>2. i - 4 \in 0 .. 22 /\ (i - 4) + 1 = i - 3  BY <3>2
      <4>3. Power(i - 3) = 2 * d  BY <4>2, PowerDoubles
      <4> QED  BY <4>1, <4>3
    <3> QED  BY <3>1, <3>2
  <2> HIDE DEF d, low
  <2>6. n % (2 * d) = (n % d) + ((n \div d) % 2) * d  BY <2>2, BinaryStep
  <2> QED  BY <2>3, <2>4, <2>5, <2>6 DEF d
<1>3. low[3] = 0
  <2>1. Power(0) = 1  BY DEF Power
  <2>2. low[3] = n % Power(0)  BY SMT
  <2>3. n % 1 = 0  BY SMT
  <2> QED  BY <2>1, <2>2, <2>3
<1>4. Rule(low)
  <2>1. low = [i \in 3 .. 27 |-> low[i]]  OBVIOUS
  <2>2. \A i \in 3 .. 27 :
          low[i] = IF i = 3 THEN 0 ELSE low[i - 1] + Received(c, i) * Power(i - 4)
    BY <1>2, <1>3
  <2> HIDE DEF low
  <2> QED  BY <2>1, <2>2
<1>5. Rule(sum)  BY <1>4
<1> HIDE DEF low, sum
<1>6. sum[3] = low[3]
  BY <1>3, <1>5
<1>7. \A i \in 4 .. 27 : sum[i - 1] = low[i - 1] => sum[i] = low[i]
  <2> TAKE i \in 4 .. 27
  <2>1. sum[i] = sum[i - 1] + Received(c, i) * Power(i - 4)  BY <1>5
  <2> QED  BY <1>2, <2>1
<1> HIDE DEF Rule
<1>8. \A i \in 4 .. 27 : sum[i - 1] = low[i - 1] => sum[i] = low[i]  BY <1>7
<1>9. sum[9] = low[9]
  BY <1>6, <1>8
<1>10. sum[15] = low[15]
  BY <1>9, <1>8
<1>11. sum[21] = low[21]
  BY <1>10, <1>8
<1>12. sum[27] = low[27]
  BY <1>11, <1>8
<1>13. low[27] = n  BY DEF low
<1> QED  BY <1>1, <1>12, <1>13

\* The 24 bits of the sub-frame's two fields as a number.
AudioWord(fmt, smp) == 16 * SampleField(fmt, smp) + AuxField(fmt, smp)

LEMMA AudioWordFields ==
  ASSUME NEW fmt, NEW smp \in Int
  PROVE  /\ AudioWord(fmt, smp) \in Nat /\ AudioWord(fmt, smp) < 2 * Power(23)
         /\ AudioWord(fmt, smp) % 16 = AuxField(fmt, smp)
         /\ AudioWord(fmt, smp) \div 16 = SampleField(fmt, smp)
<1> DEFINE x == SampleField(fmt, smp)
           y == AuxField(fmt, smp)
<1>1. x \in Nat /\ x < 1048576  BY SMT DEF SampleField
<1>2. y \in Nat /\ y < 16  BY SMT DEF AuxField
<1>3. Power(23) = 8388608  BY SMT DEF Power
<1>4. AudioWord(fmt, smp) = 16 * x + y  BY DEF AudioWord
<1> HIDE DEF x, y
<1>5. (16 * x + y) % 16 = y /\ (16 * x + y) \div 16 = x  BY <1>1, <1>2, SMT
<1>6. 16 * x + y \in Nat /\ 16 * x + y < 2 * 8388608  BY <1>1, <1>2, SMT
<1> QED  BY <1>3, <1>4, <1>5, <1>6 DEF x, y

\* Neither sign nor byte order nor the way over two fields costs a bit.
LEMMA FieldsOfSample ==
  ASSUME NEW fmt \in {"s16le", "s24le"}, NEW buffer,
         buffer[1] \in 0 .. 255, buffer[2] \in 0 .. 255,
         fmt = "s24le" => buffer[3] \in 0 .. 255
  PROVE  AudioWord(fmt, ParseSample(fmt, buffer)) =
           IF fmt = "s16le" THEN 256 * (256 * buffer[2] + buffer[1])
           ELSE 65536 * buffer[3] + 256 * buffer[2] + buffer[1]
<1>1. CASE fmt = "s16le"
  <2> DEFINE u == buffer[2] * 256 + buffer[1]
             v == Signed(u, 32768)
  <2>1. u \in Nat /\ u < 65536
    <3> DEFINE x == buffer[1]
               y == buffer[2]
    <3>1. x \in 0 .. 255 /\ y \in 0 .. 255 /\ u = y * 256 + x  OBVIOUS
    <3> HIDE DEF x, y, u
    <3> QED  BY <3>1, SMT
  <2>2. ParseSample(fmt, buffer) = v  BY <1>1 DEF ParseSample
  <2>3. u = 256 * buffer[2] + buffer[1]  OBVIOUS
  <2> HIDE DEF u
  <2>4. v = u \/ v = u - 65536  BY <2>1 DEF Signed
  <2> HIDE DEF v
  <2>5. (v * 16) % 1048576 = 16 * u  BY <2>1, <2>4, SMT
  <2>6. SampleField(fmt, v) = (v * 16) % 1048576 /\ AuxField(fmt, v) = 0
    BY <1>1 DEF SampleField, AuxField, Depth
  <2>7. AudioWord(fmt, v) = 256 * u  BY <2>1, <2>5, <2>6 DEF AudioWord
  <2> QED  BY <1>1, <2>2, <2>3, <2>7
<1>2. CASE fmt = "s24le"
  <2> DEFINE u == buffer[3] * 65536 + buffer[2] * 256 + buffer[1]
             v == Signed(u, 8388608)
  <2>1. u \in Nat /\ u < 16777216
    <3> DEFINE x == buffer[1]
               y == buffer[2]
               z == buffer[3]
    <3>1. x \in 0 .. 255 /\ y \in 0 .. 255 /\ z \in 0 .. 255 /\ u = z * 65536 + y * 256 + x
      BY <1>2, SMT
    <3> HIDE DEF x, y, z, u
    <3> QED  BY <3>1, SMT
  <2>2. ParseSample(fmt, buffer) = v  BY <1>2, SMT DEF ParseSample
  <2>3. u = 65536 * buffer[3] + 256 * buffer[2] + buffer[1]  BY <1>2, SMT
  <2> HIDE DEF u
  <2>4. v = u \/ v = u - 16777216  BY <2>1, SMT DEF Signed
  <2> HIDE DEF v
  <2>5. (v \div 16) % 1048576 = u \div 16 /\ v % 16 = u % 16  BY <2>1, <2>4, SMT
  <2>6. SampleField(fmt, v) = (v \div 16) % 1048576 /\ AuxField(fmt, v) = v % 16
    BY <1>2, SMT DEF SampleField, AuxField, Depth
  <2>7. 16 * (u \div 16) + (u % 16) = u  BY <2>1, SMT
  <2>8. AudioWord(fmt, v) = u  BY <2>5, <2>6, <2>7 DEF AudioWord
  <2> QED  BY <1>2, <2>2, <2>3, <2>8
<1> QED  BY <1>1, <1>2

\* The sub-frame's bits 4 to 27 are the digits of its audio word.
LEMMA SubframeBits ==
  ASSUME NEW fmt, NEW smp \in Int, NEW cstatus, NEW stale, NEW i \in 4 .. 27
  PROVE  Subframe(fmt, smp, cstatus, stale)[i] = BitOf(AudioWord(fmt, smp), i - 4)
<1> DEFINE n == AudioWord(fmt, smp)
           parity == Ones(Raw(AuxField(fmt, smp), SampleField(fmt, smp), cstatus, 0)) % 2
<1>1. n \in Nat /\ n % 16 = AuxField(fmt, smp) /\ n \div 16 = SampleField(fmt, smp)
  BY AudioWordFields
<1>2. Subframe(fmt, smp, cstatus, stale) = Raw(n % 16, n \div 16, cstatus, parity)
  BY <1>1 DEF Subframe
<1> HIDE DEF n, parity
<1>3. Raw(n % 16, n \div 16, cstatus, parity)[i] = BitOf(n, i - 4)  BY <1>1, RawBits
<1> QED  BY <1>2, <1>3 DEF n

(***************************************************************************)
(* For every value of a sample's bytes the receiver's 24 bit word is the       *)
(* little-endian two's complement number they stand for, left-justified, in    *)
(* either format and whatever was in the sub-frame before.                    *)
(***************************************************************************)
THEOREM SampleAlwaysArrives == Spec => []SampleArrives
<1>1. SubframeInv => SampleArrives
  <2> SUFFICES ASSUME SubframeInv, pc = "send"
               PROVE  ReceivedAudio(code) =
                        IF format = "s16le" THEN 256 * (256 * input[2] + input[1])
                        ELSE 65536 * input[3] + 256 * input[2] + input[1]
    BY DEF SampleArrives
  <2> DEFINE n == AudioWord(format, sample)
             p == Preamble(channel, frame_index)
             cstatus == StatusBit(channel, frame_index)
  <2>1. sample \in Int /\ sample = ParseSample(format, input)
    BY SampleKnown DEF SubframeInv
  <2>2. n \in Nat /\ n < 2 * Power(23)  BY <2>1, AudioWordFields
  <2>3. \A i \in 4 .. 27 : Received(code, i) = BitOf(n, i - 4)
    <3>1. PICK stale \in Bit :
            /\ Subframe(format, sample, cstatus, stale) \in [0 .. 31 -> Bit]
            /\ p \in {"b", "m", "w"}
            /\ code = EncodeBiphaseMark(p, Subframe(format, sample, cstatus, stale))
      BY CodeKnown
    <3> TAKE i \in 4 .. 27
    <3> HIDE DEF p, cstatus
    <3>2. Received(code, i) = Subframe(format, sample, cstatus, stale)[i]
      <4>1. i \in 4 .. 31  OBVIOUS
      <4> QED  BY <3>1, <4>1, CodeTells
    <3> QED  BY <2>1, <3>2, SubframeBits
  <2> HIDE DEF n
  <2>4. ReceivedAudio(code) = n  BY <2>2, <2>3, AudioAddsUp
  <2>5. /\ format \in {"s16le", "s24le"} /\ input[1] \in 0 .. 255 /\ input[2] \in 0 .. 255
        /\ format = "s24le" => input[3] \in 0 .. 255
    <3>1. format \in {"s16le", "s24le"} /\ Bytes \subseteq 0 .. 255
      BY SpdifAssumption DEF SubframeInv, SpdifAssumption
    <3>2. input \in [1 .. Width -> Bytes]  BY DEF SubframeInv
    <3>3. Width \in {2, 3} /\ (format = "s24le" => Width = 3)  BY DEF Width
    <3>4. 1 \in 1 .. Width /\ 2 \in 1 .. Width /\ (format = "s24le" => 3 \in 1 .. Width)
      BY <3>3
    <3> QED  BY <3>1, <3>2, <3>4
  <2> QED  BY <2>1, <2>4, <2>5, FieldsOfSample DEF n
<1> QED  BY <1>1, AlwaysSubframe, PTL

-----------------------------------------------------------------------------
(* The channel status. *)

\* A field of which only the two least significant bits may be set.
LEMMA FieldValue ==
  ASSUME NEW bits, NEW first \in Nat, NEW width \in 1 .. 17,
         bits[first + 1] \in Int, width >= 2 => bits[first + 2] \in Int,
         \A i \in 3 .. width : bits[first + i] = 0
  PROVE  Field(bits, first, width) =
           IF width = 1 THEN bits[first + 1] ELSE bits[first + 1] + 2 * bits[first + 2]
<1> DEFINE Rule(value) ==
             value = [i \in 0 .. width |->
                        IF i = 0 THEN 0 ELSE value[i - 1] + bits[first + i] * Power(i - 1)]
           low == [i \in 0 .. width |->
                     IF i = 0 THEN 0 ELSE IF i = 1 THEN bits[first + 1]
                     ELSE bits[first + 1] + 2 * bits[first + 2]]
           sum == CHOOSE value : Rule(value)
<1>1. Field(bits, first, width) = sum[width]  BY DEF Field
<1>2. \A i \in 1 .. width : low[i] = low[i - 1] + bits[first + i] * Power(i - 1)
  <2> TAKE i \in 1 .. width
  <2>1. CASE i = 1
    <3>1. Power(i - 1) = 1  BY <2>1 DEF Power
    <3>2. low[i - 1] = 0 /\ low[i] = bits[first + 1]  BY <2>1
    <3> QED  BY <2>1, <3>1, <3>2
  <2>2. CASE i = 2
    <3>1. Power(i - 1) = 2  BY <2>2 DEF Power
    <3>2. low[i - 1] = bits[first + 1] /\ low[i] = bits[first + 1] + 2 * bits[first + 2]
      BY <2>2
    <3>3. bits[first + 2] \in Int  BY <2>2
    <3> HIDE DEF low
    <3>4. bits[first + i] * Power(i - 1) = 2 * bits[first + 2]  BY <2>2, <3>1, <3>3
    <3> QED  BY <3>2, <3>4
  <2>3. CASE i > 2
    <3>1. i - 1 \in 0 .. 23  BY <2>3
    <3>2. Power(i - 1) \in Nat  BY <3>1, PowerType
    <3>3. bits[first + i] = 0  BY <2>3
    <3>4. bits[first + i] * Power(i - 1) = 0  BY <3>2, <3>3
    <3>5. low[i] = low[i - 1]  BY <2>3
    <3>6. low[i] \in Int
      <4>1. bits[first + 2] \in Int  BY <2>3
      <4> QED  BY <2>3, <4>1
    <3> HIDE DEF low
    <3> QED  BY <3>4, <3>5, <3>6
  <2> QED  BY <2>1, <2>2, <2>3
<1>3. low[0] = 0  OBVIOUS
<1>4. Rule(low)
  <2>1. low = [i \in 0 .. width |-> low[i]]  OBVIOUS
  <2> HIDE DEF low
  <2>2. \A i \in 0 .. width :
          low[i] = IF i = 0 THEN 0 ELSE low[i - 1] + bits[first + i] * Power(i - 1)
    BY <1>2, <1>3
  <2> QED  BY <2>1, <2>2
<1>5. Rule(sum)  BY <1>4
<1>6. low[width] = IF width = 1 THEN bits[first + 1]
                   ELSE bits[first + 1] + 2 * bits[first + 2]
  OBVIOUS
<1> HIDE DEF low, sum
<1>7. sum[0] = low[0]  BY <1>3, <1>5
<1>8. \A i \in 1 .. 17 : i <= width /\ sum[i - 1] = low[i - 1] => sum[i] = low[i]
  <2> TAKE i \in 1 .. 17
  <2> SUFFICES ASSUME i <= width, sum[i - 1] = low[i - 1] PROVE sum[i] = low[i]
    OBVIOUS
  <2>1. sum[i] = sum[i - 1] + bits[first + i] * Power(i - 1)  BY <1>5
  <2> QED  BY <1>2, <2>1
<1> HIDE DEF Rule
<1>9. \A i \in 1 .. 6 : i <= width => sum[i] = low[i]
  BY <1>7, <1>8
<1>10. \A i \in 7 .. 12 : i <= width => sum[i] = low[i]
  BY <1>9, <1>8
<1>11. \A i \in 13 .. 17 : i <= width => sum[i] = low[i]
  BY <1>10, <1>8
<1> QED  BY <1>1, <1>6, <1>9, <1>10, <1>11

\* The sub-frame carries the bit of the channel status that it is given.
LEMMA StatusTold ==
  ASSUME SubframeInv, pc = "send"
  PROVE  /\ Received(code, 30) = StatusBit(channel, frame_index)
         /\ ReceivedPreamble(code) = Preamble(channel, frame_index)
<1> DEFINE p == Preamble(channel, frame_index)
           cstatus == StatusBit(channel, frame_index)
<1>1. PICK stale \in Bit :
        /\ Subframe(format, sample, cstatus, stale) \in [0 .. 31 -> Bit]
        /\ p \in {"b", "m", "w"}
        /\ code = EncodeBiphaseMark(p, Subframe(format, sample, cstatus, stale))
  BY CodeKnown
<1>2. Subframe(format, sample, cstatus, stale)[30] = cstatus  BY DEF Subframe, Raw
<1> HIDE DEF p, cstatus
<1>3. 30 \in 4 .. 31  OBVIOUS
<1>4. Received(code, 30) = cstatus  BY <1>1, <1>2, <1>3, CodeTells
<1>5. ReceivedPreamble(code) = p  BY <1>1, PreambleTells
<1> QED  BY <1>4, <1>5 DEF p, cstatus

\* One more bit of one channel.
LEMMA StatusGrows ==
  ASSUME NEW bits \in Seq(Bit), NEW c \in Channels, NEW i \in Nat, Len(bits) = i,
         \A k \in 1 .. Len(bits) : bits[k] = StatusBit(c, k - 1)
  PROVE  LET more == Append(bits, StatusBit(c, i))
         IN /\ more \in Seq(Bit) /\ Len(more) = i + 1
            /\ \A k \in 1 .. Len(more) : more[k] = StatusBit(c, k - 1)
<1> DEFINE more == Append(bits, StatusBit(c, i))
<1>1. StatusBit(c, i) \in Bit  BY StatusBitType
<1>2. /\ more \in Seq(Bit) /\ Len(more) = i + 1 /\ more[i + 1] = StatusBit(c, i)
      /\ \A k \in 1 .. i : more[k] = bits[k]
  BY <1>1, AppendProperties
<1> HIDE DEF more
<1>3. \A k \in 1 .. Len(more) : more[k] = StatusBit(c, k - 1)
  <2> TAKE k \in 1 .. Len(more)
  <2>1. CASE k = i + 1
    <3>1. k - 1 = i  BY <2>1
    <3> QED  BY <1>2, <2>1, <3>1
  <2>2. CASE k # i + 1
    <3>1. k \in 1 .. i  BY <1>2, <2>2
    <3> QED  BY <1>2, <3>1
  <2> QED  BY <2>1, <2>2
<1> QED  BY <1>2, <1>3 DEF more

LEMMA StatusStep == SubframeInv /\ StatusInv /\ [Next]_vars => StatusInv'
<1> SUFFICES ASSUME SubframeInv, StatusInv, [Next]_vars PROVE StatusInv'
  OBVIOUS
<1>1. CASE Parse \/ Build \/ UNCHANGED vars
  <2>1. UNCHANGED <<status, channel, frame_index>>  BY <1>1 DEF Parse, Build, vars
  <2> QED  BY <2>1 DEF StatusInv
<1>2. CASE Send
  <2> DEFINE f == frame_index
             bit == StatusBit(channel, f)
             nexta == Append(status.a, bit)
             nextb == Append(status.b, bit)
  <2>1. /\ f \in 0 .. FrameCount - 1 /\ FrameCount \in Nat \ {0}
        /\ status.a \in Seq(Bit) /\ status.b \in Seq(Bit)
    BY SpdifAssumption DEF SubframeInv, StatusInv, SpdifAssumption
  <2>2. /\ Received(code, 30) = bit /\ ReceivedPreamble(code) = Preamble(channel, f)
    BY <1>2, StatusTold DEF Send
  <2>3. /\ \A k \in 1 .. Len(status.a) : status.a[k] = StatusBit("a", k - 1)
        /\ \A k \in 1 .. Len(status.b) : status.b[k] = StatusBit("b", k - 1)
    BY DEF StatusInv, Channels
  <2>4. bit \in Bit  BY <2>1, StatusBitType
  <2>5. CASE channel = "a" /\ f = 0
    <3>1. status' = [a |-> <<bit>>, b |-> <<>>]
      BY <1>2, <2>2, <2>5 DEF Send, Collect, Preamble
    <3>2. channel' = "b" /\ frame_index' = 0  BY <1>2, <2>5 DEF Send
    <3>3. bit = StatusBit("a", 0)  BY <2>5
    <3> HIDE DEF bit
    <3>4. <<bit>> \in Seq(Bit) /\ Len(<<bit>>) = 1 /\ <<bit>>[1] = bit  BY <2>4
    <3>5. <<>> \in Seq(Bit) /\ Len(<<>>) = 0  OBVIOUS
    <3>6. /\ status'.a = <<bit>> /\ status'.b = <<>>
          /\ status' \in [a : Seq(Bit), b : Seq(Bit)]
      BY <3>1, <3>4, <3>5
    <3>7. \A k \in 1 .. Len(status'.a) : status'.a[k] = StatusBit("a", k - 1)
      <4>1. 1 - 1 = 0  OBVIOUS
      <4> QED  BY <3>3, <3>4, <3>6, <4>1
    <3>8. \A k \in 1 .. Len(status'.b) : status'.b[k] = StatusBit("b", k - 1)
      BY <3>5, <3>6
    <3>9. Len(status'.a) = 1 /\ Len(status'.b) = 0  BY <3>4, <3>5, <3>6
    <3> QED  BY <3>2, <3>6, <3>7, <3>8, <3>9 DEF StatusInv, Channels
  <2>6. CASE channel = "a" /\ f # 0
    <3>1. status' = [status EXCEPT !.a = nexta]
      BY <1>2, <2>2, <2>6 DEF Send, Collect, Preamble
    <3>2. channel' = "b" /\ frame_index' = f  BY <1>2, <2>6 DEF Send
    <3>3. Len(status.a) = f /\ Len(status.b) = f  BY <2>6 DEF StatusInv
    <3>4. bit = StatusBit("a", f) /\ "a" \in Channels /\ f \in Nat
      BY <2>1, <2>6 DEF Channels
    <3>5. /\ nexta \in Seq(Bit) /\ Len(nexta) = f + 1
          /\ \A k \in 1 .. Len(nexta) : nexta[k] = StatusBit("a", k - 1)
      BY <2>1, <2>3, <3>3, <3>4, StatusGrows
    <3> HIDE DEF nexta
    <3>6. /\ status'.a = nexta /\ status'.b = status.b
          /\ status' \in [a : Seq(Bit), b : Seq(Bit)]
      BY <3>1, <3>5 DEF StatusInv
    <3> QED  BY <2>3, <3>2, <3>3, <3>5, <3>6 DEF StatusInv, Channels
  <2>7. CASE channel = "b"
    <3>1. status' = [status EXCEPT !.b = nextb]
      BY <1>2, <2>2, <2>7 DEF Send, Collect, Preamble
    <3>2. channel' = "a" /\ frame_index' = (f + 1) % FrameCount  BY <1>2, <2>7 DEF Send
    <3>3. Len(status.a) = f + 1 /\ Len(status.b) = f  BY <2>7 DEF StatusInv
    <3>4. bit = StatusBit("b", f) /\ "b" \in Channels /\ f \in Nat
      BY <2>1, <2>7 DEF Channels
    <3>5. /\ nextb \in Seq(Bit) /\ Len(nextb) = f + 1
          /\ \A k \in 1 .. Len(nextb) : nextb[k] = StatusBit("b", k - 1)
      BY <2>1, <2>3, <3>3, <3>4, StatusGrows
    <3> HIDE DEF nextb
    <3>6. /\ status'.b = nextb /\ status'.a = status.a
          /\ status' \in [a : Seq(Bit), b : Seq(Bit)]
      BY <3>1, <3>5 DEF StatusInv
    <3>7. \/ frame_index' = f + 1
          \/ frame_index' = 0 /\ f + 1 = FrameCount
      <4>1. CASE f + 1 < FrameCount
        <5>1. f + 1 \in 0 .. FrameCount - 1  BY <2>1, <4>1
        <5> QED  BY <2>1, <3>2, <5>1, RemainderSmall
      <4>2. CASE f + 1 = FrameCount
        <5>1. FrameCount % FrameCount = 0  BY <2>1
        <5> QED  BY <3>2, <4>2, <5>1
      <4> QED  BY <2>1, <4>1, <4>2
    <3> QED  BY <2>3, <3>2, <3>3, <3>5, <3>6, <3>7 DEF StatusInv, Channels
  <2> QED  BY <2>5, <2>6, <2>7 DEF SubframeInv, Channels
<1> QED  BY <1>1, <1>2 DEF Next

\* The bits of the channel status, byte by byte.
LEMMA StatusBits ==
  ASSUME NEW c \in Channels
  PROVE  /\ StatusBit(c, 0) = 0 /\ StatusBit(c, 1) = 0 /\ StatusBit(c, 2) = 1
         /\ \A i \in 3 .. 19 : StatusBit(c, i) = 0
         /\ StatusBit(c, 20) = IF c = "a" THEN 1 ELSE 0
         /\ StatusBit(c, 21) = IF c = "a" THEN 0 ELSE 1
         /\ \A i \in 22 .. 23 : StatusBit(c, i) = 0
         /\ StatusBit(c, 24) = 1
         /\ \A i \in Nat : i > 24 => StatusBit(c, i) = 0
<1>1. /\ Power(0) = 1 /\ Power(1) = 2 /\ Power(2) = 4 /\ Power(3) = 8 /\ Power(4) = 16
      /\ Power(5) = 32 /\ Power(6) = 64 /\ Power(7) = 128
  BY DEF Power
<1>2. ASSUME NEW n \in Nat, NEW k \in 0 .. 7
      PROVE  StatusBit(c, 8*n + k) = (StatusByte(c, n) \div Power(k)) % 2
  <2>1. (8*n + k) \div 8 = n /\ (8*n + k) % 8 = k  OBVIOUS
  <2> QED  BY <2>1 DEF StatusBit
<1>3. ASSUME NEW k \in 0 .. 7
      PROVE  StatusBit(c, k) = IF k = 2 THEN 1 ELSE 0
  <2>1. StatusBit(c, k) = (StatusByte(c, 0) \div Power(k)) % 2
    <3>1. 8*0 + k = k  OBVIOUS
    <3> QED  BY <1>2, <3>1
  <2>2. StatusByte(c, 0) = 4  BY DEF StatusByte
  <2>3. k = 0 \/ k = 1 \/ k = 2 \/ k = 3 \/ k = 4 \/ k = 5 \/ k = 6 \/ k = 7  OBVIOUS
  <2> QED  BY <1>1, <2>1, <2>2, <2>3
<1>4. ASSUME NEW k \in 0 .. 7
      PROVE  StatusBit(c, 16 + k) = IF (k = 4 /\ c = "a") \/ (k = 5 /\ c # "a") THEN 1 ELSE 0
  <2>1. StatusBit(c, 16 + k) = (StatusByte(c, 2) \div Power(k)) % 2
    <3>1. 8*2 + k = 16 + k  OBVIOUS
    <3> QED  BY <1>2, <3>1
  <2>2. StatusByte(c, 2) = IF c = "a" THEN 16 ELSE 32  BY DEF StatusByte, ChannelNumber
  <2>3. k = 0 \/ k = 1 \/ k = 2 \/ k = 3 \/ k = 4 \/ k = 5 \/ k = 6 \/ k = 7  OBVIOUS
  <2> DEFINE b == StatusByte(c, 2)
             d == Power(k)
  <2>a. StatusBit(c, 16 + k) = (b \div d) % 2  BY <2>1
  <2>b. <<k, d>> \in {<<0, 1>>, <<1, 2>>, <<2, 4>>, <<3, 8>>, <<4, 16>>, <<5, 32>>, <<6, 64>>,
                     <<7, 128>>}
    BY <1>1, <2>3
  <2>c. b = IF c = "a" THEN 16 ELSE 32  BY <2>2
  <2> HIDE DEF b, d
  <2>4. CASE c = "a"
    <3>1. b = 16  BY <2>c, <2>4
    <3>2. (b \div d) % 2 = IF k = 4 THEN 1 ELSE 0  BY <3>1, <2>b
    <3> QED  BY <2>a, <3>2, <2>4
  <2>5. CASE c # "a"
    <3>1. b = 32  BY <2>c, <2>5
    <3>2. (b \div d) % 2 = IF k = 5 THEN 1 ELSE 0  BY <3>1, <2>b
    <3> QED  BY <2>a, <3>2, <2>5
  <2> QED  BY <2>4, <2>5
<1>5. ASSUME NEW k \in 0 .. 7
      PROVE  StatusBit(c, 24 + k) = IF k = 0 THEN 1 ELSE 0
  <2>1. StatusBit(c, 24 + k) = (StatusByte(c, 3) \div Power(k)) % 2
    <3>1. 8*3 + k = 24 + k  OBVIOUS
    <3> QED  BY <1>2, <3>1
  <2>2. StatusByte(c, 3) = 1  BY DEF StatusByte
  <2>3. k = 0 \/ k = 1 \/ k = 2 \/ k = 3 \/ k = 4 \/ k = 5 \/ k = 6 \/ k = 7  OBVIOUS
  <2> QED  BY <1>1, <2>1, <2>2, <2>3
<1>6. ASSUME NEW n \in Nat, n = 1 \/ n > 3, NEW k \in 0 .. 7
      PROVE  StatusBit(c, 8*n + k) = 0
  <2>1. StatusByte(c, n) = 0  BY <1>6 DEF StatusByte
  <2>2. k \in 0 .. 23  OBVIOUS
  <2>3. Power(k) \in Nat \ {0}  BY <2>2, PowerType
  <2> DEFINE p == Power(k)
  <2>4. p \in Nat \ {0}  BY <2>3
  <2>5. StatusBit(c, 8*n + k) = (0 \div p) % 2  BY <1>2, <2>1
  <2> HIDE DEF p
  <2>6. 0 \div p = 0  BY <2>4
  <2> QED  BY <2>5, <2>6
<1>7. \A i \in 3 .. 19 : StatusBit(c, i) = 0
  <2> TAKE i \in 3 .. 19
  <2>1. CASE i < 8
    BY <2>1, <1>3
  <2>2. CASE i >= 8 /\ i < 16
    <3>1. i - 8 \in 0 .. 7 /\ 8*1 + (i - 8) = i  BY <2>2
    <3> QED  BY <1>6, <3>1
  <2>3. CASE i >= 16
    <3>1. i - 16 \in 0 .. 7 /\ 16 + (i - 16) = i /\ i - 16 # 4 /\ i - 16 # 5  BY <2>3
    <3> QED  BY <1>4, <3>1
  <2> QED  BY <2>1, <2>2, <2>3
<1>8. \A i \in 22 .. 23 : StatusBit(c, i) = 0
  <2> TAKE i \in 22 .. 23
  <2>1. i - 16 \in 0 .. 7 /\ 16 + (i - 16) = i /\ i - 16 # 4 /\ i - 16 # 5  OBVIOUS
  <2> QED  BY <1>4, <2>1
<1>9. \A i \in Nat : i > 24 => StatusBit(c, i) = 0
  <2> SUFFICES ASSUME NEW i \in Nat, i > 24 PROVE StatusBit(c, i) = 0
    OBVIOUS
  <2>1. CASE i < 32
    <3>1. i - 24 \in 0 .. 7 /\ 24 + (i - 24) = i /\ i - 24 # 0  BY <2>1
    <3> QED  BY <1>5, <3>1
  <2>2. CASE i >= 32
    <3>1. /\ i \div 8 \in Nat /\ i \div 8 > 3 /\ i % 8 \in 0 .. 7
          /\ 8 * (i \div 8) + (i % 8) = i
      BY <2>2
    <3> QED  BY <1>6, <3>1
  <2> QED  BY <2>1, <2>2
<1>10. /\ StatusBit(c, 20) = IF c = "a" THEN 1 ELSE 0
       /\ StatusBit(c, 21) = IF c = "a" THEN 0 ELSE 1
       /\ StatusBit(c, 24) = 1
  <2>1. \A k \in 0 .. 7 : k = 4 => StatusBit(c, 16 + k) = IF c = "a" THEN 1 ELSE 0
    BY <1>4
  <2>2. \A k \in 0 .. 7 : k = 5 => StatusBit(c, 16 + k) = IF c = "a" THEN 0 ELSE 1
    BY <1>4
  <2>3. \A k \in 0 .. 7 : k = 0 => StatusBit(c, 24 + k) = 1
    BY <1>5
  <2>4. 16 + 4 = 20 /\ 16 + 5 = 21 /\ 24 + 0 = 24 /\ 4 \in 0 .. 7 /\ 5 \in 0 .. 7 /\ 0 \in 0 .. 7
    OBVIOUS
  <2> QED  BY <2>1, <2>2, <2>3, <2>4
<1> QED  BY <1>3, <1>7, <1>8, <1>9, <1>10

LEMMA AlwaysStatus == Spec => []StatusInv
<1>1. Init => StatusInv
  <2> SUFFICES ASSUME Init PROVE StatusInv
    OBVIOUS
  <2>1. status = [a |-> <<>>, b |-> <<>>] /\ frame_index = 0 /\ channel = "a"  BY DEF Init
  <2>2. <<>> \in Seq(Bit) /\ Len(<<>>) = 0  OBVIOUS
  <2>3. status.a = <<>> /\ status.b = <<>> /\ status \in [a : Seq(Bit), b : Seq(Bit)]
    BY <2>1, <2>2
  <2>4. Len(status.a) = 0 /\ Len(status.b) = 0  BY <2>2, <2>3
  <2> QED  BY <2>1, <2>3, <2>4 DEF StatusInv, Channels
<1> QED  BY <1>1, AlwaysSubframe, StatusStep, PTL DEF Spec

\* What the fields of a whole channel status say.
LEMMA StatusSays ==
  ASSUME NEW c \in Channels, NEW bits, FrameCount >= 28,
         \A i \in 1 .. FrameCount : bits[i] = StatusBit(c, i - 1)
  PROVE  /\ Field(bits, 0, 2) = 0
         /\ Field(bits, 2, 1) = 1
         /\ Field(bits, 3, 17) = 0
         /\ Field(bits, 20, 4) = IF c = "a" THEN 1 ELSE 2
         /\ Field(bits, 24, 4) = 1
         /\ \A i \in 29 .. FrameCount : bits[i] = 0
<1>1. FrameCount \in Nat  BY SpdifAssumption DEF SpdifAssumption
<1>2. \A i \in 0 .. FrameCount - 1 : bits[i + 1] = StatusBit(c, i)
  <2> TAKE i \in 0 .. FrameCount - 1
  <2>1. i + 1 \in 1 .. FrameCount /\ (i + 1) - 1 = i  BY <1>1
  <2> QED  BY <2>1
<1>3. bits[1] = 0 /\ bits[2] = 0 /\ bits[3] = 1
  <2>1. /\ 0 \in 0 .. FrameCount - 1 /\ 1 \in 0 .. FrameCount - 1 /\ 2 \in 0 .. FrameCount - 1
        /\ 0 + 1 = 1 /\ 1 + 1 = 2 /\ 2 + 1 = 3
    BY <1>1
  <2> QED  BY <1>2, <2>1, StatusBits
<1>4. \A i \in 4 .. 20 : bits[i] = 0
  <2> TAKE i \in 4 .. 20
  <2>1. i - 1 \in 3 .. 19 /\ i \in 1 .. FrameCount  BY <1>1
  <2> QED  BY <2>1, StatusBits
<1>5. bits[21] = (IF c = "a" THEN 1 ELSE 0) /\ bits[22] = (IF c = "a" THEN 0 ELSE 1)
  <2>1. /\ 20 \in 0 .. FrameCount - 1 /\ 21 \in 0 .. FrameCount - 1
        /\ 20 + 1 = 21 /\ 21 + 1 = 22
    BY <1>1
  <2> QED  BY <1>2, <2>1, StatusBits
<1>6. bits[23] = 0 /\ bits[24] = 0 /\ bits[25] = 1
  <2>1. /\ 22 \in 0 .. FrameCount - 1 /\ 23 \in 0 .. FrameCount - 1
        /\ 24 \in 0 .. FrameCount - 1 /\ 22 \in 22 .. 23 /\ 23 \in 22 .. 23
        /\ 22 + 1 = 23 /\ 23 + 1 = 24 /\ 24 + 1 = 25
    BY <1>1
  <2> QED  BY <1>2, <2>1, StatusBits
<1>7. \A i \in 26 .. FrameCount : bits[i] = 0
  <2> TAKE i \in 26 .. FrameCount
  <2>1. i - 1 \in Nat /\ i - 1 > 24 /\ i \in 1 .. FrameCount  BY <1>1
  <2> QED  BY <2>1, StatusBits
<1>8. Field(bits, 0, 2) = 0
  <2>1. /\ bits[0 + 1] = 0 /\ bits[0 + 2] = 0 /\ 0 \in Nat /\ 2 \in 1 .. 17
        /\ \A i \in 3 .. 2 : bits[0 + i] = 0
    BY <1>3
  <2>2. Field(bits, 0, 2) = bits[0 + 1] + 2 * bits[0 + 2]  BY <2>1, FieldValue
  <2> QED  BY <2>1, <2>2
<1>9. Field(bits, 2, 1) = 1
  <2>1. /\ bits[2 + 1] = 1 /\ 2 \in Nat /\ 1 \in 1 .. 17 /\ ~(1 >= 2)
        /\ \A i \in 3 .. 1 : bits[2 + i] = 0
    BY <1>3
  <2>2. Field(bits, 2, 1) = bits[2 + 1]  BY <2>1, FieldValue
  <2> QED  BY <2>1, <2>2
<1>10. Field(bits, 3, 17) = 0
  <2>1. /\ bits[3 + 1] = 0 /\ bits[3 + 2] = 0 /\ 3 \in Nat /\ 17 \in 1 .. 17
        /\ \A i \in 3 .. 17 : bits[3 + i] = 0
    BY <1>4
  <2>2. Field(bits, 3, 17) = bits[3 + 1] + 2 * bits[3 + 2]  BY <2>1, FieldValue
  <2> QED  BY <2>1, <2>2
<1>11. Field(bits, 20, 4) = IF c = "a" THEN 1 ELSE 2
  <2>1. /\ bits[20 + 1] = (IF c = "a" THEN 1 ELSE 0)
        /\ bits[20 + 2] = (IF c = "a" THEN 0 ELSE 1)
        /\ 20 \in Nat /\ 4 \in 1 .. 17
        /\ \A i \in 3 .. 4 : bits[20 + i] = 0
    BY <1>5, <1>6
  <2>2. bits[20 + 1] \in Int /\ bits[20 + 2] \in Int  BY <2>1
  <2>3. Field(bits, 20, 4) = bits[20 + 1] + 2 * bits[20 + 2]  BY <2>1, <2>2, FieldValue
  <2> QED  BY <2>1, <2>3
<1>12. Field(bits, 24, 4) = 1
  <2>1. /\ bits[24 + 1] = 1 /\ bits[24 + 2] = 0 /\ 24 \in Nat /\ 4 \in 1 .. 17
        /\ \A i \in 3 .. 4 : bits[24 + i] = 0
    BY <1>1, <1>6, <1>7
  <2>2. Field(bits, 24, 4) = bits[24 + 1] + 2 * bits[24 + 2]  BY <2>1, FieldValue
  <2> QED  BY <2>1, <2>2
<1> QED  BY <1>7, <1>8, <1>9, <1>10, <1>11, <1>12

(***************************************************************************)
(* From one B preamble to the next each channel carries one whole channel     *)
(* status that says what spdif_populate_channel_status() means it to.  A block *)
(* of fewer than 28 frames would end within the frequency's field; the code's  *)
(* SPDIF_FRAME_COUNT is 192.                                                 *)
(***************************************************************************)
THEOREM StatusAlwaysArrives ==
  ASSUME FrameCount >= 28
  PROVE  Spec => []StatusArrives
<1>1. SubframeInv /\ StatusInv => StatusArrives
  <2> SUFFICES ASSUME SubframeInv, StatusInv PROVE StatusArrives
    OBVIOUS
  <2>1. pc = "parse" /\ frame_index = 0 /\ channel = "a" /\ status.a # <<>> =>
          Len(status.a) = FrameCount /\ Len(status.b) = FrameCount
    <3>1. status.a \in Seq(Bit)  BY DEF StatusInv
    <3>2. status.a # <<>> => Len(status.a) # 0  BY <3>1, EmptySeq
    <3> QED  BY <3>2 DEF StatusInv
  <2>2. ASSUME NEW c \in Channels, Len(status[c]) = FrameCount
        PROVE  /\ Field(status[c], 0, 2) = 0
               /\ Field(status[c], 2, 1) = 1
               /\ Field(status[c], 3, 17) = 0
               /\ Field(status[c], 20, 4) = IF c = "a" THEN 1 ELSE 2
               /\ Field(status[c], 24, 4) = 1
               /\ \A i \in 29 .. FrameCount : status[c][i] = 0
    <3> DEFINE bits == status[c]
    <3>1. \A i \in 1 .. FrameCount : bits[i] = StatusBit(c, i - 1)  BY <2>2 DEF StatusInv
    <3> HIDE DEF bits
    <3>2. /\ Field(bits, 0, 2) = 0
          /\ Field(bits, 2, 1) = 1
          /\ Field(bits, 3, 17) = 0
          /\ Field(bits, 20, 4) = IF c = "a" THEN 1 ELSE 2
          /\ Field(bits, 24, 4) = 1
          /\ \A i \in 29 .. FrameCount : bits[i] = 0
      BY <3>1, StatusSays
    <3> QED  BY <3>2 DEF bits
  <2> QED  BY <2>1, <2>2 DEF StatusArrives
<1> QED  BY <1>1, AlwaysSubframe, AlwaysStatus, PTL
=============================================================================

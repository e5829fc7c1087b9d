------------------------- MODULE PacedStreamProofs -------------------------
(***************************************************************************)
(* Theorems of PacedStream and of the queue it implements, for every size of  *)
(* the ring, every input and every pace within the program's tolerance.      *)
(***************************************************************************)
EXTENDS PacedStreamQueue, RaspdifStreamProofs, FiniteSetTheorems

USE DEF Buffers, Offsets, Frames

-----------------------------------------------------------------------------
(* The ring as one circle of slots. *)

RingSize == BufferCount * BufferSize
Place(b, p) == b * BufferSize + p
NextPlace(i) == IF i = RingSize - 1 THEN 0 ELSE i + 1

\* How many frames it takes the DMA from place i to place j.
Distance(i, j) == IF i <= j THEN j - i ELSE (j - i) + RingSize

LEMMA RingSizes ==
  ASSUME StreamAssumption
  PROVE  /\ BufferCount \in Nat /\ BufferCount > 1 /\ BufferSize \in Nat \ {0}
         /\ RingSize \in Nat /\ RingSize > BufferSize
         /\ (BufferCount - 1) * BufferSize = RingSize - BufferSize
<1>1. BufferCount \in Nat /\ BufferCount > 1 /\ BufferSize \in Nat \ {0}
  BY DEF StreamAssumption
<1>2. BufferSize * 1 + BufferSize <= BufferSize * BufferCount  BY <1>1, MultiplesApart
<1>3. BufferSize * BufferCount = RingSize  BY <1>1 DEF RingSize
<1>4. (BufferCount - 1) * BufferSize = BufferCount * BufferSize - BufferSize  BY <1>1
<1>5. RingSize \in Nat  BY <1>1 DEF RingSize
<1>6. RingSize > BufferSize
  <2> DEFINE r == RingSize
             rr == BufferSize * BufferCount
  <2>1. rr = r /\ BufferSize + BufferSize <= rr /\ r \in Nat  BY <1>1, <1>2, <1>3, <1>5
  <2> HIDE DEF r, rr
  <2>2. r > BufferSize  BY <2>1, <1>1
  <2> QED  BY <2>2 DEF r
<1> QED  BY <1>1, <1>4, <1>5, <1>6 DEF RingSize

\* The first slots of two buffers are at least a buffer apart.
LEMMA BuffersApart ==
  ASSUME StreamAssumption, NEW b \in Nat, NEW c \in Nat, b < c
  PROVE  Place(b, 0) \in Nat /\ Place(c, 0) \in Nat /\ Place(b, 0) + BufferSize <= Place(c, 0)
<1>1. BufferSize \in Nat \ {0}  BY RingSizes
<1>2. BufferSize * b + BufferSize <= BufferSize * c  BY <1>1, MultiplesApart
<1>3. /\ Place(b, 0) = BufferSize * b /\ Place(c, 0) = BufferSize * c
      /\ BufferSize * b \in Nat /\ BufferSize * c \in Nat
  BY <1>1 DEF Place
<1> QED  BY <1>2, <1>3

LEMMA PlaceInRing ==
  ASSUME StreamAssumption, NEW b \in Buffers, NEW p \in Offsets
  PROVE  /\ Place(b, p) \in 0 .. RingSize - 1
         /\ Place(b, 0) \in Nat
         /\ Place(b, p) = Place(b, 0) + p
         /\ Place(b, 0) + BufferSize <= RingSize
<1>1. BufferSize \in Nat \ {0} /\ RingSize \in Nat /\ BufferCount \in Nat  BY RingSizes
<1>2. Place(BufferCount, 0) = RingSize  BY <1>1 DEF Place, RingSize
<1>3. b \in Nat /\ p \in Nat /\ b < BufferCount /\ p < BufferSize  BY <1>1
<1>4. Place(b, 0) \in Nat /\ Place(b, 0) + BufferSize <= RingSize
  BY <1>1, <1>2, <1>3, BuffersApart
<1>5. Place(b, p) = Place(b, 0) + p  BY <1>1, <1>3 DEF Place
<1> HIDE DEF Place
<1>6. Place(b, p) \in 0 .. RingSize - 1  BY <1>1, <1>3, <1>4, <1>5
<1> QED  BY <1>4, <1>5, <1>6

LEMMA PlaceTellsSlot ==
  ASSUME StreamAssumption, NEW b \in Buffers, NEW p \in Offsets,
         NEW c \in Buffers, NEW q \in Offsets, Place(b, p) = Place(c, q)
  PROVE  b = c /\ p = q
<1>1. BufferSize \in Nat \ {0} /\ BufferCount \in Nat  BY RingSizes
<1>2. /\ Place(b, p) = Place(b, 0) + p /\ Place(c, q) = Place(c, 0) + q
      /\ Place(b, 0) \in Nat /\ Place(c, 0) \in Nat
  BY PlaceInRing
<1> DEFINE s == BufferSize
           i == Place(b, 0)
           k == Place(c, 0)
<1>3. i + p = k + q /\ i \in Nat /\ k \in Nat /\ s \in Nat /\ p \in 0 .. s - 1 /\ q \in 0 .. s - 1
  BY <1>1, <1>2
<1>4. b \in Nat /\ c \in Nat  BY <1>1
<1>5. (b < c => i + s <= k) /\ (c < b => k + s <= i)  BY <1>4, BuffersApart
<1>6. b = c => i = k  OBVIOUS
<1> HIDE DEF s, i, k
<1>7. ~(b < c) /\ ~(c < b)  BY <1>3, <1>5
<1>8. b = c  BY <1>4, <1>7
<1> QED  BY <1>3, <1>6, <1>8

\* One slot on, in the same buffer or at the beginning of the next.
LEMMA PlaceAdvances ==
  ASSUME StreamAssumption, NEW b \in Buffers, NEW p \in Offsets, NEW c, NEW q,
         IF p = BufferSize - 1 THEN c = NextBuffer(b) /\ q = 0 ELSE c = b /\ q = p + 1
  PROVE  c \in Buffers /\ q \in Offsets /\ Place(c, q) = NextPlace(Place(b, p))
<1>1. /\ BufferSize \in Nat \ {0} /\ RingSize \in Nat /\ RingSize > BufferSize
      /\ BufferCount \in Nat /\ BufferCount > 1
  BY RingSizes
<1>2. Place(b, p) = Place(b, 0) + p /\ Place(b, 0) \in Nat /\ Place(b, 0) + BufferSize <= RingSize
  BY PlaceInRing
<1>3. CASE p # BufferSize - 1
  <2>1. c = b /\ q = p + 1 /\ q \in Offsets  BY <1>1, <1>3
  <2>2. Place(c, q) = Place(b, 0) + q  BY <2>1, PlaceInRing
  <2> QED  BY <1>1, <1>2, <1>3, <2>1, <2>2 DEF NextPlace
<1>4. CASE p = BufferSize - 1
  <2>1. c = NextBuffer(b) /\ q = 0 /\ q \in Offsets  BY <1>1, <1>4
  <2>2. c \in Buffers /\ c = IF b = BufferCount - 1 THEN 0 ELSE b + 1  BY <2>1, NextInRing
  <2>3. Place(b + 1, 0) = Place(b, 0) + BufferSize
    BY <1>1 DEF Place
  <2>4. CASE b = BufferCount - 1
    <3>1. Place(BufferCount, 0) = RingSize /\ b + 1 = BufferCount
      BY <1>1, <2>4 DEF Place, RingSize
    <3>2. Place(b, p) = RingSize - 1
      <4> HIDE DEF Place
      <4>1. Place(b, 0) + BufferSize = RingSize  BY <2>3, <3>1
      <4> QED  BY <1>1, <1>2, <1>4, <4>1
    <3>3. c = 0 /\ Place(0, 0) = 0  BY <1>1, <2>2, <2>4 DEF Place
    <3> QED  BY <2>1, <2>2, <3>2, <3>3 DEF NextPlace
  <2>5. CASE b # BufferCount - 1
    <3>1. c = b + 1 /\ Place(c, q) = Place(b, 0) + BufferSize  BY <2>1, <2>2, <2>3, <2>5
    <3>2. Place(c, 0) + BufferSize <= RingSize  BY <2>2, PlaceInRing
    <3>3. Place(c, q) = Place(b, p) + 1 /\ Place(b, p) # RingSize - 1
      <4> HIDE DEF Place
      <4> QED  BY <1>1, <1>2, <1>4, <2>1, <3>1, <3>2
    <3> QED  BY <2>1, <2>2, <3>3 DEF NextPlace
  <2> QED  BY <2>4, <2>5
<1> QED  BY <1>3, <1>4

\* Both ends of a distance move.
LEMMA Distances ==
  ASSUME StreamAssumption, NEW i \in 0 .. RingSize - 1, NEW j \in 0 .. RingSize - 1
  PROVE  /\ Distance(i, j) \in 0 .. RingSize - 1
         /\ Distance(i, j) = 0 <=> i = j
         /\ NextPlace(i) \in 0 .. RingSize - 1
         /\ Distance(i, NextPlace(j)) = IF Distance(i, j) = RingSize - 1 THEN 0
                                        ELSE Distance(i, j) + 1
         /\ Distance(NextPlace(i), j) = IF i = j THEN RingSize - 1 ELSE Distance(i, j) - 1
         /\ Distance(i, j) = 1 <=> j = NextPlace(i)
         /\ Distance(i, j) = RingSize - 1 <=> i = NextPlace(j)
<1>1. RingSize \in Nat /\ RingSize > 1  BY RingSizes
<1> DEFINE r == RingSize
<1>2. r \in Nat /\ r > 1 /\ i \in 0 .. r - 1 /\ j \in 0 .. r - 1  BY <1>1
<1>3. Distance(i, j) = IF i <= j THEN j - i ELSE (j - i) + r  BY DEF Distance
<1>4. NextPlace(i) = IF i = r - 1 THEN 0 ELSE i + 1  BY DEF NextPlace
<1>5. NextPlace(j) = IF j = r - 1 THEN 0 ELSE j + 1  BY DEF NextPlace
<1> DEFINE k == NextPlace(i)
           l == NextPlace(j)
<1>6. Distance(i, l) = IF i <= l THEN l - i ELSE (l - i) + r  BY DEF Distance
<1>7. Distance(k, j) = IF k <= j THEN j - k ELSE (j - k) + r  BY DEF Distance
<1> HIDE DEF r, k, l
<1>8. /\ k = IF i = r - 1 THEN 0 ELSE i + 1
      /\ l = IF j = r - 1 THEN 0 ELSE j + 1
  BY <1>4, <1>5 DEF k, l
<1>9. k \in 0 .. r - 1 /\ l \in 0 .. r - 1  BY <1>2, <1>8
<1>10. Distance(i, j) \in 0 .. r - 1 /\ (Distance(i, j) = 0 <=> i = j)  BY <1>2, <1>3
<1>11. Distance(i, l) = IF Distance(i, j) = r - 1 THEN 0 ELSE Distance(i, j) + 1
  BY <1>2, <1>3, <1>6, <1>8
<1>12. Distance(k, j) = IF i = j THEN r - 1 ELSE Distance(i, j) - 1
  BY <1>2, <1>3, <1>7, <1>8
<1>13. Distance(i, j) = 1 <=> j = k  BY <1>2, <1>3, <1>8
<1>14. Distance(i, j) = r - 1 <=> i = l  BY <1>2, <1>3, <1>8
<1> QED  BY <1>9, <1>10, <1>11, <1>12, <1>13, <1>14 DEF r, k, l

\* From one place on, distances are as good as places.
LEMMA DistanceTellsPlace ==
  ASSUME StreamAssumption, NEW i \in 0 .. RingSize - 1, NEW j \in 0 .. RingSize - 1,
         NEW k \in 0 .. RingSize - 1, Distance(i, j) = Distance(i, k)
  PROVE  j = k
<1> DEFINE r == RingSize
<1>1. r \in Nat /\ i \in 0 .. r - 1 /\ j \in 0 .. r - 1 /\ k \in 0 .. r - 1  BY RingSizes
<1> DEFINE x == Distance(i, j)
<1>2. /\ x = IF i <= j THEN j - i ELSE (j - i) + r
      /\ x = IF i <= k THEN k - i ELSE (k - i) + r
  BY DEF Distance
<1> HIDE DEF r, x
<1>3. CASE i <= j
  <2>1. x = j - i /\ x < r - i  BY <1>1, <1>2, <1>3
  <2>2. i <= k  BY <1>1, <1>2, <2>1
  <2> QED  BY <1>1, <1>2, <2>1, <2>2
<1>4. CASE ~(i <= j)
  <2>1. x = (j - i) + r /\ x >= r - i  BY <1>1, <1>2, <1>4
  <2>2. ~(i <= k)  BY <1>1, <1>2, <2>1
  <2> QED  BY <1>1, <1>2, <2>1, <2>2
<1> QED  BY <1>3, <1>4

\* Less than a buffer from the beginning of a buffer is in that buffer.
LEMMA DistanceInBuffer ==
  ASSUME StreamAssumption, NEW b \in Buffers, NEW c \in Buffers, NEW q \in Offsets
  PROVE  /\ Distance(Place(b, 0), Place(c, q)) \in 0 .. RingSize - 1
         /\ Distance(Place(b, 0), Place(c, q)) < BufferSize <=> b = c
         /\ b = c => Distance(Place(b, 0), Place(c, q)) = q
<1> DEFINE s == BufferSize
           r == RingSize
           i == Place(b, 0)
           k == Place(c, 0)
           j == Place(c, q)
<1>1. s \in Nat \ {0} /\ r \in Nat /\ q \in 0 .. s - 1 /\ b \in Nat /\ c \in Nat  BY RingSizes
<1>2. i \in Nat /\ i + s <= r /\ k \in Nat /\ k + s <= r /\ j = k + q
  <2>1. 0 \in Offsets  BY <1>1
  <2> QED  BY <2>1, PlaceInRing
<1>3. b < c => i + s <= k  BY <1>1, BuffersApart
<1>4. c < b => k + s <= i  BY <1>1, BuffersApart
<1>5. Distance(i, j) = IF i <= j THEN j - i ELSE (j - i) + r  BY DEF Distance
<1>6. b = c => i = k  OBVIOUS
<1> HIDE DEF s, r, i, j, k
<1>7. b = c => Distance(i, j) = q  BY <1>1, <1>2, <1>5, <1>6
<1>8. b < c => Distance(i, j) \in s .. r - 1  BY <1>1, <1>2, <1>3, <1>5
<1>9. c < b => Distance(i, j) \in s .. r - 1  BY <1>1, <1>2, <1>4, <1>5
<1>10. b = c \/ b < c \/ c < b  BY <1>1
<1>11. q < s /\ q \in 0 .. r - 1  BY <1>1, <1>2
<1> QED  BY <1>1, <1>7, <1>8, <1>9, <1>10, <1>11 DEF s, r, i, j

\* From further on in a buffer, or from the next one, it is so much less far to
\* another buffer.
LEMMA DistanceShrinks ==
  ASSUME StreamAssumption, NEW b \in Buffers, NEW p \in Offsets,
         NEW c \in Buffers, NEW q \in Offsets, b # c
  PROVE  /\ Distance(Place(b, p), Place(c, q)) = Distance(Place(b, 0), Place(c, q)) - p
         /\ Distance(Place(NextBuffer(b), 0), Place(c, q))
              = Distance(Place(b, 0), Place(c, q)) - BufferSize
<1> DEFINE s == BufferSize
           r == RingSize
           d == NextBuffer(b)
           i == Place(b, 0)
           n == Place(d, 0)
           m == Place(b, p)
           j == Place(c, q)
<1>1. /\ s \in Nat \ {0} /\ r \in Nat /\ q \in 0 .. s - 1 /\ p \in 0 .. s - 1
      /\ b \in Nat /\ c \in Nat /\ r > s /\ BufferCount \in Nat
  BY RingSizes
<1>2. i \in Nat /\ i + s <= r /\ m = i + p /\ j \in 0 .. r - 1
  BY PlaceInRing
<1>3. d \in Buffers /\ d = IF b = BufferCount - 1 THEN 0 ELSE b + 1  BY NextInRing
<1>4. IF b = BufferCount - 1 THEN i + s = r /\ n = 0 ELSE n = i + s
  <2>1. Place(b + 1, 0) = Place(b, 0) + BufferSize  BY <1>1 DEF Place
  <2>2. Place(BufferCount, 0) = RingSize /\ Place(0, 0) = 0  BY <1>1 DEF Place, RingSize
  <2>3. b = BufferCount - 1 => b + 1 = BufferCount  BY <1>1
  <2> QED  BY <1>3, <2>1, <2>2, <2>3
<1>5. Distance(i, j) \in 0 .. r - 1 /\ ~(Distance(i, j) < s)  BY DistanceInBuffer
<1>6. /\ Distance(i, j) = IF i <= j THEN j - i ELSE (j - i) + r
      /\ Distance(m, j) = IF m <= j THEN j - m ELSE (j - m) + r
      /\ Distance(n, j) = IF n <= j THEN j - n ELSE (j - n) + r
  BY DEF Distance
<1> DEFINE last == b = BufferCount - 1
<1>7. IF last THEN i + s = r /\ n = 0 ELSE n = i + s  BY <1>4
<1> HIDE DEF s, r, i, j, n, m, d, last
<1>8. Distance(m, j) = Distance(i, j) - p  BY <1>1, <1>2, <1>5, <1>6
<1>9. Distance(n, j) = Distance(i, j) - s
  <2>1. CASE last  BY <1>1, <1>2, <1>5, <1>6, <1>7, <2>1
  <2>2. CASE ~last  BY <1>1, <1>2, <1>5, <1>6, <1>7, <2>2
  <2> QED  BY <2>1, <2>2
<1> QED  BY <1>8, <1>9 DEF s, r, i, j, n, m, d

-----------------------------------------------------------------------------
(* Where program and DMA are on the circle. *)

Filling == pc \in {"fill_rest", "fill_check", "fill_sleep", "fill_write"}
Storing == pc \in {"write", "fill_rest", "fill_write"}
OnAir   == pc \notin {"preload", "start", "done"}

\* The buffer the program writes, and the slot of it.  An input shorter than the
\* ring leaves sample_count where pre-loading stopped, and nothing is written.
Current == IF Filling THEN fill_index ELSE buffer_index
Whole   == \A b \in Buffers : \A p \in Offsets : ring[b][p].a # Unset
Offset  == IF Whole THEN Position ELSE 0

WritePlace == Place(Current, Offset)
DmaPlace   == Place(dmaBlock, dmaFrame)

\* How far the DMA is beyond the beginning of that buffer.
Ahead == Distance(Place(Current, 0), DmaPlace)

(***************************************************************************)
(* What the program can afford.  It may be late by a buffer, and by all but   *)
(* one of them together with a sleep; poll() leaves it with the DMA at any     *)
(* distance, so with the first buffer after it no frame is to be lost.        *)
(***************************************************************************)
Tolerance ==
  /\ MaxSleep + Lag <= (BufferCount - 1) * BufferSize
  /\ Lag <= BufferSize
  /\ Input = "file" \/ ResumeLag = 0

\* What holds of the stream at any pace.
StreamInv ==
  TypeOK /\ FillProgress /\ DmaRuns /\ PreloadProgress /\ PreloadOrder /\ EofIsFinal

LEMMA PacedStep == [PacedNext]_pacedVars => [Next]_vars
BY DEF PacedNext, PacedProgram, PacedSource, Tick, pacedVars, Next

LEMMA PacedIsStream == PacedSpec => Spec
<1>1. PacedInit => Init  BY DEF PacedInit
<1> QED  BY <1>1, PacedStep, PTL DEF PacedSpec, Spec

LEMMA StreamInvariant == PacedSpec => []StreamInv
<1>1. TypeOK /\ FillProgress /\ DmaRuns /\ PreloadProgress /\ PreloadOrder /\ EofIsFinal
      => StreamInv
  BY DEF StreamInv
<1> QED
  BY <1>1, PacedIsStream, TypeCorrect, FillProgressInvariant, DmaRunsInvariant,
     PreloadProgressInvariant, PreloadOrderInvariant, EofIsFinalInvariant, PTL

\* Encoding one slot, from wherever the program does it.
LEMMA StoreEffect ==
  ASSUME StreamAssumption, TypeOK, PreloadProgress, Whole, Write \/ FillRest \/ FillWrite
  PROVE  /\ Storing /\ OnAir /\ OnAir' /\ Whole'
         /\ Current \in Buffers /\ Position \in Offsets
         /\ Current' \in Buffers /\ Position' \in Offsets
         /\ \E x, y :
              /\ x = IF pc = "write" THEN samples[1] ELSE Quiet
              /\ BufferSamples(Current, x, y)
              /\ \A b \in Buffers : \A p \in Offsets :
                   ring'[b][p] = IF b = Current /\ p = Position THEN Slot(x, y, frame_index)
                                 ELSE ring[b][p]
         /\ frame_index' = (frame_index + 1) % FrameCount
         /\ Full <=> Position = BufferSize - 1
         /\ IF Full THEN Current' = NextBuffer(Current) /\ Position' = 0
                    ELSE Current' = Current /\ Position' = Position + 1
         /\ pc' = IF Full /\ pc # "write" THEN "fill_check"
                  ELSE IF pc = "write" THEN "check" ELSE pc
         /\ WritePlace = Place(Current, Position) /\ WritePlace' = Place(Current', Position')
         /\ WritePlace' = NextPlace(WritePlace)
         /\ UNCHANGED <<samples, fileVars, inputVars, dmaVars, txOn, wire>>
<1> USE DEF Filling
<1>1. Storing /\ OnAir /\ OnAir'
  BY DEF Storing, OnAir, Write, FillRest, FillWrite
<1>2. Current \in Buffers
  <2>1. CASE Write  BY <2>1 DEF Write, Current, TypeOK
  <2>2. CASE FillRest \/ FillWrite  BY <2>2 DEF FillRest, FillWrite, Current, TypeOK
  <2> QED  BY <2>1, <2>2
<1>3. Position \in Offsets /\ (Full <=> Position = BufferSize - 1)
  BY PositionSteps DEF TypeOK
<1>4. PICK x, y : /\ x = (IF pc = "write" THEN samples[1] ELSE Quiet)
                  /\ BufferSamples(Current, x, y)
  <2>1. CASE Write  BY <2>1 DEF Write, Current
  <2>2. CASE FillRest \/ FillWrite  BY <2>2 DEF FillRest, FillWrite, Current
  <2> QED  BY <2>1, <2>2
<1>5. frame_index' = (frame_index + 1) % FrameCount  BY <1>4 DEF BufferSamples
<1>6. x # Unset  BY <1>4 DEF PreloadProgress, Quiet, Unset
<1>7. Whole'  BY <1>2, <1>4, <1>6, StoreKeepsEncoded DEF Whole
<1>8. Position' = IF Full THEN 0 ELSE Position + 1
  <2>1. sample_count' = (sample_count + 1) % SampleCountMod  BY <1>4 DEF BufferSamples
  <2>2. sample_count' % BufferSize = IF Full THEN 0 ELSE Position + 1
    BY <2>1, PositionSteps DEF TypeOK
  <2> QED  BY <2>2 DEF Position
<1>9. Current' = IF Full THEN NextBuffer(Current) ELSE Current
  <2>1. CASE Write  BY <2>1 DEF Write, Current
  <2>2. CASE FillRest \/ FillWrite  BY <2>2 DEF FillRest, FillWrite, Current
  <2> QED  BY <2>1, <2>2
<1>10. pc' = IF Full /\ pc # "write" THEN "fill_check"
             ELSE IF pc = "write" THEN "check" ELSE pc
  BY DEF Write, FillRest, FillWrite
<1>11. /\ Current' \in Buffers /\ Position' \in Offsets
       /\ Place(Current', Position') = NextPlace(Place(Current, Position))
  <2>1. IF Position = BufferSize - 1 THEN Current' = NextBuffer(Current) /\ Position' = 0
        ELSE Current' = Current /\ Position' = Position + 1
    BY <1>3, <1>8, <1>9
  <2> QED  BY <1>2, <1>3, <2>1, PlaceAdvances
<1>12. WritePlace = Place(Current, Position) /\ WritePlace' = Place(Current', Position')
  <2>1. Offset = Position /\ Offset' = Position'  BY <1>7 DEF Offset
  <2>2. WritePlace' = Place(Current', Offset')  BY DEF WritePlace, Place
  <2> QED  BY <2>1, <2>2 DEF WritePlace
<1>13. UNCHANGED <<samples, fileVars, inputVars, dmaVars, txOn, wire>>
  BY DEF Write, FillRest, FillWrite
<1>14. \A b \in Buffers : \A p \in Offsets :
         ring'[b][p] = IF b = Current /\ p = Position THEN Slot(x, y, frame_index)
                       ELSE ring[b][p]
  BY <1>2, <1>4, StoredSlot
<1> QED
  BY <1>1, <1>2, <1>3, <1>4, <1>5, <1>7, <1>8, <1>9, <1>10, <1>11, <1>12, <1>13, <1>14

Looking == Check \/ Wake \/ ReadFrame \/ Underrun \/ FillCheck \/ FillWake

\* Looking at the DMA, sleeping and reading move nothing.
LEMMA LookingEffect ==
  ASSUME StreamAssumption, TypeOK, Looking
  PROVE  /\ OnAir /\ OnAir' /\ Current \in Buffers
         /\ UNCHANGED <<ring, sample_count, frame_index, dmaVars, txOn, wire>>
         /\ UNCHANGED <<Current, Position, Whole, WritePlace, DmaPlace, Ahead>>
<1>1. OnAir /\ OnAir' /\ UNCHANGED <<ring, sample_count, frame_index, dmaVars, txOn, wire>>
  BY DEF OnAir, Looking, Check, Wake, ReadFrame, Underrun, FillCheck, FillWake, programVars
<1>2. Current' = Current /\ Current \in Buffers
  BY DEF Looking, Check, Wake, ReadFrame, Underrun, FillCheck, FillWake, programVars,
         Current, Filling, TypeOK
<1>3. UNCHANGED <<Position, Whole>>  BY <1>1 DEF Position, Whole
<1>4. UNCHANGED <<WritePlace, DmaPlace>>
  BY <1>1, <1>2, <1>3 DEF WritePlace, DmaPlace, Place, Offset, dmaVars
<1>5. UNCHANGED Ahead  BY <1>2, <1>4 DEF Ahead, Distance, Place, RingSize
<1> QED  BY <1>1, <1>2, <1>3, <1>4, <1>5

\* A frame goes out: the DMA is one place further.
LEMMA TransmitEffect ==
  ASSUME StreamAssumption, TypeOK, Transmit
  PROVE  /\ wire' = ring[dmaBlock][dmaFrame]
         /\ DmaPlace \in 0 .. RingSize - 1 /\ DmaPlace' = NextPlace(DmaPlace)
         /\ dmaBlock' \in Buffers /\ dmaFrame' \in Offsets
         /\ UNCHANGED <<pc, programVars, ring, fileVars, inputVars, dmaActive, txOn>>
         /\ UNCHANGED <<Current, Position, Whole, WritePlace>>
<1>1. /\ wire' = ring[dmaBlock][dmaFrame]
      /\ UNCHANGED <<pc, programVars, ring, fileVars, inputVars, dmaActive, txOn>>
  BY DEF Transmit
<1>2. UNCHANGED <<Current, Position, Whole>>
  BY <1>1 DEF Current, Filling, Position, Whole, programVars
<1>3. UNCHANGED WritePlace  BY <1>2 DEF WritePlace, Place, Offset
<1>4. dmaBlock \in Buffers /\ dmaFrame \in Offsets /\ BufferSize \in Nat \ {0}
  BY DEF TypeOK, StreamAssumption
<1>5. dmaFrame \in Nat /\ dmaFrame % BufferSize = dmaFrame  BY <1>4, RemainderSmall
<1>6. dmaFrame' = IF dmaFrame = BufferSize - 1 THEN 0 ELSE dmaFrame + 1
  <2>1. (dmaFrame + 1) % BufferSize
          = IF dmaFrame % BufferSize = BufferSize - 1 THEN 0 ELSE (dmaFrame % BufferSize) + 1
    BY <1>4, <1>5, RemainderSucc
  <2> QED  BY <1>5, <2>1 DEF Transmit
<1>7. IF dmaFrame = BufferSize - 1 THEN dmaBlock' = NextBuffer(dmaBlock) /\ dmaFrame' = 0
      ELSE dmaBlock' = dmaBlock /\ dmaFrame' = dmaFrame + 1
  BY <1>4, <1>6 DEF Transmit
<1>8. /\ dmaBlock' \in Buffers /\ dmaFrame' \in Offsets
      /\ Place(dmaBlock', dmaFrame') = NextPlace(Place(dmaBlock, dmaFrame))
  BY <1>4, <1>7, PlaceAdvances
<1>9. DmaPlace' = Place(dmaBlock', dmaFrame')  BY DEF DmaPlace, Place
<1>10. DmaPlace \in 0 .. RingSize - 1  BY <1>4, PlaceInRing DEF DmaPlace
<1> QED  BY <1>1, <1>2, <1>3, <1>8, <1>9, <1>10 DEF DmaPlace

-----------------------------------------------------------------------------
(* Pre-loading: what the DMA will find when it is started. *)

\* A slot holds its place in the input and in the blocks, or was never encoded.
AsLoaded(b, p) ==
  IF Loaded(b, p) THEN /\ ring[b][p].a = BytesBefore(b, p)
                       /\ ring[b][p].frame = Place(b, p) % FrameCount
  ELSE ring[b][p].a = Unset

BeforeStart ==
  pc \in {"preload", "start"} =>
    /\ ~dmaActive /\ dmaBlock = 0 /\ dmaFrame = 0
    /\ wire.a = Unset /\ sent = -1 /\ lag = 0
    /\ buffer_index = BufferCount => Position = 0
    /\ frame_index = Place(buffer_index, Position) % FrameCount
    /\ \A b \in Buffers : \A p \in Offsets : AsLoaded(b, p)

LEMMA BeforeStartInit == ASSUME StreamAssumption, PacedInit PROVE BeforeStart
<1>1. /\ BufferCount \in Nat \ {0} /\ BufferSize \in Nat \ {0} /\ FrameCount \in Nat \ {0}
      /\ SampleCountMod \in Nat \ {0}
  BY DEF StreamAssumption
<1>2. Init /\ lag = 0 /\ sent = -1  BY DEF PacedInit
<1>3. Position = 0  BY <1>1, <1>2, RemainderSmall DEF Init, Position
<1>4. buffer_index = 0 /\ frame_index = 0  BY <1>2 DEF Init
<1>5. Place(0, 0) = 0 /\ 0 % FrameCount = 0  BY <1>1, RemainderSmall DEF Place
<1>6. ASSUME NEW b \in Buffers, NEW p \in Offsets PROVE AsLoaded(b, p)
  <2>1. ~Loaded(b, p)  BY <1>1, <1>3, <1>4 DEF Loaded
  <2>2. ring[b][p] = Slot(Unset, Unset, 0)  BY <1>2 DEF Init
  <2> QED  BY <2>1, <2>2 DEF AsLoaded, Slot
<1>7. ~dmaActive /\ dmaBlock = 0 /\ dmaFrame = 0 /\ wire.a = Unset  BY <1>2 DEF Init, Slot
<1> QED  BY <1>2, <1>3, <1>4, <1>5, <1>6, <1>7 DEF BeforeStart

LEMMA PreloadStoreLoads ==
  ASSUME StreamAssumption, StreamInv, BeforeStart, PreloadStore, lag' = 0, sent' = sent
  PROVE  BeforeStart'
<1>1. /\ pc = "preload" /\ buffer_index \in Buffers /\ TypeOK
      /\ BufferSamples(buffer_index, samples'[1], samples'[2])
      /\ UNCHANGED <<dmaVars, wire>>
  BY DEF PreloadStore, StreamInv, TypeOK
<1>2. /\ BufferCount \in Nat /\ BufferSize \in Nat \ {0} /\ FrameCount \in Nat \ {0}
      /\ FrameBytes \in Nat /\ read \in Nat
  BY <1>1, BytesNat DEF StreamAssumption
<1>3. /\ Position \in Offsets /\ (Full <=> Position = BufferSize - 1)
      /\ sample_count' % BufferSize = IF Full THEN 0 ELSE Position + 1
  BY <1>1, PositionSteps DEF TypeOK, BufferSamples
<1>4. /\ Position' = IF Full THEN 0 ELSE Position + 1
      /\ buffer_index' = IF Full THEN buffer_index + 1 ELSE buffer_index
  BY <1>3 DEF Position, PreloadStore
<1>5. samples'[1] = BytesBefore(buffer_index, Position)
  <2>1. SampleSize \in Nat \ {0} /\ Taken >= SampleSize  BY <1>1, BytesNat DEF PreloadStore
  <2>2. ~eof  BY <1>1, <1>2, <2>1 DEF StreamInv, EofIsFinal, Taken, Available
  <2>3. read = BytesBefore(buffer_index, Position)  BY <1>1, <2>2 DEF StreamInv, PreloadOrder
  <2>4. SampleRead(1) = read
    <3>1. Taken >= (1 - 1) * SampleSize + SampleSize /\ read + (1 - 1) * SampleSize = read
      BY <1>2, <2>1
    <3> QED  BY <3>1 DEF SampleRead
  <2>5. samples'[1] = SampleRead(1)  BY DEF PreloadStore, Fread
  <2> QED  BY <2>3, <2>4, <2>5
<1>6. Place(buffer_index', Position') = Place(buffer_index, Position) + 1
  <2>1. Place(buffer_index + 1, 0) = Place(buffer_index, BufferSize - 1) + 1
    BY <1>1, <1>2 DEF Place
  <2>2. Place(buffer_index, Position + 1) = Place(buffer_index, Position) + 1
    BY <1>1, <1>2, <1>3 DEF Place
  <2> QED  BY <1>3, <1>4, <2>1, <2>2
<1>7. frame_index' = Place(buffer_index', Position') % FrameCount
  <2>1. Place(buffer_index, Position) \in Nat  BY <1>1, <1>2, <1>3 DEF Place
  <2>2. frame_index = Place(buffer_index, Position) % FrameCount  BY <1>1 DEF BeforeStart
  <2>3. (Place(buffer_index, Position) + 1) % FrameCount = (frame_index + 1) % FrameCount
    BY <1>2, <2>1, <2>2, RemainderCarries
  <2> QED  BY <1>1, <1>6, <2>3 DEF BufferSamples
<1>8. buffer_index' = BufferCount => Position' = 0  BY <1>1, <1>2, <1>4
<1>9. ASSUME NEW b \in Buffers, NEW p \in Offsets PROVE AsLoaded(b, p)'
  <2>1. ring'[b][p] = IF b = buffer_index /\ p = Position
                      THEN Slot(samples'[1], samples'[2], frame_index) ELSE ring[b][p]
    BY <1>1, StoredSlot
  <2>2. Loaded(b, p)' <=> Loaded(b, p) \/ (b = buffer_index /\ p = Position)
    <3>1. Loaded(b, p)' <=> b < buffer_index' \/ (b = buffer_index' /\ p < Position')
      BY DEF Loaded
    <3>2. CASE Full  BY <1>1, <1>2, <1>3, <1>4, <3>1, <3>2 DEF Loaded
    <3>3. CASE ~Full  BY <1>1, <1>2, <1>3, <1>4, <3>1, <3>3 DEF Loaded
    <3> QED  BY <3>2, <3>3
  <2>3. AsLoaded(b, p)  BY <1>1 DEF BeforeStart
  <2>4. AsLoaded(b, p)' <=>
          IF Loaded(b, p)' THEN /\ ring'[b][p].a = BytesBefore(b, p)
                                /\ ring'[b][p].frame = Place(b, p) % FrameCount
          ELSE ring'[b][p].a = Unset
    BY DEF AsLoaded, BytesBefore, Place
  <2>5. CASE b = buffer_index /\ p = Position
    <3>1. ring'[b][p].a = BytesBefore(b, p) /\ ring'[b][p].frame = frame_index
      BY <1>5, <2>1, <2>5 DEF Slot
    <3>2. frame_index = Place(b, p) % FrameCount  BY <1>1, <2>5 DEF BeforeStart
    <3> QED  BY <2>2, <2>4, <2>5, <3>1, <3>2
  <2>6. CASE ~(b = buffer_index /\ p = Position)
    BY <2>1, <2>2, <2>3, <2>4, <2>6 DEF AsLoaded
  <2> QED  BY <2>5, <2>6
<1>10. /\ ~dmaActive' /\ dmaBlock' = 0 /\ dmaFrame' = 0 /\ wire'.a = Unset
       /\ sent' = -1
  BY <1>1 DEF BeforeStart, dmaVars
<1>11. (Place(buffer_index, Position) % FrameCount)' = Place(buffer_index', Position') % FrameCount
  BY DEF Place
<1>12. frame_index' = (Place(buffer_index, Position) % FrameCount)'  BY <1>7, <1>11
<1> QED  BY <1>8, <1>9, <1>10, <1>12 DEF BeforeStart

LEMMA BeforeStartStep ==
  ASSUME StreamAssumption, StreamInv, BeforeStart, [PacedNext]_pacedVars
  PROVE  BeforeStart'
<1> SUFFICES ASSUME pc' \in {"preload", "start"} PROVE BeforeStart'  BY DEF BeforeStart
<1>1. ASSUME pc \in {"preload", "start"}, lag' = 0, sent' = sent,
             UNCHANGED <<buffer_index, sample_count, frame_index, ring, dmaVars, wire>>
      PROVE  BeforeStart'
  BY <1>1 DEF BeforeStart, AsLoaded, Loaded, Position, Place, BytesBefore, dmaVars
<1>2. CASE PacedProgram
  <2>1. Program /\ sent' = sent  BY <1>2 DEF PacedProgram
  <2>2. PreloadStore \/ PreloadEnd
    BY <2>1 DEF Program, Start, Check, Wake, ReadFrame, Write, Shutdown, Underrun, FillRest,
                FillCheck, FillWake, FillWrite, Idle, Resume
  <2>3. lag' = 0
    <3>1. pc = "preload"  BY <2>2 DEF PreloadStore, PreloadEnd
    <3>2. lag' = 0 \/ lag' = lag  BY <1>2, <3>1 DEF PacedProgram
    <3> QED  BY <3>1, <3>2 DEF BeforeStart
  <2>4. CASE PreloadStore  BY <2>1, <2>3, <2>4, PreloadStoreLoads
  <2>5. CASE PreloadEnd  BY <1>1, <2>1, <2>3, <2>5 DEF PreloadEnd
  <2> QED  BY <2>2, <2>4, <2>5
<1>3. CASE PacedSource \/ UNCHANGED pacedVars
  <2>1. /\ UNCHANGED <<pc, buffer_index, sample_count, frame_index, ring, dmaVars, wire>>
        /\ UNCHANGED <<lag, sent>>
    BY <1>3 DEF PacedSource, Source, SourceWrite, SourceClose, pacedVars, vars, programVars
  <2>2. pc \in {"preload", "start"} /\ lag' = 0  BY <2>1 DEF BeforeStart
  <2> QED  BY <1>1, <2>1, <2>2
<1>4. CASE Tick
  <2>1. dmaActive /\ pc' = pc  BY <1>4 DEF Tick, Transmit
  <2> QED  BY <2>1 DEF BeforeStart
<1> QED  BY <1>2, <1>3, <1>4 DEF PacedNext

LEMMA BeforeStartInvariant == PacedSpec => []BeforeStart
<1>1. PacedInit => BeforeStart  BY StreamAssumption, BeforeStartInit
<1>2. StreamInv /\ BeforeStart /\ [PacedNext]_pacedVars => BeforeStart'
  BY StreamAssumption, BeforeStartStep
<1> QED  BY <1>1, <1>2, StreamInvariant, PTL DEF PacedSpec

\* At the start a ring is whole, or the input has ended short of it.
LEMMA StartOnRing ==
  ASSUME StreamAssumption, StreamInv, BeforeStart, pc = "start"
  PROVE  IF Whole THEN Position = 0 ELSE eof /\ ring[BufferCount - 1][BufferSize - 1].a = Unset
<1>1. /\ BufferCount \in Nat /\ BufferCount > 1 /\ BufferSize \in Nat \ {0}
      /\ FrameBytes \in Nat /\ buffer_index \in 0 .. BufferCount
  BY DEF StreamAssumption, FrameBytes, StreamInv, TypeOK
<1>2. BufferCount - 1 \in Buffers /\ BufferSize - 1 \in Offsets  BY <1>1
<1>3. Position \in Offsets  BY PositionSteps DEF StreamInv, TypeOK
<1>4. Loaded(BufferCount - 1, BufferSize - 1) <=> buffer_index = BufferCount
  BY <1>1, <1>3 DEF Loaded
<1>5. CASE Whole
  <2>1. ring[BufferCount - 1][BufferSize - 1].a # Unset  BY <1>2, <1>5 DEF Whole
  <2>2. Loaded(BufferCount - 1, BufferSize - 1)  BY <1>2, <2>1 DEF BeforeStart, AsLoaded
  <2> QED  BY <1>4, <1>5, <2>2 DEF BeforeStart
<1>6. CASE ~Whole
  <2>1. PICK b \in Buffers, p \in Offsets : ring[b][p].a = Unset  BY <1>6 DEF Whole
  <2>2. BytesBefore(b, p) \in Nat  BY <1>1, BytesOfNext
  <2>3. ~Loaded(b, p)  BY <2>1, <2>2 DEF BeforeStart, AsLoaded, Unset
  <2>4. buffer_index # BufferCount  BY <1>1, <2>3 DEF Loaded
  <2>5. eof  BY <2>4 DEF StreamInv, PreloadOrder
  <2>6. ring[BufferCount - 1][BufferSize - 1].a = Unset
    BY <1>2, <1>4, <2>4 DEF BeforeStart, AsLoaded
  <2> QED  BY <1>6, <2>5, <2>6
<1> QED  BY <1>5, <1>6

-----------------------------------------------------------------------------
(* The DMA stays off the buffer the program is at. *)

Clocked == slept \in 0 .. MaxSleep /\ lag \in 0 .. Lag /\ (~Asleep => slept = 0)

FilesNeverWait == Input = "file" => closed /\ ~Filling /\ pc # "poll"

\* A ring that pre-loading could not fill is played once and never written.
ShortInput ==
  OnAir /\ ~Whole =>
    /\ pc = "check" /\ eof /\ buffer_index = 0
    /\ ring[BufferCount - 1][BufferSize - 1].a = Unset

(***************************************************************************)
(* A sleep begins with the DMA in the buffer that the program wants.  Awake,  *)
(* the program has the rest of its lag before the DMA gets there.           *)
(***************************************************************************)
InTime ==
  /\ Asleep => Position = 0 /\ lag = 0 /\ Ahead < BufferSize + slept
  /\ OnAir /\ ~Asleep /\ pc # "poll" => Ahead + (Lag - lag) < RingSize

OffDma ==
  Storing \/ pc = "read" \/ (pc = "check" /\ Offset # 0) => dmaBlock # Current

Pace == Clocked /\ FilesNeverWait /\ ShortInput /\ InTime /\ OffDma

LEMMA AheadInRing ==
  ASSUME StreamAssumption, dmaBlock \in Buffers, dmaFrame \in Offsets, Current \in Buffers
  PROVE  /\ Ahead \in 0 .. RingSize - 1
         /\ Ahead < BufferSize <=> dmaBlock = Current
BY DistanceInBuffer DEF Ahead, DmaPlace

\* Outside pre-loading the program is in a buffer of the ring.
LEMMA CurrentInRing == ASSUME TypeOK, OnAir PROVE Current \in Buffers
BY DEF TypeOK, OnAir, Current

\* The constants of the pace, and how they fit the ring.
LEMMA PaceSizes ==
  ASSUME StreamAssumption, PaceAssumption, Tolerance
  PROVE  /\ MaxSleep \in Nat \ {0} /\ Lag \in Nat /\ BufferSize \in Nat \ {0} /\ RingSize \in Nat
         /\ BufferSize + MaxSleep + Lag <= RingSize
         /\ Lag <= BufferSize /\ BufferSize < RingSize
<1>1. /\ BufferSize \in Nat \ {0} /\ RingSize \in Nat /\ RingSize > BufferSize
      /\ (BufferCount - 1) * BufferSize = RingSize - BufferSize
  BY RingSizes
<1>2. MaxSleep \in Nat \ {0} /\ Lag \in Nat  BY DEF PaceAssumption
<1>3. MaxSleep + Lag <= RingSize - BufferSize /\ Lag <= BufferSize  BY <1>1 DEF Tolerance
<1> QED  BY <1>1, <1>2, <1>3

\* What a step of the program does to its clocks.
LEMMA ProgramClocks ==
  ASSUME PaceAssumption, Clocked, PacedProgram, pc # "poll"
  PROVE  /\ Clocked' /\ slept' = 0 /\ lag' \in {0, lag} /\ lag \in 0 .. Lag /\ lag' \in 0 .. Lag
         /\ Asleep' => lag' = 0
         /\ ~Asleep' /\ pc' # "poll" /\ ~BufferDone => lag' = lag
<1>1. MaxSleep \in Nat /\ Lag \in Nat  BY DEF PaceAssumption
<1>2. slept' = 0 /\ lag' = IF Asleep' \/ pc' = "poll" \/ BufferDone THEN 0 ELSE lag
  BY DEF PacedProgram
<1> QED  BY <1>1, <1>2 DEF Clocked

\* The first buffer after poll() begins with less to spare.
LEMMA ResumeClocks ==
  ASSUME PaceAssumption, Clocked, PacedProgram, pc = "poll"
  PROVE  Clocked' /\ slept' = 0 /\ lag' = Lag - ResumeLag
<1>1. MaxSleep \in Nat /\ Lag \in Nat /\ ResumeLag \in 0 .. Lag  BY DEF PaceAssumption
<1>2. slept' = 0 /\ lag' = Lag - ResumeLag  BY DEF PacedProgram
<1>3. Lag - ResumeLag \in 0 .. Lag  BY <1>1
<1> QED  BY <1>1, <1>2, <1>3 DEF Clocked

\* A store moves the program on, and another buffer closer to the DMA.
LEMMA StoreKeepsPace ==
  ASSUME StreamAssumption, PaceAssumption, Tolerance, StreamInv, Pace, PacedProgram,
         Write \/ FillRest \/ FillWrite
  PROVE  Pace' /\ dmaBlock # Current
<1> USE DEF StreamInv
<1>1. Whole  BY DEF Pace, ShortInput, OnAir, Write, FillRest, FillWrite
<1>2. /\ Storing /\ OnAir /\ OnAir' /\ Whole'
      /\ Current \in Buffers /\ Position \in Offsets /\ Current' \in Buffers
      /\ Full <=> Position = BufferSize - 1
      /\ IF Full THEN Current' = NextBuffer(Current) /\ Position' = 0
                 ELSE Current' = Current /\ Position' = Position + 1
      /\ pc' = IF Full /\ pc # "write" THEN "fill_check"
               ELSE IF pc = "write" THEN "check" ELSE pc
      /\ UNCHANGED <<inputVars, dmaVars>>
  BY <1>1, StoreEffect
<1>3. dmaBlock # Current  BY <1>2 DEF Pace, OffDma
<1>4. ~Asleep /\ ~Asleep' /\ pc # "poll" /\ pc' # "poll"  BY <1>2 DEF Asleep, Storing
<1>5. /\ Clocked' /\ lag' \in 0 .. Lag /\ lag \in 0 .. Lag
      /\ ~BufferDone => lag' = lag
  BY <1>4, ProgramClocks DEF Pace
<1>6. dmaBlock \in Buffers /\ dmaFrame \in Offsets  BY DEF TypeOK
<1>7. dmaBlock' = dmaBlock /\ dmaFrame' = dmaFrame /\ closed' = closed
  BY <1>2 DEF dmaVars, inputVars
<1>8. Ahead' = Distance(Place(Current', 0), Place(dmaBlock, dmaFrame))
  BY <1>7 DEF Ahead, DmaPlace, Distance, Place, RingSize
<1>9. InTime'
  <2>1. /\ Ahead \in 0 .. RingSize - 1 /\ Ahead + (Lag - lag) < RingSize
        /\ Lag \in Nat /\ BufferSize \in Nat \ {0} /\ RingSize \in Nat /\ Lag <= BufferSize
    BY <1>2, <1>4, <1>6, AheadInRing, PaceSizes DEF Pace, InTime
  <2>2. Ahead' + (Lag - lag') < RingSize
    <3>1. CASE Full
      <4>1. Ahead' = Ahead - BufferSize
        BY <1>2, <1>3, <1>6, <1>8, <3>1, DistanceShrinks DEF Ahead, DmaPlace
      <4> DEFINE a == Ahead
                 b == Ahead'
                 l == lag'
                 r == RingSize
      <4>2. /\ b = a - BufferSize /\ a \in 0 .. r - 1 /\ r \in Nat
            /\ l \in 0 .. Lag /\ Lag \in Nat /\ Lag <= BufferSize /\ BufferSize \in Nat
        BY <1>5, <2>1, <4>1
      <4> HIDE DEF a, b, l, r
      <4>3. b + (Lag - l) < r  BY <4>2
      <4> QED  BY <4>3 DEF b, l, r
    <3>2. CASE ~Full
      <4>1. Ahead' = Ahead  BY <1>2, <1>8, <3>2 DEF Ahead, DmaPlace
      <4>2. Position' # 0  BY <1>2, <2>1, <3>2
      <4>3. lag' = lag  BY <1>5, <4>2 DEF BufferDone
      <4> QED  BY <2>1, <4>1, <4>3
    <3> QED  BY <3>1, <3>2
  <2>3. (Ahead + (Lag - lag) < RingSize)' <=> Ahead' + (Lag - lag') < RingSize
    BY DEF RingSize
  <2> QED  BY <1>4, <2>2, <2>3 DEF InTime
<1>10. OffDma'
  <2>1. Full => pc' # "read" /\ ~Storing' /\ Offset' = 0
    BY <1>2 DEF Storing, Offset
  <2>2. ~Full => dmaBlock' # Current'  BY <1>2, <1>3, <1>7
  <2> QED  BY <2>1, <2>2 DEF OffDma
<1>11. FilesNeverWait'  BY <1>2, <1>4, <1>7 DEF Pace, FilesNeverWait, Filling, Storing
<1> QED  BY <1>2, <1>3, <1>5, <1>9, <1>10, <1>11 DEF Pace, ShortInput

\* Looking, sleeping and reading.
LEMMA LookingKeepsPace ==
  ASSUME StreamAssumption, PaceAssumption, Tolerance, StreamInv, Pace, PacedProgram, Looking
  PROVE  Pace'
<1> USE DEF StreamInv
<1>1. /\ OnAir /\ OnAir' /\ Current \in Buffers
      /\ UNCHANGED <<ring, sample_count, dmaVars>>
      /\ UNCHANGED <<Current, Position, Whole, Ahead>>
  BY LookingEffect
<1>2. Whole
  BY DEF Looking, Check, Wake, ReadFrame, Underrun, FillCheck, FillWake, Pace, ShortInput, OnAir
<1>3. ~BufferDone  BY <1>1 DEF BufferDone
<1>4. pc # "poll" /\ pc' # "poll"
  BY DEF Looking, Check, Wake, ReadFrame, Underrun, FillCheck, FillWake
<1>5. /\ Clocked' /\ slept' = 0 /\ lag' \in {0, lag} /\ lag \in 0 .. Lag
      /\ Asleep' => lag' = 0
      /\ ~Asleep' => lag' = lag
  BY <1>3, <1>4, ProgramClocks DEF Pace
<1>6. /\ Ahead \in 0 .. RingSize - 1 /\ (Ahead < BufferSize <=> dmaBlock = Current)
  BY <1>1, AheadInRing DEF TypeOK
<1>7. /\ MaxSleep \in Nat /\ Lag \in Nat /\ BufferSize \in Nat \ {0} /\ RingSize \in Nat
      /\ BufferSize + MaxSleep + Lag <= RingSize
  BY PaceSizes
<1>8. RingSize' = RingSize /\ BufferSize' = BufferSize  BY DEF RingSize
<1>9. dmaBlock' = dmaBlock  BY <1>1 DEF dmaVars
<1>10. Offset = Position /\ Offset' = Position  BY <1>1, <1>2 DEF Offset
<1>11. CASE Check \/ FillCheck
  <2>1. /\ ~Asleep /\ ~Storing /\ pc # "read"
        /\ IF dmaBlock = Current THEN Asleep' /\ ~Storing' /\ pc' \notin {"read", "check"}
                                 ELSE ~Asleep'
    BY <1>11 DEF Check, FillCheck, Asleep, Storing, Current, Filling
  <2>2. dmaBlock = Current => Position = 0
    <3>1. CASE Check  BY <1>10, <3>1 DEF Check, Pace, OffDma
    <3>2. CASE FillCheck  BY <3>2 DEF FillCheck, FillProgress
    <3> QED  BY <1>11, <3>1, <3>2
  <2>3. Ahead + (Lag - lag) < RingSize  BY <1>1, <1>4, <2>1 DEF Pace, InTime
  <2>4. InTime'
    <3>1. CASE dmaBlock = Current
      <4>1. Position' = 0 /\ lag' = 0 /\ Ahead' < BufferSize + slept'
        BY <1>1, <1>5, <1>6, <1>7, <2>1, <2>2, <3>1
      <4> QED  BY <2>1, <3>1, <4>1 DEF InTime
    <3>2. CASE dmaBlock # Current
      <4>1. Ahead' + (Lag - lag') < RingSize  BY <1>1, <1>5, <2>1, <2>3, <3>2
      <4> QED  BY <1>8, <2>1, <3>2, <4>1 DEF InTime
    <3> QED  BY <3>1, <3>2
  <2>5. OffDma'  BY <1>1, <1>9, <2>1 DEF OffDma
  <2>6. FilesNeverWait'
    BY <1>11 DEF Check, FillCheck, Pace, FilesNeverWait, Filling, inputVars
  <2> QED  BY <1>1, <1>2, <1>5, <2>4, <2>5, <2>6 DEF Pace, ShortInput
<1>12. CASE Wake \/ FillWake
  <2>1. /\ Asleep /\ ~Asleep' /\ ~Storing' /\ pc' # "read"
    BY <1>12 DEF Wake, FillWake, Asleep, Storing
  <2>2. Position = 0 /\ lag = 0 /\ Ahead < BufferSize + slept  BY <2>1 DEF Pace, InTime
  <2>3. slept \in 0 .. MaxSleep  BY DEF Pace, Clocked
  <2>4. Ahead' + (Lag - lag') < RingSize  BY <1>1, <1>5, <1>6, <1>7, <2>1, <2>2, <2>3
  <2>5. InTime'  BY <1>8, <2>1, <2>4 DEF InTime
  <2>6. OffDma'  BY <1>10, <2>1, <2>2 DEF OffDma
  <2>7. FilesNeverWait'
    BY <1>12 DEF Wake, FillWake, Pace, FilesNeverWait, Filling, inputVars
  <2> QED  BY <1>1, <1>2, <1>5, <2>5, <2>6, <2>7 DEF Pace, ShortInput
<1>13. CASE ReadFrame \/ Underrun
  <2>1. /\ pc = "read" /\ ~Asleep /\ ~Asleep' /\ dmaBlock # Current
    BY <1>13 DEF ReadFrame, Underrun, Asleep, Pace, OffDma
  <2>2. Ahead' + (Lag - lag') < RingSize  BY <1>1, <1>5, <2>1 DEF Pace, InTime
  <2>3. InTime'  BY <1>8, <2>1, <2>2 DEF InTime
  <2>4. OffDma'  BY <1>1, <1>9, <2>1 DEF OffDma
  <2>5. FilesNeverWait'
    BY <1>13 DEF ReadFrame, Underrun, Pace, FilesNeverWait, Filling, inputVars
  <2> QED  BY <1>1, <1>2, <1>5, <2>3, <2>4, <2>5 DEF Pace, ShortInput
<1> QED  BY <1>11, <1>12, <1>13 DEF Looking

\* A frame's time, as long as the deadlines allow one.
LEMMA TickKeepsPace ==
  ASSUME StreamAssumption, PaceAssumption, Tolerance, StreamInv, BeforeStart, Pace, Tick
  PROVE  Pace'
<1>1. TypeOK /\ Transmit  BY DEF StreamInv, Tick
<1>2. /\ DmaPlace' = NextPlace(DmaPlace) /\ DmaPlace \in 0 .. RingSize - 1
      /\ dmaBlock' \in Buffers /\ dmaFrame' \in Offsets
      /\ UNCHANGED <<pc, programVars, ring, fileVars, inputVars>>
      /\ UNCHANGED <<Current, Position, Whole>>
  BY <1>1, TransmitEffect
<1>3. UNCHANGED <<buffer_index, eof, closed, Offset, Filling, Storing, Asleep, OnAir>>
  BY <1>2 DEF programVars, fileVars, inputVars, Offset, Filling, Storing, Asleep, OnAir
<1>4. pc \notin {"preload", "start"}  BY <1>1 DEF Transmit, BeforeStart
<1>5. /\ MaxSleep \in Nat \ {0} /\ Lag \in Nat /\ BufferSize \in Nat \ {0} /\ RingSize \in Nat
      /\ BufferSize + MaxSleep + Lag <= RingSize /\ BufferSize < RingSize
  BY PaceSizes
<1>6. slept \in 0 .. MaxSleep /\ lag \in 0 .. Lag /\ (~Asleep => slept = 0)
  BY DEF Pace, Clocked
<1>7. \/ Asleep /\ slept < MaxSleep /\ slept' = slept + 1 /\ lag' = lag
      \/ pc = "poll" /\ slept' = slept /\ lag' = lag
      \/ ~Asleep /\ lag < Lag /\ lag' = lag + 1 /\ slept' = slept
  BY DEF Tick
<1>8. Clocked'
  <2>1. slept' \in 0 .. MaxSleep /\ lag' \in 0 .. Lag  BY <1>5, <1>6, <1>7
  <2>2. ~Asleep => slept' = 0  BY <1>6, <1>7 DEF Asleep
  <2> QED  BY <1>3, <2>1, <2>2 DEF Clocked
<1>9. FilesNeverWait' /\ ShortInput'
  BY <1>2, <1>3 DEF Pace, FilesNeverWait, ShortInput
<1>10. CASE ~OnAir
  BY <1>3, <1>8, <1>9, <1>10 DEF Pace, InTime, OffDma, OnAir, Asleep, Storing
<1>11. CASE OnAir
  <2>1. Current \in Buffers  BY <1>1, <1>11, CurrentInRing
  <2>2. dmaBlock \in Buffers /\ dmaFrame \in Offsets  BY <1>1 DEF TypeOK
  <2>3. /\ Ahead \in 0 .. RingSize - 1 /\ (Ahead < BufferSize <=> dmaBlock = Current)
    BY <2>1, <2>2, AheadInRing
  <2>4. Ahead' = IF Ahead = RingSize - 1 THEN 0 ELSE Ahead + 1
    <3>1. Place(Current, 0) \in 0 .. RingSize - 1  BY <1>5, <2>1, PlaceInRing
    <3>2. Ahead' = Distance(Place(Current, 0), NextPlace(DmaPlace))
      BY <1>2 DEF Ahead, Distance, Place, RingSize
    <3>3. Distance(Place(Current, 0), NextPlace(DmaPlace))
            = IF Distance(Place(Current, 0), DmaPlace) = RingSize - 1 THEN 0
              ELSE Distance(Place(Current, 0), DmaPlace) + 1
      <4>1. DmaPlace \in 0 .. RingSize - 1  BY <1>2
      <4> DEFINE i == Place(Current, 0)
                 j == DmaPlace
      <4>2. i \in 0 .. RingSize - 1 /\ j \in 0 .. RingSize - 1  BY <3>1, <4>1
      <4> HIDE DEF i, j
      <4>3. Distance(i, NextPlace(j)) = IF Distance(i, j) = RingSize - 1 THEN 0
                                        ELSE Distance(i, j) + 1
        BY <4>2, Distances
      <4> QED  BY <4>3 DEF i, j
    <3> QED  BY <3>2, <3>3 DEF Ahead
  <2>5. Ahead' < BufferSize <=> dmaBlock' = Current
    <3>1. Ahead' = Distance(Place(Current, 0), Place(dmaBlock', dmaFrame'))
      BY <1>2 DEF Ahead, DmaPlace, Distance, Place, RingSize
    <3> QED  BY <1>2, <2>1, <3>1, DistanceInBuffer
  <2> DEFINE a == Ahead
             b == Ahead'
             r == RingSize
  <2>6. /\ a \in 0 .. r - 1 /\ b = (IF a = r - 1 THEN 0 ELSE a + 1) /\ r \in Nat
        /\ r > BufferSize
    BY <1>5, <2>3, <2>4
  <2>7. Asleep => Position = 0 /\ lag = 0 /\ a < BufferSize + slept
    BY DEF Pace, InTime
  <2>8. ~Asleep /\ pc # "poll" => a + (Lag - lag) < r
    BY <1>11 DEF Pace, InTime
  <2>9. r' = r  BY DEF RingSize
  <2>10. InTime' <=> /\ Asleep => Position = 0 /\ lag' = 0 /\ b < BufferSize + slept'
                     /\ ~Asleep /\ pc # "poll" => b + (Lag - lag') < r
    BY <1>2, <1>3, <1>11, <2>9 DEF InTime
  <2>11. a < BufferSize <=> dmaBlock = Current  BY <2>3
  <2>12. b < BufferSize <=> dmaBlock' = Current  BY <2>5
  <2> HIDE DEF a, b, r
  <2>13. CASE Asleep
    <3>1. slept' = slept + 1 /\ lag' = lag  BY <1>7, <2>13 DEF Asleep
    <3>2. b < BufferSize + (slept + 1)  BY <1>5, <1>6, <2>6, <2>7, <2>13
    <3>3. InTime'  BY <2>7, <2>10, <2>13, <3>1, <3>2
    <3>4. ~Storing /\ pc # "read" /\ pc # "check"  BY <2>13 DEF Asleep, Storing
    <3>5. OffDma'  BY <1>2, <1>3, <3>4 DEF OffDma
    <3> QED  BY <1>8, <1>9, <3>3, <3>5 DEF Pace
  <2>14. CASE pc = "poll"
    <3>1. ~Asleep /\ ~Storing  BY <2>14 DEF Asleep, Storing
    <3>2. InTime'  BY <2>10, <2>14, <3>1
    <3>3. OffDma'  BY <1>2, <1>3, <2>14, <3>1 DEF OffDma
    <3> QED  BY <1>8, <1>9, <3>2, <3>3 DEF Pace
  <2>15. CASE ~Asleep /\ pc # "poll"
    <3>1. lag < Lag /\ lag' = lag + 1 /\ a + (Lag - lag) < r  BY <1>7, <2>8, <2>15
    <3>2. b = a + 1 /\ b + (Lag - (lag + 1)) < r  BY <1>5, <1>6, <2>6, <3>1
    <3>3. InTime'  BY <2>10, <2>15, <3>1, <3>2
    <3>4. dmaBlock # Current => dmaBlock' # Current
      BY <1>5, <2>6, <2>11, <2>12, <3>2
    <3>5. OffDma'  BY <1>2, <1>3, <3>4 DEF Pace, OffDma
    <3> QED  BY <1>8, <1>9, <3>3, <3>5 DEF Pace
  <2> QED  BY <2>13, <2>14, <2>15
<1> QED  BY <1>10, <1>11

LEMMA StartKeepsPace ==
  ASSUME StreamAssumption, PaceAssumption, Tolerance, StreamInv, BeforeStart, Pace, PacedProgram,
         Start
  PROVE  Pace'
<1>1. /\ pc = "start" /\ pc' = "check" /\ buffer_index' = 0
      /\ UNCHANGED <<sample_count, ring, eof, closed, dmaBlock, dmaFrame>>
  BY DEF Start, fileVars, inputVars
<1>2. dmaBlock = 0 /\ dmaFrame = 0 /\ lag = 0  BY <1>1 DEF BeforeStart
<1>3. UNCHANGED <<Position, Whole>>  BY <1>1 DEF Position, Whole
<1>4. IF Whole THEN Position = 0
      ELSE eof /\ ring[BufferCount - 1][BufferSize - 1].a = Unset
  BY <1>1, StartOnRing
<1>5. Clocked' /\ lag' = 0  BY <1>1, <1>2, ProgramClocks DEF Pace
<1>6. /\ Lag \in Nat /\ BufferSize \in Nat \ {0} /\ RingSize \in Nat
      /\ Lag <= BufferSize /\ BufferSize < RingSize
  BY PaceSizes
<1>7. Current' = 0  BY <1>1 DEF Current, Filling
<1>8. Ahead' = 0
  <2>1. Ahead' = Distance(Place(0, 0), Place(0, 0))
    BY <1>1, <1>2, <1>7 DEF Ahead, DmaPlace, Distance, Place, RingSize
  <2>2. Place(0, 0) = 0  BY <1>6 DEF Place
  <2> QED  BY <2>1, <2>2 DEF Distance
<1>9. InTime'
  <2>1. 0 + (Lag - 0) < RingSize  BY <1>6
  <2>2. (Ahead + (Lag - lag) < RingSize)' <=> Ahead' + (Lag - lag') < RingSize  BY DEF RingSize
  <2> QED  BY <1>1, <1>5, <1>8, <2>1, <2>2 DEF InTime, Asleep
<1>10. Offset' = 0  BY <1>3, <1>4 DEF Offset
<1>11. OffDma'  BY <1>1, <1>10 DEF OffDma, Storing
<1>12. ShortInput'  BY <1>1, <1>3, <1>4 DEF ShortInput
<1>13. FilesNeverWait'  BY <1>1 DEF Pace, FilesNeverWait, Filling
<1> QED  BY <1>5, <1>9, <1>11, <1>12, <1>13 DEF Pace

LEMMA IdleKeepsPace ==
  ASSUME StreamAssumption, PaceAssumption, Tolerance, StreamInv, Pace, PacedProgram, Idle \/ Resume
  PROVE  Pace'
<1>1. /\ UNCHANGED <<buffer_index, sample_count, ring, closed, dmaBlock, dmaFrame>>
      /\ OnAir /\ pc # "check" /\ ~Asleep' /\ ~Storing' /\ pc' # "read" /\ ~Filling'
      /\ Filling \/ pc = "poll"
  <2>1. CASE Idle
    BY <2>1 DEF Idle, programVars, inputVars, dmaVars, OnAir, Asleep, Storing, Filling
  <2>2. CASE Resume
    BY <2>2 DEF Resume, programVars, inputVars, dmaVars, OnAir, Asleep, Storing, Filling
  <2> QED  BY <2>1, <2>2
<1>2. Input # "file"  BY <1>1 DEF Pace, FilesNeverWait
<1>3. Whole /\ Whole'  BY <1>1 DEF Pace, ShortInput, Whole
<1>4. TypeOK /\ FillProgress  BY DEF StreamInv
<1>5. Position' = 0  BY <1>1, <1>4 DEF Idle, Resume, FillProgress, Position
<1>6. OffDma'
  <2>1. Offset' = 0  BY <1>3, <1>5 DEF Offset
  <2> QED  BY <1>1, <2>1 DEF OffDma
<1>7. Clocked'  BY ProgramClocks, ResumeClocks DEF Pace
<1>8. FilesNeverWait' /\ ShortInput'  BY <1>2, <1>3 DEF FilesNeverWait, ShortInput
<1>9. CASE pc' = "poll"
  BY <1>1, <1>6, <1>7, <1>8, <1>9 DEF Pace, InTime
<1>10. CASE pc' # "poll"
  <2>1. lag' = Lag /\ Lag \in Nat
    <3>1. pc = "poll"  BY <1>10 DEF Idle, Resume
    <3>2. ResumeLag = 0 /\ Lag \in Nat  BY <1>2 DEF Tolerance, PaceAssumption
    <3>3. lag' = Lag - ResumeLag  BY <3>1, ResumeClocks DEF Pace
    <3> QED  BY <3>2, <3>3
  <2>2. Current' \in Buffers /\ dmaBlock' \in Buffers /\ dmaFrame' \in Offsets
    <3>1. buffer_index \in Buffers  BY <1>1, <1>4 DEF TypeOK, OnAir
    <3>2. Current' = buffer_index'  BY <1>1 DEF Current
    <3> QED  BY <1>1, <1>4, <3>1, <3>2 DEF TypeOK
  <2>3. Ahead' \in 0 .. RingSize - 1
    <3>1. Ahead' = Distance(Place(Current', 0), Place(dmaBlock', dmaFrame'))
      BY DEF Ahead, DmaPlace, Distance, Place, RingSize
    <3> QED  BY <2>2, <3>1, DistanceInBuffer
  <2>4. RingSize \in Nat /\ Lag - lag' = 0
    <3> DEFINE l == lag'
    <3>1. l = Lag /\ Lag \in Nat  BY <2>1
    <3> HIDE DEF l
    <3>2. Lag - l = 0  BY <3>1
    <3> QED  BY <3>2, RingSizes DEF l
  <2> DEFINE b == Ahead'
             x == Lag - lag'
             r == RingSize
  <2>5. b \in 0 .. r - 1 /\ x = 0 /\ r \in Nat  BY <2>3, <2>4
  <2> HIDE DEF b, x, r
  <2>6. b + x < r  BY <2>5
  <2>7. (Ahead + (Lag - lag) < RingSize)' <=> Ahead' + (Lag - lag') < RingSize  BY DEF RingSize
  <2>8. InTime'  BY <1>1, <2>6, <2>7 DEF InTime, b, x, r
  <2> QED  BY <1>6, <1>7, <1>8, <2>8 DEF Pace
<1> QED  BY <1>9, <1>10

LEMMA PaceStep ==
  ASSUME StreamAssumption, PaceAssumption, Tolerance, StreamInv, BeforeStart, Pace,
         [PacedNext]_pacedVars
  PROVE  Pace'
<1>1. CASE PacedProgram
  <2>1. Program  BY <1>1 DEF PacedProgram
  <2>2. CASE PreloadStore \/ PreloadEnd \/ Shutdown
    <3>1. /\ ~OnAir' /\ ~Asleep' /\ ~Storing' /\ pc' # "read" /\ pc' # "check" /\ pc' # "poll"
          /\ closed' = closed /\ ~Filling'
      BY <2>2 DEF PreloadStore, PreloadEnd, Shutdown, OnAir, Asleep, Storing, Filling,
                  inputVars
    <3>2. pc # "poll"  BY <2>2 DEF PreloadStore, PreloadEnd, Shutdown
    <3>3. Clocked'  BY <1>1, <3>2, ProgramClocks DEF Pace
    <3> QED  BY <3>1, <3>3 DEF Pace, FilesNeverWait, ShortInput, InTime, OffDma
  <2>3. CASE Start  BY <1>1, <2>3, StartKeepsPace
  <2>4. CASE Looking  BY <1>1, <2>4, LookingKeepsPace
  <2>5. CASE Write \/ FillRest \/ FillWrite  BY <1>1, <2>5, StoreKeepsPace
  <2>6. CASE Idle \/ Resume  BY <1>1, <2>6, IdleKeepsPace
  <2> QED  BY <2>1, <2>2, <2>3, <2>4, <2>5, <2>6 DEF Program, Looking
<1>2. CASE PacedSource \/ UNCHANGED pacedVars
  <2>1. /\ UNCHANGED <<pc, buffer_index, sample_count, fill_index, ring, eof, dmaBlock, dmaFrame>>
        /\ UNCHANGED <<slept, lag>> /\ (closed => closed')
    BY <1>2 DEF PacedSource, Source, SourceWrite, SourceClose, pacedVars, vars, programVars,
                fileVars, inputVars, dmaVars
  <2>2. UNCHANGED <<Asleep, Filling, Storing, OnAir, Position, Current, Whole, Offset, Ahead>>
    BY <2>1 DEF Asleep, Filling, Storing, OnAir, Position, Current, Whole, Offset, Ahead,
                DmaPlace, Distance, Place, RingSize
  <2>3. Clocked' /\ FilesNeverWait' /\ ShortInput' /\ OffDma'
    BY <2>1, <2>2 DEF Pace, Clocked, FilesNeverWait, ShortInput, OffDma
  <2>4. InTime'  BY <2>1, <2>2 DEF Pace, InTime, RingSize
  <2> QED  BY <2>3, <2>4 DEF Pace
<1>3. CASE Tick  BY <1>3, TickKeepsPace
<1> QED  BY <1>1, <1>2, <1>3 DEF PacedNext

LEMMA PaceInvariant == Tolerance => (PacedSpec => []Pace)
<1> SUFFICES ASSUME Tolerance PROVE PacedSpec => []Pace  OBVIOUS
<1>1. PacedInit => Pace
  <2> SUFFICES ASSUME PacedInit PROVE Pace  OBVIOUS
  <2>1. Init /\ slept = 0 /\ lag = 0 /\ pc = "preload"  BY DEF PacedInit, Init
  <2>2. MaxSleep \in Nat /\ Lag \in Nat  BY PaceAssumption DEF PaceAssumption
  <2>3. Clocked  BY <2>1, <2>2 DEF Clocked
  <2>4. FilesNeverWait  BY <2>1 DEF Init, FilesNeverWait, Filling
  <2>5. ShortInput /\ InTime /\ OffDma
    BY <2>1 DEF ShortInput, InTime, OffDma, OnAir, Asleep, Storing
  <2> QED  BY <2>3, <2>4, <2>5 DEF Pace
<1>2. StreamInv /\ BeforeStart /\ Pace /\ [PacedNext]_pacedVars => Pace'
  BY StreamAssumption, PaceAssumption, PaceStep
<1> QED  BY <1>1, <1>2, StreamInvariant, BeforeStartInvariant, PTL DEF PacedSpec

(***************************************************************************)
(* As long as the program is no slower than the tolerance, no slot of the     *)
(* buffer that the DMA is transmitting changes under it.                     *)
(***************************************************************************)
THEOREM DmaLeftAlone == Tolerance => (PacedSpec => ProgramKeepsOffDma)
<1> SUFFICES ASSUME Tolerance PROVE PacedSpec => ProgramKeepsOffDma  OBVIOUS
<1>1. StreamInv /\ BeforeStart /\ Pace /\ [PacedNext]_pacedVars
      => [dmaActive => ring'[dmaBlock] = ring[dmaBlock]]_pacedVars
  <2> SUFFICES ASSUME StreamInv, BeforeStart, Pace, PacedNext, dmaActive
               PROVE  ring'[dmaBlock] = ring[dmaBlock]
    OBVIOUS
  <2>1. CASE PacedProgram
    <3>1. Program  BY <2>1 DEF PacedProgram
    <3>2. CASE PreloadStore  BY <3>2 DEF PreloadStore, BeforeStart
    <3>3. CASE PreloadEnd \/ Start \/ Shutdown \/ Idle \/ Resume
      BY <3>3 DEF PreloadEnd, Start, Shutdown, Idle, Resume
    <3>4. CASE Looking  BY <3>4, StreamAssumption, LookingEffect DEF StreamInv
    <3>5. CASE Write \/ FillRest \/ FillWrite
      <4>1. dmaBlock # Current
        BY <2>1, <3>5, StreamAssumption, PaceAssumption, StoreKeepsPace
      <4>2. Whole  BY <3>5 DEF Pace, ShortInput, OnAir, Write, FillRest, FillWrite
      <4>3. PICK x, y : BufferSamples(Current, x, y)
        BY <3>5, <4>2, StreamAssumption, StoreEffect DEF StreamInv
      <4>4. dmaBlock \in DOMAIN ring  BY DEF StreamInv, TypeOK
      <4> QED  BY <4>1, <4>3, <4>4 DEF BufferSamples
    <3> QED  BY <3>1, <3>2, <3>3, <3>4, <3>5 DEF Program, Looking
  <2>2. CASE PacedSource
    BY <2>2 DEF PacedSource, Source, SourceWrite, SourceClose
  <2>3. CASE Tick  BY <2>3 DEF Tick, Transmit
  <2> QED  BY <2>1, <2>2, <2>3 DEF PacedNext
<1>2. PacedSpec => [][dmaActive => ring'[dmaBlock] = ring[dmaBlock]]_pacedVars
  BY <1>1, StreamInvariant, BeforeStartInvariant, PaceInvariant, PTL DEF PacedSpec
<1> QED  BY <1>2 DEF ProgramKeepsOffDma

-----------------------------------------------------------------------------
(* Nothing goes out before the start or after the end, and while the program  *)
(* is between two looks the DMA does not come round to where it writes.      *)

DmaOnAir == dmaActive => OnAir

LEMMA DmaOnAirInvariant == PacedSpec => []DmaOnAir
<1>1. PacedInit => DmaOnAir  BY DEF PacedInit, Init, DmaOnAir
<1>2. BeforeStart /\ DmaOnAir /\ [PacedNext]_pacedVars => DmaOnAir'
  <2> SUFFICES ASSUME BeforeStart, DmaOnAir, [PacedNext]_pacedVars PROVE DmaOnAir'  OBVIOUS
  <2> USE DEF DmaOnAir, OnAir, dmaVars
  <2>1. [Next]_vars  BY PacedStep
  <2>2. CASE Source \/ Transmit \/ UNCHANGED vars
    BY <2>2 DEF Source, SourceWrite, SourceClose, Transmit, vars
  <2>3. CASE PreloadStore \/ PreloadEnd
    <3>1. dmaActive' = dmaActive /\ pc = "preload"  BY <2>3 DEF PreloadStore, PreloadEnd
    <3> QED  BY <3>1 DEF BeforeStart
  <2>4. CASE Start \/ Shutdown  BY <2>4 DEF Start, Shutdown
  <2>5. CASE Check \/ Wake \/ ReadFrame \/ Write \/ Underrun
    BY <2>5 DEF Check, Wake, ReadFrame, Write, Underrun
  <2>6. CASE FillRest \/ FillCheck \/ FillWake \/ FillWrite \/ Idle \/ Resume
    BY <2>6 DEF FillRest, FillCheck, FillWake, FillWrite, Idle, Resume
  <2> QED  BY <2>1, <2>2, <2>3, <2>4, <2>5, <2>6 DEF Next, Program
<1> QED  BY <1>1, <1>2, BeforeStartInvariant, PTL DEF PacedSpec

LEMMA NextPlaceTellsPlace ==
  ASSUME StreamAssumption, NEW i \in 0 .. RingSize - 1, NEW j \in 0 .. RingSize - 1
  PROVE  /\ NextPlace(i) = NextPlace(j) => i = j
         /\ NextPlace(i) # i
<1> DEFINE r == RingSize
<1>1. r \in Nat /\ r > 1 /\ i \in 0 .. r - 1 /\ j \in 0 .. r - 1  BY RingSizes
<1>2. /\ NextPlace(i) = IF i = r - 1 THEN 0 ELSE i + 1
      /\ NextPlace(j) = IF j = r - 1 THEN 0 ELSE j + 1
  BY DEF NextPlace
<1> HIDE DEF r
<1> QED  BY <1>1, <1>2

LEMMA WritePlaceInRing ==
  ASSUME StreamAssumption, TypeOK, OnAir
  PROVE  /\ Current \in Buffers /\ Offset \in Offsets
         /\ WritePlace \in 0 .. RingSize - 1 /\ DmaPlace \in 0 .. RingSize - 1
<1>1. Current \in Buffers  BY CurrentInRing
<1>2. Offset \in Offsets  BY PositionSteps, RingSizes DEF Offset, TypeOK
<1>3. dmaBlock \in Buffers /\ dmaFrame \in Offsets  BY DEF TypeOK
<1> QED  BY <1>1, <1>2, <1>3, PlaceInRing DEF WritePlace, DmaPlace

\* A frame goes out during poll(), or it does not bring the DMA to WritePlace.
LEMMA TickBelowWritePlace ==
  ASSUME StreamAssumption, PaceAssumption, Tolerance, StreamInv, Pace, OnAir, Tick, pc # "poll"
  PROVE  NextPlace(DmaPlace) # WritePlace
<1> SUFFICES ASSUME NextPlace(DmaPlace) = WritePlace PROVE FALSE  OBVIOUS
<1>1. TypeOK /\ FillProgress  BY DEF StreamInv
<1>2. /\ Current \in Buffers /\ Offset \in Offsets
      /\ WritePlace \in 0 .. RingSize - 1 /\ DmaPlace \in 0 .. RingSize - 1
  BY <1>1, WritePlaceInRing
<1>3. dmaBlock \in Buffers /\ dmaFrame \in Offsets  BY <1>1 DEF TypeOK
<1>4. /\ Lag \in Nat /\ MaxSleep \in Nat /\ BufferSize \in Nat \ {0} /\ RingSize \in Nat
      /\ BufferSize + MaxSleep + Lag <= RingSize
  BY PaceSizes
<1>5. Offset = 0
  <2> SUFFICES ASSUME Offset # 0 PROVE FALSE  OBVIOUS
  <2>1. dmaBlock # Current
    <3>1. Position # 0  BY DEF Offset
    <3>2. ~Asleep /\ pc \notin {"fill_check", "fill_sleep"}
      BY <1>1, <3>1 DEF Pace, InTime, FillProgress
    <3>3. Storing \/ pc = "read" \/ pc = "check"
      BY <1>1, <3>2 DEF TypeOK, Pcs, OnAir, Asleep, Storing
    <3> QED  BY <3>3 DEF Pace, OffDma
  <2> DEFINE o == Offset - 1
  <2>2. o \in Offsets /\ o # BufferSize - 1 /\ Offset = o + 1  BY <1>2, <1>4
  <2> HIDE DEF o
  <2>3. Place(Current, Offset) = NextPlace(Place(Current, o))
    BY <1>2, <2>2, PlaceAdvances
  <2>4. Place(Current, o) \in 0 .. RingSize - 1  BY <1>2, <2>2, PlaceInRing
  <2>5. Place(Current, o) = DmaPlace
    BY <1>2, <2>3, <2>4, NextPlaceTellsPlace DEF WritePlace
  <2>6. Current = dmaBlock  BY <1>2, <1>3, <2>2, <2>5, PlaceTellsSlot DEF DmaPlace
  <2> QED  BY <2>1, <2>6
<1>6. Ahead = RingSize - 1
  <2>1. Ahead = Distance(WritePlace, DmaPlace)  BY <1>5 DEF Ahead, WritePlace
  <2>2. Distance(WritePlace, DmaPlace) = RingSize - 1 <=> WritePlace = NextPlace(DmaPlace)
    BY <1>2, Distances
  <2> QED  BY <2>1, <2>2
<1>7. slept \in 0 .. MaxSleep /\ lag \in 0 .. Lag  BY DEF Pace, Clocked
<1>8. (Asleep /\ slept < MaxSleep) \/ (~Asleep /\ lag < Lag)  BY DEF Tick
<1> DEFINE r == RingSize
<1>9. /\ r \in Nat /\ BufferSize + MaxSleep + Lag <= r
      /\ Asleep => r - 1 < BufferSize + slept
      /\ ~Asleep => (r - 1) + (Lag - lag) < r
  BY <1>4, <1>6 DEF Pace, InTime
<1> HIDE DEF r
<1>10. CASE Asleep /\ slept < MaxSleep  BY <1>4, <1>7, <1>9, <1>10
<1>11. CASE ~Asleep /\ lag < Lag  BY <1>4, <1>7, <1>9, <1>11
<1> QED  BY <1>8, <1>10, <1>11

\* raspdif_fill_buffers() is done when the whole ring is quiet.
LEMMA QuietWhenFilled ==
  ASSUME StreamAssumption, TypeOK, FillProgress, Idle \/ Resume,
         NEW b \in Buffers, NEW p \in Offsets
  PROVE  ring[b][p].a = Quiet
<1>1. pc \in {"fill_check", "poll"} /\ fill_count = BufferCount
  BY DEF Idle, Resume, FillProgress
<1>2. BuffersSince(b) \in 1 .. BufferCount  BY BuffersSinceRange DEF TypeOK
<1>3. Filled(b, p)  BY <1>1, <1>2 DEF Filled, StreamAssumption
<1> QED  BY <1>1, <1>3 DEF FillProgress, InFillLoop, FilledSeamlessly

-----------------------------------------------------------------------------
(* The S/PDIF blocks on the wire. *)

\* Silence is followed by what comes next only where it never ends again.
Continues(slot) == IsAudio(slot) \/ (Input = "file" /\ slot.a # Unset)

Adjacent(f, g) == g = (f + 1) % FrameCount

\* The wire and the slot that goes out next.
WireJoins ==
  Continues(wire) /\ ring[dmaBlock][dmaFrame].a # Unset =>
    Adjacent(wire.frame, ring[dmaBlock][dmaFrame].frame)

(***************************************************************************)
(* Two slots that go out one after the other.  The second may be the one to   *)
(* be written next: what it holds is as old as the ring, but what will be     *)
(* written there joins on.                                                 *)
(***************************************************************************)
SlotsJoin(b, p, c, q) ==
  Place(c, q) = NextPlace(Place(b, p)) /\ Continues(ring[b][p]) =>
    IF Place(c, q) = WritePlace THEN Whole => Adjacent(ring[b][p].frame, frame_index)
    ELSE ring[c][q].a # Unset => Adjacent(ring[b][p].frame, ring[c][q].frame)

Blocks ==
  OnAir => /\ WireJoins
           /\ \A b, c \in Buffers : \A p, q \in Offsets : SlotsJoin(b, p, c, q)

LEMMA StartBlocks ==
  ASSUME StreamAssumption, BlocksFillRing, StreamInv, BeforeStart, Start
  PROVE  Blocks'
<1>1. /\ pc = "start" /\ buffer_index' = 0 /\ pc' = "check"
      /\ UNCHANGED <<sample_count, frame_index, ring, dmaBlock, dmaFrame, wire>>
  BY DEF Start
<1>2. /\ BufferCount \in Nat /\ BufferSize \in Nat \ {0} /\ FrameCount \in Nat \ {0}
      /\ RingSize \in Nat /\ RingSize > BufferSize /\ FrameBytes \in Nat
  BY RingSizes DEF StreamAssumption, FrameBytes
<1>3. Position' = Position /\ Whole' = Whole  BY <1>1 DEF Position, Whole
<1>4. WritePlace' = 0
  <2>1. Offset' = 0  BY <1>1, <1>3, StartOnRing DEF Offset
  <2>2. Current' = 0  BY <1>1 DEF Current, Filling
  <2>3. WritePlace' = Place(0, 0)  BY <2>1, <2>2 DEF WritePlace, Place
  <2> QED  BY <1>2, <2>3 DEF Place
<1>5. ASSUME NEW b \in Buffers, NEW p \in Offsets, ring[b][p].a # Unset
      PROVE  /\ ring[b][p].frame = Place(b, p) % FrameCount
             /\ Place(b, p) \in 0 .. RingSize - 1
  <2>1. AsLoaded(b, p)  BY <1>1 DEF BeforeStart
  <2> QED  BY <1>5, <2>1, PlaceInRing DEF AsLoaded
<1>6. ~Continues(wire)
  <2>1. wire.a = Unset  BY <1>1 DEF BeforeStart
  <2> QED  BY <2>1 DEF Continues, IsAudio, Unset
<1>7. WireJoins'  BY <1>1, <1>6 DEF WireJoins, Continues, IsAudio
<1>8. ASSUME NEW b \in Buffers, NEW c \in Buffers, NEW p \in Offsets, NEW q \in Offsets,
             Place(c, q) = NextPlace(Place(b, p)), Continues(ring[b][p])
      PROVE  IF Place(c, q) = 0 THEN Whole => Adjacent(ring[b][p].frame, frame_index)
             ELSE ring[c][q].a # Unset => Adjacent(ring[b][p].frame, ring[c][q].frame)
  <2> DEFINE i == Place(b, p)
             k == Place(c, q)
             r == RingSize
  <2>1. ring[b][p].a # Unset  BY <1>8 DEF Continues, IsAudio, Unset
  <2>2. ring[b][p].frame = i % FrameCount /\ i \in 0 .. r - 1 /\ r \in Nat /\ r > 1
    BY <1>2, <1>5, <2>1
  <2>3. k = IF i = r - 1 THEN 0 ELSE i + 1  BY <1>8 DEF NextPlace
  <2>4. i \in Nat /\ (i + 1) % FrameCount = ((i % FrameCount) + 1) % FrameCount
    BY <1>2, <2>2, RemainderCarries
  <2>5. CASE k = 0
    <3> SUFFICES ASSUME Whole PROVE Adjacent(ring[b][p].frame, frame_index)  BY <2>5
    <3>1. Position = 0  BY <1>1, StartOnRing
    <3>2. buffer_index = BufferCount
      <4>1. BufferCount - 1 \in Buffers /\ BufferSize - 1 \in Offsets  BY <1>2
      <4>2. ring[BufferCount - 1][BufferSize - 1].a # Unset  BY <4>1 DEF Whole
      <4>3. Loaded(BufferCount - 1, BufferSize - 1)
        BY <1>1, <4>1, <4>2 DEF BeforeStart, AsLoaded
      <4> QED  BY <1>2, <3>1, <4>3 DEF Loaded, StreamInv, TypeOK
    <3>3. frame_index = Place(BufferCount, 0) % FrameCount
      BY <1>1, <3>1, <3>2 DEF BeforeStart
    <3>4. Place(BufferCount, 0) = r  BY <1>2 DEF Place, RingSize
    <3>5. r % FrameCount = 0  BY DEF BlocksFillRing, RingSize
    <3> HIDE DEF i, k, r
    <3>6. i + 1 = r  BY <2>2, <2>3, <2>5
    <3> QED  BY <2>2, <2>4, <3>3, <3>4, <3>5, <3>6 DEF Adjacent
  <2>6. CASE k # 0
    <3> SUFFICES ASSUME ring[c][q].a # Unset
                 PROVE  Adjacent(ring[b][p].frame, ring[c][q].frame)
      BY <2>6
    <3>1. ring[c][q].frame = k % FrameCount  BY <1>5
    <3> HIDE DEF i, k, r
    <3>2. k = i + 1  BY <2>2, <2>3, <2>6
    <3> QED  BY <2>2, <2>4, <3>1, <3>2 DEF Adjacent
  <2> QED  BY <2>5, <2>6
<1>9. ASSUME NEW b \in Buffers, NEW c \in Buffers, NEW p \in Offsets, NEW q \in Offsets
      PROVE  SlotsJoin(b, p, c, q)'
  <2>1. SlotsJoin(b, p, c, q)' <=>
          (Place(c, q) = NextPlace(Place(b, p)) /\ Continues(ring[b][p]) =>
             IF Place(c, q) = 0 THEN Whole => Adjacent(ring[b][p].frame, frame_index)
             ELSE ring[c][q].a # Unset => Adjacent(ring[b][p].frame, ring[c][q].frame))
    BY <1>1, <1>3, <1>4
    DEF SlotsJoin, Place, NextPlace, RingSize, Continues, IsAudio, Adjacent
  <2> QED  BY <1>8, <2>1
<1> QED  BY <1>7, <1>9 DEF Blocks

LEMMA StoreKeepsBlocks ==
  ASSUME StreamAssumption, PaceAssumption, Tolerance, StreamInv, Pace, Blocks, PacedProgram,
         Write \/ FillRest \/ FillWrite
  PROVE  Blocks'
<1> USE DEF StreamInv
<1>1. Whole  BY DEF Pace, ShortInput, OnAir, Write, FillRest, FillWrite
<1>2. /\ OnAir /\ OnAir' /\ Whole' /\ Current \in Buffers /\ Position \in Offsets
      /\ frame_index' = (frame_index + 1) % FrameCount
      /\ WritePlace = Place(Current, Position) /\ WritePlace' = NextPlace(WritePlace)
      /\ dmaBlock' = dmaBlock /\ dmaFrame' = dmaFrame /\ wire' = wire
  BY <1>1, StoreEffect DEF dmaVars
<1>3. PICK x, y :
        \A b \in Buffers : \A p \in Offsets :
          ring'[b][p] = IF b = Current /\ p = Position THEN Slot(x, y, frame_index)
                        ELSE ring[b][p]
  BY <1>1, StoreEffect
<1>4. dmaBlock # Current  BY StoreKeepsPace
<1>5. dmaBlock \in Buffers /\ dmaFrame \in Offsets  BY DEF TypeOK
<1>6. ring'[dmaBlock][dmaFrame] = ring[dmaBlock][dmaFrame]  BY <1>3, <1>4, <1>5
<1>7. WireJoins'
  BY <1>2, <1>6 DEF Blocks, WireJoins, Continues, IsAudio, Adjacent
<1>8. ASSUME NEW b \in Buffers, NEW c \in Buffers, NEW p \in Offsets, NEW q \in Offsets,
             Place(c, q) = NextPlace(Place(b, p)), Continues(ring'[b][p])
      PROVE  IF Place(c, q) = NextPlace(WritePlace)
             THEN Adjacent(ring'[b][p].frame, (frame_index + 1) % FrameCount)
             ELSE ring'[c][q].a # Unset => Adjacent(ring'[b][p].frame, ring'[c][q].frame)
  <2>1. /\ Place(b, p) \in 0 .. RingSize - 1 /\ WritePlace \in 0 .. RingSize - 1
    BY <1>2, PlaceInRing
  <2>2. Place(c, q) = NextPlace(WritePlace) <=> Place(b, p) = WritePlace
    BY <1>8, <2>1, NextPlaceTellsPlace
  <2>3. Place(b, p) = WritePlace <=> b = Current /\ p = Position
    BY <1>2, PlaceTellsSlot
  <2>4. Place(c, q) = WritePlace <=> c = Current /\ q = Position
    BY <1>2, PlaceTellsSlot
  <2>5. SlotsJoin(b, p, c, q)  BY <1>2 DEF Blocks
  <2>6. CASE b = Current /\ p = Position
    <3>1. ring'[b][p].frame = frame_index  BY <1>3, <2>6 DEF Slot
    <3> QED  BY <2>2, <2>3, <2>6, <3>1 DEF Adjacent
  <2>7. CASE ~(b = Current /\ p = Position)
    <3>1. ring'[b][p] = ring[b][p]  BY <1>3, <2>7
    <3>2. IF Place(c, q) = WritePlace THEN Adjacent(ring[b][p].frame, frame_index)
          ELSE ring[c][q].a # Unset => Adjacent(ring[b][p].frame, ring[c][q].frame)
      BY <1>1, <1>8, <2>5, <3>1 DEF SlotsJoin
    <3>3. CASE c = Current /\ q = Position
      <4>1. ring'[c][q].frame = frame_index  BY <1>3, <3>3 DEF Slot
      <4> QED  BY <2>2, <2>3, <2>4, <2>7, <3>1, <3>2, <3>3, <4>1
    <3>4. CASE ~(c = Current /\ q = Position)
      <4>1. ring'[c][q] = ring[c][q]  BY <1>3, <3>4
      <4> QED  BY <2>2, <2>3, <2>4, <2>7, <3>1, <3>2, <3>4, <4>1
    <3> QED  BY <3>3, <3>4
  <2> QED  BY <2>6, <2>7
<1>9. ASSUME NEW b \in Buffers, NEW c \in Buffers, NEW p \in Offsets, NEW q \in Offsets
      PROVE  SlotsJoin(b, p, c, q)'
  <2>1. SlotsJoin(b, p, c, q)' <=>
          (Place(c, q) = NextPlace(Place(b, p)) /\ Continues(ring'[b][p]) =>
             IF Place(c, q) = NextPlace(WritePlace)
             THEN Adjacent(ring'[b][p].frame, (frame_index + 1) % FrameCount)
             ELSE ring'[c][q].a # Unset => Adjacent(ring'[b][p].frame, ring'[c][q].frame))
    BY <1>2 DEF SlotsJoin, Place, NextPlace, RingSize, Continues, IsAudio, Adjacent
  <2> QED  BY <1>8, <2>1
<1> QED  BY <1>7, <1>9 DEF Blocks

\* What goes out joins what is out already.
LEMMA TickJoins ==
  ASSUME StreamAssumption, PaceAssumption, Tolerance, StreamInv, DmaOnAir, Pace, Blocks, Tick
  PROVE  /\ Continues(wire) /\ wire'.a # Unset => Adjacent(wire.frame, wire'.frame)
         /\ Blocks'
<1> USE DEF StreamInv
<1>1. OnAir  BY DEF DmaOnAir, Tick, Transmit
<1>2. /\ wire' = ring[dmaBlock][dmaFrame]
      /\ DmaPlace' = NextPlace(DmaPlace)
      /\ dmaBlock \in Buffers /\ dmaFrame \in Offsets
      /\ dmaBlock' \in Buffers /\ dmaFrame' \in Offsets
      /\ UNCHANGED <<pc, ring, frame_index, WritePlace, Whole>>
  BY TransmitEffect DEF Tick, TypeOK, programVars
<1>3. Continues(wire) /\ wire'.a # Unset => Adjacent(wire.frame, wire'.frame)
  BY <1>1, <1>2 DEF Blocks, WireJoins
<1>4. ASSUME Continues(ring[dmaBlock][dmaFrame]), ring[dmaBlock'][dmaFrame'].a # Unset
      PROVE  Adjacent(ring[dmaBlock][dmaFrame].frame, ring[dmaBlock'][dmaFrame'].frame)
  <2>1. pc # "poll"
    <3> SUFFICES ASSUME pc = "poll" PROVE FALSE  OBVIOUS
    <3>1. ring[dmaBlock][dmaFrame].a = Quiet  BY <1>2, AllFilledAtPoll
    <3>2. Input # "file"  BY DEF Pace, FilesNeverWait
    <3> QED  BY <1>4, <3>1, <3>2 DEF Continues, IsAudio, Quiet
  <2>2. DmaPlace' = Place(dmaBlock', dmaFrame')  BY DEF DmaPlace, Place
  <2>3. Place(dmaBlock', dmaFrame') = NextPlace(Place(dmaBlock, dmaFrame))
    BY <1>2, <2>2 DEF DmaPlace
  <2>4. Place(dmaBlock', dmaFrame') # WritePlace
    BY <1>1, <1>2, <2>1, <2>2, TickBelowWritePlace
  <2>5. SlotsJoin(dmaBlock, dmaFrame, dmaBlock', dmaFrame')  BY <1>1, <1>2 DEF Blocks
  <2> QED  BY <1>4, <2>3, <2>4, <2>5 DEF SlotsJoin
<1>5. WireJoins'
  <2>1. WireJoins' <=>
          (Continues(wire') /\ ring'[dmaBlock'][dmaFrame'].a # Unset =>
             Adjacent(wire'.frame, ring'[dmaBlock'][dmaFrame'].frame))
    BY DEF WireJoins, Continues, IsAudio, Adjacent
  <2> QED  BY <1>2, <1>4, <2>1
<1>6. ASSUME NEW b \in Buffers, NEW c \in Buffers, NEW p \in Offsets, NEW q \in Offsets
      PROVE  SlotsJoin(b, p, c, q)'
  <2>1. SlotsJoin(b, p, c, q)  BY <1>1 DEF Blocks
  <2> QED  BY <1>2, <2>1 DEF SlotsJoin, Place, NextPlace, RingSize, Continues, IsAudio, Adjacent
<1> QED  BY <1>3, <1>5, <1>6 DEF Blocks

LEMMA BlocksStep ==
  ASSUME StreamAssumption, BlocksFillRing, PaceAssumption, Tolerance,
         StreamInv, BeforeStart, DmaOnAir, Pace, Blocks, [PacedNext]_pacedVars
  PROVE  Blocks'
<1>a. ASSUME OnAir, UNCHANGED <<ring, frame_index, dmaBlock, dmaFrame, wire, WritePlace, Whole>>
      PROVE  Blocks'
  BY <1>a DEF Blocks, WireJoins, SlotsJoin, Place, NextPlace, RingSize, Continues, IsAudio,
              Adjacent
<1>1. CASE PacedProgram
  <2>1. Program  BY <1>1 DEF PacedProgram
  <2>2. CASE PreloadStore \/ PreloadEnd \/ Shutdown
    BY <2>2 DEF PreloadStore, PreloadEnd, Shutdown, OnAir, Blocks
  <2>3. CASE Start  BY <2>3, StartBlocks
  <2>4. CASE Looking  BY <1>a, <2>4, LookingEffect DEF StreamInv, dmaVars
  <2>5. CASE Write \/ FillRest \/ FillWrite  BY <1>1, <2>5, StoreKeepsBlocks
  <2>6. CASE Idle \/ Resume
    <3>1. /\ UNCHANGED <<ring, dmaBlock, dmaFrame, wire>> /\ OnAir
          /\ Filling \/ pc = "poll"
      BY <2>6 DEF Idle, Resume, dmaVars, OnAir, Filling
    <3>2. Input # "file"  BY <3>1 DEF Pace, FilesNeverWait
    <3>3. WireJoins'  BY <3>1 DEF Blocks, WireJoins, Continues, IsAudio, Adjacent
    <3>4. ASSUME NEW b \in Buffers, NEW c \in Buffers, NEW p \in Offsets, NEW q \in Offsets
          PROVE  SlotsJoin(b, p, c, q)'
      <4>1. ring'[b][p].a = Quiet  BY <2>6, <3>1, QuietWhenFilled DEF StreamInv
      <4>2. ~(ring'[b][p].a >= 0)  BY <4>1 DEF Quiet
      <4> QED  BY <3>2, <4>2 DEF SlotsJoin, Continues, IsAudio
    <3> QED  BY <3>3, <3>4 DEF Blocks
  <2> QED  BY <2>1, <2>2, <2>3, <2>4, <2>5, <2>6 DEF Program, Looking
<1>2. CASE PacedSource \/ UNCHANGED pacedVars
  <2>1. UNCHANGED <<pc, buffer_index, fill_index, sample_count, frame_index, ring, dmaBlock,
                    dmaFrame, wire>>
    BY <1>2 DEF PacedSource, Source, SourceWrite, SourceClose, pacedVars, vars, programVars,
                dmaVars
  <2>2. UNCHANGED <<OnAir, WritePlace, Whole>>
    BY <2>1 DEF OnAir, WritePlace, Whole, Current, Filling, Offset, Position, Place
  <2>3. CASE OnAir  BY <1>a, <2>1, <2>2, <2>3
  <2>4. CASE ~OnAir  BY <2>2, <2>4 DEF Blocks
  <2> QED  BY <2>3, <2>4
<1>3. CASE Tick  BY <1>3, TickJoins
<1> QED  BY <1>1, <1>2, <1>3 DEF PacedNext

LEMMA BlocksInvariant == Tolerance => (PacedSpec => []Blocks)
<1> SUFFICES ASSUME Tolerance PROVE PacedSpec => []Blocks  OBVIOUS
<1>1. PacedInit => Blocks  BY DEF PacedInit, Init, Blocks, OnAir
<1>2. StreamInv /\ BeforeStart /\ DmaOnAir /\ Pace /\ Blocks /\ [PacedNext]_pacedVars => Blocks'
  BY StreamAssumption, BlocksFillRing, PaceAssumption, BlocksStep
<1> QED
  BY <1>1, <1>2, StreamInvariant, BeforeStartInvariant, DmaOnAirInvariant, PaceInvariant, PTL
  DEF PacedSpec

\* What the wire shows after a frame that has a successor.
Joined == Continues(wire) /\ wire'.a # Unset => Adjacent(wire.frame, wire'.frame)

LEMMA WireJoinedAlways == Tolerance => (PacedSpec => [][Joined]_wire)
<1> SUFFICES ASSUME Tolerance PROVE PacedSpec => [][Joined]_wire  OBVIOUS
<1>1. StreamInv /\ DmaOnAir /\ Pace /\ Blocks /\ [PacedNext]_pacedVars => [Joined]_wire
  <2> SUFFICES ASSUME StreamInv, DmaOnAir, Pace, Blocks, [PacedNext]_pacedVars, wire' # wire
               PROVE  Joined
    OBVIOUS
  <2>1. Tick
    <3>1. CASE Source
      BY <3>1 DEF Source, SourceWrite, SourceClose
    <3>2. CASE UNCHANGED pacedVars  BY <3>2 DEF pacedVars, vars
    <3>3. CASE PreloadStore \/ PreloadEnd \/ Start \/ Check \/ Wake
      BY <3>3 DEF PreloadStore, PreloadEnd, Start, Check, Wake
    <3>4. CASE ReadFrame \/ Write \/ Shutdown \/ Underrun
      BY <3>4 DEF ReadFrame, Write, Shutdown, Underrun
    <3>5. CASE FillRest \/ FillCheck \/ FillWake \/ FillWrite \/ Idle \/ Resume
      BY <3>5 DEF FillRest, FillCheck, FillWake, FillWrite, Idle, Resume
    <3> QED
      BY <3>1, <3>2, <3>3, <3>4, <3>5 DEF PacedNext, PacedProgram, PacedSource, Program
  <2> QED  BY <2>1, StreamAssumption, PaceAssumption, TickJoins DEF Joined
<1> QED
  BY <1>1, StreamInvariant, DmaOnAirInvariant, PaceInvariant, BlocksInvariant, PTL
  DEF PacedSpec

(***************************************************************************)
(* A receiver never loses the S/PDIF block while audio goes out: whatever     *)
(* follows a frame of audio is the next frame of its block, at every size of  *)
(* the ring that is a whole number of blocks.                               *)
(***************************************************************************)
THEOREM AudioContinues == Tolerance => (PacedSpec => AudioUnbroken)
<1> SUFFICES ASSUME Tolerance PROVE PacedSpec => AudioUnbroken  OBVIOUS
<1>1. [Joined]_wire => [IsAudio(wire) /\ wire'.a # Unset =>
                          wire'.frame = (wire.frame + 1) % FrameCount]_wire
  BY DEF Joined, Continues, Adjacent
<1> QED  BY <1>1, WireJoinedAlways, PTL DEF AudioUnbroken

(***************************************************************************)
(* For a file, which has no underruns, that is so for every encoded frame.    *)
(***************************************************************************)
THEOREM FileBlocksContinue ==
  Tolerance /\ Input = "file" => (PacedSpec => BlocksUnbroken)
<1> SUFFICES ASSUME Tolerance, Input = "file" PROVE PacedSpec => BlocksUnbroken  OBVIOUS
<1>1. [Joined]_wire => [wire.a # Unset /\ wire'.a # Unset =>
                          wire'.frame = (wire.frame + 1) % FrameCount]_wire
  BY DEF Joined, Continues, Adjacent
<1> QED  BY <1>1, WireJoinedAlways, PTL DEF BlocksUnbroken

-----------------------------------------------------------------------------
(* The order of the frames in the ring. *)

\* Nothing encoded so far lies at or beyond n in the input, nor was it sent.
Before(n) ==
  sent < n /\ \A b \in Buffers : \A p \in Offsets : ring[b][p].a < n

(***************************************************************************)
(* What is encoded was read, and what main() holds was read last.  It is a    *)
(* frame the ring has not seen, unless the input has ended.                  *)
(***************************************************************************)
ReadOrder ==
  /\ sent \in -1 .. MaxBytes
  /\ samples[1] < read /\ Before(read)
  /\ samples[1] >= 0 => Before(samples[1] + 1)
  /\ pc = "write" /\ ~eof => Before(samples[1])

LEMMA SourceValues ==
  ASSUME StreamAssumption, TypeOK
  PROVE  /\ MaxBytes \in Nat /\ read \in 0 .. MaxBytes
         /\ samples[1] \in Int /\ samples[1] >= -3 /\ samples[1] <= MaxBytes
         /\ \A b \in Buffers : \A p \in Offsets :
              ring[b][p] \in Slots /\ ring[b][p].a \in Sources /\ ring[b][p].a \in -3 .. MaxBytes
         /\ wire.a \in Sources
<1>1. MaxBytes \in Nat /\ read \in 0 .. MaxBytes  BY DEF StreamAssumption, TypeOK
<1>2. \A x \in Sources : x \in -3 .. MaxBytes  BY <1>1 DEF Sources, Quiet, Torn, Unset
<1>3. samples[1] \in Sources  BY DEF TypeOK
<1>4. ASSUME NEW b \in Buffers, NEW p \in Offsets
      PROVE  ring[b][p] \in Slots /\ ring[b][p].a \in Sources
  <2>1. ring[b][p] \in Slots  BY DEF TypeOK
  <2> QED  BY <2>1 DEF Slots
<1>5. wire.a \in Sources  BY DEF TypeOK, Slots
<1>6. samples[1] \in -3 .. MaxBytes  BY <1>2, <1>3
<1> QED  BY <1>1, <1>2, <1>4, <1>5, <1>6

\* fread() delivers what lies beyond everything read before.
LEMMA FreadKeepsReadOrder ==
  ASSUME StreamAssumption, TypeOK, ReadOrder, Fread, UNCHANGED <<ring, sent>>
  PROVE  /\ samples'[1] < read' /\ Before(read)'
         /\ samples'[1] >= 0 => Before(samples[1] + 1)'
         /\ Taken >= SampleSize => samples'[1] = read
         /\ Before(read)
<1>1. /\ SampleSize \in Nat \ {0} /\ Taken \in Nat /\ read \in Nat /\ sent \in Int
      /\ samples[1] \in Int
  BY BytesNat, SourceValues DEF ReadOrder
<1>2. \A b \in Buffers : \A p \in Offsets : ring[b][p].a \in Int  BY SourceValues
<1>3. read' = read + Taken  BY DEF Fread
<1>4. samples'[1] = IF Taken >= SampleSize THEN read
                    ELSE IF Taken <= 0 THEN samples[1] ELSE Torn
  <2>1. (1 - 1) * SampleSize = 0 /\ 0 + SampleSize = SampleSize /\ read + 0 = read  BY <1>1
  <2>2. samples'[1] = SampleRead(1)  BY DEF Fread
  <2> QED  BY <2>1, <2>2 DEF SampleRead
<1>5. Before(read)  BY DEF ReadOrder
<1> DEFINE n == read'
           m == samples'[1]
           t == Taken
<1>6. Before(read)' <=> sent < n /\ \A b \in Buffers : \A p \in Offsets : ring[b][p].a < n
  BY DEF Before
<1>7. Before(samples[1] + 1)' <=>
        sent < m + 1 /\ \A b \in Buffers : \A p \in Offsets : ring[b][p].a < m + 1
  BY DEF Before
<1>8. n = read + t /\ t \in Nat
      /\ m = IF t >= SampleSize THEN read ELSE IF t <= 0 THEN samples[1] ELSE Torn
  BY <1>1, <1>3, <1>4
<1>9. samples[1] < read /\ (samples[1] >= 0 => Before(samples[1] + 1))  BY DEF ReadOrder
<1> HIDE DEF n, m, t
<1>10. m < n  BY <1>1, <1>8, <1>9 DEF Torn
<1>11. sent < n /\ \A b \in Buffers : \A p \in Offsets : ring[b][p].a < n
  <2>1. sent < read /\ \A b \in Buffers : \A p \in Offsets : ring[b][p].a < read
    BY <1>5 DEF Before
  <2>2. n \in Int /\ read <= n  BY <1>1, <1>8
  <2> QED  BY <1>1, <1>2, <2>1, <2>2
<1>12. ASSUME m >= 0
       PROVE  sent < m + 1 /\ \A b \in Buffers : \A p \in Offsets : ring[b][p].a < m + 1
  <2>1. m = read \/ m = samples[1]  BY <1>8, <1>12 DEF Torn
  <2>2. CASE m = read
    <3>1. sent < read /\ \A b \in Buffers : \A p \in Offsets : ring[b][p].a < read
      BY <1>5 DEF Before
    <3>2. sent < read + 1  BY <1>1, <3>1
    <3>3. ASSUME NEW b \in Buffers, NEW p \in Offsets PROVE ring[b][p].a < read + 1
      <4>1. ring[b][p].a \in Int /\ ring[b][p].a < read  BY <1>2, <3>1
      <4> QED  BY <1>1, <4>1
    <3> QED  BY <2>2, <3>2, <3>3
  <2>3. CASE m = samples[1]  BY <1>9, <1>12, <2>3 DEF Before
  <2> QED  BY <2>1, <2>2, <2>3
<1> QED  BY <1>4, <1>5, <1>6, <1>7, <1>10, <1>11, <1>12 DEF n, m, t

\* A store of x leaves everything before what is beyond x and was beyond the rest.
LEMMA StoreKeepsBefore ==
  ASSUME StreamAssumption, TypeOK, NEW buffer \in Buffers, NEW x, NEW y,
         BufferSamples(buffer, x, y), sent' = sent, NEW n, x < n, Before(n)
  PROVE  sent' < n /\ \A b \in Buffers : \A p \in Offsets : ring'[b][p].a < n
<1>1. ASSUME NEW b \in Buffers, NEW p \in Offsets PROVE ring'[b][p].a < n
  <2>1. ring'[b][p] = IF b = buffer /\ p = Position THEN Slot(x, y, frame_index) ELSE ring[b][p]
    BY StoredSlot
  <2> QED  BY <2>1 DEF Slot, Before
<1> QED  BY <1>1 DEF Before

LEMMA ReadOrderStep ==
  ASSUME StreamAssumption, StreamInv, ReadOrder, [PacedNext]_pacedVars
  PROVE  ReadOrder'
<1> USE DEF StreamInv
<1>a. ASSUME UNCHANGED <<samples, read, ring, sent>>, pc' # "write" \/ UNCHANGED <<pc, eof>>
      PROVE  ReadOrder'
  BY <1>a DEF ReadOrder, Before
<1>b. [Next]_vars /\ (~eof' => ~eof)  BY PacedStep, EofLasts
<1>1. CASE PacedProgram
  <2>1. Program /\ sent' = sent  BY <1>1 DEF PacedProgram
  <2>2. CASE PreloadStore
    <3>1. /\ Fread /\ Taken >= SampleSize /\ buffer_index \in Buffers /\ pc' # "write"
          /\ BufferSamples(buffer_index, samples'[1], samples'[2])
      BY <2>2 DEF PreloadStore, TypeOK
    <3>2. /\ read \in Nat /\ SampleSize \in Nat \ {0} /\ Taken \in Nat /\ sent \in Int
          /\ read' = read + Taken
      BY <3>1, BytesNat DEF ReadOrder, Fread
    <3>3. samples'[1] = read
      <4>1. (1 - 1) * SampleSize = 0 /\ 0 + SampleSize = SampleSize /\ read + 0 = read
        BY <3>2
      <4>2. samples'[1] = SampleRead(1)  BY <3>1 DEF Fread
      <4> QED  BY <3>1, <4>1, <4>2 DEF SampleRead
    <3>4. ASSUME NEW n \in Int, read < n PROVE Before(n)
      <4>1. Before(read)  BY DEF ReadOrder
      <4>2. \A b \in Buffers : \A p \in Offsets : ring[b][p].a \in Int  BY SourceValues
      <4>3. sent < n  BY <3>2, <3>4, <4>1 DEF Before
      <4>4. ASSUME NEW b \in Buffers, NEW p \in Offsets PROVE ring[b][p].a < n
        <5>1. ring[b][p].a \in Int /\ ring[b][p].a < read  BY <4>1, <4>2 DEF Before
        <5> QED  BY <3>2, <3>4, <5>1
      <4> QED  BY <4>3, <4>4 DEF Before
    <3>5. read < read + 1 /\ read + 1 \in Int /\ read < read + Taken /\ read + Taken \in Int
      BY <3>1, <3>2
    <3>6. /\ sent' < read + 1 /\ \A b \in Buffers : \A p \in Offsets : ring'[b][p].a < read + 1
      BY <2>1, <3>1, <3>3, <3>4, <3>5, StoreKeepsBefore
    <3>7. /\ sent' < read + Taken
          /\ \A b \in Buffers : \A p \in Offsets : ring'[b][p].a < read + Taken
      BY <2>1, <3>1, <3>3, <3>4, <3>5, StoreKeepsBefore
    <3>8. Before(read)'  BY <3>2, <3>7 DEF Before
    <3>9. Before(samples[1] + 1)'
      <4>1. samples'[1] + 1 = read + 1  BY <3>3
      <4> QED  BY <3>6, <4>1 DEF Before
    <3>10. samples'[1] < read'  BY <3>2, <3>3, <3>5
    <3> QED  BY <2>1, <3>1, <3>8, <3>9, <3>10 DEF ReadOrder
  <2>3. CASE PreloadEnd \/ ReadFrame \/ Underrun
    <3>1. Fread /\ ring' = ring  BY <2>3 DEF PreloadEnd, ReadFrame, Underrun
    <3>2. /\ samples'[1] < read' /\ Before(read)'
          /\ samples'[1] >= 0 => Before(samples[1] + 1)'
          /\ Taken >= SampleSize => samples'[1] = read
          /\ Before(read)
      BY <2>1, <3>1, FreadKeepsReadOrder
    <3>3. ASSUME pc' = "write", ~eof' PROVE Before(samples[1])'
      <4>1. ReadFrame  BY <2>3, <3>3 DEF PreloadEnd, Underrun
      <4>2. Taken = FrameBytes  BY <3>1, <3>3, <4>1, FreadBeforeEnd DEF ReadFrame
      <4>3. samples'[1] = read  BY <3>2, <4>2, BytesNat
      <4> QED  BY <2>1, <3>1, <3>2, <4>3 DEF Before
    <3> QED  BY <2>1, <3>2, <3>3 DEF ReadOrder
  <2>4. CASE Write
    <3>1. /\ BufferSamples(buffer_index, samples[1], samples[2]) /\ buffer_index \in Buffers
          /\ UNCHANGED <<samples, read>> /\ pc' # "write"
      BY <2>4 DEF Write, TypeOK, fileVars
    <3>2. samples[1] < read /\ Before(read)  BY DEF ReadOrder
    <3>3. Before(read)'  BY <2>1, <3>1, <3>2, StoreKeepsBefore DEF Before
    <3>4. ASSUME samples[1] >= 0 PROVE Before(samples[1] + 1)'
      <4>1. Before(samples[1] + 1)  BY <3>4 DEF ReadOrder
      <4>2. samples[1] < samples[1] + 1  BY SourceValues
      <4> QED  BY <2>1, <3>1, <4>1, <4>2, StoreKeepsBefore DEF Before
    <3> QED  BY <2>1, <3>1, <3>2, <3>3, <3>4 DEF ReadOrder
  <2>5. CASE FillRest \/ FillWrite
    <3>1. /\ BufferSamples(fill_index, Quiet, Quiet) /\ fill_index \in Buffers
          /\ UNCHANGED <<samples, read>> /\ pc' # "write"
      BY <2>5 DEF FillRest, FillWrite, TypeOK, fileVars
    <3>2. samples[1] < read /\ Before(read) /\ Quiet < read
      BY SourceValues DEF ReadOrder, Quiet
    <3>3. Before(read)'  BY <2>1, <3>1, <3>2, StoreKeepsBefore DEF Before
    <3>4. ASSUME samples[1] >= 0 PROVE Before(samples[1] + 1)'
      <4>1. Before(samples[1] + 1)  BY <3>4 DEF ReadOrder
      <4>2. Quiet < samples[1] + 1  BY <3>4, SourceValues DEF Quiet
      <4> QED  BY <2>1, <3>1, <4>1, <4>2, StoreKeepsBefore DEF Before
    <3> QED  BY <2>1, <3>1, <3>2, <3>3, <3>4 DEF ReadOrder
  <2>6. CASE Start \/ Check \/ Wake \/ Shutdown
    BY <1>a, <2>1, <2>6 DEF Start, Check, Wake, Shutdown, programVars, fileVars
  <2>7. CASE FillCheck \/ FillWake \/ Idle \/ Resume
    BY <1>a, <2>1, <2>7 DEF FillCheck, FillWake, Idle, Resume, programVars, fileVars
  <2> QED  BY <2>1, <2>2, <2>3, <2>4, <2>5, <2>6, <2>7 DEF Program
<1>2. CASE PacedSource \/ UNCHANGED pacedVars
  BY <1>a, <1>2 DEF PacedSource, Source, SourceWrite, SourceClose, pacedVars, vars, programVars,
                    fileVars
<1>3. CASE Tick
  <2>1. /\ wire' = ring[dmaBlock][dmaFrame] /\ dmaBlock \in Buffers /\ dmaFrame \in Offsets
        /\ UNCHANGED <<pc, samples, read, eof, ring>>
    BY <1>3 DEF Tick, Transmit, TypeOK, programVars, fileVars
  <2>2. sent' = IF IsAudio(wire') THEN wire'.a ELSE sent  BY <1>3 DEF Tick
  <2>3. sent' \in -1 .. MaxBytes  BY <2>1, <2>2, SourceValues DEF ReadOrder, IsAudio
  <2>4. ASSUME NEW n, Before(n)
        PROVE  sent' < n /\ \A b \in Buffers : \A p \in Offsets : ring'[b][p].a < n
    BY <2>1, <2>2, <2>4 DEF Before
  <2>5. Before(read)'  BY <2>1, <2>4 DEF ReadOrder, Before
  <2>6. samples[1] >= 0 => Before(samples[1] + 1)'  BY <2>1, <2>4 DEF ReadOrder, Before
  <2>7. pc = "write" /\ ~eof => Before(samples[1])'  BY <2>1, <2>4 DEF ReadOrder, Before
  <2> QED  BY <2>1, <2>3, <2>5, <2>6, <2>7 DEF ReadOrder
<1> QED  BY <1>1, <1>2, <1>3 DEF PacedNext

LEMMA ReadOrderInvariant == PacedSpec => []ReadOrder
<1>1. PacedInit => ReadOrder
  <2> SUFFICES ASSUME PacedInit PROVE ReadOrder  OBVIOUS
  <2>1. /\ sent = -1 /\ read = 0 /\ samples = <<Quiet, Quiet>> /\ pc = "preload"
        /\ ring = [b \in Buffers |-> [p \in Offsets |-> Slot(Unset, Unset, 0)]]
    BY DEF PacedInit, Init
  <2>2. samples[1] = -1  BY <2>1 DEF Quiet
  <2>3. \A b \in Buffers : \A p \in Offsets : ring[b][p].a = -3
    BY <2>1 DEF Slot, Unset
  <2>4. MaxBytes \in Nat  BY StreamAssumption DEF StreamAssumption
  <2> QED  BY <2>1, <2>2, <2>3, <2>4 DEF ReadOrder, Before
<1>2. StreamInv /\ ReadOrder /\ [PacedNext]_pacedVars => ReadOrder'
  BY StreamAssumption, ReadOrderStep
<1> QED  BY <1>1, <1>2, StreamInvariant, PTL DEF PacedSpec

\* How many slots of the ring were written earlier: none before the one that is to
\* be written next, all others before the one that was written last.
Youth(b, p) == Distance(WritePlace, Place(b, p))

\* The DMA has not been in the slot since it was written.
Fresh(b, p) == Distance(WritePlace, DmaPlace) <= Youth(b, p)

\* The last frame of all may repeat what samples[] held before the input ended.
Repeat(b, p) == eof /\ pc = "check" /\ Youth(b, p) = RingSize - 1

SlotInOrder(b, p) ==
  IsAudio(ring[b][p]) =>
    IF Fresh(b, p) THEN ~Repeat(b, p) => sent < ring[b][p].a ELSE ring[b][p].a <= sent

SlotsInOrder(b, p, c, q) ==
  IsAudio(ring[b][p]) /\ IsAudio(ring[c][q]) /\ Fresh(b, p) /\ Youth(b, p) < Youth(c, q) =>
    /\ ring[b][p].a <= ring[c][q].a
    /\ ~Repeat(c, q) => ring[b][p].a < ring[c][q].a

(***************************************************************************)
(* The frames the DMA has yet to come to lie in the order of the input, from  *)
(* the oldest slot on, and behind everything that was on the wire.           *)
(***************************************************************************)
Order ==
  OnAir => /\ \A b \in Buffers : \A p \in Offsets : SlotInOrder(b, p)
           /\ \A b, c \in Buffers : \A p, q \in Offsets : SlotsInOrder(b, p, c, q)

LEMMA YouthInRing ==
  ASSUME StreamAssumption, TypeOK, OnAir, NEW b \in Buffers, NEW p \in Offsets
  PROVE  /\ Place(b, p) \in 0 .. RingSize - 1
         /\ Youth(b, p) \in 0 .. RingSize - 1
         /\ Distance(WritePlace, DmaPlace) \in 0 .. RingSize - 1
         /\ Youth(b, p) = Distance(WritePlace, DmaPlace) => b = dmaBlock /\ p = dmaFrame
<1>1. /\ WritePlace \in 0 .. RingSize - 1 /\ DmaPlace \in 0 .. RingSize - 1
  BY WritePlaceInRing
<1>2. Place(b, p) \in 0 .. RingSize - 1  BY PlaceInRing
<1>3. ASSUME Distance(WritePlace, Place(b, p)) = Distance(WritePlace, DmaPlace)
      PROVE  b = dmaBlock /\ p = dmaFrame
  <2>1. Place(b, p) = DmaPlace  BY <1>1, <1>2, <1>3, DistanceTellsPlace
  <2>2. dmaBlock \in Buffers /\ dmaFrame \in Offsets  BY DEF TypeOK
  <2> QED  BY <2>1, <2>2, PlaceTellsSlot DEF DmaPlace
<1> QED  BY <1>1, <1>2, <1>3, Distances DEF Youth

LEMMA StartOrder ==
  ASSUME StreamAssumption, StreamInv, BeforeStart, Start, sent' = sent
  PROVE  Order'
<1>1. /\ pc = "start" /\ buffer_index' = 0 /\ pc' = "check"
      /\ UNCHANGED <<sample_count, ring, dmaBlock, dmaFrame>>
  BY DEF Start
<1>2. /\ BufferCount \in Nat /\ BufferSize \in Nat \ {0} /\ FrameBytes \in Nat \ {0}
      /\ RingSize \in Nat
  BY RingSizes DEF StreamAssumption, FrameBytes
<1>3. Position' = Position /\ Whole' = Whole  BY <1>1 DEF Position, Whole
<1>4. WritePlace' = 0 /\ DmaPlace' = 0
  <2>1. Offset' = 0  BY <1>1, <1>3, StartOnRing DEF Offset
  <2>2. Current' = 0  BY <1>1 DEF Current, Filling
  <2>3. WritePlace' = Place(0, 0)  BY <2>1, <2>2 DEF WritePlace, Place
  <2>4. dmaBlock = 0 /\ dmaFrame = 0  BY <1>1 DEF BeforeStart
  <2>5. DmaPlace' = Place(0, 0)  BY <1>1, <2>4 DEF DmaPlace, Place
  <2> QED  BY <1>2, <2>3, <2>5 DEF Place
<1>5. sent' = -1  BY <1>1 DEF BeforeStart
<1>6. ASSUME NEW b \in Buffers, NEW p \in Offsets
      PROVE  /\ Place(b, p) \in Nat /\ Youth(b, p)' = Place(b, p)
             /\ IsAudio(ring'[b][p]) => ring'[b][p].a = Place(b, p) * FrameBytes
  <2>1. Youth(b, p)' = Distance(0, Place(b, p))
    BY <1>4 DEF Youth, Distance, Place, RingSize
  <2>2. Place(b, p) \in 0 .. RingSize - 1  BY PlaceInRing
  <2>3. Place(b, p) \in Nat /\ Distance(0, Place(b, p)) = Place(b, p)
    <3> DEFINE k == Place(b, p)
    <3>1. k \in Nat  BY <1>2, <2>2
    <3>2. Distance(0, k) = IF 0 <= k THEN k - 0 ELSE (k - 0) + RingSize  BY DEF Distance
    <3> HIDE DEF k
    <3>3. Distance(0, k) = k  BY <3>1, <3>2
    <3> QED  BY <3>1, <3>3 DEF k
  <2>4. AsLoaded(b, p)  BY <1>1 DEF BeforeStart
  <2>5. BytesBefore(b, p) = Place(b, p) * FrameBytes  BY DEF BytesBefore, Place
  <2>6. IsAudio(ring'[b][p]) => ring[b][p].a # Unset  BY <1>1 DEF IsAudio, Unset
  <2> QED  BY <1>1, <2>1, <2>3, <2>4, <2>5, <2>6 DEF AsLoaded
<1>7. ASSUME NEW b \in Buffers, NEW p \in Offsets PROVE SlotInOrder(b, p)'
  <2>1. Fresh(b, p)'
    <3>1. Distance(WritePlace, DmaPlace)' = Distance(0, 0)
      BY <1>4 DEF Distance, RingSize
    <3>2. Distance(0, 0) = 0  BY DEF Distance
    <3> QED  BY <1>6, <3>1, <3>2 DEF Fresh
  <2>2. IsAudio(ring'[b][p]) => sent' < ring'[b][p].a
    <3>1. ASSUME NEW k \in Nat PROVE k * FrameBytes > -1  BY <1>2
    <3> QED  BY <1>5, <1>6, <3>1
  <2> QED  BY <2>1, <2>2 DEF SlotInOrder, IsAudio
<1>8. ASSUME NEW b \in Buffers, NEW c \in Buffers, NEW p \in Offsets, NEW q \in Offsets
      PROVE  SlotsInOrder(b, p, c, q)'
  <2>1. ASSUME NEW k \in Nat, NEW l \in Nat, k < l
        PROVE  k * FrameBytes < l * FrameBytes
    <3>1. FrameBytes * k + FrameBytes <= FrameBytes * l  BY <1>2, <2>1, MultiplesApart
    <3>2. FrameBytes * k = k * FrameBytes /\ FrameBytes * l = l * FrameBytes
          /\ k * FrameBytes \in Nat /\ l * FrameBytes \in Nat
      BY <1>2
    <3> QED  BY <1>2, <3>1, <3>2
  <2>2. ASSUME IsAudio(ring'[b][p]), IsAudio(ring'[c][q]), Youth(b, p)' < Youth(c, q)'
        PROVE  ring'[b][p].a < ring'[c][q].a /\ ring'[b][p].a <= ring'[c][q].a
    <3> DEFINE k == Place(b, p)
               l == Place(c, q)
    <3>1. /\ k \in Nat /\ l \in Nat /\ k < l
          /\ ring'[b][p].a = k * FrameBytes /\ ring'[c][q].a = l * FrameBytes
      BY <1>6, <2>2
    <3> HIDE DEF k, l
    <3>2. k * FrameBytes < l * FrameBytes /\ k * FrameBytes \in Int /\ l * FrameBytes \in Int
      BY <1>2, <2>1, <3>1
    <3> QED  BY <3>1, <3>2
  <2> QED  BY <2>2 DEF SlotsInOrder, IsAudio
<1> QED  BY <1>7, <1>8 DEF Order

LEMMA StoreKeepsOrder ==
  ASSUME StreamAssumption, PaceAssumption, Tolerance, StreamInv, Pace, ReadOrder, Order,
         PacedProgram, Write \/ FillRest \/ FillWrite
  PROVE  Order'
<1> USE DEF StreamInv
<1>1. Whole  BY DEF Pace, ShortInput, OnAir, Write, FillRest, FillWrite
<1>2. /\ OnAir /\ OnAir' /\ Current \in Buffers /\ Position \in Offsets
      /\ WritePlace = Place(Current, Position) /\ WritePlace' = NextPlace(WritePlace)
      /\ dmaBlock' = dmaBlock /\ dmaFrame' = dmaFrame /\ eof' = eof
      /\ pc' = "check" => pc = "write"
      /\ Storing
  BY <1>1, StoreEffect DEF dmaVars, fileVars, Storing
<1>p. PICK buf \in Buffers, off \in Offsets : buf = Current /\ off = Position
  BY <1>2
<1>3. PICK x, y :
        /\ x = IF pc = "write" THEN samples[1] ELSE Quiet
        /\ \A b \in Buffers : \A p \in Offsets :
             ring'[b][p] = IF b = buf /\ p = off THEN Slot(x, y, frame_index)
                           ELSE ring[b][p]
  BY <1>1, <1>p, StoreEffect
<1>4. dmaBlock # buf  BY <1>p, StoreKeepsPace
<1>5. sent' = sent /\ dmaBlock \in Buffers /\ dmaFrame \in Offsets
  BY DEF PacedProgram, TypeOK
<1>6. /\ RingSize \in Nat /\ RingSize > 1
      /\ WritePlace \in 0 .. RingSize - 1 /\ DmaPlace \in 0 .. RingSize - 1
  BY <1>2, WritePlaceInRing, RingSizes
<1> DEFINE d == Distance(WritePlace, DmaPlace)
<1>7. d \in 1 .. RingSize - 1 /\ Distance(WritePlace, DmaPlace)' = d - 1
  <2>1. WritePlace # DmaPlace  BY <1>2, <1>p, <1>4, <1>5, PlaceTellsSlot DEF DmaPlace
  <2>2. /\ d \in 0 .. RingSize - 1 /\ d # 0
        /\ Distance(NextPlace(WritePlace), DmaPlace) = d - 1
    BY <1>6, <2>1, Distances
  <2>3. DmaPlace' = DmaPlace  BY <1>2 DEF DmaPlace, Place
  <2>4. Distance(WritePlace, DmaPlace)' = Distance(WritePlace', DmaPlace')
    BY DEF Distance, RingSize
  <2> QED  BY <1>2, <1>6, <2>2, <2>3, <2>4
<1>8. ASSUME NEW b \in Buffers, NEW p \in Offsets
      PROVE  /\ Youth(b, p) \in 0 .. RingSize - 1
             /\ Youth(b, p)' = IF b = buf /\ p = off THEN RingSize - 1
                               ELSE Youth(b, p) - 1
             /\ ~(b = buf /\ p = off) => Youth(b, p) # 0
  <2>1. Place(b, p) \in 0 .. RingSize - 1  BY PlaceInRing
  <2>2. WritePlace = Place(b, p) <=> b = buf /\ p = off
    BY <1>2, <1>p, PlaceTellsSlot
  <2>3. Youth(b, p)' = Distance(NextPlace(WritePlace), Place(b, p))
    BY <1>2 DEF Youth, Distance, Place, RingSize
  <2>4. /\ Distance(WritePlace, Place(b, p)) \in 0 .. RingSize - 1
        /\ Distance(WritePlace, Place(b, p)) = 0 <=> WritePlace = Place(b, p)
        /\ Distance(NextPlace(WritePlace), Place(b, p))
             = IF WritePlace = Place(b, p) THEN RingSize - 1
               ELSE Distance(WritePlace, Place(b, p)) - 1
    BY <1>6, <2>1, Distances
  <2> QED  BY <2>2, <2>3, <2>4 DEF Youth
<1>9. ASSUME NEW b \in Buffers, NEW p \in Offsets, ~(b = buf /\ p = off)
      PROVE  /\ ring'[b][p] = ring[b][p] /\ (Fresh(b, p)' <=> Fresh(b, p))
             /\ ~Repeat(b, p) /\ ~Repeat(b, p)'
  <2>1. ring'[b][p] = ring[b][p]  BY <1>3, <1>9
  <2>2. /\ Youth(b, p) \in 0 .. RingSize - 1 /\ Youth(b, p)' = Youth(b, p) - 1
    BY <1>8, <1>9
  <2>3. Fresh(b, p)' <=> d - 1 <= Youth(b, p) - 1
    BY <1>7, <2>2 DEF Fresh
  <2>4. Fresh(b, p) <=> d <= Youth(b, p)  BY DEF Fresh
  <2> DEFINE a == Youth(b, p)
             r == RingSize
  <2>5. a \in 0 .. r - 1 /\ d \in 1 .. r - 1 /\ r \in Nat  BY <1>6, <1>7, <2>2
  <2> HIDE DEF a, r, d
  <2>6. (d - 1 <= a - 1 <=> d <= a) /\ a - 1 # r - 1  BY <2>5
  <2>7. Fresh(b, p)' <=> Fresh(b, p)  BY <2>3, <2>4, <2>6 DEF a
  <2>8. ~Repeat(b, p)  BY <1>2 DEF Repeat, Storing
  <2>9. ~Repeat(b, p)'  BY <2>2, <2>6 DEF Repeat, RingSize, a, r
  <2> QED  BY <2>1, <2>7, <2>8, <2>9
<1>10. /\ Fresh(buf, off)'
       /\ eof /\ pc = "write" => Repeat(buf, off)'
       /\ Youth(buf, off)' = RingSize - 1
       /\ ring'[buf][off].a = x
  <2>1. Youth(buf, off)' = RingSize - 1  BY <1>2, <1>8
  <2>2. d - 1 <= RingSize - 1  BY <1>6, <1>7
  <2>3. Fresh(buf, off)' <=> d - 1 <= RingSize - 1
    BY <1>7, <2>1 DEF Fresh
  <2>4. pc = "write" => pc' = "check"  BY DEF Write, FillRest, FillWrite
  <2>5. eof /\ pc = "write" => Repeat(buf, off)'
    BY <1>2, <2>1, <2>4 DEF Repeat, RingSize
  <2>6. ring'[buf][off].a = x  BY <1>2, <1>3 DEF Slot
  <2> QED  BY <2>1, <2>2, <2>3, <2>5, <2>6
<1>11. ASSUME x >= 0
       PROVE  /\ pc = "write" /\ x = samples[1] /\ Before(x + 1)
              /\ ~eof => Before(x)
  BY <1>3, <1>11 DEF Quiet, ReadOrder
<1>12. ASSUME NEW b \in Buffers, NEW p \in Offsets PROVE SlotInOrder(b, p)'
  <2>1. CASE b = buf /\ p = off
    <3>1. IsAudio(ring'[b][p]) /\ ~Repeat(b, p)' => sent' < ring'[b][p].a
      BY <1>5, <1>10, <1>11, <2>1 DEF IsAudio, Before
    <3> QED  BY <1>10, <2>1, <3>1 DEF SlotInOrder, IsAudio
  <2>2. CASE ~(b = buf /\ p = off)
    <3>1. SlotInOrder(b, p)  BY <1>2 DEF Order
    <3> QED  BY <1>5, <1>9, <2>2, <3>1 DEF SlotInOrder, IsAudio
  <2> QED  BY <2>1, <2>2
<1>13. ASSUME NEW b \in Buffers, NEW c \in Buffers, NEW p \in Offsets, NEW q \in Offsets,
              IsAudio(ring'[b][p]), IsAudio(ring'[c][q]), Fresh(b, p)',
              Youth(b, p)' < Youth(c, q)'
       PROVE  /\ ring'[b][p].a <= ring'[c][q].a
              /\ ~Repeat(c, q)' => ring'[b][p].a < ring'[c][q].a
  <2>1. ~(b = buf /\ p = off)
    <3> SUFFICES ASSUME b = buf, p = off PROVE FALSE  OBVIOUS
    <3>1. Youth(c, q)' \in -1 .. RingSize - 1  BY <1>6, <1>8
    <3>2. RingSize - 1 < Youth(c, q)'  BY <1>10, <1>13
    <3> DEFINE v == Youth(c, q)'
               r == RingSize
    <3>3. v \in -1 .. r - 1 /\ r - 1 < v /\ r \in Nat  BY <1>6, <3>1, <3>2
    <3> HIDE DEF v, r
    <3> QED  BY <3>3
  <2>2. ring'[b][p] = ring[b][p] /\ Fresh(b, p) /\ Youth(b, p)' = Youth(b, p) - 1
    BY <1>8, <1>9, <1>13, <2>1
  <2>3. CASE c = buf /\ q = off
    <3>1. ring'[c][q].a = x /\ x >= 0  BY <1>10, <1>13, <2>3 DEF IsAudio
    <3>2. ring[b][p].a < x + 1 /\ (~eof => ring[b][p].a < x)  BY <1>11, <3>1 DEF Before
    <3>3. ring[b][p].a \in Int /\ x \in Int  BY <1>11, <3>1, SourceValues
    <3>4. ring[b][p].a <= x  BY <3>2, <3>3
    <3> QED  BY <1>10, <1>11, <2>2, <2>3, <3>1, <3>2, <3>4
  <2>4. CASE ~(c = buf /\ q = off)
    <3>1. ring'[c][q] = ring[c][q] /\ Youth(c, q)' = Youth(c, q) - 1 /\ ~Repeat(c, q)
      BY <1>8, <1>9, <2>4
    <3>2. Youth(b, p) < Youth(c, q)
      <4> DEFINE v == Youth(b, p)
                 w == Youth(c, q)
                 r == RingSize
      <4>1. v - 1 < w - 1 /\ v \in 0 .. r - 1 /\ w \in 0 .. r - 1
        BY <1>8, <1>13, <2>2, <3>1
      <4> HIDE DEF v, w, r
      <4>2. v < w  BY <4>1
      <4> QED  BY <4>2 DEF v, w
    <3>3. SlotsInOrder(b, p, c, q)  BY <1>2 DEF Order
    <3> QED  BY <1>13, <2>2, <3>1, <3>2, <3>3 DEF SlotsInOrder
  <2> QED  BY <2>3, <2>4
<1>14. ASSUME NEW b \in Buffers, NEW c \in Buffers, NEW p \in Offsets, NEW q \in Offsets
       PROVE  SlotsInOrder(b, p, c, q)'
  BY <1>13 DEF SlotsInOrder, IsAudio
<1> QED  BY <1>12, <1>14 DEF Order

\* The frame that goes out is the oldest of those that have not been out.
LEMMA TickPlaysOldest ==
  ASSUME StreamAssumption, PaceAssumption, Tolerance, StreamInv, DmaOnAir, Pace, Order, Tick,
         IsAudio(ring[dmaBlock][dmaFrame])
  PROVE  /\ pc # "poll"
         /\ sent < ring[dmaBlock][dmaFrame].a
         /\ \A b \in Buffers : \A p \in Offsets :
              IsAudio(ring[b][p]) =>
                IF Fresh(b, p) THEN ring[dmaBlock][dmaFrame].a <= ring[b][p].a
                ELSE ring[b][p].a <= sent
<1> USE DEF StreamInv
<1>1. OnAir /\ dmaBlock \in Buffers /\ dmaFrame \in Offsets
  BY DEF DmaOnAir, Tick, Transmit, TypeOK
<1>2. pc # "poll"
  <2> SUFFICES ASSUME pc = "poll" PROVE FALSE  OBVIOUS
  <2>1. ring[dmaBlock][dmaFrame].a = Quiet  BY <1>1, AllFilledAtPoll
  <2> QED  BY <2>1 DEF IsAudio, Quiet
<1>3. Youth(dmaBlock, dmaFrame) = Distance(WritePlace, DmaPlace)  BY DEF Youth, DmaPlace
<1>4. Youth(dmaBlock, dmaFrame) \in 0 .. RingSize - 1 /\ RingSize \in Nat
  BY <1>1, YouthInRing, RingSizes
<1>5. Fresh(dmaBlock, dmaFrame)
  <2> DEFINE v == Youth(dmaBlock, dmaFrame)
             r == RingSize
  <2>1. v \in 0 .. r - 1 /\ r \in Nat  BY <1>4
  <2> HIDE DEF v, r
  <2>2. v <= v  BY <2>1
  <2> QED  BY <1>3, <2>2 DEF Fresh, v
<1>6. ~Repeat(dmaBlock, dmaFrame)
  <2>1. WritePlace \in 0 .. RingSize - 1 /\ DmaPlace \in 0 .. RingSize - 1
    BY <1>1, WritePlaceInRing
  <2>2. NextPlace(DmaPlace) # WritePlace  BY <1>1, <1>2, TickBelowWritePlace
  <2>3. Distance(WritePlace, DmaPlace) # RingSize - 1  BY <2>1, <2>2, Distances
  <2> QED  BY <1>3, <2>3 DEF Repeat
<1>7. sent < ring[dmaBlock][dmaFrame].a
  BY <1>1, <1>5, <1>6 DEF Order, SlotInOrder
<1>8. ASSUME NEW b \in Buffers, NEW p \in Offsets, IsAudio(ring[b][p])
      PROVE  IF Fresh(b, p) THEN ring[dmaBlock][dmaFrame].a <= ring[b][p].a
             ELSE ring[b][p].a <= sent
  <2>1. CASE ~Fresh(b, p)  BY <1>1, <1>8, <2>1 DEF Order, SlotInOrder
  <2>2. CASE Fresh(b, p)
    <3>1. SlotsInOrder(dmaBlock, dmaFrame, b, p)  BY <1>1 DEF Order
    <3>2. CASE Youth(dmaBlock, dmaFrame) < Youth(b, p)
      BY <1>5, <1>8, <2>2, <3>1, <3>2 DEF SlotsInOrder
    <3>3. CASE ~(Youth(dmaBlock, dmaFrame) < Youth(b, p))
      <4>1. Youth(b, p) \in 0 .. RingSize - 1  BY <1>1, YouthInRing
      <4>2. Youth(dmaBlock, dmaFrame) <= Youth(b, p)  BY <1>3, <2>2 DEF Fresh
      <4> DEFINE v == Youth(dmaBlock, dmaFrame)
                 w == Youth(b, p)
                 r == RingSize
      <4>3. v \in 0 .. r - 1 /\ w \in 0 .. r - 1 /\ v <= w /\ ~(v < w) /\ r \in Nat
        BY <1>4, <3>3, <4>1, <4>2
      <4> HIDE DEF v, w, r
      <4>4. w = v  BY <4>3
      <4>5. b = dmaBlock /\ p = dmaFrame
        <5>1. Youth(b, p) = Distance(WritePlace, DmaPlace)  BY <1>3, <4>4 DEF v, w
        <5> QED  BY <1>1, <5>1, YouthInRing
      <4>6. ring[b][p].a \in Int  BY SourceValues
      <4> QED  BY <2>2, <4>5, <4>6
    <3> QED  BY <3>2, <3>3
  <2> QED  BY <2>1, <2>2
<1> QED  BY <1>2, <1>7, <1>8

LEMMA TickKeepsOrder ==
  ASSUME StreamAssumption, PaceAssumption, Tolerance, StreamInv, DmaOnAir, Pace, ReadOrder, Order,
         Tick
  PROVE  Order'
<1> USE DEF StreamInv
<1>1. OnAir  BY DEF DmaOnAir, Tick, Transmit
<1>2. /\ wire' = ring[dmaBlock][dmaFrame]
      /\ DmaPlace' = NextPlace(DmaPlace)
      /\ dmaBlock \in Buffers /\ dmaFrame \in Offsets
      /\ UNCHANGED <<pc, ring, eof, WritePlace>>
  BY TransmitEffect DEF Tick, TypeOK, fileVars
<1>3. sent' = IF IsAudio(ring[dmaBlock][dmaFrame]) THEN ring[dmaBlock][dmaFrame].a ELSE sent
  BY <1>2 DEF Tick
<1>4. \A b \in Buffers : \A p \in Offsets :
        Youth(b, p)' = Youth(b, p) /\ (Repeat(b, p)' <=> Repeat(b, p))
  BY <1>2 DEF Youth, Repeat, Distance, Place, RingSize
<1>5. CASE pc = "poll"
  <2>1. \A b \in Buffers : \A p \in Offsets : ring'[b][p].a = Quiet
    BY <1>2, <1>5, AllFilledAtPoll
  <2>2. \A b \in Buffers : \A p \in Offsets : ~(ring'[b][p].a >= 0)
    BY <2>1 DEF Quiet
  <2> QED  BY <2>2 DEF Order, SlotInOrder, SlotsInOrder, IsAudio
<1>6. CASE pc # "poll"
  <2> DEFINE d == Distance(WritePlace, DmaPlace)
             r == RingSize
  <2>1. /\ WritePlace \in 0 .. RingSize - 1 /\ DmaPlace \in 0 .. RingSize - 1
    BY <1>1, WritePlaceInRing
  <2>2. d \in 0 .. r - 1 /\ r \in Nat /\ Distance(WritePlace, DmaPlace)' = d + 1
    <3>1. NextPlace(DmaPlace) # WritePlace  BY <1>1, <1>6, TickBelowWritePlace
    <3>2. /\ d \in 0 .. RingSize - 1 /\ d # RingSize - 1
          /\ Distance(WritePlace, NextPlace(DmaPlace)) = d + 1
      BY <2>1, <3>1, Distances
    <3>3. Distance(WritePlace, DmaPlace)' = Distance(WritePlace', DmaPlace')
      BY DEF Distance, RingSize
    <3> QED  BY <1>2, <3>2, <3>3, RingSizes
  <2>3. ASSUME NEW b \in Buffers, NEW p \in Offsets
        PROVE  /\ Fresh(b, p)' => Fresh(b, p) /\ d < Youth(b, p)
               /\ ~Fresh(b, p)' => ~Fresh(b, p) \/ (b = dmaBlock /\ p = dmaFrame)
    <3> DEFINE v == Youth(b, p)
    <3>1. v \in 0 .. r - 1 /\ (v = d => b = dmaBlock /\ p = dmaFrame)
      BY <1>1, YouthInRing
    <3>2. Fresh(b, p)' <=> d + 1 <= v
      BY <1>4, <2>2 DEF Fresh
    <3>3. Fresh(b, p) <=> d <= v  BY DEF Fresh
    <3> HIDE DEF d, r, v
    <3>4. (d + 1 <= v => d <= v /\ d < v) /\ (~(d + 1 <= v) => ~(d <= v) \/ v = d)
      BY <2>2, <3>1
    <3> QED  BY <3>1, <3>2, <3>3, <3>4 DEF v
  <2>4. Youth(dmaBlock, dmaFrame) = d  BY DEF Youth, DmaPlace
  <2>5. Fresh(dmaBlock, dmaFrame)
    <3> HIDE DEF d
    <3>1. d <= d  BY <2>2
    <3> QED  BY <2>4, <3>1 DEF Fresh, d
  <2> HIDE DEF d, r
  <2>6. ASSUME NEW b \in Buffers, NEW p \in Offsets, IsAudio(ring[b][p])
        PROVE  IF Fresh(b, p)' THEN ~Repeat(b, p) => sent' < ring[b][p].a
               ELSE ring[b][p].a <= sent'
    <3>1. SlotInOrder(b, p)  BY <1>1 DEF Order
    <3>2. CASE ~IsAudio(ring[dmaBlock][dmaFrame])
      <4>1. sent' = sent /\ ~(b = dmaBlock /\ p = dmaFrame)  BY <1>3, <2>6, <3>2
      <4> QED  BY <2>3, <2>6, <3>1, <4>1 DEF SlotInOrder
    <3>3. CASE IsAudio(ring[dmaBlock][dmaFrame])
      <4>1. sent' = ring[dmaBlock][dmaFrame].a /\ sent < sent'
        BY <1>3, <3>3, TickPlaysOldest
      <4>2. CASE Fresh(b, p)'
        <5>1. d < Youth(b, p)  BY <2>3, <4>2
        <5>2. SlotsInOrder(dmaBlock, dmaFrame, b, p)  BY <1>1, <1>2 DEF Order
        <5> QED  BY <2>4, <2>5, <2>6, <3>3, <4>1, <4>2, <5>1, <5>2 DEF SlotsInOrder
      <4>3. CASE ~Fresh(b, p)'
        <5>1. ring[b][p].a \in Int /\ sent \in Int /\ sent' \in Int
          BY <1>2, <4>1, SourceValues DEF ReadOrder
        <5>2. ~Fresh(b, p) \/ (b = dmaBlock /\ p = dmaFrame)  BY <2>3, <4>3
        <5>3. ring[b][p].a <= sent \/ ring[b][p].a = sent'
          BY <2>6, <3>1, <4>1, <5>2 DEF SlotInOrder
        <5> DEFINE t == sent'
        <5>4. t \in Int /\ sent < t /\ (ring[b][p].a <= sent \/ ring[b][p].a = t)
          BY <4>1, <5>1, <5>3
        <5> HIDE DEF t
        <5>5. ring[b][p].a <= t  BY <5>1, <5>4
        <5> QED  BY <4>3, <5>5 DEF t
      <4> QED  BY <4>2, <4>3
    <3> QED  BY <3>2, <3>3
  <2>7. \A b \in Buffers : \A p \in Offsets : SlotInOrder(b, p)'
    BY <1>2, <1>4, <2>6 DEF SlotInOrder, IsAudio
  <2>8. ASSUME NEW b \in Buffers, NEW c \in Buffers, NEW p \in Offsets, NEW q \in Offsets
        PROVE  SlotsInOrder(b, p, c, q)'
    <3>1. SlotsInOrder(b, p, c, q)  BY <1>1 DEF Order
    <3>2. Fresh(b, p)' => Fresh(b, p)  BY <2>3
    <3> QED  BY <1>2, <1>4, <3>1, <3>2 DEF SlotsInOrder, IsAudio
  <2> QED  BY <2>7, <2>8 DEF Order
<1> QED  BY <1>5, <1>6

LEMMA OrderStep ==
  ASSUME StreamAssumption, PaceAssumption, Tolerance,
         StreamInv, BeforeStart, DmaOnAir, Pace, ReadOrder, Order, [PacedNext]_pacedVars
  PROVE  Order'
<1>a. ASSUME OnAir, UNCHANGED <<ring, sent, WritePlace, DmaPlace>>,
             (eof /\ pc = "check") => (eof /\ pc = "check")'
      PROVE  Order'
  <2>1. \A b \in Buffers : \A p \in Offsets :
          /\ Youth(b, p)' = Youth(b, p)
          /\ Fresh(b, p)' <=> Fresh(b, p)
          /\ Repeat(b, p) => Repeat(b, p)'
    BY <1>a DEF Youth, Fresh, Repeat, Distance, Place, RingSize
  <2>2. \A b \in Buffers : \A p \in Offsets : SlotInOrder(b, p)'
    BY <1>a, <2>1 DEF Order, SlotInOrder, IsAudio
  <2>3. ASSUME NEW b \in Buffers, NEW c \in Buffers, NEW p \in Offsets, NEW q \in Offsets
        PROVE  SlotsInOrder(b, p, c, q)'
    <3>1. SlotsInOrder(b, p, c, q)  BY <1>a DEF Order
    <3> QED  BY <1>a, <2>1, <3>1 DEF SlotsInOrder, IsAudio
  <2> QED  BY <2>2, <2>3 DEF Order
<1>1. CASE PacedProgram
  <2>1. Program /\ sent' = sent  BY <1>1 DEF PacedProgram
  <2>2. CASE PreloadStore \/ PreloadEnd \/ Shutdown
    BY <2>2 DEF PreloadStore, PreloadEnd, Shutdown, OnAir, Order
  <2>3. CASE Start  BY <2>1, <2>3, StartOrder
  <2>4. CASE Looking
    <3>1. ~(eof /\ pc = "check")
      BY <2>4 DEF Looking, Check, Wake, ReadFrame, Underrun, FillCheck, FillWake
    <3> QED  BY <1>a, <2>1, <2>4, <3>1, LookingEffect DEF StreamInv
  <2>5. CASE Write \/ FillRest \/ FillWrite  BY <1>1, <2>5, StoreKeepsOrder
  <2>6. CASE Idle \/ Resume
    <3>1. ring' = ring  BY <2>6 DEF Idle, Resume
    <3>2. \A b \in Buffers : \A p \in Offsets : ring'[b][p].a = Quiet
      BY <2>6, <3>1, QuietWhenFilled DEF StreamInv
    <3>3. \A b \in Buffers : \A p \in Offsets : ~(ring'[b][p].a >= 0)
      BY <3>2 DEF Quiet
    <3> QED  BY <3>3 DEF Order, SlotInOrder, SlotsInOrder, IsAudio
  <2> QED  BY <2>1, <2>2, <2>3, <2>4, <2>5, <2>6 DEF Program, Looking
<1>2. CASE PacedSource \/ UNCHANGED pacedVars
  <2>1. /\ UNCHANGED <<pc, eof, buffer_index, fill_index, sample_count, ring, dmaBlock, dmaFrame>>
        /\ sent' = sent
    BY <1>2 DEF PacedSource, Source, SourceWrite, SourceClose, pacedVars, vars, programVars,
                dmaVars, fileVars
  <2>2. UNCHANGED <<OnAir, WritePlace, DmaPlace>>
    BY <2>1 DEF OnAir, WritePlace, DmaPlace, Whole, Current, Filling, Offset, Position, Place
  <2>3. CASE OnAir  BY <1>a, <2>1, <2>2, <2>3
  <2>4. CASE ~OnAir  BY <2>2, <2>4 DEF Order
  <2> QED  BY <2>3, <2>4
<1>3. CASE Tick  BY <1>3, TickKeepsOrder
<1> QED  BY <1>1, <1>2, <1>3 DEF PacedNext

LEMMA OrderInvariant == Tolerance => (PacedSpec => []Order)
<1> SUFFICES ASSUME Tolerance PROVE PacedSpec => []Order  OBVIOUS
<1>1. PacedInit => Order  BY DEF PacedInit, Init, Order, OnAir
<1>2. StreamInv /\ BeforeStart /\ DmaOnAir /\ Pace /\ ReadOrder /\ Order /\ [PacedNext]_pacedVars
      => Order'
  BY StreamAssumption, PaceAssumption, OrderStep
<1> QED
  BY <1>1, <1>2, StreamInvariant, BeforeStartInvariant, DmaOnAirInvariant, PaceInvariant,
     ReadOrderInvariant, PTL
  DEF PacedSpec

-----------------------------------------------------------------------------
(* PacedStream implements FrameQueue. *)

\* The queue's module counts as this one does.
LEMMA SameCardinality == ASSUME NEW S PROVE Queue!Cardinality(S) = Cardinality(S)
BY DEF Queue!Cardinality, Cardinality

\* There is always a place in the queue for the frame of a slot without one.
LEMMA WaitingFits ==
  ASSUME StreamAssumption, NEW B \in Buffers, NEW P \in Offsets, ~(ring[B][P].a > sent)
  PROVE  Cardinality(Waiting) < BufferCount * BufferSize
<1> DEFINE All  == Buffers \X Offsets
           Rest == All \ {<<B, P>>}
           f    == [s \in Rest |-> ring[s[1]][s[2]].a]
           T    == {ring[s[1]][s[2]].a : s \in Rest}
<1>1. BufferCount \in Nat /\ BufferSize \in Nat /\ BufferCount * BufferSize \in Nat
  BY RingSizes
<1>2. /\ IsFiniteSet(Buffers) /\ Cardinality(Buffers) = BufferCount
      /\ IsFiniteSet(Offsets) /\ Cardinality(Offsets) = BufferSize
  <2>1. ASSUME NEW n \in Nat
        PROVE  IsFiniteSet(0 .. n - 1) /\ Cardinality(0 .. n - 1) = n
    <3> DEFINE l == n - 1
    <3>1. l \in Int /\ 0 \in Int /\ (IF 0 > l THEN 0 ELSE l - 0 + 1) = n  OBVIOUS
    <3> HIDE DEF l
    <3>2. IsFiniteSet(0 .. l) /\ Cardinality(0 .. l) = n
      BY <3>1, FS_Interval
    <3> QED  BY <3>2 DEF l
  <2> QED  BY <1>1, <2>1 DEF Buffers, Offsets
<1>3. IsFiniteSet(All) /\ Cardinality(All) = BufferCount * BufferSize
  <2> DEFINE S == Buffers
             R == Offsets
  <2>1. IsFiniteSet(S) /\ IsFiniteSet(R)  BY <1>2
  <2> HIDE DEF S, R
  <2>2. IsFiniteSet(S \X R) /\ Cardinality(S \X R) = Cardinality(S) * Cardinality(R)
    BY <2>1, FS_Product
  <2> QED  BY <1>2, <2>2 DEF S, R
<1>4. IsFiniteSet(Rest) /\ Cardinality(Rest) = BufferCount * BufferSize - 1
  <2>1. <<B, P>> \in All  OBVIOUS
  <2> HIDE DEF All
  <2> QED  BY <1>3, <2>1, FS_RemoveElement
<1>5. f \in Surjection(Rest, T)
  <2> HIDE DEF Rest
  <2> QED  BY DEF Surjection
<1>6. IsFiniteSet(T) /\ Cardinality(T) <= Cardinality(Rest)
  <2> HIDE DEF Rest, f, T
  <2> QED  BY <1>4, <1>5, FS_Surjection
<1>7. Waiting \subseteq T
  <2> SUFFICES ASSUME NEW t \in Waiting PROVE t \in T  OBVIOUS
  <2>1. PICK b \in Buffers, p \in Offsets : t = ring[b][p].a /\ t > sent
    BY DEF Waiting, InRing
  <2>2. <<b, p>> \in Rest  BY <2>1
  <2> HIDE DEF Rest
  <2> QED  BY <2>1, <2>2
<1>8. Cardinality(Waiting) <= Cardinality(T) /\ IsFiniteSet(Waiting)
  <2> HIDE DEF T
  <2> QED  BY <1>6, <1>7, FS_Subset
<1>9. Cardinality(Waiting) \in Nat /\ Cardinality(T) \in Nat
  BY <1>6, <1>8, FS_CardinalityType
<1> DEFINE m == Cardinality(Waiting)
           n == Cardinality(T)
           k == Cardinality(Rest)
           r == BufferCount * BufferSize
<1>10. m \in Nat /\ n \in Nat /\ r \in Nat /\ m <= n /\ n <= k /\ k = r - 1
  BY <1>1, <1>4, <1>6, <1>8, <1>9
<1> HIDE DEF m, n, k, r
<1>11. m < r  BY <1>10
<1> QED  BY <1>11 DEF m, r

\* A frame stored over one that is out, or over none, is accepted or known.
LEMMA StoreIsAccept ==
  ASSUME StreamAssumption, TypeOK, ReadOrder, pc # "done", pc' # "done", UNCHANGED <<sent, wire>>,
         NEW B \in Buffers, NEW P \in Offsets, ~(ring[B][P].a > sent),
         NEW x \in Sources, NEW y,
         x > sent => \A b \in Buffers : \A p \in Offsets : ring[b][p].a <= x,
         \A b \in Buffers : \A p \in Offsets :
           ring'[b][p] = IF b = B /\ p = P THEN Slot(x, y, frame_index) ELSE ring[b][p]
  PROVE  [Queue!Next]_(Queue!vars)
<1>1. sent \in Int /\ sent >= -1 /\ MaxBytes \in Nat /\ x \in Int /\ x <= MaxBytes
      /\ \A b \in Buffers : \A p \in Offsets : ring[b][p].a \in Int
  BY SourceValues DEF ReadOrder, Sources, Quiet, Torn, Unset
<1>2. /\ Waiting = {t \in InRing : t > sent}
      /\ Waiting' = {t \in InRing' : t > sent}
  BY DEF Waiting
<1>3. ASSUME NEW t
      PROVE  t \in Waiting' <=> t \in Waiting \/ (t = x /\ x > sent)
  <2>1. t \in InRing' <=> \E b \in Buffers, p \in Offsets : t = ring'[b][p].a
    BY DEF InRing
  <2>2. t \in InRing <=> \E b \in Buffers, p \in Offsets : t = ring[b][p].a
    BY DEF InRing
  <2>3. ASSUME t \in Waiting' PROVE t \in Waiting \/ (t = x /\ x > sent)
    <3>1. PICK b \in Buffers, p \in Offsets : t = ring'[b][p].a /\ t > sent
      BY <1>2, <2>1, <2>3
    <3>2. CASE b = B /\ p = P  BY <3>1, <3>2 DEF Slot
    <3>3. CASE ~(b = B /\ p = P)
      <4>1. t = ring[b][p].a  BY <3>1, <3>3
      <4> QED  BY <1>2, <2>2, <3>1, <4>1
    <3> QED  BY <3>2, <3>3
  <2>4. ASSUME t \in Waiting PROVE t \in Waiting'
    <3>1. PICK b \in Buffers, p \in Offsets : t = ring[b][p].a /\ t > sent
      BY <1>2, <2>2, <2>4
    <3>2. ~(b = B /\ p = P)  BY <3>1
    <3>3. t = ring'[b][p].a  BY <3>1, <3>2
    <3> QED  BY <1>2, <2>1, <3>1, <3>3
  <2>5. ASSUME t = x, x > sent PROVE t \in Waiting'
    <3>1. ring'[B][P].a = x  BY DEF Slot
    <3> QED  BY <1>2, <2>1, <2>5, <3>1
  <2> QED  BY <2>3, <2>4, <2>5
<1>4. CASE x > sent /\ x \notin Waiting
  <2>1. Waiting' = Waiting \cup {x}  BY <1>3, <1>4
  <2>2. x \in 0 .. MaxBytes  BY <1>1, <1>4
  <2>3. ASSUME NEW w \in Waiting \cup {sent} PROVE x > w
    <3>1. CASE w = sent  BY <1>4, <3>1
    <3>2. CASE w \in Waiting
      <4>1. PICK b \in Buffers, p \in Offsets : w = ring[b][p].a
        BY <1>2, <3>2 DEF InRing
      <4>2. w <= x /\ w # x /\ w \in Int  BY <1>1, <1>4, <3>2, <4>1
      <4> QED  BY <1>1, <4>2
    <3> QED  BY <3>1, <3>2
  <2>4. Cardinality(Waiting) < BufferCount * BufferSize  BY WaitingFits
  <2>5. (IF IsAudio(wire) THEN wire.a ELSE Quiet)' = (IF IsAudio(wire) THEN wire.a ELSE Quiet)
    BY DEF IsAudio
  <2>6. Queue!Accept
    <3>1. \E t \in 0 .. MaxBytes : /\ \A w \in Waiting \cup {sent} : t > w
                                   /\ Waiting' = Waiting \cup {t}
      <4> WITNESS x \in 0 .. MaxBytes
      <4> QED  BY <2>1, <2>3
    <3> QED  BY <2>4, <2>5, <3>1, SameCardinality DEF Queue!Accept
  <2> QED  BY <2>6 DEF Queue!Next
<1>5. CASE ~(x > sent /\ x \notin Waiting)
  <2>1. ASSUME NEW t PROVE t \in Waiting' <=> t \in Waiting
    <3>1. t \in Waiting' <=> t \in Waiting \/ (t = x /\ x > sent)  BY <1>3
    <3>2. CASE t = x  BY <1>5, <3>1, <3>2
    <3>3. CASE t # x  BY <3>1, <3>3
    <3> QED  BY <3>2, <3>3
  <2>2. Waiting' = Waiting
    <3>1. Waiting' \subseteq Waiting /\ Waiting \subseteq Waiting'  BY <2>1
    <3> QED  BY <3>1
  <2> QED  BY <2>2 DEF Queue!vars, IsAudio
<1> QED  BY <1>4, <1>5

\* Nothing stored, nothing sent.
LEMMA NothingIsStutter ==
  ASSUME UNCHANGED <<ring, sent, wire>>, pc # "done", pc' # "done"
  PROVE  [Queue!Next]_(Queue!vars)
BY DEF Queue!vars, Waiting, InRing, IsAudio

LEMMA StoreRefines ==
  ASSUME StreamAssumption, PaceAssumption, Tolerance, StreamInv, Pace, ReadOrder, Order,
         PacedProgram, Write \/ FillRest \/ FillWrite
  PROVE  [Queue!Next]_(Queue!vars)
<1> USE DEF StreamInv
<1>1. Whole  BY DEF Pace, ShortInput, OnAir, Write, FillRest, FillWrite
<1>2. /\ OnAir /\ OnAir' /\ Current \in Buffers /\ Position \in Offsets
      /\ WritePlace = Place(Current, Position) /\ wire' = wire
  BY <1>1, StoreEffect
<1>3. PICK x, y :
        /\ x = IF pc = "write" THEN samples[1] ELSE Quiet
        /\ \A b \in Buffers : \A p \in Offsets :
             ring'[b][p] = IF b = Current /\ p = Position THEN Slot(x, y, frame_index)
                           ELSE ring[b][p]
  BY <1>1, StoreEffect
<1>4. ~(ring[Current][Position].a > sent)
  <2>1. dmaBlock # Current  BY StoreKeepsPace
  <2>2. dmaBlock \in Buffers /\ dmaFrame \in Offsets  BY DEF TypeOK
  <2>3. WritePlace # DmaPlace  BY <1>2, <2>1, <2>2, PlaceTellsSlot DEF DmaPlace
  <2>4. ~Fresh(Current, Position)
    <3>1. WritePlace \in 0 .. RingSize - 1 /\ DmaPlace \in 0 .. RingSize - 1
      BY <1>2, WritePlaceInRing
    <3> DEFINE d == Distance(WritePlace, DmaPlace)
               v == Youth(Current, Position)
    <3>2. d \in 0 .. RingSize - 1 /\ d # 0  BY <2>3, <3>1, Distances
    <3>3. v = 0  BY <1>2, <3>1, Distances DEF Youth
    <3>4. Fresh(Current, Position) <=> d <= v  BY DEF Fresh
    <3>5. RingSize \in Nat  BY RingSizes
    <3> HIDE DEF d, v
    <3> QED  BY <3>2, <3>3, <3>4, <3>5
  <2>5. SlotInOrder(Current, Position)  BY <1>2 DEF Order
  <2>6. ring[Current][Position].a >= 0 => ring[Current][Position].a <= sent
    BY <2>4, <2>5 DEF SlotInOrder, IsAudio
  <2>7. ring[Current][Position].a \in Int /\ sent \in Int /\ sent >= -1
    BY <1>2, SourceValues DEF ReadOrder
  <2> QED  BY <2>6, <2>7
<1>5. x \in Sources  BY <1>3 DEF TypeOK, Sources
<1>6. ASSUME x > sent, NEW b \in Buffers, NEW p \in Offsets PROVE ring[b][p].a <= x
  <2>1. sent \in Int /\ sent >= -1 /\ samples[1] \in Int /\ ring[b][p].a \in Int
    BY SourceValues DEF ReadOrder
  <2>2. x = samples[1] /\ x >= 0  BY <1>3, <1>6, <2>1 DEF Quiet
  <2>3. ring[b][p].a < x + 1  BY <2>2 DEF ReadOrder, Before
  <2> QED  BY <2>1, <2>2, <2>3
<1>7. pc # "done" /\ pc' # "done" /\ sent' = sent  BY <1>2 DEF OnAir, PacedProgram
<1> QED  BY <1>2, <1>3, <1>4, <1>5, <1>6, <1>7, StoreIsAccept

LEMMA PreloadRefines ==
  ASSUME StreamAssumption, StreamInv, BeforeStart, ReadOrder, PreloadStore, sent' = sent
  PROVE  [Queue!Next]_(Queue!vars)
<1>1. /\ pc = "preload" /\ pc' = "preload" /\ buffer_index \in Buffers /\ TypeOK /\ wire' = wire
      /\ Fread /\ Taken >= SampleSize
      /\ BufferSamples(buffer_index, samples'[1], samples'[2])
  BY DEF PreloadStore, StreamInv, TypeOK
<1>2. Position \in Offsets /\ BufferSize \in Nat  BY <1>1, PositionSteps, RingSizes DEF TypeOK
<1>3. PICK x, y : x = samples'[1] /\ y = samples'[2]  OBVIOUS
<1>4. x \in Sources  BY <1>1, <1>3, FreadTyped
<1>5. ~(ring[buffer_index][Position].a > sent)
  <2>1. ~Loaded(buffer_index, Position)  BY <1>1, <1>2 DEF Loaded, TypeOK
  <2>2. ring[buffer_index][Position].a = -3 /\ sent = -1
    BY <1>1, <1>2, <2>1 DEF BeforeStart, AsLoaded, Unset
  <2> QED  BY <2>2
<1>6. x = read
  <2>1. SampleSize \in Nat \ {0} /\ read \in Nat  BY <1>1, BytesNat
  <2>2. Taken >= (1 - 1) * SampleSize + SampleSize /\ read + (1 - 1) * SampleSize = read
    BY <1>1, <2>1
  <2> QED  BY <1>1, <1>3, <2>2 DEF Fread, SampleRead
<1>7. ASSUME NEW b \in Buffers, NEW p \in Offsets PROVE ring[b][p].a <= x
  <2>1. ring[b][p].a < read  BY DEF ReadOrder, Before
  <2>2. ring[b][p].a \in Int /\ read \in Int  BY <1>1, SourceValues
  <2> QED  BY <1>6, <2>1, <2>2
<1>8. \A b \in Buffers : \A p \in Offsets :
        ring'[b][p] = IF b = buffer_index /\ p = Position THEN Slot(x, y, frame_index)
                      ELSE ring[b][p]
  BY <1>1, <1>3, StoredSlot
<1> QED  BY <1>1, <1>2, <1>4, <1>5, <1>7, <1>8, StoreIsAccept

LEMMA TickRefines ==
  ASSUME StreamAssumption, PaceAssumption, Tolerance, StreamInv, DmaOnAir, Pace, ReadOrder, Order,
         Tick
  PROVE  [Queue!Next]_(Queue!vars)
<1> DEFINE d == ring[dmaBlock][dmaFrame]
<1>1. /\ wire' = d /\ pc' = pc /\ pc # "done" /\ ring' = ring /\ TypeOK
      /\ dmaBlock \in Buffers /\ dmaFrame \in Offsets
  BY DEF Tick, Transmit, DmaOnAir, OnAir, StreamInv, TypeOK
<1>2. sent' = IF IsAudio(d) THEN d.a ELSE sent  BY <1>1 DEF Tick
<1>3. InRing' = InRing  BY <1>1 DEF InRing
<1>4. Waiting = {t \in InRing : t > sent} /\ Waiting' = {t \in InRing : t > sent'}
  BY <1>1, <1>3 DEF Waiting
<1>5. CASE ~IsAudio(d)
  <2>1. sent' = sent /\ Waiting' = Waiting  BY <1>2, <1>4, <1>5
  <2>2. Queue!Hush  BY <1>1, <1>5, <2>1 DEF Queue!Hush, IsAudio
  <2> QED  BY <2>2 DEF Queue!Next
<1>6. CASE IsAudio(d)
  <2>1. /\ sent < d.a
        /\ \A b \in Buffers : \A p \in Offsets :
             IsAudio(ring[b][p]) =>
               IF Fresh(b, p) THEN d.a <= ring[b][p].a ELSE ring[b][p].a <= sent
    BY <1>6, TickPlaysOldest
  <2>2. sent' = d.a /\ d.a \in Int /\ sent \in Int /\ sent >= -1
    BY <1>1, <1>2, <1>6, SourceValues DEF ReadOrder
  <2>3. d.a \in Waiting
    <3>1. d.a \in InRing  BY <1>1 DEF InRing
    <3>2. d.a > sent  BY <2>1, <2>2
    <3> QED  BY <1>4, <3>1, <3>2
  <2>4. ASSUME NEW w \in Waiting PROVE d.a <= w /\ w \in Int
    <3>1. PICK b \in Buffers, p \in Offsets : w = ring[b][p].a /\ w > sent
      BY <1>4 DEF InRing
    <3>2. w \in Int  BY <1>1, <3>1, SourceValues
    <3>3. IsAudio(ring[b][p]) /\ ~(ring[b][p].a <= sent)
      BY <2>2, <3>1, <3>2 DEF IsAudio
    <3> QED  BY <2>1, <3>1, <3>2, <3>3
  <2>5. Waiting' = Waiting \ {d.a}
    <3>1. ASSUME NEW t \in InRing PROVE t > d.a <=> t > sent /\ t # d.a
      <4>1. t \in Int  BY <1>1, SourceValues DEF InRing
      <4>2. t > sent => t \in Waiting  BY <1>4
      <4>3. t > sent => d.a <= t  BY <2>4, <4>2
      <4> DEFINE e == d.a
      <4>4. e \in Int /\ sent \in Int /\ sent < e /\ (t > sent => e <= t)  BY <2>1, <2>2, <4>3
      <4> HIDE DEF e
      <4>5. t > e <=> t > sent /\ t # e  BY <4>1, <4>4
      <4> QED  BY <4>5 DEF e
    <3>2. Waiting' = {t \in InRing : t > d.a}  BY <1>4, <2>2
    <3> QED  BY <1>4, <3>1, <3>2
  <2>6. Queue!Play
    <3>1. (IF IsAudio(wire) THEN wire.a ELSE Quiet)' = d.a  BY <1>1, <1>6 DEF IsAudio
    <3> QED  BY <1>1, <2>2, <2>3, <2>4, <2>5, <3>1 DEF Queue!Play
  <2> QED  BY <2>6 DEF Queue!Next
<1> QED  BY <1>5, <1>6

LEMMA QueueStep ==
  ASSUME StreamAssumption, PaceAssumption, Tolerance,
         StreamInv, BeforeStart, DmaOnAir, Pace, ReadOrder, Order, [PacedNext]_pacedVars
  PROVE  [Queue!Next]_(Queue!vars)
<1>1. CASE PacedProgram
  <2>1. Program /\ sent' = sent  BY <1>1 DEF PacedProgram
  <2>2. CASE PreloadStore  BY <2>1, <2>2, PreloadRefines
  <2>3. CASE PreloadEnd \/ Start \/ Idle \/ Resume
    BY <2>1, <2>3, NothingIsStutter DEF PreloadEnd, Start, Idle, Resume
  <2>4. CASE Looking
    BY <2>1, <2>4, NothingIsStutter
    DEF Looking, Check, Wake, ReadFrame, Underrun, FillCheck, FillWake
  <2>5. CASE Write \/ FillRest \/ FillWrite  BY <1>1, <2>5, StoreRefines
  <2>6. CASE Shutdown
    <3>1. pc' = "done" /\ wire' = wire  BY <2>6 DEF Shutdown
    <3>2. Queue!ShutDown  BY <2>1, <2>6, <3>1 DEF Shutdown, Queue!ShutDown, Waiting, IsAudio
    <3> QED  BY <3>2 DEF Queue!Next
  <2> QED  BY <2>1, <2>2, <2>3, <2>4, <2>5, <2>6 DEF Program, Looking
<1>2. CASE PacedSource \/ UNCHANGED pacedVars
  <2>1. UNCHANGED <<pc, ring, sent, wire>>
    BY <1>2 DEF PacedSource, Source, SourceWrite, SourceClose, pacedVars, vars
  <2> QED  BY <2>1 DEF Queue!vars, Waiting, InRing, IsAudio
<1>3. CASE Tick  BY <1>3, TickRefines
<1> QED  BY <1>1, <1>2, <1>3 DEF PacedNext

(***************************************************************************)
(* Whatever the size of the ring and the input, and at any pace within the    *)
(* tolerance, the ring is a queue: audio goes out in the order of the input,  *)
(* each frame at most once, none is overwritten before it was out, and only   *)
(* the shutdown leaves some of it behind.                                   *)
(***************************************************************************)
THEOREM RingIsQueue == Tolerance => (PacedSpec => ImplementsQueue)
<1> SUFFICES ASSUME Tolerance PROVE PacedSpec => Queue!Spec  BY DEF ImplementsQueue
<1>1. PacedInit => Queue!Init
  <2> SUFFICES ASSUME PacedInit PROVE Queue!Init  OBVIOUS
  <2>1. /\ sent = -1 /\ wire = Slot(Unset, Unset, FrameCount - 1)
        /\ ring = [b \in Buffers |-> [p \in Offsets |-> Slot(Unset, Unset, 0)]]
    BY DEF PacedInit, Init
  <2>2. ASSUME NEW t \in InRing PROVE ~(t > sent)
    BY <2>1 DEF InRing, Slot, Unset
  <2>3. Waiting = {}  BY <2>2 DEF Waiting
  <2>4. ~IsAudio(wire)  BY <2>1 DEF IsAudio, Slot, Unset
  <2>5. pc = "preload"  BY DEF PacedInit, Init
  <2> QED  BY <2>1, <2>3, <2>4, <2>5 DEF Queue!Init
<1>2. StreamInv /\ BeforeStart /\ DmaOnAir /\ Pace /\ ReadOrder /\ Order /\ [PacedNext]_pacedVars
      => [Queue!Next]_(Queue!vars)
  BY StreamAssumption, PaceAssumption, QueueStep
<1> QED
  BY <1>1, <1>2, StreamInvariant, BeforeStartInvariant, DmaOnAirInvariant, PaceInvariant,
     ReadOrderInvariant, OrderInvariant, PTL
  DEF PacedSpec, Queue!Spec
=============================================================================

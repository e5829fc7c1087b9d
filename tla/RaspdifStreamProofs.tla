------------------------ MODULE RaspdifStreamProofs ------------------------
(***************************************************************************)
(* What holds of RaspdifStream for every size of the ring, the buffers and    *)
(* the blocks, every input and every relative speed of program and DMA.     *)
(***************************************************************************)
EXTENDS RaspdifStream, ModularArithmetic

USE DEF Buffers, Offsets, Frames

-----------------------------------------------------------------------------
(* Where raspdif_buffer_samples() writes, and what it counts. *)

\* The offset stays in the buffer; it goes up by one, or back to zero exactly
\* when the buffer is reported full, also where sample_count wraps.
LEMMA PositionSteps ==
  ASSUME StreamAssumption, sample_count \in 0 .. SampleCountMod - 1
  PROVE  /\ Position \in Offsets
         /\ Full <=> Position = BufferSize - 1
         /\ (sample_count + 1) % SampleCountMod \in 0 .. SampleCountMod - 1
         /\ ((sample_count + 1) % SampleCountMod) % BufferSize
              = IF Full THEN 0 ELSE Position + 1
<1>1. /\ BufferSize \in Nat \ {0} /\ SampleCountMod \in Nat \ {0}
      /\ SampleCountMod % BufferSize = 0 /\ sample_count \in Nat
  BY DEF StreamAssumption
<1>2. Position \in Offsets  BY <1>1, Division DEF Position
<1>3. (sample_count + 1) % SampleCountMod \in 0 .. SampleCountMod - 1
  BY <1>1, Division
<1>4. ((sample_count + 1) % SampleCountMod) % BufferSize
        = IF Position = BufferSize - 1 THEN 0 ELSE Position + 1
  <2>1. (sample_count + 1) % BufferSize
          = IF Position = BufferSize - 1 THEN 0 ELSE Position + 1
    BY <1>1, RemainderSucc DEF Position
  <2>2. CASE sample_count + 1 < SampleCountMod
    <3>1. (sample_count + 1) % SampleCountMod = sample_count + 1
      BY <1>1, <2>2, RemainderSmall
    <3> QED  BY <2>1, <3>1
  <2>3. CASE sample_count + 1 = SampleCountMod
    <3>1. (sample_count + 1) % SampleCountMod = 0
      BY <1>1, <2>3, RemainderUnique
    <3>2. 0 % BufferSize = 0  BY <1>1, RemainderSmall
    <3>3. Position = BufferSize - 1  BY <1>1, <1>2, <2>1, <2>3
    <3> QED  BY <3>1, <3>2, <3>3
  <2> QED  BY <2>2, <2>3
<1>5. Full <=> Position = BufferSize - 1  BY <1>1, <1>2, <1>4 DEF Full
<1> QED  BY <1>2, <1>3, <1>4, <1>5

\* The buffer after a buffer of the ring.
LEMMA NextInRing ==
  ASSUME StreamAssumption, NEW b \in Buffers
  PROVE  NextBuffer(b) \in Buffers /\ NextBuffer(b) = IF b = BufferCount - 1 THEN 0 ELSE b + 1
<1>1. BufferCount \in Nat \ {0} /\ BufferCount > 1  BY DEF StreamAssumption
<1>2. b \in Nat /\ b % BufferCount = b  BY <1>1, RemainderSmall
<1>3. (b + 1) % BufferCount
        = IF b % BufferCount = BufferCount - 1 THEN 0 ELSE (b % BufferCount) + 1
  BY <1>1, <1>2, RemainderSucc
<1> QED  BY <1>1, <1>2, <1>3 DEF NextBuffer

-----------------------------------------------------------------------------
(* Type correctness. *)

LEMMA BufferSamplesTyped ==
  ASSUME StreamAssumption, TypeOK, NEW buffer \in Buffers,
         NEW a \in Sources, NEW b \in Sources, BufferSamples(buffer, a, b)
  PROVE  /\ ring' \in [Buffers -> [Offsets -> Slots]]
         /\ frame_index' \in Frames
         /\ sample_count' \in 0 .. SampleCountMod - 1
<1>1. Slot(a, b, frame_index) \in Slots  BY DEF Slot, Slots, TypeOK
<1>2. Position \in Offsets /\ sample_count' \in 0 .. SampleCountMod - 1
  BY PositionSteps DEF TypeOK, BufferSamples
<1>3. ring' \in [Buffers -> [Offsets -> Slots]]
  <2>1. ring' = [ring EXCEPT ![buffer] = [ring[buffer] EXCEPT ![Position] = Slot(a, b, frame_index)]]
    BY DEF BufferSamples
  <2>2. ring \in [Buffers -> [Offsets -> Slots]]  BY DEF TypeOK
  <2>3. ring[buffer] \in [Offsets -> Slots]  BY <2>2
  <2>4. [ring[buffer] EXCEPT ![Position] = Slot(a, b, frame_index)] \in [Offsets -> Slots]
    BY <1>1, <2>3
  <2> QED  BY <2>1, <2>2, <2>4
<1>4. frame_index' \in Frames
  <2>1. FrameCount \in Nat \ {0} /\ frame_index + 1 \in Nat  BY DEF StreamAssumption, TypeOK
  <2> QED  BY <2>1, Division DEF BufferSamples
<1> QED  BY <1>2, <1>3, <1>4

LEMMA FreadTyped ==
  ASSUME StreamAssumption, TypeOK, Fread
  PROVE  /\ read' \in 0 .. written
         /\ eof' \in BOOLEAN
         /\ samples' \in Sources \X Sources
<1>1. SampleSize \in Nat \ {0} /\ MaxBytes \in Nat /\ FrameBytes \in Nat
  BY DEF StreamAssumption, FrameBytes
<1>2. Taken \in Nat /\ read + Taken <= written /\ read \in Nat /\ written \in 0 .. MaxBytes
  BY <1>1 DEF Taken, Available, TypeOK
<1>3. ASSUME NEW channel \in {1, 2} PROVE SampleRead(channel) \in Sources
  <2> DEFINE start == (channel - 1) * SampleSize
  <2>1. start \in Nat  BY <1>1
  <2> HIDE DEF start
  <2>2. Taken >= start + SampleSize => read + start \in 0 .. MaxBytes
    BY <1>1, <1>2, <2>1
  <2>3. samples[channel] \in Sources  BY DEF TypeOK
  <2> QED  BY <2>2, <2>3 DEF SampleRead, Sources, start
<1>4. samples' \in Sources \X Sources  BY <1>3 DEF Fread
<1> QED  BY <1>1, <1>2, <1>4 DEF Fread, TypeOK

LEMMA TypeInit == ASSUME StreamAssumption PROVE Init => TypeOK
<1> SUFFICES ASSUME Init PROVE TypeOK  OBVIOUS
<1>1. /\ BufferCount \in Nat /\ BufferCount > 1 /\ BufferSize \in Nat \ {0}
      /\ FrameCount \in Nat \ {0} /\ SampleCountMod \in Nat \ {0} /\ MaxBytes \in Nat
  BY DEF StreamAssumption
<1>2. {Quiet, Unset} \subseteq Sources  BY DEF Sources
<1>3. Slot(Unset, Unset, 0) \in Slots /\ Slot(Unset, Unset, FrameCount - 1) \in Slots
  BY <1>1, <1>2 DEF Slot, Slots
<1>4. ring \in [Buffers -> [Offsets -> Slots]]  BY <1>3 DEF Init
<1>5. samples \in Sources \X Sources  BY <1>2 DEF Init
<1>6. written \in 0 .. MaxBytes /\ read \in 0 .. written /\ pc \in Pcs
  BY <1>1 DEF Init, Pcs
<1>7. closed \in BOOLEAN  BY DEF Init
<1>8. pc = "preload"  BY DEF Init
<1>9. /\ buffer_index \in 0 .. BufferCount /\ sample_count \in 0 .. SampleCountMod - 1
      /\ frame_index \in Frames /\ fill_index \in Buffers /\ fill_count \in 0 .. BufferCount
      /\ dmaBlock \in Buffers /\ dmaFrame \in Offsets
  BY <1>1 DEF Init
<1>10. eof \in BOOLEAN /\ dmaActive \in BOOLEAN /\ txOn \in BOOLEAN /\ wire \in Slots
  BY <1>3 DEF Init
<1> QED  BY <1>4, <1>5, <1>6, <1>7, <1>8, <1>9, <1>10 DEF TypeOK

LEMMA TypeStep == ASSUME StreamAssumption PROVE TypeOK /\ [Next]_vars => TypeOK'
<1> SUFFICES ASSUME TypeOK, [Next]_vars PROVE TypeOK'  OBVIOUS
<1> USE DEF TypeOK, programVars, inputVars, fileVars, dmaVars
<1>a. /\ BufferCount \in Nat /\ BufferCount > 1 /\ BufferSize \in Nat \ {0}
      /\ MaxBytes \in Nat /\ Chunks \subseteq Nat /\ written \in 0 .. MaxBytes
  BY DEF StreamAssumption
<1>b. Quiet \in Sources  BY DEF Sources
<1>c. fill_index \in Buffers => NextBuffer(fill_index) \in Buffers  BY NextInRing
<1>1. CASE SourceWrite
  <2>1. written' \in 0 .. MaxBytes /\ written' >= written  BY <1>1, <1>a DEF SourceWrite
  <2> QED  BY <1>1, <1>a, <2>1 DEF SourceWrite
<1>2. CASE SourceClose  BY <1>2 DEF SourceClose
<1>3. CASE PreloadStore
  <2>1. read' \in 0 .. written /\ eof' \in BOOLEAN /\ samples' \in Sources \X Sources
    BY <1>3, FreadTyped DEF PreloadStore
  <2>2. /\ ring' \in [Buffers -> [Offsets -> Slots]] /\ frame_index' \in Frames
        /\ sample_count' \in 0 .. SampleCountMod - 1
    <3>1. buffer_index \in Buffers /\ samples'[1] \in Sources /\ samples'[2] \in Sources
      BY <1>3, <1>a, <2>1 DEF PreloadStore
    <3>2. BufferSamples(buffer_index, samples'[1], samples'[2])  BY <1>3 DEF PreloadStore
    <3> QED  BY <3>1, <3>2, BufferSamplesTyped
  <2>3. buffer_index' \in 0 .. BufferCount  BY <1>3, <1>a DEF PreloadStore
  <2> QED  BY <1>3, <2>1, <2>2, <2>3 DEF PreloadStore
<1>4. CASE PreloadEnd
  <2>1. read' \in 0 .. written /\ eof' \in BOOLEAN /\ samples' \in Sources \X Sources
    BY <1>4, FreadTyped DEF PreloadEnd
  <2> QED  BY <1>4, <2>1 DEF PreloadEnd, Pcs
<1>5. CASE Start  BY <1>5, <1>a DEF Start, Pcs
<1>6. CASE Check  BY <1>6 DEF Check, Pcs
<1>7. CASE Wake  BY <1>7 DEF Wake, Pcs
<1>8. CASE ReadFrame
  <2>1. read' \in 0 .. written /\ eof' \in BOOLEAN /\ samples' \in Sources \X Sources
    BY <1>8, FreadTyped DEF ReadFrame
  <2> QED  BY <1>8, <2>1 DEF ReadFrame, Pcs
<1>9. CASE Write
  <2>1. buffer_index \in Buffers  BY <1>9 DEF Write
  <2>2. /\ ring' \in [Buffers -> [Offsets -> Slots]] /\ frame_index' \in Frames
        /\ sample_count' \in 0 .. SampleCountMod - 1
    <3>1. samples[1] \in Sources /\ samples[2] \in Sources  OBVIOUS
    <3> QED  BY <1>9, <2>1, <3>1, BufferSamplesTyped DEF Write
  <2>3. buffer_index' \in Buffers  BY <1>9, <2>1, NextInRing DEF Write
  <2> QED  BY <1>9, <1>a, <2>2, <2>3 DEF Write, Pcs
<1>10. CASE Shutdown  BY <1>10 DEF Shutdown, Pcs
<1>11. CASE Underrun
  <2>1. read' \in 0 .. written /\ eof' \in BOOLEAN /\ samples' \in Sources \X Sources
    BY <1>11, FreadTyped DEF Underrun
  <2> QED  BY <1>11, <1>a, <2>1 DEF Underrun, Pcs
<1>12. CASE FillRest
  <2>1. /\ ring' \in [Buffers -> [Offsets -> Slots]] /\ frame_index' \in Frames
        /\ sample_count' \in 0 .. SampleCountMod - 1
    BY <1>12, <1>b, BufferSamplesTyped DEF FillRest
  <2> QED  BY <1>12, <1>c, <2>1 DEF FillRest, Pcs
<1>13. CASE FillCheck  BY <1>13 DEF FillCheck, Pcs
<1>14. CASE FillWake  BY <1>14 DEF FillWake, Pcs
<1>15. CASE FillWrite
  <2>1. /\ ring' \in [Buffers -> [Offsets -> Slots]] /\ frame_index' \in Frames
        /\ sample_count' \in 0 .. SampleCountMod - 1
    BY <1>15, <1>b, BufferSamplesTyped DEF FillWrite
  <2> QED  BY <1>15, <1>a, <1>c, <2>1 DEF FillWrite, Pcs
<1>16. CASE Idle  BY <1>16 DEF Idle, Pcs
<1>17. CASE Resume  BY <1>17 DEF Resume, Pcs
<1>18. CASE Transmit
  <2>1. dmaFrame' \in Offsets  BY <1>18, <1>a, Division DEF Transmit
  <2>2. dmaBlock' \in Buffers  BY <1>18, NextInRing DEF Transmit
  <2>3. wire' \in Slots  BY <1>18 DEF Transmit
  <2> QED  BY <1>18, <2>1, <2>2, <2>3 DEF Transmit
<1>19. CASE UNCHANGED vars  BY <1>19 DEF vars
<1> QED
  BY <1>1, <1>2, <1>3, <1>4, <1>5, <1>6, <1>7, <1>8, <1>9, <1>10, <1>11, <1>12, <1>13,
     <1>14, <1>15, <1>16, <1>17, <1>18, <1>19 DEF Next, Source, Program

(***************************************************************************)
(* No index or counter of main() and raspdif_fill_buffers() leaves its       *)
(* range, whatever the input and the timing.                               *)
(***************************************************************************)
THEOREM TypeCorrect == Spec => []TypeOK
<1>1. Init => TypeOK  BY StreamAssumption, TypeInit
<1>2. TypeOK /\ [Next]_vars => TypeOK'  BY StreamAssumption, TypeStep
<1> QED  BY <1>1, <1>2, PTL DEF Spec

-----------------------------------------------------------------------------
(* raspdif_fill_buffers() leaves nothing but seamless silence. *)

LEMMA BuffersSinceRange ==
  ASSUME StreamAssumption, fill_index \in Buffers, NEW b \in Buffers
  PROVE  /\ BuffersSince(b) \in 1 .. BufferCount
         /\ BuffersSince(b) * BufferSize \in Nat
         /\ BuffersSince(b) * BufferSize >= BufferSize
<1>1. BufferCount \in Nat /\ BufferSize \in Nat \ {0}  BY DEF StreamAssumption
<1>2. BuffersSince(b) \in 1 .. BufferCount  BY <1>1 DEF BuffersSince
<1>3. ASSUME NEW k \in Nat, k > 0
      PROVE  k * BufferSize \in Nat /\ k * BufferSize >= BufferSize
  <2>1. BufferSize * 0 + BufferSize <= BufferSize * k  BY <1>1, <1>3, MultiplesApart
  <2> QED  BY <1>1, <2>1
<1> QED  BY <1>1, <1>2, <1>3

LEMMA SlotsSinceNat ==
  ASSUME StreamAssumption, TypeOK, NEW b \in Buffers, NEW p \in Offsets
  PROVE  SlotsSince(b, p) \in Nat
<1>1. BufferSize \in Nat \ {0} /\ Position \in Offsets
  BY PositionSteps DEF TypeOK, StreamAssumption
<1>2. BuffersSince(b) * BufferSize \in Nat /\ BuffersSince(b) * BufferSize >= BufferSize
  BY BuffersSinceRange DEF TypeOK
<1> DEFINE k == BuffersSince(b) * BufferSize
<1> HIDE DEF k
<1>3. k \in Nat /\ k >= BufferSize  BY <1>2 DEF k
<1>4. (k + Position) - p \in Nat  BY <1>1, <1>3
<1>5. FilledNow(b, p) => Position - p \in Nat  BY <1>1 DEF FilledNow
<1> QED  BY <1>4, <1>5 DEF SlotsSince, k

\* A slot in the ring after raspdif_buffer_samples().
LEMMA StoredSlot ==
  ASSUME StreamAssumption, TypeOK, NEW buffer \in Buffers, NEW x, NEW y,
         BufferSamples(buffer, x, y), NEW b \in Buffers, NEW p \in Offsets
  PROVE  ring'[b][p] = IF b = buffer /\ p = Position THEN Slot(x, y, frame_index)
                       ELSE ring[b][p]
<1>1. ring' = [ring EXCEPT ![buffer] = [ring[buffer] EXCEPT ![Position] = Slot(x, y, frame_index)]]
  BY DEF BufferSamples
<1>2. ring \in [Buffers -> [Offsets -> Slots]] /\ ring[buffer] \in [Offsets -> Slots]
      /\ ring[b] \in [Offsets -> Slots]
  BY DEF TypeOK
<1>3. Position \in Offsets  BY PositionSteps DEF TypeOK
<1>4. CASE b = buffer  BY <1>1, <1>2, <1>3, <1>4
<1>5. CASE b # buffer  BY <1>1, <1>2, <1>5
<1> QED  BY <1>4, <1>5

\* One slot filled: it joins those filled before, which grow older by one.
LEMMA FillAdvances ==
  ASSUME StreamAssumption, TypeOK, FillWrite,
         NEW b \in Buffers, NEW p \in Offsets, Filled(b, p)'
  PROVE  IF b = fill_index /\ p = Position
         THEN SlotsSince(b, p)' = 1
         ELSE Filled(b, p) /\ SlotsSince(b, p)' = SlotsSince(b, p) + 1
<1>1. /\ BufferCount \in Nat /\ BufferCount > 1 /\ BufferSize \in Nat \ {0}
      /\ fill_index \in Buffers /\ fill_count \in Nat /\ fill_count < BufferCount
  BY DEF StreamAssumption, TypeOK, FillWrite
<1>2. Position \in Offsets /\ (Full <=> Position = BufferSize - 1)
  BY PositionSteps DEF TypeOK
<1>3. Position' = IF Full THEN 0 ELSE Position + 1
  <2>1. sample_count' = (sample_count + 1) % SampleCountMod  BY DEF FillWrite, BufferSamples
  <2>2. sample_count' % BufferSize = IF Full THEN 0 ELSE Position + 1
    BY <2>1, PositionSteps DEF TypeOK
  <2> QED  BY <2>2 DEF Position
<1>4. CASE ~Full
  <2>1. fill_index' = fill_index /\ fill_count' = fill_count /\ Position' = Position + 1
    BY <1>3, <1>4 DEF FillWrite
  <2>2. BuffersSince(b)' = BuffersSince(b)  BY <2>1 DEF BuffersSince
  <2>3. BuffersSince(b) * BufferSize \in Nat  BY <1>1, BuffersSinceRange
  <2> DEFINE k == BuffersSince(b) * BufferSize
  <2>4. k \in Nat /\ (BuffersSince(b) * BufferSize)' = k  BY <2>2, <2>3
  <2>5. Filled(b, p)' <=> (b = fill_index /\ p < Position + 1) \/ BuffersSince(b) <= fill_count
    BY <2>1, <2>2 DEF Filled, FilledNow
  <2>6. FilledNow(b, p)' <=> b = fill_index /\ p < Position + 1  BY <2>1 DEF FilledNow
  <2> HIDE DEF k
  <2>7. CASE b = fill_index
    <3>1. BuffersSince(b) = BufferCount  BY <1>1, <2>7 DEF BuffersSince
    <3>2. p < Position + 1  BY <3>1, <2>5, <1>1
    <3>3. SlotsSince(b, p)' = (Position + 1) - p  BY <3>2, <2>1, <2>6, <2>7 DEF SlotsSince
    <3>4. p # Position => FilledNow(b, p)  BY <3>2, <1>2, <2>7 DEF FilledNow
    <3>5. p # Position => SlotsSince(b, p) = Position - p  BY <3>4 DEF SlotsSince
    <3> QED  BY <3>2, <3>3, <3>4, <3>5, <1>2, <2>7 DEF Filled
  <2>8. CASE b # fill_index
    <3>1. Filled(b, p) /\ ~FilledNow(b, p) /\ ~FilledNow(b, p)'
      BY <2>5, <2>6, <2>8 DEF Filled, FilledNow
    <3>2. SlotsSince(b, p) = (k + Position) - p  BY <3>1 DEF SlotsSince, k
    <3>3. SlotsSince(b, p)' = (k + (Position + 1)) - p  BY <3>1, <2>1, <2>4 DEF SlotsSince
    <3> QED  BY <3>1, <3>2, <3>3, <1>2, <2>4, <2>8
  <2> QED  BY <2>7, <2>8
<1>5. CASE Full
  <2>1. /\ fill_index' = NextBuffer(fill_index) /\ fill_count' = fill_count + 1
        /\ Position' = 0 /\ Position = BufferSize - 1
    BY <1>2, <1>3, <1>5 DEF FillWrite
  <2>2. fill_index' = IF fill_index = BufferCount - 1 THEN 0 ELSE fill_index + 1
    BY <2>1, <1>1, NextInRing
  <2>3. ~FilledNow(b, p)' /\ BuffersSince(b)' <= fill_count + 1
    BY <2>1 DEF Filled, FilledNow
  <2>4. SlotsSince(b, p)' = (BuffersSince(b)' * BufferSize + 0) - p
    BY <2>1, <2>3 DEF SlotsSince
  <2>5. CASE b = fill_index
    <3>1. BuffersSince(b)' = 1  BY <1>1, <2>2, <2>5 DEF BuffersSince
    <3>2. SlotsSince(b, p)' = BufferSize - p  BY <3>1, <2>4, <1>1
    <3>3. p # Position => FilledNow(b, p)  BY <1>1, <2>1, <2>5 DEF FilledNow
    <3>4. p # Position => SlotsSince(b, p) = Position - p  BY <3>3 DEF SlotsSince
    <3> QED  BY <3>2, <3>3, <3>4, <1>1, <2>1, <2>5 DEF Filled
  <2>6. CASE b # fill_index
    <3>1. BuffersSince(b)' = BuffersSince(b) + 1  BY <1>1, <2>2, <2>6 DEF BuffersSince
    <3>2. BuffersSince(b) \in 1 .. BufferCount /\ BuffersSince(b) * BufferSize \in Nat
      BY <1>1, BuffersSinceRange
    <3>3. Filled(b, p) /\ ~FilledNow(b, p)
      BY <1>1, <2>3, <2>6, <3>1, <3>2 DEF Filled, FilledNow
    <3>4. SlotsSince(b, p) = (BuffersSince(b) * BufferSize + Position) - p
      BY <3>3 DEF SlotsSince
    <3>5. (BuffersSince(b) + 1) * BufferSize = BuffersSince(b) * BufferSize + BufferSize
      BY <1>1, <3>2
    <3> DEFINE k == BuffersSince(b) * BufferSize
    <3>6. k \in Nat /\ SlotsSince(b, p) = (k + Position) - p
          /\ SlotsSince(b, p)' = (k + BufferSize + 0) - p
      BY <3>1, <3>2, <3>4, <3>5, <2>4
    <3> HIDE DEF k
    <3> QED  BY <3>3, <3>6, <1>1, <2>1, <2>6
  <2> QED  BY <2>5, <2>6
<1> QED  BY <1>4, <1>5

LEMMA FillWriteKeepsSeamless ==
  ASSUME StreamAssumption, TypeOK, FilledSeamlessly, FillWrite
  PROVE  FilledSeamlessly'
<1> SUFFICES ASSUME NEW b \in Buffers, NEW p \in Offsets, Filled(b, p)'
             PROVE  /\ ring'[b][p].a = Quiet
                    /\ (ring'[b][p].frame + SlotsSince(b, p)') % FrameCount = frame_index'
  BY DEF FilledSeamlessly
<1>1. BufferSamples(fill_index, Quiet, Quiet) /\ fill_index \in Buffers
  BY DEF FillWrite, TypeOK
<1>2. ring'[b][p] = IF b = fill_index /\ p = Position THEN Slot(Quiet, Quiet, frame_index)
                    ELSE ring[b][p]
  BY <1>1, StoredSlot
<1>3. frame_index' = (frame_index + 1) % FrameCount  BY <1>1 DEF BufferSamples
<1>4. FrameCount \in Nat \ {0} /\ ring[b][p].frame \in Nat
  <2>1. ring[b][p] \in Slots  BY DEF TypeOK
  <2> QED  BY <2>1 DEF StreamAssumption, Slots
<1>5. CASE b = fill_index /\ p = Position
  <2>1. ring'[b][p].a = Quiet /\ ring'[b][p].frame = frame_index  BY <1>2, <1>5 DEF Slot
  <2>2. SlotsSince(b, p)' = 1  BY <1>5, FillAdvances
  <2> QED  BY <1>3, <2>1, <2>2
<1>6. CASE ~(b = fill_index /\ p = Position)
  <2>1. ring'[b][p] = ring[b][p]  BY <1>2, <1>6
  <2>2. Filled(b, p) /\ SlotsSince(b, p)' = SlotsSince(b, p) + 1  BY <1>6, FillAdvances
  <2>3. ring[b][p].a = Quiet /\ (ring[b][p].frame + SlotsSince(b, p)) % FrameCount = frame_index
    BY <2>2 DEF FilledSeamlessly
  <2> DEFINE x == ring[b][p].frame + SlotsSince(b, p)
  <2>4. SlotsSince(b, p) \in Nat  BY SlotsSinceNat
  <2>5. x \in Nat /\ x % FrameCount = frame_index
        /\ ring[b][p].frame + (SlotsSince(b, p) + 1) = x + 1
    BY <1>4, <2>3, <2>4
  <2> HIDE DEF x
  <2>6. (x + 1) % FrameCount = frame_index'  BY <1>3, <1>4, <2>5, RemainderCarries
  <2> QED  BY <2>1, <2>2, <2>3, <2>5, <2>6
<1> QED  BY <1>5, <1>6

LEMMA FillProgressStep ==
  ASSUME StreamAssumption, TypeOK, FillProgress, [Next]_vars
  PROVE  FillProgress'
<1> USE DEF FillProgress, InFillLoop
<1>a. ASSUME UNCHANGED <<fill_index, fill_count, sample_count, frame_index, ring>>
      PROVE  (FilledSeamlessly' <=> FilledSeamlessly) /\ Position' = Position
  BY <1>a DEF FilledSeamlessly, Filled, FilledNow, SlotsSince, BuffersSince, Position
<1>1. CASE SourceWrite \/ SourceClose
  BY <1>1, <1>a DEF SourceWrite, SourceClose, programVars
<1>2. CASE PreloadStore \/ PreloadEnd \/ Start
  BY <1>2 DEF PreloadStore, PreloadEnd, Start
<1>3. CASE Check \/ Wake \/ ReadFrame \/ Write \/ Shutdown \/ Resume
  BY <1>3 DEF Check, Wake, ReadFrame, Write, Shutdown, Resume
<1>4. CASE Underrun  BY <1>4 DEF Underrun
<1>5. CASE FillRest
  <2>1. CASE ~Full  BY <1>5, <2>1 DEF FillRest
  <2>2. CASE Full
    <3>1. pc' = "fill_check" /\ fill_count' = 0  BY <1>5, <2>2 DEF FillRest
    <3>2. Position' = 0
      BY <1>5, <2>2, PositionSteps DEF FillRest, BufferSamples, Position, TypeOK
    <3>3. fill_index' \in Buffers  BY <1>5, <2>2, NextInRing DEF FillRest, TypeOK
    <3>4. ASSUME NEW b \in Buffers, NEW p \in Offsets PROVE ~Filled(b, p)'
      <4>1. BuffersSince(b)' = IF b < fill_index' THEN fill_index' - b
                               ELSE (fill_index' - b) + BufferCount
        BY DEF BuffersSince
      <4>2. BufferCount \in Nat /\ BufferSize \in Nat  BY DEF StreamAssumption
      <4>3. BuffersSince(b)' \in 1 .. BufferCount
        <5>1. PICK i \in Buffers : i = fill_index'  BY <3>3
        <5>2. BuffersSince(b)' = IF b < i THEN i - b ELSE (i - b) + BufferCount
          BY <4>1, <5>1
        <5> QED  BY <4>2, <5>2
      <4>4. ~(p < 0)  BY <4>2
      <4> QED  BY <3>1, <3>2, <4>3, <4>4 DEF Filled, FilledNow
    <3> QED  BY <3>1, <3>2, <3>4 DEF FilledSeamlessly
  <2> QED  BY <2>1, <2>2
<1>6. CASE FillCheck \/ FillWake \/ Idle
  BY <1>6, <1>a DEF FillCheck, FillWake, Idle, programVars
<1>7. CASE FillWrite
  <2>1. FilledSeamlessly'  BY <1>7, FillWriteKeepsSeamless DEF FillWrite
  <2>2. Full => Position' = 0
    BY <1>7, PositionSteps DEF FillWrite, BufferSamples, Position, TypeOK
  <2> QED  BY <1>7, <2>1, <2>2 DEF FillWrite
<1>8. CASE Transmit  BY <1>8, <1>a DEF Transmit, programVars
<1>9. CASE UNCHANGED vars  BY <1>9, <1>a DEF vars, programVars
<1> QED
  BY <1>1, <1>2, <1>3, <1>4, <1>5, <1>6, <1>7, <1>8, <1>9 DEF Next, Source, Program

LEMMA FillProgressInvariant == Spec => []FillProgress
<1>1. Init => FillProgress  BY DEF Init, FillProgress, InFillLoop
<1>2. TypeOK /\ FillProgress /\ [Next]_vars => FillProgress'
  BY StreamAssumption, FillProgressStep
<1> QED  BY <1>1, <1>2, TypeCorrect, PTL DEF Spec

\* At poll() the last BufferCount buffers filled are all there are.
LEMMA AllFilledAtPoll ==
  ASSUME StreamAssumption, TypeOK, FillProgress, pc = "poll",
         NEW b \in Buffers, NEW p \in Offsets
  PROVE  /\ ring[b][p].a = Quiet
         /\ SlotsSince(b, p) = BuffersSince(b) * BufferSize - p
         /\ (ring[b][p].frame + SlotsSince(b, p)) % FrameCount = frame_index
<1>1. Position = 0 /\ fill_count = BufferCount /\ FilledSeamlessly
  BY DEF FillProgress, InFillLoop
<1>2. BuffersSince(b) \in 1 .. BufferCount /\ BuffersSince(b) * BufferSize \in Nat
  BY BuffersSinceRange DEF TypeOK
<1>3. Filled(b, p) /\ ~FilledNow(b, p)  BY <1>1, <1>2 DEF Filled, FilledNow
<1>4. SlotsSince(b, p) = BuffersSince(b) * BufferSize - p
  BY <1>1, <1>2, <1>3 DEF SlotsSince
<1> QED  BY <1>1, <1>3, <1>4 DEF FilledSeamlessly

(***************************************************************************)
(* While the program waits for input in poll() the DMA loops over a ring     *)
(* without a single audio frame in it, wherever the underrun happened and    *)
(* however often the program had to wait for the DMA to leave a buffer.      *)
(***************************************************************************)
THEOREM SilentWhenIdle == Spec => []IdleIsSilent
<1>1. TypeOK /\ FillProgress => IdleIsSilent
  BY StreamAssumption, AllFilledAtPoll DEF IdleIsSilent
<1> QED  BY <1>1, TypeCorrect, FillProgressInvariant, PTL

\* A frame one place nearer to what both are counted from is the next one.
LEMMA FramesFollow ==
  ASSUME StreamAssumption, NEW f \in Frames, NEW g \in Frames, NEW x \in Nat, NEW y \in Nat,
         x % FrameCount = y % FrameCount, x - f = (y - g) + 1
  PROVE  g = (f + 1) % FrameCount
<1> DEFINE q == x \div FrameCount
           s == y \div FrameCount
           r == y % FrameCount
<1>1. FrameCount \in Nat \ {0}  BY DEF StreamAssumption
<1>2. x = FrameCount * q + r /\ q \in Nat /\ r \in 0 .. FrameCount - 1
  <2>1. x % FrameCount = r  OBVIOUS
  <2> QED  BY <1>1, <2>1, Division
<1>3. y = FrameCount * s + r /\ s \in Nat  BY <1>1, Division
<1> HIDE DEF q, s, r
<1>4. (f + 1) - g = FrameCount * q - FrameCount * s  BY <1>1, <1>2, <1>3
<1>5. CASE q = s
  <2>1. g = f + 1  BY <1>1, <1>2, <1>3, <1>4, <1>5
  <2> QED  BY <1>1, <2>1, RemainderSmall
<1>6. CASE s < q
  <2>1. FrameCount * s + FrameCount <= FrameCount * q
    BY <1>1, <1>2, <1>3, <1>6, MultiplesApart
  <2>2. f = FrameCount - 1 /\ g = 0  BY <1>1, <1>2, <1>3, <1>4, <2>1
  <2>3. f \in Nat /\ f % FrameCount = FrameCount - 1  BY <1>1, <2>2, RemainderSmall
  <2>4. (f + 1) % FrameCount = 0  BY <1>1, <2>3, RemainderSucc
  <2> QED  BY <2>2, <2>4
<1>7. CASE q < s
  <2>1. FrameCount * q + FrameCount <= FrameCount * s
    BY <1>1, <1>2, <1>3, <1>7, MultiplesApart
  <2> QED  BY <1>1, <1>2, <1>3, <1>4, <2>1
<1> QED  BY <1>2, <1>3, <1>5, <1>6, <1>7

LEMMA IdleLoopCloses ==
  ASSUME StreamAssumption, BlocksFillRing, TypeOK, FillProgress, pc = "poll",
         NEW b \in Buffers, NEW p \in Offsets
  PROVE  SlotAfter(b, p).frame = (ring[b][p].frame + 1) % FrameCount
<1> DEFINE f == ring[b][p].frame
           k == BuffersSince(b) * BufferSize
<1>1. /\ BufferCount \in Nat /\ BufferCount > 1 /\ BufferSize \in Nat \ {0}
      /\ FrameCount \in Nat \ {0} /\ fill_index \in Buffers
  BY DEF StreamAssumption, TypeOK
<1>2. ASSUME NEW c \in Buffers, NEW q \in Offsets
      PROVE  ring[c][q].frame \in Frames
  <2>1. ring[c][q] \in Slots  BY DEF TypeOK
  <2> QED  BY <2>1 DEF Slots
<1>3. f \in Frames  BY <1>2
<1>4. k \in Nat /\ k >= BufferSize  BY <1>1, BuffersSinceRange
<1>5. (f + (k - p)) % FrameCount = frame_index  BY AllFilledAtPoll
<1>6. CASE p + 1 \in Offsets
  <2> DEFINE g == ring[b][p + 1].frame
  <2>1. g \in Frames  BY <1>2, <1>6
  <2>2. SlotsSince(b, p + 1) = k - (p + 1)
        /\ (g + SlotsSince(b, p + 1)) % FrameCount = frame_index
    BY <1>6, AllFilledAtPoll
  <2>3. (g + (k - (p + 1))) % FrameCount = frame_index  BY <2>2
  <2> HIDE DEF f, g, k
  <2>4. /\ f + (k - p) \in Nat /\ g + (k - (p + 1)) \in Nat
        /\ (f + (k - p)) - f = ((g + (k - (p + 1))) - g) + 1
    BY <1>1, <1>3, <1>4, <1>6, <2>1
  <2>5. (f + (k - p)) % FrameCount = (g + (k - (p + 1))) % FrameCount  BY <1>5, <2>3
  <2>6. g = (f + 1) % FrameCount  BY <1>3, <2>1, <2>4, <2>5, FramesFollow
  <2> QED  BY <1>6, <2>6 DEF SlotAfter, f, g
<1>7. CASE p = BufferSize - 1
  <2> DEFINE c == NextBuffer(b)
             g == ring[c][0].frame
             m == BuffersSince(c) * BufferSize
  <2>1. c \in Buffers /\ c = IF b = BufferCount - 1 THEN 0 ELSE b + 1  BY NextInRing
  <2>2. 0 \in Offsets  BY <1>1
  <2>3. g \in Frames  BY <1>2, <2>1, <2>2
  <2>4. SlotsSince(c, 0) = m - 0 /\ (g + SlotsSince(c, 0)) % FrameCount = frame_index
    BY <2>1, <2>2, AllFilledAtPoll
  <2>5. m \in Nat  BY <1>1, <2>1, BuffersSinceRange
  <2>6. (g + m) % FrameCount = frame_index  BY <2>4, <2>5
  <2>7. g = (f + 1) % FrameCount
    <3>1. CASE c = fill_index
      <4>1. BuffersSince(b) = 1 /\ BuffersSince(c) = BufferCount
        BY <1>1, <2>1, <3>1 DEF BuffersSince
      <4>2. k = BufferSize /\ m = BufferCount * BufferSize  BY <1>1, <4>1
      <4>3. m % FrameCount = 0  BY <4>2 DEF BlocksFillRing
      <4> HIDE DEF f, g, k, m, c
      <4>4. (g + m) % FrameCount = g % FrameCount
        <5>1. FrameCount \in Nat \ {0} /\ g \in Nat /\ m \in Nat  BY <1>1, <2>3, <2>5
        <5> QED  BY <5>1, <4>3, RemainderSkips
      <4>5. k - p = 1  BY <1>1, <1>7, <4>2
      <4>6. (f + (k - p)) % FrameCount = g % FrameCount  BY <1>5, <2>6, <4>4
      <4>7. f + (k - p) \in Nat /\ g \in Nat /\ (f + (k - p)) - f = (g - g) + 1
        BY <1>1, <1>3, <2>3, <4>5
      <4> QED  BY <1>3, <2>3, <4>6, <4>7, FramesFollow
    <3>2. CASE c # fill_index
      <4>1. BuffersSince(b) = BuffersSince(c) + 1 /\ BuffersSince(c) \in Nat
        BY <1>1, <2>1, <3>2 DEF BuffersSince
      <4>2. (BuffersSince(c) + 1) * BufferSize = BuffersSince(c) * BufferSize + BufferSize
        BY <1>1, <4>1
      <4>3. k = m + BufferSize  BY <4>1, <4>2
      <4> HIDE DEF f, g, k, m, c
      <4>4. /\ f + (k - p) \in Nat /\ g + m \in Nat
            /\ (f + (k - p)) - f = ((g + m) - g) + 1
        BY <1>1, <1>3, <1>7, <2>3, <2>5, <4>3
      <4>5. (f + (k - p)) % FrameCount = (g + m) % FrameCount  BY <1>5, <2>6
      <4> QED  BY <1>3, <2>3, <4>4, <4>5, FramesFollow
    <3> QED  BY <3>1, <3>2
  <2>8. p + 1 \notin Offsets  BY <1>1, <1>7
  <2> QED  BY <2>7, <2>8 DEF SlotAfter
<1> QED  BY <1>1, <1>6, <1>7

(***************************************************************************)
(* The loop the DMA makes of that silence is one unbroken train of S/PDIF     *)
(* blocks, because the ring holds a whole number of them.                   *)
(***************************************************************************)
THEOREM SeamlessWhenIdle == Spec => []IdleLoopSeamless
<1>1. TypeOK /\ FillProgress => IdleLoopSeamless
  BY StreamAssumption, BlocksFillRing, IdleLoopCloses DEF IdleLoopSeamless
<1> QED  BY <1>1, TypeCorrect, FillProgressInvariant, PTL

-----------------------------------------------------------------------------
(* The DMA runs while the program waits for it. *)

LEMMA DmaRunsStep == ASSUME DmaRuns, [Next]_vars PROVE DmaRuns'
<1> USE DEF DmaRuns, dmaVars
<1>1. CASE Source  BY <1>1 DEF Source, SourceWrite, SourceClose
<1>2. CASE PreloadStore \/ PreloadEnd \/ Start \/ Shutdown
  BY <1>2 DEF PreloadStore, PreloadEnd, Start, Shutdown
<1>3. CASE Check \/ Wake \/ ReadFrame \/ Write
  BY <1>3 DEF Check, Wake, ReadFrame, Write
<1>4. CASE Underrun \/ FillRest \/ FillCheck \/ FillWake \/ FillWrite
  BY <1>4 DEF Underrun, FillRest, FillCheck, FillWake, FillWrite
<1>5. CASE Idle \/ Resume  BY <1>5 DEF Idle, Resume
<1>6. CASE Transmit  BY <1>6 DEF Transmit
<1>7. CASE UNCHANGED vars  BY <1>7 DEF vars
<1> QED  BY <1>1, <1>2, <1>3, <1>4, <1>5, <1>6, <1>7 DEF Next, Program

LEMMA DmaRunsInvariant == Spec => []DmaRuns
<1>1. Init => DmaRuns  BY DEF Init, DmaRuns
<1>2. DmaRuns /\ [Next]_vars => DmaRuns'  BY DmaRunsStep
<1> QED  BY <1>1, <1>2, PTL DEF Spec

(***************************************************************************)
(* Neither busy-wait of the program can wait for a DMA channel that is off,   *)
(* or that the transmitter has stopped asking for frames.                   *)
(***************************************************************************)
THEOREM WaitsAreForMovingDma == Spec => []WaitsOnlyOnRunningDma
<1>1. DmaRuns => WaitsOnlyOnRunningDma  BY DEF DmaRuns, WaitsOnlyOnRunningDma
<1> QED  BY <1>1, DmaRunsInvariant, PTL

-----------------------------------------------------------------------------
(* Until the input ends: what is encoded, and from what. *)

LEMMA BytesNat ==
  ASSUME StreamAssumption, TypeOK
  PROVE  /\ SampleSize \in Nat \ {0} /\ FrameBytes = 2 * SampleSize
         /\ Taken \in Nat /\ Available \in Nat /\ read \in Nat
         /\ Taken <= FrameBytes /\ (Taken = FrameBytes <=> Available >= FrameBytes)
BY DEF StreamAssumption, TypeOK, Available, Taken, FrameBytes

LEMMA EofLasts == ASSUME [Next]_vars, eof PROVE eof'
<1>1. CASE PreloadStore \/ PreloadEnd \/ ReadFrame \/ Underrun
  BY <1>1 DEF PreloadStore, PreloadEnd, ReadFrame, Underrun, Fread
<1>2. CASE Source \/ Transmit \/ UNCHANGED vars
  BY <1>2 DEF Source, SourceWrite, SourceClose, Transmit, vars, fileVars
<1>3. CASE Start \/ Check \/ Wake \/ Write \/ Shutdown
  BY <1>3 DEF Start, Check, Wake, Write, Shutdown, fileVars
<1>4. CASE FillRest \/ FillCheck \/ FillWake \/ FillWrite \/ Idle \/ Resume
  BY <1>4 DEF FillRest, FillCheck, FillWake, FillWrite, Idle, Resume, fileVars
<1> QED  BY <1>1, <1>2, <1>3, <1>4 DEF Next, Program

\* A read that does not meet the end took a whole frame or found too little.
LEMMA FreadBeforeEnd ==
  ASSUME StreamAssumption, TypeOK, Fread, ~eof',
         Taken = FrameBytes \/ Available >= FrameBytes \/ closed
  PROVE  Taken = FrameBytes
<1>1. ~(closed /\ Taken < FrameBytes)  BY DEF Fread
<1>2. Taken \in Nat /\ FrameBytes \in Nat /\ Taken <= FrameBytes  BY BytesNat
<1>3. Available >= FrameBytes => Taken = FrameBytes  BY BytesNat
<1> QED  BY <1>1, <1>2, <1>3

\* fread() yields a sample, part of one, or leaves what was there.
LEMMA FreadNeverUnset ==
  ASSUME StreamAssumption, TypeOK, samples[1] # Unset, Fread
  PROVE  samples'[1] # Unset
<1>1. SampleRead(1) \in {read + (1 - 1) * SampleSize, samples[1], Torn}  BY DEF SampleRead
<1>2. (1 - 1) * SampleSize = 0 /\ read \in Nat  BY BytesNat
<1>3. read + (1 - 1) * SampleSize # Unset  BY <1>2 DEF Unset
<1>4. Torn # Unset  BY DEF Torn, Unset
<1>5. samples'[1] = SampleRead(1)  BY DEF Fread
<1> QED  BY <1>1, <1>3, <1>4, <1>5

LEMMA StoreKeepsEncoded ==
  ASSUME StreamAssumption, TypeOK, NEW buffer \in Buffers, NEW x, NEW y, x # Unset,
         BufferSamples(buffer, x, y),
         \A b \in Buffers : \A p \in Offsets : ring[b][p].a # Unset
  PROVE  \A b \in Buffers : \A p \in Offsets : ring'[b][p].a # Unset
<1> SUFFICES ASSUME NEW b \in Buffers, NEW p \in Offsets PROVE ring'[b][p].a # Unset
  OBVIOUS
<1>1. ring'[b][p] = IF b = buffer /\ p = Position THEN Slot(x, y, frame_index) ELSE ring[b][p]
  BY StoredSlot
<1> QED  BY <1>1 DEF Slot

LEMMA PreloadProgressStep ==
  ASSUME StreamAssumption, TypeOK, PreloadProgress, [Next]_vars
  PROVE  PreloadProgress'
<1> USE DEF PreloadProgress
<1>a. Quiet # Unset  BY DEF Quiet, Unset
<1>c. ~eof' => ~eof  BY EofLasts
<1>b. ASSUME UNCHANGED ring, pc # "preload", pc' # "preload", ~eof'
      PROVE  \A b \in Buffers : \A p \in Offsets : Encoded(b, p)' => ring'[b][p].a # Unset
  BY <1>b, <1>c DEF Encoded
<1>1. CASE Source \/ Transmit \/ UNCHANGED vars
  <2>1. UNCHANGED <<pc, samples, buffer_index, sample_count, ring, dmaActive, eof>>
    BY <1>1 DEF Source, SourceWrite, SourceClose, Transmit, vars, programVars, dmaVars, fileVars
  <2> QED  BY <2>1 DEF Encoded, Position
<1>2. CASE PreloadStore
  <2>1. samples'[1] # Unset  BY <1>2, FreadNeverUnset DEF PreloadStore
  <2>2. UNCHANGED <<pc, dmaActive>> /\ pc = "preload"
    BY <1>2 DEF PreloadStore, dmaVars
  <2>3. ASSUME ~eof', NEW b \in Buffers, NEW p \in Offsets, Encoded(b, p)'
        PROVE  ring'[b][p].a # Unset
    <3>1. buffer_index \in Buffers  BY <1>2 DEF PreloadStore, TypeOK
    <3>2. BufferSamples(buffer_index, samples'[1], samples'[2])  BY <1>2 DEF PreloadStore
    <3>3. ring'[b][p] = IF b = buffer_index /\ p = Position
                        THEN Slot(samples'[1], samples'[2], frame_index) ELSE ring[b][p]
      BY <3>1, <3>2, StoredSlot
    <3>4. /\ Position \in Offsets /\ (Full <=> Position = BufferSize - 1)
          /\ sample_count' % BufferSize = IF Full THEN 0 ELSE Position + 1
      BY <3>2, PositionSteps DEF TypeOK, BufferSamples
    <3>5. /\ Position' = IF Full THEN 0 ELSE Position + 1
          /\ buffer_index' = IF Full THEN buffer_index + 1 ELSE buffer_index
      BY <1>2, <3>4 DEF Position, PreloadStore
    <3>6. b < buffer_index' \/ (b = buffer_index' /\ p < Position')
      BY <2>2, <2>3 DEF Encoded
    <3>7. BufferSize \in Nat  BY DEF StreamAssumption
    <3>8. (b = buffer_index /\ p = Position) \/ b < buffer_index
          \/ (b = buffer_index /\ p < Position)
      <4>1. CASE Full  BY <4>1, <3>1, <3>4, <3>5, <3>6, <3>7
      <4>2. CASE ~Full  BY <4>2, <3>1, <3>4, <3>5, <3>6, <3>7
      <4> QED  BY <4>1, <4>2
    <3> QED  BY <1>c, <2>1, <2>3, <3>3, <3>8 DEF Encoded, Slot
  <2> QED  BY <2>1, <2>2, <2>3
<1>3. CASE PreloadEnd
  <2>1. samples'[1] # Unset  BY <1>3, FreadNeverUnset DEF PreloadEnd
  <2>2. UNCHANGED <<dmaActive, ring>> /\ pc = "preload" /\ pc' = "start"
    BY <1>3 DEF PreloadEnd, dmaVars
  <2>3. ~eof' => buffer_index = BufferCount
    <3>1. ~eof' => Taken = FrameBytes
      BY <1>3, FreadBeforeEnd DEF PreloadEnd, PreloadReady
    <3> QED  BY <1>3, <3>1, BytesNat DEF PreloadEnd
  <2>4. ASSUME ~eof', NEW b \in Buffers PROVE b < buffer_index
    BY <2>3, <2>4 DEF StreamAssumption
  <2> QED  BY <1>c, <2>1, <2>2, <2>4 DEF Encoded
<1>4. CASE Start \/ Check \/ Wake \/ Shutdown \/ FillCheck \/ FillWake \/ Idle \/ Resume
  <2>1. UNCHANGED <<samples, ring>> /\ pc # "preload" /\ pc' # "preload"
    BY <1>4 DEF Start, Check, Wake, Shutdown, FillCheck, FillWake, Idle, Resume,
                programVars
  <2> QED  BY <2>1, <1>b
<1>5. CASE ReadFrame \/ Underrun
  <2>1. samples'[1] # Unset  BY <1>5, FreadNeverUnset DEF ReadFrame, Underrun
  <2>2. UNCHANGED ring /\ pc # "preload" /\ pc' # "preload"
    BY <1>5 DEF ReadFrame, Underrun
  <2> QED  BY <2>1, <2>2, <1>b
<1>6. CASE Write \/ FillRest \/ FillWrite
  <2>1. UNCHANGED samples /\ pc # "preload" /\ pc' # "preload"
    BY <1>6 DEF Write, FillRest, FillWrite
  <2>2. ASSUME ~eof'
        PROVE  \A b \in Buffers : \A p \in Offsets : ring'[b][p].a # Unset
    <3>1. \A b \in Buffers : \A p \in Offsets : ring[b][p].a # Unset
      BY <1>c, <2>1, <2>2 DEF Encoded
    <3>2. CASE Write
      <4>1. buffer_index \in Buffers  BY <3>2 DEF Write, TypeOK
      <4> QED  BY <3>1, <3>2, <4>1, StoreKeepsEncoded DEF Write
    <3>3. CASE FillRest \/ FillWrite
      BY <1>a, <3>1, <3>3, StoreKeepsEncoded DEF FillRest, FillWrite, TypeOK
    <3> QED  BY <1>6, <3>2, <3>3
  <2> QED  BY <2>1, <2>2
<1> QED  BY <1>1, <1>2, <1>3, <1>4, <1>5, <1>6 DEF Next, Program

LEMMA PreloadProgressInvariant == Spec => []PreloadProgress
<1>1. Init => PreloadProgress
  <2> SUFFICES ASSUME Init PROVE PreloadProgress  OBVIOUS
  <2>1. samples[1] # Unset  BY DEF Init, Quiet, Unset
  <2>2. Position = 0  BY StreamAssumption, RemainderSmall DEF Init, Position, StreamAssumption
  <2>3. BufferSize \in Nat /\ buffer_index = 0 /\ pc = "preload" /\ ~dmaActive
    BY StreamAssumption DEF Init, StreamAssumption
  <2>4. ASSUME NEW b \in Buffers, NEW p \in Offsets PROVE ~Encoded(b, p)
    BY <2>2, <2>3, StreamAssumption DEF Encoded, StreamAssumption
  <2> QED  BY <2>1, <2>3, <2>4 DEF PreloadProgress
<1>2. TypeOK /\ PreloadProgress /\ [Next]_vars => PreloadProgress'
  BY StreamAssumption, PreloadProgressStep
<1> QED  BY <1>1, <1>2, TypeCorrect, PTL DEF Spec

(***************************************************************************)
(* Until the input ends the transmitter never gets to a slot that holds no    *)
(* S/PDIF code.                                                            *)
(***************************************************************************)
THEOREM OnlyCodeInPlay == Spec => []NoUnsetSlotInPlay
<1>1. PreloadProgress => NoUnsetSlotInPlay
  BY DEF PreloadProgress, NoUnsetSlotInPlay, Encoded
<1> QED  BY <1>1, PreloadProgressInvariant, PTL

\* A whole frame read: both channels from its two halves.
LEMMA FreadWholeFrame ==
  ASSUME StreamAssumption, TypeOK, Fread, Taken = FrameBytes
  PROVE  /\ samples' = <<read, read + SampleSize>>
         /\ samples' = <<read' - FrameBytes, read' - SampleSize>>
<1>1. SampleSize \in Nat \ {0} /\ FrameBytes = 2 * SampleSize /\ read \in Nat
  BY BytesNat
<1>2. SampleRead(1) = read
  <2>1. Taken >= (1 - 1) * SampleSize + SampleSize /\ read + (1 - 1) * SampleSize = read
    BY <1>1
  <2> QED  BY <2>1 DEF SampleRead
<1>3. SampleRead(2) = read + SampleSize
  <2>1. Taken >= (2 - 1) * SampleSize + SampleSize
        /\ read + (2 - 1) * SampleSize = read + SampleSize
    BY <1>1
  <2> QED  BY <2>1 DEF SampleRead
<1>4. read' - FrameBytes = read /\ read' - SampleSize = read + SampleSize
  BY <1>1 DEF Fread
<1> QED  BY <1>2, <1>3, <1>4 DEF Fread

\* A slot whose channels belong together, if it holds audio.
LEMMA StoreKeepsWhole ==
  ASSUME StreamAssumption, TypeOK, FramesWhole, ~eof' => ~eof,
         NEW buffer \in Buffers, NEW x, NEW y,
         ~eof' /\ x >= 0 => y = x + SampleSize,
         BufferSamples(buffer, x, y)
  PROVE  FramesWhole'
<1> SUFFICES ASSUME ~eof', NEW b \in Buffers, NEW p \in Offsets, IsAudio(ring'[b][p])
             PROVE  ring'[b][p].b = ring'[b][p].a + SampleSize
  BY DEF FramesWhole, IsAudio
<1>1. ring'[b][p] = IF b = buffer /\ p = Position THEN Slot(x, y, frame_index) ELSE ring[b][p]
  BY StoredSlot
<1>2. CASE b = buffer /\ p = Position  BY <1>1, <1>2 DEF Slot, IsAudio
<1>3. CASE ~(b = buffer /\ p = Position)  BY <1>1, <1>3 DEF FramesWhole
<1> QED  BY <1>2, <1>3

LEMMA FramesWholeStep ==
  ASSUME StreamAssumption, TypeOK, FrameInHand, FramesWhole, [Next]_vars
  PROVE  FrameInHand' /\ FramesWhole'
<1>a. ~eof' => ~eof  BY EofLasts
<1>b. ASSUME UNCHANGED ring PROVE FramesWhole'  BY <1>a, <1>b DEF FramesWhole
<1>1. CASE Source \/ Transmit \/ UNCHANGED vars
  <2>1. UNCHANGED <<pc, samples, read, eof, ring>>
    BY <1>1 DEF Source, SourceWrite, SourceClose, Transmit, vars, programVars, fileVars
  <2> QED  BY <2>1, <1>b DEF FrameInHand
<1>2. CASE PreloadStore
  <2>1. ~eof' => samples' = <<read, read + SampleSize>>
    BY <1>2, FreadBeforeEnd, FreadWholeFrame DEF PreloadStore, PreloadReady
  <2>2. buffer_index \in Buffers /\ BufferSamples(buffer_index, samples'[1], samples'[2])
    BY <1>2 DEF PreloadStore, TypeOK
  <2>3. FramesWhole'  BY <1>a, <2>1, <2>2, StoreKeepsWhole
  <2> QED  BY <1>2, <2>3 DEF PreloadStore, FrameInHand
<1>3. CASE ReadFrame
  <2>1. ~eof' => samples' = <<read' - FrameBytes, read' - SampleSize>>
    BY <1>3, FreadBeforeEnd, FreadWholeFrame DEF ReadFrame
  <2> QED  BY <1>3, <2>1, <1>b DEF ReadFrame, FrameInHand
<1>4. CASE Write
  <2>1. ~eof => samples = <<read - FrameBytes, read - SampleSize>>
    BY <1>4 DEF Write, FrameInHand
  <2>2. ~eof => samples[2] = samples[1] + SampleSize  BY <2>1, BytesNat
  <2>3. buffer_index \in Buffers  BY <1>4 DEF Write, TypeOK
  <2>4. FramesWhole'  BY <1>4, <1>a, <2>2, <2>3, StoreKeepsWhole DEF Write
  <2> QED  BY <1>4, <2>4 DEF Write, FrameInHand
<1>5. CASE FillRest \/ FillWrite
  <2>1. ~(Quiet >= 0)  BY DEF Quiet
  <2>2. FramesWhole'
    BY <1>5, <1>a, <2>1, StoreKeepsWhole DEF FillRest, FillWrite, TypeOK
  <2> QED  BY <1>5, <2>2 DEF FillRest, FillWrite, FrameInHand
<1>6. CASE PreloadEnd \/ Start \/ Check \/ Wake \/ Shutdown \/ Underrun
  <2>1. UNCHANGED ring /\ pc' # "write"
    BY <1>6 DEF PreloadEnd, Start, Check, Wake, Shutdown, Underrun
  <2> QED  BY <2>1, <1>b DEF FrameInHand
<1>7. CASE FillCheck \/ FillWake \/ Idle \/ Resume
  <2>1. UNCHANGED ring /\ pc' # "write"
    BY <1>7 DEF FillCheck, FillWake, Idle, Resume
  <2> QED  BY <2>1, <1>b DEF FrameInHand
<1> QED  BY <1>1, <1>2, <1>3, <1>4, <1>5, <1>6, <1>7 DEF Next, Program

(***************************************************************************)
(* Until the input ends the two channels of a frame are never taken from two  *)
(* different reads, in whatever pieces the input arrives.                   *)
(***************************************************************************)
THEOREM ChannelsBelongTogether == Spec => []FramesWhole
<1>1. Init => FrameInHand /\ FramesWhole
  <2> SUFFICES ASSUME Init PROVE FrameInHand /\ FramesWhole  OBVIOUS
  <2>1. ASSUME NEW b \in Buffers, NEW p \in Offsets PROVE ~IsAudio(ring[b][p])
    <3>1. ring[b][p] = Slot(Unset, Unset, 0)  BY DEF Init
    <3> QED  BY <3>1 DEF Slot, IsAudio, Unset
  <2> QED  BY <2>1 DEF Init, FrameInHand, FramesWhole
<1>2. TypeOK /\ FrameInHand /\ FramesWhole /\ [Next]_vars => FrameInHand' /\ FramesWhole'
  BY StreamAssumption, FramesWholeStep
<1> QED  BY <1>1, <1>2, TypeCorrect, PTL DEF Spec

-----------------------------------------------------------------------------
(* What pre-loading makes of the beginning of the input. *)

\* The next frame's bytes, in the same buffer or at the beginning of the next.
LEMMA BytesOfNext ==
  ASSUME StreamAssumption, NEW b \in Nat, NEW p \in Nat
  PROVE  /\ BytesBefore(b, p) \in Nat
         /\ BytesBefore(b, p) + FrameBytes = BytesBefore(b, p + 1)
         /\ p + 1 = BufferSize => BytesBefore(b, p + 1) = BytesBefore(b + 1, 0)
<1> DEFINE s == BufferSize
           f == FrameBytes
<1>1. s \in Nat /\ f \in Nat  BY DEF StreamAssumption, FrameBytes
<1> HIDE DEF s, f
<1>2. /\ (b * s + p) * f \in Nat
      /\ (b * s + p) * f + f = (b * s + (p + 1)) * f
      /\ p + 1 = s => (b * s + (p + 1)) * f = ((b + 1) * s + 0) * f
  <2>1. b * s \in Nat  BY <1>1
  <2>2. b * s + p \in Nat /\ b * s + (p + 1) = (b * s + p) + 1  BY <2>1
  <2> DEFINE n == b * s + p
  <2>3. n \in Nat  BY <2>2
  <2>4. n * f \in Nat /\ n * f + f = (n + 1) * f  BY <1>1, <2>3
  <2>5. p + 1 = s => b * s + (p + 1) = (b + 1) * s + 0  BY <1>1
  <2> QED  BY <2>2, <2>4, <2>5
<1> QED  BY <1>2 DEF BytesBefore, s, f

LEMMA PreloadOrderStep ==
  ASSUME StreamAssumption, TypeOK, PreloadOrder, [Next]_vars
  PROVE  PreloadOrder'
<1> USE DEF PreloadOrder
<1>a. ~eof' => ~eof  BY EofLasts
<1>1. CASE Source \/ Transmit \/ UNCHANGED vars
  <2>1. UNCHANGED <<pc, buffer_index, sample_count, ring, read, eof>>
    BY <1>1 DEF Source, SourceWrite, SourceClose, Transmit, vars, programVars, fileVars
  <2> QED  BY <2>1 DEF Loaded, Position, BytesBefore
<1>2. CASE PreloadStore
  <2>1. /\ pc = "preload" /\ pc' = "preload" /\ buffer_index \in Buffers
        /\ BufferSamples(buffer_index, samples'[1], samples'[2])
    BY <1>2 DEF PreloadStore, TypeOK
  <2>2. /\ Position \in Offsets /\ (Full <=> Position = BufferSize - 1)
        /\ sample_count' % BufferSize = IF Full THEN 0 ELSE Position + 1
    BY <2>1, PositionSteps DEF TypeOK, BufferSamples
  <2>3. /\ Position' = IF Full THEN 0 ELSE Position + 1
        /\ buffer_index' = IF Full THEN buffer_index + 1 ELSE buffer_index
    BY <1>2, <2>2 DEF Position, PreloadStore
  <2>4. BufferCount \in Nat /\ BufferSize \in Nat \ {0}  BY DEF StreamAssumption
  <2>5. buffer_index' = BufferCount => Position' = 0
    BY <2>1, <2>3, <2>4
  <2>6. ASSUME ~eof'
        PROVE  /\ read' = BytesBefore(buffer_index', Position')
               /\ \A b \in Buffers : \A p \in Offsets :
                    Loaded(b, p)' => ring'[b][p].a = BytesBefore(b, p)
    <3>1. Taken = FrameBytes /\ samples'[1] = read /\ read' = read + FrameBytes
      BY <1>2, <2>6, FreadBeforeEnd, FreadWholeFrame DEF PreloadStore, PreloadReady, Fread
    <3>2. read = BytesBefore(buffer_index, Position)  BY <1>a, <2>1, <2>6
    <3>3. buffer_index \in Nat /\ Position \in Nat  BY <2>1, <2>2, <2>4
    <3>4. read' = BytesBefore(buffer_index, Position + 1)
      BY <3>1, <3>2, <3>3, BytesOfNext
    <3>5. read' = BytesBefore(buffer_index', Position')
      <4>1. CASE Full
        <5>1. Position + 1 = BufferSize  BY <4>1, <2>2, <2>4
        <5> QED  BY <4>1, <5>1, <2>3, <3>3, <3>4, BytesOfNext
      <4>2. CASE ~Full  BY <4>2, <2>3, <3>4
      <4> QED  BY <4>1, <4>2
    <3>6. ASSUME NEW b \in Buffers, NEW p \in Offsets, Loaded(b, p)'
          PROVE  ring'[b][p].a = BytesBefore(b, p)
      <4>1. ring'[b][p] = IF b = buffer_index /\ p = Position
                          THEN Slot(samples'[1], samples'[2], frame_index) ELSE ring[b][p]
        BY <2>1, StoredSlot
      <4>2. b < buffer_index' \/ (b = buffer_index' /\ p < Position')
        BY <3>6 DEF Loaded
      <4>3. (b = buffer_index /\ p = Position) \/ Loaded(b, p)
        <5>1. CASE Full  BY <5>1, <2>1, <2>2, <2>3, <2>4, <4>2 DEF Loaded
        <5>2. CASE ~Full  BY <5>2, <2>1, <2>2, <2>3, <2>4, <4>2 DEF Loaded
        <5> QED  BY <5>1, <5>2
      <4>4. CASE b = buffer_index /\ p = Position
        BY <4>1, <4>4, <3>1, <3>2 DEF Slot
      <4>5. CASE ~(b = buffer_index /\ p = Position)
        BY <4>1, <4>3, <4>5, <1>a, <2>1, <2>6
      <4> QED  BY <4>4, <4>5
    <3> QED  BY <3>5, <3>6
  <2>7. \A b \in Buffers : \A p \in Offsets : BytesBefore(b, p)' = BytesBefore(b, p)
    BY DEF BytesBefore
  <2> QED  BY <2>1, <2>5, <2>6, <2>7
<1>3. CASE PreloadEnd
  <2>1. /\ UNCHANGED <<ring, buffer_index, sample_count>>
        /\ pc = "preload" /\ pc' = "start"
    BY <1>3 DEF PreloadEnd
  <2>2. ASSUME ~eof'
        PROVE  buffer_index = BufferCount /\ read' = BytesBefore(BufferCount, 1)
    <3>1. Taken = FrameBytes
      BY <1>3, <2>2, FreadBeforeEnd DEF PreloadEnd, PreloadReady
    <3>2. buffer_index = BufferCount  BY <1>3, <3>1, BytesNat DEF PreloadEnd
    <3>3. Position = 0 /\ read = BytesBefore(BufferCount, 0)  BY <1>a, <2>1, <2>2, <3>2
    <3>4. read' = read + FrameBytes  BY <1>3, <3>1 DEF PreloadEnd, Fread
    <3>5. BufferCount \in Nat  BY DEF StreamAssumption
    <3> QED  BY <3>2, <3>3, <3>4, <3>5, BytesOfNext
  <2>3. \A b \in Buffers : \A p \in Offsets : Loaded(b, p)' = Loaded(b, p)
    BY <2>1 DEF Loaded, Position
  <2> QED  BY <1>a, <2>1, <2>2, <2>3 DEF BytesBefore
<1>4. CASE Start \/ Check \/ Wake \/ ReadFrame \/ Write \/ Shutdown \/ Underrun
  <2>1. pc' \notin {"preload", "start"}
    BY <1>4 DEF Start, Check, Wake, ReadFrame, Write, Shutdown, Underrun
  <2> QED  BY <2>1
<1>5. CASE FillRest \/ FillCheck \/ FillWake \/ FillWrite \/ Idle \/ Resume
  <2>1. pc' \notin {"preload", "start"}
    BY <1>5 DEF FillRest, FillCheck, FillWake, FillWrite, Idle, Resume
  <2> QED  BY <2>1
<1> QED  BY <1>1, <1>2, <1>3, <1>4, <1>5 DEF Next, Program

LEMMA PreloadOrderInvariant == Spec => []PreloadOrder
<1>1. Init => PreloadOrder
  <2> SUFFICES ASSUME Init PROVE PreloadOrder  OBVIOUS
  <2>1. Position = 0  BY StreamAssumption, RemainderSmall DEF Init, Position, StreamAssumption
  <2>2. /\ BufferCount \in Nat \ {0} /\ buffer_index = 0 /\ read = 0 /\ pc = "preload"
    BY StreamAssumption DEF Init, StreamAssumption
  <2>3. BytesBefore(0, 0) = 0
    BY StreamAssumption DEF BytesBefore, StreamAssumption, FrameBytes
  <2>4. ASSUME NEW b \in Buffers, NEW p \in Offsets PROVE ~Loaded(b, p)
    BY <2>1, <2>2, StreamAssumption DEF Loaded, StreamAssumption
  <2> QED  BY <2>1, <2>2, <2>3, <2>4 DEF PreloadOrder
<1>2. TypeOK /\ PreloadOrder /\ [Next]_vars => PreloadOrder'
  BY StreamAssumption, PreloadOrderStep
<1> QED  BY <1>1, <1>2, TypeCorrect, PTL DEF Spec

(***************************************************************************)
(* However the input arrives, transmission starts on the beginning of it, one  *)
(* slot after the other, and main() has lost exactly one frame behind that.   *)
(***************************************************************************)
THEOREM PreloadedInOrder == Spec => []PreloadInOrder
<1>1. PreloadOrder => PreloadInOrder
  <2> SUFFICES ASSUME PreloadOrder, pc = "start", ~eof
               PROVE  /\ read = BytesBefore(BufferCount, 1)
                      /\ \A b \in Buffers : \A p \in Offsets :
                           ring[b][p].a = BytesBefore(b, p)
    BY DEF PreloadInOrder, BytesBefore
  <2>1. BufferCount \in Nat /\ buffer_index = BufferCount
    BY StreamAssumption DEF StreamAssumption, PreloadOrder
  <2>2. \A b \in Buffers : \A p \in Offsets : Loaded(b, p)
    BY <2>1 DEF Loaded
  <2> QED  BY <2>2 DEF PreloadOrder
<1> QED  BY <1>1, PreloadOrderInvariant, PTL

-----------------------------------------------------------------------------
(* The end. *)

LEMMA EofIsFinalStep ==
  ASSUME StreamAssumption, TypeOK, EofIsFinal, [Next]_vars
  PROVE  EofIsFinal'
<1>1. CASE SourceWrite  BY <1>1 DEF SourceWrite, EofIsFinal, fileVars
<1>2. CASE SourceClose  BY <1>2 DEF SourceClose, EofIsFinal, fileVars
<1>3. CASE PreloadStore \/ PreloadEnd \/ ReadFrame \/ Underrun
  <2>a. FrameBytes \in Nat /\ FrameBytes > 0 /\ read \in Nat /\ written \in Nat
    BY BytesNat DEF TypeOK
  <2>1. Fread /\ UNCHANGED inputVars /\ pc' # "done"
    BY <1>3 DEF PreloadStore, PreloadEnd, ReadFrame, Underrun
  <2>2. Taken < FrameBytes => read + Taken = written
    BY <2>a DEF Taken, Available, TypeOK
  <2>3. eof => Taken = 0
    BY <2>a DEF EofIsFinal, Taken, Available, TypeOK
  <2>4. eof' => closed' /\ read' = written'
    <3>1. CASE eof  BY <2>a, <2>1, <2>3, <3>1 DEF EofIsFinal, Fread, inputVars
    <3>2. CASE ~eof  BY <2>1, <2>2, <3>2 DEF Fread, inputVars
    <3> QED  BY <3>1, <3>2
  <2> QED  BY <1>3, <2>1, <2>4 DEF EofIsFinal, Fread
<1>4. CASE Start \/ Check \/ Wake \/ Write \/ Shutdown
  BY <1>4 DEF Start, Check, Wake, Write, Shutdown, EofIsFinal, fileVars, inputVars
<1>5. CASE FillRest \/ FillCheck \/ FillWake
  BY <1>5 DEF FillRest, FillCheck, FillWake, EofIsFinal, fileVars, inputVars
<1>6. CASE FillWrite \/ Idle \/ Resume
  BY <1>6 DEF FillWrite, Idle, Resume, EofIsFinal, fileVars, inputVars
<1>7. CASE Transmit \/ UNCHANGED vars
  BY <1>7 DEF Transmit, vars, EofIsFinal, fileVars, inputVars
<1> QED  BY <1>1, <1>2, <1>3, <1>4, <1>5, <1>6, <1>7 DEF Next, Source, Program

LEMMA EofIsFinalInvariant == Spec => []EofIsFinal
<1>1. Init => EofIsFinal  BY DEF Init, EofIsFinal
<1>2. TypeOK /\ EofIsFinal /\ [Next]_vars => EofIsFinal'
  BY StreamAssumption, EofIsFinalStep
<1> QED  BY <1>1, <1>2, TypeCorrect, PTL DEF Spec

(***************************************************************************)
(* The program shuts down only after the last byte of an input that nobody    *)
(* can add to; an underrun never passes for the end.                        *)
(***************************************************************************)
THEOREM EndsOnlyAfterInput == Spec => []EndsAfterInput
<1>1. EofIsFinal => EndsAfterInput  BY DEF EofIsFinal, EndsAfterInput
<1> QED  BY <1>1, EofIsFinalInvariant, PTL
=============================================================================

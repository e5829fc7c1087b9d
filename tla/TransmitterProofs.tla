-------------------------- MODULE TransmitterProofs --------------------------
(***************************************************************************)
(* Theorems of Transmitter, for a ring, a FIFO and a threshold of any size     *)
(* and any number of processes, killed or shut down at any step.             *)
(***************************************************************************)
EXTENDS Transmitter, SequenceTheorems, TLAPS

USE TransmitterAssumption DEF TransmitterAssumption

\* The channel width less 8 and the frame length less 1 fit into their fields.
LEMMA RegisterValues ==
  /\ ConfiguredMode(32, 0).FLEN = 31
  /\ ChannelOne(32, 0).CH1WID = 8 /\ ChannelOne(32, 0).CH1WEX = 1
BY DEF ConfiguredMode, ChannelOne

\* The DMA's registers, one of them rewritten.
DmaRegisters ==
  [active : BOOLEAN, run : 0 .. MaxStarts, block : Buffers, done : 0 .. BufferWords - 1]

LEMMA DmaUpdates ==
  ASSUME NEW d \in DmaRegisters
  PROVE  /\ \A on \in BOOLEAN :
              /\ [d EXCEPT !.active = on] \in DmaRegisters
              /\ [d EXCEPT !.active = on].run = d.run /\ [d EXCEPT !.active = on].active = on
         /\ \A i \in 0 .. BufferWords - 1 :
              /\ [d EXCEPT !.done = i] \in DmaRegisters
              /\ [d EXCEPT !.done = i].run = d.run /\ [d EXCEPT !.done = i].active = d.active
         /\ \A b \in Buffers :
              /\ [d EXCEPT !.block = b] \in DmaRegisters
              /\ [d EXCEPT !.block = b].run = d.run /\ [d EXCEPT !.block = b].active = d.active
BY DEF DmaRegisters

RingType == [Buffers -> {0, 1}]
WritingType == [buffer : Buffers, stored : 0 .. BufferWords - 1] \cup {Nothing}
ControlBits == [EN : {0, 1}, TXON : {0, 1}, DMAEN : {0, 1}, SYNC : {0, 1}]

LEMMA ControlUpdates ==
  ASSUME NEW c \in ControlBits
  PROVE  /\ [c EXCEPT !.EN = 1, !.TXON = 0] \in ControlBits
         /\ [c EXCEPT !.EN = 1, !.TXON = 1] \in ControlBits
         /\ [c EXCEPT !.DMAEN = 1] \in ControlBits
         /\ [c EXCEPT !.SYNC = 0] \in ControlBits
         /\ [c EXCEPT !.SYNC = 1] \in ControlBits
BY DEF ControlBits

\* Type correctness by what the actions change together.
ProgramType ==
  /\ pc \in Working \cup {"stop_pcm", "stop_clock", "stop_dma", "off"}
  /\ starts \in 0 .. MaxStarts /\ clockOn \in BOOLEAN
ContentType == ring \in RingType /\ writing \in WritingType
DmaType ==
  /\ dma \in DmaRegisters
  /\ dma.run <= starts
  /\ dma.active => dma.run # 0
PcmType == cs \in ControlBits /\ mode.FLEN \in 0 .. 1023 /\ txc.CH1WID \in 0 .. 15
InflightType == inflight \in Words \cup {Nothing}
FifoType == clearing \in BOOLEAN /\ fifo \in Seq(Words) /\ Len(fifo) <= FifoSize
HeardType == heard \in Words

LEMMA TypeParts ==
  /\ TypeOK <=> /\ ProgramType /\ ContentType /\ DmaType /\ PcmType
                /\ InflightType /\ FifoType /\ HeardType
  /\ TypeOK' <=> /\ ProgramType' /\ ContentType' /\ DmaType' /\ PcmType'
                 /\ InflightType' /\ FifoType' /\ HeardType'
BY DEF TypeOK, ProgramType, ContentType, DmaType, PcmType, InflightType, FifoType, HeardType,
       RingType, WritingType, ControlBits, DmaRegisters

\* What a step leaves alone keeps its type.
LEMMA TypeKept ==
  ASSUME TypeOK
  PROVE  /\ ring' = ring /\ writing' = writing => ContentType'
         /\ dma' = dma /\ starts' = starts => DmaType'
         /\ cs' = cs /\ mode' = mode /\ txc' = txc => PcmType'
         /\ inflight' = inflight => InflightType'
         /\ clearing' = clearing /\ fifo' = fifo => FifoType'
         /\ heard' = heard => HeardType'
         /\ \A step \in Working \cup {"stop_pcm", "stop_clock", "stop_dma", "off"} :
              pc' = step /\ starts' = starts /\ clockOn' \in BOOLEAN => ProgramType'
<1>1. /\ ProgramType /\ ContentType /\ DmaType /\ PcmType
      /\ InflightType /\ FifoType /\ HeardType
  BY TypeParts
<1>2. ring' = ring /\ writing' = writing => ContentType'  BY <1>1 DEF ContentType
<1>3. dma' = dma /\ starts' = starts => DmaType'  BY <1>1 DEF DmaType
<1>4. cs' = cs /\ mode' = mode /\ txc' = txc => PcmType'  BY <1>1 DEF PcmType
<1>5. inflight' = inflight => InflightType'  BY <1>1 DEF InflightType
<1>6. clearing' = clearing /\ fifo' = fifo => FifoType'  BY <1>1 DEF FifoType
<1>7. heard' = heard => HeardType'  BY <1>1 DEF HeardType
<1>8. \A step \in Working \cup {"stop_pcm", "stop_clock", "stop_dma", "off"} :
         pc' = step /\ starts' = starts /\ clockOn' \in BOOLEAN => ProgramType'
  BY <1>1 DEF ProgramType
<1> QED  BY <1>2, <1>3, <1>4, <1>5, <1>6, <1>7, <1>8

\* The control blocks make a loop of the buffers, in their order.
LEMMA NextBlock ==
  ASSUME NEW b \in Buffers
  PROVE  (b + 1) % BufferCount \in Buffers
BY DEF Buffers

LEMMA TypeInit == Init => TypeOK /\ SetUpInOrder /\ RoomForWord /\ RegistersSet /\ InOrder
<1> SUFFICES ASSUME Init PROVE TypeOK /\ SetUpInOrder /\ RoomForWord /\ RegistersSet /\ InOrder
  OBVIOUS
<1> USE DEF Init
<1>1. 0 \in Buffers /\ 0 \in 0 .. BufferWords - 1  BY DEF Buffers
<1>2. heard \in Words  BY <1>1 DEF Words, Silence
<1>3. fifo \in Seq(Words) /\ Len(fifo) = 0  OBVIOUS
<1>a. ring \in [Buffers -> {0, 1}]  BY DEF NewRing
<1>b. /\ dma \in [active : BOOLEAN, run : 0 .. MaxStarts, block : Buffers,
                  done : 0 .. BufferWords - 1]
      /\ dma.run <= starts /\ ~dma.active
  BY <1>1 DEF Idle
<1>c. /\ cs \in [EN : {0, 1}, TXON : {0, 1}, DMAEN : {0, 1}, SYNC : {0, 1}]
      /\ mode.FLEN \in 0 .. 1023 /\ txc.CH1WID \in 0 .. 15
  BY DEF ResetControl, ResetMode, ResetChannels
<1>4. TypeOK
  <2>1. clockOn \in BOOLEAN /\ clearing \in BOOLEAN  OBVIOUS
  <2>2. /\ inflight \in Words \cup {Nothing} /\ Len(fifo) <= FifoSize
        /\ writing = Nothing
    BY <1>3
  <2> QED  BY <1>a, <1>b, <1>c, <1>2, <1>3, <2>1, <2>2 DEF TypeOK
<1>5. SetUpInOrder /\ RoomForWord /\ RegistersSet /\ InOrder
  BY DEF SetUpInOrder, RoomForWord, RegistersSet, InOrder, Sending, ResetControl, Nothing
<1> QED  BY <1>4, <1>5

\* The driver calls before the first word.
Preparing ==
  \/ Start \/ ResetDma \/ LoadControlBlock \/ ConfigureClock \/ EnableClock \/ ResetPcm
  \/ ConfigurePcm \/ ConfigureDma \/ ConfigureChannels \/ ClearFifos \/ SyncZero \/ SyncOne

Enabling == EnableDma \/ EnablePcm \/ Pause \/ Resume

Rewrite == Look \/ Store

Stopping == BeginShutdown \/ StopPcm \/ StopClock \/ StopDma \/ Kill

LEMMA NextSplit ==
  ASSUME Next
  PROVE  \/ Preparing \/ Enabling \/ Rewrite \/ Stopping
         \/ DmaRead \/ DmaWrite \/ PcmClock \/ Shift
BY DEF Next, Setup, Streaming, Shutdown, Dma, Preparing, Enabling, Rewrite, Stopping

LEMMA TypePreparing ==
  ASSUME TypeOK, SetUpInOrder, Preparing
  PROVE  TypeOK'
<1>a. 0 \in Buffers /\ 0 \in 0 .. BufferWords - 1  BY DEF Buffers
<1>b. starts \in 0 .. MaxStarts /\ clockOn \in BOOLEAN  BY TypeParts DEF ProgramType
<1>c. PcmType /\ FifoType /\ DmaType  BY TypeParts
<1>1. CASE Start
  <2>1. ProgramType'
    BY <1>1, <1>b DEF Start, ProgramType, Working
  <2>2. DmaType'
    BY <1>1, <1>b, <1>c DEF Start, DmaType, DmaRegisters
  <2> QED  BY <1>1, <2>1, <2>2, TypeKept, TypeParts
           DEF Start, Goto, pcmVars, fifoVars
<1>2. CASE ResetDma
  <2>1. ProgramType'
    BY <1>2, <1>b, TypeKept DEF ResetDma, Goto, Working
  <2>2. DmaType'
    BY <1>2, <1>a, <1>b DEF ResetDma, Goto, DmaType, DmaRegisters, Idle
  <2>3. InflightType'
    BY <1>2 DEF ResetDma, InflightType
  <2>4. ContentType'
    BY <1>2 DEF ResetDma, ContentType, NewRing, RingType, WritingType
  <2> QED  BY <1>2, <2>1, <2>2, <2>3, <2>4, TypeKept, TypeParts
           DEF ResetDma, Goto, pcmVars, fifoVars
<1>3. CASE LoadControlBlock
  <2>1. ProgramType'
    BY <1>3, <1>b, TypeKept DEF LoadControlBlock, Goto, Working
  <2>2. dma' = [active |-> FALSE, run |-> starts, block |-> 0, done |-> 0]
    BY <1>3 DEF LoadControlBlock, SetUpInOrder, Idle
  <2>3. DmaType'
    <3>1. [active |-> FALSE, run |-> starts, block |-> 0, done |-> 0] \in DmaRegisters
      BY <1>a, <1>b DEF DmaRegisters
    <3>2. dma' \in DmaRegisters  BY <2>2, <3>1
    <3>3. dma'.run = starts /\ ~dma'.active  BY <2>2
    <3>4. starts' = starts  BY <1>3 DEF LoadControlBlock, Goto
    <3> QED  BY <1>b, <3>2, <3>3, <3>4 DEF DmaType
  <2> QED  BY <1>3, <2>1, <2>2, <2>3, TypeKept, TypeParts
           DEF LoadControlBlock, Goto, pcmVars, fifoVars
<1>4. CASE ConfigureClock
  <2>1. ProgramType'
    BY <1>4, <1>b, TypeKept DEF ConfigureClock, Goto, Working
  <2> QED  BY <1>4, <2>1, TypeKept, TypeParts
           DEF ConfigureClock, Goto, pcmVars, fifoVars
<1>5. CASE EnableClock
  <2>1. ProgramType'
    BY <1>5, <1>b, TypeKept DEF EnableClock, Goto, Working
  <2> QED  BY <1>5, <2>1, TypeKept, TypeParts
           DEF EnableClock, Goto, pcmVars, fifoVars
<1>6. CASE ResetPcm
  <2>1. ProgramType'
    BY <1>6, <1>b, TypeKept DEF ResetPcm, Goto, Working
  <2>2. PcmType' /\ FifoType'
    <3>1. /\ cs' = ResetControl /\ mode' = ResetMode /\ txc' = ResetChannels
          /\ clearing' = TRUE /\ fifo' = fifo
      BY <1>6 DEF ResetPcm, PcmReset
    <3>2. ResetControl \in ControlBits  BY DEF ResetControl, ControlBits
    <3>3. ResetMode.FLEN = 0 /\ ResetChannels.CH1WID = 0  BY DEF ResetMode, ResetChannels
    <3>4. PcmType'  BY <3>1, <3>2, <3>3 DEF PcmType
    <3>5. FifoType'  BY <1>c, <3>1 DEF FifoType
    <3> QED  BY <3>4, <3>5
  <2> QED  BY <1>6, <2>1, <2>2, TypeKept, TypeParts
           DEF ResetPcm, Goto, pcmVars, fifoVars
<1>7. CASE ConfigurePcm
  <2>1. ProgramType'
    BY <1>7, <1>b, TypeKept DEF ConfigurePcm, Goto, Working
  <2>2. cs' \in ControlBits
    BY <1>7, <1>c, ControlUpdates DEF ConfigurePcm, PcmType
  <2>3. PcmType'
    BY <1>7, <1>c, <2>2, RegisterValues DEF ConfigurePcm, PcmType
  <2> QED  BY <1>7, <2>1, <2>2, <2>3, TypeKept, TypeParts
           DEF ConfigurePcm, Goto, pcmVars, fifoVars
<1>8. CASE ConfigureDma
  <2>1. ProgramType'
    BY <1>8, <1>b, TypeKept DEF ConfigureDma, Goto, Working
  <2>2. cs' \in ControlBits
    BY <1>8, <1>c, ControlUpdates DEF ConfigureDma, PcmType
  <2>3. PcmType'
    BY <1>8, <1>c, <2>2 DEF ConfigureDma, PcmType
  <2> QED  BY <1>8, <2>1, <2>2, <2>3, TypeKept, TypeParts
           DEF ConfigureDma, Goto, pcmVars, fifoVars
<1>9. CASE ConfigureChannels
  <2>1. ProgramType'
    BY <1>9, <1>b, TypeKept DEF ConfigureChannels, Goto, Working
  <2>2. PcmType'
    BY <1>9, <1>c, RegisterValues DEF ConfigureChannels, PcmType
  <2> QED  BY <1>9, <2>1, <2>2, TypeKept, TypeParts
           DEF ConfigureChannels, Goto, pcmVars, fifoVars
<1>10. CASE ClearFifos
  <2>1. ProgramType'
    BY <1>10, <1>b, TypeKept DEF ClearFifos, Goto, Working
  <2>2. cs' \in ControlBits
    BY <1>10, <1>c, ControlUpdates DEF ClearFifos, PcmType
  <2>3. PcmType'
    BY <1>10, <1>c, <2>2 DEF ClearFifos, PcmType
  <2>4. FifoType'
    BY <1>10, <1>c DEF ClearFifos, FifoType
  <2> QED  BY <1>10, <2>1, <2>2, <2>3, <2>4, TypeKept, TypeParts
           DEF ClearFifos, Goto, pcmVars, fifoVars
<1>11. CASE SyncZero
  <2>1. ProgramType'
    BY <1>11, <1>b, TypeKept DEF SyncZero, Goto, Working
  <2>2. cs' \in ControlBits
    BY <1>11, <1>c, ControlUpdates DEF SyncZero, PcmType
  <2>3. PcmType'
    BY <1>11, <1>c, <2>2 DEF SyncZero, PcmType
  <2> QED  BY <1>11, <2>1, <2>2, <2>3, TypeKept, TypeParts
           DEF SyncZero, Goto, pcmVars, fifoVars
<1>12. CASE SyncOne
  <2>1. ProgramType'
    BY <1>12, <1>b, TypeKept DEF SyncOne, Goto, Working
  <2> QED  BY <1>12, <2>1, TypeKept, TypeParts
           DEF SyncOne, Goto, pcmVars, fifoVars
<1> QED  BY <1>1, <1>2, <1>3, <1>4, <1>5, <1>6, <1>7, <1>8, <1>9, <1>10, <1>11, <1>12
         DEF Preparing

LEMMA TypeEnabling ==
  ASSUME TypeOK, SetUpInOrder, Enabling
  PROVE  TypeOK'
<1>b. starts \in 0 .. MaxStarts /\ clockOn \in BOOLEAN  BY TypeParts DEF ProgramType
<1>c. PcmType /\ DmaType  BY TypeParts
<1>1. CASE EnableDma
  <2>1. ProgramType'
    BY <1>1, <1>b, TypeKept DEF EnableDma, Goto, Working
  <2>2. dma.run = starts /\ starts # 0
    BY <1>1 DEF EnableDma, SetUpInOrder, Idle
  <2>3. dma' \in DmaRegisters /\ dma'.run = dma.run
    BY <1>1, <1>c, DmaUpdates DEF EnableDma, DmaType
  <2>4. DmaType'
    BY <1>1, <1>b, <2>2, <2>3 DEF EnableDma, Goto, DmaType
  <2> QED  BY <1>1, <2>1, <2>2, <2>3, <2>4, TypeKept, TypeParts
           DEF EnableDma, Goto, pcmVars, fifoVars
<1>2. CASE EnablePcm
  <2>1. ProgramType'
    BY <1>2, <1>b, TypeKept DEF EnablePcm, Goto, Working
  <2>2. cs' \in ControlBits
    BY <1>2, <1>c, ControlUpdates DEF EnablePcm, Transmit, PcmType
  <2>3. PcmType'
    BY <1>2, <1>c, <2>2 DEF EnablePcm, PcmType
  <2>4. HeardType'
    BY <1>2, <1>b DEF EnablePcm, HeardType, Silence, Words
  <2> QED  BY <1>2, <2>1, <2>2, <2>3, <2>4, TypeKept, TypeParts
           DEF EnablePcm, Goto, pcmVars, fifoVars
<1>3. CASE Pause
  <2>1. ProgramType'
    BY <1>3, <1>b, TypeKept DEF Pause, Goto, Working
  <2>2. cs' \in ControlBits
    BY <1>3, <1>c, ControlUpdates DEF Pause, Transmit, PcmType
  <2>3. PcmType'
    BY <1>3, <1>c, <2>2 DEF Pause, PcmType
  <2> QED  BY <1>3, <2>1, <2>2, <2>3, TypeKept, TypeParts
           DEF Pause, Goto, pcmVars, fifoVars
<1>4. CASE Resume
  <2>1. ProgramType'
    BY <1>4, <1>b, TypeKept DEF Resume, Goto, Working
  <2>2. cs' \in ControlBits
    BY <1>4, <1>c, ControlUpdates DEF Resume, Transmit, PcmType
  <2>3. PcmType'
    BY <1>4, <1>c, <2>2 DEF Resume, PcmType
  <2> QED  BY <1>4, <2>1, <2>2, <2>3, TypeKept, TypeParts
           DEF Resume, Goto, pcmVars, fifoVars
<1> QED  BY <1>1, <1>2, <1>3, <1>4 DEF Enabling

LEMMA TypeRewrite ==
  ASSUME TypeOK, Rewrite
  PROVE  TypeOK'
<1>1. ContentType  BY TypeParts
<1>2. 0 \in 0 .. BufferWords - 1  OBVIOUS
<1>3. ContentType'
  <2>1. CASE Look
    BY <1>1, <1>2, <2>1 DEF Look, ContentType, WritingType
  <2>2. CASE Store /\ writing.stored + 1 < BufferWords
    BY <1>1, <2>2 DEF Store, ContentType, WritingType
  <2>3. CASE Store /\ ~(writing.stored + 1 < BufferWords)
    <3>1. writing' = Nothing /\ ring' = [ring EXCEPT ![writing.buffer] = 1 - @]
      BY <2>3 DEF Store
    <3>2. writing.buffer \in Buffers  BY <1>1, <2>3 DEF Store, ContentType, WritingType
    <3>3. 1 - ring[writing.buffer] \in {0, 1}  BY <1>1, <3>2 DEF ContentType, RingType
    <3> QED  BY <1>1, <3>1, <3>2, <3>3 DEF ContentType, RingType, WritingType
  <2> QED  BY <2>1, <2>2, <2>3 DEF Rewrite
<1>4. /\ UNCHANGED <<pc, starts, dma, inflight, clockOn, cs, mode, txc, clearing, fifo, heard>>
  BY DEF Rewrite, Look, Store, pcmVars, fifoVars
<1>5. ProgramType'  BY <1>4, TypeParts DEF ProgramType
<1> QED  BY <1>3, <1>4, <1>5, TypeKept, TypeParts

LEMMA TypeStopping ==
  ASSUME TypeOK, SetUpInOrder, Stopping
  PROVE  TypeOK'
<1>b. starts \in 0 .. MaxStarts /\ clockOn \in BOOLEAN  BY TypeParts DEF ProgramType
<1>c. PcmType /\ FifoType /\ DmaType  BY TypeParts
<1>1. CASE BeginShutdown
  <2>1. ProgramType'
    BY <1>1, <1>b, TypeKept DEF BeginShutdown, Goto, Working
  <2> QED  BY <1>1, <2>1, TypeKept, TypeParts
           DEF BeginShutdown, Goto, pcmVars, fifoVars
<1>2. CASE StopPcm
  <2>1. ProgramType'
    BY <1>2, <1>b, TypeKept DEF StopPcm, Goto, Working
  <2>2. PcmType' /\ FifoType'
    <3>1. /\ cs' = ResetControl /\ mode' = ResetMode /\ txc' = ResetChannels
          /\ clearing' = TRUE /\ fifo' = fifo
      BY <1>2 DEF StopPcm, PcmReset
    <3>2. ResetControl \in ControlBits  BY DEF ResetControl, ControlBits
    <3>3. ResetMode.FLEN = 0 /\ ResetChannels.CH1WID = 0  BY DEF ResetMode, ResetChannels
    <3>4. PcmType'  BY <3>1, <3>2, <3>3 DEF PcmType
    <3>5. FifoType'  BY <1>c, <3>1 DEF FifoType
    <3> QED  BY <3>4, <3>5
  <2> QED  BY <1>2, <2>1, <2>2, TypeKept, TypeParts
           DEF StopPcm, Goto, pcmVars, fifoVars
<1>3. CASE StopClock
  <2>1. ProgramType'
    BY <1>3, <1>b, TypeKept DEF StopClock, Goto, Working
  <2> QED  BY <1>3, <2>1, TypeKept, TypeParts
           DEF StopClock, Goto, pcmVars, fifoVars
<1>4. CASE StopDma
  <2>1. ProgramType'
    BY <1>4, <1>b, TypeKept DEF StopDma, Goto, Working
  <2>2. dma' \in DmaRegisters /\ dma'.run = dma.run /\ dma'.active = FALSE
    BY <1>4, <1>c, DmaUpdates DEF StopDma, DmaType
  <2>3. DmaType'
    BY <1>4, <1>c, <2>2 DEF StopDma, Goto, DmaType
  <2> QED  BY <1>4, <2>1, <2>2, <2>3, TypeKept, TypeParts
           DEF StopDma, Goto, pcmVars, fifoVars
<1>5. CASE Kill
  <2>1. ProgramType'
    BY <1>5, <1>b, TypeKept DEF Kill, Goto, Working
  <2> QED  BY <1>5, <2>1, TypeKept, TypeParts
           DEF Kill, Goto, pcmVars, fifoVars
<1> QED  BY <1>1, <1>2, <1>3, <1>4, <1>5 DEF Stopping

\* The word the DMA reads.
LEMMA WordType ==
  ASSUME TypeOK, NEW run \in 0 .. MaxStarts, NEW b \in Buffers, NEW i \in 0 .. BufferWords - 1
  PROVE  Word(run, b, i) \in Words
<1>1. ring[b] \in {0, 1} /\ 1 - ring[b] \in {0, 1}  BY DEF TypeOK
<1>2. b \in 0 .. BufferCount  BY DEF Buffers
<1>3. Content(b, i) \in {0, 1}  BY <1>1 DEF Content
<1>4. Rewriting(b) \in BOOLEAN  BY DEF Rewriting
<1> QED  BY <1>2, <1>3, <1>4 DEF Word, Words

LEMMA DmaReadEffect ==
  ASSUME TypeOK, DmaRead
  PROVE  /\ dma.active /\ dma.run \in 0 .. MaxStarts /\ dma.run # 0
         /\ inflight' = Word(dma.run, dma.block, dma.done)
         /\ inflight' \in Words
         /\ cs.DMAEN = 1 /\ Len(fifo) < dreq
<1>1. dma.active /\ dma.run \in 0 .. MaxStarts /\ dma.run # 0  BY DEF DmaRead, TypeOK
<1>2. inflight' = Word(dma.run, dma.block, dma.done * 1)  BY DEF DmaRead, ControlBlock
<1>3. dma.done * 1 = dma.done  BY DEF TypeOK
<1>4. Requested  BY DEF DmaRead, ControlBlock
<1> QED  BY <1>1, <1>2, <1>3, <1>4, WordType DEF Requested, TypeOK

LEMMA DmaWriteEffect ==
  ASSUME TypeOK, DmaWrite
  PROVE  /\ inflight # Nothing /\ inflight \in Words /\ inflight' = Nothing
         /\ dma' = IF dma.done + 1 < BufferWords THEN [dma EXCEPT !.done = dma.done + 1]
                   ELSE [dma EXCEPT !.block = (dma.block + 1) % BufferCount, !.done = 0]
         /\ fifo' = IF Len(fifo) < FifoSize THEN Append(fifo, inflight) ELSE fifo
<1>1. (dma.block + 1) % BufferCount \in Buffers  BY NextBlock DEF TypeOK
<1> QED  BY <1>1 DEF DmaWrite, TypeOK, ControlBlock

LEMMA TypeHardware ==
  ASSUME TypeOK, DmaRead \/ DmaWrite \/ PcmClock \/ Shift
  PROVE  TypeOK'
<1>a. /\ ProgramType /\ ContentType /\ DmaType /\ PcmType
      /\ InflightType /\ FifoType /\ HeardType
  BY TypeParts
<1>b. pc' = pc /\ starts' = starts /\ clockOn' = clockOn => ProgramType'
  BY <1>a DEF ProgramType
<1>1. CASE DmaRead
  <2>1. InflightType'  BY <1>1, DmaReadEffect DEF InflightType
  <2> QED  BY <1>1, <1>b, <2>1, TypeKept, TypeParts DEF DmaRead, pcmVars, fifoVars
<1>2. CASE DmaWrite
  <2>1. dma \in DmaRegisters  BY <1>a DEF DmaType
  <2>2. /\ dma' \in DmaRegisters
        /\ dma'.run = dma.run /\ dma'.active = dma.active
    <3>1. CASE dma.done + 1 < BufferWords
      <4> DEFINE next == dma.done + 1
      <4>1. dma' = [dma EXCEPT !.done = next]  BY <1>2, <3>1, DmaWriteEffect
      <4>2. next \in 0 .. BufferWords - 1  BY <2>1, <3>1 DEF DmaRegisters
      <4> HIDE DEF next
      <4> QED  BY <2>1, <4>1, <4>2, DmaUpdates
    <3>2. CASE ~(dma.done + 1 < BufferWords)
      <4> DEFINE next == (dma.block + 1) % BufferCount
                 moved == [dma EXCEPT !.block = next]
      <4>1. dma' = [moved EXCEPT !.done = 0]  BY <1>2, <3>2, DmaWriteEffect
      <4>2. next \in Buffers  BY <2>1, NextBlock DEF DmaRegisters
      <4>3. 0 \in 0 .. BufferWords - 1  OBVIOUS
      <4> HIDE DEF next
      <4>4. moved \in DmaRegisters /\ moved.run = dma.run /\ moved.active = dma.active
        BY <2>1, <4>2, DmaUpdates
      <4> HIDE DEF moved
      <4> QED  BY <4>1, <4>3, <4>4, DmaUpdates
    <3> QED  BY <3>1, <3>2
  <2>3. DmaType'
    <3>1. starts' = starts  BY <1>2 DEF DmaWrite
    <3> QED  BY <1>a, <2>2, <3>1 DEF DmaType
  <2>4. FifoType'
    <3>1. clearing' = clearing  BY <1>2 DEF DmaWrite
    <3>2. fifo \in Seq(Words)  BY <1>a DEF FifoType
    <3>3. CASE Len(fifo) < FifoSize
      <4>1. fifo' = Append(fifo, inflight) /\ inflight \in Words
        BY <1>2, <3>3, DmaWriteEffect
      <4>2. fifo' \in Seq(Words) /\ Len(fifo') = Len(fifo) + 1
        BY <3>2, <4>1, AppendProperties
      <4>3. Len(fifo) \in Nat  BY <3>2, LenProperties
      <4> QED  BY <1>a, <3>1, <3>3, <4>2, <4>3 DEF FifoType
    <3>4. CASE ~(Len(fifo) < FifoSize)
      <4>1. fifo' = fifo  BY <1>2, <3>4, DmaWriteEffect
      <4> QED  BY <3>1, <4>1, TypeKept
    <3> QED  BY <3>3, <3>4
  <2>5. InflightType'  BY <1>2, DmaWriteEffect DEF InflightType
  <2> QED  BY <1>2, <1>b, <2>3, <2>4, <2>5, TypeKept, TypeParts DEF DmaWrite, pcmVars
<1>3. CASE PcmClock
  <2>1. FifoType'
    <3>1. clearing' = FALSE  BY <1>3 DEF PcmClock
    <3>2. fifo' = <<>> \/ fifo' = fifo  BY <1>3 DEF PcmClock
    <3>3. clearing' \in BOOLEAN  BY <3>1
    <3>4. fifo' \in Seq(Words) /\ Len(fifo') <= FifoSize
      <4>1. CASE fifo' = <<>>  BY <4>1
      <4>2. CASE fifo' = fifo  BY <1>a, <4>2 DEF FifoType
      <4> QED  BY <3>2, <4>1, <4>2
    <3> QED  BY <3>3, <3>4 DEF FifoType
  <2> QED  BY <1>3, <1>b, <2>1, TypeKept, TypeParts DEF PcmClock, pcmVars
<1>4. CASE Shift
  <2>1. fifo \in Seq(Words) /\ fifo # <<>>  BY <1>4, <1>a DEF Shift, FifoType
  <2>2. /\ heard' = Head(fifo) /\ fifo' = Tail(fifo) /\ clearing' = clearing
    BY <1>4 DEF Shift
  <2>3. heard' \in Words /\ fifo' \in Seq(Words) /\ Len(fifo') = Len(fifo) - 1
    BY <2>1, <2>2, HeadTailProperties
  <2>4. Len(fifo) \in Nat  BY <2>1, LenProperties
  <2>5. FifoType'  BY <1>a, <2>2, <2>3, <2>4 DEF FifoType
  <2>6. HeardType'  BY <2>3 DEF HeardType
  <2> QED  BY <1>4, <1>b, <2>5, <2>6, TypeKept, TypeParts DEF Shift, pcmVars
<1> QED  BY <1>1, <1>2, <1>3, <1>4

LEMMA SetUpInOrderPreparing ==
  ASSUME TypeOK, SetUpInOrder, Preparing
  PROVE  SetUpInOrder'
<1> USE DEF SetUpInOrder, Goto, pcmVars, fifoVars
<1>1. CASE Start
  BY <1>1 DEF Start, TypeOK
<1>2. CASE ResetDma
  BY <1>2 DEF ResetDma, Idle
<1>3. CASE LoadControlBlock
  BY <1>3 DEF LoadControlBlock, Idle
<1>4. CASE ConfigureClock
  BY <1>4 DEF ConfigureClock
<1>5. CASE EnableClock
  BY <1>5 DEF EnableClock
<1>6. CASE ResetPcm
  BY <1>6 DEF ResetPcm, PcmReset, ResetControl
<1>7. CASE ConfigurePcm
  BY <1>7 DEF ConfigurePcm
<1>8. CASE ConfigureDma
  BY <1>8 DEF ConfigureDma
<1>9. CASE ConfigureChannels
  BY <1>9 DEF ConfigureChannels
<1>10. CASE ClearFifos
  BY <1>10 DEF ClearFifos
<1>11. CASE SyncZero
  BY <1>11 DEF SyncZero
<1>12. CASE SyncOne
  BY <1>12 DEF SyncOne
<1> QED  BY <1>1, <1>2, <1>3, <1>4, <1>5, <1>6, <1>7, <1>8, <1>9, <1>10, <1>11, <1>12 DEF Preparing

LEMMA SetUpInOrderEnabling ==
  ASSUME TypeOK, SetUpInOrder, Enabling
  PROVE  SetUpInOrder'
<1> USE DEF SetUpInOrder, Goto, pcmVars, fifoVars
<1>1. CASE EnableDma
  BY <1>1 DEF EnableDma
<1>2. CASE EnablePcm
  BY <1>2 DEF EnablePcm, Transmit
<1>3. CASE Pause
  BY <1>3 DEF Pause, Transmit
<1>4. CASE Resume
  BY <1>4 DEF Resume, Transmit
<1> QED  BY <1>1, <1>2, <1>3, <1>4 DEF Enabling

LEMMA SetUpInOrderStopping ==
  ASSUME TypeOK, SetUpInOrder, Stopping
  PROVE  SetUpInOrder'
<1> USE DEF SetUpInOrder, Goto, pcmVars, fifoVars
<1>1. CASE BeginShutdown
  BY <1>1 DEF BeginShutdown, Working
<1>2. CASE StopPcm
  BY <1>2 DEF StopPcm, PcmReset, ResetControl
<1>3. CASE StopClock
  BY <1>3 DEF StopClock
<1>4. CASE StopDma
  BY <1>4 DEF StopDma
<1>5. CASE Kill
  BY <1>5 DEF Kill
<1> QED  BY <1>1, <1>2, <1>3, <1>4, <1>5 DEF Stopping

LEMMA SetUpInOrderHardware ==
  ASSUME TypeOK, SetUpInOrder, DmaRead \/ DmaWrite \/ PcmClock \/ Shift \/ Rewrite
  PROVE  SetUpInOrder'
<1> USE DEF SetUpInOrder
<1>1. CASE DmaRead
  BY <1>1 DEF DmaRead, pcmVars, fifoVars
<1>2. CASE DmaWrite
  BY <1>2 DEF DmaWrite, pcmVars
<1>3. CASE PcmClock
  BY <1>3 DEF PcmClock, pcmVars
<1>4. CASE Shift
  BY <1>4 DEF Shift, pcmVars
<1>5. CASE Rewrite
  BY <1>5 DEF Rewrite, Look, Store, pcmVars, fifoVars
<1> QED  BY <1>1, <1>2, <1>3, <1>4, <1>5

LEMMA RegistersSetPreparing ==
  ASSUME TypeOK, SetUpInOrder, RegistersSet, Preparing
  PROVE  RegistersSet'
<1> USE DEF RegistersSet, Goto, pcmVars, fifoVars
<1>1. CASE Start
  BY <1>1 DEF Start
<1>2. CASE ResetDma
  BY <1>2 DEF ResetDma, Idle
<1>3. CASE LoadControlBlock
  BY <1>3 DEF LoadControlBlock, Idle
<1>4. CASE ConfigureClock
  BY <1>4 DEF ConfigureClock
<1>5. CASE EnableClock
  BY <1>5 DEF EnableClock
<1>6. CASE ResetPcm
  BY <1>6 DEF ResetPcm, PcmReset, ResetControl
<1>7. CASE ConfigurePcm
  BY <1>7 DEF ConfigurePcm, TypeOK
<1>8. CASE ConfigureDma
  BY <1>8 DEF ConfigureDma, TypeOK, SetUpInOrder
<1>9. CASE ConfigureChannels
  BY <1>9 DEF ConfigureChannels, TypeOK, SetUpInOrder
<1>10. CASE ClearFifos
  BY <1>10 DEF ClearFifos, TypeOK, SetUpInOrder
<1>11. CASE SyncZero
  BY <1>11 DEF SyncZero
<1>12. CASE SyncOne
  BY <1>12 DEF SyncOne
<1> QED  BY <1>1, <1>2, <1>3, <1>4, <1>5, <1>6, <1>7, <1>8, <1>9, <1>10, <1>11, <1>12 DEF Preparing

LEMMA RegistersSetEnabling ==
  ASSUME TypeOK, SetUpInOrder, RegistersSet, Enabling
  PROVE  RegistersSet'
<1> USE DEF RegistersSet, Goto, pcmVars, fifoVars
<1>1. CASE EnableDma
  BY <1>1 DEF EnableDma
<1>2. CASE EnablePcm
  BY <1>2 DEF EnablePcm, Transmit
<1>3. CASE Pause
  BY <1>3 DEF Pause, Transmit
<1>4. CASE Resume
  BY <1>4 DEF Resume, Transmit
<1> QED  BY <1>1, <1>2, <1>3, <1>4 DEF Enabling

LEMMA RegistersSetStopping ==
  ASSUME TypeOK, SetUpInOrder, RegistersSet, Stopping
  PROVE  RegistersSet'
<1> USE DEF RegistersSet, Goto, pcmVars, fifoVars
<1>1. CASE BeginShutdown
  BY <1>1 DEF BeginShutdown, Working
<1>2. CASE StopPcm
  BY <1>2 DEF StopPcm, PcmReset, ResetControl
<1>3. CASE StopClock
  BY <1>3 DEF StopClock
<1>4. CASE StopDma
  BY <1>4 DEF StopDma
<1>5. CASE Kill
  BY <1>5 DEF Kill
<1> QED  BY <1>1, <1>2, <1>3, <1>4, <1>5 DEF Stopping

LEMMA RegistersSetHardware ==
  ASSUME TypeOK, RegistersSet, DmaRead \/ DmaWrite \/ PcmClock \/ Shift \/ Rewrite
  PROVE  RegistersSet'
BY DEF RegistersSet, DmaRead, DmaWrite, PcmClock, Shift, Rewrite, Look, Store, pcmVars,
       fifoVars

LEMMA RoomForWordPreparing ==
  ASSUME TypeOK, SetUpInOrder, RoomForWord, Preparing
  PROVE  RoomForWord'
<1> USE DEF RoomForWord, Goto, pcmVars, fifoVars
<1>1. CASE Start
  BY <1>1 DEF Start
<1>2. CASE ResetDma
  BY <1>2 DEF ResetDma, Idle
<1>3. CASE LoadControlBlock
  BY <1>3 DEF LoadControlBlock, SetUpInOrder
<1>4. CASE ConfigureClock
  BY <1>4 DEF ConfigureClock
<1>5. CASE EnableClock
  BY <1>5 DEF EnableClock
<1>6. CASE ResetPcm
  BY <1>6 DEF ResetPcm, PcmReset, ResetControl, SetUpInOrder
<1>7. CASE ConfigurePcm
  BY <1>7 DEF ConfigurePcm
<1>8. CASE ConfigureDma
  BY <1>8 DEF ConfigureDma
<1>9. CASE ConfigureChannels
  BY <1>9 DEF ConfigureChannels
<1>10. CASE ClearFifos
  BY <1>10 DEF ClearFifos
<1>11. CASE SyncZero
  BY <1>11 DEF SyncZero
<1>12. CASE SyncOne
  BY <1>12 DEF SyncOne
<1> QED  BY <1>1, <1>2, <1>3, <1>4, <1>5, <1>6, <1>7, <1>8, <1>9, <1>10, <1>11, <1>12 DEF Preparing

LEMMA RoomForWordEnabling ==
  ASSUME TypeOK, SetUpInOrder, RoomForWord, Enabling
  PROVE  RoomForWord'
<1> USE DEF RoomForWord, Goto, pcmVars, fifoVars
<1>1. CASE EnableDma
  BY <1>1 DEF EnableDma
<1>2. CASE EnablePcm
  BY <1>2 DEF EnablePcm, Transmit
<1>3. CASE Pause
  BY <1>3 DEF Pause, Transmit
<1>4. CASE Resume
  BY <1>4 DEF Resume, Transmit
<1> QED  BY <1>1, <1>2, <1>3, <1>4 DEF Enabling

LEMMA RoomForWordStopping ==
  ASSUME TypeOK, SetUpInOrder, RoomForWord, Stopping
  PROVE  RoomForWord'
<1> USE DEF RoomForWord, Goto, pcmVars, fifoVars
<1>1. CASE BeginShutdown
  BY <1>1 DEF BeginShutdown, Working
<1>2. CASE StopPcm
  BY <1>2 DEF StopPcm, PcmReset, ResetControl
<1>3. CASE StopClock
  BY <1>3 DEF StopClock
<1>4. CASE StopDma
  BY <1>4 DEF StopDma
<1>5. CASE Kill
  BY <1>5 DEF Kill
<1> QED  BY <1>1, <1>2, <1>3, <1>4, <1>5 DEF Stopping

LEMMA RoomForWordHardware ==
  ASSUME TypeOK, RoomForWord, DmaRead \/ DmaWrite \/ PcmClock \/ Shift \/ Rewrite
  PROVE  RoomForWord'
<1> USE DEF RoomForWord
<1>1. CASE DmaRead
  <2>1. dma.run # 0 /\ Len(fifo) < FifoSize  BY <1>1, DmaReadEffect DEF TypeOK
  <2> QED  BY <1>1, <2>1 DEF DmaRead, pcmVars, fifoVars
<1>2. CASE DmaWrite
  BY <1>2, DmaWriteEffect DEF DmaWrite, pcmVars
<1>3. CASE PcmClock
  <2>1. Len(fifo') <= Len(fifo)  BY <1>3 DEF PcmClock, TypeOK
  <2>2. Len(fifo') \in Nat /\ Len(fifo) \in Nat  BY <1>3 DEF PcmClock, TypeOK
  <2> QED  BY <1>3, <2>1, <2>2 DEF PcmClock, pcmVars
<1>4. CASE Shift
  <2>1. Len(fifo') = Len(fifo) - 1 /\ Len(fifo) \in Nat
    BY <1>4, HeadTailProperties DEF Shift, TypeOK
  <2> QED  BY <1>4, <2>1 DEF Shift, pcmVars
<1>5. CASE Rewrite
  BY <1>5 DEF Rewrite, Look, Store, pcmVars, fifoVars
<1> QED  BY <1>1, <1>2, <1>3, <1>4, <1>5

-----------------------------------------------------------------------------
(* The chain of words from the wire back to the DMA. *)

\* A step that touches nothing on the way keeps the order.
LEMMA OrderKept ==
  ASSUME InOrder, UNCHANGED <<fifo, inflight, dma, ring, writing, clearing>>,
         Sending' => Sending /\ First' = First
  PROVE  InOrder'
BY DEF InOrder, Last, StillAsRead, Rewriting

\* Nor does one that ends with nothing being sent.
LEMMA OrderNotSending ==
  ASSUME ~Sending'
  PROVE  InOrder'
BY DEF InOrder

LEMMA InOrderPreparing ==
  ASSUME TypeOK, SetUpInOrder, InOrder, Preparing
  PROVE  InOrder'
<1> USE DEF Goto, pcmVars, fifoVars
<1>1. CASE Start
  <2>1. Sending' => Sending /\ First' = First  BY <1>1 DEF Start, Sending, First
  <2> QED  BY <1>1, <2>1, OrderKept DEF Start
<1>2. CASE ResetDma
  <2>1. Sending' => Sending /\ First' = First  BY <1>2 DEF ResetDma, Sending, First
  <2>2. ~dma'.active /\ inflight' = Nothing  BY <1>2 DEF ResetDma, Idle
  <2> QED  BY <1>2, <2>1, <2>2 DEF ResetDma, InOrder
<1>3. CASE LoadControlBlock
  <2>1. Sending' => Sending /\ First' = First  BY <1>3 DEF LoadControlBlock, Sending, First
  <2>2. ~dma'.active /\ inflight' = Nothing
    BY <1>3 DEF LoadControlBlock, SetUpInOrder, Idle
  <2> QED  BY <1>3, <2>1, <2>2 DEF LoadControlBlock, InOrder
<1>4. CASE ConfigureClock
  <2>1. Sending' => Sending /\ First' = First  BY <1>4 DEF ConfigureClock, Sending, First
  <2> QED  BY <1>4, <2>1, OrderKept DEF ConfigureClock
<1>5. CASE EnableClock
  <2>1. Sending' => Sending /\ First' = First  BY <1>5 DEF EnableClock, Sending, First
  <2> QED  BY <1>5, <2>1, OrderKept DEF EnableClock
<1>6. CASE ResetPcm
  <2>1. ~Sending'  BY <1>6 DEF ResetPcm, PcmReset, ResetControl, Sending
  <2> QED  BY <2>1, OrderNotSending
<1>7. CASE ConfigurePcm
  <2>1. ~Sending'  BY <1>7 DEF ConfigurePcm, Sending, TypeOK
  <2> QED  BY <2>1, OrderNotSending
<1>8. CASE ConfigureDma
  <2>1. ~Sending'  BY <1>8 DEF ConfigureDma, Sending, TypeOK, SetUpInOrder
  <2> QED  BY <2>1, OrderNotSending
<1>9. CASE ConfigureChannels
  <2>1. ~Sending'  BY <1>9 DEF ConfigureChannels, Sending, TypeOK, SetUpInOrder
  <2> QED  BY <2>1, OrderNotSending
<1>10. CASE ClearFifos
  <2>1. ~Sending'  BY <1>10 DEF ClearFifos, Sending, TypeOK, SetUpInOrder
  <2> QED  BY <2>1, OrderNotSending
<1>11. CASE SyncZero
  <2>1. ~Sending'  BY <1>11 DEF SyncZero, Sending, TypeOK, SetUpInOrder
  <2> QED  BY <2>1, OrderNotSending
<1>12. CASE SyncOne
  <2>1. ~dma'.active /\ inflight' = Nothing /\ ~clearing' /\ fifo' = <<>>
    BY <1>12 DEF SyncOne, SetUpInOrder
  <2>2. Len(fifo') = 0  BY <2>1
  <2> QED  BY <2>1, <2>2 DEF InOrder
<1> QED  BY <1>1, <1>2, <1>3, <1>4, <1>5, <1>6, <1>7, <1>8, <1>9, <1>10, <1>11, <1>12
         DEF Preparing

\* After silence comes the first word of the ring.
LEMMA AfterSilence == After(Silence(starts)) = <<0, 0>> /\ Silence(starts).run = starts
BY DEF After, Silence, Buffers

LEMMA InOrderEnabling ==
  ASSUME TypeOK, SetUpInOrder, InOrder, Enabling
  PROVE  InOrder'
<1> USE DEF Goto, pcmVars, fifoVars
<1>1. CASE EnableDma
  <2>1. Sending /\ First' = First /\ First = Silence(starts)
    BY <1>1 DEF EnableDma, Sending, First, Silence
  <2>2. fifo = <<>> /\ inflight = Nothing /\ dma = [Idle EXCEPT !.run = starts]
    BY <1>1 DEF EnableDma, SetUpInOrder
  <2>3. dma'.run = starts /\ dma'.block = 0 /\ dma'.done = 0
    BY <1>1, <2>2 DEF EnableDma, Idle
  <2>4. fifo' = <<>> /\ inflight' = Nothing /\ Len(fifo') = 0 /\ clearing' = clearing
    BY <1>1, <2>2 DEF EnableDma
  <2>5. Last' = Silence(starts)  BY <2>1, <2>4 DEF Last
  <2> QED  BY <2>1, <2>3, <2>4, <2>5, AfterSilence DEF InOrder
<1>2. CASE EnablePcm
  <2>1. Sending /\ First' = First
    BY <1>2 DEF EnablePcm, Sending, First, Silence
  <2> QED  BY <1>2, <2>1, OrderKept DEF EnablePcm
<1>3. CASE Pause
  <2>1. Sending /\ First' = First  BY <1>3 DEF Pause, Sending, First
  <2> QED  BY <1>3, <2>1, OrderKept DEF Pause
<1>4. CASE Resume
  <2>1. Sending /\ First' = First  BY <1>4 DEF Resume, Sending, First
  <2> QED  BY <1>4, <2>1, OrderKept DEF Resume
<1> QED  BY <1>1, <1>2, <1>3, <1>4 DEF Enabling

LEMMA InOrderStopping ==
  ASSUME TypeOK, SetUpInOrder, InOrder, Stopping
  PROVE  InOrder'
<1> USE DEF Goto, pcmVars, fifoVars
<1>1. CASE BeginShutdown
  <2>1. Sending' => Sending /\ First' = First
    BY <1>1 DEF BeginShutdown, Sending, First, SetUpInOrder
  <2> QED  BY <1>1, <2>1, OrderKept DEF BeginShutdown
<1>2. CASE StopPcm
  <2>1. ~Sending'  BY <1>2 DEF StopPcm, PcmReset, ResetControl, Sending
  <2> QED  BY <2>1, OrderNotSending
<1>3. CASE StopClock
  <2>1. ~Sending'  BY <1>3 DEF StopClock, Sending, SetUpInOrder
  <2> QED  BY <2>1, OrderNotSending
<1>4. CASE StopDma
  <2>1. ~Sending'  BY <1>4 DEF StopDma, Sending, SetUpInOrder
  <2> QED  BY <2>1, OrderNotSending
<1>5. CASE Kill
  <2>1. Sending' => Sending /\ First' = First
    BY <1>5 DEF Kill, Sending, First, SetUpInOrder
  <2> QED  BY <1>5, <2>1, OrderKept DEF Kill
<1> QED  BY <1>1, <1>2, <1>3, <1>4, <1>5 DEF Stopping

\* A word that is not a buffer's first comes after one of the same buffer.
LEMMA AfterInside ==
  ASSUME NEW word, NEW b, NEW i, <<b, i>> = After(word), i # 0
  PROVE  word.buffer = b
BY DEF After

\* The program begins no buffer the DMA is in, and the one it is storing words into
\* tells of its being rewritten.
LEMMA RewriteKeepsRead ==
  ASSUME TypeOK, Rewrite, NEW w, w.buffer = dma.block, StillAsRead(w)
  PROVE  StillAsRead(w)'
<1> SUFFICES ASSUME ~w.late PROVE ~Rewriting(w.buffer)' /\ ring'[w.buffer] = w.content
  BY DEF StillAsRead
<1>1. ~Rewriting(w.buffer) /\ ring[w.buffer] = w.content  BY DEF StillAsRead
<1>2. CASE Look
  <2>1. PICK b \in Buffers \ {dma.block} : writing' = [buffer |-> b, stored |-> 0]
    BY <1>2 DEF Look
  <2>2. writing'.buffer # w.buffer  BY <2>1
  <2> QED  BY <1>1, <1>2, <2>2 DEF Look, Rewriting
<1>3. CASE Store
  <2>1. writing # Nothing /\ writing.buffer # w.buffer  BY <1>1, <1>3 DEF Store, Rewriting
  <2>2. CASE writing.stored + 1 < BufferWords
    <3>1. writing' = [writing EXCEPT !.stored = writing.stored + 1] /\ ring' = ring
      BY <1>3, <2>2 DEF Store
    <3>2. writing'.buffer = writing.buffer  BY <2>1, <3>1 DEF TypeOK
    <3> QED  BY <1>1, <2>1, <3>1, <3>2 DEF Rewriting
  <2>3. CASE ~(writing.stored + 1 < BufferWords)
    <3>1. writing' = Nothing /\ ring' = [ring EXCEPT ![writing.buffer] = 1 - @]
      BY <1>3, <2>3 DEF Store
    <3>2. ring'[w.buffer] = ring[w.buffer]  BY <2>1, <3>1 DEF TypeOK
    <3> QED  BY <1>1, <3>1, <3>2 DEF Rewriting
  <2> QED  BY <2>2, <2>3
<1> QED  BY <1>2, <1>3 DEF Rewrite

LEMMA InOrderRewrite ==
  ASSUME TypeOK, InOrder, Rewrite
  PROVE  InOrder'
<1> SUFFICES ASSUME Sending' PROVE InOrder'
  BY OrderNotSending
<1>1. /\ Sending /\ First' = First /\ Last' = Last
      /\ UNCHANGED <<fifo, inflight, dma, clearing>>
  BY DEF Rewrite, Look, Store, Sending, First, Last, pcmVars, fifoVars
<1>2. ASSUME dma.active, inflight = Nothing, dma.done # 0
      PROVE  StillAsRead(Last)'
  <2>1. PICK w : w = Last  OBVIOUS
  <2>2. <<dma.block, dma.done>> = After(w) /\ StillAsRead(w)
    BY <1>1, <1>2, <2>1 DEF InOrder
  <2>3. w.buffer = dma.block  BY <1>2, <2>2, AfterInside
  <2>4. StillAsRead(w)'  BY <2>2, <2>3, RewriteKeepsRead
  <2> QED  BY <1>1, <2>1, <2>4 DEF StillAsRead, Rewriting
<1>3. ASSUME inflight # Nothing
      PROVE  StillAsRead(inflight)'
  <2>1. PICK w : w = inflight  OBVIOUS
  <2>2. w.buffer = dma.block /\ StillAsRead(w)  BY <1>1, <1>3, <2>1 DEF InOrder
  <2>3. StillAsRead(w)'  BY <2>2, RewriteKeepsRead
  <2> QED  BY <1>1, <2>1, <2>3 DEF StillAsRead, Rewriting
<1> QED  BY <1>1, <1>2, <1>3 DEF InOrder

\* The word read is the next one, of the content the one before it had if neither was
\* read late.
LEMMA InOrderDmaRead ==
  ASSUME TypeOK, InOrder, DmaRead
  PROVE  InOrder'
<1> SUFFICES ASSUME Sending' PROVE InOrder'
  BY OrderNotSending
<1>1. /\ UNCHANGED <<fifo, dma, ring, writing, clearing>> /\ inflight = Nothing
      /\ Sending /\ Last' = Last /\ First' = First
  BY DEF DmaRead, Sending, Last, First, pcmVars, fifoVars
<1>2. dma.active /\ inflight' = Word(dma.run, dma.block, dma.done) /\ inflight' \in Words
  BY DmaReadEffect
<1>3. inflight' # Nothing
  BY <1>2, <1>1 DEF Words, Nothing, DmaRead
<1>4. PICK w : w = inflight'  OBVIOUS
<1>5. /\ w.run = dma.run /\ w.buffer = dma.block /\ w.index = dma.done
      /\ w.content = Content(dma.block, dma.done) /\ w.late = Rewriting(dma.block)
  BY <1>2, <1>4 DEF Word
<1>6. ~w.late => ~Rewriting(w.buffer) /\ ring[w.buffer] = w.content
  BY <1>5 DEF Content
<1>7. StillAsRead(inflight)'
  BY <1>1, <1>4, <1>6 DEF StillAsRead, Rewriting
<1>8. PICK u : u = Last  OBVIOUS
<1>9. Follows(u, w)
  <2>1. /\ dma.run = u.run /\ <<dma.block, dma.done>> = After(u)
        /\ dma.done # 0 => StillAsRead(u)
    BY <1>1, <1>2, <1>8 DEF InOrder
  <2>2. ASSUME w.index # 0, ~u.late, ~w.late PROVE w.content = u.content
    <3>1. u.buffer = dma.block /\ StillAsRead(u)  BY <1>5, <2>1, <2>2, AfterInside
    <3> QED  BY <1>5, <1>6, <2>2, <3>1 DEF StillAsRead
  <2> QED  BY <1>5, <2>1, <2>2 DEF Follows
<1> QED  BY <1>1, <1>3, <1>4, <1>5, <1>7, <1>8, <1>9 DEF InOrder

\* The word in flight is the next one of the chain, and joins it in the FIFO.
LEMMA InOrderDmaWrite ==
  ASSUME TypeOK, RoomForWord, InOrder, DmaWrite
  PROVE  InOrder'
<1> SUFFICES ASSUME Sending' PROVE InOrder'
  BY OrderNotSending
<1>1. /\ Sending /\ First' = First /\ clearing' = clearing /\ ring' = ring
      /\ writing' = writing /\ inflight' = Nothing /\ inflight # Nothing
  BY DEF DmaWrite, Sending, First, pcmVars
<1>2. fifo' = Append(fifo, inflight) /\ inflight \in Words /\ fifo \in Seq(Words)
  BY <1>1, DmaWriteEffect DEF RoomForWord, TypeOK
<1>3. /\ Len(fifo') = Len(fifo) + 1 /\ Len(fifo) \in Nat
      /\ \A i \in 1 .. Len(fifo) : fifo'[i] = fifo[i]
      /\ fifo'[Len(fifo) + 1] = inflight
  BY <1>2, AppendProperties
<1>4. /\ inflight.run = dma.run /\ inflight.buffer = dma.block /\ inflight.index = dma.done
      /\ StillAsRead(inflight)
  BY <1>1 DEF InOrder
<1>5. Follows(Last, inflight)
  BY <1>1 DEF InOrder
<1>6. Last' = inflight
  BY <1>3 DEF Last
<1>7. fifo' # <<>> => Follows(First', fifo'[1])
  <2>1. CASE fifo = <<>>
    <3>1. fifo'[1] = inflight /\ Last = First  BY <2>1, <1>3 DEF Last
    <3> QED  BY <3>1, <1>1, <1>5
  <2>2. CASE fifo # <<>>
    <3>1. Len(fifo) >= 1  BY <2>2, <1>2, EmptySeq
    <3>2. fifo'[1] = fifo[1]  BY <3>1, <1>3
    <3> QED  BY <2>2, <3>2, <1>1 DEF InOrder
  <2> QED  BY <2>1, <2>2
<1>8. ASSUME NEW i \in 1 .. Len(fifo') - 1 PROVE Follows(fifo'[i], fifo'[i + 1])
  <2>1. i \in 1 .. Len(fifo) /\ fifo'[i] = fifo[i]  BY <1>3
  <2>2. CASE i = Len(fifo)
    <3>1. fifo # <<>>  BY <2>1, <2>2
    <3>2. Last = fifo[i]  BY <3>1, <2>2 DEF Last
    <3> QED  BY <3>2, <2>1, <2>2, <1>3, <1>5
  <2>3. CASE i # Len(fifo)
    <3>1. i \in 1 .. Len(fifo) - 1 /\ i + 1 \in 1 .. Len(fifo)  BY <2>1, <2>3, <1>3
    <3>2. fifo'[i + 1] = fifo[i + 1]  BY <3>1, <1>3
    <3> QED  BY <3>1, <3>2, <2>1, <1>1 DEF InOrder
  <2> QED  BY <2>2, <2>3
<1>9. /\ dma'.run = Last'.run
      /\ <<dma'.block, dma'.done>> = After(Last')
      /\ StillAsRead(Last)'
  <2>1. dma.block \in Buffers /\ dma.done \in 0 .. BufferWords - 1  BY DEF TypeOK
  <2>4. StillAsRead(Last)'  BY <1>1, <1>4, <1>6 DEF StillAsRead, Rewriting
  <2>2. CASE dma.done + 1 < BufferWords
    <3>1. dma' = [dma EXCEPT !.done = dma.done + 1]  BY <2>2, DmaWriteEffect
    <3>2. dma'.run = dma.run /\ dma'.block = dma.block /\ dma'.done = dma.done + 1
      BY <3>1 DEF TypeOK
    <3>3. After(inflight) = <<dma.block, dma.done + 1>>  BY <2>1, <2>2, <1>4 DEF After
    <3> QED  BY <3>2, <3>3, <1>4, <1>6, <2>4
  <2>3. CASE ~(dma.done + 1 < BufferWords)
    <3> DEFINE next == (dma.block + 1) % BufferCount
    <3>1. dma' = [dma EXCEPT !.block = next, !.done = 0]  BY <2>3, DmaWriteEffect
    <3>2. After(inflight) = <<next, 0>>  BY <2>1, <2>3, <1>4 DEF After
    <3> HIDE DEF next
    <3>3. dma'.run = dma.run /\ dma'.block = next /\ dma'.done = 0
      BY <3>1 DEF TypeOK
    <3> QED  BY <3>2, <3>3, <1>4, <1>6, <2>4
  <2> QED  BY <2>2, <2>3, <2>4
<1> QED  BY <1>1, <1>7, <1>8, <1>9 DEF InOrder

\* With the transmitter on, no clear is under way.
LEMMA InOrderPcmClock ==
  ASSUME TypeOK, InOrder, PcmClock
  PROVE  InOrder'
<1>1. Sending' = Sending /\ First' = First
  BY DEF PcmClock, Sending, First, pcmVars
<1>2. CASE Sending
  <2>1. ~clearing  BY <1>2 DEF InOrder
  <2>2. UNCHANGED <<fifo, inflight, dma, ring, writing, clearing>>
    BY <2>1 DEF PcmClock, TypeOK
  <2> QED  BY <1>1, <2>2, OrderKept
<1>3. CASE ~Sending
  BY <1>1, <1>3, OrderNotSending
<1> QED  BY <1>2, <1>3

\* The last word heard is the FIFO's first.
LEMMA ShiftEffect ==
  ASSUME TypeOK, SetUpInOrder, InOrder, Shift
  PROVE  /\ Sending /\ First = heard /\ First' = heard'
         /\ Len(fifo) \in Nat /\ Len(fifo) >= 1
         /\ heard' = fifo[1] /\ Follows(heard, heard')
         /\ Len(fifo') = Len(fifo) - 1
         /\ \A i \in 1 .. Len(fifo') : fifo'[i] = fifo[i + 1]
<1>1. cs.TXON = 1 /\ fifo # <<>> /\ fifo \in Seq(Words)  BY DEF Shift, TypeOK
<1>2. Sending /\ First = heard /\ First' = heard'
  BY <1>1 DEF Sending, First, Shift, SetUpInOrder
<1>3. /\ Len(fifo) \in Nat /\ Len(fifo) >= 1 /\ heard' = fifo[1]
      /\ Len(fifo') = Len(fifo) - 1 /\ \A i \in 1 .. Len(fifo') : fifo'[i] = fifo[i + 1]
  BY <1>1, HeadTailProperties, EmptySeq DEF Shift
<1> QED  BY <1>1, <1>2, <1>3 DEF InOrder

LEMMA InOrderShift ==
  ASSUME TypeOK, SetUpInOrder, InOrder, Shift
  PROVE  InOrder'
<1> DEFINE n == Len(fifo)
<1>1. /\ Sending /\ First' = fifo[1] /\ n \in Nat /\ n >= 1
      /\ Len(fifo') = n - 1
      /\ \A i \in 1 .. n - 1 : fifo'[i] = fifo[i + 1]
  BY ShiftEffect
<1>2. UNCHANGED <<inflight, dma, ring, writing, clearing>> /\ fifo # <<>>
  BY DEF Shift
<1>3. \A i \in 1 .. n - 1 : Follows(fifo[i], fifo[i + 1])  BY <1>1 DEF InOrder
<1>4. Last' = Last
  <2>1. CASE n = 1
    <3>1. fifo' = <<>>
      <4>1. fifo' \in Seq(Words)  BY <1>2, HeadTailProperties DEF Shift, TypeOK
      <4> QED  BY <4>1, <1>1, <2>1, EmptySeq
    <3> QED  BY <3>1, <2>1, <1>1, <1>2 DEF Last
  <2>2. CASE n # 1
    <3>1. Len(fifo') # 0 /\ fifo'[n - 1] = fifo[n]  BY <2>2, <1>1
    <3>2. fifo' # <<>>  BY <3>1
    <3> QED  BY <3>1, <3>2, <1>1, <1>2 DEF Last
  <2> QED  BY <2>1, <2>2
<1>5. fifo' # <<>> => Follows(First', fifo'[1])
  <2> SUFFICES ASSUME fifo' # <<>> PROVE Follows(First', fifo'[1])
    OBVIOUS
  <2>1. fifo' \in Seq(Words)  BY <1>2, HeadTailProperties DEF Shift, TypeOK
  <2>2. n - 1 >= 1  BY <2>1, <1>1, EmptySeq
  <2> QED  BY <2>2, <1>1, <1>3
<1>6. ASSUME NEW i \in 1 .. Len(fifo') - 1 PROVE Follows(fifo'[i], fifo'[i + 1])
  <2>1. /\ i \in 1 .. n - 1 /\ i + 1 \in 1 .. n - 1
        /\ fifo'[i] = fifo[i + 1] /\ fifo'[i + 1] = fifo[(i + 1) + 1]
    BY <1>1
  <2> QED  BY <2>1, <1>3
<1> HIDE DEF n
<1> QED  BY <1>1, <1>2, <1>4, <1>5, <1>6 DEF InOrder, StillAsRead, Rewriting

-----------------------------------------------------------------------------
\* Every step preserves the inductive invariant.
LEMMA InvariantStep ==
  ASSUME TransmitterInv, [Next]_vars
  PROVE  TransmitterInv'
<1> USE DEF TransmitterInv
<1>1. CASE Preparing
  BY <1>1, TypePreparing, SetUpInOrderPreparing, RoomForWordPreparing, RegistersSetPreparing,
     InOrderPreparing
<1>2. CASE Enabling
  BY <1>2, TypeEnabling, SetUpInOrderEnabling, RoomForWordEnabling, RegistersSetEnabling,
     InOrderEnabling
<1>3. CASE Stopping
  BY <1>3, TypeStopping, SetUpInOrderStopping, RoomForWordStopping, RegistersSetStopping,
     InOrderStopping
<1>4. CASE Rewrite
  BY <1>4, TypeRewrite, SetUpInOrderHardware, RoomForWordHardware, RegistersSetHardware,
     InOrderRewrite
<1>5. CASE DmaRead \/ DmaWrite \/ PcmClock \/ Shift
  <2>1. InOrder'
    BY <1>5, InOrderDmaRead, InOrderDmaWrite, InOrderPcmClock, InOrderShift
  <2> QED
    BY <1>5, <2>1, TypeHardware, SetUpInOrderHardware, RoomForWordHardware, RegistersSetHardware
<1>6. CASE UNCHANGED vars
  <2> USE <1>6 DEF vars, pcmVars, fifoVars
  <2>1. TypeOK'  BY DEF TypeOK
  <2>2. SetUpInOrder'  BY DEF SetUpInOrder
  <2>3. RoomForWord'  BY DEF RoomForWord
  <2>4. RegistersSet'  BY DEF RegistersSet
  <2>5. Sending' => Sending /\ First' = First  BY DEF Sending, First
  <2>6. InOrder'  BY <2>5, OrderKept
  <2> QED  BY <2>1, <2>2, <2>3, <2>4, <2>6
<1> QED  BY <1>1, <1>2, <1>3, <1>4, <1>5, <1>6, NextSplit

LEMMA AlwaysInvariant == Spec => []TransmitterInv
<1>1. Init => TransmitterInv  BY TypeInit DEF TransmitterInv
<1>2. TransmitterInv /\ [Next]_vars => TransmitterInv'  BY InvariantStep
<1> QED  BY <1>1, <1>2, PTL DEF Spec

\* Type correctness; with it, that the FIFO never holds more than it has room for.
THEOREM TransmitterTypeCorrect == Spec => []TypeOK
BY AlwaysInvariant, PTL DEF TransmitterInv

(***************************************************************************)
(* Whenever the transmitter is on, the registers that four driver calls put    *)
(* together describe one unpacked channel of 32 bits in a frame of 32.         *)
(***************************************************************************)
THEOREM WordsAlwaysJoin == Spec => []WordsJoin
<1>1. TransmitterInv => WordsJoin
  <2> SUFFICES ASSUME RegistersSet, cs.TXON = 1 PROVE WordsJoin
    BY DEF TransmitterInv, WordsJoin
  <2>1. mode = ConfiguredMode(32, 0) /\ txc = ChannelOne(32, 0)  BY DEF RegistersSet
  <2>2. mode.FLEN = 31 /\ txc.CH1WID = 8 /\ txc.CH1WEX = 1  BY <2>1, RegisterValues
  <2>3. mode.FTXP = 0 /\ mode.CLKM = 0 /\ mode.FSM = 0  BY <2>1 DEF ConfiguredMode
  <2>4. txc.CH1EN = 1 /\ txc.CH1POS = 0 /\ txc.CH2EN = 0  BY <2>1 DEF ChannelOne
  <2> QED  BY <2>2, <2>3, <2>4 DEF WordsJoin
<1> QED  BY <1>1, AlwaysInvariant, PTL

\* Only the wire and bcm283x_pcm_enable() determine the last word heard.
LEMMA HeardChanges ==
  ASSUME TransmitterInv, Next, heard' # heard
  PROVE  Follows(heard, heard') \/ heard'.buffer \notin Buffers
<1> USE DEF TransmitterInv
<1>1. CASE Shift
  BY <1>1, ShiftEffect
<1>2. CASE EnablePcm
  BY <1>2 DEF EnablePcm, Silence, Buffers
<1>3. CASE Preparing
  BY <1>3 DEF Preparing, Start, ResetDma, LoadControlBlock, ConfigureClock, EnableClock,
     ResetPcm, ConfigurePcm, ConfigureDma, ConfigureChannels, ClearFifos, SyncZero, SyncOne
<1>4. CASE EnableDma \/ Pause \/ Resume \/ Rewrite
  BY <1>4 DEF EnableDma, Pause, Resume, Rewrite, Look, Store
<1>5. CASE Stopping
  BY <1>5 DEF Stopping, BeginShutdown, StopPcm, StopClock, StopDma, Kill
<1>6. CASE DmaRead \/ DmaWrite \/ PcmClock
  BY <1>6 DEF DmaRead, DmaWrite, PcmClock
<1> QED  BY <1>1, <1>2, <1>3, <1>4, <1>5, <1>6, NextSplit DEF Enabling

(***************************************************************************)
(* On the wire the words of the ring follow each other in order, and after     *)
(* bcm283x_pcm_enable() the first is the first of this process's ring,         *)
(* whatever state an earlier process was killed in and left the DMA channel,   *)
(* the FIFO and the synchronisation of the PCM in.                            *)
(***************************************************************************)
THEOREM WordsAreInOrder == Spec => WordsInOrder
<1>1. TransmitterInv /\ [Next]_vars =>
        [heard' # heard /\ heard'.buffer \in Buffers =>
           heard'.run = heard.run /\ <<heard'.buffer, heard'.index>> = After(heard)]_heard
  BY HeardChanges DEF Follows, vars
<1> QED  BY <1>1, AlwaysInvariant, PTL DEF Spec, WordsInOrder

(***************************************************************************)
(* The program looks at CONBLK_AD and then stores word after word while the DMA *)
(* goes on.  Two words of one pass over a buffer are of different contents only *)
(* if the DMA was in it between that look and the last store: however many      *)
(* words the FIFO holds back, and whenever the process is killed.              *)
(***************************************************************************)
THEOREM PassesStayWhole == Spec => PassesAreWhole
<1>1. TransmitterInv /\ [Next]_vars =>
        [/\ heard' # heard /\ heard'.buffer \in Buffers /\ heard'.index # 0
         /\ ~heard.late /\ ~heard'.late
         => heard'.content = heard.content]_heard
  BY HeardChanges DEF Follows, vars
<1> QED  BY <1>1, AlwaysInvariant, PTL DEF Spec, PassesAreWhole
=============================================================================

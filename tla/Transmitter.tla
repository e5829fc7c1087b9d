---------------------------- MODULE Transmitter ----------------------------
(***************************************************************************)
(* From the ring of code buffers to the data pin, word by word: the registers *)
(* of DMA channel and PCM peripheral, the calls of their drivers that          *)
(* raspdif_init(), main() and raspdif_shutdown() make in this order, and the    *)
(* hardware between them, which runs at its own pace.  RaspdifStream has one    *)
(* action, Transmit, for what happens here; here the DMA runs ahead of the     *)
(* wire by what fits into the PCM's FIFO.                                    *)
(*                                                                         *)
(* A killed process leaves the hardware as it was, and the next one finds it  *)
(* so.  A word is known by the process that stored it, its place in the ring,  *)
(* which of the buffer's successive contents it belongs to, and whether the    *)
(* DMA read it while that buffer was being rewritten.                         *)
(***************************************************************************)
EXTENDS Integers, Sequences

CONSTANTS
  BufferCount,  \* RASPDIF_BUFFER_COUNT
  BufferWords,  \* words in a buffer: four to each of RASPDIF_BUFFER_SIZE frames
  FifoSize,     \* words in the PCM's transmit FIFO, 64
  Threshold,    \* dma_config.tx_threshold, 32
  MaxStarts     \* bound: how often the program is started

ASSUME TransmitterAssumption ==
  /\ BufferCount \in Nat /\ BufferCount > 1
  /\ BufferWords \in Nat \ {0}
  /\ FifoSize \in Nat \ {0}
  /\ Threshold \in 1 .. FifoSize
  /\ MaxStarts \in Nat

VARIABLES
  pc,       \* the call the process makes next, or "off"
  starts,   \* processes so far
  ring,     \* the last process's ring: which content each buffer has
  writing,  \* the buffer the program is storing words into, or <<>>
  dma,      \* DMA channel: CS.ACTIVE, whose block CONBLK_AD is, words done of it
  inflight, \* the word the DMA has read and not yet written, or <<>>
  clockOn,  \* ENAB of the PCM clock
  cs,       \* CS_A of the PCM
  mode,     \* MODE_A
  txc,      \* TXC_A
  dreq,     \* DREQ_A.TX
  clearing, \* TXCLR was written and has not taken effect yet
  echo,     \* what CS_A.SYNC reads as
  fifo,     \* the transmit FIFO
  heard     \* history: the last word on the wire since a process last enabled it

pcmVars == <<cs, mode, txc, dreq>>
fifoVars == <<clearing, echo, fifo>>
vars == <<pc, starts, ring, writing, dma, inflight, clockOn, pcmVars, fifoVars, heard>>

Buffers == 0 .. BufferCount - 1
Nothing == <<>>

\* Between the look at CONBLK_AD and the last store.
Rewriting(buffer) == writing # Nothing /\ writing.buffer = buffer

\* A buffer being rewritten has the new content up to where the program is.
Content(buffer, index) ==
  IF Rewriting(buffer) /\ index < writing.stored THEN 1 - ring[buffer] ELSE ring[buffer]

Word(run, buffer, index) ==
  [run |-> run, buffer |-> buffer, index |-> index,
   content |-> Content(buffer, index), late |-> Rewriting(buffer)]

\* Before the first word on the wire of a process.
Silence(run) ==
  [run |-> run, buffer |-> BufferCount, index |-> 0, content |-> 0, late |-> FALSE]

Goto(step) == pc' = step /\ UNCHANGED starts

-----------------------------------------------------------------------------
(* raspdif_generate_dma_control_blocks() *)

\* Mistake: the last block has no successor.
ControlBlockNoLoop(i) ==
  [DEST_DREQ |-> 1, SRC_INC |-> 1, source |-> i, XLENGTH |-> BufferWords,
   next |-> IF i + 1 \in Buffers THEN i + 1 ELSE -1]

ControlBlock(i) ==
  [DEST_DREQ |-> 1, SRC_INC |-> 1, source |-> i, XLENGTH |-> BufferWords,
   next |-> (i + 1) % BufferCount]

-----------------------------------------------------------------------------
(* The hardware. *)

Requested == cs.EN = 1 /\ cs.DMAEN = 1 /\ Len(fifo) < dreq

DmaRead ==
  /\ dma.active
  /\ inflight = Nothing
  /\ ControlBlock(dma.block).DEST_DREQ = 1 => Requested
  /\ LET block == ControlBlock(dma.block)
     IN inflight' = Word(dma.run, block.source, dma.done * block.SRC_INC)
  /\ UNCHANGED <<pc, starts, ring, writing, dma, clockOn, pcmVars, fifoVars, heard>>

\* A word more than the FIFO holds is lost.  After a block's last word, acknowledged
\* as WAIT_RESP demands, CONBLK_AD moves on.
DmaWrite ==
  /\ inflight # Nothing
  /\ inflight' = Nothing
  /\ fifo' = IF Len(fifo) < FifoSize THEN Append(fifo, inflight) ELSE fifo
  /\ LET block == ControlBlock(dma.block)
     IN dma' = IF dma.done + 1 < block.XLENGTH THEN [dma EXCEPT !.done = @ + 1]
               ELSE IF block.next \in Buffers THEN [dma EXCEPT !.block = block.next, !.done = 0]
               ELSE [dma EXCEPT !.active = FALSE]
  /\ UNCHANGED <<pc, starts, ring, writing, clockOn, pcmVars, clearing, echo, heard>>

ClockRuns == clockOn /\ cs.EN = 1 /\ mode.CLK_DIS = 0

\* Two PCM clocks: a clear of the FIFO takes effect, SYNC is echoed.
PcmClock ==
  /\ ClockRuns
  /\ clearing \/ echo # cs.SYNC
  /\ fifo' = IF clearing THEN <<>> ELSE fifo
  /\ clearing' = FALSE
  /\ echo' = cs.SYNC
  /\ UNCHANGED <<pc, starts, ring, writing, dma, inflight, clockOn, pcmVars, heard>>

Shift ==
  /\ ClockRuns
  /\ cs.TXON = 1
  /\ fifo # <<>>
  /\ heard' = Head(fifo)
  /\ fifo' = Tail(fifo)
  /\ UNCHANGED <<pc, starts, ring, writing, dma, inflight, clockOn, pcmVars, clearing, echo>>

-----------------------------------------------------------------------------
(* raspdif_init() *)

NewRing == [b \in Buffers |-> 0]

Idle == [active |-> FALSE, run |-> 0, block |-> 0, done |-> 0]

ResetControl == [EN |-> 0, TXON |-> 0, DMAEN |-> 0, SYNC |-> 0]
ResetMode == [FLEN |-> 0, FSLEN |-> 0, FSM |-> 0, CLKM |-> 0, FTXP |-> 0, FRXP |-> 0,
              CLK_DIS |-> 0]
ResetChannels == [CH1EN |-> 0, CH1WID |-> 0, CH1WEX |-> 0, CH1POS |-> 0, CH2EN |-> 0]

Init ==
  /\ pc = "off"
  /\ starts = 0
  /\ ring = NewRing
  /\ writing = Nothing
  /\ dma = Idle
  /\ inflight = Nothing
  /\ clockOn = FALSE
  /\ cs = ResetControl
  /\ mode = ResetMode
  /\ txc = ResetChannels
  /\ dreq = 48
  /\ clearing = FALSE
  /\ echo \in {0, 1}
  /\ fifo = <<>>
  /\ heard = Silence(0)

Start ==
  /\ pc = "off"
  /\ starts < MaxStarts
  /\ starts' = starts + 1
  /\ pc' = "reset_dma"
  /\ UNCHANGED <<ring, writing, dma, inflight, clockOn, pcmVars, fifoVars, heard>>

\* Mistake: the channel is not reset.
SkipResetDma ==
  /\ pc = "reset_dma"
  /\ Goto("load")
  /\ UNCHANGED <<ring, writing, dma, inflight, clockOn, pcmVars, fifoVars, heard>>

\* bcm283x_dma_reset(): from here on the ring is that of this process.
ResetDma ==
  /\ pc = "reset_dma"
  /\ dma' = Idle
  /\ inflight' = Nothing
  /\ ring' = NewRing
  /\ writing' = Nothing
  /\ Goto("load")
  /\ UNCHANGED <<clockOn, pcmVars, fifoVars, heard>>

\* bcm283x_dma_set_control_block(); a channel at work does not look at it.
LoadControlBlock ==
  /\ pc = "load"
  /\ dma' = IF dma.active THEN dma ELSE [Idle EXCEPT !.run = starts]
  /\ Goto("set_clock")
  /\ UNCHANGED <<ring, writing, inflight, clockOn, pcmVars, fifoVars, heard>>

ConfigureClock ==
  /\ pc = "set_clock"
  /\ clockOn' = FALSE
  /\ Goto("start_clock")
  /\ UNCHANGED <<ring, writing, dma, inflight, pcmVars, fifoVars, heard>>

\* Mistake: without its password the write is ignored.
EnableClockUnheeded ==
  /\ pc = "start_clock"
  /\ Goto("reset_pcm")
  /\ UNCHANGED <<ring, writing, dma, inflight, clockOn, pcmVars, fifoVars, heard>>

EnableClock ==
  /\ pc = "start_clock"
  /\ clockOn' = TRUE
  /\ Goto("reset_pcm")
  /\ UNCHANGED <<ring, writing, dma, inflight, pcmVars, fifoVars, heard>>

\* bcm283x_pcm_reset(): from the first of its writes on, EN = 0, the PCM is still.
PcmReset ==
  /\ cs' = ResetControl
  /\ clearing' = TRUE
  /\ mode' = ResetMode
  /\ txc' = ResetChannels
  /\ dreq' = 48
  /\ UNCHANGED <<echo, fifo>>

ResetPcm ==
  /\ pc = "reset_pcm"
  /\ PcmReset
  /\ Goto("configure_pcm")
  /\ UNCHANGED <<ring, writing, dma, inflight, clockOn, heard>>

\* Mistake: the frame length is stored as it is, not less one.
ConfiguredModeLong(length, packed) ==
  [FLEN |-> length, FSLEN |-> 1, FSM |-> 0, CLKM |-> 0, FTXP |-> packed, FRXP |-> 0,
   CLK_DIS |-> 0]

\* bcm283x_pcm_configure_mode() as raspdif calls it, master of clock and frame sync.
\* FTXP is written twice, with the receive packing last; FRXP is left alone.
ConfiguredMode(length, packed) ==
  [FLEN |-> length - 1, FSLEN |-> 1, FSM |-> 0, CLKM |-> 0, FTXP |-> packed, FRXP |-> 0,
   CLK_DIS |-> 0]

ConfigurePcm ==
  /\ pc = "configure_pcm"
  /\ cs' = [cs EXCEPT !.EN = 1, !.TXON = 0]
  /\ mode' = ConfiguredMode(32, 0)
  /\ Goto("configure_dma")
  /\ UNCHANGED <<ring, writing, dma, inflight, clockOn, txc, dreq, fifoVars, heard>>

\* bcm283x_pcm_configure_dma()
ConfigureDma ==
  /\ pc = "configure_dma"
  /\ cs' = [cs EXCEPT !.DMAEN = 1]
  /\ dreq' = Threshold
  /\ Goto("configure_channels")
  /\ UNCHANGED <<ring, writing, dma, inflight, clockOn, mode, txc, fifoVars, heard>>

\* Mistake: the width less 8 is not split.
ChannelOneUnsplit(width, position) ==
  [CH1EN |-> 1, CH1WID |-> width - 8, CH1WEX |-> 0, CH1POS |-> position, CH2EN |-> 0]

\* bcm283x_pcm_configure_channels(): the width less 8, its fifth bit in a field of its own.
ChannelOne(width, position) ==
  [CH1EN |-> 1, CH1WID |-> (width - 8) % 16, CH1WEX |-> IF width >= 24 THEN 1 ELSE 0,
   CH1POS |-> position, CH2EN |-> 0]

ConfigureChannels ==
  /\ pc = "configure_channels"
  /\ txc' = ChannelOne(32, 0)
  /\ Goto("clear")
  /\ UNCHANGED <<ring, writing, dma, inflight, clockOn, cs, mode, dreq, fifoVars, heard>>

\* bcm283x_pcm_clear_fifos(), and SYNC = 0 of bcm283x_pcm_sync().
ClearFifos ==
  /\ pc = "clear"
  /\ clearing' = TRUE
  /\ cs' = [cs EXCEPT !.SYNC = 0]
  /\ Goto("sync_0")
  /\ UNCHANGED <<ring, writing, dma, inflight, clockOn, mode, txc, dreq, echo, fifo, heard>>

\* Mistake: one echo is waited for, which may be that of a value written long ago.
SyncOnce ==
  /\ pc = "sync_0"
  /\ echo = 0
  /\ Goto("start_dma")
  /\ UNCHANGED <<ring, writing, dma, inflight, clockOn, pcmVars, fifoVars, heard>>

SyncZero ==
  /\ pc = "sync_0"
  /\ echo = 0
  /\ cs' = [cs EXCEPT !.SYNC = 1]
  /\ Goto("sync_1")
  /\ UNCHANGED <<ring, writing, dma, inflight, clockOn, mode, txc, dreq, fifoVars, heard>>

SyncOne ==
  /\ pc = "sync_1"
  /\ echo = 1
  /\ Goto("start_dma")
  /\ UNCHANGED <<ring, writing, dma, inflight, clockOn, pcmVars, fifoVars, heard>>

-----------------------------------------------------------------------------
(* main() *)

EnableDma ==
  /\ pc = "start_dma"
  /\ dma' = [dma EXCEPT !.active = TRUE]
  /\ Goto("start_pcm")
  /\ UNCHANGED <<ring, writing, inflight, clockOn, pcmVars, fifoVars, heard>>

\* bcm283x_pcm_enable()
Transmit(on) == cs' = [cs EXCEPT !.EN = 1, !.TXON = on]

EnablePcm ==
  /\ pc = "start_pcm"
  /\ Transmit(1)
  /\ heard' = Silence(starts)
  /\ Goto("stream")
  /\ UNCHANGED <<ring, writing, dma, inflight, clockOn, mode, txc, dreq, fifoVars>>

\* With -d the transmitter is off while the program waits for input.
Pause ==
  /\ pc = "stream"
  /\ writing = Nothing
  /\ Transmit(0)
  /\ Goto("poll")
  /\ UNCHANGED <<ring, writing, dma, inflight, clockOn, mode, txc, dreq, fifoVars, heard>>

\* Mistake: everything is set up anew to resume.
ResumeClearing ==
  /\ pc = "poll"
  /\ Transmit(1)
  /\ clearing' = TRUE
  /\ Goto("stream")
  /\ UNCHANGED <<ring, writing, dma, inflight, clockOn, mode, txc, dreq, echo, fifo, heard>>

Resume ==
  /\ pc = "poll"
  /\ Transmit(1)
  /\ Goto("stream")
  /\ UNCHANGED <<ring, writing, dma, inflight, clockOn, mode, txc, dreq, fifoVars, heard>>

\* Mistake: a buffer is taken whether or not the DMA is in it.
LookAway ==
  /\ pc = "stream"
  /\ writing = Nothing
  /\ \E b \in Buffers : writing' = [buffer |-> b, stored |-> 0]
  /\ UNCHANGED <<pc, starts, ring, dma, inflight, clockOn, pcmVars, fifoVars, heard>>

\* The program takes a buffer whose control block is not the active one.  That it
\* looks again before later frames of the buffer only makes it wait.
Look ==
  /\ pc = "stream"
  /\ writing = Nothing
  /\ \E b \in Buffers \ {dma.block} : writing' = [buffer |-> b, stored |-> 0]
  /\ UNCHANGED <<pc, starts, ring, dma, inflight, clockOn, pcmVars, fifoVars, heard>>

\* One word of it, wherever the DMA has got to meanwhile.
Store ==
  /\ pc = "stream"
  /\ writing # Nothing
  /\ IF writing.stored + 1 < BufferWords
     THEN writing' = [writing EXCEPT !.stored = @ + 1] /\ UNCHANGED ring
     ELSE writing' = Nothing /\ ring' = [ring EXCEPT ![writing.buffer] = 1 - @]
  /\ UNCHANGED <<pc, starts, dma, inflight, clockOn, pcmVars, fifoVars, heard>>

-----------------------------------------------------------------------------
(* raspdif_shutdown(), reached from everywhere by a signal, and the end. *)

Working == {"reset_dma", "load", "set_clock", "start_clock", "reset_pcm", "configure_pcm",
            "configure_dma", "configure_channels", "clear", "sync_0", "sync_1",
            "start_dma", "start_pcm", "stream", "poll"}

BeginShutdown ==
  /\ pc \in Working
  /\ Goto("stop_pcm")
  /\ UNCHANGED <<ring, writing, dma, inflight, clockOn, pcmVars, fifoVars, heard>>

StopPcm ==
  /\ pc = "stop_pcm"
  /\ PcmReset
  /\ Goto("stop_clock")
  /\ UNCHANGED <<ring, writing, dma, inflight, clockOn, heard>>

StopClock ==
  /\ pc = "stop_clock"
  /\ clockOn' = FALSE
  /\ Goto("stop_dma")
  /\ UNCHANGED <<ring, writing, dma, inflight, pcmVars, fifoVars, heard>>

StopDma ==
  /\ pc = "stop_dma"
  /\ dma' = [dma EXCEPT !.active = FALSE]
  /\ Goto("off")
  /\ UNCHANGED <<ring, writing, inflight, clockOn, pcmVars, fifoVars, heard>>

Kill ==
  /\ pc # "off"
  /\ Goto("off")
  /\ UNCHANGED <<ring, writing, dma, inflight, clockOn, pcmVars, fifoVars, heard>>

-----------------------------------------------------------------------------
Setup ==
  \/ ResetDma \/ LoadControlBlock \/ ConfigureClock \/ EnableClock \/ ResetPcm
  \/ ConfigurePcm \/ ConfigureDma \/ ConfigureChannels \/ ClearFifos
  \/ SyncZero \/ SyncOne \/ EnableDma \/ EnablePcm

Streaming == Pause \/ Resume \/ Look \/ Store

Shutdown == StopPcm \/ StopClock \/ StopDma

Dma == DmaRead \/ DmaWrite

Next ==
  \/ Start \/ Setup \/ Streaming \/ BeginShutdown \/ Shutdown \/ Kill
  \/ Dma \/ PcmClock \/ Shift

Spec == Init /\ [][Next]_vars

\* The hardware does its part and the program calls driver after driver.
FairSpec ==
  Spec /\ WF_vars(Setup) /\ WF_vars(Dma) /\ WF_vars(PcmClock) /\ WF_vars(Shift)
-----------------------------------------------------------------------------
Words == [run : 0 .. MaxStarts, buffer : 0 .. BufferCount, index : 0 .. BufferWords - 1,
          content : {0, 1}, late : BOOLEAN]

TypeOK ==
  /\ pc \in Working \cup {"stop_pcm", "stop_clock", "stop_dma", "off"}
  /\ starts \in 0 .. MaxStarts
  /\ ring \in [Buffers -> {0, 1}]
  /\ writing \in [buffer : Buffers, stored : 0 .. BufferWords - 1] \cup {Nothing}
  /\ dma \in [active : BOOLEAN, run : 0 .. MaxStarts, block : Buffers,
              done : 0 .. BufferWords - 1]
  /\ dma.run <= starts
  /\ dma.active => dma.run # 0
  /\ inflight \in Words \cup {Nothing}
  /\ clockOn \in BOOLEAN /\ clearing \in BOOLEAN
  /\ cs \in [EN : {0, 1}, TXON : {0, 1}, DMAEN : {0, 1}, SYNC : {0, 1}]
  /\ mode.FLEN \in 0 .. 1023 /\ txc.CH1WID \in 0 .. 15
  /\ fifo \in Seq(Words) /\ Len(fifo) <= FifoSize
  /\ heard \in Words

After(word) ==
  IF word.buffer \notin Buffers THEN <<0, 0>>
  ELSE IF word.index + 1 < BufferWords THEN <<word.buffer, word.index + 1>>
  ELSE <<(word.buffer + 1) % BufferCount, 0>>

(***************************************************************************)
(* On the wire the words of the ring follow each other in order, round and    *)
(* round, none lost or repeated where a control block or the FIFO ends or     *)
(* where the transmitter was off; the first one after bcm283x_pcm_enable() is *)
(* the first of this process's ring, not what a killed process or a late      *)
(* clear left in or took from the FIFO.                                      *)
(***************************************************************************)
WordsInOrder ==
  [][heard' # heard /\ heard'.buffer \in Buffers =>
       heard'.run = heard.run /\ <<heard'.buffer, heard'.index>> = After(heard)]_heard

(***************************************************************************)
(* Although CONBLK_AD runs ahead of the wire by what the FIFO holds, a buffer  *)
(* that is free by CONBLK_AD is free: two words of a pass over a buffer are of  *)
(* different contents only if the DMA was in the buffer between the program's   *)
(* look at CONBLK_AD and its last store, of which PacedStream says when that    *)
(* does not happen; and a process killed in between leaves no more than that.   *)
(***************************************************************************)
PassesAreWhole ==
  [][/\ heard' # heard /\ heard'.buffer \in Buffers /\ heard'.index # 0
     /\ ~heard.late /\ ~heard'.late
     => heard'.content = heard.content]_heard

(***************************************************************************)
(* Whenever the transmitter is on, the registers, put together by four calls   *)
(* on top of a reset, describe a frame of one unpacked 32 bit channel that     *)
(* fills it: the bits of successive words join without a gap.                 *)
(***************************************************************************)
WordsJoin ==
  cs.TXON = 1 =>
    /\ mode.FLEN + 1 = 32 /\ mode.FTXP = 0
    /\ mode.CLKM = 0 /\ mode.FSM = 0
    /\ txc.CH1EN = 1 /\ txc.CH1POS = 0 /\ txc.CH2EN = 0
    /\ 8 + txc.CH1WID + 16 * txc.CH1WEX = mode.FLEN + 1

(***************************************************************************)
(* As long as the process streams with the transmitter on, the ring goes      *)
(* round: every buffer is heard again, however often it has been before.      *)
(***************************************************************************)
GoesRound ==
  \A b \in Buffers : pc = "stream" ~> pc # "stream" \/ heard.buffer = b

(***************************************************************************)
(* The busy-waits of bcm283x_pcm_sync() end: the clock they need is on by      *)
(* then, whatever state a killed process left the peripheral in.              *)
(***************************************************************************)
SyncEnds == pc = "sync_0" ~> pc \notin {"sync_0", "sync_1"}
-----------------------------------------------------------------------------
(* Why the words are in order: what is true between the DMA and the wire.     *)

\* w is the word to come after u, and tells of the same content of their buffer if
\* neither was read too late.
Follows(u, w) ==
  /\ w.run = u.run
  /\ <<w.buffer, w.index>> = After(u)
  /\ w.index # 0 /\ ~u.late /\ ~w.late => w.content = u.content

\* The word before the FIFO's first, and the one before the DMA's next.
First == IF pc \in {"start_dma", "start_pcm"} THEN Silence(starts) ELSE heard
Last == IF fifo = <<>> THEN First ELSE fifo[Len(fifo)]

\* Words on their way now will be heard, or would be but for a pause.
Sending == cs.TXON = 1 \/ pc \in {"start_dma", "start_pcm", "stream", "poll"}

\* Since w was read on time, nobody has begun to change its buffer.
StillAsRead(w) ==
  ~w.late => ~Rewriting(w.buffer) /\ ring[w.buffer] = w.content

\* From the wire back to the DMA every word follows the one before it; the program
\* begins nothing in the DMA's buffer, so that this includes the contents.
InOrder ==
  Sending =>
    /\ ~clearing
    /\ fifo # <<>> => Follows(First, fifo[1])
    /\ \A i \in 1 .. Len(fifo) - 1 : Follows(fifo[i], fifo[i + 1])
    /\ dma.active /\ inflight = Nothing =>
         /\ dma.run = Last.run
         /\ <<dma.block, dma.done>> = After(Last)
         /\ dma.done # 0 => StillAsRead(Last)
    /\ inflight # Nothing =>
         /\ Follows(Last, inflight)
         /\ inflight.run = dma.run /\ inflight.buffer = dma.block /\ inflight.index = dma.done
         /\ StillAsRead(inflight)

\* Until bcm283x_pcm_sync() has returned nothing enters the FIFO, and it does not
\* return before the FIFO is clear, whatever the peripheral was left in.
SetUpInOrder ==
  /\ pc # "off" => starts # 0
  /\ pc \in {"load", "set_clock", "start_clock", "reset_pcm", "configure_pcm", "configure_dma",
             "configure_channels", "clear", "sync_0", "sync_1", "start_dma"} =>
       ~dma.active /\ inflight = Nothing
  /\ pc \in {"set_clock", "start_clock", "reset_pcm", "configure_pcm", "configure_dma",
             "configure_channels", "clear", "sync_0", "sync_1", "start_dma"} =>
       dma = [Idle EXCEPT !.run = starts]
  /\ pc \in {"configure_pcm", "configure_dma", "configure_channels", "clear", "sync_0",
             "sync_1", "start_dma", "start_pcm", "poll", "stop_clock", "stop_dma"} =>
       cs.TXON = 0
  /\ pc \in {"sync_0", "sync_1"} => clearing \/ fifo = <<>>
  /\ pc = "sync_1" /\ echo = 1 => ~clearing
  /\ pc = "start_dma" => fifo = <<>>

\* The DMA is asked for a word only while there is room for it.
RoomForWord ==
  /\ cs.DMAEN = 1 => dreq = Threshold
  /\ inflight # Nothing => dma.run # 0 /\ Len(fifo) < FifoSize

\* The registers are put together before the transmitter is switched on.
RegistersSet ==
  /\ cs.TXON = 1 \/ pc \in {"configure_dma", "configure_channels", "clear", "sync_0", "sync_1",
                           "start_dma", "start_pcm", "stream", "poll"} =>
       mode = ConfiguredMode(32, 0)
  /\ cs.TXON = 1 \/ pc \in {"clear", "sync_0", "sync_1", "start_dma", "start_pcm", "stream",
                           "poll"} =>
       txc = ChannelOne(32, 0)

TransmitterInv == TypeOK /\ SetUpInOrder /\ RoomForWord /\ RegistersSet /\ InOrder
=============================================================================

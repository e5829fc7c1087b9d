--------------------------- MODULE RaspdifStream ---------------------------
(***************************************************************************)
(* The streaming core of raspdif (source/main.c): a ring of code buffers   *)
(* that main() fills with encoded audio frames while a DMA channel, looping *)
(* over the same buffers, feeds them to the PCM peripheral.                 *)
(*                                                                         *)
(* Three parties step independently:                                       *)
(*   - the program, one action per statement of main() and of               *)
(*     raspdif_fill_buffers() at which another party can be observed;        *)
(*   - the DMA channel and PCM transmitter, one action per frame on the wire; *)
(*   - whatever feeds the input (a file, a FIFO's writer, a pipe on stdin).   *)
(* Nothing synchronises them but the DMA channel's control block register,   *)
(* which the program reads.                                                *)
(*                                                                         *)
(* An audio frame is known by the offset in the input at which its first    *)
(* byte lies, so a slot of the ring shows which bytes it was encoded from.   *)
(***************************************************************************)
EXTENDS Integers

CONSTANTS
  BufferCount,     \* RASPDIF_BUFFER_COUNT, buffers in the ring
  BufferSize,      \* RASPDIF_BUFFER_SIZE, frames in a buffer
  FrameCount,      \* SPDIF_FRAME_COUNT, frames in a S/PDIF block
  SampleCountMod,  \* 2^32: where the uint32_t sample_count wraps
  SampleSize,      \* bytes of one channel's sample: 2 for s16le, 3 for s24le
  PcmDisable,      \* arguments.pcm_disable, option -d
  Input,           \* what arguments.file names: "file", "fifo" or "stdin"
  Chunks,          \* sizes of the pieces in which the input is written
  MaxBytes         \* bound: bytes the input ever carries

ASSUME StreamAssumption ==
  /\ BufferCount \in Nat /\ BufferCount > 1
  /\ BufferSize \in Nat \ {0}
  /\ FrameCount \in Nat \ {0}
  /\ SampleCountMod \in Nat \ {0}
  /\ SampleCountMod % BufferSize = 0      \* 2^32 is a multiple of 2048
  /\ SampleSize \in Nat \ {0}
  /\ PcmDisable \in BOOLEAN
  /\ Input \in {"file", "fifo", "stdin"}
  /\ Chunks \subseteq Nat \ {0}
  /\ MaxBytes \in Nat

\* 3 buffers of 2048 frames hold exactly 32 blocks of 192 frames.
ASSUME BlocksFillRing == (BufferCount * BufferSize) % FrameCount = 0

VARIABLES
  pc,            \* where main() is, or raspdif_fill_buffers() under it
  buffer_index,  \* main()'s buffer_index
  samples,       \* main()'s samples[]: what each channel was last read from
  sample_count,  \* static sample_count of raspdif_buffer_samples()
  frame_index,   \* static frame_index of raspdif_buffer_samples()
  fill_index,    \* buffer_index of raspdif_fill_buffers(), a copy of its own
  fill_count,    \* fill_count of raspdif_fill_buffers()
  ring,          \* raspdif.control.virtual->buffers
  read,          \* bytes fread() has taken from the input
  eof,           \* feof(file)
  written,       \* bytes that reached the input so far
  closed,        \* no writer is left: the next read past the data reports EOF
  dmaActive,     \* CS.ACTIVE of the DMA channel
  dmaBlock,      \* CONBLK_AD, as the index of the active control block
  dmaFrame,      \* frame of that block the DMA transfers next
  txOn,          \* CS_A.TXON of the PCM peripheral
  wire           \* the frame last shifted out on the PCM data pin

programVars == <<buffer_index, samples, sample_count, frame_index, fill_index, fill_count>>
inputVars   == <<written, closed>>
fileVars    == <<read, eof>>
dmaVars     == <<dmaActive, dmaBlock, dmaFrame>>
vars == <<pc, programVars, ring, fileVars, inputVars, dmaVars, txOn, wire>>

Buffers == 0 .. BufferCount - 1
Offsets == 0 .. BufferSize - 1
Frames  == 0 .. FrameCount - 1
FrameBytes == 2 * SampleSize

\* What a channel of a slot was encoded from: an offset in the input, or
Quiet == -1   \* a FILL_SAMPLE: zero, or noise too faint to hear
Torn  == -2   \* a sample of which fread() delivered only some bytes
Unset == -3   \* nothing: the slot was never encoded
Sources == {Quiet, Torn, Unset} \cup 0 .. MaxBytes

Slot(a, b, frame) == [a |-> a, b |-> b, frame |-> frame]
IsAudio(slot) == slot.a >= 0

Init ==
  /\ pc = "preload"
  /\ buffer_index = 0
  /\ samples = <<Quiet, Quiet>>
  /\ sample_count = 0
  /\ frame_index = 0
  /\ fill_index = 0
  /\ fill_count = 0
  /\ ring = [b \in Buffers |-> [p \in Offsets |-> Slot(Unset, Unset, 0)]]
  /\ read = 0
  /\ eof = FALSE
  /\ written \in IF Input = "file" THEN 0 .. MaxBytes ELSE {0}
  /\ closed = (Input = "file")
  /\ dmaActive = FALSE
  /\ dmaBlock = 0
  /\ dmaFrame = 0
  /\ txOn = FALSE
  /\ wire = Slot(Unset, Unset, FrameCount - 1)  \* as if a block had just ended

-----------------------------------------------------------------------------
(* The input.  A FIFO is opened "r+b", so the program is itself a writer of   *)
(* it and never sees its end.                                              *)

SourceWrite ==
  /\ ~closed
  /\ \E n \in Chunks : written + n <= MaxBytes /\ written' = written + n
  /\ UNCHANGED <<pc, programVars, ring, fileVars, closed, dmaVars, txOn, wire>>

SourceClose ==
  /\ Input = "stdin"
  /\ ~closed
  /\ closed' = TRUE
  /\ UNCHANGED <<pc, programVars, ring, fileVars, written, dmaVars, txOn, wire>>

-----------------------------------------------------------------------------
(* raspdif_buffer_samples(): encode one frame into the next slot of buffer. *)

Position == sample_count % BufferSize
Full == ((sample_count + 1) % SampleCountMod) % BufferSize = 0

\* Mistake: the index runs off the end of the ring.
NextBufferNoWrap(b) == b + 1

NextBuffer(b) == (b + 1) % BufferCount

\* Mistake: every buffer begins a new block.
BufferSamplesRestartingBlock(buffer, a, b) ==
  /\ ring' = [ring EXCEPT ![buffer][Position] = Slot(a, b, frame_index)]
  /\ frame_index' = IF Full THEN 0 ELSE (frame_index + 1) % FrameCount
  /\ sample_count' = (sample_count + 1) % SampleCountMod

BufferSamples(buffer, a, b) ==
  /\ ring' = [ring EXCEPT ![buffer][Position] = Slot(a, b, frame_index)]
  /\ frame_index' = (frame_index + 1) % FrameCount
  /\ sample_count' = (sample_count + 1) % SampleCountMod

(***************************************************************************)
(* fread(samples, sample_size, 2, file): takes what there is, at most one   *)
(* frame.  A sample that comes up short keeps its old value if no byte of   *)
(* it arrived.  The bytes are gone from the input even when the items       *)
(* returned are fewer than two.                                            *)
(***************************************************************************)
Available == written - read
Taken == IF Available < FrameBytes THEN Available ELSE FrameBytes

SampleRead(channel) ==
  LET start == (channel - 1) * SampleSize IN
  IF Taken >= start + SampleSize THEN read + start
  ELSE IF Taken <= start THEN samples[channel]
  ELSE Torn

Fread ==
  /\ read' = read + Taken
  /\ eof' = (eof \/ (closed /\ Taken < FrameBytes))
  /\ samples' = <<SampleRead(1), SampleRead(2)>>

-----------------------------------------------------------------------------
(* main(), from the pre-load loop to the end of the stream.                 *)

\* The input is still blocking: fread() returns a whole frame, or at EOF.
PreloadReady == Available >= FrameBytes \/ closed

PreloadStore ==
  /\ pc = "preload"
  /\ PreloadReady
  /\ Taken >= SampleSize
  /\ buffer_index < BufferCount
  /\ Fread
  /\ BufferSamples(buffer_index, samples'[1], samples'[2])
  /\ buffer_index' = IF Full THEN buffer_index + 1 ELSE buffer_index
  /\ UNCHANGED <<pc, fill_index, fill_count, inputVars, dmaVars, txOn, wire>>

\* Mistake: pre-loading stops one buffer short.
PreloadEndEarly ==
  /\ pc = "preload"
  /\ PreloadReady
  /\ Taken < SampleSize \/ buffer_index = BufferCount - 1
  /\ Fread
  /\ pc' = "start"
  /\ UNCHANGED <<buffer_index, sample_count, frame_index, fill_index, fill_count,
                 ring, inputVars, dmaVars, txOn, wire>>

\* The loop's condition reads a frame before it looks at buffer_index.
PreloadEnd ==
  /\ pc = "preload"
  /\ PreloadReady
  /\ Taken < SampleSize \/ buffer_index = BufferCount
  /\ Fread
  /\ pc' = "start"
  /\ UNCHANGED <<buffer_index, sample_count, frame_index, fill_index, fill_count,
                 ring, inputVars, dmaVars, txOn, wire>>

\* Mistake: the transmitter is never switched on.
StartWithoutPcm ==
  /\ pc = "start"
  /\ dmaActive' = TRUE
  /\ buffer_index' = 0
  /\ pc' = "check"
  /\ UNCHANGED <<samples, sample_count, frame_index, fill_index, fill_count, ring,
                 fileVars, inputVars, dmaBlock, dmaFrame, txOn, wire>>

Start ==
  /\ pc = "start"
  /\ dmaActive' = TRUE
  /\ txOn' = TRUE
  /\ buffer_index' = 0
  /\ pc' = "check"
  /\ UNCHANGED <<samples, sample_count, frame_index, fill_index, fill_count, ring,
                 fileVars, inputVars, dmaBlock, dmaFrame, wire>>

\* Mistake: the DMA's position is not looked at.
CheckNothing ==
  /\ pc = "check"
  /\ ~eof
  /\ pc' = "read"
  /\ UNCHANGED <<programVars, ring, fileVars, inputVars, dmaVars, txOn, wire>>

\* Mistake: the buffer after the wanted one is looked at.
CheckNextBuffer ==
  /\ pc = "check"
  /\ ~eof
  /\ pc' = IF dmaBlock = NextBuffer(buffer_index) THEN "sleep" ELSE "read"
  /\ UNCHANGED <<programVars, ring, fileVars, inputVars, dmaVars, txOn, wire>>

\* while (!feof(file)), and the comparison with the active control block.
Check ==
  /\ pc = "check"
  /\ ~eof
  /\ pc' = IF dmaBlock = buffer_index THEN "sleep" ELSE "read"
  /\ UNCHANGED <<programVars, ring, fileVars, inputVars, dmaVars, txOn, wire>>

Wake ==
  /\ pc = "sleep"
  /\ pc' = "check"
  /\ UNCHANGED <<programVars, ring, fileVars, inputVars, dmaVars, txOn, wire>>

\* Mistake: a single sample passes for a frame.
ReadHalfFrame ==
  /\ pc = "read"
  /\ Taken >= SampleSize \/ closed
  /\ Fread
  /\ pc' = "write"
  /\ UNCHANGED <<buffer_index, sample_count, frame_index, fill_index, fill_count,
                 ring, inputVars, dmaVars, txOn, wire>>

\* A whole frame, or whatever samples[] holds when the input ends.
ReadFrame ==
  /\ pc = "read"
  /\ Taken = FrameBytes \/ closed
  /\ Fread
  /\ pc' = "write"
  /\ UNCHANGED <<buffer_index, sample_count, frame_index, fill_index, fill_count,
                 ring, inputVars, dmaVars, txOn, wire>>

\* Mistake: an input that has run dry is taken for one that has ended.
UnderrunEndsStream ==
  /\ pc = "read"
  /\ Taken < FrameBytes
  /\ ~closed
  /\ Fread
  /\ dmaActive' = FALSE
  /\ txOn' = FALSE
  /\ pc' = "done"
  /\ UNCHANGED <<buffer_index, sample_count, frame_index, fill_index, fill_count,
                 ring, inputVars, dmaBlock, dmaFrame, wire>>

\* fread() would block part way through a frame: enter raspdif_fill_buffers().
Underrun ==
  /\ pc = "read"
  /\ Taken < FrameBytes
  /\ ~closed
  /\ Fread
  /\ fill_index' = buffer_index
  /\ fill_count' = 0
  /\ pc' = "fill_rest"
  /\ UNCHANGED <<buffer_index, sample_count, frame_index, ring, inputVars, dmaVars,
                 txOn, wire>>

Write ==
  /\ pc = "write"
  /\ BufferSamples(buffer_index, samples[1], samples[2])
  /\ buffer_index' = IF Full THEN NextBuffer(buffer_index) ELSE buffer_index
  /\ pc' = "check"
  /\ UNCHANGED <<samples, fill_index, fill_count, fileVars, inputVars, dmaVars,
                 txOn, wire>>

\* raspdif_shutdown() after the last frame; the program then returns.
Shutdown ==
  /\ pc = "check"
  /\ eof
  /\ dmaActive' = FALSE
  /\ txOn' = FALSE
  /\ pc' = "done"
  /\ UNCHANGED <<programVars, ring, fileVars, inputVars, dmaBlock, dmaFrame, wire>>

-----------------------------------------------------------------------------
(* raspdif_fill_buffers(): silence for the rest of the current buffer, then  *)
(* for BufferCount buffers, each once the DMA is not in it.  The caller's    *)
(* buffer_index is left where it was.                                      *)

FillRest ==
  /\ pc = "fill_rest"
  /\ BufferSamples(fill_index, Quiet, Quiet)
  /\ fill_index' = IF Full THEN NextBuffer(fill_index) ELSE fill_index
  /\ pc' = IF Full THEN "fill_check" ELSE "fill_rest"
  /\ UNCHANGED <<buffer_index, samples, fill_count, fileVars, inputVars, dmaVars,
                 txOn, wire>>

\* Mistake: buffers are filled without waiting for the DMA.
FillCheckNothing ==
  /\ pc = "fill_check"
  /\ fill_count < BufferCount
  /\ pc' = "fill_write"
  /\ UNCHANGED <<programVars, ring, fileVars, inputVars, dmaVars, txOn, wire>>

FillCheck ==
  /\ pc = "fill_check"
  /\ fill_count < BufferCount
  /\ pc' = IF dmaBlock = fill_index THEN "fill_sleep" ELSE "fill_write"
  /\ UNCHANGED <<programVars, ring, fileVars, inputVars, dmaVars, txOn, wire>>

FillWake ==
  /\ pc = "fill_sleep"
  /\ pc' = "fill_check"
  /\ UNCHANGED <<programVars, ring, fileVars, inputVars, dmaVars, txOn, wire>>

\* Mistake: the filled buffers are not counted.
FillWriteUncounted ==
  /\ pc = "fill_write"
  /\ BufferSamples(fill_index, Quiet, Quiet)
  /\ fill_index' = IF Full THEN NextBuffer(fill_index) ELSE fill_index
  /\ pc' = IF Full THEN "fill_check" ELSE "fill_write"
  /\ UNCHANGED <<buffer_index, samples, fill_count, fileVars, inputVars, dmaVars,
                 txOn, wire>>

FillWrite ==
  /\ pc = "fill_write"
  /\ BufferSamples(fill_index, Quiet, Quiet)
  /\ fill_index' = IF Full THEN NextBuffer(fill_index) ELSE fill_index
  /\ fill_count' = IF Full THEN fill_count + 1 ELSE fill_count
  /\ pc' = IF Full THEN "fill_check" ELSE "fill_write"
  /\ UNCHANGED <<buffer_index, samples, fileVars, inputVars, dmaVars, txOn, wire>>

\* Mistake: the buffer that was current is not filled from its beginning.
IdleEarly ==
  /\ pc = "fill_check"
  /\ fill_count = BufferCount - 1
  /\ txOn' = ~PcmDisable
  /\ pc' = "poll"
  /\ UNCHANGED <<programVars, ring, fileVars, inputVars, dmaVars, wire>>

\* Back in main(): optionally stop the transmitter, then poll() for input.
Idle ==
  /\ pc = "fill_check"
  /\ fill_count = BufferCount
  /\ txOn' = ~PcmDisable
  /\ pc' = "poll"
  /\ UNCHANGED <<programVars, ring, fileVars, inputVars, dmaVars, wire>>

\* Mistake: the transmitter stays off after -d switched it off.
ResumeSilently ==
  /\ pc = "poll"
  /\ Available > 0 \/ closed
  /\ pc' = "check"
  /\ UNCHANGED <<programVars, ring, fileVars, inputVars, dmaVars, txOn, wire>>

\* Mistake: only input wakes the program, not the end of it.
ResumeOnDataOnly ==
  /\ pc = "poll"
  /\ Available > 0
  /\ txOn' = TRUE
  /\ pc' = "check"
  /\ UNCHANGED <<programVars, ring, fileVars, inputVars, dmaVars, wire>>

Resume ==
  /\ pc = "poll"
  /\ Available > 0 \/ closed
  /\ txOn' = TRUE
  /\ pc' = "check"
  /\ UNCHANGED <<programVars, ring, fileVars, inputVars, dmaVars, wire>>

-----------------------------------------------------------------------------
(* The hardware.  The control blocks form the loop that                     *)
(* raspdif_generate_dma_control_blocks() builds; the PCM peripheral's data   *)
(* requests pace the DMA, so that it stops when the transmitter does.        *)

Transmit ==
  /\ dmaActive
  /\ txOn
  /\ wire' = ring[dmaBlock][dmaFrame]
  /\ dmaFrame' = (dmaFrame + 1) % BufferSize
  /\ dmaBlock' = IF dmaFrame' = 0 THEN NextBuffer(dmaBlock) ELSE dmaBlock
  /\ UNCHANGED <<pc, programVars, ring, fileVars, inputVars, dmaActive, txOn>>

-----------------------------------------------------------------------------
Source == SourceWrite \/ SourceClose

Program ==
  \/ PreloadStore \/ PreloadEnd \/ Start
  \/ Check \/ Wake \/ ReadFrame \/ Write \/ Shutdown
  \/ Underrun \/ FillRest \/ FillCheck \/ FillWake \/ FillWrite \/ Idle \/ Resume

Next == Source \/ Program \/ Transmit

Spec == Init /\ [][Next]_vars
-----------------------------------------------------------------------------
(* Type invariant. *)

Pcs == {"preload", "start", "check", "sleep", "read", "write", "fill_rest",
        "fill_check", "fill_sleep", "fill_write", "poll", "done"}

Slots == [a : Sources, b : Sources, frame : Frames]

(***************************************************************************)
(* Every variable has its type; in particular every index main() and        *)
(* raspdif_fill_buffers() use to address the ring is inside it.             *)
(***************************************************************************)
TypeOK ==
  /\ pc \in Pcs
  /\ buffer_index \in 0 .. BufferCount
  /\ pc \notin {"preload", "start"} => buffer_index \in Buffers
  /\ samples \in Sources \X Sources
  /\ sample_count \in 0 .. SampleCountMod - 1
  /\ frame_index \in Frames
  /\ fill_index \in Buffers
  /\ fill_count \in 0 .. BufferCount
  /\ pc \in {"fill_sleep", "fill_write"} => fill_count < BufferCount
  /\ ring \in [Buffers -> [Offsets -> Slots]]
  /\ read \in 0 .. written
  /\ eof \in BOOLEAN
  /\ written \in 0 .. MaxBytes
  /\ closed \in BOOLEAN
  /\ dmaActive \in BOOLEAN
  /\ dmaBlock \in Buffers
  /\ dmaFrame \in Offsets
  /\ txOn \in BOOLEAN
  /\ wire \in Slots

(* Safety, whatever the relative speeds of program, DMA and input. *)

(***************************************************************************)
(* While the program waits in poll() the DMA keeps looping over the ring,    *)
(* so not one slot may still hold audio: raspdif_fill_buffers() must have    *)
(* replaced all of it, the buffer it was called in the middle of included.   *)
(***************************************************************************)
IdleIsSilent ==
  pc = "poll" => \A b \in Buffers : \A p \in Offsets : ring[b][p].a = Quiet

\* The slot the DMA transfers after slot p of buffer b.
SlotAfter(b, p) ==
  IF p + 1 \in Offsets THEN ring[b][p + 1] ELSE ring[NextBuffer(b)][0]

(***************************************************************************)
(* While the DMA loops over the ring during poll(), the receiver sees an     *)
(* unbroken train of S/PDIF blocks: each slot's position in its block        *)
(* follows that of the slot before it, also where the loop closes.           *)
(***************************************************************************)
IdleLoopSeamless ==
  pc = "poll" =>
    \A b \in Buffers : \A p \in Offsets :
      SlotAfter(b, p).frame = (ring[b][p].frame + 1) % FrameCount

(***************************************************************************)
(* The program busy-waits for the DMA to leave a buffer only while the DMA   *)
(* and the transmitter that paces it are both on; -d stops the transmitter   *)
(* for the duration of poll() alone.  Otherwise the wait would never end.    *)
(***************************************************************************)
WaitsOnlyOnRunningDma ==
  pc \in {"check", "sleep", "fill_check", "fill_sleep"} => dmaActive /\ txOn

(***************************************************************************)
(* As long as the input has not ended, transmission starts only when every   *)
(* slot of the ring was encoded: no zeroed memory ever goes out as code.     *)
(***************************************************************************)
NoUnsetSlotInPlay ==
  dmaActive /\ ~eof => \A b \in Buffers : \A p \in Offsets : ring[b][p].a # Unset

(***************************************************************************)
(* Transmission starts on a ring that holds the beginning of the input, in    *)
(* order and whole.  The loop's condition has by then read one frame beyond   *)
(* it, which is lost, and no more than that one.                             *)
(***************************************************************************)
PreloadInOrder ==
  pc = "start" /\ ~eof =>
    /\ read = (BufferCount * BufferSize + 1) * FrameBytes
    /\ \A b \in Buffers : \A p \in Offsets :
         ring[b][p].a = (b * BufferSize + p) * FrameBytes

(***************************************************************************)
(* Until the input ends, both channels of an encoded frame come from one     *)
(* read of it: the half frame that an interrupted fread() leaves in samples[] *)
(* is never encoded together with half of another.                          *)
(***************************************************************************)
FramesWhole ==
  ~eof =>
    \A b \in Buffers : \A p \in Offsets :
      IsAudio(ring[b][p]) => ring[b][p].b = ring[b][p].a + SampleSize

(***************************************************************************)
(* The program ends only when every byte that will ever come was read: an    *)
(* underrun, at whatever byte, is not taken for the end of the input.        *)
(***************************************************************************)
EndsAfterInput == pc = "done" => closed /\ read = written

-----------------------------------------------------------------------------
(* Why they hold: what is true of every state on the way to poll().          *)

InFillLoop == pc \in {"fill_check", "fill_sleep", "fill_write", "poll"}

\* How many buffers ago raspdif_fill_buffers() was in buffer b.
BuffersSince(b) ==
  IF b < fill_index THEN fill_index - b ELSE (fill_index - b) + BufferCount

\* The loop of raspdif_fill_buffers() has filled slot p of buffer b.
FilledNow(b, p) == b = fill_index /\ p < Position
Filled(b, p) == FilledNow(b, p) \/ BuffersSince(b) <= fill_count

\* How many slots it has filled from that one on.
SlotsSince(b, p) ==
  IF FilledNow(b, p) THEN Position - p
  ELSE (BuffersSince(b) * BufferSize + Position) - p

\* They are all silent, and their frames count back from frame_index.
FilledSeamlessly ==
  \A b \in Buffers : \A p \in Offsets :
    Filled(b, p) =>
      /\ ring[b][p].a = Quiet
      /\ (ring[b][p].frame + SlotsSince(b, p)) % FrameCount = frame_index

(***************************************************************************)
(* raspdif_fill_buffers() counts buffers, yet it began part way into one:     *)
(* what it has filled is the last fill_count buffers up to the slot it is at, *)
(* and it is at the beginning of a buffer whenever it looks at the DMA.      *)
(***************************************************************************)
FillProgress ==
  /\ pc = "fill_rest" => fill_count = 0
  /\ pc \in {"fill_check", "fill_sleep", "poll"} => Position = 0
  /\ pc = "poll" => fill_count = BufferCount
  /\ InFillLoop => FilledSeamlessly

\* -d turns the transmitter off in poll() and nothing turns off the DMA.
DmaRuns ==
  pc \notin {"preload", "start", "done"} => dmaActive /\ (pc # "poll" => txOn)

\* Slots that were encoded at least once.
Encoded(b, p) ==
  pc # "preload" \/ b < buffer_index \/ (b = buffer_index /\ p < Position)

(***************************************************************************)
(* Until the input ends, every slot up to the one pre-loading is at was       *)
(* encoded, and the DMA is started only when that is the end of the ring.    *)
(***************************************************************************)
PreloadProgress ==
  /\ samples[1] # Unset
  /\ pc = "preload" => ~dmaActive
  /\ ~eof =>
       \A b \in Buffers : \A p \in Offsets : Encoded(b, p) => ring[b][p].a # Unset

\* Bytes of the input before frame p of buffer b, if pre-loading loses none.
BytesBefore(b, p) == (b * BufferSize + p) * FrameBytes

Loaded(b, p) == b < buffer_index \/ (b = buffer_index /\ p < Position)

(***************************************************************************)
(* Until the input ends, pre-loading has read what it has encoded, and every  *)
(* slot was encoded from the bytes that belong there; when it ends, it is at  *)
(* the end of the ring and one frame beyond.                                *)
(***************************************************************************)
PreloadOrder ==
  /\ buffer_index = BufferCount /\ pc = "preload" => Position = 0
  /\ pc = "preload" /\ ~eof => read = BytesBefore(buffer_index, Position)
  /\ pc = "start" /\ ~eof =>
       buffer_index = BufferCount /\ read = BytesBefore(BufferCount, 1)
  /\ pc \in {"preload", "start"} /\ ~eof =>
       \A b \in Buffers : \A p \in Offsets : Loaded(b, p) => ring[b][p].a = BytesBefore(b, p)

\* What main() holds when it is about to encode is one frame of the input.
FrameInHand ==
  pc = "write" /\ ~eof => samples = <<read - FrameBytes, read - SampleSize>>

\* End of file is reported, and believed, only where the input is at its end.
EofIsFinal ==
  /\ eof => closed /\ read = written
  /\ pc = "done" => eof
=============================================================================

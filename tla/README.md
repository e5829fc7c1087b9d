# A verification of raspdif

raspdif turns PCM samples from a file, a FIFO or stdin into S/PDIF on a
Raspberry Pi's GPIO pin: the program encodes frames into a ring of buffers in
physical memory, a DMA channel loops over that ring and feeds the PCM
peripheral, whose clock runs at 128 times the sample rate. This directory holds
TLA+ models of it, TLC configurations and TLAPS proofs.

Paths are relative to the repository; `main.c` is `source/main.c`.

## 1. Inventory

| Component | State | Operations | Hard behaviour | What makes it correct |
|---|---|---|---|---|
| Streaming loop (`main.c` 286-383, 465-575) | `buffer_index`, `samples[]`, statics `frame_index` and `sample_count`, the ring `control.virtual->buffers`, the stream's EOF flag | pre-load, start, check/sleep, read, store, underrun and fill, idle in `poll()`, resume, end | races with the DMA, which is only ever polled; non-blocking reads that stop within a frame; statics shared by three callers | no slot is overwritten before it is sent or while it is being sent; silence when idle; blocks without a seam; channels not mixed; every wait ends |
| DMA ring (`main.c` 131-160) | control blocks, `CS.ACTIVE`, `CONBLK_AD` | follow the loop, paced by the PCM | runs on its own; never stops by itself | visits the buffers in the order the program fills them |
| Life cycle (`main.c` 113-122, 169-281, 391-427) | `raspdif.memory`, `raspdif.dma_channel`, `raspdif.control` | init, shutdown, signal handler, fatal log | signals between any two steps, nested handlers, kill and restart with the DMA running | the DMA never runs over memory that was given back; memory is released once |
| Physical memory and mailbox (`memory.c`, `mailbox.c`) | the firmware's handles: allocated, locked | allocate, lock, unlock, release, map | each request can fail; handles outlive the process | no handle is lost or released twice |
| PCM driver (`bcm283x_pcm.c`) | registers `CS_A`, `MODE_A`, `TXC_A`, `DREQ_A` ... | reset, configure, configure_dma, configure channels, clear FIFOs, sync, enable | order of register writes; `SYNC` echoes only under a running clock | the configuration asked for is in the registers; no endless wait |
| DMA driver (`bcm283x_dma.c`) | registers of a channel | reset, set/get control block, enable | a channel left running by a previous run | only the chosen channel is touched |
| Clock driver and divisor (`bcm283x_clock.c`, `main.c` 215-236) | `CTL`, `DIV` | configure, enable, wait | rounding, 12-bit fields, BUSY wait | the divisor is in range for every usable rate |
| S/PDIF encoding (`spdif.c`, `main.c` 293-334) | the block's channel status | build sub-frame, populate status, parse sample | bit-level arithmetic | parity even, biphase mark code decodes to the sample |
| GPIO driver (`bcm283x_gpio.c`) | function select, event and pull registers | configure, configure_mask, set, clear | pins share registers | only the masked pins change |
| Peripheral set-up (`bcm283x.c`) | base addresses | init once | asserted preconditions of every driver call | drivers are initialised before use |
| Command line, logging, types | options, log level | parse, print | a fatal message exits | not a matter of state |

Interactions. The program and the DMA share the ring and nothing else; the
program learns where the DMA is from `CONBLK_AD` alone. The program controls the
DMA with `CS.ACTIVE` and the PCM with `CS_A.TXON`; the PCM's data requests
(`DREQ`) pace the DMA, so switching the PCM off halts it. Signals interrupt the program
anywhere and run `raspdif_shutdown()`. Memory handles belong to the VideoCore
firmware and survive the process.

The hazards this code is exposed to are listed with their lines in
`PROJECT.json`.

## 2. Modules

    RaspdifStream          the ring, its three parties, no timing
      RaspdifStreamProofs  theorems about it (uses ModularArithmetic)
      PacedStream          + the passage of time
        PacedStreamQueue   + the refinement mapping to FrameQueue
          PacedStreamProofs  theorems about both
        StreamClaims       + a statement of the code's comments that does not hold
    FrameQueue             what the ring promises, as an abstract queue

    Lifecycle              from one process's start to the next one's
      LifecycleProofs      theorems about it

    Transmitter            below the ring: control blocks, DMA, PCM FIFO, data pin
      TransmitterProofs    theorems about it
    Spdif                  what is in a slot: from bytes to line levels and back
      SpdifProofs          theorems about it
    SampleRate             -r, the clock's divisor and the sleep
      SampleRateMC         the rates TLC looks at
      SampleRateProofs     theorems about it
    Gpio                   the GPIO driver next to the kernel
      GpioProofs           theorems about it
      GpioMC               the configurations TLC looks at

RaspdifStream takes a slot as a whole and the way to the wire as one step; Transmitter and Spdif are what
these two abstractions stand for. Lifecycle knows the drivers by their effect on memory, DMA and clock;
Transmitter repeats its order of calls with the registers behind them.

### RaspdifStream

One action per statement at which the DMA or the writer of the input can be
observed. `pc` names the place in `main()`:

| `pc` | Code | Actions |
|---|---|---|
| `preload` | loop 492-503 | `PreloadStore`, `PreloadEnd` |
| `start` | 507-515 | `Start` |
| `check`, `sleep` | 518-525 | `Check`, `Wake`, `Shutdown` (572) |
| `read` | 528 | `ReadFrame`, `Underrun` |
| `write` | 558-566 | `Write` |
| `fill_rest` | 356-361 | `FillRest` |
| `fill_check`, `fill_sleep`, `fill_write` | 365-382 | `FillCheck`, `FillWake`, `FillWrite`, `Idle` |
| `poll` | 535-551 | `Resume` |

The read of the control block and the store are separate steps, because the DMA
moves between them. An encoded frame is a record `[a, b, frame]`: the offset in
the input at which the bytes of either channel lie and the position in the
S/PDIF block. That is all the properties of the stream tell apart; the bits are the
subject of Spdif. `Quiet` stands for the samples of
`FILL_SAMPLE` with and without keep-alive.

`fread()` is modelled with what decides the program's fate: it takes the bytes
that are there, at most a frame; the bytes of an incomplete frame are gone; it
blocks during pre-load and not afterwards; EOF is reported only where no writer is left,
which for a FIFO opened `"r+b"` never happens. A partly delivered sample is `Torn`, a sample
of which no byte came keeps its former value.

The DMA and the PCM are one action, `Transmit`: the next slot in the loop of
control blocks goes to the wire if the channel is active and the transmitter is on.

The input is an unbounded sequence of bytes cut off at `MaxBytes`; its writer
adds one of `Chunks` bytes at a time. A file is there from the beginning, in every
length up to the bound.

### PacedStream

In RaspdifStream the program may be arbitrarily slow, and a program slow enough loses
audio. PacedStream adds what the design relies on: time, in frames on the wire.

- a sleep takes between `MinSleep` and `MaxSleep` frames;
- awake, the program uses at most `Lag` frames of time per buffer, so that the DMA may move that far between a look at
  `CONBLK_AD` and the last store that relies on it;
- of the first buffer after `poll()`, which ends with the DMA anywhere in the ring, it uses at most `ResumeLag`.

Program steps take no time otherwise. `poll()` takes any time. `microsleep()` asks for one buffer's
duration; `MaxSleep` is what the kernel makes of it.

### FrameQueue and PacedStreamQueue

FrameQueue is the promise: accepted frames leave in order, each at most once, with
any amount of silence between, none left out before the shutdown, after which there is nothing more. In the refinement
mapping the frames waiting are those in the ring that come later in the input than what was
last on the wire; overwriting an unsent frame takes it out of that set, which no
step of FrameQueue allows, and sending a frame again is no step of it either.
The mapping identifies a frame with its offset, so a frame stored twice in
succession counts once: that is the case of the very last frame of an input,
which `main()` encodes again after the `fread()` that meets the end (528, 558).

### Lifecycle

One action per call of `raspdif_init()`, of `main()` outside its loop, and of
`raspdif_shutdown()`; `pc` is the call that comes next. Between any two of them a
signal, SIGKILL or another client of the VideoCore may act.

| `pc` | Code | Action |
|---|---|---|
| `drivers` | `bcm283x_init()` | `InitDriver`, once per driver |
| `channel` | main.c 175 | `SaveChannel` |
| `allocate`, `lock`, `save` | main.c 179-184, memory.c 81-94 | `Allocate`, `Lock`, `SaveHandle` |
| `map` | main.c 189 | `MapMemory` |
| `reset_dma`, `load` | main.c 212-213 | `ResetDma`, `LoadControlBlock` |
| `set_clock`, `start_clock` | main.c 235-236 | `ConfigureClock`, `EnableClock` |
| `reset_pcm`, `configure_pcm`, `clear_fifos` | main.c 239-274 | `ResetPcm`, `ConfigurePcm`, `ClearFifos` |
| `open`, `preload`, `start_dma`, `start_pcm`, `stream` | main.c 472-572 | `OpenFile`, `Preload`, `EnableDma`, `EnablePcm`, `EndOfStream` |
| `stop_pcm`, `stop_clock`, `stop_dma`, `unlock`, `release`, `exit` | main.c 113-122, memory.c 107-124 | `StopPcm` ... `Exit` |

Part of the state is the process's (`drivers`, `channelSaved`, `handle`, `saved`,
`failed`, `handling`) and starts afresh with `Start`; the rest is the machine's and stays as it was left: the
VideoCore's handles (`memory`, `others`), the DMA channel, the clock and the PCM.
`handle` is the local of `raspdif_init()`, `saved` the global `raspdif.memory`, which is 0 before.
Handles the process gave back can be allocated by others at once; `others` says
which are theirs.

Signal handlers never return (397), so an interrupted step is not resumed and no
stack is kept: `Signal` goes to the first step of `raspdif_shutdown()`. `handling`
is the set of handlers entered, each of which blocks its own signal only
(`sa_mask` is empty). `Nested` says whether signals may come during `raspdif_shutdown()`.
A failed assertion raises SIGABRT: where its handler can do its work, that is the step
`Signal`; before the PCM driver has its base it cannot, which is the outcome `crashed`.

A request to the mailbox may fail (`MailboxErrors`) in the kernel or because
the device cannot be opened, the latter being fatal. `failed`, a history variable, records it. The firmware refuses to unlock
what is not locked; whether the driver sees that depends on the sign of the
status, so both continuations are there.

Left out: a second raspdif at the same time, the GPIO set-up (Gpio), and the switching
of `CS_A.TXON` in the stream with `-d` (Transmitter), which changes nothing for shutdown.

### StreamClaims

A sentence of a comment that the code does not always live up to. It is checked by a
run that ends in a counterexample (section 4), as are two properties of other modules.

### Transmitter

One word is the unit here, four to a frame. `pc` walks through the driver calls of `raspdif_init()` and
`main()`; with them run the channel and the peripheral.

| Part | Code | Actions |
|---|---|---|
| control blocks | main.c 131-160 | `ControlBlock` |
| DMA channel | bcm283x_dma.c 38-123 | `ResetDma`, `LoadControlBlock`, `EnableDma`, `StopDma`; hardware: `DmaRead`, `DmaWrite` |
| PCM | bcm283x_pcm.c 30-290 | `ResetPcm`, `ConfigurePcm`, `ConfigureDma`, `ConfigureChannels`, `ClearFifos`, `SyncZero`, `SyncOne`, `EnablePcm`, `Pause`, `Resume`, `StopPcm`; hardware: `PcmClock`, `Shift` |
| clock | bcm283x_clock.c | `ConfigureClock`, `EnableClock`, `StopClock` |
| the program's stores | main.c 520-566, 367-377 | `Look`: a buffer other than the one in `CONBLK_AD`; `Store`: one word of it, wherever the DMA is by then |

The hardware is modelled from what the code relies on: the DMA reads a word when `DREQ` asks for it and has
one word under way; the FIFO holds `FifoSize` words and loses what comes on top; a clear takes effect two PCM clocks
later, which is also when a written `SYNC` is echoed; without a running clock neither happens. `CONBLK_AD` moves with
the DMA, not with the wire. `Kill` leaves all of that as it is, the word under way included, and `Start`
finds it so; the wire's history `heard` begins anew with `bcm283x_pcm_enable()`.

Of a buffer's content it matters which rewriting it stems from, for which one bit is enough: `ring` has it for the whole
buffer, and while `writing` is at work there the words stored so far have the other value (`Content`). A word read by the DMA in
that time is marked `late`. How long the program takes between look and store is not bounded here; that it should be quicker than the DMA is PacedStream's
subject.

### Spdif

`Parse`, `Build` and `Send` are `raspdif_parse_sample()`, `spdif_build_subframe()` with
`spdif_encode_biphase_mark()`, and the way to the receiver, for one sub-frame after the other of a block. `stale` is
the parity bit that the sub-frame's memory still has from the block before. The lookup table and the preambles
are the numbers of spdif.c. The receiver, which is not part of the program, sees a sequence of levels and knows
the rules of biphase mark code and nothing else; from these it recovers preambles, samples and the channel status.

### SampleRate

`Divider` is main.c 215-229 for a `-r` of whole Hz: `modf()`, the fraction rounded to 12 bits, both
converted to `uint16_t`. `Accepted` and `Sleeps` are the assertions of `bcm283x_clock_configure()` and `microsleep()`; the
actions are the calls in their order, up to the first wait. `strtod()` returns 0 for what is not a number. A
member of `Plls` is PLLD's frequency over 128, which is a whole number of Hz on either kind of board.

### Gpio

A call of `bcm283x_gpio_configure()` becomes the list of its register accesses (`Accesses`), and each but the one to
`GPPUD` is two steps, `ReadRegister` and `WriteRegister`, with the register's copy `held` in between; `NextPin` is the loop of
`configure_mask()`. `KernelRead` and `KernelWrite` do the same to pins outside the mask: the driver works
through `/dev/mem` and the kernel's lock does not reach it. `KernelPud` and `KernelClock` are a pull that the kernel
changes: `GPPUD`, then the pad's clock on and off, each a write of the whole word. While a pad's clock is on it latches what is in `GPPUD`
(`Latch`), whoever wrote that. `raced`, a history variable, is set when one of the two writes
a register while the other has a copy of it, or `GPPUD` while the other's pull is under way.

## 3. Runs that pass

| Run | Module | Instance | Shows |
|---|---|---|---|
| `stream_async` | RaspdifStream | pipe or FIFO, 4-byte frames in pieces of 3 and 4 bytes, `-d`, 44 bytes | `TypeOK`, `IdleIsSilent`, `IdleLoopSeamless`, `WaitsOnlyOnRunningDma`, `NoUnsetSlotInPlay`, `PreloadInOrder`, `FramesWhole`, `EndsAfterInput` at any relative speed |
| `paced_pipe` | PacedStreamQueue | pipe or FIFO, 2-byte frames in pieces of 2 and 3 bytes, 22 bytes, `MaxSleep` 3, `Lag` 1, `ResumeLag` 0 | `ImplementsQueue`, `ProgramKeepsOffDma`, `AudioUnbroken`, `UnderrunEnds`, `EncodedAudioIsHeard`, `EndsWithInput` |
| `paced_file` | PacedStreamQueue | files of 0 to 50 bytes, `MaxSleep` 2, `Lag` 2 | `ImplementsQueue`, `BlocksUnbroken` |
| `life_once` | Lifecycle | 3 handles, 3 processes, failing mailbox, shutdown not interrupted | `TypeOK`, `DmaOverOwnMemory`, `OthersKeepMemory`, `ShutdownFreesSaved`, `ReprogramsIdleChannel` |
| `life_nested` | Lifecycle | 2 handles, 2 processes, 2 signals, failing mailbox, shutdown interrupted | `ShutdownStopsAll`, `SignalEnds` |
| `transmitter` | Transmitter | 3 buffers of 2 words, a FIFO of 3 with threshold 2, 2 processes | `TypeOK`, `WordsJoin`, `WordsInOrder`, `PassesAreWhole`, `GoesRound`, `SyncEnds` |
| `spdif` | Spdif | blocks of 192 frames, both formats, bytes 0, 1, 127, 128, 240, 255 | `ChangesAtEveryBit`, `LowBetweenSubframes`, `SampleArrives`, `StatusArrives` |
| `rate` | SampleRateMC | some 8000 rates, both kinds of board | `TypeOK`, `PlaysAtRate`, `RefusedOnlyAtCarry`, `UsualRatesPlay` |
| `gpio` | GpioMC | pins 20, 21, 31, 40; masks {21}, {20, 21}, {21, 40}; all event modes; one field or pull changed by the kernel | `OthersKeepSettings`, `ConfiguredAsAsked`, `EventsNeverMixed` |

The runs of the stream have a ring of 3 buffers of 2 frames, S/PDIF blocks of 3 frames and a
`sample_count` that wraps at 4. Three buffers as in the code; two frames per buffer distinguish
first, last and "in the middle"; a block of three is, as in the code,
no multiple of a buffer, while the ring is a multiple of a block (3 * 2048 = 32 * 192); the counter wraps at a
multiple of the buffer size as 2^32 is one of 2048, and does so many times. A pipe whose writer never closes it
behaves as a FIFO does. 44 bytes are 11 frames: 7 to pre-load (one of them dropped), the rest for up to four underruns, in
each of which all the ring is rewritten. 22 bytes are 11 frames of 2 bytes. 50 bytes let a file go round the ring four times.

Three processes are one that leaves the hardware running, one that finds it so and
may do the same, and one after that; three handles are one leaked, one in use and one of
another client's. Two signals are what nesting takes, as a third handler does what the second does.

In `transmitter` the first process leaves DMA, FIFO, clock, `SYNC` and the word under way in any state they can be in; the second
is judged against it. A buffer of two words has a first and a last, so that the DMA can come between its stores; the FIFO of 3 words and the word under way hold two
buffers, while in the code they hold a small part of one: the wire lags further behind `CONBLK_AD`
than it does in reality. The proofs (section 5) take a FIFO of any size.

In `spdif` a sub-frame's code depends on sample, status bit, stale parity and preamble alone; the bytes include both sides of the sign,
nibbles of all ones and all zeros, and both parities. The proofs (section 5) take any byte.

In `rate` the bound of 500 kHz comes from TLC's 32-bit integers (4096 times a rate). Rates up to 4000 include all
that wrap, all that `microsleep()` refuses and the limit in between; those next to a whole divisor are the ones
whose fraction rounds to 0 or 4096.

In `gpio` the pins share all registers with pin 21, all but `GPFSELx`, and none; one field or pull changed by the kernel is enough to
overlap with any access of the driver. The proofs take any pins, masks and number of changes.

Tolerance. The instances sit at the limit. For a file the properties hold as
long as `MaxSleep + Lag <= (BufferCount - 1) * BufferSize` and `Lag <= BufferSize`, and fail just
beyond (tried with buffers of 2 and 3 frames): a sleep may take up to twice the buffer's
duration it asks for if the program is otherwise instantaneous. For a FIFO the limits are the same
and `ResumeLag` must be 0: when `poll()` returns, the program may find the DMA at the last frame
before the buffer it is about to write, and any delay between that look and the store is one too many; buffers after the first
have the distance that a sleep or a whole buffer makes. (520-561 look once and
store later; the comment at 522, "If DMA is using current buffer, delay by approx 1
buffer's duration", relies on a distance that is not kept.) `paced_file` has the longest `Lag` with the sleep that leaves for it, `paced_pipe` a
sleep that overshoots by half a buffer and the rest of the tolerance as `Lag`.
At 44.1 kHz a frame lasts 23 microseconds. `Tolerance` in PacedStreamProofs is this condition, and the
hypothesis under which the properties are proved for every size of the ring.

Deadlock is checked in `spdif` and `gpio`. The others have `CHECK_DEADLOCK FALSE`: the program ends, and a FIFO whose writer
has reached `MaxBytes` leaves it in `poll()` with the transmitter off; a life cycle ends with the last process.

### Fairness

`FairSpec` has weak fairness of the program's steps and of the ticks, nothing
of the input. Weak fairness of the program: it is a runnable process, nothing
it waits for but input (`fread`, `poll`) is a condition of its own, and a step that is enabled
stays so until taken. Weak fairness of ticks: the PCM clock does not stop while the
transmitter is on. A writer owes nobody data, so nothing is
promised about a stream that never comes; `EndsWithInput` starts from the closing of the pipe.
Lifecycle's `FairSpec` has weak fairness of the steps of `raspdif_shutdown()` only: none of them waits
for anybody. Initialisation gets none, as `fread()` in the pre-load may block for ever.
Transmitter's has weak fairness of the driver calls (`Setup`), of the DMA, of `PcmClock` and of `Shift`: hardware that is asked
and clocked does its part. Nothing makes the program stream, pause or resume. SampleRate's has weak fairness
of `Next`: no call before the end of the first wait blocks.

## 4. Runs that end in a counterexample

| Run | Statement | What the code does |
|---|---|---|
| `claim_blocks` | `BlocksUnbroken`; main.c:287 "SPDIF block so proper frames can be encoded" | on resuming, `main()` writes at its own `buffer_index`, which is not where `raspdif_fill_buffers()` stopped; at the seam the block position jumps |
| `claim_channels` | `ChannelsAligned`; main.c:289 "Audio sample for first channel" | an underrun within a frame loses the bytes already read; from then on channels and bytes are shifted |
| `claim_double_release` | `OthersKeepMemory`; memory.c:104 "Memory struct of previously allocated physical memory" | a second signal during shutdown releases the handle again, when it may be another client's |

Seen while modelling, visible in the models, and not kept as runs of their own:

- main.c:492 reads before it tests the bound: with the ring full, one more frame is read and dropped. Hence the
  exception in `PreloadInOrder`.
- At the end of the input `raspdif_shutdown()` follows at once (TODO at main.c:569): up to a ring of
  encoded frames is not played, and a file shorter than the ring not at all.
- Neither DMA nor PCM is enabled before a ring's worth of frames and one more was read, so an
  empty FIFO does not give silence at first (README.md:128).
- `memory_map_physical()` exits by itself when it fails (memory.c:33), so that the clean-up after it at main.c:192 is never reached.
- A signal before main.c:175 makes `raspdif_shutdown()` stop DMA channel 0, since `raspdif.dma_channel` is
  still 0: the case distinction in `StopDma`, and the condition `channelSaved` in `ShutdownStopsAll`.
- A signal between the allocation and main.c:184, or a failing lock, leaves the handle to nobody: hence
  `saved` in `ShutdownFreesSaved`. A second signal between unlock and release does too, as the repeated unlock may fail.
- A signal before `bcm283x_pcm_init()` fails the assertion in `bcm283x_pcm_reset()`; `abort()` raises
  SIGABRT, whose handler fails it again: the outcome `crashed`.
- A rate whose divisor lies less than half a step below a whole number has a fraction that rounds to 4096, which
  `bcm283x_clock_configure()` asserts away: `RefusedOnlyAtCarry`. A rate above the clock's own frequency has an
  integer part of 0 and is refused as well. Rates from 954 Hz (1431 Hz on
  a Raspberry Pi 4) to 2048 Hz pass the divisor's check and fail the assertion of `microsleep()` at the first wait. So do some below
  60 Hz (90 Hz), whose divisor wraps around in its `uint16_t` before.
- Every access of the GPIO driver is a read, a change and a write; what the kernel writes to the same register in between is
  lost, and the other way round: hence `raced` in Gpio's properties. `GPPUD` keeps its last value.
- `bcm283x_pcm_configure_mode()` writes `FTXP` twice and `FRXP` never (bcm283x_pcm.c:230-231); both
  packings are off in raspdif, hence `WordsJoin` holds.
- The channel status says that no word is longer than 20 bits (spdif.c:165), while `s24le` uses aux for four more.

`ChannelsAligned` is bounded below by `FramesWhole`, which does hold: the two channels of a
slot always stem from one read, even if that read began at the wrong byte.

## 5. Proofs

`RaspdifStreamProofs` proves, for every ring, block, buffer size, input and piece
size that `StreamAssumption` and `BlocksFillRing` admit, and at any relative speed:

| Theorem | Statement | Argument |
|---|---|---|
| `TypeCorrect` | `Spec => []TypeOK` | inductive with two additions to plain typing: `buffer_index` is in the ring once pre-loading is over, and `fill_count < BufferCount` while a buffer is being filled, without which the count could run over |
| `SilentWhenIdle` | `Spec => []IdleIsSilent` | from `FillProgress` |
| `SeamlessWhenIdle` | `Spec => []IdleLoopSeamless` | from `FillProgress` and `BlocksFillRing` |
| `WaitsAreForMovingDma` | `Spec => []WaitsOnlyOnRunningDma` | from `DmaRuns` |
| `OnlyCodeInPlay` | `Spec => []NoUnsetSlotInPlay` | from `PreloadProgress` |
| `ChannelsBelongTogether` | `Spec => []FramesWhole` | with `FrameInHand`: what `samples[]` holds at the store |
| `PreloadedInOrder` | `Spec => []PreloadInOrder` | from `PreloadOrder`: where `fread()` has got to is where the next slot's bytes begin |
| `EndsOnlyAfterInput` | `Spec => []EndsAfterInput` | from `EofIsFinal`: EOF is seen only where nothing more can come |

`FillProgress` is the heart of it. Silence at `poll()` alone is not inductive: it says
nothing of the way there. The invariant says which slots the fill has covered so
far, counted backwards from the slot it is at (`BuffersSince`, `Filled`), that
these are silent, and that their positions in the block count back from `frame_index`
(`SlotsSince`). When `fill_count` reaches `BufferCount` that covers the whole
ring, including the part of the current buffer in front of the underrun. Its step
needs the arithmetic of wrapping counters: that `sample_count % BufferSize` moves by one and is zero
exactly when a buffer is full, also where the 32-bit counter wraps, which needs
`SampleCountMod % BufferSize = 0`. Those facts are in ModularArithmetic, from the definition of
`%` alone.

`PreloadOrder` relates three counters that no statement of the code compares: the bytes read, the slot
that `sample_count` and `buffer_index` point at, and the offsets already in the ring. Until the input ends the first is
`BytesBefore` the second, which also shows the one frame that is read and dropped when the ring is full.

`LifecycleProofs`, for any set of handles, any number of processes, and whether or not the mailbox fails:

| Theorem | Statement | Argument |
|---|---|---|
| `DmaStaysInOwnMemory` | `~Nested => (Spec => []DmaOverOwnMemory)` | inductive with `TypeOK`, `OthersKeepMemory` and `OwnMemory` |
| `OthersAreSafe` | `~Nested => (Spec => []OthersKeepMemory)` | likewise |
| `ReturnsWhatItSaved` | `~Nested => (Spec => []ShutdownFreesSaved)` | with `Returned`: what was given back is free or somebody else's, from `Release` on |
| `ReprogramsIdle` | `Spec => ReprogramsIdleChannel` | from `IdleAtLoad`; needs none of the others |
| `ShutdownIsComplete` | `Spec => []ShutdownStopsAll` | from `StoppedSoFar`; holds with nested signals too |
| `LifecycleTypeCorrect` | `~Nested => (Spec => []TypeOK)` | part of `LifecycleInv` |

`DmaOverOwnMemory` alone says nothing of who may unlock the memory under a running channel.
`OwnMemory` does: from allocation to release the handle is the process's and in a known state; once
the control block is loaded, the DMA points into it; and a process about to unlock has stopped the
DMA. What remains is memory of a process that died with its channel running: no
step of anybody gives it back, since only `saved` and members of `others` ever are. `~Nested` is needed: with
a second signal between `Release` and `Exit` the second theorem is false (`claim_double_release`).

`StoppedSoFar` says after which call of `raspdif_shutdown()` which part is off. A second signal goes back to the first of these
calls, and on the way nothing is switched on again.

`SampleRateProofs`, for every rate in whole Hz and every clock below 2049 * 4096 Hz (after the division by 128):

| Theorem | Statement | Argument |
|---|---|---|
| `RateTypeCorrect` | `Spec => []TypeOK` | the fields of `DIV` never get more than their 12 bits; part of `RateInv` |
| `PlaysWhatWasAskedFor` | `Spec => []PlaysAtRate` | a rate that reaches the stream passed `microsleep()`'s assertion and is over 2048 Hz, so the divisor did not wrap |
| `RefusesOnlyLostCarries` | `Spec => []RefusedOnlyAtCarry` | from 2049 Hz to the clock's frequency the integer part is in range; what is left is the fraction |

The lemmas below them say what rounded division does, from the definitions of `\div` and `%`. The bound on the clock is what ties
the two assertions together: a higher one would let a divisor wrap at a rate that `microsleep()` accepts. PLLD at 500 MHz and at 750 MHz is
well under it.

`TransmitterProofs`, for any ring, any FIFO and threshold and any number of processes:

| Theorem | Statement | Argument |
|---|---|---|
| `TransmitterTypeCorrect` | `Spec => []TypeOK` | part of `TransmitterInv`; `Len(fifo) <= FifoSize` is from `RoomForWord` |
| `WordsAlwaysJoin` | `Spec => []WordsJoin` | from `RegistersSet`: which of the four driver calls has put what into the registers |
| `WordsAreInOrder` | `Spec => WordsInOrder` | from `InOrder` |
| `PassesStayWhole` | `Spec => PassesAreWhole` | from `InOrder`, which includes the contents of words that are not `late` |

`InOrder` follows the words back from the pin through the FIFO to the word under way and to the DMA's registers: each is
the one after its neighbour (`Follows`), and of the same content where both are of one pass over a buffer and neither is `late`. That is preserved since only the DMA adds at one end,
only the wire takes from the other, and the program begins with a buffer only while the DMA is in another one: what the DMA has read of its
buffer, if it was not `late`, is still there as it was read (`StillAsRead`), whichever words of whichever buffer were stored since. It
starts at `start_dma`, with an empty FIFO, an idle channel and nothing under way, whatever a killed process had left: that is `SetUpInOrder`, for
which it matters that `bcm283x_pcm_sync()` returns only after the FIFO's clear has taken effect and that nothing asks the DMA for a word before.

`SpdifProofs`, for any set of bytes, both formats and blocks of up to 192 frames:

| Theorem | Statement | Argument |
|---|---|---|
| `LineReturnsToLow` | `Spec => []LowBetweenSubframes` | from `LowInv`: code that is about to be sent ends low |
| `LevelAlwaysChanges` | `Spec => []ChangesAtEveryBit` | from `SubframeInv`: the code to be sent is that of the bytes just read |
| `SampleAlwaysArrives` | `Spec => []SampleArrives` | from `SubframeInv` |
| `StatusAlwaysArrives` | `FrameCount >= 28 => (Spec => []StatusArrives)` | from `StatusInv`: the receiver holds one bit of the status per frame sent |

A byte of the code ends high exactly if the nibble has an odd number of ones (`LutParity`, over the whole table), and inversion
adds the parity of what came before (`EncodeParity`). Through the seven bytes that makes the parity of the sub-frame (`CodeEndsLow`), which
`spdif_build_subframe()` makes even from a parity bit it first clears (`SubframeEven`).

That the level changes and that cells decode to the bits they encode (`CodeTells`) is shown for each nibble of the table, for a byte from its two nibbles and the level it follows, and
for the sub-frame from its bytes. `SampleAlwaysArrives` then needs that the receiver's sum over bits is the number they are the
bits of, and that fields at their offsets do not disturb each other, for which `RawBits` splits the word
at each boundary. 28 frames carry the bits of the status that are not zero; the code's blocks have 192.

`GpioProofs`, for any set of pins, masks and configurations and any number of fields and pulls changed by the kernel:

| Theorem | Statement | Argument |
|---|---|---|
| `OthersAlwaysKeepSettings` | `Spec => []OthersKeepSettings` | from `RegistersSettled` and `PadsSettled` |
| `AlwaysConfiguredAsAsked` | `Spec => []ConfiguredAsAsked` | likewise, with `Progress` at its end for every pin |
| `EventsAreNeverMixed` | `Spec => []EventsNeverMixed` | likewise: up to the last clear no event is new, from there on none is old |

`GpioInv` counts how many of its accesses each pin of the mask has behind it (`Progress`): none, all, or, for the pin that the
call is at, some. A register's field is then what the last of these accesses to the register wrote, or the old one if there was none (`Settled`).
The step back into the register keeps that for the other pins only if the copy is fresh; `CopiesFresh` says of both callers that it is,
until their accesses meet. `PullsApart` says the same of `GPPUD`: from its writing to the end of the clock it is one caller's alone. So
while the kernel clocks a pull in, all pads' clocks of the mask are off (`ClocksOff`) and the other way round, and each pad latches what is meant for it: those of
the mask after the last access but one and at no other moment (`ClockLevel`). Which access is the last to
a register is a lemma about the sequence that `bcm283x_gpio_configure()` goes through (`LastAccess`, `PullAccess`), for every configuration.

`PacedStreamProofs`, for every ring, block, buffer size, input, piece size and pace that `StreamAssumption`,
`BlocksFillRing`, `PaceAssumption` and `Tolerance` (section 3) admit:

| Theorem | Statement | Argument |
|---|---|---|
| `DmaLeftAlone` | `Tolerance => (PacedSpec => ProgramKeepsOffDma)` | from `Pace` |
| `AudioContinues` | `Tolerance => (PacedSpec => AudioUnbroken)` | from `Blocks` and `Pace` |
| `FileBlocksContinue` | `Tolerance /\ Input = "file" => (PacedSpec => BlocksUnbroken)` | likewise |
| `RingIsQueue` | `Tolerance => (PacedSpec => ImplementsQueue)` | from `Order`, `ReadOrder` and `Pace`, action by action |

These look at the ring as one circle of slots (`Place`), on which DMA and program are two places and `Distance` says how many
frames the DMA needs from one to the other. `PacedStep` shows that every step of PacedStream is one of RaspdifStream, so that
the invariants above carry over.

- `Pace`. That the DMA is not in the program's buffer says nothing of when it will be. `InTime` does: `Ahead` is how far the DMA
  is beyond the beginning of that buffer, a sleep begins with less than a buffer of it, and an awake program has at least the rest of
  its `Lag` left before the DMA comes round; after `poll()` that rest is `ResumeLag`, which for a pipe is 0, up to the end of that buffer. `Tolerance` is what makes a sleep lead from the one to the other. `ShortInput` is the case in which
  the input ended during pre-loading: then `sample_count` stays where it was and the last slot unset, and nothing is ever stored.
- `Blocks`. Each slot's successor on the circle has the next position in the block, except at the slot to be written next, whose
  predecessor is continued by `frame_index`. When silence ends, the program resumes elsewhere than it stopped and that fails, hence `Continues`:
  of a pipe only audio frames have a successor, and `FileBlocksContinue`, which is about silence as well, needs a file: that has
  no underruns (`FilesNeverWait`). `claim_blocks` shows that it is false for a pipe.
- `ReadOrder` and `Order`. A slot's `Youth` says how many slots were written before it, so that along the circle from the
  program's place on the offsets rise, up to one repetition by the last frame of the input (`Repeat`). `Fresh` slots are those the DMA has not
  come to since; their frames are later than `sent`, all others are not. So the slot at the DMA's place, if it is fresh audio, is the oldest in
  `Waiting` and its transmission is `Play` (`TickPlaysOldest`); a store hits a slot that is not fresh, so it takes nothing out of
  `Waiting` and is `Accept` (`StoreIsAccept`), for which there is room because the slot it hits holds none of the frames waiting
  (`WaitingFits`). All other steps but the shutdown, which is `ShutDown`, leave the queue as it is.

`Tolerance` bounds the pace, not the sizes: with the code's 3 buffers of 2048 frames, `Lag` can be up to 2048 and a sleep up to
4096 less that. Before the proofs TLC checked `Pace`, `Blocks`, `ReadOrder` and `Order` as invariants of the instances of
`paced_file` and `paced_pipe`.

Only model-checked: the liveness properties
(`UnderrunEnds`, `EncodedAudioIsHeard`, `EndsWithInput`, `SignalEnds`, `GoesRound`, `SyncEnds`, `UsualRatesPlay`), which are out of this
prover's reach. Every other property that a passing run checks is proved.

## 6. Not modelled, and what could be added

Left out, and why:

- of the stream: the buffer of stdio between `fread()` and the file (it is one with the pipe: both only
  delay bytes), the values of `rand()`, messages, and the estimated latency;
- of the PCM driver: the receive half, which raspdif never enables, the panic levels of `DREQ_A`, and the checks of
  arguments that are constants here;
- of the clock driver: the wait for `BUSY` to clear, which ends when the hardware says so;
- of the mailbox: the layout of messages, and the request for the DMA channel mask, which nobody makes;
- `memory_allocate_virtual()`, which nobody calls;
- `argp`'s parsing, of which only the resulting options matter, and samples of 20 bits, for which there is no option;
- types, casts of addresses to 32 bits, register layouts in the headers beyond the fields the models name, and the build.

What could be added: weaker conditions than `ResumeLag = 0` under which the audio before and after an underrun, though not the silence
between, survives a program that is slow to resume.

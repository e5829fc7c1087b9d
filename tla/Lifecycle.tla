----------------------------- MODULE Lifecycle -----------------------------
(***************************************************************************)
(* From the start of a raspdif process to its end, and on to the next one:   *)
(* raspdif_init(), raspdif_shutdown() and signal_handler() of source/main.c,  *)
(* with the allocation of source/memory.c and the requests of                *)
(* source/mailbox.c.  What lies outside the process outlives it: the          *)
(* VideoCore's table of memory handles, which other clients use as well, and  *)
(* the DMA channel, the PCM peripheral and its clock.                       *)
(*                                                                         *)
(* pc is the step the process is about to take.  A signal's handler ends the *)
(* process, so nothing is ever resumed: a signal moves pc to the first step   *)
(* of raspdif_shutdown(), also from within it.                              *)
(***************************************************************************)
EXTENDS Integers

CONSTANTS
  Handles,    \* the VideoCore's memory handles
  Signals,    \* the signals register_signal_handler() lists
  Nested,     \* may a signal come while raspdif_shutdown() runs already?
  MailboxErrors, \* may a mailbox request fail?
  MaxStarts   \* bound: how often the program is started

ASSUME LifecycleAssumption ==
  /\ Handles \subseteq Nat \ {0}
  /\ Nested \in BOOLEAN
  /\ MailboxErrors \in BOOLEAN
  /\ MaxStarts \in Nat

VARIABLES
  pc,        \* the step the process takes next, or "off"
  outcome,   \* how the last process ended
  starts,    \* processes so far
  drivers,   \* peripheral drivers whose base address is set
  channelSaved, \* raspdif.dma_channel is the channel, no longer 0
  handle,    \* memory.handle in raspdif_init(), 0 before the allocation
  saved,     \* raspdif.memory.handle, 0 until it is saved
  failed,    \* history: a mailbox request of this process failed
  handling,  \* signals whose handlers are active, blocked meanwhile
  memory,    \* the VideoCore's table of handles
  others,    \* the handles other clients hold
  dmaActive, \* CS.ACTIVE of raspdif's DMA channel
  dmaMemory, \* the handle of the memory CONBLK_AD points into, 0 if none
  channel0,  \* CS.ACTIVE of DMA channel 0, at work for somebody else
  clockOn,   \* ENAB of the PCM clock
  pcm        \* "off", "ready" (EN), or "on" (EN and TXON)

processVars == <<drivers, channelSaved, handle, saved, failed, handling>>
tableVars   == <<memory, others>>
dmaVars     == <<dmaActive, dmaMemory, channel0>>
hardwareVars == <<dmaVars, clockOn, pcm>>
vars == <<pc, outcome, starts, processVars, tableVars, hardwareVars>>

Mapped  == {"map", "reset_dma", "load", "set_clock", "start_clock", "reset_pcm",
            "configure_pcm", "clear_fifos", "open", "preload", "start_dma", "start_pcm",
            "stream"}
InitSteps == {"drivers", "channel", "allocate", "lock", "save"} \cup Mapped
ShutdownSteps == {"stop_pcm", "stop_clock", "stop_dma", "unlock", "release", "exit"}

Init ==
  /\ pc = "off"
  /\ outcome = "none"
  /\ starts = 0
  /\ drivers = {}
  /\ channelSaved = FALSE
  /\ handle = 0
  /\ saved = 0
  /\ failed = FALSE
  /\ handling = {}
  /\ memory = [h \in Handles |-> "free"]
  /\ others = {}
  /\ dmaActive = FALSE
  /\ dmaMemory = 0
  /\ channel0 = TRUE
  /\ clockOn = FALSE
  /\ pcm = "off"

\* The process is gone, the hardware is as it was left.
End(how) == pc' = "off" /\ outcome' = how

Goto(step) == pc' = step /\ UNCHANGED outcome

\* LOGF: log_print() at the fatal level exits.
Fatal == End("fatal")

-----------------------------------------------------------------------------
(* raspdif_init() *)

Start ==
  /\ pc = "off"
  /\ starts < MaxStarts
  /\ starts' = starts + 1
  /\ Goto("drivers")
  /\ drivers' = {}
  /\ channelSaved' = FALSE
  /\ handle' = 0
  /\ saved' = 0
  /\ failed' = FALSE
  /\ handling' = {}
  /\ UNCHANGED <<tableVars, hardwareVars>>

NextDriver(ready) ==
  IF ready = {} THEN "clock" ELSE IF ready = {"clock"} THEN "gpio"
  ELSE IF "dma" \notin ready THEN "dma" ELSE "pcm"

\* bcm283x_init(): the peripherals are mapped, then each driver gets its base.
InitDriver ==
  /\ pc = "drivers"
  /\ \/ drivers = {} /\ Fatal /\ UNCHANGED drivers
     \/ /\ drivers' = drivers \cup {NextDriver(drivers)}
        /\ Goto(IF drivers' = {"clock", "gpio", "dma", "pcm"} THEN "channel" ELSE "drivers")
  /\ UNCHANGED <<starts, channelSaved, handle, saved, failed, handling, tableVars, hardwareVars>>

SaveChannel ==
  /\ pc = "channel"
  /\ channelSaved' = TRUE
  /\ Goto("allocate")
  /\ UNCHANGED <<starts, drivers, handle, saved, failed, handling, tableVars, hardwareVars>>

Allocate ==
  /\ pc = "allocate"
  /\ \/ \E h \in Handles :
          /\ memory[h] = "free"
          /\ memory' = [memory EXCEPT ![h] = "allocated"]
          /\ handle' = h
          /\ Goto("lock")
          /\ UNCHANGED failed
     \/ Fatal /\ failed' = TRUE /\ UNCHANGED <<memory, handle>>
  /\ UNCHANGED <<starts, drivers, channelSaved, saved, handling, others, hardwareVars>>

\* A failure to lock leaves the handle to nobody.
Lock ==
  /\ pc = "lock"
  /\ \/ /\ memory' = [memory EXCEPT ![handle] = "locked"]
        /\ Goto("save")
        /\ UNCHANGED failed
     \/ MailboxErrors /\ Fatal /\ failed' = TRUE /\ UNCHANGED memory
  /\ UNCHANGED <<starts, drivers, channelSaved, handle, saved, handling, others, hardwareVars>>

\* Mistake: raspdif_shutdown() is not told of the handle.
SkipSaveHandle ==
  /\ pc = "save"
  /\ Goto("map")
  /\ UNCHANGED <<starts, processVars, tableVars, hardwareVars>>

SaveHandle ==
  /\ pc = "save"
  /\ saved' = handle
  /\ Goto("map")
  /\ UNCHANGED <<starts, drivers, channelSaved, handle, failed, handling, tableVars, hardwareVars>>

\* memory_map_physical() exits itself: the caller's release is never reached.
MapMemory ==
  /\ pc = "map"
  /\ Goto("reset_dma") \/ Fatal
  /\ UNCHANGED <<starts, processVars, tableVars, hardwareVars>>

\* Mistake: a channel that a killed process left running is not stopped.
SkipResetDma ==
  /\ pc = "reset_dma"
  /\ Goto("load")
  /\ UNCHANGED <<starts, processVars, tableVars, hardwareVars>>

ResetDma ==
  /\ pc = "reset_dma"
  /\ dmaActive' = FALSE
  /\ dmaMemory' = 0
  /\ Goto("load")
  /\ UNCHANGED <<starts, processVars, tableVars, channel0, clockOn, pcm>>

LoadControlBlock ==
  /\ pc = "load"
  /\ dmaMemory' = handle
  /\ Goto("set_clock")
  /\ UNCHANGED <<starts, processVars, tableVars, dmaActive, channel0, clockOn, pcm>>

\* bcm283x_clock_configure() disables the clock to reprogram it.
ConfigureClock ==
  /\ pc = "set_clock"
  /\ clockOn' = FALSE
  /\ Goto("start_clock")
  /\ UNCHANGED <<starts, processVars, tableVars, dmaVars, pcm>>

EnableClock ==
  /\ pc = "start_clock"
  /\ clockOn' = TRUE
  /\ Goto("reset_pcm")
  /\ UNCHANGED <<starts, processVars, tableVars, dmaVars, pcm>>

ResetPcm ==
  /\ pc = "reset_pcm"
  /\ pcm' = "off"
  /\ Goto("configure_pcm")
  /\ UNCHANGED <<starts, processVars, tableVars, dmaVars, clockOn>>

ConfigurePcm ==
  /\ pc = "configure_pcm"
  /\ pcm' = "ready"
  /\ Goto("clear_fifos")
  /\ UNCHANGED <<starts, processVars, tableVars, dmaVars, clockOn>>

\* bcm283x_pcm_sync() waits for an echo that takes two PCM clocks.
ClearFifos ==
  /\ pc = "clear_fifos"
  /\ clockOn /\ pcm # "off"
  /\ Goto("open")
  /\ UNCHANGED <<starts, processVars, tableVars, hardwareVars>>

-----------------------------------------------------------------------------
(* main() *)

OpenFile ==
  /\ pc = "open"
  /\ Goto("preload") \/ Fatal
  /\ UNCHANGED <<starts, processVars, tableVars, hardwareVars>>

Preload ==
  /\ pc = "preload"
  /\ Goto("start_dma")
  /\ UNCHANGED <<starts, processVars, tableVars, hardwareVars>>

EnableDma ==
  /\ pc = "start_dma"
  /\ dmaActive' = TRUE
  /\ Goto("start_pcm")
  /\ UNCHANGED <<starts, processVars, tableVars, dmaMemory, channel0, clockOn, pcm>>

EnablePcm ==
  /\ pc = "start_pcm"
  /\ pcm' = "on"
  /\ Goto("stream")
  /\ UNCHANGED <<starts, processVars, tableVars, dmaVars, clockOn>>

EndOfStream ==
  /\ pc = "stream"
  /\ Goto("stop_pcm")
  /\ UNCHANGED <<starts, processVars, tableVars, hardwareVars>>

-----------------------------------------------------------------------------
(* raspdif_shutdown(), of main() or of a signal handler *)

\* Without a base address bcm283x_pcm_reset() asserts, abort() raises SIGABRT,
\* its handler asserts again, and so on until the stack is used up.
StopPcm ==
  /\ pc = "stop_pcm"
  /\ IF "pcm" \in drivers THEN pcm' = "off" /\ Goto("stop_clock")
     ELSE End("crashed") /\ UNCHANGED pcm
  /\ UNCHANGED <<starts, processVars, tableVars, dmaVars, clockOn>>

StopClock ==
  /\ pc = "stop_clock"
  /\ clockOn' = FALSE
  /\ Goto("stop_dma")
  /\ UNCHANGED <<starts, processVars, tableVars, dmaVars, pcm>>

\* Mistake: the channel stopped is not the one that was started.
StopChannel0 ==
  /\ pc = "stop_dma"
  /\ channel0' = FALSE
  /\ Goto("unlock")
  /\ UNCHANGED <<starts, processVars, tableVars, dmaActive, dmaMemory, clockOn, pcm>>

\* raspdif.dma_channel is 0 until it is saved.
StopDma ==
  /\ pc = "stop_dma"
  /\ IF channelSaved THEN dmaActive' = FALSE /\ UNCHANGED channel0
     ELSE channel0' = FALSE /\ UNCHANGED dmaActive
  /\ Goto("unlock")
  /\ UNCHANGED <<starts, processVars, tableVars, dmaMemory, clockOn, pcm>>

\* Mistake: what is unlocked is not given back.
UnlockOnly ==
  /\ pc = "unlock"
  /\ memory' = [h \in Handles |->
                 IF h = saved /\ memory[h] = "locked" THEN "allocated" ELSE memory[h]]
  /\ Goto("exit")
  /\ UNCHANGED <<starts, processVars, others, hardwareVars>>

(***************************************************************************)
(* A request to unlock or release may fail in the kernel (-1) or because the *)
(* mailbox cannot be opened (LOGF).  The firmware refuses to unlock what is   *)
(* not locked with a status, of which memory_release_physical() sees only    *)
(* whether it is negative.                                                 *)
(***************************************************************************)
Unlock ==
  /\ pc = "unlock"
  /\ \/ /\ saved \in Handles /\ memory[saved] = "locked"
        /\ memory' = [memory EXCEPT ![saved] = "allocated"]
        /\ Goto("release")
        /\ UNCHANGED failed
     \/ /\ ~(saved \in Handles /\ memory[saved] = "locked")
        /\ Goto("release") \/ Goto("exit")
        /\ UNCHANGED <<memory, failed>>
     \/ MailboxErrors /\ (Goto("exit") \/ Fatal) /\ failed' = TRUE /\ UNCHANGED memory
  /\ UNCHANGED <<starts, drivers, channelSaved, handle, saved, handling, others, hardwareVars>>

\* Mistake: a request that failed is repeated until it succeeds.
ReleaseRetrying ==
  /\ pc = "release"
  /\ \/ /\ saved \in Handles
        /\ memory' = [memory EXCEPT ![saved] = "free"]
        /\ Goto("exit")
     \/ (saved \notin Handles \/ MailboxErrors) /\ Goto("unlock") /\ UNCHANGED memory
  /\ UNCHANGED <<starts, processVars, others, hardwareVars>>

Release ==
  /\ pc = "release"
  /\ \/ /\ saved \in Handles
        /\ memory' = [memory EXCEPT ![saved] = "free"]
        /\ Goto("exit")
        /\ UNCHANGED failed
     \/ saved \notin Handles /\ Goto("exit") /\ UNCHANGED <<memory, failed>>
     \/ MailboxErrors /\ (Goto("exit") \/ Fatal) /\ failed' = TRUE /\ UNCHANGED memory
  /\ UNCHANGED <<starts, drivers, channelSaved, handle, saved, handling, others, hardwareVars>>

\* Mistake: the signal handler returns, and main() shuts down once more.
HandlerReturns ==
  /\ pc = "exit"
  /\ IF handling = {} THEN End("shutdown") ELSE Goto("stop_pcm")
  /\ handling' = {}
  /\ UNCHANGED <<starts, drivers, channelSaved, handle, saved, failed, tableVars, hardwareVars>>

Exit ==
  /\ pc = "exit"
  /\ End("shutdown")
  /\ UNCHANGED <<starts, processVars, tableVars, hardwareVars>>

-----------------------------------------------------------------------------
(* Everybody else *)

\* A handler is entered unless the same signal's is active already.
Signal ==
  /\ pc \in InitSteps \/ (Nested /\ pc \in ShutdownSteps)
  /\ \E s \in Signals \ handling : handling' = handling \cup {s}
  /\ Goto("stop_pcm")
  /\ UNCHANGED <<starts, drivers, channelSaved, handle, saved, failed, tableVars, hardwareVars>>

\* SIGKILL, or the kernel's lack of memory.
Kill ==
  /\ pc # "off"
  /\ End("killed")
  /\ UNCHANGED <<starts, processVars, tableVars, hardwareVars>>

OtherAllocates ==
  /\ \E h \in Handles :
       /\ memory[h] = "free"
       /\ memory' = [memory EXCEPT ![h] = "locked"]
       /\ others' = others \cup {h}
  /\ UNCHANGED <<pc, outcome, starts, processVars, hardwareVars>>

OtherReleases ==
  /\ \E h \in others :
       /\ memory' = [memory EXCEPT ![h] = "free"]
       /\ others' = others \ {h}
  /\ UNCHANGED <<pc, outcome, starts, processVars, hardwareVars>>

-----------------------------------------------------------------------------
Initialise ==
  \/ Start \/ InitDriver \/ SaveChannel \/ Allocate \/ Lock \/ SaveHandle \/ MapMemory
  \/ ResetDma \/ LoadControlBlock \/ ConfigureClock \/ EnableClock
  \/ ResetPcm \/ ConfigurePcm \/ ClearFifos

Main == OpenFile \/ Preload \/ EnableDma \/ EnablePcm \/ EndOfStream

Shutdown == StopPcm \/ StopClock \/ StopDma \/ Unlock \/ Release \/ Exit

Environment == Signal \/ Kill \/ OtherAllocates \/ OtherReleases

Next == Initialise \/ Main \/ Shutdown \/ Environment

Spec == Init /\ [][Next]_vars

\* raspdif_shutdown() waits for nobody.
FairSpec == Spec /\ WF_vars(Shutdown)
-----------------------------------------------------------------------------
(***************************************************************************)
(* Every variable has its type; from the moment the memory is in use          *)
(* raspdif_shutdown() knows its handle.                                     *)
(***************************************************************************)
TypeOK ==
  /\ pc \in InitSteps \cup ShutdownSteps \cup {"off"}
  /\ outcome \in {"none", "fatal", "shutdown", "crashed", "killed"}
  /\ starts \in 0 .. MaxStarts
  /\ drivers \subseteq {"clock", "gpio", "dma", "pcm"}
  /\ channelSaved \in BOOLEAN
  /\ handle \in Handles \cup {0}
  /\ saved \in {0, handle}
  /\ pc \in Mapped => saved # 0
  /\ failed \in BOOLEAN
  /\ handling \subseteq Signals
  /\ memory \in [Handles -> {"free", "allocated", "locked"}]
  /\ others \subseteq Handles
  /\ dmaActive \in BOOLEAN
  /\ dmaMemory \in Handles \cup {0}
  /\ channel0 \in BOOLEAN
  /\ clockOn \in BOOLEAN
  /\ pcm \in {"off", "ready", "on"}

(***************************************************************************)
(* The DMA never runs over memory that is not raspdif's: whenever the channel *)
(* is active, the blocks and buffers it loops over are locked and nobody      *)
(* else's, also when the process that started it is long gone.               *)
(***************************************************************************)
DmaOverOwnMemory ==
  dmaActive =>
    /\ dmaMemory \in Handles
    /\ memory[dmaMemory] = "locked"
    /\ dmaMemory \notin others

(***************************************************************************)
(* raspdif_init() reprograms the channel only while it stands still, whatever *)
(* a process killed before left it doing.                                   *)
(***************************************************************************)
ReprogramsIdleChannel ==
  [][dmaMemory' # dmaMemory /\ dmaMemory' # 0 => ~dmaActive]_vars

(***************************************************************************)
(* A process that shut down, at the end of its input or by a signal at any    *)
(* step after it knew its channel, leaves neither DMA nor PCM nor clock on.   *)
(***************************************************************************)
ShutdownStopsAll ==
  outcome = "shutdown" /\ pc = "off" /\ channelSaved => ~dmaActive /\ pcm = "off" /\ ~clockOn

(***************************************************************************)
(* What other clients of the VideoCore hold stays theirs.                   *)
(***************************************************************************)
OthersKeepMemory == \A h \in others : memory[h] = "locked"

(***************************************************************************)
(* Shutting down once the handle is saved returns the memory, provided that   *)
(* every request to the mailbox was answered.                               *)
(***************************************************************************)
ShutdownFreesSaved ==
  outcome = "shutdown" /\ pc = "off" /\ saved # 0 /\ ~failed =>
    memory[saved] = "free" \/ saved \in others

(***************************************************************************)
(* A signal ends the process, in whatever step of it, and in whatever way.    *)
(***************************************************************************)
SignalEnds == handling # {} ~> pc = "off" \/ handling = {}

-----------------------------------------------------------------------------
(* Why the memory under the DMA stays locked: who owns it at every step.      *)

Ours(h) == h \in Handles /\ h \notin others

Loaded == Mapped \ {"map", "reset_dma", "load"}

(***************************************************************************)
(* The handle is the process's own from its allocation to its release; a       *)
(* process that gives it back has stopped the DMA before.                    *)
(***************************************************************************)
OwnMemory ==
  /\ pc = "lock" => Ours(handle) /\ memory[handle] = "allocated"
  /\ pc \in {"save"} \cup Mapped => Ours(handle) /\ memory[handle] = "locked"
  /\ pc \in Loaded => dmaMemory = handle
  /\ pc \in Mapped => saved = handle /\ channelSaved
  /\ pc \in {"drivers", "channel", "allocate", "lock", "save"} => saved = 0
  /\ pc \in {"stop_pcm", "stop_clock", "stop_dma", "unlock"} /\ saved # 0 =>
       channelSaved /\ Ours(saved) /\ memory[saved] = "locked"
  /\ pc = "release" /\ saved # 0 => Ours(saved) /\ memory[saved] = "allocated"
  /\ pc \in {"unlock", "release"} /\ saved # 0 => ~dmaActive
  /\ pc \in {"allocate", "lock", "save"} => channelSaved

\* What a completed shutdown gave back is free, or somebody else's by now.
Returned ==
  (pc = "exit" \/ (pc = "off" /\ outcome = "shutdown")) /\ saved # 0 /\ ~failed =>
    memory[saved] = "free" \/ saved \in others

\* The channel stands still when its control block is about to be loaded.
IdleAtLoad == pc = "load" => ~dmaActive

\* What the calls of raspdif_shutdown() made so far have switched off stays off.
StoppedSoFar ==
  /\ pc \in ShutdownSteps \ {"stop_pcm"} => pcm = "off"
  /\ pc \in {"stop_dma", "unlock", "release", "exit"} => ~clockOn
  /\ pc \in {"unlock", "release", "exit"} /\ channelSaved => ~dmaActive
  /\ pc = "off" /\ outcome = "shutdown" =>
       pcm = "off" /\ ~clockOn /\ (channelSaved => ~dmaActive)

LifecycleInv == TypeOK /\ OwnMemory /\ OthersKeepMemory /\ DmaOverOwnMemory
=============================================================================

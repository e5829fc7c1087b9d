-------------------------- MODULE LifecycleProofs --------------------------
(***************************************************************************)
(* The DMA never loops over memory that raspdif does not own, across kills    *)
(* and restarts, failing requests and a signal at any step of a process, as    *)
(* long as no signal interrupts raspdif_shutdown() itself.  With such a       *)
(* signal it does not hold: see claim_double_release.cfg.                    *)
(***************************************************************************)
EXTENDS Lifecycle, TLAPS

LEMMA InitialInv == ASSUME LifecycleAssumption, Init PROVE LifecycleInv
<1>1. TypeOK
  <2>1. memory \in [Handles -> {"free", "allocated", "locked"}]  BY DEF Init
  <2>2. pc \notin Mapped  BY DEF Init, Mapped
  <2>3. starts \in 0 .. MaxStarts  BY DEF Init, LifecycleAssumption
  <2> QED  BY <2>1, <2>2, <2>3 DEF Init, TypeOK
<1>2. OwnMemory  BY DEF Init, OwnMemory, Mapped, Loaded
<1>3. OthersKeepMemory /\ DmaOverOwnMemory
  BY DEF Init, OthersKeepMemory, DmaOverOwnMemory
<1> QED  BY <1>1, <1>2, <1>3 DEF LifecycleInv

\* Start and the steps up to the allocation touch no memory and no hardware.
LEMMA BeforeMemory ==
  ASSUME LifecycleAssumption, LifecycleInv, Start \/ InitDriver \/ SaveChannel
  PROVE  LifecycleInv'
<1> USE DEF LifecycleInv, Goto, Fatal, End
<1>1. CASE Start
  <2>a. pc' = "drivers" /\ pc' \in InitSteps /\ pc' \notin Mapped
    BY <1>1 DEF Start, InitSteps, Mapped
  <2>b. starts' \in 0 .. MaxStarts  BY <1>1 DEF Start, TypeOK, LifecycleAssumption
  <2>1. TypeOK'
    BY <1>1, <2>a, <2>b DEF Start, TypeOK, tableVars, hardwareVars, dmaVars
  <2>2. OwnMemory'  BY <1>1 DEF Start, OwnMemory, Mapped, Loaded
  <2>3. (OthersKeepMemory /\ DmaOverOwnMemory)'
    BY <1>1 DEF Start, OthersKeepMemory, DmaOverOwnMemory, tableVars, hardwareVars, dmaVars
  <2> QED  BY <2>1, <2>2, <2>3
<1>2. CASE InitDriver
  <2>a. pc' \in {"off", "drivers", "channel"} /\ pc = "drivers"
    BY <1>2 DEF InitDriver
  <2>b. drivers' \subseteq {"clock", "gpio", "dma", "pcm"}
    BY <1>2 DEF InitDriver, NextDriver, TypeOK
  <2>c. outcome' \in {outcome, "fatal"}  BY <1>2 DEF InitDriver
  <2>1. TypeOK'
    BY <1>2, <2>a, <2>b, <2>c DEF InitDriver, TypeOK, InitSteps, Mapped, tableVars,
                             hardwareVars, dmaVars
  <2>2. OwnMemory'  BY <1>2, <2>a DEF InitDriver, OwnMemory, Mapped, Loaded
  <2>3. (OthersKeepMemory /\ DmaOverOwnMemory)'
    BY <1>2 DEF InitDriver, OthersKeepMemory, DmaOverOwnMemory, tableVars, hardwareVars,
                dmaVars
  <2> QED  BY <2>1, <2>2, <2>3
<1>3. CASE SaveChannel
  <2>1. TypeOK'
    BY <1>3 DEF SaveChannel, TypeOK, InitSteps, Mapped, tableVars, hardwareVars, dmaVars
  <2>2. OwnMemory'  BY <1>3 DEF SaveChannel, OwnMemory, Mapped, Loaded
  <2>3. (OthersKeepMemory /\ DmaOverOwnMemory)'
    BY <1>3 DEF SaveChannel, OthersKeepMemory, DmaOverOwnMemory, tableVars, hardwareVars,
                dmaVars
  <2> QED  BY <2>1, <2>2, <2>3
<1> QED  BY <1>1, <1>2, <1>3

\* A handle newly allocated is not the one under a DMA that still runs.
LEMMA TakesMemory ==
  ASSUME LifecycleAssumption, LifecycleInv, Allocate \/ Lock \/ SaveHandle \/ MapMemory
  PROVE  LifecycleInv'
<1> USE DEF LifecycleInv, Goto, Fatal, End
<1>1. CASE Allocate
  <2>1. CASE Fatal /\ UNCHANGED <<memory, handle>>
    BY <1>1, <2>1 DEF Allocate, TypeOK, OwnMemory, OthersKeepMemory, DmaOverOwnMemory,
                      Ours, InitSteps, Mapped, Loaded, hardwareVars, dmaVars
  <2>2. ASSUME NEW h \in Handles, memory[h] = "free", Goto("lock"), handle' = h,
               memory' = [memory EXCEPT ![h] = "allocated"]
        PROVE  LifecycleInv'
    <3>a. memory' \in [Handles -> {"free", "allocated", "locked"}]  BY <2>2 DEF TypeOK
    <3>b. pc' \in InitSteps /\ pc' \notin Mapped /\ saved = 0
      BY <1>1, <2>2 DEF Allocate, InitSteps, Mapped, OwnMemory
    <3>c. /\ UNCHANGED <<outcome, starts, drivers, channelSaved, saved, handling, others>>
          /\ UNCHANGED <<dmaActive, dmaMemory, channel0, clockOn, pcm>>
          /\ failed' \in BOOLEAN
      BY <1>1, <2>2 DEF Allocate, TypeOK, hardwareVars, dmaVars
    <3>1. TypeOK'
      BY <2>2, <3>a, <3>b, <3>c DEF TypeOK
    <3>2. h \notin others /\ memory'[h] = "allocated" /\ UNCHANGED others
      BY <1>1, <2>2 DEF Allocate, OthersKeepMemory, TypeOK
    <3>3. OwnMemory'  BY <1>1, <2>2, <3>2 DEF Allocate, OwnMemory, Ours, Mapped, Loaded
    <3>4. OthersKeepMemory'  BY <2>2, <3>2 DEF OthersKeepMemory, TypeOK
    <3>5. DmaOverOwnMemory'
      BY <1>1, <2>2, <3>2 DEF Allocate, DmaOverOwnMemory, TypeOK, hardwareVars, dmaVars
    <3> QED  BY <3>1, <3>3, <3>4, <3>5
  <2> QED  BY <1>1, <2>1, <2>2 DEF Allocate
<1>2. CASE Lock
  <2>1. CASE Fatal /\ UNCHANGED memory
    BY <1>2, <2>1 DEF Lock, TypeOK, OwnMemory, OthersKeepMemory, DmaOverOwnMemory,
                      Ours, InitSteps, Mapped, Loaded, processVars, hardwareVars, dmaVars
  <2>2. CASE memory' = [memory EXCEPT ![handle] = "locked"] /\ Goto("save")
    <3>a. memory' \in [Handles -> {"free", "allocated", "locked"}]  BY <2>2 DEF TypeOK
    <3>b. pc' \in InitSteps /\ pc' \notin Mapped  BY <2>2 DEF InitSteps, Mapped
    <3>1. TypeOK'
      BY <1>2, <2>2, <3>a, <3>b DEF Lock, TypeOK, processVars, hardwareVars, dmaVars
    <3>2. handle \in Handles /\ handle \notin others /\ saved = 0 /\ channelSaved
      BY <1>2 DEF Lock, OwnMemory, Ours
    <3>3. memory'[handle] = "locked"  BY <2>2, <3>2 DEF TypeOK
    <3>4. OwnMemory'
      BY <1>2, <2>2, <3>2, <3>3 DEF Lock, OwnMemory, Ours, Mapped, Loaded, processVars
    <3>5. OthersKeepMemory'  BY <1>2, <2>2, <3>2 DEF Lock, OthersKeepMemory, TypeOK
    <3>6. DmaOverOwnMemory'
      BY <1>2, <2>2, <3>2 DEF Lock, DmaOverOwnMemory, TypeOK, hardwareVars, dmaVars
    <3> QED  BY <3>1, <3>4, <3>5, <3>6
  <2> QED  BY <1>2, <2>1, <2>2 DEF Lock
<1>3. CASE SaveHandle
  <2>1. handle \in Handles /\ handle # 0
    BY <1>3 DEF SaveHandle, OwnMemory, Ours, LifecycleAssumption
  <2> QED
    BY <1>3, <2>1 DEF SaveHandle, TypeOK, OwnMemory, OthersKeepMemory, DmaOverOwnMemory,
                 Ours, InitSteps, Mapped, Loaded, tableVars, hardwareVars, dmaVars
<1>4. CASE MapMemory
  BY <1>4 DEF MapMemory, TypeOK, OwnMemory, OthersKeepMemory, DmaOverOwnMemory,
              Ours, InitSteps, Mapped, Loaded, processVars, tableVars, hardwareVars, dmaVars
<1> QED  BY <1>1, <1>2, <1>3, <1>4

\* The hardware is set up while the memory is locked and known for shutdown.
LEMMA UsesMemory ==
  ASSUME LifecycleAssumption, LifecycleInv,
         ResetDma \/ LoadControlBlock \/ ConfigureClock \/ EnableClock \/ ResetPcm
         \/ ConfigurePcm \/ ClearFifos \/ Main
  PROVE  LifecycleInv'
<1> USE DEF LifecycleInv, Goto, Fatal, End
<1>a. pc \in Mapped /\ (pc' \in Mapped \cup {"off", "stop_pcm"})
      /\ UNCHANGED <<starts, drivers, channelSaved, handle, saved, failed, handling, memory,
                     others, channel0>>
      /\ outcome' \in {outcome, "fatal"}
      /\ clockOn' \in BOOLEAN /\ pcm' \in {pcm, "off", "ready", "on"}
  BY DEF TypeOK, ResetDma, LoadControlBlock, ConfigureClock, EnableClock, ResetPcm, ConfigurePcm,
         ClearFifos, Main, OpenFile, Preload, EnableDma, EnablePcm, EndOfStream, Mapped,
         processVars, tableVars, hardwareVars, dmaVars
<1>b. Ours(handle) /\ memory[handle] = "locked" /\ saved = handle /\ channelSaved
      /\ saved # 0
  BY <1>a DEF OwnMemory, TypeOK
<1>1. CASE ResetDma
  <2>1. dmaActive' = FALSE /\ dmaMemory' = 0 /\ pc' = "load"  BY <1>1 DEF ResetDma
  <2>2. TypeOK'  BY <1>a, <1>b, <2>1 DEF TypeOK, InitSteps, Mapped
  <2>3. OwnMemory'  BY <1>a, <1>b, <2>1 DEF OwnMemory, Ours, Mapped, Loaded
  <2> QED  BY <1>a, <2>1, <2>2, <2>3 DEF OthersKeepMemory, DmaOverOwnMemory
<1>2. CASE LoadControlBlock
  <2>1. UNCHANGED dmaActive /\ dmaMemory' = handle /\ pc' = "set_clock"
    BY <1>2 DEF LoadControlBlock
  <2>2. TypeOK'  BY <1>a, <1>b, <2>1 DEF TypeOK, InitSteps, Mapped
  <2>3. OwnMemory'  BY <1>a, <1>b, <2>1 DEF OwnMemory, Ours, Mapped, Loaded
  <2> QED  BY <1>a, <1>b, <2>1, <2>2, <2>3 DEF OthersKeepMemory, DmaOverOwnMemory, Ours
<1>3. CASE ConfigureClock \/ EnableClock \/ ResetPcm \/ ConfigurePcm \/ ClearFifos
           \/ OpenFile \/ Preload \/ EnablePcm \/ EndOfStream
  <2>1. UNCHANGED <<dmaActive, dmaMemory>> /\ pc \in Loaded
        /\ pc' \in Loaded \cup {"off", "stop_pcm"}
    BY <1>3 DEF ConfigureClock, EnableClock, ResetPcm, ConfigurePcm, ClearFifos, OpenFile,
                Preload, EnablePcm, EndOfStream, hardwareVars, dmaVars, Mapped, Loaded
  <2>2. TypeOK'  BY <1>a, <1>b, <2>1 DEF TypeOK, InitSteps, ShutdownSteps, Mapped
  <2>3. OwnMemory'  BY <1>a, <1>b, <2>1 DEF OwnMemory, Ours, Mapped, Loaded
  <2> QED  BY <1>a, <2>1, <2>2, <2>3 DEF OthersKeepMemory, DmaOverOwnMemory
<1>4. CASE EnableDma
  <2>1. dmaActive' = TRUE /\ UNCHANGED dmaMemory /\ pc = "start_dma" /\ pc' = "start_pcm"
    BY <1>4 DEF EnableDma
  <2>2. TypeOK'  BY <1>a, <1>b, <2>1 DEF TypeOK, InitSteps, Mapped
  <2>3. OwnMemory'  BY <1>a, <1>b, <2>1 DEF OwnMemory, Ours, Mapped, Loaded
  <2>4. dmaMemory = handle  BY <2>1 DEF OwnMemory, Mapped, Loaded
  <2> QED  BY <1>a, <1>b, <2>1, <2>2, <2>3, <2>4 DEF OthersKeepMemory, DmaOverOwnMemory, Ours
<1> QED  BY <1>1, <1>2, <1>3, <1>4 DEF Main

\* raspdif_shutdown() stops the channel before it unlocks what it may loop over.
LEMMA ReturnsMemory ==
  ASSUME LifecycleAssumption, LifecycleInv, Shutdown
  PROVE  LifecycleInv'
<1> USE DEF LifecycleInv, Goto, Fatal, End
<1>1. CASE StopPcm \/ StopClock \/ Exit
  <2>1. pc \in {"stop_pcm", "stop_clock", "exit"}
        /\ pc' \in {"stop_clock", "stop_dma", "off"}
        /\ UNCHANGED <<starts, processVars, tableVars, dmaVars>>
        /\ outcome' \in {outcome, "crashed", "shutdown"}
        /\ clockOn' \in BOOLEAN /\ pcm' \in {pcm, "off"}
        /\ (pc = "exit" => pc' = "off")
    BY <1>1 DEF TypeOK, StopPcm, StopClock, Exit, hardwareVars
  <2>2. TypeOK'
    BY <2>1 DEF TypeOK, ShutdownSteps, Mapped, processVars, tableVars, dmaVars
  <2>3. OwnMemory'
    BY <2>1 DEF OwnMemory, Ours, Mapped, Loaded, processVars, tableVars, dmaVars
  <2> QED
    BY <2>1, <2>2, <2>3 DEF OthersKeepMemory, DmaOverOwnMemory, tableVars, dmaVars
<1>2. CASE StopDma
  <2>1. /\ pc = "stop_dma" /\ pc' = "unlock"
        /\ UNCHANGED <<outcome, starts, processVars, tableVars, dmaMemory, clockOn, pcm>>
        /\ dmaActive' \in BOOLEAN /\ channel0' \in BOOLEAN
        /\ dmaActive' => dmaActive
        /\ channelSaved => ~dmaActive'
    BY <1>2 DEF TypeOK, StopDma
  <2>2. TypeOK'  BY <2>1 DEF TypeOK, ShutdownSteps, Mapped, processVars, tableVars
  <2>3. OwnMemory'  BY <2>1 DEF OwnMemory, Ours, Mapped, Loaded, processVars, tableVars
  <2> QED
    BY <2>1, <2>2, <2>3 DEF OthersKeepMemory, DmaOverOwnMemory, tableVars
<1>3. CASE Unlock
  <2>1. pc = "unlock" /\ UNCHANGED <<starts, drivers, channelSaved, handle, saved, handling, others,
                                       hardwareVars>>
        /\ failed' \in BOOLEAN
    BY <1>3 DEF Unlock, TypeOK
  <2>2. saved # 0 => Ours(saved) /\ memory[saved] = "locked" /\ ~dmaActive
    BY <2>1 DEF OwnMemory
  <2>3. CASE saved # 0 /\ memory' = [memory EXCEPT ![saved] = "allocated"] /\ Goto("release")
    <3>1. memory'[saved] = "allocated"  BY <2>2, <2>3 DEF Ours, TypeOK
    <3>2. TypeOK'
      BY <2>1, <2>3 DEF TypeOK, ShutdownSteps, Mapped, processVars, hardwareVars, dmaVars
    <3>3. OwnMemory'
      BY <2>1, <2>2, <2>3, <3>1
      DEF OwnMemory, Ours, Mapped, Loaded, processVars, hardwareVars, dmaVars
    <3>4. OthersKeepMemory'
      BY <2>1, <2>2, <2>3 DEF OthersKeepMemory, Ours, TypeOK
    <3>5. DmaOverOwnMemory'
      BY <2>1, <2>2, <2>3 DEF DmaOverOwnMemory, hardwareVars, dmaVars
    <3> QED  BY <3>2, <3>3, <3>4, <3>5
  <2>4. CASE UNCHANGED memory /\ (Goto("exit") \/ Fatal \/ (Goto("release") /\ saved = 0))
    BY <2>1, <2>4 DEF TypeOK, OwnMemory, OthersKeepMemory, DmaOverOwnMemory, Ours,
                 ShutdownSteps, Mapped, Loaded, processVars, hardwareVars, dmaVars
  <2>5. saved \in Handles => saved # 0  BY DEF LifecycleAssumption
  <2> QED  BY <1>3, <2>2, <2>3, <2>4, <2>5 DEF Unlock, Ours
<1>4. CASE Release
  <2>1. pc = "release" /\ UNCHANGED <<starts, drivers, channelSaved, handle, saved, handling, others,
                                       hardwareVars>>
        /\ failed' \in BOOLEAN
    BY <1>4 DEF Release, TypeOK
  <2>2. saved \in Handles => saved # 0  BY DEF LifecycleAssumption
  <2>3. saved # 0 => Ours(saved) /\ memory[saved] = "allocated" /\ ~dmaActive
    BY <2>1 DEF OwnMemory
  <2>4. CASE saved \in Handles /\ memory' = [memory EXCEPT ![saved] = "free"] /\ Goto("exit")
    <3>2. TypeOK'
      BY <2>1, <2>4 DEF TypeOK, ShutdownSteps, Mapped, processVars, hardwareVars, dmaVars
    <3>3. OwnMemory'
      BY <2>1, <2>2, <2>3, <2>4
      DEF OwnMemory, Mapped, Loaded, processVars, hardwareVars, dmaVars
    <3>4. OthersKeepMemory'
      BY <2>1, <2>2, <2>3, <2>4 DEF OthersKeepMemory, Ours, TypeOK
    <3>5. DmaOverOwnMemory'
      BY <2>1, <2>2, <2>3, <2>4 DEF DmaOverOwnMemory, hardwareVars, dmaVars
    <3> QED  BY <3>2, <3>3, <3>4, <3>5
  <2>5. CASE UNCHANGED memory /\ (Goto("exit") \/ Fatal)
    BY <2>1, <2>5 DEF TypeOK, OwnMemory, OthersKeepMemory, DmaOverOwnMemory,
                 ShutdownSteps, Mapped, Loaded, processVars, hardwareVars, dmaVars
  <2> QED  BY <1>4, <2>4, <2>5 DEF Release
<1> QED  BY <1>1, <1>2, <1>3, <1>4 DEF Shutdown

\* Other clients get only what is free; a signal finds the handle saved, or not yet.
LEMMA EnvironmentStep ==
  ASSUME LifecycleAssumption, ~Nested, LifecycleInv, Environment
  PROVE  LifecycleInv'
<1> USE DEF LifecycleInv, Goto, End
<1>1. CASE Signal
  <2>1. /\ pc \in InitSteps /\ pc' = "stop_pcm"
        /\ UNCHANGED <<outcome, starts, drivers, channelSaved, handle, saved, failed,
                       tableVars, hardwareVars>>
        /\ handling' \subseteq Signals
    BY <1>1 DEF Signal, TypeOK
  <2>2. TypeOK'
    BY <2>1 DEF TypeOK, ShutdownSteps, Mapped, tableVars, hardwareVars, dmaVars
  <2>3. OwnMemory'
    BY <2>1 DEF OwnMemory, Ours, InitSteps, Mapped, Loaded, tableVars, hardwareVars, dmaVars
  <2> QED
    BY <2>1, <2>2, <2>3
    DEF OthersKeepMemory, DmaOverOwnMemory, tableVars, hardwareVars, dmaVars
<1>2. CASE Kill
  BY <1>2 DEF Kill, TypeOK, OwnMemory, OthersKeepMemory, DmaOverOwnMemory, Mapped, Loaded,
              processVars, tableVars, hardwareVars, dmaVars
<1>3. CASE OtherAllocates
  <2>1. PICK h \in Handles : /\ memory[h] = "free"
                             /\ memory' = [memory EXCEPT ![h] = "locked"]
                             /\ others' = others \cup {h}
    BY <1>3 DEF OtherAllocates
  <2>2. UNCHANGED <<pc, outcome, starts, processVars, hardwareVars>>
    BY <1>3 DEF OtherAllocates
  <2>3. \A x \in Handles : x # h => memory'[x] = memory[x]  BY <2>1 DEF TypeOK
  <2>4. TypeOK'  BY <2>1, <2>2 DEF TypeOK, processVars, hardwareVars, dmaVars
  <2>5. OwnMemory'
    BY <2>1, <2>2, <2>3 DEF OwnMemory, Ours, processVars, hardwareVars, dmaVars
  <2>6. OthersKeepMemory'  BY <2>1 DEF OthersKeepMemory, TypeOK
  <2>7. DmaOverOwnMemory'
    BY <2>1, <2>2, <2>3 DEF DmaOverOwnMemory, hardwareVars, dmaVars
  <2> QED  BY <2>4, <2>5, <2>6, <2>7
<1>4. CASE OtherReleases
  <2>1. PICK h \in others : /\ memory' = [memory EXCEPT ![h] = "free"]
                            /\ others' = others \ {h}
    BY <1>4 DEF OtherReleases
  <2>2. UNCHANGED <<pc, outcome, starts, processVars, hardwareVars>>
    BY <1>4 DEF OtherReleases
  <2>3. \A x \in Handles : x # h => memory'[x] = memory[x]  BY <2>1 DEF TypeOK
  <2>4. TypeOK'  BY <2>1, <2>2 DEF TypeOK, processVars, hardwareVars, dmaVars
  <2>5. OwnMemory'
    BY <2>1, <2>2, <2>3 DEF OwnMemory, Ours, processVars, hardwareVars, dmaVars
  <2>6. OthersKeepMemory'  BY <2>1, <2>3 DEF OthersKeepMemory, TypeOK
  <2>7. DmaOverOwnMemory'
    BY <2>1, <2>2, <2>3 DEF DmaOverOwnMemory, hardwareVars, dmaVars
  <2> QED  BY <2>4, <2>5, <2>6, <2>7
<1> QED  BY <1>1, <1>2, <1>3, <1>4 DEF Environment

LEMMA LifecycleInvariant ==
  ASSUME LifecycleAssumption, ~Nested PROVE Spec => []LifecycleInv
<1>1. Init => LifecycleInv  BY InitialInv
<1>2. LifecycleInv /\ [Next]_vars => LifecycleInv'
  <2> SUFFICES ASSUME LifecycleInv, [Next]_vars PROVE LifecycleInv'  OBVIOUS
  <2>1. CASE Next
    BY <2>1, BeforeMemory, TakesMemory, UsesMemory, ReturnsMemory, EnvironmentStep
    DEF Next, Initialise
  <2>2. CASE UNCHANGED vars
    BY <2>2 DEF vars, processVars, tableVars, hardwareVars, dmaVars, LifecycleInv, TypeOK,
                OwnMemory, Ours, OthersKeepMemory, DmaOverOwnMemory
  <2> QED  BY <2>1, <2>2
<1> QED  BY <1>1, <1>2, PTL DEF Spec

(***************************************************************************)
(* Whenever the DMA channel is active, what it loops over is locked and held  *)
(* by raspdif alone: through failing requests, kills and restarts.           *)
(***************************************************************************)
THEOREM DmaStaysInOwnMemory == ASSUME ~Nested PROVE Spec => []DmaOverOwnMemory
<1>1. LifecycleInv => DmaOverOwnMemory  BY DEF LifecycleInv
<1> QED  BY <1>1, LifecycleAssumption, LifecycleInvariant, PTL

(***************************************************************************)
(* raspdif never unlocks or releases memory that another client of the        *)
(* VideoCore holds.                                                        *)
(***************************************************************************)
THEOREM OthersAreSafe == ASSUME ~Nested PROVE Spec => []OthersKeepMemory
<1>1. LifecycleInv => OthersKeepMemory  BY DEF LifecycleInv
<1> QED  BY <1>1, LifecycleAssumption, LifecycleInvariant, PTL

\* What is given back stays given back, or is somebody else's.
LEMMA ReturnedStep ==
  ASSUME LifecycleAssumption, ~Nested, LifecycleInv, Returned, [Next]_vars
  PROVE  Returned'
<1> USE DEF Goto, Fatal, End
<1>1. CASE StopPcm \/ StopClock \/ StopDma \/ Exit
  BY <1>1 DEF StopPcm, StopClock, StopDma, Exit, Returned, processVars, tableVars
<1>2. CASE Unlock
  <2>1. pc = "unlock" /\ UNCHANGED saved /\ (saved # 0 => saved \in Handles /\ memory[saved] = "locked")
    BY <1>2 DEF Unlock, LifecycleInv, OwnMemory, Ours
  <2>2. saved # 0 => pc' = "release" \/ failed'  BY <1>2, <2>1 DEF Unlock
  <2>3. pc' = "off" => outcome' = "fatal"  BY <1>2 DEF Unlock
  <2> QED  BY <2>1, <2>2, <2>3 DEF Returned
<1>3. CASE Release
  <2>1. pc = "release" /\ UNCHANGED saved /\ (saved # 0 => saved \in Handles)
    BY <1>3 DEF Release, LifecycleInv, OwnMemory, Ours
  <2>2. saved # 0 => memory' = [memory EXCEPT ![saved] = "free"] \/ failed'
    BY <1>3, <2>1 DEF Release
  <2> QED  BY <2>1, <2>2 DEF Returned, LifecycleInv, TypeOK
<1>4. CASE OtherAllocates
  BY <1>4 DEF OtherAllocates, Returned, LifecycleInv, TypeOK, processVars
<1>5. CASE OtherReleases
  <2>1. PICK h \in others : /\ memory' = [memory EXCEPT ![h] = "free"]
                            /\ others' = others \ {h}
    BY <1>5 DEF OtherReleases
  <2>2. UNCHANGED <<pc, outcome, saved, failed>>  BY <1>5 DEF OtherReleases, processVars
  <2>3. h \in Handles /\ (\A x \in Handles : x # h => memory'[x] = memory[x])
        /\ memory'[h] = "free"
    BY <2>1 DEF LifecycleInv, TypeOK
  <2>4. saved = 0 \/ saved \in Handles  BY DEF LifecycleInv, TypeOK
  <2> QED  BY <2>1, <2>2, <2>3, <2>4 DEF Returned
<1>6. CASE Initialise \/ Main \/ Signal \/ Kill
  <2>1. pc' # "exit" /\ ~(pc' = "off" /\ outcome' = "shutdown")
    BY <1>6 DEF Initialise, Main, Start, InitDriver, SaveChannel, Allocate, Lock, SaveHandle,
                MapMemory, ResetDma, LoadControlBlock, ConfigureClock, EnableClock, ResetPcm,
                ConfigurePcm, ClearFifos, OpenFile, Preload, EnableDma, EnablePcm, EndOfStream,
                Signal, Kill
  <2> QED  BY <2>1 DEF Returned
<1>7. CASE UNCHANGED vars
  BY <1>7 DEF vars, processVars, tableVars, Returned
<1> QED  BY <1>1, <1>2, <1>3, <1>4, <1>5, <1>6, <1>7 DEF Next, Shutdown, Environment

(***************************************************************************)
(* A process that saved its handle and shut down has returned its memory,     *)
(* provided that the mailbox answered every request of it.                   *)
(***************************************************************************)
THEOREM ReturnsWhatItSaved == ASSUME ~Nested PROVE Spec => []ShutdownFreesSaved
<1>1. Init => Returned  BY DEF Init, Returned
<1>2. LifecycleInv /\ Returned /\ [Next]_vars => Returned'
  BY LifecycleAssumption, ReturnedStep
<1>3. Returned => ShutdownFreesSaved  BY DEF Returned, ShutdownFreesSaved
<1> QED  BY <1>1, <1>2, <1>3, LifecycleAssumption, LifecycleInvariant, PTL DEF Spec

\* Between the reset of the channel and the load of its control block nobody starts it.
LEMMA IdleStep == ASSUME IdleAtLoad, [Next]_vars PROVE IdleAtLoad'
<1> USE DEF Goto, Fatal, End, IdleAtLoad
<1>1. CASE ResetDma
  BY <1>1 DEF ResetDma
<1>2. CASE OtherAllocates \/ OtherReleases \/ UNCHANGED vars
  BY <1>2 DEF OtherAllocates, OtherReleases, vars, hardwareVars, dmaVars
<1>3. ASSUME Next, ~(ResetDma \/ OtherAllocates \/ OtherReleases) PROVE pc' # "load"
  BY <1>3 DEF Next, Initialise, Main, Shutdown, Environment, Start, InitDriver, SaveChannel,
              Allocate, Lock, SaveHandle, MapMemory, LoadControlBlock, ConfigureClock,
              EnableClock, ResetPcm, ConfigurePcm, ClearFifos, OpenFile, Preload, EnableDma,
              EnablePcm, EndOfStream, StopPcm, StopClock, StopDma, Unlock, Release, Exit,
              Signal, Kill
<1> QED  BY <1>1, <1>2, <1>3

(***************************************************************************)
(* The control block is loaded into a channel that stands still, whatever the *)
(* processes before left it doing; signals may come at any time.             *)
(***************************************************************************)
THEOREM ReprogramsIdle == Spec => ReprogramsIdleChannel
<1>1. Init => IdleAtLoad  BY DEF Init, IdleAtLoad
<1>2. IdleAtLoad /\ [Next]_vars => IdleAtLoad'  BY IdleStep
<1>3. IdleAtLoad /\ [Next]_vars => [dmaMemory' # dmaMemory /\ dmaMemory' # 0 => ~dmaActive]_vars
  <2> SUFFICES ASSUME IdleAtLoad, Next, dmaMemory' # dmaMemory, dmaMemory' # 0
               PROVE  ~dmaActive
    OBVIOUS
  <2>1. LoadControlBlock
    BY DEF Next, Initialise, Main, Shutdown, Environment, Start, InitDriver, SaveChannel,
           Allocate, Lock, SaveHandle, MapMemory, ResetDma, ConfigureClock,
           EnableClock, ResetPcm, ConfigurePcm, ClearFifos, OpenFile, Preload, EnableDma,
           EnablePcm, EndOfStream, StopPcm, StopClock, StopDma, Unlock, Release, Exit,
           Signal, Kill, OtherAllocates, OtherReleases, hardwareVars, dmaVars
  <2> QED  BY <2>1 DEF LoadControlBlock, IdleAtLoad
<1> QED  BY <1>1, <1>2, <1>3, PTL DEF Spec, ReprogramsIdleChannel

\* Nothing is switched on again between a call of raspdif_shutdown() and its end.
LEMMA StoppedStep == ASSUME StoppedSoFar, [Next]_vars PROVE StoppedSoFar'
<1> USE DEF Goto, Fatal, End, StoppedSoFar, ShutdownSteps
<1>1. CASE Initialise
  <2>1. pc' \in {"drivers", "channel", "allocate", "lock", "save", "map", "reset_dma", "load",
                 "set_clock", "start_clock", "reset_pcm", "configure_pcm", "clear_fifos", "open"}
        \/ (pc' = "off" /\ outcome' = "fatal")
    BY <1>1 DEF Initialise, Start, InitDriver, SaveChannel, Allocate, Lock, SaveHandle, MapMemory,
                ResetDma, LoadControlBlock, ConfigureClock, EnableClock, ResetPcm,
                ConfigurePcm, ClearFifos
  <2> QED  BY <2>1
<1>2. CASE Main
  BY <1>2 DEF Main, OpenFile, Preload, EnableDma, EnablePcm, EndOfStream
<1>3. CASE StopPcm
  BY <1>3 DEF StopPcm
<1>4. CASE StopClock
  BY <1>4 DEF StopClock
<1>5. CASE StopDma
  BY <1>5 DEF StopDma, processVars
<1>6. CASE Unlock \/ Release \/ Exit
  BY <1>6 DEF Unlock, Release, Exit, processVars, hardwareVars, dmaVars
<1>7. CASE Signal \/ Kill
  BY <1>7 DEF Signal, Kill
<1>8. CASE OtherAllocates \/ OtherReleases \/ UNCHANGED vars
  BY <1>8 DEF OtherAllocates, OtherReleases, vars, processVars, hardwareVars, dmaVars
<1> QED
  BY <1>1, <1>2, <1>3, <1>4, <1>5, <1>6, <1>7, <1>8 DEF Next, Shutdown, Environment

(***************************************************************************)
(* A process that shut down after it knew its channel leaves DMA, PCM and      *)
(* clock off, also where signals interrupt raspdif_shutdown() and however     *)
(* many of its requests to the mailbox fail.                                 *)
(***************************************************************************)
THEOREM ShutdownIsComplete == Spec => []ShutdownStopsAll
<1>1. Init => StoppedSoFar  BY DEF Init, StoppedSoFar, ShutdownSteps
<1>2. StoppedSoFar /\ [Next]_vars => StoppedSoFar'  BY StoppedStep
<1>3. StoppedSoFar => ShutdownStopsAll  BY DEF StoppedSoFar, ShutdownStopsAll
<1> QED  BY <1>1, <1>2, <1>3, PTL DEF Spec

(***************************************************************************)
(* Every variable of the life cycle keeps its type, and raspdif_shutdown()     *)
(* knows the handle from the moment the memory is in use, for as long as no    *)
(* signal interrupts it.                                                    *)
(***************************************************************************)
THEOREM LifecycleTypeCorrect == ASSUME ~Nested PROVE Spec => []TypeOK
<1>1. LifecycleInv => TypeOK  BY DEF LifecycleInv
<1> QED  BY <1>1, LifecycleAssumption, LifecycleInvariant, PTL
=============================================================================

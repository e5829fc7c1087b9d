---------------------------- MODULE PacedStream ----------------------------
(***************************************************************************)
(* RaspdifStream with the one relation between its parties that the code     *)
(* relies on: the DMA moves in real time and the program is quick.  The      *)
(* unit of time is one frame on the wire.  Per buffer the program is         *)
(* running (not asleep, not in poll()) for at most Lag frames' time, and for   *)
(* at most ResumeLag of them where it begins a buffer after poll(), with the   *)
(* DMA wherever it happens to be; its microsleep() of "approx 1 buffer's      *)
(* duration" ends between MinSleep and MaxSleep frames after it began.       *)
(***************************************************************************)
EXTENDS RaspdifStream

CONSTANTS MinSleep, MaxSleep, Lag, ResumeLag

ASSUME PaceAssumption ==
  /\ MinSleep \in Nat \ {0}
  /\ MaxSleep \in Nat /\ MaxSleep >= MinSleep
  /\ Lag \in Nat
  /\ ResumeLag \in 0 .. Lag

VARIABLES
  slept,  \* frames sent since the program went to sleep
  lag,    \* frames sent while the program was busy with this buffer
  sent    \* history: the audio frame last seen on the wire

pacedVars == <<vars, slept, lag, sent>>

Asleep  == pc \in {"sleep", "fill_sleep"}
BufferDone == Position # 0 /\ Position' = 0

PacedInit == Init /\ slept = 0 /\ lag = 0 /\ sent = -1

\* nanosleep() in microsleep() holds the program for its time, not longer.
PacedProgram ==
  /\ Program
  /\ Asleep => slept >= MinSleep
  /\ slept' = 0
  /\ lag' = IF pc = "poll" THEN Lag - ResumeLag
            ELSE IF Asleep' \/ pc' = "poll" \/ BufferDone THEN 0 ELSE lag
  /\ UNCHANGED sent

PacedSource == Source /\ UNCHANGED <<slept, lag, sent>>

\* One frame's time passes, as far as the program's deadlines let it.
Tick ==
  /\ Transmit
  /\ sent' = IF IsAudio(wire') THEN wire'.a ELSE sent
  /\ \/ Asleep /\ slept < MaxSleep /\ slept' = slept + 1 /\ UNCHANGED lag
     \/ pc = "poll" /\ UNCHANGED <<slept, lag>>
     \/ ~Asleep /\ pc # "poll" /\ lag < Lag /\ lag' = lag + 1 /\ UNCHANGED slept

PacedNext == PacedProgram \/ PacedSource \/ Tick

PacedSpec == PacedInit /\ [][PacedNext]_pacedVars

(***************************************************************************)
(* The kernel runs the program whenever it can run and the PCM clock keeps   *)
(* asking the DMA for frames.  Nobody has to provide input.                  *)
(***************************************************************************)
FairSpec == PacedSpec /\ WF_pacedVars(PacedProgram) /\ WF_pacedVars(Tick)

-----------------------------------------------------------------------------
(***************************************************************************)
(* The DMA never finds the program at work in the buffer it is in: no slot   *)
(* of the active block changes while the DMA is on.                          *)
(***************************************************************************)
ProgramKeepsOffDma ==
  [][dmaActive => ring'[dmaBlock] = ring[dmaBlock]]_pacedVars

(***************************************************************************)
(* The receiver sees the positions in the S/PDIF block count up without a    *)
(* break from one frame to the next, for as long as encoded frames go out.   *)
(***************************************************************************)
BlocksUnbroken ==
  [][wire.a # Unset /\ wire'.a # Unset =>
       wire'.frame = (wire.frame + 1) % FrameCount]_wire

(***************************************************************************)
(* Whatever follows a frame of audio on the wire continues its S/PDIF block:  *)
(* through the end of a buffer, into the silence of an underrun and across    *)
(* the end of a block.  Only where silence ends may the position jump.       *)
(***************************************************************************)
AudioUnbroken ==
  [][IsAudio(wire) /\ wire'.a # Unset =>
       wire'.frame = (wire.frame + 1) % FrameCount]_wire

(***************************************************************************)
(* Once raspdif_fill_buffers() is entered the program gets back to poll(),   *)
(* although the DMA may sit in the very buffer it wants at every look.       *)
(***************************************************************************)
UnderrunEnds == pc = "fill_rest" ~> pc = "poll"

(***************************************************************************)
(* Once nobody writes to the input any more the program shuts down, whether  *)
(* that happens while it streams, fills buffers or waits in poll().          *)
(***************************************************************************)
EndsWithInput == closed ~> pc = "done"
=============================================================================

------------------------- MODULE PacedStreamQueue -------------------------
(***************************************************************************)
(* PacedStream implements FrameQueue: the frames waiting are those in the    *)
(* ring that come later in the input than what was on the wire last.        *)
(***************************************************************************)
EXTENDS PacedStream

\* The frames that some slot of the ring holds.
InRing == {ring[b][p].a : b \in Buffers, p \in Offsets}

Waiting == IF pc = "done" THEN {} ELSE {t \in InRing : t > sent}

Queue == INSTANCE FrameQueue WITH
  Offsets  <- 0 .. MaxBytes,
  Silence  <- Quiet,
  Capacity <- BufferCount * BufferSize,
  waiting  <- Waiting,
  pin      <- IF IsAudio(wire) THEN wire.a ELSE Quiet,
  over     <- pc = "done"

(***************************************************************************)
(* Every behaviour of the ring is one of the queue: audio leaves in order,   *)
(* at most once, and none is overwritten before it was on the wire; what is   *)
(* still in the ring when the stream is shut down is all that is lost.        *)
(***************************************************************************)
ImplementsQueue == Queue!Spec

(***************************************************************************)
(* Once transmission runs, each encoded audio frame reaches the wire unless  *)
(* the stream ends first.                                                  *)
(***************************************************************************)
EncodedAudioIsHeard ==
  \A t \in 0 .. MaxBytes :
    (dmaActive /\ t \in Waiting) ~> (sent >= t \/ pc = "done")
=============================================================================

---------------------------- MODULE StreamClaims ----------------------------
(***************************************************************************)
(* What the README and the comments say of the stream and the code does not  *)
(* always do.  Each of these is the one property of a run that ends in a      *)
(* counterexample; so does BlocksUnbroken where the input runs dry.          *)
(***************************************************************************)
EXTENDS PacedStream

(***************************************************************************)
(* main.c:289, "sample_a Audio sample for first channel": whatever the       *)
(* pieces in which the input arrives, the first channel is encoded from the   *)
(* first half of a frame of the input.                                      *)
(***************************************************************************)
ChannelsAligned ==
  \A b \in Buffers : \A p \in Offsets :
    IsAudio(ring[b][p]) => ring[b][p].a % FrameBytes = 0
=============================================================================

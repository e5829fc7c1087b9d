----------------------------- MODULE FrameQueue -----------------------------
(***************************************************************************)
(* What raspdif promises of its ring of buffers: audio frames come out of    *)
(* the data pin in the order in which they were read, each at most once,     *)
(* and none of the accepted ones is left out until the stream is shut down;  *)
(* between them there may be any amount of silence.                         *)
(***************************************************************************)
EXTENDS Integers, FiniteSets

CONSTANTS Offsets,   \* the names of audio frames: their offsets in the input
          Silence,   \* what the pin carries when it is not an audio frame
          Capacity   \* how many frames may be waiting

VARIABLES waiting,  \* frames encoded and not yet out
          sent,     \* the last audio frame that went out
          pin,      \* what the pin carries now
          over      \* the stream was shut down

vars == <<waiting, sent, pin, over>>

Init == waiting = {} /\ sent = -1 /\ pin = Silence /\ over = FALSE

Accept ==
  /\ ~over
  /\ Cardinality(waiting) < Capacity
  /\ \E t \in Offsets :
       /\ \A w \in waiting \cup {sent} : t > w
       /\ waiting' = waiting \cup {t}
  /\ UNCHANGED <<sent, pin, over>>

Play ==
  /\ ~over
  /\ \E t \in waiting :
       /\ \A w \in waiting : t <= w
       /\ pin' = t
       /\ sent' = t
       /\ waiting' = waiting \ {t}
  /\ UNCHANGED over

Hush == ~over /\ pin' = Silence /\ UNCHANGED <<waiting, sent, over>>

\* Only once, and nothing comes after it.
ShutDown == ~over /\ over' = TRUE /\ waiting' = {} /\ UNCHANGED <<sent, pin>>

Next == Accept \/ Play \/ Hush \/ ShutDown

Spec == Init /\ [][Next]_vars
=============================================================================

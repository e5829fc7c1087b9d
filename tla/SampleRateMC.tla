---------------------------- MODULE SampleRateMC ----------------------------
(* The rates to look at: the low ones, the usual ones, and those on both sides *)
(* of a whole divisor.  None is above 500000, for 4096 times a rate is to fit  *)
(* into TLC's integers.                                                      *)
EXTENDS SampleRate

RatesToTry ==
  0 .. 4000 \cup UsualRates
    \cup {clock \div n : clock \in Plls, n \in 12 .. 1500}
    \cup {clock \div n + 1 : clock \in Plls, n \in 12 .. 1500}
=============================================================================

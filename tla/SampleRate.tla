------------------------------ MODULE SampleRate ------------------------------
(***************************************************************************)
(* What becomes of the number given with -r: the divisor raspdif_init()       *)
(* calculates, the assertions of bcm283x_clock_configure() and microsleep()    *)
(* it has to pass, in this order and with the clock switched on in between,    *)
(* and the fields of the clock's DIV register.                               *)
(*                                                                         *)
(* Rates are whole numbers of Hz.  Each bit of audio takes two clocks and a    *)
(* sub-frame 32 bits, so that the divisor is the PLL's frequency over 128      *)
(* times the rate; a member of Plls is the frequency over 128.               *)
(***************************************************************************)
EXTENDS Integers

CONSTANTS
  Rates,  \* the values of -r looked at; 0 is what strtod() makes of a word
  Plls    \* PLLD over 128: 500 MHz up to Raspberry Pi 3, 750 MHz on Raspberry Pi 4

ASSUME SampleRateAssumption ==
  /\ Rates \subseteq Nat
  /\ Plls \subseteq Nat \ {0}
  /\ \A p \in Plls : p < 2049 * 4096

VARIABLES
  rate,     \* arguments.sample_rate
  pll,      \* pll_freq_hz / 128, of the board the program runs on
  pc,
  clockOn,  \* ENAB of the PCM clock
  div       \* DIV of the PCM clock: fields of 12 bits each

vars == <<rate, pll, pc, clockOn, div>>
-----------------------------------------------------------------------------
(* The divisor. *)

\* Mistake: the fraction is cut off instead of rounded.
FractionCut(rest, hz) == (4096 * rest) \div hz

\* round(4096 * rest / hz)
Fraction(rest, hz) ==
  LET cut == (4096 * rest) \div hz
      left == (4096 * rest) % hz
  IN IF 2 * left >= hz THEN cut + 1 ELSE cut

\* Mistake: the fraction is that of the divisor itself, not of what modf() leaves of it.
DividerWhole(hz, clock) ==
  IF hz = 0 THEN [divi |-> 65535, divf |-> 0]
  ELSE [divi |-> (clock \div hz) % 65536,
        divf |-> (4096 * ((clock \div hz) % 16) + Fraction(clock % hz, hz)) % 65536]

(***************************************************************************)
(* The two halves as uint16_t.  For rates below 60 Hz, or 90 Hz on a Raspberry  *)
(* Pi 4, the conversion is undefined in C; compiled for the ARM or for x86 it   *)
(* keeps the lowest 16 bits.                                                *)
(* A rate of 0 gives an infinite divisor, converted to all ones or to nothing,  *)
(* refused either way.                                                      *)
(***************************************************************************)
Divider(hz, clock) ==
  IF hz = 0 THEN [divi |-> 65535, divf |-> 0]
  ELSE [divi |-> (clock \div hz) % 65536, divf |-> Fraction(clock % hz, hz)]

\* Mistake: the fraction is not looked at.
AcceptedByWholePart(d) == d.divi > 0 /\ d.divi < 4096

\* Mistake: the integer field is taken to have 10 bits.
AcceptedIfShort(d) == d.divi > 0 /\ d.divi < 1024 /\ d.divf >= 0 /\ d.divf < 4096

\* The assertions of bcm283x_clock_configure().
Accepted(d) == d.divi > 0 /\ d.divi < 4096 /\ d.divf >= 0 /\ d.divf < 4096

-----------------------------------------------------------------------------
(* The wait for the DMA. *)

\* 1e6 * (RASPDIF_BUFFER_SIZE / sample_rate), the argument of microsleep()
Wait(hz) == (2048 * 1000000) \div hz

\* Mistake: microsleep() takes every duration.
SleepsAnyTime(microseconds) == TRUE

\* The assertion of microsleep().
Sleeps(microseconds) == microseconds < 1000000

-----------------------------------------------------------------------------
Init ==
  /\ rate \in Rates
  /\ pll \in Plls
  /\ pc = "init"
  /\ clockOn = FALSE
  /\ div = [divi |-> 0, divf |-> 0]

\* raspdif_init() up to bcm283x_clock_configure()
ConfigureClock ==
  /\ pc = "init"
  /\ Accepted(Divider(rate, pll))
  /\ clockOn' = FALSE
  /\ div' = Divider(rate, pll)
  /\ pc' = "configured"
  /\ UNCHANGED <<rate, pll>>

ClockRefused ==
  /\ pc = "init"
  /\ ~ Accepted(Divider(rate, pll))
  /\ pc' = "abort"
  /\ UNCHANGED <<rate, pll, clockOn, div>>

EnableClock ==
  /\ pc = "configured"
  /\ clockOn' = TRUE
  /\ pc' = "wait"
  /\ UNCHANGED <<rate, pll, div>>

\* The transmission has just begun, so that the DMA is in the buffer to fill next.
FirstWait ==
  /\ pc = "wait"
  /\ Sleeps(Wait(rate))
  /\ pc' = "stream"
  /\ UNCHANGED <<rate, pll, clockOn, div>>

WaitRefused ==
  /\ pc = "wait"
  /\ ~ Sleeps(Wait(rate))
  /\ pc' = "abort"
  /\ UNCHANGED <<rate, pll, clockOn, div>>

\* SIGABRT runs signal_handler(), which shuts down and exits, as main() does in the end.
Shutdown ==
  /\ pc \in {"stream", "abort"}
  /\ clockOn' = FALSE
  /\ pc' = "exit"
  /\ UNCHANGED <<rate, pll, div>>

Next ==
  \/ ConfigureClock \/ ClockRefused \/ EnableClock \/ FirstWait \/ WaitRefused \/ Shutdown

Spec == Init /\ [][Next]_vars

\* No call blocks before the first wait, and that one is timed.
FairSpec == Spec /\ WF_vars(Next)
-----------------------------------------------------------------------------
\* A field of 12 bits.
Field == 0 .. 4095

TypeOK ==
  /\ rate \in Nat /\ pll \in Plls
  /\ pc \in {"init", "configured", "wait", "stream", "abort", "exit"}
  /\ clockOn \in BOOLEAN
  /\ div \in [divi : Field, divf : Field]

Distance(a, b) == IF a >= b THEN a - b ELSE b - a

(***************************************************************************)
(* What streams, streams at the rate asked for: the register holds the divisor *)
(* nearest to the one wanted, pll / rate, of all those with 12 binary places.  *)
(* The divisor's two halves are converted without a check, and wrap around for *)
(* rates too low; DMA and PCM begin to play these, and what ends that at the    *)
(* first wait is the assertion of microsleep(), made for another purpose.       *)
(***************************************************************************)
PlaysAtRate ==
  pc = "stream" =>
    LET rest == pll - rate * div.divi
    IN rest \in 0 .. rate - 1 /\ Distance(rate * div.divf, 4096 * rest) <= rate \div 2

(***************************************************************************)
(* Above 2048 Hz, and up to the clock's own frequency, a rate is refused only  *)
(* where the rounding of the fraction should have carried into the integer:    *)
(* the divisor wanted is less than half of the register's step below a whole   *)
(* number.                                                                 *)
(***************************************************************************)
RefusedOnlyAtCarry ==
  pc = "abort" /\ rate \in 2049 .. pll => 8192 * (rate - (pll % rate)) <= rate

UsualRates == {32000, 44100, 48000, 88200, 96000, 176400, 192000}

\* Why: the divisor of an accepted rate and the wait of one that streams are in bounds.
RateInv ==
  /\ TypeOK
  /\ pc \in {"configured", "wait", "stream"} => div = Divider(rate, pll) /\ Accepted(div)
  /\ pc = "stream" => Sleeps(Wait(rate))
  /\ RefusedOnlyAtCarry

(***************************************************************************)
(* The rates S/PDIF equipment knows pass all assertions, on every board.      *)
(***************************************************************************)
UsualRatesPlay == pc = "init" /\ rate \in UsualRates ~> pc = "stream"
=============================================================================

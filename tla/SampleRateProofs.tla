-------------------------- MODULE SampleRateProofs --------------------------
(***************************************************************************)
(* Theorems of SampleRate, for every set of whole rates and every clock up to  *)
(* SampleRateAssumption's bound: what plays, plays at its rate; what is        *)
(* refused above 2048 Hz is refused because of a lost carry.                  *)
(***************************************************************************)
EXTENDS SampleRate, ModularArithmetic

\* The fraction is the nearest number of 4096ths; it is 4096 only just below a whole.
LEMMA FractionNearest ==
  ASSUME NEW hz \in Nat \ {0}, NEW rest \in 0 .. hz - 1
  PROVE  /\ Fraction(rest, hz) \in Nat /\ Fraction(rest, hz) <= 4096
         /\ Distance(hz * Fraction(rest, hz), 4096 * rest) <= hz \div 2
         /\ Fraction(rest, hz) = 4096 => 8192 * (hz - rest) <= hz
<1> DEFINE parts == 4096 * rest
           cut == parts \div hz
           left == parts % hz
           half == hz \div 2
<1>a. parts \in Nat  OBVIOUS
<1>b. parts = 4096 * rest  OBVIOUS
<1>3. Fraction(rest, hz) = IF 2 * left >= hz THEN cut + 1 ELSE cut
  BY DEF Fraction
<1> HIDE DEF parts
<1>c. parts = hz * cut + left /\ cut \in Nat /\ left \in 0 .. hz - 1
  BY <1>a, Division
<1>1. 4096 * rest = hz * cut + left /\ cut \in Nat /\ left \in 0 .. hz - 1
  BY <1>b, <1>c
<1>2. half \in Nat /\ (hz = 2 * half \/ hz = 2 * half + 1)  OBVIOUS
<1> HIDE DEF cut, left, half
<1>4. cut < 4096
  <2> SUFFICES ASSUME cut >= 4096 PROVE FALSE  BY <1>1
  <2>1. hz * 4096 <= hz * cut
    <3>1. CASE cut = 4096  BY <3>1
    <3>2. CASE 4096 < cut  BY <3>2, <1>1, MultiplesApart
    <3> QED  BY <3>1, <3>2, <1>1
  <2> QED  BY <2>1, <1>1
<1>5. CASE 2 * left >= hz
  <2>1. hz * (cut + 1) = hz * cut + hz  BY <1>1
  <2>2. hz * (cut + 1) - 4096 * rest = hz - left  BY <2>1, <1>1
  <2>3. Distance(hz * (cut + 1), 4096 * rest) = hz - left
    BY <2>2, <1>1 DEF Distance
  <2>4. hz - left <= half  BY <1>1, <1>2, <1>5
  <2>5. cut + 1 = 4096 => 8192 * (hz - rest) <= hz
    <3> SUFFICES ASSUME cut = 4095 PROVE 8192 * (hz - rest) <= hz  BY <1>1
    <3>1. 4096 * rest = 4095 * hz + left  BY <1>1
    <3> QED  BY <3>1, <1>1, <1>5
  <2> QED  BY <2>3, <2>4, <2>5, <1>1, <1>3, <1>4, <1>5 DEF half
<1>6. CASE ~ (2 * left >= hz)
  <2>1. Distance(hz * cut, 4096 * rest) = left
    <3>1. hz * cut \in Nat  BY <1>1
    <3> QED  BY <3>1, <1>1 DEF Distance
  <2>2. left <= half  BY <1>1, <1>2, <1>6
  <2> QED  BY <2>1, <2>2, <1>1, <1>3, <1>4, <1>6 DEF half
<1> QED  BY <1>5, <1>6

LEMMA FractionRange ==
  ASSUME NEW hz \in Nat \ {0}, NEW rest \in 0 .. hz - 1
  PROVE  Fraction(rest, hz) \in Nat /\ Fraction(rest, hz) <= 4096
BY FractionNearest

LEMMA FractionCarry ==
  ASSUME NEW hz \in Nat \ {0}, NEW rest \in 0 .. hz - 1, Fraction(rest, hz) = 4096
  PROVE  8192 * (hz - rest) <= hz
BY FractionNearest

\* A quotient is below m exactly if the divisor is above the dividend's m-th part.
LEMMA QuotientBelow ==
  ASSUME NEW k \in Nat, NEW m \in Nat \ {0}, NEW hz \in Nat \ {0}
  PROVE  (k * m) \div hz < m <=> hz > k
<1> DEFINE n == k * m
           wait == n \div hz
           rest == n % hz
<1>a. n \in Nat  OBVIOUS
<1>b. n = m * k  OBVIOUS
<1> HIDE DEF n
<1>1. n = hz * wait + rest /\ wait \in Nat /\ rest \in 0 .. hz - 1
  BY <1>a, Division
<1> HIDE DEF wait, rest
<1>3. ASSUME wait < m PROVE hz > k
  <2>1. hz * wait + hz <= hz * m  BY <1>1, <1>3, MultiplesApart
  <2>2. m * k < hz * m  BY <2>1, <1>1, <1>b
  <2>3. CASE hz = k  BY <2>2, <2>3
  <2>4. CASE hz < k
    <3>1. m * hz + m <= m * k  BY <2>4, MultiplesApart
    <3>2. m * hz = hz * m  OBVIOUS
    <3> QED  BY <3>1, <3>2, <2>2
  <2> QED  BY <2>3, <2>4
<1>4. ASSUME hz > k PROVE wait < m
  <2>1. m * k + m <= m * hz  BY <1>4, MultiplesApart
  <2>2. hz * wait < hz * m
    <3>1. m * hz = hz * m  OBVIOUS
    <3> QED  BY <2>1, <3>1, <1>1, <1>b
  <2>3. CASE wait = m  BY <2>2, <2>3
  <2>4. CASE m < wait
    <3>1. hz * m + hz <= hz * wait  BY <2>4, <1>1, MultiplesApart
    <3> QED  BY <3>1, <2>2, <1>1
  <2> QED  BY <2>3, <2>4, <1>1
<1> QED  BY <1>3, <1>4 DEF wait, n

\* microsleep() takes the buffer's duration only above 2048 Hz.
LEMMA SleepBoundsRate ==
  ASSUME NEW hz \in Nat \ {0}
  PROVE  Sleeps(Wait(hz)) <=> hz > 2048
BY QuotientBelow, SMT DEF Sleeps, Wait

\* The two parts of a divisor, before they are converted.
Whole(hz, clock) == clock \div hz
Rest(hz, clock) == clock % hz

\* The largest clock whose whole part fits its field at every rate above 2048 Hz.
ClockBound == 2049 * 4096

LEMMA DividerParts ==
  ASSUME NEW hz \in Nat \ {0}, NEW clock \in Nat \ {0}
  PROVE  /\ clock = hz * Whole(hz, clock) + Rest(hz, clock)
         /\ Whole(hz, clock) \in Nat
         /\ Rest(hz, clock) \in 0 .. hz - 1
BY Division DEF Whole, Rest

LEMMA DividerIs ==
  ASSUME NEW hz \in Nat \ {0}, NEW clock \in Nat \ {0}
  PROVE  Divider(hz, clock) = [divi |-> Whole(hz, clock) % 65536,
                               divf |-> Fraction(Rest(hz, clock), hz)]
BY SMT DEF Divider, Whole, Rest

\* Above 2048 Hz the whole part of the divisor does not exceed its field.
LEMMA WholePartFits ==
  ASSUME NEW hz \in Nat \ {0}, hz > 2048, NEW clock \in Nat \ {0}, clock < ClockBound
  PROVE  /\ Whole(hz, clock) \in Nat /\ Whole(hz, clock) < 4096
         /\ Divider(hz, clock).divi = Whole(hz, clock)
<1> DEFINE whole == Whole(hz, clock)
           rest == Rest(hz, clock)
<1>1. clock = hz * whole + rest /\ whole \in Nat /\ rest \in 0 .. hz - 1
  BY DividerParts
<1>2. Divider(hz, clock).divi = whole % 65536  BY DividerIs, SMT
<1> HIDE DEF whole, rest
<1>3. whole < 4096
  <2> SUFFICES ASSUME whole >= 4096 PROVE FALSE  BY <1>1
  <2>1. hz * 4096 <= hz * whole
    <3>1. CASE whole = 4096  BY <3>1
    <3>2. CASE 4096 < whole  BY <3>2, <1>1, MultiplesApart
    <3> QED  BY <3>1, <3>2, <1>1
  <2> QED  BY <2>1, <1>1 DEF ClockBound
<1>4. whole % 65536 = whole  BY <1>1, <1>3, SMT
<1> QED  BY <1>1, <1>2, <1>3, <1>4 DEF whole

\* Every divisor consists of two whole numbers.
LEMMA DividerType ==
  ASSUME NEW hz \in Nat, NEW clock \in Nat \ {0}
  PROVE  Divider(hz, clock) \in [divi : Nat, divf : Nat]
<1>1. CASE hz = 0  BY <1>1, SMT DEF Divider
<1>2. CASE hz # 0
  <2> DEFINE whole == Whole(hz, clock)
             rest == Rest(hz, clock)
  <2>0. hz \in Nat \ {0}  BY <1>2
  <2>1. Divider(hz, clock) = [divi |-> whole % 65536, divf |-> Fraction(rest, hz)]
    BY <2>0, DividerIs
  <2>2. whole \in Nat /\ rest \in 0 .. hz - 1  BY <2>0, DividerParts
  <2> HIDE DEF whole, rest
  <2>3. Fraction(rest, hz) \in Nat /\ Fraction(rest, hz) <= 4096  BY <2>0, <2>2, FractionRange
  <2>4. whole % 65536 \in Nat  BY <2>2, SMT
  <2>5. Fraction(rest, hz) \in Nat  BY <2>3
  <2> QED  BY <2>1, <2>4, <2>5
<1> QED  BY <1>1, <1>2

\* An accepted divisor fits into the register's two fields.
LEMMA AcceptedFits ==
  ASSUME NEW d \in [divi : Nat, divf : Nat], Accepted(d)
  PROVE  d \in [divi : Field, divf : Field]
<1>1. PICK a \in Nat, b \in Nat : d = [divi |-> a, divf |-> b]  OBVIOUS
<1>2. a < 4096 /\ b < 4096  BY <1>1 DEF Accepted
<1>3. a \in Field /\ b \in Field  BY <1>2 DEF Field
<1> QED  BY <1>1, <1>3

\* What bcm283x_clock_configure() refuses above 2048 Hz is a fraction of 4096.
LEMMA RefusedFraction ==
  ASSUME NEW hz \in Nat \ {0}, hz > 2048, NEW clock \in Nat \ {0}, clock < ClockBound,
         hz <= clock, ~ Accepted(Divider(hz, clock))
  PROVE  8192 * (hz - Rest(hz, clock)) <= hz
<1> DEFINE whole == Whole(hz, clock)
           rest == Rest(hz, clock)
           d == Divider(hz, clock)
<1>1. clock = hz * whole + rest /\ rest \in 0 .. hz - 1  BY DividerParts
<1>2. whole \in Nat /\ whole < 4096 /\ d.divi = whole  BY WholePartFits
<1>3. d.divf = Fraction(rest, hz)  BY DividerIs
<1>4. ~ (d.divi > 0 /\ d.divi < 4096 /\ d.divf >= 0 /\ d.divf < 4096)  BY DEF Accepted
<1> HIDE DEF whole, rest, d
<1>5. Fraction(rest, hz) \in Nat /\ Fraction(rest, hz) <= 4096  BY <1>1, FractionRange
<1>6. whole # 0
  <2> SUFFICES ASSUME whole = 0 PROVE FALSE  OBVIOUS
  <2> QED  BY <1>1
<1>7. Fraction(rest, hz) = 4096  BY <1>2, <1>3, <1>4, <1>5, <1>6
<1> QED  BY <1>1, <1>7, FractionCarry DEF rest

\* Type correctness before a step, and what it takes after one.
LEMMA TypeParts ==
  /\ TypeOK => /\ rate \in Nat /\ pll \in Plls /\ clockOn \in BOOLEAN
               /\ div \in [divi : Field, divf : Field]
               /\ pc \in {"init", "configured", "wait", "stream", "abort", "exit"}
  /\ (/\ rate' \in Nat /\ pll' \in Plls /\ clockOn' \in BOOLEAN
      /\ div' \in [divi : Field, divf : Field]
      /\ pc' \in {"init", "configured", "wait", "stream", "abort", "exit"}) => TypeOK'
BY DEF TypeOK

LEMMA RateInvariant == ASSUME SampleRateAssumption PROVE Spec => []RateInv
<1>1. Init => RateInv
  <2> SUFFICES ASSUME Init PROVE RateInv  OBVIOUS
  <2>1. rate \in Nat /\ pll \in Plls  BY SampleRateAssumption DEF Init, SampleRateAssumption
  <2>a. 0 \in Field  BY DEF Field
  <2>b. div \in [divi : Field, divf : Field]  BY <2>a DEF Init
  <2>2. clockOn \in BOOLEAN /\ div \in [divi : Field, divf : Field]  BY <2>b DEF Init
  <2>3. pc \in {"init", "configured", "wait", "stream", "abort", "exit"}  BY DEF Init
  <2>4. TypeOK  BY <2>1, <2>2, <2>3 DEF TypeOK
  <2> QED  BY <2>4 DEF Init, RateInv, RefusedOnlyAtCarry
<1>2. RateInv /\ [Next]_vars => RateInv'
  <2> SUFFICES ASSUME RateInv, [Next]_vars PROVE RateInv'  OBVIOUS
  <2>a. rate \in Nat /\ pll \in Plls /\ pll \in Nat \ {0} /\ pll < ClockBound
    BY DEF RateInv, TypeOK, SampleRateAssumption, ClockBound
  <2>b. /\ rate \in Nat /\ pll \in Plls /\ clockOn \in BOOLEAN /\ div \in [divi : Field, divf : Field]
        /\ pc \in {"init", "configured", "wait", "stream", "abort", "exit"}
    BY TypeParts DEF RateInv
  <2>c. /\ pc \in {"configured", "wait", "stream"} => div = Divider(rate, pll) /\ Accepted(div)
        /\ pc = "stream" => Sleeps(Wait(rate))
        /\ pc = "abort" => (rate \in 2049 .. pll => 8192 * (rate - (pll % rate)) <= rate)
    BY DEF RateInv, RefusedOnlyAtCarry
  <2>1. CASE ConfigureClock
    <3>1. Divider(rate, pll) \in [divi : Field, divf : Field]
      <4>1. Divider(rate, pll) \in [divi : Nat, divf : Nat]  BY <2>a, DividerType
      <4>2. Accepted(Divider(rate, pll))  BY <2>1 DEF ConfigureClock
      <4> QED  BY <4>1, <4>2, AcceptedFits
    <3>0. clockOn' \in BOOLEAN  BY <2>1 DEF ConfigureClock
    <3>2. TypeOK'
      <4>1. rate' = rate /\ pll' = pll /\ div' = Divider(rate, pll) /\ pc' = "configured"
        BY <2>1 DEF ConfigureClock
      <4> QED  BY <2>b, <3>0, <3>1, <4>1, TypeParts
    <3> QED  BY <3>2, <2>1 DEF ConfigureClock, RateInv, RefusedOnlyAtCarry
  <2>2. CASE ClockRefused
    <3>1. rate \in 2049 .. pll => 8192 * (rate - (pll % rate)) <= rate
      BY <2>a, <2>2, RefusedFraction DEF ClockRefused, Rest
    <3>2. TypeOK'  BY <2>2, <2>b, TypeParts DEF ClockRefused
    <3> QED  BY <3>1, <3>2, <2>2 DEF ClockRefused, RateInv, RefusedOnlyAtCarry
  <2>3. CASE EnableClock
    <3>1. TypeOK'  BY <2>3, <2>b, TypeParts DEF EnableClock
    <3> QED  BY <2>3, <2>c, <3>1 DEF EnableClock, RateInv, RefusedOnlyAtCarry
  <2>4. CASE FirstWait
    <3>1. TypeOK'  BY <2>4, <2>b, TypeParts DEF FirstWait
    <3> QED  BY <2>4, <2>c, <3>1 DEF FirstWait, RateInv, RefusedOnlyAtCarry
  <2>5. CASE WaitRefused
    <3>1. rate \notin 2049 .. pll
      BY <2>a, <2>5, SleepBoundsRate DEF WaitRefused
    <3>2. TypeOK'  BY <2>5, <2>b, TypeParts DEF WaitRefused
    <3> QED  BY <3>1, <3>2, <2>5 DEF WaitRefused, RateInv, RefusedOnlyAtCarry
  <2>6. CASE Shutdown
    <3>0. clockOn' \in BOOLEAN  BY <2>6 DEF Shutdown
    <3>1. TypeOK'
      <4>1. rate' = rate /\ pll' = pll /\ div' = div /\ pc' = "exit"  BY <2>6 DEF Shutdown
      <4> QED  BY <2>b, <3>0, <4>1, TypeParts
    <3> QED  BY <3>1, <2>6 DEF Shutdown, RateInv, RefusedOnlyAtCarry
  <2>7. CASE UNCHANGED vars
    <3>1. TypeOK'  BY <2>7, <2>b, TypeParts DEF vars
    <3> QED  BY <2>7, <2>c, <3>1 DEF vars, RateInv, RefusedOnlyAtCarry
  <2> QED  BY <2>1, <2>2, <2>3, <2>4, <2>5, <2>6, <2>7 DEF Next
<1> QED  BY <1>1, <1>2, PTL DEF Spec

(***************************************************************************)
(* The DIV register's fields get what fits into them, for every rate: in       *)
(* particular never the 4096 that the fraction may round to.                  *)
(***************************************************************************)
THEOREM RateTypeCorrect == Spec => []TypeOK
<1>1. RateInv => TypeOK  BY DEF RateInv
<1> QED  BY <1>1, SampleRateAssumption, RateInvariant, PTL

(***************************************************************************)
(* Whatever the rate, what streams has the nearest divisor the register can    *)
(* express; a divisor that wrapped around in its uint16_t never gets so far.   *)
(***************************************************************************)
THEOREM PlaysWhatWasAskedFor == Spec => []PlaysAtRate
<1>1. RateInv => PlaysAtRate
  <2> SUFFICES ASSUME RateInv, pc = "stream" PROVE PlaysAtRate  BY DEF PlaysAtRate
  <2> DEFINE whole == Whole(rate, pll)
             rest == Rest(rate, pll)
  <2>1. /\ rate \in Nat /\ pll \in Nat \ {0} /\ pll < ClockBound
        /\ div = Divider(rate, pll) /\ Accepted(div) /\ Sleeps(Wait(rate))
    BY SampleRateAssumption DEF RateInv, TypeOK, SampleRateAssumption, ClockBound
  <2>2. rate # 0  BY <2>1 DEF Divider, Accepted
  <2>3. rate > 2048  BY <2>1, <2>2, SleepBoundsRate
  <2>4. /\ div.divi = whole /\ whole \in Nat
        /\ pll = rate * whole + rest /\ rest \in 0 .. rate - 1
    <3>1. rate \in Nat \ {0}  BY <2>1, <2>2
    <3>2. pll = rate * whole + rest /\ rest \in 0 .. rate - 1
      BY <2>1, <3>1, DividerParts
    <3>3. div.divi = whole /\ whole \in Nat  BY <2>1, <3>1, <2>3, WholePartFits
    <3> QED  BY <3>2, <3>3
  <2>5. div.divf = Fraction(rest, rate)  BY <2>1, <2>2, DividerIs
  <2>6. Distance(rate * div.divf, 4096 * rest) <= rate \div 2
    BY <2>1, <2>2, <2>4, <2>5, FractionNearest
  <2> HIDE DEF whole, rest
  <2>7. pll - rate * div.divi = rest  BY <2>1, <2>4
  <2> QED  BY <2>4, <2>6, <2>7 DEF PlaysAtRate
<1> QED  BY <1>1, SampleRateAssumption, RateInvariant, PTL

(***************************************************************************)
(* From 2049 Hz to the clock's own frequency every rate is accepted but those  *)
(* whose divisor lies within half a step below a whole number.                *)
(***************************************************************************)
THEOREM RefusesOnlyLostCarries == Spec => []RefusedOnlyAtCarry
<1>1. RateInv => RefusedOnlyAtCarry  BY DEF RateInv
<1> QED  BY <1>1, SampleRateAssumption, RateInvariant, PTL
=============================================================================

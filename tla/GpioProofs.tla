----------------------------- MODULE GpioProofs -----------------------------
(***************************************************************************)
(* Theorems of Gpio, for any set of pins, any masks and configurations and     *)
(* any number of interruptions by the kernel.                                *)
(***************************************************************************)
EXTENDS Gpio, SequenceTheorems, TLAPS

AccessSet == [reg : RegNames \cup {"PUD"}, field : Functions \cup Pulls \cup {0, 1}]

\* What the second of two sequences becomes behind the first.
LEMMA Joined ==
  ASSUME NEW S, NEW s \in Seq(S), NEW t \in Seq(S), NEW n \in Nat, Len(s) = n
  PROVE  /\ s \o t \in Seq(S) /\ Len(s \o t) = n + Len(t) /\ Len(t) \in Nat
         /\ \A i \in 1 .. n + Len(t) : (s \o t)[i] = IF i <= n THEN s[i] ELSE t[i - n]
<1>1. /\ s \o t \in Seq(S) /\ Len(s \o t) = Len(s) + Len(t)
      /\ \A i \in 1 .. Len(s) + Len(t) : (s \o t)[i] = IF i <= Len(s) THEN s[i] ELSE t[i - Len(s)]
  BY ConcatProperties
<1>2. Len(t) \in Nat  OBVIOUS
<1> QED  BY <1>1, <1>2

\* A detection mode enables at most two event registers, and none twice.
LEMMA EnablesShape ==
  ASSUME NEW detect \in Detects
  PROVE  /\ Enables(detect) \in Seq(EventRegs)
         /\ \A i, j \in DOMAIN Enables(detect) :
              Enables(detect)[i] = Enables(detect)[j] => i = j
<1> USE DEF Enables, EventRegs
<1>1. CASE detect = "none"  BY <1>1
<1>2. CASE detect = "rising"  BY <1>2
<1>3. CASE detect = "falling"  BY <1>3
<1>4. CASE detect = "any"  BY <1>4
<1>5. CASE detect = "high"  BY <1>5
<1>6. CASE detect = "low"  BY <1>6
<1>7. CASE detect = "rising_async"  BY <1>7
<1>8. CASE detect = "falling_async"  BY <1>8
<1> QED  BY <1>1, <1>2, <1>3, <1>4, <1>5, <1>6, <1>7, <1>8 DEF Detects

LEMMA ClearsShape ==
  /\ Clears \in Seq(AccessSet) /\ Len(Clears) = 6
  /\ \A i \in 1 .. 6 : Clears[i].field = 0
  /\ \A i \in 1 .. 6 : Clears[i].reg \in EventRegs
  /\ \A i, j \in 1 .. 6 : Clears[i].reg = Clears[j].reg => i = j
  /\ \A r \in EventRegs : \E i \in 1 .. 6 : Clears[i].reg = r
<1>1. /\ Clears[1] = Access("REN", 0) /\ Clears[2] = Access("FEN", 0)
      /\ Clears[3] = Access("HEN", 0) /\ Clears[4] = Access("LEN", 0)
      /\ Clears[5] = Access("AREN", 0) /\ Clears[6] = Access("AFEN", 0)
      /\ Len(Clears) = 6
  BY DEF Clears
<1>2. \A r \in EventRegs : Access(r, 0) \in AccessSet
  BY DEF AccessSet, Access, RegNames
<1>3. Clears \in Seq(AccessSet)
  <2>1. /\ Access("REN", 0) \in AccessSet /\ Access("FEN", 0) \in AccessSet
        /\ Access("HEN", 0) \in AccessSet /\ Access("LEN", 0) \in AccessSet
        /\ Access("AREN", 0) \in AccessSet /\ Access("AFEN", 0) \in AccessSet
    BY <1>2 DEF EventRegs
  <2> QED  BY <2>1 DEF Clears
<1>4. /\ Clears[1].reg = "REN" /\ Clears[2].reg = "FEN" /\ Clears[3].reg = "HEN"
      /\ Clears[4].reg = "LEN" /\ Clears[5].reg = "AREN" /\ Clears[6].reg = "AFEN"
      /\ \A i \in 1 .. 6 : Clears[i].field = 0
  BY <1>1 DEF Access
<1>5. \A i \in 1 .. 6 : Clears[i].reg \in EventRegs  BY <1>4 DEF EventRegs
<1>6. \A i, j \in 1 .. 6 : Clears[i].reg = Clears[j].reg => i = j  BY <1>4
<1>7. \A r \in EventRegs : \E i \in 1 .. 6 : Clears[i].reg = r
  <2> TAKE r \in EventRegs
  <2>1. CASE r = "REN"  BY <2>1, <1>4
  <2>2. CASE r = "FEN"  BY <2>2, <1>4
  <2>3. CASE r = "HEN"  BY <2>3, <1>4
  <2>4. CASE r = "LEN"  BY <2>4, <1>4
  <2>5. CASE r = "AREN"  BY <2>5, <1>4
  <2>6. CASE r = "AFEN"  BY <2>6, <1>4
  <2> QED  BY <2>1, <2>2, <2>3, <2>4, <2>5, <2>6 DEF EventRegs
<1> QED  BY <1>1, <1>3, <1>4, <1>5, <1>6, <1>7

\* The accesses to the pull's registers, if any.
LEMMA PullsShape ==
  ASSUME NEW pull \in Pulls
  PROVE  /\ PullAccesses(pull) \in Seq(AccessSet)
         /\ pull = "no_change" => Len(PullAccesses(pull)) = 0
         /\ pull # "no_change" =>
              /\ Len(PullAccesses(pull)) = 3
              /\ PullAccesses(pull)[1].reg = "PUD" /\ PullAccesses(pull)[1].field = pull
              /\ PullAccesses(pull)[2].reg = "PUDCLK" /\ PullAccesses(pull)[2].field = 1
              /\ PullAccesses(pull)[3].reg = "PUDCLK" /\ PullAccesses(pull)[3].field = 0
<1>1. CASE pull = "no_change"
  BY <1>1 DEF PullAccesses
<1>2. CASE pull # "no_change"
  <2>1. PullAccesses(pull) = <<Access("PUD", pull), Access("PUDCLK", 1), Access("PUDCLK", 0)>>
    BY <1>2 DEF PullAccesses
  <2>2. /\ Access("PUD", pull) \in AccessSet /\ Access("PUDCLK", 1) \in AccessSet
        /\ Access("PUDCLK", 0) \in AccessSet
    BY DEF AccessSet, Access, RegNames
  <2> HIDE DEF AccessSet
  <2>3. PullAccesses(pull) \in Seq(AccessSet) /\ Len(PullAccesses(pull)) = 3
    BY <2>1, <2>2
  <2> QED  BY <1>2, <2>1, <2>3 DEF Access
<1> QED  BY <1>1, <1>2

\* Where the accesses to the event registers end.
EventsEnd(c) == 7 + Len(Enables(c.event_detect))

\* The whole of bcm283x_gpio_configure(): the function, the six clears, the enables,
\* the pull.
LEMMA AccessesShape ==
  ASSUME NEW c \in Configs
  PROVE  LET a == Accesses(c)
             k == EventsEnd(c)
         IN /\ a \in Seq(AccessSet) /\ Len(a) \in Nat
            /\ k \in Nat /\ k >= 7 /\ Len(a) = IF c.pull = "no_change" THEN k ELSE k + 3
            /\ a[1].reg = "FSEL" /\ a[1].field = c.function
            /\ \A i \in 2 .. 7 : a[i].reg = Clears[i - 1].reg /\ a[i].field = 0
            /\ \A i \in 8 .. k :
                 a[i].reg = Enables(c.event_detect)[i - 7] /\ a[i].field = 1
            /\ c.pull # "no_change" =>
                 /\ a[k + 1].reg = "PUD" /\ a[k + 1].field = c.pull
                 /\ a[k + 2].reg = "PUDCLK" /\ a[k + 2].field = 1
                 /\ a[k + 3].reg = "PUDCLK" /\ a[k + 3].field = 0
<1>1. c.function \in Functions /\ c.event_detect \in Detects /\ c.pull \in Pulls
  BY GpioAssumption DEF GpioAssumption
<1> DEFINE f == <<Access("FSEL", c.function)>>
           e == EnableAccesses(c.event_detect)
           l == PullAccesses(c.pull)
           n == Len(Enables(c.event_detect))
           en == Enables(c.event_detect)
<1>2. f \in Seq(AccessSet) /\ Len(f) = 1 /\ f[1].reg = "FSEL" /\ f[1].field = c.function
  <2>1. Access("FSEL", c.function) \in AccessSet  BY <1>1 DEF AccessSet, Access, RegNames
  <2> HIDE DEF AccessSet
  <2>2. f \in Seq(AccessSet) /\ Len(f) = 1 /\ f[1] = Access("FSEL", c.function)  BY <2>1
  <2> QED  BY <2>2 DEF Access
<1>3. /\ n \in Nat /\ e \in Seq(AccessSet) /\ Len(e) = n
      /\ \A i \in 1 .. n : e[i].reg = en[i] /\ e[i].field = 1
  <2>1. en \in Seq(EventRegs)  BY <1>1, EnablesShape
  <2>2. n \in Nat /\ DOMAIN en = 1 .. n /\ \A i \in 1 .. n : en[i] \in EventRegs
    BY <2>1
  <2>3. e = [i \in 1 .. n |-> Access(en[i], 1)]  BY <2>2 DEF EnableAccesses
  <2>4. \A i \in 1 .. n : Access(en[i], 1) \in AccessSet
    <3> TAKE i \in 1 .. n
    <3>1. en[i] \in EventRegs  BY <2>2
    <3> HIDE DEF en
    <3> QED  BY <3>1 DEF AccessSet, Access, RegNames
  <2> HIDE DEF AccessSet, e, n, en
  <2>5. e \in [1 .. n -> AccessSet]  BY <2>3, <2>4
  <2>6. e \in Seq(AccessSet) /\ Len(e) = n  BY <2>2, <2>5
  <2> QED  BY <2>2, <2>3, <2>6 DEF Access
<1>4. l \in Seq(AccessSet) /\ Len(l) = IF c.pull = "no_change" THEN 0 ELSE 3
  BY <1>1, PullsShape
<1>5. c.pull # "no_change" =>
        /\ l[1].reg = "PUD" /\ l[1].field = c.pull
        /\ l[2].reg = "PUDCLK" /\ l[2].field = 1
        /\ l[3].reg = "PUDCLK" /\ l[3].field = 0
  BY <1>1, PullsShape
<1>6. Clears \in Seq(AccessSet) /\ Len(Clears) = 6 /\ \A i \in 1 .. 6 : Clears[i].field = 0
  BY ClearsShape
<1>7. Accesses(c) = ((f \o Clears) \o e) \o l  BY DEF Accesses
<1> HIDE DEF AccessSet, f, e, l
<1> DEFINE x == f \o Clears
           y == x \o e
           a == y \o l
<1> HIDE DEF x
<1>7a. x = f \o Clears  BY DEF x
<1>8. /\ x \in Seq(AccessSet) /\ Len(x) = 7
      /\ \A i \in 1 .. 7 : x[i] = IF i <= 1 THEN f[i] ELSE Clears[i - 1]
  <2> DEFINE m == 1
  <2>1. m \in Nat /\ f \in Seq(AccessSet) /\ Clears \in Seq(AccessSet) /\ Len(f) = m
    BY <1>2, <1>6
  <2> HIDE DEF m
  <2>2. /\ x \in Seq(AccessSet) /\ Len(x) = m + Len(Clears)
        /\ \A i \in 1 .. m + Len(Clears) : x[i] = IF i <= m THEN f[i] ELSE Clears[i - m]
    BY <1>7a, <2>1, Joined
  <2> QED  BY <1>6, <2>2 DEF m
<1> HIDE DEF y, n
<1>8a. y = x \o e  BY DEF y
<1>9. /\ y \in Seq(AccessSet) /\ Len(y) = 7 + n
      /\ \A i \in 1 .. 7 + n : y[i] = IF i <= 7 THEN x[i] ELSE e[i - 7]
  <2> DEFINE m == 7
  <2>1. m \in Nat /\ e \in Seq(AccessSet) /\ x \in Seq(AccessSet) /\ Len(x) = m
    BY <1>3, <1>8
  <2> HIDE DEF m
  <2>2. /\ y \in Seq(AccessSet) /\ Len(y) = m + Len(e)
        /\ \A i \in 1 .. m + Len(e) : y[i] = IF i <= m THEN x[i] ELSE e[i - m]
    BY <1>8a, <2>1, Joined
  <2> QED  BY <1>3, <2>2 DEF m
<1> HIDE DEF a
<1>9a. a = y \o l  BY DEF a
<1>10. /\ a \in Seq(AccessSet) /\ Len(a) = 7 + n + Len(l) /\ Len(l) \in Nat
       /\ \A i \in 1 .. 7 + n + Len(l) : a[i] = IF i <= 7 + n THEN y[i] ELSE l[i - (7 + n)]
  <2>1. 7 + n \in Nat /\ l \in Seq(AccessSet) /\ y \in Seq(AccessSet) /\ Len(y) = 7 + n
    BY <1>3, <1>4, <1>9
  <2> QED  BY <1>9a, <2>1, Joined
<1> HIDE DEF a, n, en
<1>11. \A i \in 1 .. 7 : a[i] = IF i <= 1 THEN f[i] ELSE Clears[i - 1]
  <2> TAKE i \in 1 .. 7
  <2>1. i \in 1 .. 7 + n /\ i \in 1 .. 7 + n + Len(l) /\ i <= 7 /\ i <= 7 + n
    BY <1>3, <1>10
  <2>2. a[i] = y[i]  BY <1>10, <2>1
  <2>3. y[i] = x[i]  BY <1>9, <2>1
  <2> QED  BY <1>8, <2>2, <2>3
<1>12. \A i \in 8 .. 7 + n : a[i] = e[i - 7]
  BY <1>3, <1>9, <1>10
<1>13. c.pull # "no_change" => a[(7 + n) + 1] = l[1] /\ a[(7 + n) + 2] = l[2] /\ a[(7 + n) + 3] = l[3]
  BY <1>3, <1>4, <1>10
<1>14. Accesses(c) = a /\ EventsEnd(c) = 7 + n  BY <1>7 DEF a, y, x, n, EventsEnd
<1>15. a[1].reg = "FSEL" /\ a[1].field = c.function  BY <1>2, <1>11
<1>16. \A i \in 2 .. 7 : a[i].reg = Clears[i - 1].reg /\ a[i].field = 0
  <2> TAKE i \in 2 .. 7
  <2>1. a[i] = Clears[i - 1] /\ i - 1 \in 1 .. 6  BY <1>11
  <2> QED  BY <2>1, <1>6
<1>17. \A i \in 8 .. 7 + n : a[i].reg = en[i - 7] /\ a[i].field = 1
  <2> TAKE i \in 8 .. 7 + n
  <2>1. a[i] = e[i - 7] /\ i - 7 \in 1 .. n  BY <1>3, <1>12
  <2> QED  BY <2>1, <1>3
<1>18. Len(a) \in Nat /\ Len(a) = IF c.pull = "no_change" THEN 7 + n ELSE (7 + n) + 3
  BY <1>3, <1>4, <1>10
<1> DEFINE k == 7 + n
<1>19. /\ k \in Nat /\ k >= 7
       /\ \A i \in 8 .. k : a[i].reg = Enables(c.event_detect)[i - 7] /\ a[i].field = 1
       /\ Len(a) = IF c.pull = "no_change" THEN k ELSE k + 3
  <2>1. k \in Nat /\ k >= 7  BY <1>3
  <2>2. \A i \in 8 .. k : a[i].reg = Enables(c.event_detect)[i - 7] /\ a[i].field = 1
    BY <1>17 DEF en
  <2> QED  BY <2>1, <2>2, <1>18
<1>20. c.pull # "no_change" =>
         /\ a[k + 1].reg = "PUD" /\ a[k + 1].field = c.pull
         /\ a[k + 2].reg = "PUDCLK" /\ a[k + 2].field = 1
         /\ a[k + 3].reg = "PUDCLK" /\ a[k + 3].field = 0
  BY <1>5, <1>13
<1>21. Accesses(c) = a /\ EventsEnd(c) = k  BY <1>14
<1> HIDE DEF k
<1>22. a \in Seq(AccessSet) /\ Len(a) \in Nat  BY <1>10, <1>18
<1> QED  BY <1>15, <1>16, <1>19, <1>20, <1>21, <1>22

\* Which access to a register is the last, and what it leaves there.
LEMMA LastAccess ==
  ASSUME NEW c \in Configs
  PROVE  LET a == Accesses(c)
         IN /\ Len(a) \in Nat /\ Len(a) >= 7 /\ a \in Seq(AccessSet)
            /\ a[1].reg = "FSEL" /\ a[1].field = c.function
            /\ \A i \in 2 .. Len(a) : a[i].reg # "FSEL"
            /\ \A r \in EventRegs : \E i \in 2 .. 7 :
                 a[i].reg = r /\ a[i].field = 0 /\ \A j \in 1 .. 7 : j # i => a[j].reg # r
            /\ \A i \in 8 .. Len(a) :
                 \/ \E m \in DOMAIN Enables(c.event_detect) :
                      a[i].reg = Enables(c.event_detect)[m]
                 \/ a[i].reg \notin EventRegs
            /\ \A m \in DOMAIN Enables(c.event_detect) : \E i \in 8 .. Len(a) :
                 /\ a[i].reg = Enables(c.event_detect)[m] /\ a[i].field = 1
                 /\ \A j \in i + 1 .. Len(a) : a[j].reg # Enables(c.event_detect)[m]
<1> DEFINE a == Accesses(c)
           k == EventsEnd(c)
           en == Enables(c.event_detect)
           n == Len(en)
           free == c.pull = "no_change"
<1>1. /\ a \in Seq(AccessSet) /\ Len(a) \in Nat
      /\ k \in Nat /\ k >= 7 /\ Len(a) = IF free THEN k ELSE k + 3
      /\ a[1].reg = "FSEL" /\ a[1].field = c.function
      /\ \A i \in 2 .. 7 : a[i].reg = Clears[i - 1].reg /\ a[i].field = 0
      /\ \A i \in 8 .. k : a[i].reg = en[i - 7] /\ a[i].field = 1
      /\ ~free => a[k + 1].reg = "PUD" /\ a[k + 2].reg = "PUDCLK" /\ a[k + 3].reg = "PUDCLK"
  BY AccessesShape
<1>2. c.event_detect \in Detects  BY GpioAssumption DEF GpioAssumption
<1>3. en \in Seq(EventRegs) /\ \A i, j \in DOMAIN en : en[i] = en[j] => i = j
  BY <1>2, EnablesShape
<1>4. k = 7 + n /\ n \in Nat /\ DOMAIN en = 1 .. n /\ \A i \in 1 .. n : en[i] \in EventRegs
  BY <1>3 DEF EventsEnd
<1> HIDE DEF a, k, en, n, free
<1>5. \A i \in 2 .. 7 : a[i].reg \in EventRegs
  <2> TAKE i \in 2 .. 7
  <2>1. i - 1 \in 1 .. 6  OBVIOUS
  <2> QED  BY <1>1, <2>1, ClearsShape
<1>6. \A i \in 8 .. k : a[i].reg \in EventRegs /\ i - 7 \in DOMAIN en /\ a[i].reg = en[i - 7]
  <2> TAKE i \in 8 .. k
  <2>1. i - 7 \in 1 .. n  BY <1>4
  <2> QED  BY <1>1, <1>4, <2>1
<1>7. \A i \in k + 1 .. Len(a) : a[i].reg \in {"PUD", "PUDCLK"}
  <2> TAKE i \in k + 1 .. Len(a)
  <2>1. k \in Nat /\ Len(a) = IF free THEN k ELSE k + 3  BY <1>1
  <2>2. CASE free
    <3>1. FALSE  BY <2>1, <2>2
    <3> QED  BY <3>1
  <2>3. CASE ~free
    <3>1. i = k + 1 \/ i = k + 2 \/ i = k + 3  BY <2>1, <2>3
    <3> QED  BY <1>1, <2>3, <3>1
  <2> QED  BY <2>2, <2>3
<1>8. "FSEL" \notin EventRegs /\ "PUD" \notin EventRegs /\ "PUDCLK" \notin EventRegs
  BY DEF EventRegs
<1>9. \A i \in 2 .. Len(a) : a[i].reg # "FSEL"
  <2> TAKE i \in 2 .. Len(a)
  <2>1. i \in 2 .. 7 \/ i \in 8 .. k \/ i \in k + 1 .. Len(a)  BY <1>1
  <2> QED  BY <2>1, <1>5, <1>6, <1>7, <1>8
<1>10. \A r \in EventRegs : \E i \in 2 .. 7 :
         a[i].reg = r /\ a[i].field = 0 /\ \A j \in 1 .. 7 : j # i => a[j].reg # r
  <2> TAKE r \in EventRegs
  <2>1. PICK m \in 1 .. 6 : Clears[m].reg = r  BY ClearsShape
  <2>2. m + 1 \in 2 .. 7 /\ (m + 1) - 1 = m  BY <2>1
  <2>3. a[m + 1].reg = r /\ a[m + 1].field = 0  BY <1>1, <2>1, <2>2
  <2>4. ASSUME NEW j \in 1 .. 7, j # m + 1 PROVE a[j].reg # r
    <3>1. CASE j = 1  BY <3>1, <1>1, <1>8
    <3>2. CASE j # 1
      <4>1. j \in 2 .. 7 /\ j - 1 \in 1 .. 6 /\ j - 1 # m  BY <2>1, <2>4, <3>2
      <4>2. a[j].reg = Clears[j - 1].reg  BY <1>1, <4>1
      <4>3. \A p, q \in 1 .. 6 : Clears[p].reg = Clears[q].reg => p = q  BY ClearsShape
      <4> QED  BY <2>1, <4>1, <4>2, <4>3
    <3> QED  BY <3>1, <3>2
  <2> QED  BY <2>2, <2>3, <2>4
<1>11. \A i \in 8 .. Len(a) : (\E m \in DOMAIN en : a[i].reg = en[m]) \/ a[i].reg \notin EventRegs
  <2> TAKE i \in 8 .. Len(a)
  <2>1. i \in 8 .. k \/ i \in k + 1 .. Len(a)  BY <1>1
  <2> QED  BY <2>1, <1>6, <1>7, <1>8
<1>12. \A m \in DOMAIN en : \E i \in 8 .. Len(a) :
         /\ a[i].reg = en[m] /\ a[i].field = 1
         /\ \A j \in i + 1 .. Len(a) : a[j].reg # en[m]
  <2> TAKE m \in DOMAIN en
  <2>1. m \in 1 .. n /\ en[m] \in EventRegs  BY <1>4
  <2>0. Len(a) >= k  BY <1>1
  <2>2. m + 7 \in 8 .. k /\ (m + 7) - 7 = m /\ m + 7 \in 8 .. Len(a)
    <3>1. m \in Nat /\ m >= 1 /\ m <= n /\ n \in Nat /\ k = 7 + n /\ Len(a) \in Nat
      BY <1>1, <1>4, <2>1
    <3> QED  BY <2>0, <3>1
  <2>3. a[m + 7].reg = en[m] /\ a[m + 7].field = 1  BY <1>1, <2>2
  <2>4. ASSUME NEW j \in (m + 7) + 1 .. Len(a) PROVE a[j].reg # en[m]
    <3>1. CASE j <= k
      <4>1. j \in 8 .. k /\ j - 7 # m  BY <2>1, <3>1
      <4>2. j - 7 \in DOMAIN en /\ a[j].reg = en[j - 7]  BY <4>1, <1>6
      <4> QED  BY <1>3, <4>1, <4>2
    <3>2. CASE j > k
      <4>1. j \in k + 1 .. Len(a)  BY <1>1, <3>2
      <4> QED  BY <1>7, <1>8, <2>1, <4>1
    <3> QED  BY <1>1, <2>1, <3>1, <3>2
  <2> QED  BY <2>2, <2>3, <2>4
<1>13. Len(a) >= 7  BY <1>1
<1> QED  BY <1>1, <1>9, <1>10, <1>11, <1>12, <1>13 DEF a, en

\* The accesses that set the pull are the last three, and the only ones of their kind.
LEMMA PullAccess ==
  ASSUME NEW c \in Configs
  PROVE  LET a == Accesses(c)
             l == Len(a)
         IN /\ c.pull = "no_change" => \A i \in 1 .. l : a[i].reg \notin {"PUD", "PUDCLK"}
            /\ c.pull # "no_change" =>
                 /\ l >= 10
                 /\ a[l - 2].reg = "PUD" /\ a[l - 2].field = c.pull
                 /\ a[l - 1].reg = "PUDCLK" /\ a[l - 1].field = 1
                 /\ a[l].reg = "PUDCLK" /\ a[l].field = 0
                 /\ \A i \in 1 .. l - 3 : a[i].reg \notin {"PUD", "PUDCLK"}
<1> DEFINE a == Accesses(c)
           k == EventsEnd(c)
           en == Enables(c.event_detect)
           n == Len(en)
           free == c.pull = "no_change"
<1>1. /\ Len(a) \in Nat
      /\ k \in Nat /\ k >= 7 /\ Len(a) = IF free THEN k ELSE k + 3
      /\ a[1].reg = "FSEL"
      /\ \A i \in 2 .. 7 : a[i].reg = Clears[i - 1].reg
      /\ \A i \in 8 .. k : a[i].reg = en[i - 7]
      /\ ~free => /\ a[k + 1].reg = "PUD" /\ a[k + 1].field = c.pull
                  /\ a[k + 2].reg = "PUDCLK" /\ a[k + 2].field = 1
                  /\ a[k + 3].reg = "PUDCLK" /\ a[k + 3].field = 0
  BY AccessesShape
<1>2. c.event_detect \in Detects  BY GpioAssumption DEF GpioAssumption
<1>3. en \in Seq(EventRegs)  BY <1>2, EnablesShape
<1>4. k = 7 + n /\ n \in Nat /\ \A i \in 1 .. n : en[i] \in EventRegs
  BY <1>3 DEF EventsEnd
<1> HIDE DEF a, k, en, n, free
<1>5. \A i \in 1 .. k : a[i].reg \notin {"PUD", "PUDCLK"}
  <2> TAKE i \in 1 .. k
  <2>1. CASE i = 1  BY <2>1, <1>1
  <2>2. CASE i \in 2 .. 7
    <3>1. i - 1 \in 1 .. 6  BY <2>2
    <3>2. a[i].reg \in EventRegs  BY <1>1, <2>2, <3>1, ClearsShape
    <3> QED  BY <3>2 DEF EventRegs
  <2>3. CASE i > 7
    <3>1. i \in 8 .. k /\ i - 7 \in 1 .. n  BY <1>4, <2>3
    <3>2. a[i].reg \in EventRegs  BY <1>1, <1>4, <3>1
    <3> QED  BY <3>2 DEF EventRegs
  <2>4. k \in Nat  BY <1>1
  <2>5. i = 1 \/ i \in 2 .. 7 \/ i > 7  BY <2>4
  <2> QED  BY <2>1, <2>2, <2>3, <2>5
<1>6. CASE free
  <2>1. Len(a) = k  BY <1>1, <1>6
  <2> QED  BY <1>5, <1>6, <2>1 DEF a, free
<1>7. CASE ~free
  <2>1. k \in Nat /\ k >= 7 /\ Len(a) = k + 3  BY <1>1, <1>7
  <2>2. Len(a) >= 10 /\ Len(a) - 2 = k + 1 /\ Len(a) - 1 = k + 2 /\ Len(a) - 3 = k
    BY <2>1
  <2>3. /\ a[k + 1].reg = "PUD" /\ a[k + 1].field = c.pull
        /\ a[k + 2].reg = "PUDCLK" /\ a[k + 2].field = 1
        /\ a[k + 3].reg = "PUDCLK" /\ a[k + 3].field = 0
    BY <1>1, <1>7
  <2> QED  BY <1>5, <1>7, <2>1, <2>2, <2>3 DEF a, free
<1> QED  BY <1>6, <1>7

-----------------------------------------------------------------------------
(* The inductive invariant.                                                   *)

ProofInv == GpioInv /\ todo \in Seq(AccessSet)

\* What the first n of a call's accesses leave in the field of r that was old.
Leaves(value, old, accesses, r, n) ==
  /\ (\A i \in 1 .. n : accesses[i].reg # r) => value = old
  /\ \A i \in 1 .. n :
       /\ accesses[i].reg = r
       /\ \A j \in i + 1 .. n : accesses[j].reg # r
       => value = accesses[i].field

\* An access to another register leaves it alone, one to r sets it.
LEMMA LeavesOther ==
  ASSUME NEW value, NEW old, NEW a, NEW r, NEW n \in Nat,
         Leaves(value, old, a, r, n), a[n + 1].reg # r
  PROVE  Leaves(value, old, a, r, n + 1)
<1>1. ASSUME \A i \in 1 .. n + 1 : a[i].reg # r  PROVE value = old
  <2>1. \A i \in 1 .. n : i \in 1 .. n + 1  OBVIOUS
  <2> QED  BY <1>1, <2>1 DEF Leaves
<1>2. ASSUME NEW i \in 1 .. n + 1, a[i].reg = r, \A j \in i + 1 .. n + 1 : a[j].reg # r
      PROVE  value = a[i].field
  <2>1. i # n + 1  BY <1>2
  <2>2. i \in 1 .. n /\ \A j \in i + 1 .. n : j \in i + 1 .. n + 1  BY <2>1
  <2> QED  BY <1>2, <2>2 DEF Leaves
<1> QED  BY <1>1, <1>2 DEF Leaves

LEMMA LeavesWritten ==
  ASSUME NEW old, NEW a, NEW r, NEW n \in Nat, a[n + 1].reg = r
  PROVE  Leaves(a[n + 1].field, old, a, r, n + 1)
<1>1. n + 1 \in 1 .. n + 1  OBVIOUS
<1>2. ASSUME NEW i \in 1 .. n + 1, \A j \in i + 1 .. n + 1 : a[j].reg # r
      PROVE  i = n + 1
  <2>1. CASE i <= n
    <3>1. n + 1 \in i + 1 .. n + 1  BY <2>1
    <3> QED  BY <1>2, <3>1
  <2> QED  BY <2>1
<1> QED  BY <1>1, <1>2 DEF Leaves

\* The clock of a pad is on between the last two accesses and at no other time.
LEMMA ClockLevel ==
  ASSUME NEW c \in Configs, NEW value, NEW n \in 0 .. Len(Accesses(c)),
         Leaves(value, 0, Accesses(c), "PUDCLK", n)
  PROVE  value = IF c.pull # "no_change" /\ n = Len(Accesses(c)) - 1 THEN 1 ELSE 0
<1> DEFINE a == Accesses(c)
           l == Len(a)
<1>1. /\ c.pull = "no_change" => \A i \in 1 .. l : a[i].reg \notin {"PUD", "PUDCLK"}
      /\ c.pull # "no_change" =>
           /\ l >= 10
           /\ a[l - 2].reg = "PUD"
           /\ a[l - 1].reg = "PUDCLK" /\ a[l - 1].field = 1
           /\ a[l].reg = "PUDCLK" /\ a[l].field = 0
           /\ \A i \in 1 .. l - 3 : a[i].reg \notin {"PUD", "PUDCLK"}
  BY PullAccess
<1>2. l \in Nat  BY LastAccess
<1>3. Leaves(value, 0, a, "PUDCLK", n) /\ n \in 0 .. l  OBVIOUS
<1> HIDE DEF a, l
<1>4. CASE c.pull = "no_change"
  <2>1. \A i \in 1 .. n : a[i].reg # "PUDCLK"  BY <1>1, <1>2, <1>3, <1>4
  <2> QED  BY <1>3, <1>4, <2>1 DEF Leaves
<1>5. CASE c.pull # "no_change" /\ n <= l - 2
  <2>1. ASSUME NEW i \in 1 .. n  PROVE a[i].reg # "PUDCLK"
    <3>1. i = l - 2 \/ i \in 1 .. l - 3  BY <1>2, <1>3, <1>5
    <3> QED  BY <1>1, <1>5, <3>1
  <2>2. value = 0  BY <1>3, <2>1 DEF Leaves
  <2>3. n # l - 1  BY <1>2, <1>3, <1>5
  <2> QED  BY <2>2, <2>3 DEF l, a
<1>6. CASE c.pull # "no_change" /\ n = l - 1
  <2>1. n \in 1 .. n /\ \A j \in n + 1 .. n : FALSE  BY <1>1, <1>2, <1>6
  <2>2. value = a[n].field  BY <1>1, <1>3, <1>6, <2>1 DEF Leaves
  <2> QED  BY <1>1, <1>6, <2>2 DEF l, a
<1>7. CASE c.pull # "no_change" /\ n = l
  <2>1. n \in 1 .. n /\ \A j \in n + 1 .. n : FALSE  BY <1>1, <1>2, <1>7
  <2>2. value = a[n].field  BY <1>1, <1>3, <1>7, <2>1 DEF Leaves
  <2>3. n # l - 1  BY <1>2, <1>7
  <2> QED  BY <1>1, <1>7, <2>2, <2>3 DEF l, a
<1>8. n <= l - 2 \/ n = l - 1 \/ n = l  BY <1>2, <1>3
<1> QED  BY <1>4, <1>5, <1>6, <1>7, <1>8

\* A register written back changes in one pin's field if the copy was fresh.
LEMMA WriteBackEffect ==
  ASSUME DOMAIN regs = RegNames, NEW reg \in RegNames, NEW p \in Pins, NEW field, NEW copy,
         WriteBack(reg, p, field, copy)
  PROVE  /\ DOMAIN regs' = RegNames
         /\ \A r \in RegNames : r # reg => regs'[r] = regs[r]
         /\ regs'[reg][p] = field
         /\ (\A q \in DOMAIN copy : copy[q] = regs[reg][q]) =>
              \A q \in Pins : q # p => regs'[reg][q] = regs[reg][q]
<1>1. DOMAIN regs' = RegNames /\ \A r \in RegNames : r # reg => regs'[r] = regs[r]
  BY DEF WriteBack
<1>2. \A q \in Pins : regs'[reg][q] = IF q = p THEN field
                                      ELSE IF q \in DOMAIN copy THEN copy[q] ELSE regs[reg][q]
  BY DEF WriteBack
<1> QED  BY <1>1, <1>2

\* The range of the counters of a call.
LEMMA CallFacts ==
  ASSUME CallInv, todo \in Seq(AccessSet)
  PROVE  /\ config \in Configs
         /\ Accesses(config) \in Seq(AccessSet) /\ Len(Accesses(config)) \in Nat
         /\ Len(Accesses(config)) >= 7 /\ Len(todo) \in 0 .. Len(Accesses(config))
         /\ \A p \in asked : Progress(p) \in 0 .. Len(Accesses(config))
         /\ todo # <<>> =>
              /\ pin \in asked /\ pin \in Pins /\ Len(todo) >= 1
              /\ Progress(pin) = Len(Accesses(config)) - Len(todo)
              /\ todo[1] = Accesses(config)[Progress(pin) + 1]
<1> DEFINE a == Accesses(config)
           l == Len(a)
<1>1. config \in Configs  BY DEF CallInv
<1>2. a \in Seq(AccessSet) /\ l \in Nat /\ l >= 7  BY <1>1, LastAccess
<1>3. Len(todo) \in 0 .. l /\ \A i \in 1 .. Len(todo) : todo[i] = a[(l - Len(todo)) + i]
  BY DEF CallInv
<1>4. \A p \in asked : Progress(p) = IF p \in pins THEN 0 ELSE IF p = pin THEN l - Len(todo) ELSE l
  BY DEF Progress
<1> HIDE DEF a, l
<1>5. \A p \in asked : Progress(p) \in 0 .. l
  BY <1>2, <1>3, <1>4
<1>6. ASSUME todo # <<>>
      PROVE  /\ pin \in asked /\ pin \in Pins /\ Len(todo) >= 1
             /\ Progress(pin) = l - Len(todo)
             /\ todo[1] = a[Progress(pin) + 1]
  <2>1. pin \in asked /\ pin \in Pins /\ pin \notin pins  BY <1>6 DEF CallInv
  <2>2. Len(todo) >= 1  BY <1>6, EmptySeq
  <2>3. Progress(pin) = l - Len(todo)  BY <1>4, <2>1
  <2>4. todo[1] = a[(l - Len(todo)) + 1]  BY <1>2, <1>3, <2>2
  <2> QED  BY <2>1, <2>2, <2>3, <2>4
<1> QED  BY <1>1, <1>2, <1>3, <1>5, <1>6 DEF l, a

\* RegistersSettled in terms of Leaves.
LEMMA SettledLeaves ==
  /\ RegistersSettled <=>
       \A r \in RegNames :
         /\ \A p \in asked :
              Leaves(regs[r][p], before[r][p], Accesses(config), r, Progress(p))
         /\ \A p \in Pins \ asked : regs[r][p] = others[r][p]
  /\ RegistersSettled' <=>
       \A r \in RegNames :
         /\ \A p \in asked' :
              Leaves(regs'[r][p], before'[r][p], Accesses(config'), r, Progress(p)')
         /\ \A p \in Pins \ asked' : regs'[r][p] = others'[r][p]
BY DEF RegistersSettled, Settled, Leaves

\* While the driver is not pulling, none of its pins has its pad's clock on.
LEMMA ClocksOff ==
  ASSUME CallInv, todo \in Seq(AccessSet), RegistersSettled, ~Pulling, NEW p \in asked
  PROVE  regs["PUDCLK"][p] = 0
<1> DEFINE a == Accesses(config)
           l == Len(a)
<1>1. config \in Configs /\ l \in Nat /\ Len(todo) \in 0 .. l /\ Progress(p) \in 0 .. l
  BY CallFacts
<1>2. Leaves(regs["PUDCLK"][p], 0, a, "PUDCLK", Progress(p))
  <2>1. "PUDCLK" \in RegNames /\ p \in Pins /\ before["PUDCLK"][p] = 0
    BY DEF CallInv, RegNames
  <2> QED  BY <2>1, SettledLeaves
<1>3. Progress(p) = IF p \in pins THEN 0 ELSE IF p = pin THEN l - Len(todo) ELSE l
  BY DEF Progress
<1>4. config.pull # "no_change" => l >= 10 /\ a[l].reg = "PUDCLK"
  BY <1>1, PullAccess
<1>5. todo # <<>> => Len(todo) >= 1 /\ pin \in asked /\ todo[1] = a[Progress(pin) + 1]
                     /\ Progress(pin) = l - Len(todo)
  BY CallFacts
<1>6. Len(todo) # 0 => todo # <<>>  OBVIOUS
<1>7. config.pull # "no_change" => Progress(p) # l - 1
  <2> SUFFICES ASSUME config.pull # "no_change", Progress(p) = l - 1 PROVE FALSE
    OBVIOUS
  <2>1. Len(todo) = 1 /\ p = pin
    <3> DEFINE t == Len(todo)
               g == Progress(p)
    <3>1. t \in 0 .. l /\ l \in Nat /\ l >= 10 /\ g = l - 1
      BY <1>1, <1>4
    <3>2. g = IF p \in pins THEN 0 ELSE IF p = pin THEN l - t ELSE l  BY <1>3
    <3> HIDE DEF t, g, l
    <3>3. p = pin /\ t = 1  BY <3>1, <3>2
    <3> QED  BY <3>3 DEF t
  <2>2. todo[1] = a[(l - 1) + 1]  BY <1>5, <1>6, <2>1
  <2>3. (l - 1) + 1 = l  BY <1>1
  <2>4. todo[1].reg = "PUDCLK"  BY <1>4, <2>2, <2>3
  <2> QED  BY <1>6, <2>1, <2>4 DEF Pulling
<1> QED  BY <1>1, <1>2, <1>7, ClockLevel

LEMMA ProofInvInit ==
  ASSUME Init  PROVE ProofInv
<1>1. PICK events \in {{}, {"HEN"}, {"REN", "AREN"}} : regs = Blank("input", events)
  BY DEF Init
<1>2. /\ asked \in Masks /\ pins = asked /\ config \in Configs /\ pin = -1 /\ todo = <<>>
      /\ held = <<>> /\ kernel = <<>> /\ before = regs /\ others = regs
      /\ pads = [p \in Pins |-> "down"] /\ out = [p \in Pins |-> 0]
      /\ puller = <<>> /\ pulls = pads
  BY DEF Init
<1>3. asked \subseteq Pins /\ pin \notin Pins
  BY <1>2, GpioAssumption DEF GpioAssumption
<1>4. todo \in Seq(AccessSet) /\ Len(todo) = 0  BY <1>2
<1>5. /\ DOMAIN regs = RegNames /\ \A r \in RegNames : DOMAIN regs[r] = Pins
      /\ \A p \in Pins : regs["PUDCLK"][p] = 0
  <2>1. "PUDCLK" \in RegNames /\ "PUDCLK" \notin events  BY DEF RegNames
  <2> QED  BY <1>1, <2>1 DEF Blank
<1>6. Len(Accesses(config)) \in Nat /\ Len(Accesses(config)) >= 7  BY <1>2, LastAccess
<1>7. CallInv
  <2>1. LET left == Len(todo)
            all  == Len(Accesses(config))
        IN left \in 0 .. all /\ \A i \in 1 .. left : todo[i] = Accesses(config)[(all - left) + i]
    BY <1>4, <1>6
  <2> QED  BY <1>2, <1>3, <1>5, <2>1 DEF CallInv
<1>8. CopiesFresh  BY <1>2 DEF CopiesFresh
<1>9. \A p \in asked : Progress(p) = 0  BY <1>2 DEF Progress
<1>10. RegistersSettled
  <2>1. \A value, a, r : Leaves(value, value, a, r, 0)  BY DEF Leaves
  <2> QED  BY <1>2, <1>9, <2>1, SettledLeaves
<1>11. PadsSettled
  <2>1. config.pull # "no_change" => Len(Accesses(config)) >= 10  BY <1>2, PullAccess
  <2>2. \A p \in asked : config.pull # "no_change" =>
          ~ (Progress(p) >= Len(Accesses(config)) - 1)
    BY <1>6, <1>9, <2>1
  <2> QED  BY <1>2, <1>3, <2>2 DEF PadsSettled
<1>12. PullsApart  BY <1>2 DEF PullsApart, Pulling
<1> QED  BY <1>4, <1>7, <1>8, <1>10, <1>11, <1>12 DEF ProofInv, GpioInv, NotRacedInv

\* Without overlap before and without one now, what holds without overlap is kept.
LEMMA Together ==
  ASSUME CallInv', todo' \in Seq(AccessSet), raced => raced',
         GpioInv, ~raced /\ NotRacedInv /\ ~raced' => NotRacedInv'
  PROVE  ProofInv'
BY DEF ProofInv, GpioInv

\* The kernel's part of CallInv, and what the driver's steps leave of it.
KernelCall ==
  /\ kernel # <<>> =>
       /\ kernel.reg \in EventRegs \cup {"FSEL"} /\ kernel.pin \in Pins \ asked
       /\ DOMAIN kernel.copy = SameWord(kernel.reg, kernel.pin)
  /\ puller # <<>> => puller \in [pin : Pins \ asked, pull : Pulls, field : {0, 1}]
  /\ DOMAIN others = RegNames
  /\ \A r \in RegNames : DOMAIN others[r] = Pins
  /\ DOMAIN pulls = Pins
  /\ \A p \in Pins \ asked : out[p] = 0
  /\ \A p \in Pins : others["PUDCLK"][p] =
       IF puller # <<>> /\ puller.pin = p THEN 1 - puller.field ELSE 0

LEMMA KernelCallKept ==
  ASSUME CallInv, UNCHANGED <<kernel, puller, others, pulls, out, asked>>
  PROVE  KernelCall'
BY DEF CallInv, KernelCall

\* The next pin starts where the one before it has ended.
LEMMA NextPinStep ==
  ASSUME ProofInv, NextPin  PROVE ProofInv'
<1> DEFINE a == Accesses(config)
           l == Len(a)
<1>1. CallInv /\ GpioInv /\ todo \in Seq(AccessSet)
  BY DEF ProofInv, GpioInv
<1>2. /\ todo = <<>> /\ pin' \in pins /\ pins' = pins \ {pin'} /\ todo' = Accesses(config)
      /\ config' = config /\ held' = held /\ regs' = regs /\ pud' = pud /\ pads' = pads
      /\ UNCHANGED <<kernel, puller, others, pulls, out, asked>>
      /\ before' = before /\ raced' = raced
  BY DEF NextPin, history, asks
<1>3. /\ config \in Configs /\ a \in Seq(AccessSet) /\ l \in Nat /\ l >= 7
      /\ a[1].reg = "FSEL"
  BY <1>1, CallFacts, LastAccess
<1>4. held = <<>> /\ asked \subseteq Pins /\ pins \subseteq asked /\ pin \notin pins
  BY <1>1, <1>2 DEF CallInv
<1>5. todo' \in Seq(AccessSet) /\ Len(todo') = l /\ Len(todo) = 0  BY <1>2, <1>3
<1>6. \A p \in asked : Progress(p)' = Progress(p)
  <2> TAKE p \in asked
  <2>1. Progress(p)' = IF p \in pins' THEN 0 ELSE IF p = pin' THEN l - l ELSE l
    BY <1>2, <1>5 DEF Progress
  <2>2. Progress(p) = IF p \in pins THEN 0 ELSE IF p = pin THEN l - 0 ELSE l
    BY <1>5 DEF Progress
  <2> QED  BY <1>2, <1>3, <2>1, <2>2
<1>7. CallInv'
  <2>1. LET left == Len(todo')
            all  == Len(Accesses(config'))
        IN left \in 0 .. all /\ \A i \in 1 .. left : todo'[i] = Accesses(config')[(all - left) + i]
    <3> HIDE DEF a, l
    <3>1. Len(todo') = l /\ todo' = a /\ l = Len(a) /\ l \in Nat  BY <1>2, <1>3, <1>5 DEF a, l
    <3>2. \A i \in 1 .. l : (l - l) + i = i  BY <3>1
    <3>3. Accesses(config') = a  BY <1>2 DEF a
    <3> QED  BY <3>1, <3>2, <3>3
  <2>2. /\ asked' \subseteq Pins /\ pins' \subseteq asked' /\ pin' \notin pins'
        /\ pin' \in asked' /\ config' \in Configs /\ held' = <<>>
    BY <1>2, <1>3, <1>4
  <2>3. KernelCall'  BY <1>1, <1>2, KernelCallKept
  <2>4. DOMAIN regs' = RegNames /\ \A p \in Pins : before'["PUDCLK"][p] = 0
    BY <1>1, <1>2 DEF CallInv
  <2> QED  BY <2>1, <2>2, <2>3, <2>4 DEF CallInv, KernelCall
<1>8. ASSUME NotRacedInv PROVE NotRacedInv'
  <2> USE <1>8 DEF NotRacedInv
  <2>1. CopiesFresh'  BY <1>2 DEF CopiesFresh
  <2>2. RegistersSettled'  BY <1>2, <1>6, SettledLeaves
  <2>3. PullsApart'
    <3>1. ~Pulling'  BY <1>2, <1>3 DEF Pulling
    <3> QED  BY <1>2, <3>1 DEF PullsApart
  <2>4. PadsSettled'  BY <1>2, <1>6 DEF PadsSettled
  <2> QED  BY <2>1, <2>2, <2>3, <2>4
<1> QED  BY <1>1, <1>2, <1>5, <1>7, <1>8, Together

\* What the steps do that leave the driver's call where it is.
LEMMA CallKept ==
  ASSUME ProofInv, UNCHANGED <<pins, pin, config, todo, asked, before>>
  PROVE  /\ \A p \in asked : Progress(p)' = Progress(p)
         /\ todo' \in Seq(AccessSet) /\ Pulling' = Pulling
         /\ asked' \subseteq Pins /\ pins' \subseteq asked' /\ pin' \notin pins'
         /\ pin' \in asked' \/ (pin' = -1 /\ todo' = <<>>)
         /\ config' \in Configs
         /\ LET left == Len(todo')
                all  == Len(Accesses(config'))
            IN left \in 0 .. all /\ \A i \in 1 .. left : todo'[i] = Accesses(config')[(all - left) + i]
         /\ \A p \in Pins : before'["PUDCLK"][p] = 0
<1>1. CallInv /\ todo \in Seq(AccessSet)
  BY DEF ProofInv, GpioInv
<1>2. (\A p \in asked : Progress(p)' = Progress(p)) /\ Pulling' = Pulling
  BY DEF Progress, Pulling
<1>3. /\ asked' \subseteq Pins /\ pins' \subseteq asked' /\ pin' \notin pins'
      /\ pin' \in asked' \/ (pin' = -1 /\ todo' = <<>>)
      /\ config' \in Configs
      /\ \A p \in Pins : before'["PUDCLK"][p] = 0
  BY <1>1 DEF CallInv
<1>4. LET left == Len(todo')
          all  == Len(Accesses(config'))
      IN left \in 0 .. all /\ \A i \in 1 .. left : todo'[i] = Accesses(config')[(all - left) + i]
  BY <1>1 DEF CallInv
<1> QED  BY <1>1, <1>2, <1>3, <1>4

LEMMA HeldKept ==
  ASSUME ProofInv, UNCHANGED <<pin, todo, held>>
  PROVE  held' # <<>> =>
           /\ todo' # <<>> /\ held'.reg = todo'[1].reg /\ held'.reg # "PUD"
           /\ DOMAIN held'.copy = SameWord(held'.reg, pin')
BY DEF ProofInv, GpioInv, CallInv

LEMMA ReadRegisterStep ==
  ASSUME ProofInv, ReadRegister  PROVE ProofInv'
<1>1. CallInv /\ GpioInv /\ todo \in Seq(AccessSet)
  BY DEF ProofInv, GpioInv
<1>2. /\ todo # <<>> /\ todo[1].reg # "PUD"
      /\ held' = [reg |-> todo[1].reg, copy |-> Copy(todo[1].reg, pin)]
      /\ UNCHANGED <<pins, pin, config, todo, asked, before>>
      /\ UNCHANGED <<kernel, puller, others, pulls, out, asked>>
      /\ regs' = regs /\ pads' = pads /\ pud' = pud /\ raced' = raced
  BY DEF ReadRegister, history, asks
<1>3. /\ held'.reg = todo[1].reg /\ DOMAIN held'.copy = SameWord(todo[1].reg, pin)
      /\ \A q \in DOMAIN held'.copy : held'.copy[q] = regs[todo[1].reg][q]
  BY <1>2 DEF Copy
<1>4. CallInv'
  <2>1. KernelCall' /\ DOMAIN regs' = RegNames  BY <1>1, <1>2, KernelCallKept DEF CallInv
  <2>2. /\ todo' # <<>> /\ held'.reg = todo'[1].reg /\ held'.reg # "PUD"
        /\ DOMAIN held'.copy = SameWord(held'.reg, pin')
    BY <1>2, <1>3
  <2> QED  BY <1>2, <2>1, <2>2, CallKept DEF CallInv, KernelCall
<1>5. ASSUME NotRacedInv PROVE NotRacedInv'
  <2> USE <1>5 DEF NotRacedInv
  <2>1. CopiesFresh'  BY <1>2, <1>3 DEF CopiesFresh
  <2>2. RegistersSettled'  BY <1>2, CallKept, SettledLeaves
  <2>3. PullsApart'  BY <1>2, CallKept DEF PullsApart
  <2>4. PadsSettled'  BY <1>2, CallKept DEF PadsSettled
  <2> QED  BY <2>1, <2>2, <2>3, <2>4
<1> QED  BY <1>1, <1>2, <1>4, <1>5, CallKept, Together

LEMMA KernelReadStep ==
  ASSUME ProofInv, KernelRead  PROVE ProofInv'
<1>1. CallInv /\ GpioInv /\ todo \in Seq(AccessSet)
  BY DEF ProofInv, GpioInv
<1>2. PICK r \in EventRegs \cup {"FSEL"}, p \in Pins \ asked :
        kernel' = [reg |-> r, pin |-> p, copy |-> Copy(r, p)]
  BY DEF KernelRead
<1>3. /\ UNCHANGED <<pins, pin, config, todo, asked, before>> /\ held' = held
      /\ UNCHANGED <<puller, others, pulls, out, asked>>
      /\ regs' = regs /\ pads' = pads /\ pud' = pud /\ raced' = raced
  BY DEF KernelRead, history, asks, callVars
<1>4. /\ kernel'.reg = r /\ kernel'.pin = p /\ DOMAIN kernel'.copy = SameWord(r, p)
      /\ \A q \in DOMAIN kernel'.copy : kernel'.copy[q] = regs[r][q]
  BY <1>2 DEF Copy
<1>5. CallInv'
  <2>1. KernelCall'  BY <1>1, <1>3, <1>4 DEF CallInv, KernelCall
  <2>2. DOMAIN regs' = RegNames  BY <1>1, <1>3 DEF CallInv
  <2> QED  BY <1>3, <2>1, <2>2, HeldKept, CallKept DEF CallInv, KernelCall
<1>6. ASSUME NotRacedInv PROVE NotRacedInv'
  <2> USE <1>6 DEF NotRacedInv
  <2>1. CopiesFresh'  BY <1>3, <1>4 DEF CopiesFresh
  <2>2. RegistersSettled'  BY <1>3, CallKept, SettledLeaves
  <2>3. PullsApart'  BY <1>3, CallKept DEF PullsApart
  <2>4. PadsSettled'  BY <1>3, CallKept DEF PadsSettled
  <2> QED  BY <2>1, <2>2, <2>3, <2>4
<1> QED  BY <1>1, <1>3, <1>5, <1>6, CallKept, Together

LEMMA DriveStep ==
  ASSUME ProofInv, NEW field, Drive(field)  PROVE ProofInv'
<1>1. CallInv /\ GpioInv /\ todo \in Seq(AccessSet)
  BY DEF ProofInv, GpioInv
<1>2. PICK mask : mask \subseteq asked /\ out' = [p \in Pins |-> IF p \in mask THEN field ELSE out[p]]
  BY DEF Drive
<1>3. /\ UNCHANGED <<pins, pin, config, todo, asked, before>> /\ held' = held
      /\ UNCHANGED <<kernel, puller, others, pulls, asked>>
      /\ regs' = regs /\ pads' = pads /\ pud' = pud /\ raced' = raced
  BY DEF Drive, history, asks, callVars
<1>4. \A p \in Pins \ asked : out'[p] = out[p]  BY <1>2
<1>5. CallInv'
  <2>1. KernelCall'  BY <1>1, <1>3, <1>4 DEF CallInv, KernelCall
  <2>2. DOMAIN regs' = RegNames  BY <1>1, <1>3 DEF CallInv
  <2> QED  BY <1>3, <2>1, <2>2, HeldKept, CallKept DEF CallInv, KernelCall
<1>6. ASSUME NotRacedInv PROVE NotRacedInv'
  <2> USE <1>6 DEF NotRacedInv
  <2>1. CopiesFresh'  BY <1>3 DEF CopiesFresh
  <2>2. RegistersSettled'  BY <1>3, CallKept, SettledLeaves
  <2>3. PullsApart'  BY <1>3, CallKept DEF PullsApart
  <2>4. PadsSettled'  BY <1>3, CallKept DEF PadsSettled
  <2> QED  BY <2>1, <2>2, <2>3, <2>4
<1> QED  BY <1>1, <1>3, <1>5, <1>6, CallKept, Together

\* The kernel changes a field of a pin that is not the driver's, and with an old
\* copy no other field.
LEMMA KernelWriteStep ==
  ASSUME ProofInv, KernelWrite  PROVE ProofInv'
<1> DEFINE reg == kernel.reg
           kp == kernel.pin
           field == IF kernel.reg = "FSEL" THEN "output" ELSE 1 - regs[kernel.reg][kernel.pin]
<1>1. CallInv /\ GpioInv /\ todo \in Seq(AccessSet)
  BY DEF ProofInv, GpioInv
<1>2. /\ kernel # <<>> /\ kernel' = <<>>
      /\ WriteBack(reg, kp, field, kernel.copy)
      /\ others' = [others EXCEPT ![reg][kp] = field]
      /\ raced' = (raced \/ Meets(reg, kp, held))
  BY DEF KernelWrite
<1>3. /\ UNCHANGED <<pins, pin, config, todo, asked, before>> /\ held' = held
      /\ pads' = pads /\ pud' = pud /\ out' = out /\ puller' = puller /\ pulls' = pulls
  BY DEF KernelWrite, callVars
<1>4. reg \in RegNames /\ reg # "PUDCLK" /\ kp \in Pins \ asked /\ "PUDCLK" \in RegNames
  BY <1>1, <1>2 DEF CallInv, RegNames, EventRegs
<1>5. /\ DOMAIN regs = RegNames /\ DOMAIN others = RegNames
      /\ \A r \in RegNames : DOMAIN others[r] = Pins
  BY <1>1 DEF CallInv
<1> HIDE DEF field, reg, kp
<1>6. /\ DOMAIN regs' = RegNames
      /\ \A r \in RegNames : r # reg => regs'[r] = regs[r]
      /\ regs'[reg][kp] = field
      /\ (\A q \in DOMAIN kernel.copy : kernel.copy[q] = regs[reg][q]) =>
           \A q \in Pins : q # kp => regs'[reg][q] = regs[reg][q]
  BY <1>2, <1>4, <1>5, WriteBackEffect
<1>7. /\ DOMAIN others' = RegNames
      /\ \A r \in RegNames : r # reg => others'[r] = others[r]
      /\ others'[reg][kp] = field /\ \A q \in Pins : q # kp => others'[reg][q] = others[reg][q]
      /\ DOMAIN others'[reg] = Pins
  BY <1>2, <1>4, <1>5
<1>8. CallInv'
  <2>1. \A r \in RegNames : DOMAIN others'[r] = Pins  BY <1>5, <1>7
  <2>2. others'["PUDCLK"] = others["PUDCLK"]  BY <1>4, <1>7
  <2>3. KernelCall'  BY <1>1, <1>2, <1>3, <1>7, <2>1, <2>2 DEF CallInv, KernelCall
  <2> QED  BY <1>3, <1>6, <2>3, HeldKept, CallKept DEF CallInv, KernelCall
<1>9. ASSUME NotRacedInv, ~raced' PROVE NotRacedInv'
  <2>1. ~Meets(reg, kp, held)  BY <1>2, <1>9
  <2>2. CopiesFresh /\ RegistersSettled /\ PullsApart /\ PadsSettled
    BY <1>9 DEF NotRacedInv
  <2>3. \A q \in Pins : q # kp => regs'[reg][q] = regs[reg][q]
    BY <1>2, <1>6, <2>2 DEF CopiesFresh, reg
  <2>4. CopiesFresh'
    <3> SUFFICES ASSUME held # <<>>, NEW q \in DOMAIN held.copy
                 PROVE  held.copy[q] = regs'[held.reg][q]
      BY <1>2, <1>3 DEF CopiesFresh
    <3>1. held.copy[q] = regs[held.reg][q]  BY <2>2 DEF CopiesFresh
    <3>2. q \in Pins /\ held.reg = todo[1].reg /\ held.reg # "PUD" /\ todo # <<>>
      BY <1>1 DEF CallInv, SameWord
    <3>3. held.reg \in RegNames
      <4>1. todo[1] \in AccessSet  BY <1>1, <3>2, EmptySeq
      <4> QED  BY <3>2, <4>1 DEF AccessSet
    <3>4. CASE held.reg = reg
      <4>1. q # kp  BY <2>1, <3>4 DEF Meets
      <4> QED  BY <2>3, <3>1, <3>2, <3>4, <4>1
    <3>5. CASE held.reg # reg  BY <1>6, <3>1, <3>3, <3>5
    <3> QED  BY <3>4, <3>5
  <2>5. RegistersSettled'
    <3>1. ASSUME NEW r \in RegNames
          PROVE  /\ \A p \in asked : regs'[r][p] = regs[r][p]
                 /\ \A p \in Pins \ asked : regs'[r][p] = others'[r][p]
      <4>1. \A p \in Pins \ asked : regs[r][p] = others[r][p]
        BY <2>2 DEF RegistersSettled
      <4>2. CASE r # reg  BY <1>6, <1>7, <4>1, <4>2
      <4>3. CASE r = reg
        <5>1. asked \subseteq Pins  BY <1>1 DEF CallInv
        <5> QED  BY <1>4, <1>6, <1>7, <2>3, <4>1, <4>3, <5>1
      <4> QED  BY <4>2, <4>3
    <3> QED  BY <1>3, <2>2, <3>1, CallKept, SettledLeaves
  <2>6. PullsApart'  BY <1>3, <2>2, CallKept DEF PullsApart
  <2>7. PadsSettled'  BY <1>3, <2>2, CallKept DEF PadsSettled
  <2> QED  BY <2>4, <2>5, <2>6, <2>7 DEF NotRacedInv
<1>10. raced => raced'  BY <1>2
<1>11. todo' \in Seq(AccessSet)  BY <1>3, CallKept
<1> QED  BY <1>1, <1>8, <1>9, <1>10, <1>11, Together

\* The kernel takes GPPUD for a pin of its own.
LEMMA KernelPudStep ==
  ASSUME ProofInv, KernelPud  PROVE ProofInv'
<1>1. CallInv /\ GpioInv /\ todo \in Seq(AccessSet)
  BY DEF ProofInv, GpioInv
<1>2. PICK p \in Pins \ asked, pull \in Pulls \ {"no_change"} :
        pud' = pull /\ puller' = [pin |-> p, pull |-> pull, field |-> 1]
  BY DEF KernelPud
<1>3. /\ UNCHANGED <<pins, pin, config, todo, asked, before>> /\ held' = held
      /\ UNCHANGED <<kernel, others, pulls, out, asked>>
      /\ regs' = regs /\ pads' = pads /\ raced' = (raced \/ Pulling) /\ puller = <<>>
  BY DEF KernelPud, KernelFree, asks, callVars
<1>4. /\ puller'.pin = p /\ puller'.pull = pull /\ puller'.field = 1
      /\ puller' \in [pin : Pins \ asked, pull : Pulls, field : {0, 1}]
  BY <1>2
<1>5. CallInv'
  <2>1. KernelCall'  BY <1>1, <1>3, <1>4 DEF CallInv, KernelCall
  <2>2. DOMAIN regs' = RegNames  BY <1>1, <1>3 DEF CallInv
  <2> QED  BY <1>3, <2>1, <2>2, HeldKept, CallKept DEF CallInv, KernelCall
<1>6. ASSUME NotRacedInv, ~raced' PROVE NotRacedInv'
  <2> USE <1>6 DEF NotRacedInv
  <2>1. CopiesFresh'  BY <1>3 DEF CopiesFresh
  <2>2. RegistersSettled'  BY <1>3, CallKept, SettledLeaves
  <2>3. PullsApart'
    <3>1. ~Pulling  BY <1>3, <1>6
    <3>2. ~Pulling'  BY <1>3, <3>1, CallKept
    <3> QED  BY <1>2, <1>4, <3>2 DEF PullsApart
  <2>4. PadsSettled'  BY <1>3, CallKept DEF PadsSettled
  <2> QED  BY <2>1, <2>2, <2>3, <2>4
<1> QED  BY <1>1, <1>3, <1>5, <1>6, CallKept, Together

\* The kernel's clock finds no other pad's clock on, and GPPUD as it was written.
LEMMA KernelClockStep ==
  ASSUME ProofInv, KernelClock  PROVE ProofInv'
<1> DEFINE p == puller.pin
           field == puller.field
           blank == [q \in SameWord("PUDCLK", p) |-> 0]
<1>1. CallInv /\ GpioInv /\ todo \in Seq(AccessSet)
  BY DEF ProofInv, GpioInv
<1>2. /\ puller # <<>>
      /\ WriteBack("PUDCLK", p, field, blank)
      /\ others' = [others EXCEPT !["PUDCLK"][p] = field]
      /\ pulls' = IF field = 1 THEN [pulls EXCEPT ![p] = puller.pull] ELSE pulls
      /\ puller' = IF field = 1 THEN [puller EXCEPT !.field = 0] ELSE <<>>
      /\ pads' = [q \in Pins |-> IF regs'["PUDCLK"][q] = 1 THEN pud ELSE pads[q]]
  BY DEF KernelClock, Latch
<1>3. /\ UNCHANGED <<pins, pin, config, todo, asked, before>> /\ held' = held
      /\ pud' = pud /\ out' = out /\ kernel' = kernel /\ raced' = raced
  BY DEF KernelClock, callVars
<1>4. p \in Pins \ asked /\ field \in {0, 1} /\ asked \subseteq Pins
  BY <1>1, <1>2 DEF CallInv
<1>5. /\ DOMAIN regs = RegNames /\ DOMAIN others = RegNames /\ DOMAIN pulls = Pins
      /\ \A r \in RegNames : DOMAIN others[r] = Pins
      /\ \A q \in Pins : q # p => others["PUDCLK"][q] = 0
      /\ "PUDCLK" \in RegNames
  BY <1>1, <1>2 DEF CallInv, RegNames
<1>6. /\ DOMAIN blank \subseteq Pins /\ \A q \in DOMAIN blank : blank[q] = 0
  BY DEF SameWord
<1>7. /\ field = 1 => /\ puller' # <<>> /\ puller'.pin = p /\ puller'.field = 0
                       /\ puller'.pull = puller.pull
                       /\ puller' \in [pin : Pins \ asked, pull : Pulls, field : {0, 1}]
      /\ field # 1 => puller' = <<>>
  <2>1. puller \in [pin : Pins \ asked, pull : Pulls, field : {0, 1}]
    BY <1>1, <1>2 DEF CallInv
  <2>2. field = 1 => puller' = [pin |-> p, pull |-> puller.pull, field |-> 0]
    BY <1>2, <2>1
  <2>3. <<>> # [pin |-> p, pull |-> puller.pull, field |-> 0]
    OBVIOUS
  <2> QED  BY <1>2, <1>4, <2>1, <2>2, <2>3
<1> HIDE DEF p, field, blank
<1>8. /\ DOMAIN regs' = RegNames
      /\ \A r \in RegNames : r # "PUDCLK" => regs'[r] = regs[r]
      /\ regs'["PUDCLK"][p] = field
      /\ (\A q \in DOMAIN blank : blank[q] = regs["PUDCLK"][q]) =>
           \A q \in Pins : q # p => regs'["PUDCLK"][q] = regs["PUDCLK"][q]
  BY <1>2, <1>4, <1>5, WriteBackEffect
<1>9. /\ DOMAIN others' = RegNames
      /\ \A r \in RegNames : r # "PUDCLK" => others'[r] = others[r]
      /\ DOMAIN others'["PUDCLK"] = Pins /\ others'["PUDCLK"][p] = field
      /\ \A q \in Pins : q # p => others'["PUDCLK"][q] = others["PUDCLK"][q]
  BY <1>2, <1>4, <1>5
<1>10. /\ DOMAIN pulls' = Pins
       /\ field = 1 => pulls'[p] = puller.pull
       /\ field # 1 => pulls' = pulls
       /\ \A q \in Pins : q # p => pulls'[q] = pulls[q]
  BY <1>2, <1>4, <1>5
<1>11. CallInv'
  <2>1. \A r \in RegNames : DOMAIN others'[r] = Pins  BY <1>5, <1>9
  <2>2. \A q \in Pins : others'["PUDCLK"][q] =
          IF puller' # <<>> /\ puller'.pin = q THEN 1 - puller'.field ELSE 0
    <3> TAKE q \in Pins
    <3>1. CASE q = p
      <4>1. field \in {0, 1} /\ others'["PUDCLK"][q] = field  BY <1>4, <1>9, <3>1
      <4>2. field = 1 => puller' # <<>> /\ puller'.pin = q /\ puller'.field = 0
        BY <1>7, <3>1
      <4>3. field # 1 => puller' = <<>>  BY <1>7
      <4> QED  BY <4>1, <4>2, <4>3
    <3>2. CASE q # p
      <4>1. others'["PUDCLK"][q] = 0  BY <1>5, <1>9, <3>2
      <4>2. ~ (puller' # <<>> /\ puller'.pin = q)  BY <1>7, <3>2
      <4> QED  BY <4>1, <4>2
    <3> QED  BY <3>1, <3>2
  <2>3. KernelCall'
    <3>1. puller' # <<>> => puller' \in [pin : Pins \ asked', pull : Pulls, field : {0, 1}]
      BY <1>3, <1>7
    <3>2. \A q \in Pins \ asked' : out'[q] = 0  BY <1>1, <1>3 DEF CallInv
    <3>3. kernel' # <<>> =>
            /\ kernel'.reg \in EventRegs \cup {"FSEL"} /\ kernel'.pin \in Pins \ asked'
            /\ DOMAIN kernel'.copy = SameWord(kernel'.reg, kernel'.pin)
      BY <1>1, <1>3 DEF CallInv
    <3> QED  BY <1>9, <1>10, <2>1, <2>2, <3>1, <3>2, <3>3 DEF KernelCall
  <2> QED  BY <1>3, <1>8, <2>3, HeldKept, CallKept DEF CallInv, KernelCall
<1>12. ASSUME NotRacedInv PROVE NotRacedInv'
  <2>1. CopiesFresh /\ RegistersSettled /\ PullsApart /\ PadsSettled
    BY <1>12 DEF NotRacedInv
  <2>2. ~Pulling /\ pud = puller.pull  BY <1>2, <2>1 DEF PullsApart
  <2>3. \A q \in Pins : q # p => regs["PUDCLK"][q] = 0
    <3> TAKE q \in Pins
    <3>1. CASE q \in asked  BY <1>1, <2>1, <2>2, <3>1, ClocksOff
    <3>2. CASE q \notin asked /\ q # p  BY <1>5, <2>1, <3>2 DEF RegistersSettled
    <3> QED  BY <3>1, <3>2
  <2>4. \A q \in Pins : q # p => regs'["PUDCLK"][q] = 0
    <3>1. ASSUME NEW q \in Pins, q # p  PROVE regs'["PUDCLK"][q] = 0
      <4>1. regs'["PUDCLK"][q] = IF q \in DOMAIN blank THEN blank[q] ELSE regs["PUDCLK"][q]
        BY <1>2, <1>5, <3>1 DEF WriteBack
      <4> QED  BY <1>6, <2>3, <3>1, <4>1
    <3> QED  BY <3>1
  <2>5. CopiesFresh'
    <3>1. \A r \in RegNames : r # "PUDCLK" => regs'[r] = regs[r]  BY <1>8
    <3>2. held # <<>> => held.reg \in RegNames /\ held.reg # "PUDCLK"
      <4> SUFFICES ASSUME held # <<>> PROVE held.reg \in RegNames /\ held.reg # "PUDCLK"
        OBVIOUS
      <4>1. todo # <<>> /\ held.reg = todo[1].reg /\ held.reg # "PUD"
        BY <1>1 DEF CallInv
      <4>2. todo[1] \in AccessSet  BY <1>1, <4>1, EmptySeq
      <4> QED  BY <2>2, <4>1, <4>2 DEF AccessSet, Pulling
    <3>3. kernel # <<>> => kernel.reg \in RegNames /\ kernel.reg # "PUDCLK"
      BY <1>1 DEF CallInv, RegNames, EventRegs
    <3> QED  BY <1>3, <2>1, <3>1, <3>2, <3>3 DEF CopiesFresh
  <2>6. RegistersSettled'
    <3>1. ASSUME NEW r \in RegNames
          PROVE  /\ \A q \in asked : regs'[r][q] = regs[r][q]
                 /\ \A q \in Pins \ asked : regs'[r][q] = others'[r][q]
      <4>1. \A q \in Pins \ asked : regs[r][q] = others[r][q]
        BY <2>1 DEF RegistersSettled
      <4>2. CASE r # "PUDCLK"  BY <1>8, <1>9, <4>1, <4>2
      <4>3. CASE r = "PUDCLK"
        BY <1>4, <1>5, <1>8, <1>9, <2>3, <2>4, <4>3
      <4> QED  BY <4>2, <4>3
    <3> QED  BY <1>3, <2>1, <3>1, CallKept, SettledLeaves
  <2>7. PullsApart'
    <3>1. puller' # <<>> => puller'.pull = puller.pull  BY <1>7
    <3> QED  BY <1>3, <2>2, <3>1, CallKept DEF PullsApart
  <2>8. PadsSettled'
    <3>1. \A q \in Pins : q # p => pads'[q] = pads[q]  BY <1>2, <2>4
    <3>2. pads'[p] = IF field = 1 THEN puller.pull ELSE pads[p]
      BY <1>2, <1>4, <1>8, <2>2
    <3>3. \A q \in Pins \ asked : pads'[q] = pulls'[q]
      <4>1. \A q \in Pins \ asked : pads[q] = pulls[q]  BY <2>1 DEF PadsSettled
      <4> QED  BY <1>4, <1>10, <3>1, <3>2, <4>1
    <3>4. \A q \in asked : q \in Pins /\ q # p  BY <1>4
    <3>5. \A q \in asked : pads'[q] = pads[q]  BY <3>1, <3>4
    <3>6. /\ \A q \in asked : Progress(q)' = Progress(q)
          /\ asked' = asked /\ config' = config /\ Accesses(config') = Accesses(config)
      BY <1>3, CallKept
    <3> QED  BY <2>1, <3>3, <3>5, <3>6 DEF PadsSettled
  <2> QED  BY <2>5, <2>6, <2>7, <2>8 DEF NotRacedInv
<1> QED  BY <1>1, <1>3, <1>11, <1>12, CallKept, Together

\* What an access that is done leaves of the call.
LEMMA CallAdvances ==
  ASSUME ProofInv, todo # <<>>, todo' = Tail(todo),
         UNCHANGED <<pins, pin, config, asked, before>>
  PROVE  /\ \A p \in asked : Progress(p)' = IF p = pin THEN Progress(p) + 1 ELSE Progress(p)
         /\ \A p \in asked : p # pin => Progress(p) = 0 \/ Progress(p) = Len(Accesses(config))
         /\ \A p \in asked : Progress(p)' \in 0 .. Len(Accesses(config))
         /\ todo' \in Seq(AccessSet) /\ Len(todo') = Len(todo) - 1
         /\ asked' \subseteq Pins /\ pins' \subseteq asked' /\ pin' \notin pins'
         /\ pin' \in asked'
         /\ config' \in Configs
         /\ LET left == Len(todo')
                all  == Len(Accesses(config'))
            IN left \in 0 .. all /\ \A i \in 1 .. left : todo'[i] = Accesses(config')[(all - left) + i]
         /\ \A p \in Pins : before'["PUDCLK"][p] = 0
<1> DEFINE a == Accesses(config)
           l == Len(a)
<1>1. CallInv /\ todo \in Seq(AccessSet)  BY DEF ProofInv, GpioInv
<1>2. /\ config \in Configs /\ l \in Nat /\ Len(todo) \in 0 .. l /\ Len(todo) >= 1
      /\ pin \in asked /\ \A p \in asked : Progress(p) \in 0 .. l
      /\ Progress(pin) = l - Len(todo)
  BY <1>1, CallFacts
<1>3. /\ todo' \in Seq(AccessSet) /\ Len(todo') = Len(todo) - 1
      /\ \A i \in 1 .. Len(todo) - 1 : todo'[i] = todo[i + 1]
  BY <1>1, HeadTailProperties
<1>4. /\ asked' \subseteq Pins /\ pins' \subseteq asked' /\ pin' \notin pins' /\ pin' \in asked'
      /\ config' \in Configs /\ \A p \in Pins : before'["PUDCLK"][p] = 0
  BY <1>1, <1>2 DEF CallInv
<1>5. \A i \in 1 .. Len(todo) : todo[i] = a[(l - Len(todo)) + i]
  BY <1>1 DEF CallInv
<1>6. \A p \in asked : Progress(p) = IF p \in pins THEN 0 ELSE IF p = pin THEN l - Len(todo) ELSE l
  BY DEF Progress
<1>7. \A p \in asked : Progress(p)' = IF p \in pins THEN 0 ELSE IF p = pin THEN l - Len(todo') ELSE l
  BY DEF Progress
<1>8. Accesses(config') = a  OBVIOUS
<1> HIDE DEF a, l
<1>9. l - Len(todo') = (l - Len(todo)) + 1  BY <1>2, <1>3
<1>10. \A p \in asked : Progress(p)' = IF p = pin THEN Progress(p) + 1 ELSE Progress(p)
  BY <1>4, <1>6, <1>7, <1>9
<1>11. \A p \in asked : p # pin => Progress(p) = 0 \/ Progress(p) = l  BY <1>6
<1>12. \A p \in asked : Progress(p)' \in 0 .. l
  BY <1>2, <1>3, <1>7
<1>13. Len(todo') \in 0 .. l /\ \A i \in 1 .. Len(todo') : todo'[i] = a[(l - Len(todo')) + i]
  <2>1. Len(todo') \in 0 .. l  BY <1>2, <1>3
  <2>2. ASSUME NEW i \in 1 .. Len(todo')  PROVE todo'[i] = a[(l - Len(todo')) + i]
    <3>1. i \in 1 .. Len(todo) - 1 /\ i + 1 \in 1 .. Len(todo)  BY <1>2, <1>3
    <3>2. todo'[i] = a[(l - Len(todo)) + (i + 1)]  BY <1>3, <1>5, <3>1
    <3>3. (l - Len(todo)) + (i + 1) = (l - Len(todo')) + i  BY <1>2, <1>3, <3>1
    <3> QED  BY <3>2, <3>3
  <2> QED  BY <2>1, <2>2
<1> QED  BY <1>3, <1>4, <1>8, <1>10, <1>11, <1>12, <1>13 DEF a, l

\* An access to PUDCLK follows either another one or the access to GPPUD.
LEMMA PullingBefore ==
  ASSUME ProofInv, todo # <<>>, todo' = Tail(todo),
         UNCHANGED <<pins, pin, config, asked, before>>, Pulling'
  PROVE  /\ todo[1].reg \in {"PUD", "PUDCLK"}
         /\ todo[1].reg = "PUD" => config.pull # "no_change" /\ todo[1].field = config.pull
<1> DEFINE a == Accesses(config)
           l == Len(a)
           n == Progress(pin)
<1>1. CallInv /\ todo \in Seq(AccessSet)  BY DEF ProofInv, GpioInv
<1>2. /\ config \in Configs /\ l \in Nat
      /\ n \in 0 .. l /\ n = l - Len(todo) /\ Len(todo) \in 1 .. l /\ todo[1] = a[n + 1]
  BY <1>1, CallFacts
<1>3. todo' # <<>> /\ todo'[1].reg = "PUDCLK" /\ todo' = Tail(todo)  BY DEF Pulling
<1>4. todo' \in Seq(AccessSet) /\ Len(todo') = Len(todo) - 1  BY CallAdvances
<1>5. Len(todo') >= 1  BY <1>3, <1>4, EmptySeq
<1>6. todo'[1] = todo[2] /\ Len(todo) >= 2
  <2>1. \A i \in 1 .. Len(todo) - 1 : todo'[i] = todo[i + 1]
    BY <1>1, <1>3, HeadTailProperties
  <2> QED  BY <1>2, <1>4, <1>5, <2>1
<1>7. todo[2] = a[n + 2]
  <2>1. \A i \in 1 .. Len(todo) : todo[i] = a[(l - Len(todo)) + i]
    BY <1>1 DEF CallInv
  <2> QED  BY <1>2, <1>6, <2>1
<1>8. /\ config.pull = "no_change" => \A i \in 1 .. l : a[i].reg \notin {"PUD", "PUDCLK"}
      /\ config.pull # "no_change" =>
           /\ l >= 10
           /\ a[l - 2].reg = "PUD" /\ a[l - 2].field = config.pull
           /\ a[l - 1].reg = "PUDCLK" /\ a[l].reg = "PUDCLK"
           /\ \A i \in 1 .. l - 3 : a[i].reg \notin {"PUD", "PUDCLK"}
  BY <1>2, PullAccess
<1> HIDE DEF a, l, n
<1>9. n + 2 \in 1 .. l /\ a[n + 2].reg = "PUDCLK"  BY <1>2, <1>3, <1>6, <1>7
<1>10. config.pull # "no_change"  BY <1>8, <1>9
<1>11. n + 2 = l - 1 \/ n + 2 = l
  <2>1. n + 2 # l - 2 /\ n + 2 \notin 1 .. l - 3  BY <1>8, <1>9, <1>10
  <2> QED  BY <1>2, <1>9, <2>1
<1>12. n + 1 = l - 2 \/ n + 1 = l - 1  BY <1>2, <1>11
<1> QED  BY <1>2, <1>8, <1>10, <1>12

LEMMA WriteRegisterStep ==
  ASSUME ProofInv, WriteRegister  PROVE ProofInv'
<1> DEFINE a == Accesses(config)
           l == Len(a)
           reg == held.reg
           field == todo[1].field
           n == Progress(pin)
<1>1. CallInv /\ GpioInv /\ todo \in Seq(AccessSet)
  BY DEF ProofInv, GpioInv
<1>2. /\ held # <<>> /\ held' = <<>> /\ todo' = Tail(todo)
      /\ WriteBack(reg, pin, field, held.copy)
      /\ pads' = [p \in Pins |-> IF reg = "PUDCLK" /\ regs'[reg][p] = 1 THEN pud ELSE pads[p]]
      /\ raced' = (raced \/ Meets(reg, pin, kernel))
      /\ UNCHANGED <<pins, pin, config, asked, before>>
      /\ UNCHANGED <<kernel, puller, others, pulls, out, asked>>
      /\ pud' = pud
  BY DEF WriteRegister, Latch, asks
<1>3. /\ todo # <<>> /\ reg = todo[1].reg /\ reg # "PUD"
      /\ DOMAIN regs = RegNames
      /\ \A q \in Pins : before["PUDCLK"][q] = 0
      /\ asked \subseteq Pins
  BY <1>1, <1>2 DEF CallInv
<1>4. reg \in RegNames
  <2>1. todo[1] \in AccessSet  BY <1>1, <1>3, EmptySeq
  <2> QED  BY <1>3, <2>1 DEF AccessSet
<1>5. /\ config \in Configs /\ l \in Nat /\ pin \in asked /\ pin \in Pins
      /\ n \in 0 .. l /\ n = l - Len(todo) /\ Len(todo) \in 1 .. l /\ todo[1] = a[n + 1]
  BY <1>1, <1>3, CallFacts
<1>6. /\ \A p \in asked : Progress(p)' = IF p = pin THEN Progress(p) + 1 ELSE Progress(p)
      /\ \A p \in asked : p # pin => Progress(p) = 0 \/ Progress(p) = l
      /\ \A p \in asked : Progress(p)' \in 0 .. l
      /\ Len(todo') = Len(todo) - 1
  BY <1>2, <1>3, CallAdvances
<1>7. a[n + 1].reg = reg /\ a[n + 1].field = field  BY <1>3, <1>5
<1>8. Accesses(config') = a  BY <1>2
<1> HIDE DEF a, l, reg, field, n
<1>9. /\ DOMAIN regs' = RegNames
      /\ \A r \in RegNames : r # reg => regs'[r] = regs[r]
      /\ regs'[reg][pin] = field
      /\ (\A q \in DOMAIN held.copy : held.copy[q] = regs[reg][q]) =>
           \A q \in Pins : q # pin => regs'[reg][q] = regs[reg][q]
  BY <1>2, <1>3, <1>4, <1>5, WriteBackEffect
<1>10. CallInv'
  <2>1. KernelCall'  BY <1>1, <1>2, KernelCallKept
  <2> QED  BY <1>2, <1>3, <1>9, <2>1, CallAdvances DEF CallInv, KernelCall
<1>11. ASSUME NotRacedInv, ~raced' PROVE NotRacedInv'
  <2>1. CopiesFresh /\ RegistersSettled /\ PullsApart /\ PadsSettled
    BY <1>11 DEF NotRacedInv
  <2>2. ~Meets(reg, pin, kernel)  BY <1>2, <1>11
  <2>3. \A r \in RegNames : \A p \in Pins : r # reg \/ p # pin => regs'[r][p] = regs[r][p]
    <3>1. \A q \in DOMAIN held.copy : held.copy[q] = regs[reg][q]
      BY <1>2, <2>1 DEF CopiesFresh, reg
    <3> QED  BY <1>9, <3>1
  <2>4. CopiesFresh'
    <3> SUFFICES ASSUME kernel # <<>>, NEW q \in DOMAIN kernel.copy
                 PROVE  kernel.copy[q] = regs'[kernel.reg][q]
      BY <1>2 DEF CopiesFresh
    <3>1. kernel.copy[q] = regs[kernel.reg][q]  BY <2>1 DEF CopiesFresh
    <3>2. kernel.reg \in RegNames /\ q \in Pins
      BY <1>1 DEF CallInv, RegNames, SameWord
    <3>3. kernel.reg # reg \/ q # pin  BY <2>2 DEF Meets
    <3> QED  BY <2>3, <3>1, <3>2, <3>3
  <2>5. ASSUME NEW r \in RegNames
        PROVE  Leaves(regs'[r][pin], before[r][pin], a, r, n + 1)
    <3>1. Leaves(regs[r][pin], before[r][pin], a, r, n)
      BY <1>5, <2>1, SettledLeaves DEF n, a
    <3>2. CASE r = reg
      <4>0. n \in Nat /\ a[n + 1].reg = r  BY <1>5, <1>7, <3>2
      <4>1. Leaves(a[n + 1].field, before[r][pin], a, r, n + 1)
        BY <4>0, LeavesWritten
      <4> QED  BY <1>7, <1>9, <3>2, <4>1
    <3>3. CASE r # reg
      <4>1. regs'[r][pin] = regs[r][pin]  BY <1>9, <3>3
      <4>2. Leaves(regs[r][pin], before[r][pin], a, r, n + 1)
        BY <1>5, <1>7, <3>1, <3>3, LeavesOther
      <4> QED  BY <4>1, <4>2
    <3> QED  BY <3>2, <3>3
  <2>6. RegistersSettled'
    <3>1. ASSUME NEW r \in RegNames, NEW p \in asked
          PROVE  Leaves(regs'[r][p], before[r][p], a, r, Progress(p)')
      <4>1. CASE p = pin
        <5>1. Progress(p)' = n + 1  BY <1>6, <4>1 DEF n
        <5> QED  BY <2>5, <4>1, <5>1
      <4>2. CASE p # pin
        <5>1. Leaves(regs[r][p], before[r][p], a, r, Progress(p))
          BY <2>1, SettledLeaves DEF a
        <5>2. regs'[r][p] = regs[r][p]  BY <1>3, <2>3, <4>2
        <5>3. Progress(p)' = Progress(p)  BY <1>6, <4>2
        <5> QED  BY <5>1, <5>2, <5>3
      <4> QED  BY <4>1, <4>2
    <3>2. ASSUME NEW r \in RegNames, NEW p \in Pins \ asked
          PROVE  regs'[r][p] = others[r][p]
      <4>1. regs'[r][p] = regs[r][p]  BY <1>5, <2>3
      <4> QED  BY <2>1, <4>1 DEF RegistersSettled
    <3> QED  BY <1>2, <1>8, <3>1, <3>2, SettledLeaves
  <2>7. Pulling' => Pulling
    <3>1. Pulling' => reg \in {"PUD", "PUDCLK"}  BY <1>2, <1>3, PullingBefore
    <3> QED  BY <1>3, <3>1 DEF Pulling
  <2>8. PullsApart'  BY <1>2, <2>1, <2>7 DEF PullsApart
  <2>9. reg = "PUDCLK" => Pulling /\ puller = <<>> /\ pud = config.pull
    BY <1>3, <2>1 DEF PullsApart, Pulling
  <2>10. \A p \in Pins \ asked : pads'[p] = pads[p]
    <3> TAKE p \in Pins \ asked
    <3>1. CASE reg # "PUDCLK"  BY <1>2, <3>1
    <3>2. CASE reg = "PUDCLK"
      <4>1. others["PUDCLK"][p] = 0  BY <1>1, <2>9, <3>2 DEF CallInv
      <4>2. regs'["PUDCLK"][p] = 0  BY <1>2, <1>4, <2>6, <3>2, <4>1 DEF RegistersSettled
      <4> QED  BY <1>2, <3>2, <4>2
    <3> QED  BY <3>1, <3>2
  <2>11. \A p \in asked : regs'["PUDCLK"][p] =
           IF config.pull # "no_change" /\ Progress(p)' = l - 1 THEN 1 ELSE 0
    <3> TAKE p \in asked
    <3>0. "PUDCLK" \in RegNames  BY DEF RegNames
    <3>1. Leaves(regs'["PUDCLK"][p], before'["PUDCLK"][p], a, "PUDCLK", Progress(p)')
      BY <1>2, <1>8, <2>6, <3>0, SettledLeaves
    <3>2. before'["PUDCLK"][p] = 0  BY <1>2, <1>3
    <3>3. Progress(p)' \in 0 .. l  BY <1>6
    <3> QED  BY <1>5, <3>1, <3>2, <3>3, ClockLevel DEF a, l
  <2>12. config.pull # "no_change" => l >= 10 /\ a[l - 1].reg = "PUDCLK"
    BY <1>5, PullAccess DEF a, l
  <2>13. ASSUME NEW p \in asked
         PROVE  IF config.pull = "no_change" THEN pads'[p] = "down"
                ELSE Progress(p)' >= l - 1 => pads'[p] = config.pull
    <3>1. /\ p \in Pins
          /\ pads'[p] = IF reg = "PUDCLK" /\ regs'[reg][p] = 1 THEN pud ELSE pads[p]
      BY <1>2, <1>3
    <3>2. IF config.pull = "no_change" THEN pads[p] = "down"
          ELSE Progress(p) >= l - 1 => pads[p] = config.pull
      BY <2>1 DEF PadsSettled, a, l
    <3>3. CASE config.pull = "no_change"
      <4>1. regs'["PUDCLK"][p] = 0  BY <2>11, <3>3
      <4>2. pads'[p] = pads[p]  BY <3>1, <4>1
      <4> QED  BY <3>2, <3>3, <4>2
    <3>4. CASE config.pull # "no_change" /\ pads'[p] = pud /\ reg = "PUDCLK"
      BY <2>9, <3>4
    <3>5. CASE config.pull # "no_change" /\ pads'[p] = pads[p] /\ Progress(p)' # l - 1
      <4>1. Progress(p)' >= l - 1 => Progress(p) >= l - 1
        <5>1. Progress(p) \in 0 .. l /\ Progress(p)' \in 0 .. l  BY <1>1, <1>6, CallFacts DEF l, a
        <5>2. Progress(p)' = Progress(p) \/ Progress(p)' = Progress(p) + 1  BY <1>6
        <5> QED  BY <1>5, <3>5, <5>1, <5>2
      <4> QED  BY <3>2, <3>5, <4>1
    <3>6. CASE config.pull # "no_change" /\ Progress(p)' = l - 1
      <4>1. regs'["PUDCLK"][p] = 1  BY <2>11, <3>6
      <4>2. p = pin
        <5>1. p # pin => Progress(p)' = 0 \/ Progress(p)' = l  BY <1>6
        <5>2. l - 1 # 0 /\ l - 1 # l  BY <1>5, <2>12, <3>6
        <5> QED  BY <3>6, <5>1, <5>2
      <4>3. n + 1 = l - 1  BY <1>6, <3>6, <4>2 DEF n
      <4>4. reg = "PUDCLK"  BY <1>7, <2>12, <3>6, <4>3
      <4> QED  BY <2>9, <3>1, <3>6, <4>1, <4>4
    <3> QED  BY <3>1, <3>3, <3>4, <3>5, <3>6
  <2>14. Len(Accesses(config')) = l  BY <1>8 DEF l
  <2>15. PadsSettled'
    <3>1. \A p \in Pins \ asked : pads'[p] = pulls[p]  BY <2>1, <2>10 DEF PadsSettled
    <3> QED  BY <1>2, <2>13, <2>14, <3>1 DEF PadsSettled
  <2> QED  BY <2>4, <2>6, <2>8, <2>15 DEF NotRacedInv
<1> QED  BY <1>1, <1>2, <1>3, <1>10, <1>11, CallAdvances, Together

\* The driver takes GPPUD for the pull it was asked for.
LEMMA WritePudStep ==
  ASSUME ProofInv, WritePud  PROVE ProofInv'
<1> DEFINE a == Accesses(config)
           l == Len(a)
           n == Progress(pin)
<1>1. CallInv /\ GpioInv /\ todo \in Seq(AccessSet)
  BY DEF ProofInv, GpioInv
<1>2. /\ todo # <<>> /\ todo[1].reg = "PUD" /\ pud' = todo[1].field /\ todo' = Tail(todo)
      /\ UNCHANGED <<pins, pin, config, asked, before>>
      /\ UNCHANGED <<kernel, puller, others, pulls, out, asked>>
      /\ held' = held /\ regs' = regs /\ pads' = pads /\ raced' = (raced \/ puller # <<>>)
  BY DEF WritePud, asks
<1>3. held = <<>>  BY <1>1, <1>2 DEF CallInv
<1>4. /\ config \in Configs /\ l \in Nat /\ pin \in asked /\ pin \in Pins
      /\ n \in 0 .. l /\ n = l - Len(todo) /\ Len(todo) \in 1 .. l /\ todo[1] = a[n + 1]
  BY <1>1, <1>2, CallFacts
<1>5. \A p \in asked : Progress(p)' = IF p = pin THEN Progress(p) + 1 ELSE Progress(p)
  BY <1>2, CallAdvances
<1>6. Accesses(config') = a  BY <1>2
<1>7. /\ config.pull = "no_change" => \A i \in 1 .. l : a[i].reg \notin {"PUD", "PUDCLK"}
      /\ config.pull # "no_change" =>
           /\ l >= 10
           /\ a[l - 2].reg = "PUD" /\ a[l - 2].field = config.pull
           /\ a[l - 1].reg = "PUDCLK" /\ a[l].reg = "PUDCLK"
           /\ \A i \in 1 .. l - 3 : a[i].reg \notin {"PUD", "PUDCLK"}
  BY <1>4, PullAccess
<1> HIDE DEF a, l, n
<1>8. n + 1 \in 1 .. l /\ a[n + 1].reg = "PUD" /\ a[n + 1].field = pud'
  BY <1>2, <1>4
<1>9. config.pull # "no_change"  BY <1>7, <1>8
<1>10. n + 1 = l - 2
  <2>1. n + 1 # l - 1 /\ n + 1 # l /\ n + 1 \notin 1 .. l - 3  BY <1>7, <1>8, <1>9
  <2> QED  BY <1>4, <1>8, <2>1
<1>11. CallInv'
  <2>1. KernelCall' /\ DOMAIN regs' = RegNames
    BY <1>1, <1>2, KernelCallKept DEF CallInv
  <2> QED  BY <1>2, <1>3, <2>1, CallAdvances DEF CallInv, KernelCall
<1>12. ASSUME NotRacedInv, ~raced' PROVE NotRacedInv'
  <2>1. CopiesFresh /\ RegistersSettled /\ PullsApart /\ PadsSettled
    BY <1>12 DEF NotRacedInv
  <2>2. CopiesFresh'  BY <1>2, <1>3, <2>1 DEF CopiesFresh
  <2>3. RegistersSettled'
    <3>1. ASSUME NEW r \in RegNames, NEW p \in asked
          PROVE  Leaves(regs[r][p], before[r][p], a, r, Progress(p)')
      <4>1. Leaves(regs[r][p], before[r][p], a, r, Progress(p))
        BY <2>1, SettledLeaves DEF a
      <4>2. CASE p = pin
        <5>1. Progress(p)' = n + 1 /\ Progress(p) = n  BY <1>5, <4>2 DEF n
        <5>2. r # "PUD"  BY DEF RegNames, EventRegs
        <5>3. n \in Nat /\ a[n + 1].reg # r  BY <1>4, <1>8, <5>2
        <5>4. Leaves(regs[r][p], before[r][p], a, r, n + 1)
          BY <4>1, <5>1, <5>3, LeavesOther
        <5> QED  BY <5>1, <5>4
      <4>3. CASE p # pin
        <5>1. Progress(p)' = Progress(p)  BY <1>5, <4>3
        <5> QED  BY <4>1, <5>1
      <4> QED  BY <4>2, <4>3
    <3>2. \A r \in RegNames : \A p \in Pins \ asked : regs[r][p] = others[r][p]
      BY <2>1 DEF RegistersSettled
    <3> QED  BY <1>2, <1>6, <3>1, <3>2, SettledLeaves
  <2>4. PullsApart'
    <3>1. puller' = <<>>  BY <1>2, <1>12
    <3>2. pud' = config'.pull  BY <1>2, <1>7, <1>8, <1>9, <1>10
    <3> QED  BY <3>1, <3>2 DEF PullsApart
  <2>5. PadsSettled'
    <3>1. \A p \in Pins \ asked : pads[p] = pulls[p]  BY <2>1 DEF PadsSettled
    <3>2. ASSUME NEW p \in asked, Progress(p)' >= l - 1  PROVE pads[p] = config.pull
      <4>1. Progress(p) >= l - 1 => pads[p] = config.pull
        BY <1>9, <2>1 DEF PadsSettled, a, l
      <4>2. p # pin
        <5>1. p = pin => Progress(p)' = l - 2  BY <1>5, <1>10 DEF n
        <5> QED  BY <1>4, <3>2, <5>1
      <4>3. Progress(p)' = Progress(p)  BY <1>5, <4>2
      <4> QED  BY <3>2, <4>1, <4>3
    <3> QED  BY <1>2, <1>6, <1>9, <3>1, <3>2 DEF PadsSettled, l
  <2> QED  BY <2>2, <2>3, <2>4, <2>5 DEF NotRacedInv
<1> QED  BY <1>1, <1>2, <1>11, <1>12, CallAdvances, Together

LEMMA ProofInvStutter ==
  ASSUME ProofInv, UNCHANGED vars  PROVE ProofInv'
<1>1. /\ UNCHANGED <<pins, pin, config, todo, held, regs, pud, pads, out, kernel, puller>>
      /\ UNCHANGED <<asked, before, others, pulls, raced>>
  BY DEF vars, callVars, history, asks
<1>2. CallInv' = CallInv  BY <1>1 DEF CallInv
<1>3. /\ CopiesFresh' = CopiesFresh /\ PullsApart' = PullsApart
      /\ RegistersSettled' = RegistersSettled /\ PadsSettled' = PadsSettled
  BY <1>1 DEF CopiesFresh, PullsApart, Pulling, RegistersSettled, Settled, PadsSettled, Progress
<1> QED  BY <1>1, <1>2, <1>3 DEF ProofInv, GpioInv, NotRacedInv

LEMMA InductiveInvariant == Spec => []ProofInv
<1>1. Init => ProofInv  BY ProofInvInit
<1>2. ProofInv /\ [Next]_vars => ProofInv'
  <2> SUFFICES ASSUME ProofInv, [Next]_vars PROVE ProofInv'
    OBVIOUS
  <2>1. CASE NextPin  BY <2>1, NextPinStep
  <2>2. CASE ReadRegister  BY <2>2, ReadRegisterStep
  <2>3. CASE WriteRegister  BY <2>3, WriteRegisterStep
  <2>4. CASE WritePud  BY <2>4, WritePudStep
  <2>5. CASE Set  BY <2>5, DriveStep DEF Set
  <2>6. CASE Clear  BY <2>6, DriveStep DEF Clear
  <2>7. CASE KernelRead  BY <2>7, KernelReadStep
  <2>8. CASE KernelWrite  BY <2>8, KernelWriteStep
  <2>9. CASE KernelPud  BY <2>9, KernelPudStep
  <2>10. CASE KernelClock  BY <2>10, KernelClockStep
  <2>11. CASE UNCHANGED vars  BY <2>11, ProofInvStutter
  <2> QED  BY <2>1, <2>2, <2>3, <2>4, <2>5, <2>6, <2>7, <2>8, <2>9, <2>10, <2>11
           DEF Next, Driver, Kernel
<1> QED  BY <1>1, <1>2, PTL DEF Spec

-----------------------------------------------------------------------------
(***************************************************************************)
(* However many pins share the registers of those in the mask, and wherever    *)
(* the kernel interrupts to change a function, an event or a pull of its own:  *)
(* as long as no two accesses to one register, and no two uses of GPPUD, have  *)
(* overlapped, pins outside the mask have the functions, events and pulls that *)
(* their own users gave them, the pads of both callers' latches included.      *)
(* Their level bcm283x_gpio_set() and _clear() leave alone in any case.        *)
(***************************************************************************)
THEOREM OthersAlwaysKeepSettings == Spec => []OthersKeepSettings
<1>1. ProofInv => OthersKeepSettings
  <2>1. ProofInv => \A p \in Pins \ asked : out[p] = 0
    BY DEF ProofInv, GpioInv, CallInv
  <2>2. ProofInv /\ ~raced =>
          \A p \in Pins \ asked : pads[p] = pulls[p] /\ \A r \in RegNames : regs[r][p] = others[r][p]
    BY DEF ProofInv, GpioInv, NotRacedInv, RegistersSettled, PadsSettled
  <2> QED  BY <2>1, <2>2 DEF OthersKeepSettings
<1> QED  BY <1>1, InductiveInvariant, PTL

\* The events left by the accesses that bcm283x_gpio_configure() has made for a pin.
LEMMA EventsLeft ==
  ASSUME ProofInv, ~raced, NEW p \in asked
  PROVE  /\ Progress(p) >= 7 => EnabledEvents(p) \subseteq Wanted
         /\ Progress(p) <= 7 => EnabledEvents(p) \subseteq {r \in EventRegs : before[r][p] = 1}
         /\ Progress(p) = Len(Accesses(config)) => Wanted \subseteq EnabledEvents(p)
         /\ Progress(p) \in Nat
<1> DEFINE a == Accesses(config)
           l == Len(a)
           n == Progress(p)
           en == Enables(config.event_detect)
<1>1. CallInv /\ RegistersSettled /\ todo \in Seq(AccessSet)
  BY DEF ProofInv, GpioInv, NotRacedInv
<1>2. config \in Configs /\ l \in Nat /\ l >= 7 /\ n \in 0 .. l  BY <1>1, CallFacts
<1>3. \A r \in EventRegs : Leaves(regs[r][p], before[r][p], a, r, n)
  BY <1>1, SettledLeaves DEF RegNames
<1>4. /\ \A r \in EventRegs : \E i \in 2 .. 7 :
           a[i].reg = r /\ a[i].field = 0 /\ \A j \in 1 .. 7 : j # i => a[j].reg # r
      /\ \A i \in 8 .. l : (\E m \in DOMAIN en : a[i].reg = en[m]) \/ a[i].reg \notin EventRegs
      /\ \A m \in DOMAIN en : \E i \in 8 .. l :
           a[i].reg = en[m] /\ a[i].field = 1 /\ \A j \in i + 1 .. l : a[j].reg # en[m]
  BY <1>2, LastAccess
<1>5. Wanted = {en[m] : m \in DOMAIN en} /\ Wanted \subseteq EventRegs
  <2>1. config.event_detect \in Detects  BY <1>2, GpioAssumption DEF GpioAssumption
  <2>2. en \in Seq(EventRegs)  BY <2>1, EnablesShape
  <2>3. \A m \in DOMAIN en : en[m] \in EventRegs  BY <2>2
  <2> QED  BY <2>3 DEF Wanted
<1> HIDE DEF a, l, n, en
<1>6. ASSUME n >= 7, NEW r \in EventRegs, r \notin Wanted  PROVE regs[r][p] # 1
  <2>1. PICK i \in 2 .. 7 :
          a[i].reg = r /\ a[i].field = 0 /\ \A j \in 1 .. 7 : j # i => a[j].reg # r
    BY <1>4
  <2>2. i \in 1 .. n  BY <1>2, <1>6
  <2>3. ASSUME NEW j \in i + 1 .. n  PROVE a[j].reg # r
    <3>1. CASE j <= 7
      <4>1. j \in 1 .. 7 /\ j # i  BY <3>1
      <4> QED  BY <2>1, <4>1
    <3>2. CASE j > 7
      <4>1. j \in 8 .. l  BY <1>2, <3>2
      <4> QED  BY <1>4, <1>5, <1>6, <4>1
    <3> QED  BY <3>1, <3>2
  <2>4. regs[r][p] = 0  BY <1>3, <2>1, <2>2, <2>3 DEF Leaves
  <2> QED  BY <2>4
<1>7. ASSUME n <= 7, NEW r \in EventRegs, regs[r][p] = 1  PROVE before[r][p] = 1
  <2>1. PICK i \in 2 .. 7 :
          a[i].reg = r /\ a[i].field = 0 /\ \A j \in 1 .. 7 : j # i => a[j].reg # r
    BY <1>4
  <2>2. \A j \in 1 .. n : j \in 1 .. 7  BY <1>2, <1>7
  <2>3. CASE i <= n
    <3>1. i \in 1 .. n /\ \A j \in i + 1 .. n : j \in 1 .. 7 /\ j # i  BY <2>2, <2>3
    <3>2. regs[r][p] = 0  BY <1>3, <2>1, <3>1 DEF Leaves
    <3> QED  BY <1>7, <3>2
  <2>4. CASE i > n
    <3>1. \A j \in 1 .. n : j \in 1 .. 7 /\ j # i  BY <1>2, <2>2, <2>4
    <3>2. regs[r][p] = before[r][p]  BY <1>3, <2>1, <3>1 DEF Leaves
    <3> QED  BY <1>7, <3>2
  <2> QED  BY <1>2, <2>3, <2>4
<1>8. ASSUME n = l, NEW r \in Wanted  PROVE r \in EventRegs /\ regs[r][p] = 1
  <2>1. PICK m \in DOMAIN en : r = en[m]  BY <1>5
  <2>2. PICK i \in 8 .. l :
          a[i].reg = r /\ a[i].field = 1 /\ \A j \in i + 1 .. l : a[j].reg # r
    BY <1>4, <2>1
  <2>3. r \in EventRegs /\ i \in 1 .. n  BY <1>2, <1>5, <1>8
  <2> QED  BY <1>3, <1>8, <2>2, <2>3 DEF Leaves
<1> QED  BY <1>2, <1>6, <1>7, <1>8 DEF EnabledEvents, a, l, n

(***************************************************************************)
(* When bcm283x_gpio_configure_mask() returns, every pin of every mask has the *)
(* function, the events and the pull of the configuration and no others, and   *)
(* no pad's clock is left on, unless accesses to one register have overlapped. *)
(***************************************************************************)
THEOREM AlwaysConfiguredAsAsked == Spec => []ConfiguredAsAsked
<1>1. ProofInv => ConfiguredAsAsked
  <2> SUFFICES ASSUME ProofInv, Returned, ~raced, NEW p \in asked
               PROVE  /\ regs["FSEL"][p] = config.function
                      /\ EnabledEvents(p) = Wanted
                      /\ pads[p] = IF config.pull = "no_change" THEN "down" ELSE config.pull
                      /\ regs["PUDCLK"][p] = 0
    BY DEF ConfiguredAsAsked
  <2> DEFINE a == Accesses(config)
             l == Len(a)
  <2>1. /\ CallInv /\ RegistersSettled /\ PadsSettled /\ todo \in Seq(AccessSet)
        /\ pins = {} /\ todo = <<>>
    BY DEF ProofInv, GpioInv, NotRacedInv, Returned
  <2>2. config \in Configs /\ l \in Nat /\ l >= 7  BY <2>1, CallFacts
  <2>3. Progress(p) = l
    <3>1. Len(todo) = 0  BY <2>1
    <3> QED  BY <2>1, <2>2, <3>1 DEF Progress
  <2>4. /\ Leaves(regs["FSEL"][p], before["FSEL"][p], a, "FSEL", l)
        /\ Leaves(regs["PUDCLK"][p], before["PUDCLK"][p], a, "PUDCLK", l)
    BY <2>1, <2>3, SettledLeaves DEF RegNames
  <2>5. before["PUDCLK"][p] = 0  BY <2>1 DEF CallInv
  <2>6. /\ a[1].reg = "FSEL" /\ a[1].field = config.function
        /\ \A i \in 2 .. l : a[i].reg # "FSEL"
    BY <2>2, LastAccess
  <2>7. regs["FSEL"][p] = config.function
    <3>1. 1 \in 1 .. l /\ \A j \in 1 + 1 .. l : j \in 2 .. l  BY <2>2
    <3> HIDE DEF a, l
    <3> QED  BY <2>4, <2>6, <3>1 DEF Leaves
  <2>8. regs["PUDCLK"][p] = 0
    <3>1. l \in 0 .. l /\ l # l - 1  BY <2>2
    <3> QED  BY <2>2, <2>4, <2>5, <3>1, ClockLevel
  <2>9. EnabledEvents(p) = Wanted
    BY <2>2, <2>3, EventsLeft
  <2>10. pads[p] = IF config.pull = "no_change" THEN "down" ELSE config.pull
    <3>1. Progress(p) >= l - 1  BY <2>2, <2>3
    <3> QED  BY <2>1, <3>1 DEF PadsSettled
  <2> QED  BY <2>7, <2>8, <2>9, <2>10
<1> QED  BY <1>1, InductiveInvariant, PTL

(***************************************************************************)
(* Between any two accesses, a pin of the mask detects only events that it had *)
(* enabled before the call, or only events of the new configuration.           *)
(***************************************************************************)
THEOREM EventsAreNeverMixed == Spec => []EventsNeverMixed
<1>1. ProofInv => EventsNeverMixed
  <2> SUFFICES ASSUME ProofInv, ~raced, NEW p \in asked
               PROVE  \/ EnabledEvents(p) \subseteq {r \in EventRegs : before[r][p] = 1}
                      \/ EnabledEvents(p) \subseteq Wanted
    BY DEF EventsNeverMixed
  <2>1. /\ Progress(p) >= 7 => EnabledEvents(p) \subseteq Wanted
        /\ Progress(p) <= 7 => EnabledEvents(p) \subseteq {r \in EventRegs : before[r][p] = 1}
        /\ Progress(p) \in Nat
    BY EventsLeft
  <2>2. Progress(p) >= 7 \/ Progress(p) <= 7  BY <2>1
  <2> QED  BY <2>1, <2>2
<1> QED  BY <1>1, InductiveInvariant, PTL
=============================================================================

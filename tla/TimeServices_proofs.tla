------------------------ MODULE TimeServices_proofs ------------------------
(***************************************************************************)
(* Theorems about the services by which the daemon keeps time, dep/ in the *)
(* source: the interval timers (PtpTimer), the clock it reads (QnxClock)   *)
(* and the servo that corrects it (ClockServo).  The timers are any, with  *)
(* any interleaving of the signal handler; the clock has any rate and any  *)
(* latency below a tick; the servo controls any clock, over any network    *)
(* and with any options, and anything may be lost or late.                 *)
(***************************************************************************)
EXTENDS PtpTimer, QnxClock, ClockServo, TLAPS

(* The interval timers: dep/timer.c *)

\* What Advance does to one well-formed timer.
LEMMA AdvanceType ==
  ASSUME NEW t \in [interval : Nat, left : Int, expire : BOOLEAN],
         delta \in Nat
  PROVE  Advance(t) \in [interval : Nat, left : Int, expire : BOOLEAN]
BY DEF Advance

\* The types of all variables: everything later is arithmetic on them.
THEOREM TypeCorrect == Spec => []TypeOK
<1>1. Init => TypeOK
  BY MaxAlarmsAssumption DEF Init, TypeOK, PC
<1>2. TypeOK /\ [Next]_vars => TypeOK'
  <2> SUFFICES ASSUME TypeOK, [Next]_vars PROVE TypeOK'
    OBVIOUS
  <2> USE DEF TypeOK, PC
  <2>1. CASE catch_alarm
    BY <2>1, MaxAlarmsAssumption DEF catch_alarm
  <2>2. CASE initTimer
    BY <2>2 DEF initTimer
  <2>3. CASE ReadElapsed
    BY <2>3 DEF ReadElapsed
  <2>4. CASE ClearElapsed
    BY <2>4 DEF ClearElapsed
  <2>5. CASE ScanTimers
    <3>1. itimer' \in [Timer -> [interval : Nat, left : Int, expire : BOOLEAN]]
      BY <2>5, AdvanceType DEF ScanTimers
    <3>2. QED
      BY <3>1, <2>5 DEF ScanTimers
  <2>6. CASE TestExpire
    BY <2>6 DEF TestExpire
  <2>7. ASSUME NEW i \in Timer, timerStop(i) PROVE TypeOK'
    BY <2>7 DEF timerStop
  <2>8. ASSUME NEW i \in Timer, timerExpired(i) PROVE TypeOK'
    BY <2>8 DEF timerExpired
  <2>9. ASSUME NEW i \in Timer, NEW n \in Ticks, timerStart(i, n)
        PROVE  TypeOK'
    BY <2>9, TicksAssumption DEF timerStart
  <2>10. CASE UNCHANGED vars
    BY <2>10 DEF vars
  <2>11. QED
    BY <2>1, <2>2, <2>3, <2>4, <2>5, <2>6, <2>7, <2>8, <2>9, <2>10
       DEF Next, timerUpdate
<1>3. QED
  BY <1>1, <1>2, PTL DEF Spec

\* A running timer never gets stuck at or below zero and never has more left
\* than its interval, however many ticks a single timerUpdate() takes.
THEOREM LeftStaysWithinInterval == Spec => []LeftWithinInterval
<1>1. Init => LeftWithinInterval
  BY DEF Init, LeftWithinInterval
<1>2. TypeOK /\ LeftWithinInterval /\ [Next]_vars => LeftWithinInterval'
  <2> SUFFICES ASSUME TypeOK, LeftWithinInterval, [Next]_vars,
                      NEW j \in Timer, itimer'[j].interval > 0
               PROVE  itimer'[j].left \in 1..itimer'[j].interval
    BY DEF LeftWithinInterval
  <2> USE DEF TypeOK, LeftWithinInterval
  <2>1. CASE UNCHANGED itimer
    BY <2>1
  <2>2. CASE ScanTimers
    <3>1. itimer'[j] = Advance(itimer[j])
      BY <2>2 DEF ScanTimers
    <3>2. itimer[j].interval = itimer'[j].interval
      BY <3>1 DEF Advance
    <3>3. itimer[j].left \in 1..itimer[j].interval
      BY <3>2
    <3>4. QED
      BY <3>1, <3>2, <3>3 DEF Advance
  <2>3. CASE TestExpire
    BY <2>3 DEF TestExpire
  <2>4. ASSUME NEW i \in Timer, timerStop(i)
        PROVE  itimer'[j].left \in 1..itimer'[j].interval
    BY <2>4 DEF timerStop
  <2>5. ASSUME NEW i \in Timer, NEW n \in Ticks, timerStart(i, n)
        PROVE  itimer'[j].left \in 1..itimer'[j].interval
    BY <2>5, TicksAssumption DEF timerStart
  <2>6. QED
    BY <2>1, <2>2, <2>3, <2>4, <2>5
       DEF Next, vars, timerUpdate, catch_alarm, initTimer, ReadElapsed,
           ClearElapsed, timerExpired
<1>3. QED
  BY <1>1, <1>2, TypeCorrect, PTL DEF Spec

-----------------------------------------------------------------------------
\* While a copy of elapsed is held but the counter not yet cleared, the copy
\* is at most the counter: catch_alarm only adds to it.
CopyIsBounded == pc = "clear" => delta <= elapsed

\* A timer has been charged what is missing from its interval, and at least the
\* whole interval once its expiration is latched.
ChargedCoversInterval ==
  \A i \in Timer :
    itimer[i].interval > 0 =>
      /\ itimer[i].interval - itimer[i].left <= charged[i]
      /\ itimer[i].expire => itimer[i].interval <= charged[i]

Accounting == CopyIsBounded /\ TicksAccounted /\ ChargedCoversInterval

\* Every step keeps the accounts.
LEMMA AccountingInductive ==
  TypeOK /\ LeftWithinInterval /\ Accounting /\ [Next]_vars => Accounting'
<1> SUFFICES ASSUME TypeOK, LeftWithinInterval, Accounting, [Next]_vars
             PROVE  Accounting'
  OBVIOUS
<1> USE DEF TypeOK, Accounting, CopyIsBounded, TicksAccounted, InTransit,
            ChargedCoversInterval
<1>1. CASE catch_alarm
  BY <1>1 DEF catch_alarm
<1>2. CASE initTimer
  BY <1>2 DEF initTimer
<1>3. CASE ReadElapsed
  BY <1>3 DEF ReadElapsed
<1>4. CASE ClearElapsed
  BY <1>4 DEF ClearElapsed
<1>5. CASE ScanTimers
  <2>1. TicksAccounted'
    BY <1>5 DEF ScanTimers
  <2>2. ASSUME NEW i \in Timer, itimer'[i].interval > 0
        PROVE  /\ itimer'[i].interval - itimer'[i].left <= charged'[i]
               /\ itimer'[i].expire => itimer'[i].interval <= charged'[i]
    <3>1. itimer'[i] = Advance(itimer[i]) /\ charged'[i] = charged[i] + delta
      BY <1>5 DEF ScanTimers
    <3>2. itimer[i].interval > 0 /\ itimer[i].interval = itimer'[i].interval
      BY <3>1, <2>2 DEF Advance
    <3>3. QED
      BY <3>1, <3>2 DEF Advance, LeftWithinInterval
  <2>3. QED
    BY <2>1, <2>2, <1>5 DEF ScanTimers
<1>6. CASE TestExpire
  BY <1>6 DEF TestExpire
<1>7. ASSUME NEW i \in Timer, timerStop(i) PROVE Accounting'
  BY <1>7 DEF timerStop
<1>8. ASSUME NEW i \in Timer, timerExpired(i) PROVE Accounting'
  BY <1>8 DEF timerExpired
<1>9. ASSUME NEW i \in Timer, NEW n \in Ticks, timerStart(i, n)
      PROVE  Accounting'
  BY <1>9, TicksAssumption DEF timerStart
<1>10. CASE UNCHANGED vars
  BY <1>10 DEF vars
<1>11. QED
  BY <1>1, <1>2, <1>3, <1>4, <1>5, <1>6, <1>7, <1>8, <1>9, <1>10
     DEF Next, timerUpdate

\* The accounts are right in every reachable state.
LEMMA AccountingInvariant == Spec => []Accounting
<1>1. Init => Accounting
  BY DEF Init, Accounting, CopyIsBounded, TicksAccounted, InTransit,
         ChargedCoversInterval
<1>2. QED
  BY <1>1, AccountingInductive, TypeCorrect, LeftStaysWithinInterval, PTL
     DEF Spec

\* Ticks are never counted twice.
THEOREM TicksNeverInvented == Spec => []TicksAccounted
<1>1. Accounting => TicksAccounted
  BY DEF Accounting
<1>2. QED
  BY <1>1, AccountingInvariant, PTL

\* An expiration is latched only after the timer's whole interval, less what was
\* pending when it was started.
THEOREM ExpiresNoEarlier == Spec => []NeverEarlierThanPending
<1>1. TypeOK /\ Accounting => NeverEarlierThanPending
  BY DEF TypeOK, Accounting, TicksAccounted, InTransit, ChargedCoversInterval,
         NeverEarlierThanPending
<1>2. QED
  BY <1>1, AccountingInvariant, TypeCorrect, PTL

-----------------------------------------------------------------------------
\* Every step of the tick-counting timers is a step of the timer service seen
\* through Abstract, or leaves that view alone.
LEMMA StepImplementsService ==
  TypeOK /\ [Next]_vars => [Service!Next]_Abstract
<1> SUFFICES ASSUME TypeOK, [Next]_vars PROVE [Service!Next]_Abstract
  OBVIOUS
<1> USE DEF TypeOK
<1>1. CASE UNCHANGED itimer
  BY <1>1 DEF Abstract
<1>2. CASE ScanTimers
  <2> DEFINE expired == {i \in Timer : /\ itimer[i].interval > 0
                                       /\ itimer[i].left - delta <= 0}
  <2>1. expired \in SUBSET Service!Running(Abstract)
    BY DEF Service!Running, Abstract
  <2>2. Abstract' = Service!Latched(Abstract, expired)
    BY <1>2 DEF ScanTimers, Advance, Abstract, Service!Latched
  <2>3. Service!ComeDue
    BY <2>1, <2>2 DEF Service!ComeDue
  <2>4. QED
    BY <2>3 DEF Service!Next
<1>3. CASE TestExpire
  <2>1. CASE itimer[index].expire
    <3>1. Abstract' = Service!Consumed(Abstract, index)
      BY <1>3 DEF TestExpire, Abstract, Service!Consumed
    <3>2. Service!Report(index)
      BY <2>1, <3>1 DEF Service!Report, Abstract
    <3>3. QED
      BY <3>2 DEF Service!Next
  <2>2. CASE ~itimer[index].expire
    <3>1. Abstract' = Abstract
      BY <1>3, <2>2 DEF TestExpire, Abstract
    <3>2. QED
      BY <3>1
  <2>3. QED
    BY <2>1, <2>2
<1>4. ASSUME NEW i \in Timer, timerStop(i) PROVE [Service!Next]_Abstract
  <2>1. \A j \in Timer : /\ (itimer'[j].interval > 0) =
                               (itimer[j].interval > 0 /\ j \notin {i})
                         /\ itimer'[j].expire = itimer[j].expire
    BY <1>4 DEF timerStop
  <2>2. Abstract' = Service!Stopped(Abstract, {i})
    BY <2>1, Zenon DEF Abstract, Service!Stopped
  <2>3. QED
    BY <2>2 DEF Service!Stop, Service!Next
<1>5. ASSUME NEW i \in Timer, NEW n \in Ticks, timerStart(i, n)
      PROVE  [Service!Next]_Abstract
  <2>1. \A j \in Timer \ {i} : itimer'[j] = itimer[j]
    BY <1>5 DEF timerStart
  <2>2. (itimer'[i].interval > 0) = TRUE /\ itimer'[i].expire = FALSE
    BY <1>5, TicksAssumption DEF timerStart
  <2>3. \A j \in Timer : Abstract'[j] = Service!Started(Abstract, i)[j]
    BY <2>1, <2>2 DEF Abstract, Service!Started
  <2>4. Abstract' = Service!Started(Abstract, i)
    BY <2>3 DEF Abstract, Service!Started
  <2>5. QED
    BY <2>4 DEF Service!Start, Service!Next
<1>6. QED
  BY <1>1, <1>2, <1>3, <1>4, <1>5
     DEF Next, vars, timerUpdate, catch_alarm, initTimer, ReadElapsed,
         ClearElapsed, timerExpired

\* The refinement: timer.c does what protocol.c is specified against, for any
\* timers and any interleaving with the signal handler.
THEOREM TimerImplementsService == Spec => ImplementsService
<1>1. Init => Service!Init
  <2> SUFFICES ASSUME Init PROVE Abstract = Service!IdleTimers
    BY DEF Service!Init
  <2>1. \A i \in Timer : itimer[i].interval = 0 /\ itimer[i].expire = FALSE
    BY DEF Init
  <2>2. (0 > 0) = FALSE
    OBVIOUS
  <2>3. QED
    BY <2>1, <2>2, Zenon DEF Abstract, Service!IdleTimers
<1>2. QED
  BY <1>1, StepImplementsService, TypeCorrect, PTL
     DEF Spec, ImplementsService, Service!Spec

-----------------------------------------------------------------------------
(* Division *)

\* Division with remainder.
LEMMA Division ==
  ASSUME NEW n \in Int, NEW m \in Nat \ {0}
  PROVE  /\ n \div m \in Int /\ n % m \in 0..(m - 1)
         /\ n = m * (n \div m) + (n % m)
         /\ n >= 0 => n \div m >= 0
BY SMTT(30)

\* Of two multiples of m the one that is less than m above the other is not above it.
LEMMA Multiples ==
  ASSUME NEW m \in Nat \ {0}, NEW u \in Int, NEW b \in Int, m * u < m * b + m
  PROVE  u <= b
<1>1. ASSUME u >= b + 1 PROVE FALSE
  <2>1. PICK d \in Nat : u = b + 1 + d
    BY <1>1
  <2>2. m * u = m * b + m + m * d
    BY <2>1, SMT
  <2>3. m * d >= 0
    BY SMT
  <2>4. m * u \in Int /\ m * b \in Int /\ m * d \in Int
    OBVIOUS
  <2>5. QED BY <2>2, <2>3, <2>4
<1>2. QED BY <1>1

\* A quotient is at least q when q times the divisor fits.
LEMMA Quotient ==
  ASSUME NEW k \in Int, NEW m \in Nat \ {0}
  PROVE  /\ k \div m \in Int
         /\ m * (k \div m) <= k
         /\ k < m * (k \div m) + m
         /\ k >= 0 => k \div m >= 0
BY Division

\* Factors may be made larger.
LEMMA Products ==
  ASSUME NEW i \in Nat, NEW j \in Nat, NEW k \in Nat, i <= j
  PROVE  k * i <= k * j /\ k * i \in Nat /\ k * j \in Nat
<1>1. PICK d \in Nat : j = i + d
  BY SMT
<1>2. k * j = k * i + k * d
  BY <1>1, SMT
<1>3. k * d \in Nat /\ k * i \in Nat
  BY SMT
<1>4. QED BY <1>2, <1>3

\* Dividing by two numbers that are e apart: how far the quotients may be.
LEMMA QuotientsNear ==
  ASSUME NEW k \in Nat, NEW s \in Nat \ {0}, NEW m \in Nat \ {0}, NEW e \in Nat,
         s - m <= e, NEW x \in Int, NEW d \in Nat, k * e < (x + 1) * d, d <= s * m
  PROVE  k \div m <= k \div s + x + 1
<1> DEFINE q == k \div m
           p == k \div s
<1>1. /\ q \in Int /\ p \in Int
      /\ m * q <= k
      /\ k < s * p + s
  BY Quotient
<1>2. k * e >= 0 /\ k * e \in Nat
  BY SMT
<1>3. x + 1 > 0
  <2>1. ASSUME x + 1 <= 0 PROVE FALSE
    <3>1. PICK y \in Nat : x + 1 = -y
      BY <2>1
    <3>2. (x + 1) * d = -(y * d) /\ y * d \in Nat
      BY <3>1, SMT
    <3>3. QED BY <3>2, <1>2
  <2>2. QED BY <2>1
<1>4. (x + 1) * d <= (x + 1) * (s * m) /\ (x + 1) * (s * m) \in Nat
  <2>1. x + 1 \in Nat /\ s * m \in Nat
    BY <1>3, SMT
  <2>2. QED BY <2>1, Products
<1> HIDE DEF q, p
<1>5. ASSUME q >= p + x + 2 PROVE FALSE
  <2>1. PICK y \in Nat : q = p + x + 2 + y
    BY <1>1, <1>5
  <2>2. s * (m * q) <= s * k
    <3>1. PICK z \in Nat : k = m * q + z
      BY <1>1, SMT
    <3>2. s * k = s * (m * q) + s * z /\ s * z \in Nat
      BY <3>1, <1>1, SMT
    <3>3. s * (m * q) \in Int
      BY <1>1, SMT
    <3>4. QED BY <3>2, <3>3
  <2>3. s * k <= m * k + k * e
    <3>1. s <= m + e
      BY SMT
    <3>2. k * s <= k * (m + e)
      <4>1. m + e \in Nat
        OBVIOUS
      <4>2. QED BY <3>1, <4>1, Products
    <3>3. k * s = s * k /\ k * (m + e) = m * k + k * e
      BY SMT
    <3>4. QED BY <3>2, <3>3
  <2>4. m * k < m * (s * p + s)
    <3>1. PICK z \in Nat : s * p + s = k + 1 + z
      BY <1>1, SMT
    <3>2. m * (s * p + s) = m * k + m + m * z /\ m * z \in Nat
      BY <3>1, SMT
    <3>3. QED BY <3>2, SMT
  <2>5. s * (m * q) = m * (s * p + s) + (x + 1) * (s * m) + y * (s * m)
    BY <2>1, <1>1, SMT
  <2>6. y * (s * m) \in Nat
    BY SMT
  <2>7. /\ s * (m * q) \in Int /\ m * (s * p + s) \in Int /\ s * k \in Int
        /\ m * k \in Int /\ (x + 1) * d \in Int
    BY <1>1, SMT
  <2>8. QED BY <2>2, <2>3, <2>4, <2>5, <2>6, <2>7, <1>4, <1>2
<1>6. QED BY <1>5, <1>1 DEF q, p

\* A length of a tick that is off by e, of m, makes a quotient off by no more than this.
LEMMA RoughQuotient ==
  ASSUME NEW k \in Nat, NEW s \in Int, NEW m \in Nat \ {0}, NEW e \in Nat, e < m,
         s - m <= e, m - s <= e, NEW bound \in Nat, k * e <= bound
  PROVE  /\ k \div s <= k \div m + bound \div ((m - e) * m) + 1
         /\ k \div m <= k \div s + bound \div ((m - e) * m) + 1
         /\ s \in Nat \ {0}
<1> DEFINE d == (m - e) * m
           x == bound \div d
<1>1. m - e \in Nat \ {0} /\ s \in Nat \ {0}
  BY SMT
<1>2. d \in Nat \ {0}
  BY <1>1, SMT
<1>3. d <= s * m
  <2>1. m - e <= s
    BY SMT
  <2>2. m * (m - e) <= m * s
    BY <1>1, <2>1, Products
  <2>3. m * (m - e) = d /\ m * s = s * m
    BY SMT
  <2>4. QED BY <2>2, <2>3
<1> HIDE DEF d
<1>4. x \in Int /\ bound < d * x + d
  BY <1>2, Quotient
<1>5. k * e < (x + 1) * d
  <2> HIDE DEF x
  <2>1. (x + 1) * d = d * x + d
    BY <1>4, <1>2, SMT
  <2>2. k * e \in Int /\ d * x \in Int
    BY <1>4, <1>2, SMT
  <2>3. QED BY <2>1, <2>2, <1>4, <1>2
<1> HIDE DEF x
<1>6. k \div m <= k \div s + x + 1
  BY <1>1, <1>2, <1>3, <1>4, <1>5, QuotientsNear
<1>7. k \div s <= k \div m + x + 1
  <2>1. d <= m * s
    <3>1. m * s = s * m
      BY <1>1, SMT
    <3>2. QED BY <3>1, <1>3
  <2>2. QED BY <1>1, <1>2, <2>1, <1>4, <1>5, QuotientsNear
<1>8. QED BY <1>1, <1>6, <1>7 DEF x, d

\* Whole ticks more, and a late interrupt less.
LEMMA LateQuotient ==
  ASSUME NEW p \in Nat, NEW g \in Nat, NEW late \in Nat, NEW m \in Nat \ {0}, NEW n \in Nat
  PROVE  LET q == ((p + g * m - late) * n) \div m
         IN  /\ q \in Int
             /\ q <= g * n + (p * n) \div m
             /\ g * n + (p * n) \div m <= q + (late * n) \div m + 1
<1> DEFINE q == ((p + g * m - late) * n) \div m
           r == (p * n) \div m
           y == (late * n) \div m
           k == (p + g * m - late) * n
<1>1. k \in Int /\ p * n \in Int /\ late * n \in Nat /\ g * n \in Nat
  BY SMT
<1>2. k = p * n + m * (g * n) - late * n
  BY SMT
<1>3. /\ q \in Int /\ m * q <= k /\ k < m * q + m
  <2> HIDE DEF k
  <2>1. q = k \div m
    BY DEF k
  <2>2. QED BY <1>1, <2>1, Quotient
<1>4. /\ r \in Int /\ m * r <= p * n /\ p * n < m * r + m
      /\ y \in Int /\ m * y <= late * n /\ late * n < m * y + m
  BY <1>1, Quotient
<1> HIDE DEF q, r, y, k
<1>5. q <= g * n + r
  <2>1. m * q < m * (g * n + r) + m
    <3>1. m * (g * n + r) = m * (g * n) + m * r
      BY <1>1, <1>4, SMT
    <3>2. m * q \in Int /\ m * (g * n) \in Int /\ m * r \in Int
      BY <1>1, <1>3, <1>4, SMT
    <3>3. QED BY <1>1, <1>2, <1>3, <1>4, <3>1, <3>2
  <2>2. g * n + r \in Int
    BY <1>1, <1>4
  <2>3. QED BY <1>3, <2>1, <2>2, Multiples
<1>6. g * n + r <= q + y + 1
  <2>1. m * (g * n + r) < m * (q + y + 1) + m
    <3>1. m * (g * n + r) = m * (g * n) + m * r
      BY <1>1, <1>4, SMT
    <3>2. m * (q + y + 1) = m * q + m * y + m
      BY <1>3, <1>4, SMT
    <3>3. m * q \in Int /\ m * (g * n) \in Int /\ m * r \in Int /\ m * y \in Int
      BY <1>1, <1>3, <1>4, SMT
    <3>4. QED BY <1>1, <1>2, <1>3, <1>4, <3>1, <3>2, <3>3
  <2>2. g * n + r \in Int /\ q + y + 1 \in Int
    BY <1>1, <1>3, <1>4
  <2>3. QED BY <2>1, <2>2, Multiples
<1>7. QED BY <1>3, <1>5, <1>6 DEF q, r, y

\* Whole turns of a word do not show.
LEMMA Turns ==
  ASSUME NEW n \in Int, NEW k \in Int, NEW m \in Nat \ {0}
  PROVE  (n + m * k) % m = n % m
<1> DEFINE w == n + m * k
           q == n \div m
           r == n % m
           u == w \div m
           v == w % m
<1>1. w \in Int /\ m * k \in Int
  BY SMT
<1>2. q \in Int /\ r \in 0..(m - 1) /\ n = m * q + r
  BY Division
<1>3. u \in Int /\ v \in 0..(m - 1) /\ w = m * u + v
  <2> HIDE DEF w
  <2> QED BY <1>1, Division
<1>4. w = n + m * k
  OBVIOUS
<1> HIDE DEF w, q, r, u, v
<1>5. /\ m * (q + k) = m * q + m * k
      /\ m * q \in Int /\ m * u \in Int /\ q + k \in Int
  BY <1>2, <1>3, SMT
<1>6. u <= q + k
  <2>1. m * u < m * (q + k) + m
    BY <1>1, <1>2, <1>3, <1>4, <1>5
  <2>2. QED BY <2>1, <1>3, <1>5, Multiples
<1>7. q + k <= u
  <2>1. m * (q + k) < m * u + m
    BY <1>1, <1>2, <1>3, <1>4, <1>5
  <2>2. QED BY <2>1, <1>3, <1>5, Multiples
<1>8. u = q + k
  BY <1>3, <1>5, <1>6, <1>7
<1>9. v = r
  BY <1>1, <1>2, <1>3, <1>4, <1>5, <1>8
<1>10. QED BY <1>9, <1>4 DEF v, r, w

-----------------------------------------------------------------------------
(* The clock: getTime() and its interrupt handler in dep/sys.c *)

\* The handler's last tick was served between when it was due and Latency cycles
\* later, so two ticks are at least one cycle apart and the step the second one
\* computes is positive.  The copy of int_count is taken before that of tsc_step.
StepsPositive ==
  /\ due - Cycles <= tsc
  /\ area.last_tsc <= tsc
  /\ at = "start" => area.int_count = 0
  /\ area.int_count >= 1 => area.last_tsc <= due - Cycles + Latency
  /\ area.int_count >= MIN_HANDLER_CALLS => area.tsc_step > 0
  /\ at \in {"start", "idle"} => copied = 0
  /\ at = "extrapolate" => copied = 5
  /\ at = "copy" => copied < 5
  /\ copied = 0 => a.int_count = 0
  /\ a.int_count >= MIN_HANDLER_CALLS =>
       /\ area.int_count >= MIN_HANDLER_CALLS
       /\ copied >= 3 => a.tsc_step > 0

ClockInv == ClockTypeOK /\ StepsPositive

\* The smoothed step of two cycle counts is a count, and positive if the new is.
LEMMA SmoothedPositive ==
  ASSUME NEW old \in Nat, NEW new \in Nat
  PROVE  /\ Smoothed(old, new) \in Nat
         /\ new > 0 => Smoothed(old, new) > 0
<1>1. CASE old = 0
  BY <1>1 DEF Smoothed
<1>2. CASE old # 0
  BY <1>2 DEF Smoothed
<1>3. QED
  BY <1>1, <1>2

\* A word is a natural number.
LEMMA WrappedNat ==
  ASSUME NEW n \in Int
  PROVE  Wrapped(n) \in Nat
BY ClockAssumption DEF Wrapped

\* The invariant holds when the daemon starts.
LEMMA InitClockInv == ClockInit => ClockInv
BY ClockAssumption DEF ClockInit, ClockInv, ClockTypeOK, StepsPositive, Notes, NoNotes, Fields,
                       MIN_HANDLER_CALLS, Reading

\* What the handler notes at a tick that is not early.
LEMMA HandlerNotes ==
  ASSUME ClockInv, NEW now \in Int, timer_handler(now), tsc >= due
  PROVE  /\ area' \in Notes
         /\ area'.last_tsc = tsc
         /\ area'.int_count >= area.int_count
         /\ area'.int_count >= MIN_HANDLER_CALLS => area'.tsc_step > 0
<1> DEFINE step == Smoothed(area.tsc_step, tsc - area.last_tsc)
<1>1. /\ area.int_count \in Nat /\ area.last_tsc \in Nat /\ area.tsc_step \in Nat
      /\ area.last_clock \in Nat
  BY DEF ClockInv, ClockTypeOK, Notes, Fields
<1>2. tsc - area.last_tsc \in Nat
  BY <1>1 DEF ClockInv, ClockTypeOK, StepsPositive
<1>3. /\ step \in Nat
      /\ tsc - area.last_tsc > 0 => step > 0
  BY <1>1, <1>2, SmoothedPositive
<1>4. Wrapped(now) \in Nat /\ Wrapped(now - area.last_clock) \in Nat
  BY <1>1, WrappedNat
<1>5. area' = [int_count  |-> IF area.int_count < 2 THEN area.int_count + 1
                              ELSE area.int_count,
               last_tsc   |-> tsc, tsc_step |-> step, last_clock |-> Wrapped(now),
               clock_step |-> Wrapped(now - area.last_clock)]
  BY DEF timer_handler, MIN_HANDLER_CALLS
<1>6. area' \in Notes
  <2> HIDE DEF step
  <2> QED BY <1>1, <1>3, <1>4, <1>5 DEF Notes, Fields, ClockInv, ClockTypeOK
<1>7. area.int_count >= 1 => tsc - area.last_tsc > 0
  BY <1>1, ClockAssumption DEF ClockInv, ClockTypeOK, StepsPositive
<1>8. area'.int_count >= 2 => step > 0
  <2> HIDE DEF step
  <2> QED BY <1>1, <1>3, <1>5, <1>7
<1>9. QED
  <2> HIDE DEF step
  <2> QED BY <1>1, <1>5, <1>6, <1>8 DEF MIN_HANDLER_CALLS

\* Every step keeps the invariant.
LEMMA NextClockInv == ClockInv /\ [ClockNext]_clockVars => ClockInv'
<1> SUFFICES ASSUME ClockInv, [ClockNext]_clockVars PROVE ClockInv'
  OBVIOUS
<1> USE ClockAssumption
<1>1. CASE Pass
  <2>1. tsc' \in Nat /\ tsc' >= tsc
    BY <1>1 DEF Pass, Phase, ClockInv, ClockTypeOK, StepsPositive
  <2>2. QED
    BY <1>1, <2>1 DEF Pass, history, ClockInv, ClockTypeOK, StepsPositive, Notes, Fields, Reading
<1>2. CASE Tick
  <2>1. clock' \in Int /\ tsc >= due
    BY <1>2 DEF Tick, ClockInv, ClockTypeOK
  <2>2. /\ area' \in Notes /\ area'.last_tsc = tsc
        /\ area'.int_count >= area.int_count
        /\ area'.int_count >= MIN_HANDLER_CALLS => area'.tsc_step > 0
    BY <1>2, <2>1, HandlerNotes DEF Tick
  <2>3. ClockTypeOK'
    BY <1>2, <2>1, <2>2 DEF Tick, ClockInv, ClockTypeOK
  <2>4. /\ area.int_count \in Nat /\ area'.int_count \in Nat /\ a.int_count \in Nat
    BY <2>2 DEF ClockInv, ClockTypeOK, Notes, Fields
  <2>5. StepsPositive'
    BY <1>2, <2>1, <2>2, <2>4 DEF Tick, ClockInv, ClockTypeOK, StepsPositive, MIN_HANDLER_CALLS
  <2>6. QED
    BY <2>3, <2>5 DEF ClockInv
<1>3. CASE Attach
  <2>1. Wrapped(clock) \in Nat
    BY WrappedNat DEF ClockInv, ClockTypeOK
  <2>2. area' \in Notes /\ area'.last_tsc = tsc /\ area'.int_count = area.int_count
        /\ area'.tsc_step = area.tsc_step
    BY <1>3, <2>1 DEF Attach, ClockInv, ClockTypeOK, Notes, Fields
  <2>3. QED
    BY <1>3, <2>2 DEF Attach, kernel, history, ClockInv, ClockTypeOK, StepsPositive, Reading,
                          MIN_HANDLER_CALLS
<1>4. CASE Call
  BY <1>4 DEF Call, kernel, history, ClockInv, ClockTypeOK, StepsPositive, Reading
<1>5. CASE Copy
  <2>1. copied \in 0..4
    BY <1>5 DEF Copy, ClockInv, ClockTypeOK, StepsPositive
  <2>2. a' \in Notes
    BY <1>5, <2>1 DEF Copy, ClockInv, ClockTypeOK, Notes, Fields, Words
  <2>3. ClockTypeOK'
    BY <1>5, <2>1, <2>2 DEF Copy, kernel, history, ClockInv, ClockTypeOK, Reading
  <2>4. /\ copied = 0 => a'.int_count = area.int_count
        /\ copied # 0 => a'.int_count = a.int_count
        /\ copied = 2 => a'.tsc_step = area.tsc_step
        /\ copied # 2 => a'.tsc_step = a.tsc_step
    BY <1>5, <2>1 DEF Copy, ClockInv, ClockTypeOK, Notes, Fields, Words
  <2>5. StepsPositive'
    BY <1>5, <2>1, <2>4 DEF Copy, kernel, ClockInv, ClockTypeOK, StepsPositive, MIN_HANDLER_CALLS
  <2>6. QED
    BY <2>3, <2>5 DEF ClockInv
<1>6. CASE Extrapolate
  <2>1. /\ a.last_clock \in Nat /\ a.last_tsc \in Nat /\ a.clock_step \in Nat
        /\ a.tsc_step \in Nat /\ a.int_count \in Nat
    BY DEF ClockInv, ClockTypeOK, Notes, Fields
  <2>2. a.int_count >= MIN_HANDLER_CALLS => a.tsc_step > 0
    BY <1>6 DEF Extrapolate, ClockInv, StepsPositive
  <2>3. Offsets \subseteq Int
    BY <2>1, <2>2 DEF Offsets, MIN_HANDLER_CALLS, ClockInv, ClockTypeOK
  <2>4. Now \in Int
    BY DEF Now, Phase, ClockInv, ClockTypeOK
  <2>5. \A offset \in Offsets : Wrapped(a.last_clock + offset) \in Nat
    BY <2>1, <2>3, WrappedNat
  <2>6. result' \subseteq Reading
    BY <1>6, <2>4, <2>5 DEF Extrapolate, Reading, ClockInv, ClockTypeOK
  <2>7. QED
    BY <1>6, <2>6 DEF Extrapolate, kernel, history, ClockInv, ClockTypeOK, StepsPositive, Notes,
                      NoNotes, Fields, MIN_HANDLER_CALLS
<1>7. CASE setTime
  BY <1>7 DEF setTime, Sets, ClockInv, ClockTypeOK, StepsPositive, Reading
<1>8. CASE adjFreq
  BY <1>8 DEF adjFreq, Sets, ClockInv, ClockTypeOK, StepsPositive, Reading
<1>9. CASE UNCHANGED clockVars
  BY <1>9 DEF clockVars, kernel, reader, history, ClockInv, ClockTypeOK, StepsPositive
<1>10. QED
  BY <1>1, <1>2, <1>3, <1>4, <1>5, <1>6, <1>7, <1>8, <1>9 DEF ClockNext

\* Every variable keeps to its type, for any clock and any jumps and adjustments:
\* getTime() and the handler of dep/sys.c.
THEOREM ClockTypeCorrect == ClockSpec => []ClockTypeOK
<1>1. ClockInv => ClockTypeOK
  BY DEF ClockInv
<1>2. QED
  BY InitClockInv, NextClockInv, <1>1, PTL DEF ClockSpec

\* getTime() of dep/sys.c never divides by a step of zero, for any number of cycles
\* per tick, any latency below it, and a copy torn between any two words.
THEOREM NeverZero == ClockSpec => []NeverDividesByZero
<1>1. ClockInv => NeverDividesByZero
  BY DEF ClockInv, StepsPositive, NeverDividesByZero
<1>2. QED
  BY InitClockInv, NextClockInv, <1>1, PTL DEF ClockSpec

-----------------------------------------------------------------------------
(* The clock: what a reading is worth *)

\* Words are added and subtracted as numbers are.
LEMMA WrappedIs ==
  ASSUME NEW i \in Int, NEW j \in Int
  PROVE  /\ Wrapped(i) \in 0..(Word - 1)
         /\ Wrapped(Wrapped(i) + j) = Wrapped(i + j)
         /\ Wrapped(j - Wrapped(i)) = Wrapped(j - i)
         /\ i >= 0 => Wrapped(i) <= i
         /\ i \in 0..(Word - 1) => Wrapped(i) = i
<1> DEFINE q == i \div Word
           r == i % Word
<1>1. Word \in Nat \ {0}
  BY ClockAssumption
<1>2. /\ q \in Int /\ r \in 0..(Word - 1) /\ i = Word * q + r
      /\ i >= 0 => q >= 0
  BY <1>1, Division
<1>3. Wrapped(i) = r
  BY DEF Wrapped
<1> HIDE DEF q, r
<1>4. -q \in Int /\ Word * q \in Int /\ Word * (-q) = -(Word * q)
  BY <1>1, <1>2, SMT
<1>5. Wrapped(r + j) = Wrapped(i + j)
  <2>1. r + j = i + j + Word * (-q)
    BY <1>1, <1>2, <1>4
  <2>2. i + j \in Int
    OBVIOUS
  <2>3. ((i + j) + Word * (-q)) % Word = (i + j) % Word
    BY <2>2, <1>1, <1>4, Turns
  <2>4. QED BY <2>1, <2>3 DEF Wrapped
<1>6. Wrapped(j - r) = Wrapped(j - i)
  <2>1. j - r = (j - i) + Word * q
    BY <1>1, <1>2, <1>4
  <2>2. j - i \in Int
    OBVIOUS
  <2>3. ((j - i) + Word * q) % Word = (j - i) % Word
    BY <2>2, <1>1, <1>2, Turns
  <2>4. QED BY <2>1, <2>3 DEF Wrapped
<1>7. ASSUME i >= 0 PROVE r <= i
  <2>1. Word * q >= 0
    BY <1>1, <1>2, <1>7, SMT
  <2>2. QED BY <2>1, <1>1, <1>2, <1>4
<1>8. ASSUME i \in 0..(Word - 1) PROVE r = i
  <2>1. Word * q < Word * 0 + Word /\ Word * 0 < Word * q + Word
    BY <1>1, <1>2, <1>4, <1>8, SMT
  <2>2. q <= 0 /\ 0 <= q
    BY <2>1, <1>1, <1>2, Multiples
  <2>3. Word * q = 0
    BY <2>2, <1>2, <1>1, SMT
  <2>4. QED BY <2>3, <1>2, <1>1
<1>9. QED BY <1>2, <1>3, <1>5, <1>6, <1>7, <1>8

Near(step, left) ==
  step - Cycles <= StepError(left) /\ Cycles - step <= StepError(left)

\* What getTime() extrapolates from notes that the handler took missed ticks ago or less.
LEMMA Extrapolated ==
  ASSUME NEW missed \in 0..MaxTorn, NEW g \in 0..missed, NEW h \in 0..g,
         NEW p \in Nat, p <= Cycles + Latency, NEW late \in 0..Latency,
         p + g * Cycles - late >= 0,
         NEW step \in Int, NEW left \in Nat, Near(step, left), 2 * StepError(left) <= Cycles
  PROVE  LET exact == ((p + g * Cycles - late) * Nanos) \div step
             off == exact - h * Nanos - (p * Nanos) \div Cycles
         IN  /\ exact \in 0..(Word - 1)
             /\ off \in Int /\ Tolerance(missed, left) \in Int
             /\ off <= Tolerance(missed, left) /\ -off <= Tolerance(missed, left)
<1> DEFINE e == StepError(left)
           passed == p + g * Cycles - late
           k == passed * Nanos
           bound == ((missed + 1) * Cycles + Latency) * Nanos * e
           x == bound \div ((Cycles - e) * Cycles)
           y == (Latency * Nanos) \div Cycles
           z == (late * Nanos) \div Cycles
           q == k \div Cycles
           r == (p * Nanos) \div Cycles
           exact == k \div step
<1>1. /\ Cycles \in Nat \ {0} /\ Nanos \in Nat \ {0} /\ Latency \in Nat /\ Latency < Cycles
      /\ MaxTorn \in Nat /\ Word \in Nat
      /\ g \in Nat /\ h \in Nat /\ late \in Nat /\ missed \in Nat
  BY ClockAssumption
<1>2. e \in Nat /\ e < Cycles /\ 2 * e <= Cycles
  BY <1>1 DEF StepError
<1>3. step - Cycles <= e /\ Cycles - step <= e
  BY DEF Near
<1>4. g * Cycles \in Nat /\ (missed + 1) * Cycles \in Nat /\ g * Cycles <= missed * Cycles
  <2>1. Cycles * g <= Cycles * missed /\ Cycles * g \in Nat
    BY <1>1, Products
  <2>2. Cycles * g = g * Cycles /\ Cycles * missed = missed * Cycles
    BY <1>1, SMT
  <2>3. (missed + 1) * Cycles \in Nat
    BY <1>1, SMT
  <2>4. QED BY <2>1, <2>2, <2>3
<1>5. passed \in Nat /\ passed <= (missed + 1) * Cycles + Latency
  <2>1. (missed + 1) * Cycles = missed * Cycles + Cycles /\ missed * Cycles \in Nat
    BY <1>1, SMT
  <2>2. QED BY <1>1, <1>4, <2>1
<1>6. k \in Nat /\ k * e \in Nat /\ bound \in Nat /\ k * e <= bound
  <2> DEFINE most == (missed + 1) * Cycles + Latency
  <2>1. most \in Nat /\ passed <= most
    BY <1>1, <1>4, <1>5
  <2> HIDE DEF most, e, passed
  <2>2. Nanos * passed <= Nanos * most
    BY <2>1, <1>1, <1>5, Products
  <2>3. Nanos * passed = k /\ Nanos * most = most * Nanos /\ k \in Nat /\ most * Nanos \in Nat
    BY <2>1, <1>1, <1>5, SMT
  <2>4. e * k <= e * (most * Nanos) /\ e * k \in Nat /\ e * (most * Nanos) \in Nat
    BY <2>2, <2>3, <1>2, Products
  <2>5. e * k = k * e
    BY <2>3, <1>2, SMT
  <2>6. e * (most * Nanos) = most * Nanos * e
    BY <2>3, <1>2, SMT
  <2>7. bound = most * Nanos * e
    BY DEF most
  <2>8. QED BY <2>3, <2>4, <2>5, <2>6, <2>7
<1>7. exact <= q + x + 1 /\ q <= exact + x + 1 /\ step \in Nat \ {0}
  <2> HIDE DEF k, e, bound
  <2> QED BY <1>1, <1>2, <1>3, <1>6, RoughQuotient
<1>8. /\ q \in Int /\ q <= g * Nanos + r
      /\ g * Nanos + r <= q + z + 1
  BY <1>1, LateQuotient
<1>9. z <= y /\ y \in Int /\ z \in Int /\ r \in Int
  <2>1. Nanos * late <= Nanos * Latency /\ Nanos * late \in Nat /\ Nanos * Latency \in Nat
    BY <1>1, Products
  <2>2. Nanos * late = late * Nanos /\ Nanos * Latency = Latency * Nanos
    BY <1>1, SMT
  <2>3. /\ z \in Int /\ Cycles * z <= late * Nanos
        /\ y \in Int /\ Latency * Nanos < Cycles * y + Cycles
    BY <1>1, <2>1, <2>2, Quotient
  <2>4. p * Nanos \in Int
    BY <1>1, SMT
  <2>5. r \in Int
    BY <2>4, <1>1, Quotient
  <2>6. Cycles * z < Cycles * y + Cycles
    <3> HIDE DEF y, z
    <3>1. Cycles * z \in Int /\ Cycles * y \in Int
      BY <2>3, <1>1, SMT
    <3>2. QED BY <3>1, <2>1, <2>2, <2>3, <1>1
  <2>7. QED BY <2>3, <2>5, <2>6, <1>1, Multiples
<1>10. /\ h * Nanos \in Nat /\ g * Nanos \in Nat /\ missed * Nanos \in Nat
       /\ h * Nanos <= g * Nanos /\ g * Nanos <= missed * Nanos
  <2>1. Nanos * h <= Nanos * g /\ Nanos * g <= Nanos * missed
    BY <1>1, Products
  <2>2. /\ Nanos * h = h * Nanos /\ Nanos * g = g * Nanos /\ Nanos * missed = missed * Nanos
        /\ h * Nanos \in Nat /\ g * Nanos \in Nat /\ missed * Nanos \in Nat
    BY <1>1, SMT
  <2>3. QED BY <2>1, <2>2
<1>11. x \in Int /\ x >= 0
  <2>1. (Cycles - e) * Cycles \in Nat \ {0}
    <3> HIDE DEF e
    <3>1. Cycles - e \in Nat \ {0}
      BY <1>1, <1>2
    <3>2. QED BY <3>1, <1>1, SMT
  <2> DEFINE d == (Cycles - e) * Cycles
  <2>2. x = bound \div d
    OBVIOUS
  <2>3. d \in Nat \ {0} /\ bound \in Nat
    BY <2>1, <1>6
  <2> HIDE DEF bound, d, x
  <2>4. bound \div d \in Int /\ (bound >= 0 => bound \div d >= 0)
    BY <2>3, Quotient
  <2>5. QED BY <2>2, <2>3, <2>4
<1>12. y >= 0
  <2> DEFINE n == Latency * Nanos
  <2>1. n \in Nat
    BY <1>1, SMT
  <2>2. y = n \div Cycles
    OBVIOUS
  <2> HIDE DEF n, y
  <2>3. n >= 0 => n \div Cycles >= 0
    BY <2>1, <1>1, Quotient
  <2>4. QED BY <2>1, <2>2, <2>3
<1>13. exact \in Int /\ exact >= 0 /\ step * exact <= k
  <2> HIDE DEF k
  <2> QED BY <1>6, <1>7, Division, Quotient
<1>14. /\ Tolerance(missed, left) = missed * Nanos + x + y + 2
       /\ Tolerance(missed, left) \in Int
  <2>1. Tolerance(missed, left) = missed * Nanos + x + y + 2
    BY DEF Tolerance
  <2> HIDE DEF x, y
  <2>2. QED BY <2>1, <1>9, <1>10, <1>11
<1>15. exact < Word
  <2> DEFINE most == 2 * (MaxTorn + 2) * Nanos
             w == (MaxTorn + 2) * Nanos
  <2>1. passed <= (MaxTorn + 2) * (2 * step)
    <3>1. passed <= (MaxTorn + 2) * Cycles
      <4>1. Cycles * missed <= Cycles * MaxTorn
        BY <1>1, Products
      <4>2. /\ (missed + 1) * Cycles = Cycles * missed + Cycles
            /\ (MaxTorn + 2) * Cycles = Cycles * MaxTorn + Cycles + Cycles
            /\ Cycles * missed \in Nat /\ Cycles * MaxTorn \in Nat
        BY <1>1, SMT
      <4> HIDE DEF passed
      <4>3. QED BY <4>1, <4>2, <1>1, <1>5
    <3>2. Cycles <= 2 * step
      BY <1>1, <1>2, <1>3
    <3>3. (MaxTorn + 2) * Cycles <= (MaxTorn + 2) * (2 * step)
      <4>1. MaxTorn + 2 \in Nat /\ 2 * step \in Nat
        BY <1>1, <1>7
      <4>2. QED BY <4>1, <3>2, <1>1, Products
    <3>4. (MaxTorn + 2) * Cycles \in Nat /\ (MaxTorn + 2) * (2 * step) \in Nat
      BY <1>1, <1>7, SMT
    <3>5. QED BY <3>1, <3>3, <3>4, <1>5
  <2>2. k <= step * most
    <3> HIDE DEF passed
    <3>1. (MaxTorn + 2) * (2 * step) \in Nat
      BY <1>1, <1>7, SMT
    <3>2. Nanos * passed <= Nanos * ((MaxTorn + 2) * (2 * step))
      BY <2>1, <3>1, <1>1, <1>5, Products
    <3>3. Nanos * passed = k
      BY <1>1, <1>5, SMT
    <3>4. Nanos * ((MaxTorn + 2) * (2 * step)) = step * most
      <4>1. w \in Nat /\ 2 * (MaxTorn + 2) * Nanos = 2 * w
        BY <1>1, SMT
      <4>2. Nanos * ((MaxTorn + 2) * (2 * step)) = w * (2 * step)
        BY <1>1, <1>7, SMT
      <4> HIDE DEF w
      <4>3. w * (2 * step) = step * (2 * w)
        BY <1>7, <4>1, SMT
      <4>4. QED BY <4>1, <4>2, <4>3
    <3>5. QED BY <3>2, <3>3, <3>4
  <2>3. most \in Nat /\ most < Word
    <3>1. most \in Nat
      BY <1>1, SMT
    <3>2. QED BY <3>1, WordsAreWide, <1>1
  <2> HIDE DEF most, exact, k
  <2>4. step * exact < step * most + step
    <3>1. step * exact \in Int /\ step * most \in Int
      BY <1>7, <1>13, <2>3, SMT
    <3>2. QED BY <3>1, <2>2, <1>6, <1>13, <1>7
  <2>5. exact <= most
    BY <2>4, <2>3, <1>7, <1>13, Multiples
  <2>6. QED BY <2>3, <2>5, <1>13, <1>1
<1>16. /\ exact - h * Nanos - r \in Int
       /\ exact - h * Nanos - r <= Tolerance(missed, left)
       /\ -(exact - h * Nanos - r) <= Tolerance(missed, left)
  <2> HIDE DEF exact, r, q, x, y, z
  <2> QED BY <1>7, <1>8, <1>9, <1>10, <1>11, <1>12, <1>13, <1>14
<1>17. QED
  <2> HIDE DEF exact, r
  <2>1. exact \in 0..(Word - 1)
    BY <1>1, <1>13, <1>15
  <2>2. QED BY <2>1, <1>14, <1>16 DEF exact, r

\* The handler's notes are those of the last tick: the clock stood where it stands now,
\* unless it was set since, and the step is as good as the ticks seen allow.
NotesTrue ==
  /\ due - Cycles <= tsc /\ tsc <= due + Latency
  /\ at = "start" => ticks = 0
  /\ area.int_count = IF ticks < 2 THEN ticks ELSE 2
  /\ steady <= ticks
  /\ ticks = 0 => area.tsc_step = 0
  /\ at # "start" => due - Cycles <= area.last_tsc /\ area.last_tsc <= tsc
  /\ ticks >= 1 => /\ area.last_tsc <= due - Cycles + Latency
                   /\ Near(area.tsc_step, rough.notes)
  /\ steady >= 1 => inc = 0 /\ area.last_clock = Wrapped(clock)
  /\ steady >= 2 => area.clock_step = Nanos

\* getTime()'s copy has the cycle counter of g ticks ago and the clock of h ticks ago.
CopyIs(g, h) ==
  /\ copied >= 1 => a.int_count = 2
  /\ copied >= 2 => /\ a.last_tsc <= tsc
                    /\ due <= a.last_tsc + (1 + g) * Cycles
                    /\ a.last_tsc + (1 + g) * Cycles <= due + Latency
  /\ copied >= 3 => Near(a.tsc_step, rough.copy)
  /\ copied >= 4 => a.last_clock = Wrapped(clock - h * Nanos)
  /\ copied >= 5 => a.clock_step = Nanos

\* Words copied later are of no earlier tick, and none is from before the call.
CopyTrue ==
  /\ torn <= MaxTorn
  /\ at \in {"start", "idle"} => torn = 0
  /\ torn + 2 <= steady => \E g \in 0..torn : \E h \in 0..g : CopyIs(g, h)

ReadInv == ClockInv /\ NotesTrue /\ CopyTrue /\ ReadsTrue

\* What is used of the types.
LEMMA ClockTypes ==
  ASSUME ClockInv
  PROVE  /\ tsc \in Nat /\ due \in Nat /\ clock \in Int /\ inc \in Int
         /\ torn \in Nat /\ ticks \in Nat /\ steady \in Nat /\ copied \in 0..5
         /\ area.int_count \in Nat /\ area.last_tsc \in Nat /\ area.tsc_step \in Nat
         /\ area.last_clock \in Nat /\ area.clock_step \in Nat
         /\ a.int_count \in Nat /\ a.last_tsc \in Nat /\ a.tsc_step \in Nat
         /\ a.last_clock \in Nat /\ a.clock_step \in Nat
         /\ rough.notes \in Nat /\ rough.copy \in Nat
         /\ rough \in [notes : Nat, copy : Nat]
         /\ at \in {"start", "idle", "copy", "extrapolate"}
         /\ at \in {"start", "idle"} => copied = 0
         /\ at = "extrapolate" => copied = 5
         /\ at = "copy" => copied < 5
BY DEF ClockInv, ClockTypeOK, StepsPositive, Notes, Fields

\* Nothing was extrapolated yet, or any more.
LEMMA NothingRead == result = {} => ReadsTrue
BY DEF ReadsTrue

\* It holds before the handler is attached.
LEMMA InitReadInv == ClockInit => ReadInv
<1> SUFFICES ASSUME ClockInit PROVE ReadInv
  OBVIOUS
<1>1. ClockInv
  BY InitClockInv
<1>2. NotesTrue
  BY ClockAssumption DEF ClockInit, NotesTrue, NoNotes, Fields
<1>3. CopyTrue
  BY ClockAssumption DEF ClockInit, CopyTrue
<1>4. ReadsTrue
  BY DEF ClockInit, ReadsTrue
<1>5. QED BY <1>1, <1>2, <1>3, <1>4 DEF ReadInv

\* The mean forgets three fifths of what is left of the first step.
LEMMA SmoothedNear ==
  ASSUME NEW old \in Nat, NEW new \in Nat, NEW left \in Nat, Near(old, left),
         new - Cycles <= Latency, Cycles - new <= Latency
  PROVE  Near(Smoothed(old, new), (2 * left) \div 5)
<1> DEFINE next == (2 * left) \div 5
<1>1. Cycles \in Nat /\ Latency \in Nat
  BY ClockAssumption
<1>2. next \in Nat /\ 2 * left < 5 * next + 5
  <2> DEFINE l == 2 * left
  <2>1. l \in Nat
    OBVIOUS
  <2>2. next = l \div 5
    OBVIOUS
  <2> HIDE DEF l, next
  <2>3. 5 \in Nat \ {0}
    OBVIOUS
  <2>4. next \in Int /\ l < 5 * next + 5 /\ next >= 0
    BY <2>1, <2>2, <2>3, Quotient
  <2>5. QED BY <2>4 DEF l
<1> HIDE DEF next
<1>3. CASE old = 0
  <2>1. Smoothed(old, new) = (100 * new) \div 100
    BY <1>3 DEF Smoothed
  <2>2. (100 * new) \div 100 = new
    BY SMT
  <2>3. QED BY <1>1, <1>2, <2>1, <2>2 DEF Near, StepError, next
<1>4. CASE old # 0
  <2> DEFINE sum == 40 * old + 60 * new
             mean == sum \div 100
  <2>1. Smoothed(old, new) = mean
    BY <1>4 DEF Smoothed
  <2>2. sum \in Nat
    OBVIOUS
  <2>3. mean \in Int /\ 100 * mean <= sum /\ sum < 100 * mean + 100
    <3>1. 100 \in Nat \ {0}
      OBVIOUS
    <3> HIDE DEF sum
    <3>2. QED BY <2>2, <3>1, Quotient
  <2> HIDE DEF mean
  <2>4. Near(mean, next)
    BY <1>1, <1>2, <2>3 DEF Near, StepError
  <2>5. QED BY <2>1, <2>4 DEF next
<1>5. QED BY <1>3, <1>4

\* A tick: the handler's notes become true of it.
LEMMA TickNotes ==
  ASSUME ReadInv, Tick
  PROVE  NotesTrue'
<1> USE ClockAssumption
<1>1. /\ tsc \in Nat /\ due \in Nat /\ clock \in Int /\ inc \in Int
      /\ ticks \in Nat /\ steady \in Nat
      /\ area.int_count \in Nat /\ area.last_tsc \in Nat /\ area.tsc_step \in Nat
      /\ area.last_clock \in Nat /\ rough.notes \in Nat
      /\ rough \in [notes : Nat, copy : Nat]
  BY ClockTypes DEF ReadInv
<1>2. /\ at # "start" /\ tsc \in due..(due + Latency)
      /\ due' = due + Cycles /\ clock' = clock + Nanos + inc /\ inc' = 0
      /\ ticks' = ticks + 1 /\ steady' = steady + 1
      /\ tsc' = tsc /\ at' = at
  BY DEF Tick
<1>3. /\ area'.int_count = IF area.int_count < 2 THEN area.int_count + 1 ELSE area.int_count
      /\ area'.last_tsc = tsc
      /\ area'.tsc_step = Smoothed(area.tsc_step, tsc - area.last_tsc)
      /\ area'.last_clock = Wrapped(clock')
      /\ area'.clock_step = Wrapped(clock' - area.last_clock)
  BY DEF Tick, timer_handler, MIN_HANDLER_CALLS
<1>4. rough'.notes = IF area.int_count = 0 THEN Cycles ELSE (2 * rough.notes) \div 5
  BY <1>1 DEF Tick
<1>5. /\ due - Cycles <= area.last_tsc /\ area.last_tsc <= tsc
      /\ ticks >= 1 => /\ area.last_tsc <= due - Cycles + Latency
                       /\ Near(area.tsc_step, rough.notes)
      /\ steady >= 1 => inc = 0 /\ area.last_clock = Wrapped(clock)
      /\ area.int_count = IF ticks < 2 THEN ticks ELSE 2
      /\ steady <= ticks
      /\ ticks = 0 => area.tsc_step = 0
  BY <1>2 DEF ReadInv, NotesTrue
<1>6. Near(area'.tsc_step, rough'.notes)
  <2> DEFINE new == tsc - area.last_tsc
  <2>1. new \in Nat
    BY <1>1, <1>5
  <2>2. CASE ticks = 0
    <3>1. rough'.notes = Cycles
      BY <2>2, <1>4, <1>5
    <3>2. new <= Cycles + Latency
      BY <1>1, <1>2, <1>5
    <3>3. area'.tsc_step = (100 * new) \div 100
      <4>1. Smoothed(0, new) = (100 * new) \div 100
        BY <2>1 DEF Smoothed
      <4>2. area'.tsc_step = Smoothed(0, new)
        BY <2>2, <1>3, <1>5
      <4>3. QED BY <4>1, <4>2
    <3> HIDE DEF new
    <3>4. (100 * new) \div 100 = new
      BY <2>1, SMT
    <3>5. QED BY <2>1, <3>1, <3>2, <3>3, <3>4 DEF Near, StepError
  <2>3. CASE ticks >= 1
    <3>1. new - Cycles <= Latency /\ Cycles - new <= Latency
      BY <2>3, <1>1, <1>2, <1>5
    <3>2. area.int_count # 0
      BY <2>3, <1>1, <1>5
    <3> HIDE DEF new
    <3>3. Near(Smoothed(area.tsc_step, new), (2 * rough.notes) \div 5)
      BY <2>1, <2>3, <3>1, <1>1, <1>5, SmoothedNear
    <3>4. QED BY <3>2, <3>3, <1>3, <1>4 DEF new
  <2>4. QED BY <2>2, <2>3, <1>1
<1>7. steady >= 1 => area'.clock_step = Nanos
  <2> SUFFICES ASSUME steady >= 1 PROVE area'.clock_step = Nanos
    OBVIOUS
  <2>1. area'.clock_step = Wrapped((clock + Nanos) - Wrapped(clock))
    BY <1>1, <1>2, <1>3, <1>5
  <2>2. Wrapped((clock + Nanos) - Wrapped(clock)) = Wrapped((clock + Nanos) - clock)
    <3>1. clock \in Int /\ clock + Nanos \in Int
      BY <1>1
    <3>2. \A i, j \in Int : Wrapped(j - Wrapped(i)) = Wrapped(j - i)
      BY WrappedIs
    <3>3. QED BY <3>1, <3>2
  <2>3. (clock + Nanos) - clock = Nanos
    BY <1>1
  <2>4. Nanos < Word
    <3>1. 2 * (MaxTorn + 2) * Nanos = 4 * Nanos + 2 * (MaxTorn * Nanos) /\ MaxTorn * Nanos \in Nat
      BY SMT
    <3>2. QED BY <3>1, WordsAreWide
  <2>5. Wrapped(Nanos) = Nanos
    <3>1. \A i \in Int : i \in 0..(Word - 1) => Wrapped(i) = i
      BY WrappedIs
    <3>2. QED BY <2>4, <3>1
  <2>6. QED BY <2>1, <2>2, <2>3, <2>5
<1>8. area'.int_count = IF ticks' < 2 THEN ticks' ELSE 2
  BY <1>1, <1>2, <1>3, <1>5
<1>9. QED
  BY <1>1, <1>2, <1>3, <1>5, <1>6, <1>7, <1>8 DEF NotesTrue

\* A tick: getTime()'s copy, if one is being made, gets one tick older.
LEMMA TickCopy ==
  ASSUME ReadInv, Tick
  PROVE  CopyTrue'
<1> USE ClockAssumption
<1>1. /\ tsc \in Nat /\ due \in Nat /\ clock \in Int /\ inc \in Int
      /\ ticks \in Nat /\ steady \in Nat /\ torn \in Nat /\ copied \in 0..5
      /\ a.last_tsc \in Nat
      /\ rough \in [notes : Nat, copy : Nat]
      /\ at \in {"start", "idle", "copy", "extrapolate"}
      /\ at \in {"start", "idle"} => copied = 0
  BY ClockTypes DEF ReadInv
<1>2. /\ at # "start"
      /\ due' = due + Cycles /\ clock' = clock + Nanos + inc
      /\ steady' = steady + 1 /\ torn < MaxTorn
      /\ torn' = IF at \in {"copy", "extrapolate"} THEN torn + 1 ELSE 0
      /\ tsc' = tsc /\ at' = at /\ a' = a /\ copied' = copied /\ rough'.copy = rough.copy
  BY <1>1 DEF Tick
<1>3. /\ torn' <= MaxTorn
      /\ at' \in {"start", "idle"} => torn' = 0
  BY <1>1, <1>2
<1>4. ASSUME torn' + 2 <= steady' PROVE \E g \in 0..torn' : \E h \in 0..g : CopyIs(g, h)'
  <2>1. CASE at = "idle"
    <3>1. copied' = 0 /\ torn' = 0
      BY <2>1, <1>1, <1>2
    <3>2. CopyIs(0, 0)'
      BY <3>1 DEF CopyIs
    <3>3. QED BY <3>1, <3>2
  <2>2. CASE at # "idle"
    <3>1. torn' = torn + 1 /\ torn + 2 <= steady
      BY <2>2, <1>1, <1>2, <1>4
    <3>2. PICK g \in 0..torn : \E h \in 0..g : CopyIs(g, h)
      BY <3>1 DEF ReadInv, CopyTrue
    <3>3. PICK h \in 0..g : CopyIs(g, h)
      BY <3>2
    <3>4. inc = 0
      BY <3>1, <1>1 DEF ReadInv, NotesTrue
    <3>5. clock' - (h + 1) * Nanos = clock - h * Nanos
      <4>1. (h + 1) * Nanos = h * Nanos + Nanos /\ h * Nanos \in Int
        BY SMT
      <4>2. QED BY <4>1, <3>4, <1>1, <1>2
    <3>6. (1 + (g + 1)) * Cycles = (1 + g) * Cycles + Cycles /\ (1 + g) * Cycles \in Int
      BY SMT
    <3>7. CopyIs(g + 1, h + 1)'
      <4> DEFINE old == (1 + g) * Cycles
                 new == (1 + (g + 1)) * Cycles
      <4>1. /\ copied >= 2 => /\ a.last_tsc <= tsc
                              /\ due <= a.last_tsc + old
                              /\ a.last_tsc + old <= due + Latency
            /\ old \in Int /\ new = old + Cycles
        BY <3>3, <3>6 DEF CopyIs
      <4>2. copied >= 2 => /\ a.last_tsc <= tsc
                           /\ due' <= a.last_tsc + new
                           /\ a.last_tsc + new <= due' + Latency
        <5> HIDE DEF old, new
        <5> QED BY <4>1, <1>1, <1>2
      <4>3. Near(a.tsc_step, rough.copy)' <=> Near(a.tsc_step, rough.copy)
        BY <1>2 DEF Near
      <4>4. QED BY <3>3, <4>2, <4>3, <3>5, <1>2 DEF CopyIs
    <3>8. g + 1 \in 0..torn' /\ h + 1 \in 0..(g + 1)
      BY <3>1, <1>1
    <3>9. QED BY <3>7, <3>8
  <2>3. QED BY <2>1, <2>2
<1>5. QED BY <1>3, <1>4 DEF CopyTrue

\* A word is copied.
LEMMA CopyCopy ==
  ASSUME ReadInv, Copy
  PROVE  CopyTrue'
<1> USE ClockAssumption
<1>1. /\ tsc \in Nat /\ due \in Nat /\ clock \in Int
      /\ ticks \in Nat /\ steady \in Nat /\ torn \in Nat
      /\ area.last_tsc \in Nat /\ copied \in 0..4
      /\ rough \in [notes : Nat, copy : Nat]
  BY ClockTypes DEF ReadInv, Copy
<1>2. /\ at = "copy" /\ copied' = copied + 1 /\ at' \in {"copy", "extrapolate"}
      /\ tsc' = tsc /\ due' = due /\ clock' = clock /\ steady' = steady /\ torn' = torn
  BY DEF Copy, kernel
<1>3. /\ a'.int_count = IF copied = 0 THEN area.int_count ELSE a.int_count
      /\ a'.last_tsc = IF copied = 1 THEN area.last_tsc ELSE a.last_tsc
      /\ a'.tsc_step = IF copied = 2 THEN area.tsc_step ELSE a.tsc_step
      /\ a'.last_clock = IF copied = 3 THEN area.last_clock ELSE a.last_clock
      /\ a'.clock_step = IF copied = 4 THEN area.clock_step ELSE a.clock_step
  BY <1>1 DEF Copy, Words, ReadInv, ClockInv, ClockTypeOK, Notes, Fields
<1>4. rough'.copy = IF copied = 2 THEN rough.notes ELSE rough.copy
  BY <1>1, <1>2 DEF Copy, Words
<1>5. ASSUME torn + 2 <= steady
      PROVE  \E g \in 0..torn : \E h \in 0..g : CopyIs(g, h)'
  <2>1. /\ area.int_count = 2 /\ area.last_tsc <= tsc
        /\ due <= area.last_tsc + Cycles /\ area.last_tsc + Cycles <= due + Latency
        /\ Near(area.tsc_step, rough.notes)
        /\ area.last_clock = Wrapped(clock)
        /\ area.clock_step = Nanos
    BY <1>1, <1>2, <1>5 DEF ReadInv, NotesTrue
  <2>2. PICK g \in 0..torn : \E h \in 0..g : CopyIs(g, h)
    BY <1>5 DEF ReadInv, CopyTrue
  <2>3. PICK h \in 0..g : CopyIs(g, h)
    BY <2>2
  <2>4. CASE copied = 0
    <3>1. CopyIs(g, h)'
      BY <2>1, <2>4, <1>2, <1>3 DEF CopyIs
    <3>2. QED BY <3>1
  <2>5. CASE copied = 1
    <3>1. (1 + 0) * Cycles = Cycles
      OBVIOUS
    <3>2. CopyIs(0, 0)'
      BY <2>1, <2>3, <2>5, <3>1, <1>2, <1>3 DEF CopyIs
    <3>3. 0 \in 0..torn /\ 0 \in 0..0
      BY <1>1
    <3>4. QED BY <3>2, <3>3
  <2>6. CASE copied = 2
    <3>1. Near(a.tsc_step, rough.copy)'
      BY <2>1, <2>6, <1>3, <1>4 DEF Near
    <3>2. CopyIs(g, h)'
      BY <2>3, <2>6, <3>1, <1>2, <1>3 DEF CopyIs
    <3>3. QED BY <3>2
  <2>7. CASE copied = 3
    <3>1. Near(a.tsc_step, rough.copy)'
      BY <2>3, <2>7, <1>3, <1>4 DEF Near, CopyIs
    <3>2. clock - 0 * Nanos = clock
      BY <1>1
    <3>3. CopyIs(g, 0)'
      BY <2>1, <2>3, <2>7, <3>1, <3>2, <1>2, <1>3 DEF CopyIs
    <3>4. 0 \in 0..g
      BY <1>1
    <3>5. QED BY <3>3, <3>4
  <2>8. CASE copied = 4
    <3>1. Near(a.tsc_step, rough.copy)'
      BY <2>3, <2>8, <1>3, <1>4 DEF Near, CopyIs
    <3>2. CopyIs(g, h)'
      BY <2>1, <2>3, <2>8, <3>1, <1>2, <1>3 DEF CopyIs
    <3>3. QED BY <3>2
  <2>9. QED BY <2>4, <2>5, <2>6, <2>7, <2>8, <1>1
<1>6. QED BY <1>2, <1>5 DEF CopyTrue, ReadInv

\* What getTime() returns is the time of day.
LEMMA ExtrapolateReads ==
  ASSUME ReadInv, Extrapolate
  PROVE  ReadsTrue'
<1> USE ClockAssumption
<1>1. /\ tsc \in Nat /\ due \in Nat /\ clock \in Int
      /\ steady \in Nat /\ torn \in Nat
      /\ a.last_tsc \in Nat /\ a.tsc_step \in Nat
      /\ rough.copy \in Nat /\ copied = 5
  BY ClockTypes DEF ReadInv, Extrapolate
<1>2. steady' = steady
  BY DEF Extrapolate, history
<1>3. PICK offset \in Offsets :
        result' = {[time |-> Wrapped(a.last_clock + offset), now |-> Now, torn |-> torn,
                     rough |-> rough.copy]}
  BY DEF Extrapolate
<1>4. ASSUME steady - torn >= 2, 2 * StepError(rough.copy) <= Cycles
      PROVE  \/ Wrapped(Wrapped(a.last_clock + offset) - Now) <= Tolerance(torn, rough.copy)
             \/ Wrapped(Now - Wrapped(a.last_clock + offset)) <= Tolerance(torn, rough.copy)
  <2>1. PICK g \in 0..torn : \E h \in 0..g : CopyIs(g, h)
    BY <1>1, <1>4 DEF ReadInv, CopyTrue
  <2>2. PICK h \in 0..g : CopyIs(g, h)
    BY <2>1
  <2>3. /\ a.int_count = 2 /\ a.clock_step = Nanos
        /\ a.last_tsc <= tsc
        /\ due <= a.last_tsc + (1 + g) * Cycles
        /\ a.last_tsc + (1 + g) * Cycles <= due + Latency
        /\ Near(a.tsc_step, rough.copy)
        /\ a.last_clock = Wrapped(clock - h * Nanos)
    BY <2>2, <1>1 DEF CopyIs
  <2> DEFINE p == tsc - (due - Cycles)
             late == a.last_tsc + (1 + g) * Cycles - due
             exact == ((p + g * Cycles - late) * Nanos) \div a.tsc_step
             moved == (p * Nanos) \div Cycles
             off == exact - h * Nanos - moved
  <2>4. (1 + g) * Cycles = Cycles + g * Cycles /\ g * Cycles \in Nat /\ h * Nanos \in Nat
    BY SMT
  <2>5. p \in Nat /\ p <= Cycles + Latency
    BY <1>1 DEF ReadInv, NotesTrue
  <2>6. late \in 0..Latency
    BY <2>3, <2>4, <1>1
  <2>7. tsc - a.last_tsc = p + g * Cycles - late
    BY <2>4, <1>1
  <2>8. p + g * Cycles - late >= 0
    BY <2>3, <2>7, <1>1
  <2>9. /\ exact \in 0..(Word - 1) /\ off \in Int /\ Tolerance(torn, rough.copy) \in Int
        /\ off <= Tolerance(torn, rough.copy) /\ -off <= Tolerance(torn, rough.copy)
    <3>1. torn \in 0..MaxTorn
      BY <1>1 DEF ReadInv, CopyTrue
    <3> HIDE DEF p, late
    <3>2. QED BY <2>3, <2>5, <2>6, <2>8, <3>1, <1>1, <1>4, Extrapolated
  <2>10. offset = exact
    <3>1. Offsets = {exact}
      <4> HIDE DEF p, late
      <4>1. ((tsc - a.last_tsc) * a.clock_step) \div a.tsc_step = exact
        BY <2>3, <2>7
      <4> HIDE DEF exact
      <4>2. QED BY <4>1, <2>3, <2>9 DEF Offsets, MIN_HANDLER_CALLS
    <3>2. QED BY <3>1
  <2>11. Now = clock + moved /\ moved \in Int
    <3>1. Now = clock + moved
      BY DEF Now, Phase
    <3>2. p * Nanos \in Int
      BY <2>5, SMT
    <3>3. moved \in Int
      BY <3>2, Quotient
    <3>4. QED BY <3>1, <3>3
  <2> HIDE DEF p, late, exact, moved
  <2> DEFINE i == clock - h * Nanos
             t == Wrapped(i + exact)
  <2>12. i \in Int /\ i + exact \in Int /\ exact \in Int /\ Now \in Int
    BY <2>4, <2>9, <2>11, <1>1
  <2>13. Wrapped(a.last_clock + offset) = t
    <3>1. a.last_clock = Wrapped(i)
      BY <2>3
    <3> HIDE DEF i
    <3>2. \A n, o \in Int : Wrapped(Wrapped(n) + o) = Wrapped(n + o)
      BY WrappedIs
    <3>3. Wrapped(a.last_clock + offset) = Wrapped(Wrapped(i) + exact)
      BY <3>1, <2>10
    <3>4. QED BY <3>2, <3>3, <2>12
  <2>14. i + exact - Now = off /\ Now - (i + exact) = -off
    BY <2>4, <2>9, <2>11, <2>12, <1>1
  <2>15. Wrapped(t - Now) = Wrapped(off)
    <3> DEFINE u == i + exact
    <3>1. u \in Int /\ -Now \in Int /\ Wrapped(u) \in Int
      BY <2>12, WrappedIs
    <3>2. u + (-Now) = off
      BY <2>12, <2>14
    <3>3. t - Now = Wrapped(u) + (-Now)
      BY <3>1, <2>12
    <3> HIDE DEF u, t, off
    <3>4. QED BY <3>1, <3>2, <3>3, WrappedIs
  <2>16. Wrapped(Now - t) = Wrapped(-off)
    <3> DEFINE u == i + exact
    <3>1. u \in Int /\ t = Wrapped(u)
      BY <2>12
    <3>2. Now - u = -off
      BY <2>14
    <3> HIDE DEF u, t, off
    <3>3. QED BY <3>1, <3>2, <2>12, WrappedIs
  <2> HIDE DEF t, off
  <2>17. CASE off >= 0
    <3>1. off \in Int /\ off >= 0
      BY <2>9, <2>17
    <3>2. Wrapped(off) <= off /\ Wrapped(off) \in Int
      <4>1. \A n \in Int : Wrapped(n) \in 0..(Word - 1) /\ (n >= 0 => Wrapped(n) <= n)
        BY WrappedIs
      <4>2. QED BY <3>1, <4>1
    <3>3. Wrapped(off) <= Tolerance(torn, rough.copy)
      BY <3>1, <3>2, <2>9
    <3>4. QED BY <3>3, <2>13, <2>15
  <2>18. CASE off < 0
    <3> DEFINE n == -off
    <3>1. n \in Int /\ n >= 0 /\ n <= Tolerance(torn, rough.copy)
      BY <2>9, <2>18
    <3>2. Wrapped(Now - t) = Wrapped(n)
      BY <2>16
    <3> HIDE DEF n
    <3>3. Wrapped(n) <= n /\ Wrapped(n) \in Int
      BY <3>1, WrappedIs
    <3>4. Wrapped(n) <= Tolerance(torn, rough.copy)
      BY <3>1, <3>3, <2>9
    <3>5. QED BY <3>2, <3>4, <2>13
  <2>19. QED BY <2>17, <2>18, <2>9
<1>5. QED BY <1>2, <1>3, <1>4 DEF ReadsTrue

\* Every step keeps the invariant.
LEMMA NextReadInv == ReadInv /\ [ClockNext]_clockVars => ReadInv'
<1> SUFFICES ASSUME ReadInv, [ClockNext]_clockVars PROVE ReadInv'
  OBVIOUS
<1> USE ClockAssumption
<1>1. ClockInv'
  BY NextClockInv DEF ReadInv
<1>2. /\ tsc \in Nat /\ due \in Nat /\ clock \in Int /\ inc \in Int
      /\ torn \in Nat /\ ticks \in Nat /\ steady \in Nat /\ copied \in 0..5
      /\ area.last_tsc \in Nat /\ area \in Notes
      /\ rough \in [notes : Nat, copy : Nat]
      /\ at \in {"start", "idle", "copy", "extrapolate"}
      /\ at \in {"start", "idle"} => copied = 0
  BY ClockTypes DEF ReadInv, ClockInv, ClockTypeOK
<1>3. CASE Pass
  <2>1. tsc' \in Nat /\ tsc' >= tsc /\ tsc' <= due + Latency
    BY <1>2, <1>3 DEF Pass, Phase, ReadInv, NotesTrue
  <2>2. UNCHANGED <<due, clock, inc, area, at, a, copied, torn, ticks, steady, rough>>
    BY <1>3 DEF Pass, history
  <2>3. NotesTrue'
    BY <1>2, <2>1, <2>2 DEF ReadInv, NotesTrue, Near
  <2>4. \A g, h : CopyIs(g, h) => CopyIs(g, h)'
    <3>1. a.last_tsc \in Nat
      BY ClockTypes DEF ReadInv
    <3>2. copied >= 2 /\ a.last_tsc <= tsc => a.last_tsc <= tsc'
      BY <1>2, <2>1, <3>1
    <3>3. QED BY <2>2, <3>2 DEF CopyIs, Near
  <2>5. CopyTrue'
    BY <2>2, <2>4 DEF ReadInv, CopyTrue
  <2>6. QED BY <1>1, <1>3, <2>3, <2>5, NothingRead DEF ReadInv, Pass, ReadsTrue
<1>4. CASE Tick
  <2>1. ReadsTrue'
    BY <1>4 DEF Tick, ReadsTrue
  <2>2. QED BY <1>1, <1>4, <2>1, TickNotes, TickCopy DEF ReadInv
<1>5. CASE Attach
  <2>1. /\ at = "start" /\ at' = "idle" /\ result' = {}
        /\ area'.last_tsc = tsc /\ area'.int_count = area.int_count
        /\ area'.tsc_step = area.tsc_step
        /\ UNCHANGED <<tsc, due, clock, inc, a, copied, torn, ticks, steady, rough>>
    BY <1>2, <1>5 DEF Attach, kernel, history, Notes, Fields
  <2>2. ticks = 0 /\ steady = 0 /\ torn = 0
    BY <2>1, <1>2 DEF ReadInv, NotesTrue, CopyTrue
  <2>3. NotesTrue'
    BY <2>1, <2>2, <1>2 DEF ReadInv, NotesTrue
  <2>4. CopyTrue'
    BY <2>1, <2>2 DEF CopyTrue
  <2>5. QED BY <1>1, <2>1, <2>3, <2>4 DEF ReadInv, ReadsTrue
<1>6. CASE Call
  <2>1. /\ at = "idle" /\ at' = "copy" /\ result' = {}
        /\ UNCHANGED <<tsc, due, clock, inc, area, a, copied, torn, ticks, steady, rough>>
    BY <1>6 DEF Call, kernel, history
  <2>2. NotesTrue'
    BY <2>1 DEF ReadInv, NotesTrue, Near
  <2>3. \A g, h : CopyIs(g, h) => CopyIs(g, h)'
    BY <2>1 DEF CopyIs, Near
  <2>4. CopyTrue'
    BY <2>1, <2>3 DEF ReadInv, CopyTrue
  <2>5. QED BY <1>1, <2>1, <2>2, <2>4 DEF ReadInv, ReadsTrue
<1>7. CASE Copy
  <2>1. /\ at = "copy" /\ at' \in {"copy", "extrapolate"} /\ result' = {}
        /\ rough'.notes = rough.notes
        /\ UNCHANGED <<tsc, due, clock, inc, area, ticks, steady>>
    BY <1>2, <1>7 DEF Copy, kernel
  <2>2. NotesTrue'
    BY <2>1 DEF ReadInv, NotesTrue, Near
  <2>3. QED BY <1>1, <1>7, <2>1, <2>2, CopyCopy DEF ReadInv, ReadsTrue
<1>8. CASE Extrapolate
  <2>1. /\ at = "extrapolate" /\ at' = "idle" /\ copied' = 0 /\ torn' = 0
        /\ UNCHANGED <<tsc, due, clock, inc, area, ticks, steady, rough>>
    BY <1>8 DEF Extrapolate, kernel, history
  <2>2. NotesTrue'
    BY <2>1 DEF ReadInv, NotesTrue, Near
  <2>3. CopyIs(0, 0)'
    BY <2>1 DEF CopyIs
  <2>4. CopyTrue'
    BY <2>1, <2>3 DEF CopyTrue
  <2>5. QED BY <1>1, <1>8, <2>2, <2>4, ExtrapolateReads DEF ReadInv
<1>9. CASE setTime \/ adjFreq
  <2>1. /\ at = "idle" /\ steady' = 0 /\ result' = {}
        /\ UNCHANGED <<tsc, due, area, at, a, copied, torn, ticks, rough>>
    BY <1>9 DEF setTime, adjFreq, Sets
  <2>2. NotesTrue'
    BY <2>1, <1>2 DEF ReadInv, NotesTrue, Near
  <2>3. CopyTrue'
    BY <2>1, <1>2 DEF ReadInv, CopyTrue
  <2>4. QED BY <1>1, <2>1, <2>2, <2>3 DEF ReadInv, ReadsTrue
<1>10. CASE UNCHANGED clockVars
  <2>1. UNCHANGED <<tsc, due, clock, inc, area, at, a, copied, torn, result, ticks, steady, rough>>
    BY <1>10 DEF clockVars, kernel, reader, history
  <2>2. NotesTrue'
    BY <2>1 DEF ReadInv, NotesTrue, Near
  <2>3. \A g, h : CopyIs(g, h) => CopyIs(g, h)'
    BY <2>1 DEF CopyIs, Near
  <2>4. CopyTrue'
    BY <2>1, <2>3 DEF ReadInv, CopyTrue
  <2>5. ReadsTrue'
    BY <2>1 DEF ReadInv, ReadsTrue
  <2>6. QED BY <1>1, <2>2, <2>4, <2>5 DEF ReadInv
<1>11. QED
  BY <1>3, <1>4, <1>5, <1>6, <1>7, <1>8, <1>9, <1>10 DEF ClockNext

\* getTime() of dep/sys.c returns the time of day to within the tolerance, for any number
\* of cycles and nanoseconds per tick, any latency below a tick, a daemon that attaches
\* its handler anywhere in a tick, and a copy torn by any number of ticks.
THEOREM TimeReadTrue == ClockSpec => []ReadsTrue
<1>1. ReadInv => ReadsTrue
  BY DEF ReadInv
<1>2. QED
  BY InitReadInv, NextReadInv, <1>1, PTL DEF ClockSpec

-----------------------------------------------------------------------------
(* The arithmetic of arith.c *)

\* What is used of the constants of the code, but for the lemmas that need their values.
LEMMA Numbers ==
  /\ SECOND \in Nat \ {0} /\ MaxInt \in Nat /\ ADJ_FREQ_MAX \in Nat
  /\ S = 6
<1>1. SECOND \in Nat \ {0} /\ MaxInt \in Nat
  BY SMT DEF SECOND, MaxInt
<1>2. ADJ_FREQ_MAX \in Nat /\ S = 6
  BY SMT DEF ADJ_FREQ_MAX, S
<1>3. QED BY <1>1, <1>2

\* A second's nanoseconds fit twice into a number.
LEMMA TwoSecondsFit ==
  ASSUME NEW u \in Nat, u < SECOND
  PROVE  u <= MaxInt /\ 2 * u <= MaxInt
BY SMT DEF SECOND, MaxInt

\* The time in nanoseconds.
Value(t) == t.seconds * SECOND + t.nanoseconds

\* Division of C, which truncates.
LEMMA Truncated ==
  ASSUME NEW n \in Int, NEW m \in Nat \ {0}
  PROVE  /\ Quot(n, m) \in Int /\ Rem(n, m) \in (1 - m)..(m - 1)
         /\ n = Quot(n, m) * m + Rem(n, m)
         /\ n >= 0 => Quot(n, m) >= 0 /\ Rem(n, m) >= 0
         /\ n <= 0 => Quot(n, m) <= 0 /\ Rem(n, m) <= 0
<1>1. CASE n >= 0
  <2> DEFINE q == n \div m
             r == n % m
  <2>1. q \in Int /\ r \in 0..(m - 1) /\ n = m * q + r /\ q >= 0
    BY <1>1, Division
  <2>2. Quot(n, m) = q /\ Rem(n, m) = n - q * m
    BY <1>1 DEF Quot, Rem
  <2> HIDE DEF q, r
  <2>3. q * m = m * q /\ m * q \in Int
    BY <2>1
  <2>4. n - q * m = r
    BY <2>1, <2>3
  <2>5. n = q * m + r
    BY <2>1, <2>3
  <2>6. n <= 0 => q <= 0 /\ r <= 0
    <3>1. ASSUME n = 0 PROVE q <= 0 /\ r <= 0
      <4>1. m * q < m * 0 + m
        BY <2>1, <2>3, <3>1
      <4>2. q <= 0
        BY <2>1, <4>1, Multiples
      <4>3. q = 0
        BY <2>1, <4>2
      <4>4. r = 0
        BY <2>1, <3>1, <4>3
      <4>5. QED BY <4>3, <4>4
    <3>2. QED BY <1>1, <3>1
  <2>7. QED BY <2>1, <2>2, <2>4, <2>5, <2>6
<1>2. CASE n < 0
  <2> DEFINE p == 0 - n
             q == p \div m
             r == p % m
             u == 0 - q
  <2>1. p \in Nat /\ p = 0 - n /\ -n = p
    BY <1>2
  <2> HIDE DEF p
  <2>2. q \in Int /\ r \in 0..(m - 1) /\ p = m * q + r /\ q >= 0
    <3>1. p \in Int /\ p >= 0
      BY <2>1
    <3>2. QED BY ONLY <3>1, Division DEF q, r
  <2>3. Quot(n, m) = -q
    BY <1>2, <2>1 DEF Quot
  <2>4. -q = u /\ Rem(n, m) = n - Quot(n, m) * m
    BY <2>2 DEF Rem
  <2> HIDE DEF q, r
  <2>5. u \in Int /\ u <= 0 /\ m * q \in Int /\ u * m = 0 - m * q
    BY <2>2, SMT
  <2>6. Quot(n, m) = u /\ Rem(n, m) = n - u * m
    BY <2>3, <2>4
  <2> HIDE DEF u
  <2>7. u * m \in Int /\ n - u * m = 0 - r
    BY <2>1, <2>2, <2>5
  <2>8. QED BY <1>2, <2>2, <2>5, <2>6, <2>7
<1>3. QED BY <1>1, <1>2

\* Nanoseconds divided into seconds and a fraction.
LEMMA WholeSeconds ==
  ASSUME NEW n \in Int
  PROVE  /\ Quot(n, SECOND) \in Int /\ Rem(n, SECOND) \in Fractions
         /\ n = Quot(n, SECOND) * SECOND + Rem(n, SECOND)
         /\ n >= 0 => Quot(n, SECOND) >= 0 /\ Rem(n, SECOND) >= 0
         /\ n <= 0 => Quot(n, SECOND) <= 0 /\ Rem(n, SECOND) <= 0
<1>1. SECOND \in Nat \ {0}
  BY Numbers
<1>2. QED BY <1>1, Truncated DEF Fractions

\* A time of one sign in both fields, and its value.
LEMMA TimeType ==
  ASSUME NEW u \in Int, NEW b \in Fractions, u >= 0 \/ b <= 0, u <= 0 \/ b >= 0
  PROVE  Time(u, b) \in TimeInternal /\ Value(Time(u, b)) = u * SECOND + b
BY DEF Time, TimeInternal, Value

\* normalizeTime() gives both fields one sign and keeps the value.
LEMMA Normalized ==
  ASSUME NEW s \in Int, NEW ns \in Int
  PROVE  /\ normalizeTime(s, ns) \in TimeInternal
         /\ Value(normalizeTime(s, ns)) = s * SECOND + ns
<1> DEFINE q == Quot(ns, SECOND)
           n == Rem(ns, SECOND)
           t == s + q
<1>1. q \in Int /\ n \in Fractions /\ ns = q * SECOND + n
  BY WholeSeconds
<1>2. normalizeTime(s, ns) = IF t > 0 /\ n < 0 THEN Time(t - 1, n + SECOND)
                             ELSE IF t < 0 /\ n > 0 THEN Time(t + 1, n - SECOND)
                             ELSE Time(t, n)
  BY DEF normalizeTime
<1> HIDE DEF q, n
<1>3. s * SECOND + ns = t * SECOND + n /\ n \in Int /\ t \in Int
  BY <1>1, Numbers DEF Fractions
<1> HIDE DEF t
<1>4. CASE t > 0 /\ n < 0
  <2> DEFINE u == t - 1
             b == n + SECOND
  <2>1. u \in Int /\ u >= 0 /\ b \in Fractions /\ b >= 0
    BY <1>1, <1>3, <1>4, Numbers DEF Fractions
  <2>2. u * SECOND + b = t * SECOND + n
    BY <1>3, Numbers
  <2>3. normalizeTime(s, ns) = Time(u, b)
    BY <1>2, <1>4
  <2> HIDE DEF u, b
  <2>4. QED BY <1>3, <2>1, <2>2, <2>3, TimeType
<1>5. CASE t < 0 /\ n > 0
  <2> DEFINE u == t + 1
             b == n - SECOND
  <2>1. u \in Int /\ u <= 0 /\ b \in Fractions /\ b <= 0
    BY <1>1, <1>3, <1>5, Numbers DEF Fractions
  <2>2. u * SECOND + b = t * SECOND + n
    BY <1>3, Numbers
  <2>3. normalizeTime(s, ns) = Time(u, b)
    BY <1>2, <1>3, <1>5
  <2> HIDE DEF u, b
  <2>4. QED BY <1>3, <2>1, <2>2, <2>3, TimeType
<1>6. CASE ~(t > 0 /\ n < 0) /\ ~(t < 0 /\ n > 0)
  BY <1>1, <1>2, <1>3, <1>6, TimeType
<1>7. QED BY <1>4, <1>5, <1>6

\* addTime(), subTime() and div2Time() normalize, and the first two compute.
LEMMA TimeArithmetic ==
  ASSUME NEW x \in TimeInternal, NEW y \in TimeInternal
  PROVE  /\ addTime(x, y) \in TimeInternal /\ Value(addTime(x, y)) = Value(x) + Value(y)
         /\ subTime(x, y) \in TimeInternal /\ Value(subTime(x, y)) = Value(x) - Value(y)
         /\ div2Time(x) \in TimeInternal
         /\ x.seconds \in Int /\ x.nanoseconds \in Fractions /\ Value(x) \in Int
<1>1. /\ x.seconds \in Int /\ y.seconds \in Int
      /\ x.nanoseconds \in Fractions /\ y.nanoseconds \in Fractions
      /\ x.nanoseconds \in Int /\ y.nanoseconds \in Int
  BY Numbers DEF TimeInternal, Fractions
<1>2. /\ addTime(x, y) \in TimeInternal
      /\ Value(addTime(x, y)) = (x.seconds + y.seconds) * SECOND + (x.nanoseconds + y.nanoseconds)
  BY <1>1, Normalized DEF addTime
<1>3. /\ subTime(x, y) \in TimeInternal
      /\ Value(subTime(x, y)) = (x.seconds - y.seconds) * SECOND + (x.nanoseconds - y.nanoseconds)
  BY <1>1, Normalized DEF subTime
<1>4. div2Time(x) \in TimeInternal
  <2> DEFINE u == Quot(x.seconds, 2)
             b == Quot(x.nanoseconds + Rem(x.seconds, 2) * SECOND, 2)
  <2>1. u \in Int /\ b \in Int
    BY <1>1, Numbers DEF Quot, Rem
  <2>2. div2Time(x) = normalizeTime(u, b)
    BY DEF div2Time
  <2> HIDE DEF u, b
  <2>3. QED BY <2>1, <2>2, Normalized
<1>5. QED BY <1>1, <1>2, <1>3, <1>4, Numbers DEF Value

\* A number of nanoseconds as a time.
LEMMA Nanoseconds ==
  ASSUME NEW n \in Int
  PROVE  /\ Nano(n) \in TimeInternal /\ Value(Nano(n)) = n
         /\ n \in Fractions => Nano(n) = Time(0, n)
<1>1. Nano(n) \in TimeInternal /\ Value(Nano(n)) = n
  BY Normalized, Numbers DEF Nano
<1>2. ASSUME n \in Fractions PROVE Nano(n) = Time(0, n)
  <2>1. Quot(n, SECOND) = 0 /\ Rem(n, SECOND) = n
    BY <1>2, Numbers DEF Quot, Rem, Fractions
  <2>2. QED BY <2>1 DEF Nano, normalizeTime
<1>3. QED BY <1>1, <1>2

\* Clamped() clamps.
LEMMA ClampedType ==
  ASSUME NEW u \in Int
  PROVE  Clamped(u, ADJ_FREQ_MAX) \in (-ADJ_FREQ_MAX)..ADJ_FREQ_MAX
<1> DEFINE b == Max({u, -ADJ_FREQ_MAX})
<1>1. b \in {u, -ADJ_FREQ_MAX} /\ b >= -ADJ_FREQ_MAX
  BY Numbers DEF Max
<1> HIDE DEF b
<1>2. Min({b, ADJ_FREQ_MAX}) \in {b, ADJ_FREQ_MAX} /\ Min({b, ADJ_FREQ_MAX}) <= ADJ_FREQ_MAX
  BY <1>1, Numbers DEF Min
<1>3. Clamped(u, ADJ_FREQ_MAX) = Min({b, ADJ_FREQ_MAX})
  BY DEF Clamped, b
<1>4. QED BY <1>1, <1>2, <1>3, Numbers

-----------------------------------------------------------------------------
(* The filter *)

\* The filter is never so stiff that its product overflows.
LEMMA StiffnessBound ==
  ASSUME NEW y \in Fractions
  PROVE  \E s \in 0..6, m \in {1, 2, 4, 8, 16, 32, 64} :
           /\ Stiffness(y) = s /\ 2^Stiffness(y) = m
           /\ m * Magnitude(y) <= MaxInt
<1> DEFINE T == {s \in 0..S : s = 0 \/ Magnitude(y) \div 2^(31 - s) = 0}
<1>1. \E s \in T : \A t \in T : s >= t
  <2>1. T \subseteq 0..6 /\ 0 \in T
    BY Numbers
  <2> HIDE DEF T
  <2>2. CASE 6 \in T
    BY <2>1, <2>2
  <2>3. CASE 6 \notin T /\ 5 \in T
    BY <2>1, <2>3
  <2>4. CASE 6 \notin T /\ 5 \notin T /\ 4 \in T
    BY <2>1, <2>4
  <2>5. CASE 6 \notin T /\ 5 \notin T /\ 4 \notin T /\ 3 \in T
    BY <2>1, <2>5
  <2>6. CASE 6 \notin T /\ 5 \notin T /\ 4 \notin T /\ 3 \notin T /\ 2 \in T
    BY <2>1, <2>6
  <2>7. CASE 6 \notin T /\ 5 \notin T /\ 4 \notin T /\ 3 \notin T /\ 2 \notin T
    BY <2>1, <2>7
  <2>8. QED BY <2>2, <2>3, <2>4, <2>5, <2>6, <2>7
<1>2. Stiffness(y) \in T
  BY <1>1 DEF Stiffness, Max
<1> DEFINE s == Stiffness(y)
           u == Magnitude(y)
<1>3. u \in Nat /\ u < SECOND
  BY Numbers DEF Fractions, Magnitude
<1>4. s \in 0..6 /\ (s = 0 \/ u \div 2^(31 - s) = 0)
  BY <1>2, Numbers
<1> HIDE DEF s, u, T
<1>5. CASE s = 0
  <2>1. 2^s = 1
    BY <1>5
  <2>2. QED BY <1>3, <1>4, <1>5, <2>1, TwoSecondsFit DEF s, u
<1>6. CASE s = 1
  <2>1. 2^s = 2
    BY <1>6
  <2>2. QED BY <1>3, <1>4, <1>6, <2>1, TwoSecondsFit DEF s, u
<1>7. CASE s = 2
  <2>1. 2^s = 4 /\ u \div 2^29 = 0
    BY <1>4, <1>7
  <2>2. 4 * u <= MaxInt
    BY <1>3, <2>1, SMT DEF MaxInt
  <2>3. QED BY <1>4, <1>7, <2>1, <2>2 DEF s, u
<1>8. CASE s = 3
  <2>1. 2^s = 8 /\ u \div 2^28 = 0
    BY <1>4, <1>8
  <2>2. 8 * u <= MaxInt
    BY <1>3, <2>1, SMT DEF MaxInt
  <2>3. QED BY <1>4, <1>8, <2>1, <2>2 DEF s, u
<1>9. CASE s = 4
  <2>1. 2^s = 16 /\ u \div 2^27 = 0
    BY <1>4, <1>9
  <2>2. 16 * u <= MaxInt
    BY <1>3, <2>1, SMT DEF MaxInt
  <2>3. QED BY <1>4, <1>9, <2>1, <2>2 DEF s, u
<1>10. CASE s = 5
  <2>1. 2^s = 32 /\ u \div 2^26 = 0
    BY <1>4, <1>10
  <2>2. 32 * u <= MaxInt
    BY <1>3, <2>1, SMT DEF MaxInt
  <2>3. QED BY <1>4, <1>10, <2>1, <2>2 DEF s, u
<1>11. CASE s = 6
  <2>1. 2^s = 64 /\ u \div 2^25 = 0
    BY <1>4, <1>11
  <2>2. 64 * u <= MaxInt
    BY <1>3, <2>1, SMT DEF MaxInt
  <2>3. QED BY <1>4, <1>11, <2>1, <2>2 DEF s, u
<1>12. QED BY <1>4, <1>5, <1>6, <1>7, <1>8, <1>9, <1>10, <1>11

\* What is left of a number when it is divided.
LEMMA QuotBound ==
  ASSUME NEW n \in Int, NEW m \in Nat \ {0}
  PROVE  /\ Quot(n, m) \in Int /\ Magnitude(Quot(n, m)) \in Nat /\ Magnitude(n) \in Nat
         /\ m * Magnitude(Quot(n, m)) <= Magnitude(n)
         /\ n >= 0 => Quot(n, m) >= 0
<1> DEFINE q == Quot(n, m)
           r == Rem(n, m)
<1>1. /\ q \in Int /\ r \in Int /\ n = q * m + r
      /\ n >= 0 => q >= 0 /\ r >= 0
      /\ n <= 0 => q <= 0 /\ r <= 0
  BY Truncated
<1> HIDE DEF q, r
<1>2. m * q = q * m /\ m * (-q) = -(m * q) /\ m * q \in Int
  BY <1>1, SMT
<1>3. CASE n >= 0
  <2>1. Magnitude(q) = q /\ Magnitude(n) = n
    BY <1>1, <1>3 DEF Magnitude
  <2>2. QED BY <1>1, <1>2, <1>3, <2>1 DEF q
<1>4. CASE n < 0
  <2>1. Magnitude(q) = -q /\ Magnitude(n) = -n
    BY <1>1, <1>4 DEF Magnitude
  <2>2. QED BY <1>1, <1>2, <1>4, <2>1 DEF q
<1>5. QED BY <1>3, <1>4

\* The product of the filter fits, so what comes out is its quotient.
LEMMA ScaledIs ==
  ASSUME NEW y \in Int, NEW e \in Nat \ {0}, (e - 1) * Magnitude(y) <= MaxInt
  PROVE  Scaled(e, y) = Quot((e - 1) * y, e)
<1>1. ASSUME y # 0, e - 1 > MaxInt \div Magnitude(y) PROVE FALSE
  <2> DEFINE u == Magnitude(y)
             q == MaxInt \div u
             r == MaxInt % u
             d == e - 1
  <2>1. u \in Nat \ {0} /\ d \in Nat
    BY <1>1 DEF Magnitude
  <2> HIDE DEF u
  <2>2. q \in Int /\ r \in 0..(u - 1) /\ MaxInt = u * q + r
    <3>1. MaxInt \in Int
      BY Numbers
    <3>2. QED BY ONLY <2>1, <3>1, Division DEF q, r
  <2>3. d > q /\ d * u <= MaxInt
    BY <1>1 DEF u
  <2> HIDE DEF q, r, d
  <2>4. PICK k \in Nat : d = q + 1 + k
    BY <2>1, <2>2, <2>3
  <2>5. d * u = u * q + u + k * u /\ k * u >= 0
    BY <2>1, <2>2, <2>4, SMT
  <2>6. u * q \in Int /\ k * u \in Int
    BY <2>1, <2>2
  <2>7. QED BY <2>1, <2>2, <2>3, <2>5, <2>6, Numbers
<1>2. QED BY <1>1 DEF Scaled

\* The filter stays below a second, and what is not negative keeps it so.
LEMMA FilteredSound ==
  ASSUME NEW f \in Filter, f.y \in Fractions, NEW ns \in Fractions
  PROVE  LET g == Filtered(f, ns)
         IN /\ g \in Filter /\ g.y \in Fractions /\ g.nsec_prev = ns
            /\ f.y >= 0 /\ f.nsec_prev >= 0 /\ ns >= 0 => g.y >= 0
<1> DEFINE N == SECOND - 1
           m == 2^Stiffness(f.y)
           e == IF f.s_exp < 1 THEN 1 ELSE Min({f.s_exp + 1, m})
           u == Magnitude(f.y)
           h == Quot(ns, 2)
           k == Quot(f.nsec_prev, 2)
           w == h + k
           z == Scaled(e, f.y)
           x == Quot(w, e)
<1>1. N \in Nat /\ f.y \in Int /\ ns \in Int /\ f.nsec_prev \in Int /\ f.s_exp \in 0..64
  <2>1. 2^S = 64
    BY SMT DEF S
  <2>2. QED BY <2>1, Numbers DEF Filter, Fractions
<1>2. u \in 0..N /\ Magnitude(ns) \in 0..N /\ Magnitude(f.nsec_prev) \in 0..N
  <2>1. \A v \in Fractions : Magnitude(v) \in 0..N
    BY Numbers DEF Fractions, Magnitude
  <2>2. f.nsec_prev \in Fractions
    BY DEF Filter
  <2>3. QED BY <2>1, <2>2
<1>3. m \in {1, 2, 4, 8, 16, 32, 64} /\ m * u <= MaxInt
  BY StiffnessBound
<1>4. Filtered(f, ns) = [y |-> z + x, nsec_prev |-> ns, s_exp |-> e]
  BY DEF Filtered
<1> HIDE DEF N, m, u
<1>5. e \in 1..m
  <2>1. CASE f.s_exp < 1
    BY <1>3, <2>1
  <2>2. CASE ~(f.s_exp < 1)
    <3> DEFINE p == f.s_exp + 1
    <3>1. p \in 2..65
      BY <1>1, <2>2
    <3> HIDE DEF p
    <3>2. Min({p, m}) \in {p, m} /\ Min({p, m}) <= m
      BY <1>3, <3>1 DEF Min
    <3>3. QED BY <1>3, <2>2, <3>1, <3>2 DEF p
  <2>3. QED BY <2>1, <2>2
<1> HIDE DEF e
<1>6. e \in Nat \ {0} /\ e <= 64 /\ e - 1 \in Nat
  BY <1>3, <1>5
<1>7. z \in Int /\ Magnitude(z) \in Nat /\ e * Magnitude(z) <= (e - 1) * u /\ (f.y >= 0 => z >= 0)
  <2> DEFINE y == f.y
             d == e - 1
             t == d * y
  <2>1. d \in Nat /\ y \in Int /\ u = Magnitude(y) /\ d <= m /\ m \in Nat
    BY <1>1, <1>3, <1>5, <1>6 DEF u
  <2> HIDE DEF y, d
  <2>2. d * u <= m * u
    BY <1>2, <2>1, SMT
  <2>3. d * u \in Int /\ m * u \in Int
    BY <1>2, <2>1
  <2>4. d * Magnitude(y) <= MaxInt
    BY <1>3, <2>1, <2>2, <2>3, Numbers
  <2>5. z = Quot(t, e)
    BY <1>6, <2>1, <2>4, ScaledIs DEF d, y
  <2>6. /\ t \in Int /\ Magnitude(t) = d * u /\ (y >= 0 => t >= 0)
    <3>1. y >= 0 => t >= 0 /\ u = y
      BY <2>1, SMT DEF Magnitude
    <3>2. y < 0 => u = -y /\ d * u = -t /\ t <= 0
      BY <2>1, SMT DEF Magnitude
    <3>3. t \in Int
      BY <2>1
    <3> HIDE DEF t
    <3>4. y >= 0 => Magnitude(t) = d * u
      BY <3>1, <3>3 DEF Magnitude, t
    <3>5. y < 0 => Magnitude(t) = d * u
      BY <2>3, <3>2, <3>3 DEF Magnitude
    <3>6. QED BY <2>1, <3>1, <3>3, <3>4, <3>5
  <2> HIDE DEF t
  <2>7. /\ Quot(t, e) \in Int /\ Magnitude(Quot(t, e)) \in Nat
        /\ e * Magnitude(Quot(t, e)) <= Magnitude(t)
        /\ t >= 0 => Quot(t, e) >= 0
    BY <1>6, <2>6, QuotBound
  <2>8. QED BY <2>5, <2>6, <2>7 DEF d, y
<1>8. w \in Int /\ Magnitude(w) \in 0..N /\ (ns >= 0 /\ f.nsec_prev >= 0 => w >= 0)
  <2>1. /\ h \in Int /\ Magnitude(h) \in Nat /\ 2 * Magnitude(h) <= Magnitude(ns)
        /\ ns >= 0 => h >= 0
    BY <1>1, QuotBound
  <2>2. /\ k \in Int /\ Magnitude(k) \in Nat /\ 2 * Magnitude(k) <= Magnitude(f.nsec_prev)
        /\ f.nsec_prev >= 0 => k >= 0
    BY <1>1, QuotBound
  <2> HIDE DEF h, k
  <2>3. Magnitude(w) <= Magnitude(h) + Magnitude(k) /\ Magnitude(w) \in Nat
    BY <2>1, <2>2 DEF Magnitude
  <2> HIDE DEF w
  <2>4. Magnitude(w) \in 0..N
    BY <1>1, <1>2, <2>1, <2>2, <2>3
  <2>5. QED BY <2>1, <2>2, <2>4 DEF w
<1> HIDE DEF w, z
<1>9. x \in Int /\ Magnitude(x) \in Nat /\ e * Magnitude(x) <= Magnitude(w) /\ (w >= 0 => x >= 0)
  BY <1>6, <1>8, QuotBound
<1> HIDE DEF x
<1>10. Magnitude(z) + Magnitude(x) <= N
  <2> DEFINE p == Magnitude(z)
             q == Magnitude(x)
             b == p + q
  <2>1. p \in Nat /\ q \in Nat /\ e * p <= (e - 1) * u /\ e * q <= N
    <3>1. e * q <= Magnitude(w) /\ Magnitude(w) \in Int /\ e * q \in Int
      BY <1>6, <1>8, <1>9
    <3>2. QED BY <1>1, <1>7, <1>8, <1>9, <3>1
  <2> HIDE DEF p, q
  <2>2. (e - 1) * u <= (e - 1) * N /\ (e - 1) * N = e * N - N
    BY <1>1, <1>2, <1>6, SMT
  <2>3. e * b = e * p + e * q
    BY <1>6, <2>1, SMT
  <2>4. /\ e * p \in Int /\ e * q \in Int /\ (e - 1) * u \in Int
        /\ e * N \in Int /\ (e - 1) * N \in Int
    BY <1>1, <1>2, <1>6, <2>1
  <2>5. e * b < e * N + e /\ b \in Int
    BY <1>1, <1>6, <2>1, <2>2, <2>3, <2>4
  <2> HIDE DEF b
  <2>6. b <= N
    BY <1>1, <1>6, <2>5, Multiples
  <2>7. QED BY <2>6 DEF b, p, q
<1>11. z + x \in Fractions /\ z + x \in Int
  BY <1>1, <1>7, <1>9, <1>10, Numbers DEF Magnitude, Fractions, N
<1>12. f.y >= 0 /\ f.nsec_prev >= 0 /\ ns >= 0 => z + x >= 0
  BY <1>7, <1>8, <1>9
<1>13. e \in 0..2^S
  <2>1. 2^S = 64
    BY SMT DEF S
  <2>2. QED BY <1>6, <2>1
<1>14. QED BY <1>4, <1>11, <1>12, <1>13 DEF Filter
-----------------------------------------------------------------------------
(* The servo *)

\* The filter's value is a part of a second and, end to end, neither it nor the delay
\* is negative; a servo that measures peer to peer has no such delay.
Sound(k) ==
  /\ k \in ServoData /\ k.owd_filt.y \in Fractions
  /\ plant.mechanism = "E2E" =>
       /\ k.owd_filt.y >= 0 /\ k.owd_filt.nsec_prev >= 0
       /\ k.meanPathDelay.seconds = 0 /\ k.meanPathDelay.nanoseconds >= 0
  /\ plant.mechanism = "P2P" => k.meanPathDelay = NoTime

\* An offset that would make the servo step never outlives its Sync.
ServoInv == ServoTypeOK /\ Sound(c) /\ ~Steps(c)

\* What is assumed of the plant.
LEMMA PlantType ==
  ASSUME plant \in Plants
  PROVE  /\ plant.mechanism \in {"E2E", "P2P"} /\ plant.offset \in TimeInternal
         /\ plant.skew \in Int /\ plant.delay \in Nat /\ plant.late \subseteq Nat
         /\ plant.maxDelay \in Nat /\ plant.discardedPacketThreshold \in Nat
<1>1. SECOND \in Nat /\ ADJ_FREQ_MAX \in Nat
  BY Numbers
<1>2. QED BY <1>1, ServoAssumption

\* The time zero.
LEMMA Zero ==
  NoTime \in TimeInternal /\ NoTime.seconds = 0 /\ NoTime.nanoseconds = 0 /\ 0 \in Fractions
BY Numbers DEF NoTime, Time, TimeInternal, Fractions

\* The fields of the servo's data.
LEMMA DataFields ==
  ASSUME NEW k \in ServoData
  PROVE  /\ k.offsetFromMaster \in TimeInternal /\ k.meanPathDelay \in TimeInternal
         /\ k.peerMeanPathDelay \in TimeInternal /\ k.delayMS \in TimeInternal
         /\ k.ofm_prev \in Fractions /\ k.owd_filt \in Filter
         /\ k.observed_drift \in (-ADJ_FREQ_MAX)..ADJ_FREQ_MAX
         /\ k.offset_first_updated \in BOOLEAN /\ k.maxDelay \in Nat /\ k.discarded \in Int
BY DEF ServoData

\* The filter without its stiffness and its last measurement, or without the former.
LEMMA FilterRestarted ==
  ASSUME NEW f \in Filter
  PROVE  LET e == [f EXCEPT !.s_exp = 0, !.nsec_prev = 0]
             d == [f EXCEPT !.s_exp = 0]
         IN /\ e \in Filter /\ e.y = f.y /\ e.nsec_prev = 0
            /\ d \in Filter /\ d.y = f.y /\ d.nsec_prev = f.nsec_prev
<1>1. 0 \in 0..2^S
  <2>1. 2^S = 64
    BY SMT DEF S
  <2>2. QED BY <2>1
<1>2. 0 \in Fractions
  BY Zero
<1> DEFINE E == 0..2^S
<1>3. Filter = [y : Int, nsec_prev : Fractions, s_exp : E]
  BY DEF Filter
<1> HIDE DEF E
<1>4. 0 \in E
  BY <1>1 DEF E
<1>5. QED BY <1>2, <1>3, <1>4

\* initClock() leaves the servo sound, with nothing to step by.
LEMMA Restarted ==
  ASSUME NEW k, Sound(k)
  PROVE  Sound(initClock(k)) /\ ~Steps(initClock(k))
<1> DEFINE f == [k.owd_filt EXCEPT !.s_exp = 0]
           g == [k EXCEPT !.owd_filt = f, !.observed_drift = 0, !.offsetFromMaster = NoTime,
                          !.meanPathDelay = NoTime, !.delayMS = NoTime, !.ofm_prev = 0,
                          !.offset_first_updated = FALSE]
<1>1. initClock(k) = g
  BY DEF initClock
<1>2. k \in ServoData /\ k.owd_filt \in Filter
  BY DataFields DEF Sound
<1>3. /\ f \in Filter /\ f.y = k.owd_filt.y /\ f.nsec_prev = k.owd_filt.nsec_prev
  BY <1>2, FilterRestarted
<1> HIDE DEF f
<1>4. 0 \in (-ADJ_FREQ_MAX)..ADJ_FREQ_MAX
  BY Numbers
<1>5. /\ g \in ServoData /\ g.owd_filt = f /\ g.meanPathDelay = NoTime
      /\ g.offsetFromMaster = NoTime
  BY <1>2, <1>3, <1>4, Zero DEF ServoData
<1> HIDE DEF g
<1>6. Sound(g)
  BY <1>3, <1>5, Zero DEF Sound
<1>7. ~Steps(g)
  BY <1>5, Zero DEF Steps
<1>8. QED BY <1>1, <1>6, <1>7

\* What counting the discarded delays and tuning their limit leave alone.
LEMMA Tuned ==
  ASSUME plant \in Plants, NEW k, Sound(k), NEW n \in Int
  PROVE  /\ Sound(Counted(k, n)) /\ Sound(AutoTuned(k))
         /\ Counted(k, n).offsetFromMaster = k.offsetFromMaster
         /\ AutoTuned(k).offsetFromMaster = k.offsetFromMaster
<1> USE DEF Sound
<1>1. k \in ServoData /\ k.maxDelay \in Nat /\ k.discarded \in Int
  BY DataFields
<1>2. /\ Counted(k, n) \in ServoData
      /\ Counted(k, n).owd_filt = k.owd_filt
      /\ Counted(k, n).meanPathDelay = k.meanPathDelay
      /\ Counted(k, n).offsetFromMaster = k.offsetFromMaster
  BY <1>1 DEF Counted, ServoData
<1>3. /\ AutoTuned(k) \in ServoData
      /\ AutoTuned(k).owd_filt = k.owd_filt
      /\ AutoTuned(k).meanPathDelay = k.meanPathDelay
      /\ AutoTuned(k).offsetFromMaster = k.offsetFromMaster
  <2> DEFINE l == IF k.maxDelay \div 2 < plant.maxDelay THEN k.maxDelay ELSE k.maxDelay \div 2
             d == 2 * k.maxDelay
  <2>1. l \in Nat /\ d \in Nat
    BY <1>1
  <2>2. \/ AutoTuned(k) = [k EXCEPT !.discarded = 0, !.maxDelay = d]
        \/ AutoTuned(k) = [k EXCEPT !.discarded = 0, !.maxDelay = l]
        \/ AutoTuned(k) = k
    BY <1>1 DEF AutoTuned, ServoData
  <2> HIDE DEF l, d
  <2>3. ASSUME NEW m \in Nat
        PROVE  LET g == [k EXCEPT !.discarded = 0, !.maxDelay = m]
               IN /\ g \in ServoData /\ g.owd_filt = k.owd_filt
                  /\ g.meanPathDelay = k.meanPathDelay
                  /\ g.offsetFromMaster = k.offsetFromMaster
    <3> DEFINE h == [k EXCEPT !.discarded = 0]
               g == [h EXCEPT !.maxDelay = m]
    <3>1. /\ h \in ServoData /\ h.owd_filt = k.owd_filt
          /\ h.meanPathDelay = k.meanPathDelay
          /\ h.offsetFromMaster = k.offsetFromMaster
      BY <1>1 DEF ServoData
    <3>2. g = [k EXCEPT !.discarded = 0, !.maxDelay = m]
      BY <1>1 DEF ServoData
    <3> HIDE DEF h
    <3>3. /\ g \in ServoData /\ g.owd_filt = h.owd_filt
          /\ g.meanPathDelay = h.meanPathDelay
          /\ g.offsetFromMaster = h.offsetFromMaster
      BY <3>1 DEF ServoData
    <3>4. QED BY <3>1, <3>2, <3>3
  <2>4. QED BY <1>1, <2>1, <2>2, <2>3
<1>4. QED BY <1>2, <1>3

\* A measured delay leaves the servo sound.
LEMMA DelayUpdated ==
  ASSUME plant \in Plants, plant.mechanism = "E2E",
         NEW k, Sound(k), NEW sm \in TimeInternal
  PROVE  /\ Sound(updateDelay(k, sm))
         /\ updateDelay(k, sm).offsetFromMaster = k.offsetFromMaster
<1> DEFINE mean == div2Time(addTime(sm, k.delayMS))
           f == Filtered(k.owd_filt, mean.nanoseconds)
           d == Counted(k, -1)
           g == [d EXCEPT !.owd_filt = f, !.meanPathDelay = Nano(f.y)]
           h == [d EXCEPT !.owd_filt.s_exp = 0, !.owd_filt.nsec_prev = 0]
<1>1. mean \in TimeInternal /\ mean.nanoseconds \in Fractions
  BY DataFields, TimeArithmetic DEF Sound
<1>2. Sound(d) /\ d.offsetFromMaster = k.offsetFromMaster
  BY Tuned
<1>3. /\ f \in Filter /\ f.y \in Fractions /\ f.nsec_prev = mean.nanoseconds
      /\ mean.nanoseconds >= 0 => f.y >= 0
  <2>1. k.owd_filt \in Filter /\ k.owd_filt.y \in Fractions
        /\ k.owd_filt.y >= 0 /\ k.owd_filt.nsec_prev >= 0
    BY DataFields DEF Sound
  <2> HIDE DEF mean
  <2>2. QED BY <1>1, <2>1, FilteredSound
<1>4. /\ \/ updateDelay(k, sm) = AutoTuned(k)
         \/ updateDelay(k, sm) = AutoTuned(Counted(k, 1))
         \/ updateDelay(k, sm) = h
         \/ updateDelay(k, sm) = d
         \/ updateDelay(k, sm) = AutoTuned(g) /\ mean.nanoseconds >= 0
  <2>1. updateDelay(k, sm) =
          IF ~k.offset_first_updated THEN AutoTuned(k)
          ELSE IF Refused(k, sm) THEN AutoTuned(Counted(k, 1))
          ELSE IF mean.seconds # 0 THEN h
          ELSE IF mean.nanoseconds < 0 THEN d
          ELSE AutoTuned(g)
    BY DEF updateDelay
  <2>2. mean.nanoseconds \in Int
    BY <1>1, Numbers DEF Fractions
  <2> HIDE DEF mean, h, d, g
  <2>3. QED BY <2>1, <2>2
<1> HIDE DEF mean, f
<1>5. Sound(h) /\ h.offsetFromMaster = k.offsetFromMaster
  <2> DEFINE e == [d.owd_filt EXCEPT !.s_exp = 0, !.nsec_prev = 0]
  <2>1. d \in ServoData /\ d.owd_filt \in Filter
    BY <1>2, DataFields DEF Sound
  <2>2. e \in Filter /\ e.y = d.owd_filt.y /\ e.nsec_prev = 0
    BY <2>1, FilterRestarted
  <2>3. h = [d EXCEPT !.owd_filt = e]
    BY <2>1 DEF ServoData, Filter
  <2> HIDE DEF e, d, h
  <2>4. /\ h \in ServoData /\ h.owd_filt = e /\ h.meanPathDelay = d.meanPathDelay
        /\ h.offsetFromMaster = d.offsetFromMaster
    BY <2>1, <2>2, <2>3 DEF ServoData
  <2>5. QED BY <1>2, <2>2, <2>4 DEF Sound
<1>6. ASSUME mean.nanoseconds >= 0
      PROVE  Sound(g) /\ g.offsetFromMaster = k.offsetFromMaster
  <2>1. d \in ServoData
    BY <1>2 DEF Sound
  <2>2. f.y \in Int
    BY <1>3, Numbers DEF Fractions
  <2>3. /\ Nano(f.y) = Time(0, f.y) /\ Nano(f.y) \in TimeInternal
    BY <1>3, <2>2, Nanoseconds
  <2>4. Nano(f.y).seconds = 0 /\ Nano(f.y).nanoseconds = f.y
    BY <2>3 DEF Time
  <2> DEFINE n == Nano(f.y)
  <2> HIDE DEF d, n
  <2>5. g = [d EXCEPT !.owd_filt = f, !.meanPathDelay = n]
    BY DEF n
  <2>6. n \in TimeInternal /\ n.seconds = 0 /\ n.nanoseconds = f.y
    BY <2>3, <2>4 DEF n
  <2> HIDE DEF g
  <2>7. /\ g \in ServoData /\ g.owd_filt = f /\ g.meanPathDelay = n
        /\ g.offsetFromMaster = d.offsetFromMaster
    BY <1>3, <2>1, <2>5, <2>6 DEF ServoData
  <2>8. QED BY <1>2, <1>3, <1>6, <2>6, <2>7 DEF Sound
<1> HIDE DEF g, h, d
<1>7. QED BY <1>2, <1>4, <1>5, <1>6, Tuned

\* A measured peer delay leaves the servo sound.
LEMMA PeerDelayUpdated ==
  ASSUME plant \in Plants, plant.mechanism = "P2P",
         NEW k, Sound(k), NEW both \in TimeInternal
  PROVE  /\ Sound(updatePeerDelay(k, both))
         /\ updatePeerDelay(k, both).offsetFromMaster = k.offsetFromMaster
<1> DEFINE mean == div2Time(both)
           f == Filtered(k.owd_filt, mean.nanoseconds)
           e == [k.owd_filt EXCEPT !.s_exp = 0, !.nsec_prev = 0]
           n == Nano(f.y)
           g == [k EXCEPT !.owd_filt = f, !.peerMeanPathDelay = n]
           h == [k EXCEPT !.peerMeanPathDelay = mean, !.owd_filt = e]
<1>1. mean \in TimeInternal /\ mean.nanoseconds \in Fractions
  BY TimeArithmetic
<1>2. k \in ServoData /\ k.owd_filt \in Filter /\ k.owd_filt.y \in Fractions
  BY DataFields DEF Sound
<1>3. e \in Filter /\ e.y = k.owd_filt.y
  BY <1>2, FilterRestarted
<1>4. updatePeerDelay(k, both) = h \/ updatePeerDelay(k, both) = g
  <2> HIDE DEF mean
  <2>1. h = [k EXCEPT !.peerMeanPathDelay = mean,
                      !.owd_filt.s_exp = 0, !.owd_filt.nsec_prev = 0]
    BY <1>2 DEF ServoData, Filter
  <2> HIDE DEF h
  <2>2. QED BY <2>1 DEF updatePeerDelay, mean
<1> HIDE DEF mean
<1>5. f \in Filter /\ f.y \in Fractions
  BY <1>1, <1>2, FilteredSound
<1>6. n \in TimeInternal
  <2>1. f.y \in Int
    BY <1>5, Numbers DEF Fractions
  <2>2. QED BY <2>1, Nanoseconds
<1> HIDE DEF f, e, n
<1>7. /\ g \in ServoData /\ g.owd_filt = f /\ g.meanPathDelay = k.meanPathDelay
      /\ g.offsetFromMaster = k.offsetFromMaster
  BY <1>2, <1>5, <1>6 DEF ServoData
<1>8. /\ h \in ServoData /\ h.owd_filt = e /\ h.meanPathDelay = k.meanPathDelay
      /\ h.offsetFromMaster = k.offsetFromMaster
  BY <1>1, <1>2, <1>3 DEF ServoData
<1> HIDE DEF g, h
<1>9. Sound(g) /\ Sound(h)
  BY <1>2, <1>3, <1>5, <1>7, <1>8 DEF Sound
<1>10. QED BY <1>4, <1>7, <1>8, <1>9

\* An offset of a part of a second is half itself and half the one before.
LEMMA Averaged ==
  ASSUME NEW v \in Fractions, NEW w \in Fractions
  PROVE  LET t == Time(0, Quot(v, 2) + Quot(w, 2))
         IN t \in TimeInternal /\ t.seconds = 0
<1> DEFINE g == Quot(v, 2)
           h == Quot(w, 2)
           N == SECOND - 1
<1>1. v \in Int /\ w \in Int /\ N \in Nat /\ Magnitude(v) \in 0..N /\ Magnitude(w) \in 0..N
  BY Numbers DEF Fractions, Magnitude
<1> HIDE DEF N
<1>2. g \in Int /\ Magnitude(g) \in Nat /\ 2 * Magnitude(g) <= Magnitude(v)
  BY ONLY <1>1, 2 \in Nat \ {0}, QuotBound DEF g
<1>3. h \in Int /\ Magnitude(h) \in Nat /\ 2 * Magnitude(h) <= Magnitude(w)
  BY ONLY <1>1, 2 \in Nat \ {0}, QuotBound DEF h
<1> HIDE DEF g, h
<1>4. g + h \in Int /\ Magnitude(g + h) <= N
  BY <1>1, <1>2, <1>3 DEF Magnitude
<1>5. g + h \in Fractions
  BY <1>4, Numbers DEF Magnitude, Fractions, N
<1>6. QED BY <1>5, TimeType DEF g, h, Time

\* A new offset leaves the servo sound. It is none when the Sync is refused; one of
\* whole seconds is by how much the Sync came later than the delay that was measured.
LEMMA OffsetUpdated ==
  ASSUME plant \in Plants, NEW k, Sound(k), NEW ms \in TimeInternal
  PROVE  LET u == updateOffset(k, ms)
         IN /\ Sound(u)
            /\ \/ u = k
               \/ u.offsetFromMaster.seconds = 0
               \/ \E d \in {k.meanPathDelay, k.peerMeanPathDelay} :
                    u.offsetFromMaster = subTime(ms, d)
<1> DEFINE d == IF plant.mechanism = "P2P" THEN k.peerMeanPathDelay ELSE k.meanPathDelay
           o == subTime(ms, d)
           t == Time(0, Quot(o.nanoseconds, 2) + Quot(k.ofm_prev, 2))
           f == [k EXCEPT !.delayMS = ms, !.offset_first_updated = TRUE]
           g == [f EXCEPT !.offsetFromMaster = o, !.ofm_prev = 0]
           h == [f EXCEPT !.ofm_prev = o.nanoseconds, !.offsetFromMaster = t]
<1>1. k \in ServoData /\ d \in {k.meanPathDelay, k.peerMeanPathDelay}
  BY DEF Sound
<1>2. /\ d \in TimeInternal /\ k.ofm_prev \in Fractions
  BY <1>1, DataFields
<1>3. \/ updateOffset(k, ms) = k
      \/ updateOffset(k, ms) = g
      \/ updateOffset(k, ms) = h
  BY DEF updateOffset
<1> HIDE DEF d
<1>4. o \in TimeInternal /\ o.nanoseconds \in Fractions
  BY <1>2, TimeArithmetic
<1> HIDE DEF o
<1>5. t \in TimeInternal /\ t.seconds = 0
  BY <1>2, <1>4, Averaged
<1> HIDE DEF t
<1>6. f \in ServoData /\ f.owd_filt = k.owd_filt /\ f.meanPathDelay = k.meanPathDelay
  BY <1>1 DEF ServoData
<1> HIDE DEF f
<1>7. /\ g \in ServoData /\ g.owd_filt = f.owd_filt /\ g.meanPathDelay = f.meanPathDelay
      /\ g.offsetFromMaster = o
  BY <1>4, <1>6, Zero DEF ServoData
<1>8. /\ h \in ServoData /\ h.owd_filt = f.owd_filt /\ h.meanPathDelay = f.meanPathDelay
      /\ h.offsetFromMaster = t
  BY <1>4, <1>5, <1>6 DEF ServoData
<1> HIDE DEF g, h
<1>9. Sound(g) /\ Sound(h)
  BY <1>6, <1>7, <1>8 DEF Sound
<1>10. QED BY <1>1, <1>3, <1>5, <1>7, <1>8, <1>9 DEF o

\* The correction is a whole number of nanoseconds, and its integral part clamped.
LEMMA Corrected ==
  ASSUME NEW k \in ServoData
  PROVE  Correction(k) \in Int /\ Drift(k) \in (-ADJ_FREQ_MAX)..ADJ_FREQ_MAX
<1> DEFINE n == k.offsetFromMaster.nanoseconds
           R == (-ADJ_FREQ_MAX)..ADJ_FREQ_MAX
           p == Quot(n, AI)
           i == Quot(n, AP)
<1>1. n \in Int /\ k.observed_drift \in R /\ k.observed_drift \in Int
  <2>1. k.offsetFromMaster \in TimeInternal /\ k.observed_drift \in R
    BY DataFields
  <2>2. n \in Fractions
    BY <2>1, TimeArithmetic
  <2>3. QED BY <2>1, <2>2, Numbers DEF Fractions
<1>2. AI \in Nat \ {0} /\ AP \in Nat \ {0}
  BY SMT DEF AI, AP
<1>3. p \in Int /\ i \in Int
  BY <1>1, <1>2, Truncated
<1> DEFINE q == Clamped(k.observed_drift + p, ADJ_FREQ_MAX)
<1>4. q \in R
  BY <1>1, <1>3, ClampedType
<1>5. ADJ_FREQ_MAX \in R /\ -ADJ_FREQ_MAX \in R /\ \A r \in R : r \in Int
  BY Numbers
<1>6. Drift(k) \in {k.observed_drift, ADJ_FREQ_MAX, -ADJ_FREQ_MAX, q}
  BY DEF Drift
<1> HIDE DEF q, R, p, i
<1>7. Drift(k) \in R /\ Drift(k) \in Int
  BY <1>1, <1>4, <1>5, <1>6
<1>8. Correction(k) \in {0, -Drift(k), -(i + Drift(k))}
  BY DEF Correction, i
<1>9. QED BY <1>3, <1>7, <1>8 DEF R

-----------------------------------------------------------------------------
(* The invariant *)

\* It holds of a servo that starts.
LEMMA InitServoInv ==
  ServoInit => ServoInv
<1> SUFFICES ASSUME ServoInit PROVE ServoInv
  OBVIOUS
<1>1. plant \in Plants /\ theta \in TimeInternal /\ plant.maxDelay \in Nat
  BY PlantType DEF ServoInit
<1>2. ClearedFilter \in Filter /\ ClearedFilter.y = 0 /\ ClearedFilter.nsec_prev = 0
  <2>1. 2^S = 64
    BY SMT DEF S
  <2>2. QED BY <2>1, Zero DEF ClearedFilter, Filter
<1>3. 0 \in (-ADJ_FREQ_MAX)..ADJ_FREQ_MAX
  BY Numbers
<1>4. /\ c \in ServoData /\ c.owd_filt = ClearedFilter /\ c.meanPathDelay = NoTime
      /\ c.offsetFromMaster = NoTime
  BY <1>1, <1>2, <1>3, Zero DEF ServoInit, ServoData
<1>5. Sound(c) /\ ~Steps(c)
  BY <1>2, <1>4, Zero DEF Sound, Steps
<1>6. rounds \in 0..Rounds /\ faults \in 0..MaxFaults
  BY ServoAssumption DEF ServoInit
<1>7. QED BY <1>1, <1>4, <1>5, <1>6 DEF ServoInit, ServoInv, ServoTypeOK, ServoPhases

\* A fault keeps to its bound, and a lateness is a number of nanoseconds.
LEMMA LateType ==
  ASSUME ServoInv, NEW by \in {0} \cup plant.late
  PROVE  /\ by \in Nat /\ plant.delay + by \in Nat
         /\ Fault \/ Late(by) \/ UNCHANGED faults => faults' \in 0..MaxFaults
<1>1. plant.delay \in Nat /\ plant.late \subseteq Nat
  BY PlantType DEF ServoInv, ServoTypeOK
<1>2. faults \in 0..MaxFaults /\ MaxFaults \in Nat
  BY ServoAssumption DEF ServoInv, ServoTypeOK
<1>3. QED BY <1>1, <1>2 DEF Fault, Late

\* What a servo that does not change but for its drift keeps.
LEMMA Drifted ==
  ASSUME NEW k, Sound(k), ~Steps(k), NEW r \in (-ADJ_FREQ_MAX)..ADJ_FREQ_MAX
  PROVE  LET g == [k EXCEPT !.observed_drift = r] IN Sound(g) /\ ~Steps(g)
<1> DEFINE g == [k EXCEPT !.observed_drift = r]
<1>1. k \in ServoData
  BY DEF Sound
<1>2. /\ g \in ServoData /\ g.owd_filt = k.owd_filt /\ g.meanPathDelay = k.meanPathDelay
      /\ g.offsetFromMaster = k.offsetFromMaster
  BY <1>1 DEF ServoData
<1> HIDE DEF g
<1>3. Sound(g)
  BY <1>2 DEF Sound
<1>4. ~Steps(g)
  BY <1>2 DEF Steps, TooFar
<1>5. QED BY <1>3, <1>4 DEF g

\* As long as the plant and the servo's data stay as they are, so does what is said
\* about them.
LEMMA SoundStays ==
  ASSUME Sound(c), ~Steps(c), UNCHANGED <<plant, c>>
  PROVE  Sound(c)' /\ (~Steps(c))'
BY DEF Sound, Steps, TooFar

\* The same of what the servo's data become.
LEMMA SoundNext ==
  ASSUME NEW k, Sound(k), ~Steps(k), c' = k, plant' = plant
  PROVE  Sound(c)' /\ (~Steps(c))'
BY DEF Sound, Steps, TooFar

\* A Sync keeps the invariant, whether or not it makes the servo step.
LEMMA SyncKeeps ==
  ASSUME ServoInv, NEW by \in {0} \cup plant.late, Sync(by)
  PROVE  ServoInv'
<1> DEFINE ms == addTime(theta, Nano(plant.delay + by))
           k == updateOffset(c, ms)
<1>1. /\ plant \in Plants /\ theta \in TimeInternal /\ asked \subseteq TimeInternal
      /\ Sound(c) /\ ~Steps(c) /\ rounds \in 0..Rounds
  BY DEF ServoInv, ServoTypeOK
<1>2. plant.delay + by \in Nat /\ faults' \in 0..MaxFaults
  BY LateType DEF Sync
<1>3. ms \in TimeInternal
  <2>1. Nano(plant.delay + by) \in TimeInternal
    BY <1>2, Nanoseconds
  <2>2. QED BY <1>1, <2>1, TimeArithmetic
<1>4. /\ \/ /\ Steps(k)
            /\ \E lost \in {0, 999} : theta' = Stepped(k, lost)
            /\ c' = initClock(k)
            /\ asked' = {}
            /\ phase' = "reset"
         \/ /\ ~Steps(k)
            /\ theta' = addTime(theta, Nano(Correction(k)))
            /\ c' = [k EXCEPT !.observed_drift = Drift(k)]
            /\ asked' = asked
            /\ phase' = IF asked = {} THEN "ask" ELSE "answer"
      /\ plant' = plant /\ rounds' = rounds
  BY DEF Sync
<1> HIDE DEF ms
<1>5. Sound(k)
  BY <1>1, <1>3, OffsetUpdated
<1>6. k \in ServoData /\ k.offsetFromMaster \in TimeInternal
  BY <1>5, DataFields DEF Sound
<1> HIDE DEF k
<1>7. phase' \in ServoPhases
  BY <1>4 DEF ServoPhases
<1>8. CASE Steps(k)
  <2> DEFINE n == initClock(k)
  <2>1. Sound(n) /\ ~Steps(n)
    BY <1>5, Restarted
  <2>2. c' = n /\ asked' = {}
    BY <1>4, <1>8
  <2> HIDE DEF n
  <2>3. Sound(c)' /\ (~Steps(c))'
    BY <1>4, <2>1, <2>2, SoundNext
  <2>4. theta' \in TimeInternal
    <3>1. PICK lost \in {0, 999} : theta' = Stepped(k, lost)
      BY <1>4, <1>8
    <3> DEFINE o == k.offsetFromMaster
               s == subTime(theta, o)
               z == Nano(lost)
    <3>2. theta' = subTime(s, z) /\ o \in TimeInternal
      BY <1>6, <3>1 DEF Stepped
    <3>3. z \in TimeInternal
      BY Nanoseconds
    <3> HIDE DEF o, z
    <3>4. s \in TimeInternal
      BY <1>1, <3>2, TimeArithmetic
    <3> HIDE DEF s
    <3>5. QED BY <3>2, <3>3, <3>4, TimeArithmetic
  <2>5. c' \in ServoData
    BY <2>1, <2>2 DEF Sound
  <2>6. QED BY <1>1, <1>2, <1>4, <1>7, <2>2, <2>3, <2>4, <2>5 DEF ServoInv, ServoTypeOK
<1>9. CASE ~Steps(k)
  <2> DEFINE r == Drift(k)
             n == [k EXCEPT !.observed_drift = r]
             v == Correction(k)
  <2>1. r \in (-ADJ_FREQ_MAX)..ADJ_FREQ_MAX /\ v \in Int
    BY <1>6, Corrected
  <2>2. c' = n /\ asked' = asked /\ theta' = addTime(theta, Nano(v))
    BY <1>4, <1>9
  <2> HIDE DEF r, v
  <2>3. Sound(n) /\ ~Steps(n)
    BY <1>5, <1>9, <2>1, Drifted
  <2> HIDE DEF n
  <2>4. Sound(c)' /\ (~Steps(c))'
    BY <1>4, <2>2, <2>3, SoundNext
  <2>5. theta' \in TimeInternal
    <3>1. Nano(v) \in TimeInternal
      BY <2>1, Nanoseconds
    <3>2. QED BY <1>1, <2>2, <3>1, TimeArithmetic
  <2>6. c' \in ServoData
    BY <2>2, <2>3 DEF Sound
  <2>7. QED BY <1>1, <1>2, <1>4, <1>7, <2>2, <2>4, <2>5, <2>6 DEF ServoInv, ServoTypeOK
<1>10. QED BY <1>8, <1>9

\* So does the answer to a delay request, in either mechanism.
LEMMA AnswerKeeps ==
  ASSUME ServoInv, NEW by \in {0} \cup plant.late, Answer(by)
  PROVE  ServoInv'
<1>1. /\ plant \in Plants /\ theta \in TimeInternal /\ asked \subseteq TimeInternal
      /\ Sound(c) /\ ~Steps(c) /\ rounds \in 0..Rounds
  BY DEF ServoInv, ServoTypeOK
<1>2. /\ plant.delay + by \in Nat /\ plant.delay \in Nat /\ faults' \in 0..MaxFaults
      /\ plant.mechanism \in {"E2E", "P2P"}
  BY <1>1, LateType, PlantType DEF Answer
<1>3. PICK then \in asked :
        c' = IF plant.mechanism = "E2E"
             THEN updateDelay(c, subTime(Nano(plant.delay + by), then))
             ELSE updatePeerDelay(c, addTime(subTime(theta, then),
                                             addTime(Nano(plant.delay), Nano(plant.delay + by))))
  BY DEF Answer
<1>4. UNCHANGED <<plant, theta, rounds>> /\ asked' = {} /\ phase' \in ServoPhases
  BY DEF Answer, ServoPhases
<1> DEFINE one == Nano(plant.delay)
           other == Nano(plant.delay + by)
<1>5. one \in TimeInternal /\ other \in TimeInternal
  BY <1>2, Nanoseconds
<1> HIDE DEF one, other
<1>6. /\ subTime(other, then) \in TimeInternal /\ subTime(theta, then) \in TimeInternal
      /\ addTime(one, other) \in TimeInternal
  BY <1>1, <1>5, TimeArithmetic
<1>7. addTime(subTime(theta, then), addTime(one, other)) \in TimeInternal
  BY <1>6, TimeArithmetic
<1> DEFINE sm == subTime(other, then)
           both == addTime(subTime(theta, then), addTime(one, other))
<1>8. c' = IF plant.mechanism = "E2E" THEN updateDelay(c, sm) ELSE updatePeerDelay(c, both)
  BY <1>3 DEF one, other
<1> HIDE DEF sm, both
<1>9. Sound(c') /\ c'.offsetFromMaster = c.offsetFromMaster
  <2>1. CASE plant.mechanism = "E2E"
    BY <1>1, <1>6, <1>8, <2>1, DelayUpdated DEF sm
  <2>2. CASE plant.mechanism = "P2P"
    BY <1>1, <1>7, <1>8, <2>2, PeerDelayUpdated DEF both
  <2>3. QED BY <1>2, <2>1, <2>2
<1>10. Sound(c)' /\ (~Steps(c))' /\ c' \in ServoData
  BY <1>1, <1>4, <1>9 DEF Sound, Steps, TooFar
<1>11. QED BY <1>1, <1>2, <1>4, <1>10 DEF ServoInv, ServoTypeOK

\* And so does every step.
LEMMA NextServoInv ==
  ServoInv /\ [ServoNext]_servoVars => ServoInv'
<1> SUFFICES ASSUME ServoInv, [ServoNext]_servoVars PROVE ServoInv'
  OBVIOUS
<1>1. /\ plant \in Plants /\ theta \in TimeInternal /\ asked \subseteq TimeInternal
      /\ c \in ServoData /\ Sound(c) /\ ~Steps(c)
      /\ rounds \in 0..Rounds /\ Rounds \in Nat
      /\ faults \in 0..MaxFaults /\ MaxFaults \in Nat
      /\ phase \in ServoPhases
  BY ServoAssumption DEF ServoInv, ServoTypeOK
<1>2. CASE Second
  <2>1. theta' \in TimeInternal
    <3>1. Nano(plant.skew) \in TimeInternal
      BY <1>1, PlantType, Nanoseconds
    <3>2. QED BY <1>1, <1>2, <3>1, TimeArithmetic DEF Second
  <2>2. rounds' \in 0..Rounds
    <3> DEFINE n == rounds + 1
    <3>1. n \in 0..(Rounds + 1) /\ rounds' = Min({n, Rounds})
      BY <1>1, <1>2 DEF Second
    <3> HIDE DEF n
    <3>2. Min({n, Rounds}) \in {n, Rounds} /\ Min({n, Rounds}) <= Rounds
      BY <1>1, <3>1 DEF Min
    <3>3. QED BY <1>1, <3>1, <3>2
  <2>3. UNCHANGED <<plant, c, asked, faults>> /\ phase' \in ServoPhases
    BY <1>2 DEF Second, ServoPhases
  <2>4. Sound(c)' /\ (~Steps(c))'
    BY <1>1, <2>3, SoundStays
  <2>5. QED BY <1>1, <2>1, <2>2, <2>3, <2>4 DEF ServoInv, ServoTypeOK
<1>3. ASSUME NEW by \in {0} \cup plant.late, Sync(by) PROVE ServoInv'
  BY <1>3, SyncKeeps
<1>4. ASSUME NEW by \in {0} \cup plant.late, Answer(by) PROVE ServoInv'
  BY <1>4, AnswerKeeps
<1>5. CASE Reset
  <2> DEFINE k == [c EXCEPT !.peerMeanPathDelay = NoTime]
             n == initClock(k)
  <2>1. /\ k \in ServoData /\ k.owd_filt = c.owd_filt /\ k.meanPathDelay = c.meanPathDelay
    BY <1>1, Zero DEF ServoData
  <2>2. UNCHANGED <<plant, theta, asked, rounds, faults>> /\ c' = n /\ phase' \in ServoPhases
    BY <1>5 DEF Reset, ServoPhases
  <2> HIDE DEF k
  <2>3. Sound(k)
    BY <1>1, <2>1 DEF Sound
  <2>4. Sound(n) /\ ~Steps(n)
    BY <2>3, Restarted
  <2> HIDE DEF n
  <2>5. Sound(c)' /\ (~Steps(c))' /\ c' \in ServoData
    BY <2>2, <2>4, SoundNext DEF Sound
  <2>6. QED BY <1>1, <2>2, <2>5 DEF ServoInv, ServoTypeOK
<1>6. CASE Ask
  <2>1. /\ UNCHANGED <<plant, theta, c, rounds>> /\ asked' \subseteq TimeInternal
        /\ phase' \in ServoPhases
    BY <1>1, <1>6 DEF Ask, ServoPhases
  <2>2. faults' \in 0..MaxFaults
    BY <1>1, <1>6 DEF Ask, Fault
  <2>3. Sound(c)' /\ (~Steps(c))'
    BY <1>1, <2>1, SoundStays
  <2>4. QED BY <1>1, <2>1, <2>2, <2>3 DEF ServoInv, ServoTypeOK
<1>7. CASE Lose
  <2>1. /\ UNCHANGED <<plant, theta, c, rounds>> /\ asked' \subseteq TimeInternal
        /\ phase' \in ServoPhases
    BY <1>1, <1>7 DEF Lose, ServoPhases
  <2>2. faults' \in 0..MaxFaults
    BY <1>1, <1>7 DEF Lose, Fault
  <2>3. Sound(c)' /\ (~Steps(c))'
    BY <1>1, <2>1, SoundStays
  <2>4. QED BY <1>1, <2>1, <2>2, <2>3 DEF ServoInv, ServoTypeOK
<1>8. CASE UNCHANGED servoVars
  <2>1. UNCHANGED <<plant, theta, c, asked, phase, rounds, faults>>
    BY <1>8 DEF servoVars
  <2>2. Sound(c)' /\ (~Steps(c))'
    BY <1>1, <2>1, SoundStays
  <2>3. QED BY <1>1, <2>1, <2>2 DEF ServoInv, ServoTypeOK
<1>9. QED BY <1>2, <1>3, <1>4, <1>5, <1>6, <1>7, <1>8 DEF ServoNext

\* What holds of the servo, in every reachable state.
LEMMA ServoInvariant ==
  ServoSpec => []ServoInv
BY InitServoInv, NextServoInv, PTL DEF ServoSpec

-----------------------------------------------------------------------------
(* The theorems *)

\* Every time has one sign in both fields, the accumulator of the integral part
\* is clamped and the filter never too stiff (servo.c:229, servo.c:424), for every
\* clock, network and option.
THEOREM ServoTypeCorrect ==
  ServoSpec => []ServoTypeOK
<1>1. ServoInv => ServoTypeOK
  BY DEF ServoInv
<1>2. QED BY <1>1, ServoInvariant, PTL

\* Whatever is lost, late or overtaken, the delay that an end to end slave works with
\* is not negative and below a second: the product of its filter does not overflow.
THEOREM DelayStaysBounded ==
  ServoSpec => []DelayBounded
<1>1. ServoInv => DelayBounded
  <2> SUFFICES ASSUME ServoInv PROVE DelayBounded
    OBVIOUS
  <2>1. Sound(c) /\ plant.mechanism \in {"E2E", "P2P"}
    BY PlantType DEF ServoInv, ServoTypeOK
  <2>2. QED BY <2>1, Zero DEF Sound, DelayBounded
<1>2. QED BY <1>1, ServoInvariant, PTL

\* The sign of a time is that of its value.
LEMMA Signs ==
  ASSUME NEW x \in TimeInternal
  PROVE  /\ Value(x) >= 0 => x.seconds >= 0 /\ x.nanoseconds >= 0
         /\ x.seconds >= 0 /\ x.nanoseconds >= 0 => Value(x) >= 0
<1> DEFINE n == x.nanoseconds
           s == x.seconds
           M == SECOND
<1>1. s \in Int /\ n \in Fractions /\ M \in Nat \ {0} /\ Value(x) = s * M + n
  BY TimeArithmetic, Numbers DEF Value
<1>2. (s >= 0 \/ n <= 0) /\ (s <= 0 \/ n >= 0) /\ n \in Int /\ n > -M /\ n < M
  BY <1>1, Numbers DEF TimeInternal, Fractions
<1> HIDE DEF n, s, M
<1>3. s < 0 => s * M < 0
  BY <1>1, SMT
<1>4. s >= 0 => s * M >= 0
  BY <1>1, SMT
<1>5. s = 0 => s * M = 0
  BY <1>1, SMT
<1>6. s * M \in Int
  BY <1>1
<1>7. QED BY <1>1, <1>2, <1>3, <1>4, <1>5, <1>6 DEF n, s

\* Times that are not negative are compared as their values are.
LEMMA Compared ==
  ASSUME NEW x \in TimeInternal, NEW y \in TimeInternal,
         Value(x) >= 0, Value(y) >= 0, Value(x) <= Value(y)
  PROVE  NotAbove(x, y)
<1> DEFINE n == x.nanoseconds
           m == y.nanoseconds
           s == x.seconds
           t == y.seconds
           M == SECOND
<1>1. /\ s \in Int /\ t \in Int /\ M \in Nat \ {0} /\ n \in 0..(M - 1) /\ m \in 0..(M - 1)
      /\ Value(x) = s * M + n /\ Value(y) = t * M + m
  <2>1. /\ n \in Fractions /\ m \in Fractions /\ s \in Int /\ t \in Int
        /\ n >= 0 /\ m >= 0
    BY Signs, TimeArithmetic
  <2>2. n \in 0..(M - 1) /\ m \in 0..(M - 1) /\ M \in Nat \ {0}
    BY <2>1, Numbers DEF Fractions
  <2>3. QED BY <2>1, <2>2 DEF Value
<1> HIDE DEF n, m, s, t, M
<1>2. M * s = s * M /\ M * t = t * M /\ s * M \in Int /\ t * M \in Int
  BY <1>1, SMT
<1>3. M * s < M * t + M
  BY <1>1, <1>2
<1>4. s <= t
  BY <1>1, <1>3, Multiples
<1>5. s = t => n <= m
  BY <1>1, <1>2
<1>6. QED BY <1>1, <1>4, <1>5 DEF NotAbove, n, m, s, t

\* The time without its sign.
LEMMA PositiveIs ==
  ASSUME NEW x \in TimeInternal
  PROVE  Positive(x) \in TimeInternal /\ Value(Positive(x)) = Magnitude(Value(x))
<1> DEFINE n == x.nanoseconds
           s == x.seconds
           M == SECOND
<1>1. s \in Int /\ n \in Fractions /\ M \in Nat \ {0} /\ Value(x) = s * M + n
  BY TimeArithmetic, Numbers DEF Value
<1>2. (s >= 0 \/ n <= 0) /\ (s <= 0 \/ n >= 0) /\ n \in Int
  BY <1>1, Numbers DEF TimeInternal, Fractions
<1>3. Magnitude(s) \in Nat /\ Magnitude(n) \in Nat /\ Magnitude(n) \in Fractions
  BY <1>1, <1>2, Numbers DEF Magnitude, Fractions
<1>4. /\ Positive(x) \in TimeInternal
      /\ Value(Positive(x)) = Magnitude(s) * M + Magnitude(n)
  BY <1>3, TimeType DEF Positive
<1> HIDE DEF n, s, M
<1>5. Magnitude(s) * M + Magnitude(n) = Magnitude(s * M + n)
  <2> DEFINE q == s * M
  <2>1. q \in Int
    BY <1>1
  <2>2. s > 0 => q > 0 /\ Magnitude(s) * M = q
    BY <1>1, SMT DEF Magnitude
  <2>3. s < 0 => q < 0 /\ Magnitude(s) * M = -q
    BY <1>1, SMT DEF Magnitude
  <2>4. s = 0 => q = 0 /\ Magnitude(s) * M = 0
    BY <1>1, SMT DEF Magnitude
  <2> DEFINE r == Magnitude(s) * M
  <2> HIDE DEF q, r
  <2>5. \/ r = q /\ q >= 0 /\ n >= 0
        \/ r = -q /\ q <= 0 /\ n <= 0
        \/ r = 0 /\ q = 0
    BY <1>1, <1>2, <2>1, <2>2, <2>3, <2>4 DEF r
  <2>6. r + Magnitude(n) = Magnitude(q + n)
    BY <1>2, <2>1, <2>5 DEF Magnitude
  <2>7. QED BY <2>6 DEF q, r
<1>6. QED BY <1>1, <1>4, <1>5

\* A step of the clock leaves it off the master's by what the Sync was late, the error of
\* the delay it was corrected by and what setTime() cuts off (servo.c:314).
LEMMA StepLandsNear ==
  ASSUME ServoInv, NEW by \in {0} \cup plant.late, Sync(by), phase' = "reset"
  PROVE  NotAbove(Positive(theta'), Miss(by))
<1> DEFINE late == plant.delay + by
           wait == Nano(late)
           ms == addTime(theta, wait)
           k == updateOffset(c, ms)
           o == k.offsetFromMaster
<1>1. plant \in Plants /\ theta \in TimeInternal /\ Sound(c) /\ ~Steps(c)
  BY DEF ServoInv, ServoTypeOK
<1>2. late \in Nat
  BY LateType
<1>3. Steps(k) /\ \E lost \in {0, 999} : theta' = Stepped(k, lost)
  BY DEF Sync
<1>4. PICK lost \in {0, 999} : theta' = Stepped(k, lost)
  BY <1>3
<1> HIDE DEF late
<1>5. wait \in TimeInternal /\ Value(wait) = late
  BY <1>2, Nanoseconds
<1> HIDE DEF wait
<1>6. ms \in TimeInternal /\ Value(ms) = Value(theta) + late
  BY <1>1, <1>5, TimeArithmetic
<1>7. PICK d \in {c.meanPathDelay, c.peerMeanPathDelay} : o = subTime(ms, d)
  <2> HIDE DEF ms
  <2>1. \/ k = c
        \/ o.seconds = 0
        \/ \E d \in {c.meanPathDelay, c.peerMeanPathDelay} : o = subTime(ms, d)
    BY <1>1, <1>6, OffsetUpdated
  <2> HIDE DEF k
  <2>2. o.seconds # 0 /\ k # c
    BY <1>1, <1>3 DEF Steps
  <2>3. QED BY <2>1, <2>2
<1> HIDE DEF ms
<1> DEFINE e == c.meanPathDelay
           f == c.peerMeanPathDelay
<1>8. e \in TimeInternal /\ f \in TimeInternal /\ d \in {e, f}
  BY <1>1, <1>7, DataFields DEF Sound
<1>9. theta' = subTime(subTime(theta, o), Nano(lost))
  BY <1>4 DEF Stepped
<1>10. o \in TimeInternal /\ Value(o) = Value(theta) + late - Value(d)
  <2>1. d \in TimeInternal
    BY <1>8
  <2>2. o \in TimeInternal /\ Value(o) = Value(ms) - Value(d)
    BY ONLY <1>6, <1>7, <2>1, TimeArithmetic
  <2>3. Value(theta) \in Int /\ Value(d) \in Int
    BY <1>1, <2>1, TimeArithmetic
  <2>4. QED BY <1>2, <1>6, <2>2, <2>3
<1> HIDE DEF o, k, e, f
<1> DEFINE s == subTime(theta, o)
           z == Nano(lost)
<1>11. z \in TimeInternal /\ Value(z) = lost
  BY Nanoseconds
<1>12. s \in TimeInternal /\ Value(s) = Value(theta) - Value(o)
  BY <1>1, <1>10, TimeArithmetic
<1> HIDE DEF s, z
<1>13. theta' \in TimeInternal /\ Value(theta') = Value(s) - Value(z)
  BY <1>9, <1>11, <1>12, TimeArithmetic DEF s, z
<1> DEFINE vt == Value(theta)
           vd == Value(d)
           ve == Value(e)
           vf == Value(f)
           far == Magnitude(ve) + Magnitude(vf) + 1000 + late
<1>14. vt \in Int /\ vd \in Int /\ ve \in Int /\ vf \in Int /\ vd \in {ve, vf}
  <2>1. \A y \in TimeInternal : Value(y) \in Int
    BY TimeArithmetic
  <2>2. d \in TimeInternal
    BY <1>8
  <2>3. QED BY <1>1, <1>8, <2>1, <2>2
<1>15. Value(theta') = vd - late - lost
  BY <1>2, <1>10, <1>11, <1>12, <1>13, <1>14
<1> DEFINE p == Positive(e)
           q == Positive(f)
           x == addTime(p, q)
           u == Nano(1000)
           w == addTime(x, u)
<1>16. /\ p \in TimeInternal /\ Value(p) = Magnitude(ve)
       /\ q \in TimeInternal /\ Value(q) = Magnitude(vf)
  BY <1>8, PositiveIs
<1>17. u \in TimeInternal /\ Value(u) = 1000
  BY Nanoseconds
<1>18. Miss(by) = addTime(wait, w)
  BY DEF Miss, wait, late, e, f
<1> HIDE DEF p, q, u
<1>19. x \in TimeInternal /\ Value(x) = Magnitude(ve) + Magnitude(vf)
  BY <1>16, TimeArithmetic
<1> HIDE DEF x
<1>20. w \in TimeInternal /\ Value(w) = Magnitude(ve) + Magnitude(vf) + 1000
  BY <1>17, <1>19, TimeArithmetic
<1> HIDE DEF w, vt, vd, ve, vf
<1>21. Magnitude(ve) \in Nat /\ Magnitude(vf) \in Nat
  BY <1>14 DEF Magnitude
<1>22. Miss(by) \in TimeInternal /\ Value(Miss(by)) = far
  BY <1>2, <1>5, <1>18, <1>20, <1>21, TimeArithmetic
<1>23. Magnitude(vd - late - lost) <= far /\ far >= 0 /\ Magnitude(vd - late - lost) >= 0
  BY <1>2, <1>14 DEF Magnitude
<1> HIDE DEF far
<1>24. /\ Positive(theta') \in TimeInternal
       /\ Value(Positive(theta')) = Magnitude(vd - late - lost)
  BY <1>13, <1>15, PositiveIs
<1>25. QED BY <1>22, <1>23, <1>24, Compared

\* A step leaves the clock no further from the master's than the network and what was
\* measured of it make unavoidable (servo_perform_clock_step()), for every clock, network
\* and option, whatever was lost or late before.
THEOREM StepsLand ==
  ServoSpec => StepLands
<1> DEFINE A == phase = "sync" /\ phase' = "reset" =>
                  \E by \in {0} \cup plant.late : NotAbove(Positive(theta'), Miss(by))
<1>1. ServoInv /\ [ServoNext]_servoVars => [A]_servoVars
  <2> SUFFICES ASSUME ServoInv, ServoNext, phase = "sync", phase' = "reset"
               PROVE  \E by \in {0} \cup plant.late : NotAbove(Positive(theta'), Miss(by))
    OBVIOUS
  <2>1. PICK by \in {0} \cup plant.late : Sync(by)
    BY DEF ServoNext, Second, Reset, Ask, Lose, Answer
  <2>2. QED BY <2>1, StepLandsNear
<1>2. QED BY <1>1, ServoInvariant, PTL DEF ServoSpec, StepLands

=============================================================================

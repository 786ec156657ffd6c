----------------------- MODULE EdgeMeasurement_proofs -----------------------
(***************************************************************************)
(* Theorems about the measurement of the edges, for every length of the    *)
(* counter, of the ticks and of the period: no edge is lost, a stamp is    *)
(* wrong by a wrap of TAR at most, and the reported differences by that.   *)
(*                                                                         *)
(* The argument is about how long an interrupt waits.  From the moment     *)
(* main() is interrupted until it goes on, each of the three interrupts    *)
(* comes once at most, as the routines together are over before a tick or  *)
(* an overflow could repeat; so now - woken is what the routines took that *)
(* have run since.  What a stamp is follows from what TAIFG and the        *)
(* overflows counted so far are when it is read, and what the collector    *)
(* makes of the stamps is carried along from one stamp to the next.        *)
(***************************************************************************)
EXTENDS EdgeMeasurement, FiniteSetTheorems, TLAPS

-----------------------------------------------------------------------------
(* Arithmetic *)

\* Division with remainder, and that it is unique.
LEMMA Division ==
  ASSUME NEW n \in Int, NEW m \in Nat \ {0}
  PROVE  /\ n \div m \in Int /\ n % m \in 0..(m - 1)
         /\ n = m * (n \div m) + (n % m)
         /\ n >= 0 => n \div m >= 0
BY SMTT(30)

LEMMA Multiples ==
  ASSUME NEW m \in Nat \ {0}, NEW a \in Int, NEW b \in Int, m * a < m * b + m
  PROVE  a <= b
<1>1. ASSUME a >= b + 1 PROVE FALSE
  <2>1. PICK d \in Nat : a = b + 1 + d
    BY <1>1
  <2>2. m * a = m * b + m + m * d
    BY <2>1, SMT
  <2>3. m * d >= 0
    BY SMT
  <2>4. m * a \in Int /\ m * b \in Int /\ m * d \in Int
    OBVIOUS
  <2>5. QED BY <2>2, <2>3, <2>4
<1>2. QED BY <1>1

LEMMA Quotient ==
  ASSUME NEW m \in Nat \ {0}, NEW q \in Int, NEW r \in 0..(m - 1), NEW n \in Int, n = m * q + r
  PROVE  n \div m = q /\ n % m = r
<1> DEFINE p == n \div m
<1>1. p \in Int /\ n % m \in 0..(m - 1) /\ n = m * p + (n % m)
  BY Division
<1> HIDE DEF p
<1>2. m * p \in Int /\ m * q \in Int
  BY <1>1
<1>3. p <= q
  BY <1>1, <1>2, Multiples
<1>4. q <= p
  BY <1>1, <1>2, Multiples
<1>5. p = q
  BY <1>1, <1>3, <1>4
<1>6. QED BY <1>1, <1>2, <1>5 DEF p

\* The counter of 32 bits is made of the overflows and TAR.
LEMMA Composed ==
  ASSUME NEW n \in Nat
  PROVE  ((n \div Wrap) % Words) * Wrap + (n % Wrap) = n % Values
<1> DEFINE h == n \div Wrap
           l == n % Wrap
           q == h \div Words
           k == h % Words
<1>1. Wrap \in Nat \ {0} /\ Words \in Nat \ {0} /\ Values \in Nat \ {0}
  BY AcceptorAssumption DEF Values
<1>2. h \in Int /\ l \in 0..(Wrap - 1) /\ n = Wrap * h + l
  BY <1>1, Division
<1>3. q \in Int /\ k \in 0..(Words - 1) /\ h = Words * q + k
  BY <1>1, <1>2, Division
<1> HIDE DEF h, l, q, k
<1>4. n = Values * q + (k * Wrap + l)
  <2>1. n = Wrap * (Words * q + k) + l
    BY <1>2, <1>3
  <2>2. Wrap * (Words * q + k) = (Wrap * Words) * q + k * Wrap
    BY <1>1, <1>3, SMT
  <2>3. (Wrap * Words) * q \in Int /\ k * Wrap \in Int
    BY <1>1, <1>3
  <2>4. QED BY <2>1, <2>2, <2>3, <1>2 DEF Values
<1>5. k * Wrap + l \in 0..(Values - 1)
  <2>1. k * Wrap <= (Words - 1) * Wrap /\ k * Wrap >= 0
    BY <1>1, <1>3, SMT
  <2>2. (Words - 1) * Wrap = Values - Wrap
    BY <1>1, SMT DEF Values
  <2>3. k * Wrap \in Int
    BY <1>1, <1>3
  <2>4. QED BY <2>1, <2>2, <2>3, <1>1, <1>2
<1>6. n % Values = k * Wrap + l
  <2> DEFINE r == k * Wrap + l
  <2>1. r \in 0..(Values - 1) /\ n = Values * q + r
    BY <1>4, <1>5
  <2> HIDE DEF r
  <2>2. n % Values = r
    BY <1>1, <1>3, <2>1, Quotient
  <2>3. QED BY <2>2 DEF r
<1>7. QED BY <1>6 DEF h, k, l

\* Two times of one remainder are not less than the divisor apart.
LEMMA SameRemainder ==
  ASSUME NEW a \in Nat, NEW b \in Nat, NEW m \in Nat \ {0},
         a % m = b % m, a < b
  PROVE  m <= b - a
<1> DEFINE p == a \div m
           q == b \div m
           r == a % m
<1>1. p \in Int /\ r \in 0..(m - 1) /\ a = m * p + r
  BY Division
<1>2. q \in Int /\ b % m \in 0..(m - 1) /\ b = m * q + (b % m)
  BY Division
<1>3. b % m = r
  OBVIOUS
<1> HIDE DEF p, q, r
<1>4. m * p \in Int /\ m * q \in Int /\ b = m * q + r
  BY <1>1, <1>2, <1>3
<1>5. CASE m * q < m * p + m
  <2>1. q <= p
    BY <1>1, <1>2, <1>5, Multiples
  <2>2. PICK d \in Nat : p = q + d
    BY <1>1, <1>2, <2>1
  <2>3. m * p = m * q + m * d /\ m * d >= 0 /\ m * d \in Int
    BY <1>2, <2>2, SMT
  <2>4. QED BY <1>1, <1>4, <2>3
<1>6. QED BY <1>1, <1>4, <1>5

\* TAR either runs over or counts on.
LEMMA NextRemainder ==
  ASSUME NEW n \in Nat, NEW m \in Nat \ {0}
  PROVE  /\ (n + 1) % m = 0 => n % m = m - 1 /\ (n + 1) \div m = (n \div m) + 1
         /\ (n + 1) % m # 0 =>
              (n + 1) % m = (n % m) + 1 /\ (n + 1) \div m = n \div m
<1> DEFINE q == n \div m
           r == n % m
<1>1. q \in Int /\ r \in 0..(m - 1) /\ n = m * q + r
  BY Division
<1> HIDE DEF q, r
<1>2. m * q \in Int
  BY <1>1
<1>3. CASE r = m - 1
  <2>1. n + 1 = m * (q + 1) + 0
    BY <1>1, <1>3, SMT
  <2>2. (n + 1) \div m = q + 1 /\ (n + 1) % m = 0
    <3>1. q + 1 \in Int /\ n + 1 \in Int /\ 0 \in 0..(m - 1)
      BY <1>1
    <3>2. QED BY <2>1, <3>1, Quotient
  <2>3. QED BY <1>3, <2>2 DEF q, r
<1>4. CASE r # m - 1
  <2> DEFINE s == r + 1
  <2>1. n + 1 = m * q + s /\ s \in 0..(m - 1) /\ s # 0
    BY <1>1, <1>2, <1>4
  <2> HIDE DEF s
  <2>2. (n + 1) \div m = q /\ (n + 1) % m = s
    BY <1>1, <2>1, Quotient
  <2>3. QED BY <2>1, <2>2 DEF q, r, s
<1>5. QED BY <1>3, <1>4

-----------------------------------------------------------------------------
(* The inductive invariant *)

\* Since main() was interrupted every interrupt has come once at most, and every
\* routine that has returned took its cycles: so none waits for more than two.
Served(g) == raised[g] >= woken /\ g \notin IFG /\ cpu # g
Counted == now % Wrap <= now - woken /\ ~TAIFG /\ cpu # "timer"

Cost(served) == IF served THEN RoutineCycles ELSE 0
Elapsed == Cost(Served("master")) + Cost(Served("slave")) + Cost(Counted) + ran

InterruptsWait ==
  /\ woken <= now /\ now - woken <= Elapsed
  /\ cpu = "main" => ran = 0
  /\ Pending \/ cpu # "main" => woken > 0
  /\ \A g \in Stations :
       /\ raised[g] <= now
       /\ g \in IFG \/ cpu = g => raised[g] >= woken
       /\ cpu = g => raised[g] <= now - ran /\ g \notin IFG
       /\ raised[g] > 0 => raised[g] % TickLength = phase[g]

\* An overflow that waits has come since main() was interrupted, in the running
\* routine if one runs, which is not the counter's.
OverflowsWait ==
  /\ TAIFG \/ cpu = "timer" => now % Wrap <= now - woken
  /\ TAIFG /\ cpu # "main" => now % Wrap < ran
  /\ TAIFG => cpu # "timer"

\* The overflows that isr_timera1() has not counted yet.
Uncounted == (IF TAIFG THEN 1 ELSE 0) + (IF cpu = "timer" THEN 1 ELSE 0)
OverflowsCounted == COUNTER32_LOWER = ((now \div Wrap) - Uncounted) % Words

Seen(g) == Len(stamps[g]) + (IF g \in IFG THEN 1 ELSE 0) + (IF cpu = g THEN 1 ELSE 0)
EdgesSeen ==
  \A g \in Stations :
    /\ now + off[g] >= 0
    /\ next[g] = -1 <=> first[g] = -1
    /\ state = "RUNNING" => next[g] = first[g] + Period * Seen(g)

\* What a routine may read of the whole count v, after an edge at the cycle c: the
\* count itself or, when TAR ran over in the routine, the count a wrap of TAR before.
Reading(v, c) ==
  /\ v \in Nat
  /\ \/ v - c \in 0..Latency
     \/ /\ v + Wrap - c \in 0..Latency
        /\ v % Wrap < RoutineCycles
        /\ c < v + Wrap - (v % Wrap)

StampsRead ==
  \A g \in Stations : \A i \in DOMAIN stamps[g] :
    \E v \in Nat : Reading(v, came[g][i]) /\ stamps[g][i] = v % Values

\* The count with the wraps undone that the first i stamps of a line show.
Falls(g, i) == {j \in 2..i : stamps[g][j] < stamps[g][j - 1]}
Count(g, i) ==
  (Cardinality(Falls(g, i)) + came[g][1] \div Values) * Values + stamps[g][i]

FirstClear(g) == came[g][1] \div Values = (came[g][1] + Latency) \div Values

CountsRead ==
  \A g \in Stations : \A i \in DOMAIN stamps[g] :
    FirstClear(g) /\ Apart(g, i) => Reading(Count(g, i), came[g][i])

IInv ==
  /\ TypeOK /\ InterruptsWait /\ OverflowsWait /\ OverflowsCounted /\ EdgesSeen
  /\ StampsRead /\ CountsRead

-----------------------------------------------------------------------------
(* How long an interrupt waits *)

LEMMA Constant ==
  /\ Wrap \in Nat \ {0} /\ Words \in Nat \ {0} /\ MEASUREMENTS \in Nat \ {0}
  /\ RoutineCycles \in Nat \ {0} /\ TickLength \in Nat \ {0} /\ Period \in Nat \ {0}
  /\ Latency \in Nat /\ Latency = RoutineCycles + RoutineCycles + RoutineCycles
  /\ Latency < TickLength /\ Latency < Wrap
  /\ Values \in Nat \ {0} /\ Wrap <= Values
<1>1. /\ Wrap \in Nat \ {0} /\ Words \in Nat \ {0} /\ MEASUREMENTS \in Nat \ {0}
      /\ RoutineCycles \in Nat \ {0} /\ TickLength \in Nat \ {0} /\ Period \in Nat \ {0}
  BY AcceptorAssumption, GeneratorAssumption
<1>2. /\ Latency \in Nat /\ Latency = RoutineCycles + RoutineCycles + RoutineCycles
      /\ Latency < TickLength /\ Latency < Wrap
  BY <1>1, RoutinesAreShort DEF Latency
<1>3. Values \in Nat \ {0} /\ Wrap <= Values
  BY <1>1, SMT DEF Values
<1>4. QED BY <1>1, <1>2, <1>3

\* While an interrupt waits or a routine runs, main() has been away for less than
\* the three routines take.
LEMMA Brief ==
  ASSUME TypeOK, InterruptsWait, OverflowsWait
  PROVE  /\ cpu # "main" => now - woken <= RoutineCycles + RoutineCycles + ran
         /\ Pending => now - woken <= RoutineCycles + RoutineCycles + ran
<1> DEFINE m == Cost(Served("master"))
           s == Cost(Served("slave"))
           t == Cost(Counted)
<1>1. /\ m \in {0, RoutineCycles} /\ s \in {0, RoutineCycles} /\ t \in {0, RoutineCycles}
      /\ ~Served("master") => m = 0
      /\ ~Served("slave") => s = 0
      /\ ~Counted => t = 0
  BY DEF Cost
<1>2. now - woken <= m + s + t + ran
  BY DEF InterruptsWait, Elapsed
<1>3. /\ RoutineCycles \in Nat /\ ran \in Nat /\ now \in Nat /\ woken \in Nat
      /\ cpu \in {"master", "slave", "timer", "main"} /\ IFG \subseteq {"master", "slave"}
  BY Constant DEF TypeOK, Stations
<1>4. ASSUME cpu # "main" \/ Pending
      PROVE  ~Served("master") \/ ~Served("slave") \/ ~Counted
  BY <1>3, <1>4 DEF Served, Counted, Pending
<1> HIDE DEF m, s, t
<1>5. ASSUME cpu # "main" \/ Pending
      PROVE  m = 0 \/ s = 0 \/ t = 0
  BY <1>1, <1>4, <1>5
<1>6. ASSUME m = 0 \/ s = 0 \/ t = 0
      PROVE  now - woken <= RoutineCycles + RoutineCycles + ran
  BY <1>1, <1>2, <1>3, <1>6
<1>7. QED BY <1>5, <1>6

\* In that time no edge of a line comes twice, and no overflow.
LEMMA NoneAgain ==
  ASSUME TypeOK, InterruptsWait, OverflowsWait, cpu # "main", ran < RoutineCycles
  PROVE  /\ \A g \in Due(now + 1) : raised[g] < woken /\ g \notin IFG /\ cpu # g
         /\ (now + 1) % Wrap = 0 =>
              ~TAIFG /\ cpu # "timer" /\ ~(now % Wrap <= now - woken)
<1>1. now + 1 - woken <= Latency /\ now \in Nat /\ woken \in Nat /\ woken > 0
  BY Brief, Constant DEF TypeOK, InterruptsWait
<1>2. ASSUME NEW g \in Stations, g \in Due(now + 1), raised[g] >= woken PROVE FALSE
  <2> DEFINE a == raised[g]
             b == now + 1
  <2>1. b % TickLength = phase[g]
    BY <1>2 DEF Due
  <2>2. a \in Nat /\ a > 0 /\ a <= now
    BY <1>1, <1>2 DEF TypeOK, InterruptsWait
  <2>3. a % TickLength = phase[g]
    BY <2>2 DEF InterruptsWait
  <2>4. b \in Nat /\ a < b /\ a >= woken /\ b - woken <= Latency
    BY <1>1, <1>2, <2>2
  <2> HIDE DEF a, b
  <2>5. TickLength <= b - a
    BY <2>1, <2>2, <2>3, <2>4, Constant, SameRemainder
  <2>6. QED BY <1>1, <2>2, <2>4, <2>5, Constant
<1>3. \A g \in Due(now + 1) : raised[g] < woken /\ g \notin IFG /\ cpu # g
  <2> SUFFICES ASSUME NEW g \in Stations, g \in Due(now + 1)
               PROVE  raised[g] < woken /\ g \notin IFG /\ cpu # g
    BY DEF Due
  <2>1. raised[g] < woken
    BY <1>1, <1>2 DEF TypeOK
  <2>2. QED BY <1>1, <2>1 DEF TypeOK, InterruptsWait
<1>4. ASSUME (now + 1) % Wrap = 0
      PROVE  ~(now % Wrap <= now - woken)
  <2>1. now % Wrap = Wrap - 1
    BY <1>1, <1>4, Constant, NextRemainder
  <2>2. QED BY <1>1, <2>1, Constant
<1>5. QED BY <1>3, <1>4 DEF OverflowsWait

LEMMA PassWaits ==
  ASSUME TypeOK, InterruptsWait, OverflowsWait, Pass
  PROVE  InterruptsWait' /\ OverflowsWait'
<1> DEFINE edges == Due(now + 1)
<1>1. /\ now \in Nat /\ woken \in Nat /\ woken <= now /\ ran \in Nat
      /\ edges \subseteq Stations /\ raised \in [Stations -> Nat] /\ TAIFG \in BOOLEAN
      /\ cpu \in {"master", "slave", "timer", "main"} /\ IFG \subseteq Stations
      /\ \A g \in edges : (now + 1) % TickLength = phase[g]
  BY DEF TypeOK, InterruptsWait, Due, Stations
<1>2. /\ now' = now + 1 /\ cpu' = cpu /\ phase' = phase
      /\ ran' = IF cpu = "main" THEN 0 ELSE ran + 1
      /\ woken' = IF cpu = "main" THEN now + 1 ELSE woken
      /\ TAIFG' = (TAIFG \/ (now + 1) % Wrap = 0)
      /\ IFG' = IFG \cup edges
      /\ raised' = [g \in Stations |-> IF g \in edges THEN now + 1 ELSE raised[g]]
      /\ IF cpu = "main" THEN ~Pending /\ state = "RUNNING" ELSE ran < RoutineCycles
  BY DEF Pass, CyclePasses
<1>3. \A g \in Stations : raised'[g] = IF g \in edges THEN now + 1 ELSE raised[g]
  BY <1>2
<1>4. now % Wrap \in 0..(Wrap - 1)
  BY <1>1, Constant, Division
<1>5. CASE cpu = "main"
  <2>1. ~TAIFG /\ IFG = {} /\ woken' = now + 1 /\ ran' = 0
    BY <1>2, <1>5 DEF Pending
  <2>2. Elapsed' >= 0
    <3>1. /\ Cost(Served("master"))' >= 0 /\ Cost(Served("slave"))' >= 0 /\ Cost(Counted)' >= 0
          /\ {Cost(Served("master")), Cost(Served("slave")), Cost(Counted)}' \subseteq Nat
      BY Constant DEF Cost
    <3>2. QED BY <2>1, <3>1 DEF Elapsed
  <2>3. ASSUME NEW g \in Stations
        PROVE  /\ raised'[g] <= now'
               /\ g \in IFG' \/ cpu' = g => raised'[g] >= woken'
               /\ ~(cpu' = g)
               /\ raised'[g] > 0 => raised'[g] % TickLength = phase'[g]
    <3>1. /\ raised[g] \in Nat /\ raised[g] <= now /\ g # "main"
          /\ raised[g] > 0 => raised[g] % TickLength = phase[g]
      BY <1>1 DEF InterruptsWait, Stations
    <3>2. /\ woken' = now + 1 /\ now' = now + 1 /\ now \in Nat /\ phase'[g] = phase[g]
          /\ cpu' = "main" /\ (g \in IFG' <=> g \in edges)
      BY <1>1, <1>2, <1>5, <2>1
    <3>3. CASE g \in edges
      <4>1. raised'[g] = now + 1 /\ (now + 1) % TickLength = phase[g]
        BY <1>1, <1>3, <3>3
      <4>2. QED BY <3>1, <3>2, <4>1
    <3>4. CASE g \notin edges
      <4>1. raised'[g] = raised[g]
        BY <1>3, <3>4
      <4>2. QED BY <3>1, <3>2, <3>4, <4>1
    <3>5. QED BY <3>3, <3>4
  <2>4. InterruptsWait'
    <3>1. woken' = now' /\ cpu' = "main" /\ ran' = 0 /\ woken' > 0 /\ now' - woken' <= Elapsed'
      BY <1>1, <1>2, <1>5, <2>1, <2>2
    <3>2. woken' <= now'
      BY <1>1, <1>2, <3>1
    <3> QED BY <2>3, <3>1, <3>2 DEF InterruptsWait
  <2>5. OverflowsWait'
    BY <1>1, <1>2, <1>5, <2>1 DEF OverflowsWait
  <2>6. QED BY <2>4, <2>5
<1>6. CASE cpu # "main"
  <2>1. /\ woken' = woken /\ woken > 0 /\ ran' = ran + 1 /\ now' = now + 1
        /\ cpu' = cpu /\ ran < RoutineCycles
    BY <1>2, <1>6 DEF InterruptsWait
  <2>2. /\ \A g \in edges : raised[g] < woken /\ g \notin IFG /\ cpu # g
        /\ (now + 1) % Wrap = 0 =>
              ~TAIFG /\ cpu # "timer" /\ ~(now % Wrap <= now - woken)
    BY <1>6, <2>1, NoneAgain
  <2>3. (now + 1) % Wrap # 0 => (now + 1) % Wrap = (now % Wrap) + 1
    BY <1>1, Constant, NextRemainder
  <2>4. \A g \in Stations : Served(g) => Served(g)'
    BY <1>1, <1>2, <1>3, <2>1, <2>2 DEF Served
  <2>5. Counted => Counted'
    BY <1>1, <1>2, <1>4, <2>1, <2>2, <2>3 DEF Counted
  <2>6. Elapsed' >= Elapsed + 1
    <3>1. /\ Cost(Served("master"))' >= Cost(Served("master"))
          /\ Cost(Served("slave"))' >= Cost(Served("slave"))
          /\ Cost(Counted)' >= Cost(Counted)
      BY <2>4, <2>5, Constant DEF Cost, Stations
    <3>2. /\ {Cost(Served("master")), Cost(Served("slave")), Cost(Counted)} \subseteq Nat
          /\ {Cost(Served("master")), Cost(Served("slave")), Cost(Counted)}' \subseteq Nat
      BY Constant DEF Cost
    <3>3. QED BY <1>1, <2>1, <3>1, <3>2 DEF Elapsed
  <2>7. InterruptsWait'
    <3>1. woken' <= now' /\ now' - woken' <= Elapsed'
      <4>1. Elapsed \in Nat /\ Elapsed' \in Nat
        BY <1>1, <2>1, Constant DEF Elapsed, Cost
      <4>2. QED BY <1>1, <2>1, <2>6, <4>1 DEF InterruptsWait
    <3>2. QED BY <1>1, <1>2, <1>3, <1>6, <2>1, <2>2, <3>1 DEF InterruptsWait
  <2>8. OverflowsWait'
    BY <1>1, <1>2, <1>4, <1>6, <2>1, <2>2, <2>3 DEF OverflowsWait
  <2>9. QED BY <2>7, <2>8
<1>7. QED BY <1>5, <1>6

LEMMA NextWaits ==
  ASSUME TypeOK, InterruptsWait, OverflowsWait, [Next]_vars
  PROVE  InterruptsWait' /\ OverflowsWait'
<1>1. /\ now \in Nat /\ woken \in Nat /\ ran \in Nat /\ ran <= RoutineCycles
      /\ raised \in [Stations -> Nat] /\ TAIFG \in BOOLEAN
      /\ cpu \in {"master", "slave", "timer", "main"} /\ IFG \subseteq Stations
  BY DEF TypeOK, Stations
<1>2. ASSUME UNCHANGED <<now, TAIFG, IFG, cpu, ran, raised, woken, phase>>
      PROVE  InterruptsWait' /\ OverflowsWait'
  BY <1>2 DEF InterruptsWait, OverflowsWait, Elapsed, Cost, Served, Counted, Pending
<1>3. CASE Pass
  BY <1>3, PassWaits
<1>4. CASE Overflowed /\ UNCHANGED generators
  <2>1. /\ UNCHANGED <<now, IFG, ran, raised, woken, phase>>
        /\ cpu = "main" /\ TAIFG /\ cpu' = "timer" /\ ~TAIFG' /\ ran = 0
    BY <1>4 DEF Overflowed, generators, InterruptsWait
  <2>2. Elapsed' = Elapsed
    BY <2>1 DEF Elapsed, Cost, Served, Counted, Stations
  <2>3. QED BY <1>1, <2>1, <2>2 DEF InterruptsWait, OverflowsWait, Pending, Stations
<1>5. CASE isr_timera1 /\ UNCHANGED generators
  <2>1. /\ UNCHANGED <<now, TAIFG, IFG, raised, woken, phase>>
        /\ cpu = "timer" /\ ~TAIFG /\ cpu' = "main" /\ ran' = 0
        /\ now % Wrap <= now - woken
    BY <1>5 DEF isr_timera1, generators, OverflowsWait
  <2>2. \A g \in Stations : Served(g)' = Served(g)
    BY <2>1 DEF Served, Stations
  <2>3. ~Counted /\ Counted'
    BY <2>1 DEF Counted
  <2>4. Elapsed' >= Elapsed /\ Elapsed \in Nat /\ Elapsed' \in Nat
    BY <1>1, <2>1, <2>2, <2>3, Constant DEF Elapsed, Cost, Stations
  <2>5. QED BY <1>1, <2>1, <2>4 DEF InterruptsWait, OverflowsWait, Pending, Stations
<1>6. ASSUME NEW g \in Stations, Called(g), UNCHANGED generators
      PROVE  InterruptsWait' /\ OverflowsWait'
  <2>1. /\ UNCHANGED <<now, TAIFG, ran, raised, woken, phase>>
        /\ cpu = "main" /\ ~TAIFG /\ g \in IFG /\ IFG' = IFG \ {g} /\ cpu' = g
        /\ ran = 0 /\ g # "main" /\ g # "timer"
    BY <1>6 DEF Called, generators, InterruptsWait, Stations
  <2>2. \A h \in Stations : Served(h)' = Served(h)
    BY <1>1, <2>1 DEF Served, Stations
  <2>3. Counted' = Counted
    BY <2>1 DEF Counted
  <2>4. Elapsed' = Elapsed
    BY <2>1, <2>2, <2>3 DEF Elapsed, Cost, Stations
  <2>5. \A h \in Stations :
          /\ h \in IFG' \/ cpu' = h => h \in IFG
          /\ cpu' = h => h \notin IFG' /\ raised'[h] <= now' - ran'
    BY <1>1, <2>1 DEF InterruptsWait
  <2>6. InterruptsWait'
    BY <1>1, <2>1, <2>4, <2>5 DEF InterruptsWait, Pending
  <2>7. OverflowsWait'
    BY <1>1, <2>1 DEF OverflowsWait
  <2>8. QED BY <2>6, <2>7
<1>7. ASSUME NEW g \in Stations, Stored(g), UNCHANGED generators
      PROVE  InterruptsWait' /\ OverflowsWait'
  <2>1. /\ UNCHANGED <<now, TAIFG, IFG, raised, woken, phase>>
        /\ cpu = g /\ cpu' = "main" /\ ran' = 0 /\ raised[g] >= woken /\ g \notin IFG
        /\ g # "main" /\ g # "timer"
    BY <1>7 DEF Stored, generators, InterruptsWait, Stations
  <2>2. \A h \in Stations : /\ h # g => Served(h)' = Served(h)
                            /\ h = g => ~Served(h) /\ Served(h)'
    BY <2>1 DEF Served, Stations
  <2>3. Counted' = Counted
    BY <2>1 DEF Counted
  <2>4. Elapsed' >= Elapsed /\ Elapsed \in Nat /\ Elapsed' \in Nat
    BY <1>1, <1>7, <2>1, <2>2, <2>3, Constant DEF Elapsed, Cost, Stations
  <2>5. \A h \in Stations : h # "main"
    BY DEF Stations
  <2>6. InterruptsWait'
    BY <1>1, <2>1, <2>4, <2>5 DEF InterruptsWait, Pending
  <2>7. OverflowsWait'
    BY <1>1, <2>1 DEF OverflowsWait
  <2>8. QED BY <2>6, <2>7
<1>8. QED
  BY <1>2, <1>3, <1>4, <1>5, <1>6, <1>7
     DEF Next, vars, Start, StartSignal, Set, Jump, Serve, Printing, generators, acceptor

-----------------------------------------------------------------------------
(* The types *)

LEMMA CounterType ==
  ASSUME TypeOK
  PROVE  COUNTER32 \in 0..(Values - 1)
<1> DEFINE h == COUNTER32_LOWER
           l == now % Wrap
<1>1. h \in 0..(Words - 1) /\ now \in Int
  BY DEF TypeOK
<1>0. l \in 0..(Wrap - 1)
  BY <1>1, Constant, Division
<1> HIDE DEF h, l
<1>2. h * Wrap >= 0 /\ h * Wrap <= (Words - 1) * Wrap /\ h * Wrap \in Int
  BY <1>1, Constant, SMT
<1>3. (Words - 1) * Wrap = Values - Wrap
  BY Constant, SMT DEF Values
<1>4. h * Wrap + l \in 0..(Values - 1)
  BY <1>0, <1>1, <1>2, <1>3, Constant
<1>5. QED BY <1>4 DEF h, l, COUNTER32, TAR

LEMMA RoundedUpType ==
  ASSUME NEW t \in Nat
  PROVE  RoundedUp(t) \in Nat
<1> DEFINE q == (t + (Period - 1)) \div Period
<1>1. q \in Nat
  BY Constant, Division
<1> HIDE DEF q
<1>2. q * Period \in Nat
  BY <1>1, Constant, SMT
<1>3. QED BY <1>2 DEF RoundedUp, q

LEMMA NextTypes ==
  ASSUME TypeOK, EdgesSeen, [Next]_vars
  PROVE  TypeOK'
<1> USE DEF TypeOK
<1>0. \A g \in Stations : g # "main" /\ g # "timer"
  BY DEF Stations
<1>1. ASSUME NEW g \in Stations, Start(g) PROVE TypeOK'
  <2>1. now + off[g] \in Nat
    BY DEF EdgesSeen
  <2>2. RoundedUp(now + off[g]) \in Nat
    BY <2>1, RoundedUpType
  <2>3. /\ next' = [next EXCEPT ![g] = RoundedUp(now + off[g])]
        /\ first' = [first EXCEPT ![g] = next'[g]]
        /\ UNCHANGED <<off, phase, now, acceptor, jumps>>
    BY <1>1 DEF Start, StartSignal
  <2>4. /\ next' \in [Stations -> Nat \cup {-1}]
        /\ first' \in [Stations -> Nat \cup {-1}]
    BY <2>2, <2>3
  <2>5. QED BY <2>3, <2>4 DEF acceptor
<1>2. CASE Pass
  <2>1. next' \in [Stations -> Nat \cup {-1}]
    <3>1. \A g \in Due(now + 1) : g \in Stations /\ next[g] # -1
      BY DEF Due
    <3>2. \A g \in Stations : Rescheduled(now + 1)[g] \in Nat \cup {-1}
      BY <3>1, Constant DEF Rescheduled
    <3>3. next' = Rescheduled(now + 1)
      BY <1>2 DEF Pass
    <3>4. QED BY <3>2, <3>3 DEF Rescheduled
  <2>2. /\ now' \in Nat /\ woken' \in Nat /\ TAIFG' \in BOOLEAN /\ IFG' \subseteq Stations
        /\ raised' \in [Stations -> Nat]
    BY <1>2 DEF Pass, CyclePasses, Due
  <2>3. ran' \in 0..RoutineCycles
    BY <1>2, Constant DEF Pass, CyclePasses
  <2>4. QED BY <1>2, <2>1, <2>2, <2>3 DEF Pass, CyclePasses
<1>3. CASE Set
  <2>1. PICK by \in Jumps : off' = [off EXCEPT !["slave"] = @ + by]
    BY <1>3 DEF Set, Jump
  <2>2. off' \in [Stations -> Int]
    BY <2>1, MeasurementAssumption DEF Stations
  <2>3. jumps' \in 0..MaxJumps
    BY <1>3, MeasurementAssumption DEF Set
  <2>4. QED BY <1>3, <2>2, <2>3 DEF Set, Jump, acceptor
<1>4. CASE Overflowed /\ UNCHANGED <<generators, jumps>>
  BY <1>4 DEF Overflowed, generators
<1>5. CASE isr_timera1 /\ UNCHANGED <<generators, jumps>>
  <2>1. COUNTER32_LOWER' \in 0..(Words - 1)
    BY <1>5, Constant, Division DEF isr_timera1
  <2>2. QED BY <1>5, <2>1, Constant DEF isr_timera1, generators
<1>6. ASSUME NEW g \in Stations, Called(g), UNCHANGED <<generators, jumps>> PROVE TypeOK'
  BY <1>6 DEF Called, generators
<1>7. ASSUME NEW g \in Stations, Stored(g), UNCHANGED <<generators, jumps>> PROVE TypeOK'
  <2>1. /\ stamps' \in [Stations -> Seq(0..(Values - 1))] /\ came' \in [Stations -> Seq(Nat)]
        /\ \A h \in Stations :
             Len(stamps'[h]) <= MEASUREMENTS /\ Len(stamps'[h]) = Len(came'[h])
        /\ state' \in {"RUNNING", "FINISHED"}
    <3>1. CASE Len(stamps[g]) < MEASUREMENTS
      <4>1. /\ stamps' = [stamps EXCEPT ![g] = Append(@, COUNTER32)]
            /\ came' = [came EXCEPT ![g] = Append(@, raised[g])] /\ state' = state
        BY <1>7, <3>1 DEF Stored
      <4>2. COUNTER32 \in 0..(Values - 1) /\ raised[g] \in Nat
        BY CounterType
      <4>3. /\ stamps' \in [Stations -> Seq(0..(Values - 1))]
            /\ came' \in [Stations -> Seq(Nat)]
        BY <4>1, <4>2
      <4>4. ASSUME NEW h \in Stations
            PROVE  Len(stamps'[h]) <= MEASUREMENTS /\ Len(stamps'[h]) = Len(came'[h])
        <5>1. /\ stamps[h] \in Seq(0..(Values - 1)) /\ came[h] \in Seq(Nat)
              /\ Len(stamps[h]) <= MEASUREMENTS /\ Len(stamps[h]) = Len(came[h])
          OBVIOUS
        <5>2. CASE h = g
          <6>1. /\ stamps'[h] = Append(stamps[h], COUNTER32)
                /\ came'[h] = Append(came[h], raised[g])
            BY <4>1, <5>2
          <6> HIDE DEF TypeOK
          <6>2. Len(stamps'[h]) = Len(stamps[h]) + 1 /\ Len(stamps[h]) \in Nat
            BY <4>2, <5>1, <6>1
          <6>3. Len(came'[h]) = Len(came[h]) + 1
            BY <4>2, <5>1, <6>1
          <6>4. QED BY <3>1, <5>1, <5>2, <6>2, <6>3, Constant
        <5>3. CASE h # g
          BY <4>1, <5>1, <5>3
        <5>4. QED BY <5>2, <5>3
      <4>5. QED BY <4>1, <4>3, <4>4
    <3>2. CASE ~(Len(stamps[g]) < MEASUREMENTS)
      BY <1>7, <3>2 DEF Stored
    <3>3. QED BY <3>1, <3>2
  <2>2. /\ cpu' = "main" /\ ran' = 0
        /\ UNCHANGED <<generators, jumps, now, TAIFG, IFG, COUNTER32_LOWER, printed,
                       raised, woken>>
    BY <1>7 DEF Stored
  <2>3. QED BY <2>1, <2>2, Constant DEF generators
<1>8. CASE Printing /\ UNCHANGED <<generators, jumps>>
  BY <1>8 DEF Printing, generators
<1>9. CASE UNCHANGED vars
  BY <1>9 DEF vars, generators, acceptor
<1>10. QED
  BY <1>1, <1>2, <1>3, <1>4, <1>5, <1>6, <1>7, <1>8, <1>9 DEF Next, Serve

-----------------------------------------------------------------------------
(* No edge is lost *)

LEMMA OneMore ==
  \A n \in Nat : Period * (n + 1) = Period * n + Period /\ Period * n \in Int
BY Constant, SMT

LEMMA SeenType ==
  ASSUME TypeOK, NEW g \in Stations
  PROVE  Seen(g) \in Nat
<1> DEFINE a == IF g \in IFG THEN 1 ELSE 0
           b == IF cpu = g THEN 1 ELSE 0
<1>1. Len(stamps[g]) \in Nat
  BY DEF TypeOK
<1>2. a \in Nat /\ b \in Nat
  OBVIOUS
<1>3. Seen(g) = Len(stamps[g]) + a + b
  BY DEF Seen
<1> HIDE DEF a, b
<1>4. QED BY <1>1, <1>2, <1>3

LEMMA PassSeen ==
  ASSUME TypeOK, InterruptsWait, OverflowsWait, EdgesSeen, Pass
  PROVE  EdgesSeen'
<1> SUFFICES ASSUME NEW g \in Stations
             PROVE  /\ now' + off'[g] >= 0
                    /\ next'[g] = -1 <=> first'[g] = -1
                    /\ state' = "RUNNING" => next'[g] = first'[g] + Period * Seen(g)'
  BY DEF EdgesSeen
<1>1. /\ now \in Nat /\ now' = now + 1 /\ off' = off /\ first' = first /\ state' = state
      /\ stamps' = stamps /\ cpu' = cpu /\ IFG' = IFG \cup Due(now + 1)
      /\ off[g] \in Int /\ next[g] \in Nat \cup {-1} /\ first[g] \in Nat \cup {-1}
      /\ Len(stamps[g]) \in Nat /\ next' = Rescheduled(now + 1)
  BY DEF Pass, CyclePasses, TypeOK
<1>2. CASE g \notin Due(now + 1)
  <2>1. next'[g] = next[g] /\ Seen(g)' = Seen(g)
    BY <1>1, <1>2 DEF Rescheduled, Seen
  <2>2. QED BY <1>1, <2>1 DEF EdgesSeen
<1>3. CASE g \in Due(now + 1)
  <2>1. g \notin IFG /\ cpu # g
    <3>1. CASE cpu = "main"
      BY <3>1 DEF Pass, CyclePasses, Pending, Stations
    <3>2. CASE cpu # "main"
      BY <1>3, <3>2, NoneAgain DEF Pass, CyclePasses
    <3>3. QED BY <3>1, <3>2
  <2>2. next[g] # -1 /\ next'[g] = next[g] + Period
    BY <1>1, <1>3 DEF Due, Rescheduled
  <2>3. Seen(g) \in Nat /\ Seen(g)' = Seen(g) + 1
    BY <1>1, <1>3, <2>1 DEF Seen
  <2>4. Period * (Seen(g) + 1) = Period * Seen(g) + Period /\ Period * Seen(g) \in Int
    BY <2>3, OneMore
  <2>5. next'[g] # -1 /\ first'[g] # -1 /\ now' + off'[g] >= 0
    BY <1>1, <2>2, Constant DEF EdgesSeen
  <2>6. ASSUME state' = "RUNNING"
        PROVE  next'[g] = first'[g] + Period * Seen(g)'
    <3>1. next[g] = first[g] + Period * Seen(g) /\ first'[g] = first[g]
      BY <1>1, <2>6 DEF EdgesSeen
    <3>2. QED BY <1>1, <2>2, <2>3, <2>4, <3>1, Constant
  <2>7. QED BY <2>5, <2>6
<1>4. QED BY <1>2, <1>3

LEMMA NextSeen ==
  ASSUME TypeOK, InterruptsWait, OverflowsWait, EdgesSeen, [Next]_vars
  PROVE  EdgesSeen'
<1> SUFFICES ASSUME NEW g \in Stations
             PROVE  /\ now' + off'[g] >= 0
                    /\ next'[g] = -1 <=> first'[g] = -1
                    /\ state' = "RUNNING" => next'[g] = first'[g] + Period * Seen(g)'
  BY DEF EdgesSeen
<1>1. /\ now \in Nat /\ off \in [Stations -> Int]
      /\ next \in [Stations -> Nat \cup {-1}] /\ first \in [Stations -> Nat \cup {-1}]
      /\ \A h \in Stations : h # "main" /\ h # "timer"
      /\ stamps \in [Stations -> Seq(0..(Values - 1))]
      /\ Len(stamps[g]) \in Nat
  <2>1. \A h \in Stations : h # "main" /\ h # "timer"
    BY DEF Stations
  <2>2. QED BY <2>1 DEF TypeOK
<1>0. Seen(g) \in Nat
  BY SeenType
<1>2. ASSUME NEW h \in Stations, Start(h)
      PROVE  /\ now' + off'[g] >= 0
             /\ next'[g] = -1 <=> first'[g] = -1
             /\ state' = "RUNNING" => next'[g] = first'[g] + Period * Seen(g)'
  <2>1. /\ UNCHANGED <<now, off, state>> /\ Seen(g)' = Seen(g)
        /\ next[h] = -1 /\ next' = [next EXCEPT ![h] = RoundedUp(now + off[h])]
        /\ first' = [first EXCEPT ![h] = next'[h]]
    BY <1>2 DEF Start, StartSignal, acceptor, Seen
  <2>2. CASE g # h
    BY <1>1, <2>1, <2>2 DEF EdgesSeen
  <2>3. CASE g = h
    <3>1. next'[g] = RoundedUp(now + off[g]) /\ first'[g] = next'[g]
      BY <1>1, <2>1, <2>3
    <3>2. next'[g] \in Nat
      BY <1>1, <3>1, RoundedUpType DEF EdgesSeen
    <3>3. ASSUME state = "RUNNING" PROVE Period * Seen(g) = 0
      <4>1. next[g] = -1 /\ first[g] = -1 /\ Period * Seen(g) \in Int
        BY <1>0, <2>1, <2>3, OneMore DEF EdgesSeen
      <4>2. QED BY <3>3, <4>1 DEF EdgesSeen
    <3>4. QED BY <1>1, <2>1, <3>1, <3>2, <3>3 DEF EdgesSeen
  <2>4. QED BY <2>2, <2>3
<1>3. CASE Pass
  BY <1>3, PassSeen DEF EdgesSeen
<1>4. CASE Set
  <2>1. PICK by \in Jumps : /\ off' = [off EXCEPT !["slave"] = @ + by]
                            /\ now + off["slave"] + by >= 0
    BY <1>4 DEF Set, Jump
  <2>2. by \in Int /\ "slave" \in Stations /\ off["slave"] \in Int /\ off[g] \in Int
    BY <1>1, MeasurementAssumption DEF Stations
  <2>3. UNCHANGED <<now, next, first, state>> /\ Seen(g)' = Seen(g)
    BY <1>4 DEF Set, Jump, acceptor, Seen
  <2>4. now + off'[g] >= 0
    BY <1>1, <2>1, <2>2 DEF EdgesSeen
  <2>5. QED BY <2>3, <2>4 DEF EdgesSeen
<1>5. ASSUME UNCHANGED generators, UNCHANGED now,
             state' = "RUNNING" => state = "RUNNING" /\ Seen(g)' = Seen(g)
      PROVE  /\ now' + off'[g] >= 0
             /\ next'[g] = -1 <=> first'[g] = -1
             /\ state' = "RUNNING" => next'[g] = first'[g] + Period * Seen(g)'
  BY <1>5 DEF EdgesSeen, generators
<1>6. CASE (Overflowed \/ isr_timera1 \/ Printing) /\ UNCHANGED generators
  BY <1>1, <1>5, <1>6 DEF Overflowed, isr_timera1, Printing, Seen
<1>7. ASSUME NEW h \in Stations, Called(h), UNCHANGED generators
      PROVE  UNCHANGED <<now, state>> /\ Seen(g)' = Seen(g)
  <2>1. /\ UNCHANGED <<now, state, stamps>> /\ cpu = "main" /\ h \in IFG
        /\ IFG' = IFG \ {h} /\ cpu' = h
    BY <1>7 DEF Called
  <2>2. CASE g = h
    BY <1>1, <2>1, <2>2 DEF Seen
  <2>3. CASE g # h
    BY <1>1, <2>1, <2>3 DEF Seen
  <2>4. QED BY <2>2, <2>3
<1>8. ASSUME NEW h \in Stations, Stored(h), UNCHANGED generators, state' = "RUNNING"
      PROVE  UNCHANGED <<now, state>> /\ Seen(g)' = Seen(g)
  <2>1. /\ UNCHANGED <<now, state, IFG>> /\ cpu = h /\ cpu' = "main"
        /\ stamps' = [stamps EXCEPT ![h] = Append(@, COUNTER32)]
    BY <1>8 DEF Stored
  <2>2. CASE g = h
    <3>1. Len(stamps'[g]) = Len(stamps[g]) + 1
      BY <1>1, <2>1, <2>2, CounterType
    <3>2. QED BY <1>1, <2>1, <2>2, <3>1 DEF Seen
  <2>3. CASE g # h
    <3>1. stamps'[g] = stamps[g]
      BY <1>1, <2>1, <2>3
    <3>2. QED BY <1>1, <2>1, <2>3, <3>1 DEF Seen
  <2>4. QED BY <2>2, <2>3
<1>9. CASE UNCHANGED vars
  BY <1>5, <1>9 DEF vars, acceptor, Seen
<1>10. ASSUME NEW h \in Stations, Stored(h) PROVE UNCHANGED now
  BY <1>10 DEF Stored
<1>11. QED
  BY <1>2, <1>3, <1>4, <1>5, <1>6, <1>7, <1>8, <1>9, <1>10 DEF Next, Serve

-----------------------------------------------------------------------------
(* Every overflow is counted *)

LEMMA CountOneMore ==
  ASSUME NEW x \in Nat, x >= 1
  PROVE  (((x - 1) % Words) + 1) % Words = x % Words
<1> DEFINE y == x - 1
           r == y % Words
<1>1. y \in Nat /\ x = y + 1
  OBVIOUS
<1> HIDE DEF y
<1>2. r \in 0..(Words - 1)
  BY <1>1, Constant, Division
<1>3. /\ (y + 1) % Words = 0 => r = Words - 1
      /\ (y + 1) % Words # 0 => (y + 1) % Words = r + 1
  BY <1>1, Constant, NextRemainder
<1>4. (y + 1) % Words \in 0..(Words - 1)
  <2>1. y + 1 \in Int
    BY <1>1
  <2>2. QED BY <2>1, Constant, Division
<1> HIDE DEF r
<1>5. CASE (y + 1) % Words = 0
  <2> DEFINE n == r + 1
  <2>1. n = Words * 1 + 0 /\ n \in Int /\ 0 \in 0..(Words - 1)
    BY <1>2, <1>3, <1>5, Constant
  <2> HIDE DEF n
  <2>2. n % Words = 0
    BY <2>1, Constant, Quotient
  <2>3. QED BY <1>1, <1>5, <2>2 DEF n, r, y
<1>6. CASE (y + 1) % Words # 0
  <2> DEFINE n == r + 1
  <2>1. n = Words * 0 + n /\ n \in 0..(Words - 1)
    BY <1>2, <1>3, <1>4, <1>6, Constant
  <2> HIDE DEF n
  <2>2. n % Words = n
    BY <2>1, Constant, Quotient
  <2>3. (y + 1) % Words = n
    BY <1>3, <1>6 DEF n
  <2>4. QED BY <1>1, <2>2, <2>3 DEF n, r, y
<1>7. QED BY <1>5, <1>6

\* An overflow that is not counted yet is one since the launch.
LEMMA Overflown ==
  ASSUME TypeOK, InterruptsWait, OverflowsWait, TAIFG \/ cpu = "timer"
  PROVE  now \div Wrap \in Nat /\ now \div Wrap >= 1
<1>1. /\ now \in Nat /\ woken \in Nat /\ woken > 0 /\ now % Wrap <= now - woken
  BY DEF TypeOK, InterruptsWait, OverflowsWait, Pending
<1> DEFINE q == now \div Wrap
           r == now % Wrap
<1>2. q \in Int /\ q >= 0 /\ r \in 0..(Wrap - 1) /\ now = Wrap * q + r
  <2>1. now \in Int /\ now >= 0 /\ Wrap \in Nat \ {0}
    BY <1>1, Constant
  <2>2. QED BY ONLY <2>1, Division
<1> HIDE DEF q, r
<1>3. ASSUME q = 0 PROVE FALSE
  <2>1. Wrap * q = 0
    BY <1>3, Constant
  <2>2. r = now
    BY <1>1, <1>2, <2>1
  <2>3. QED BY <1>1, <2>2 DEF r
<1>4. q \in Nat /\ q >= 1
  BY <1>2, <1>3
<1>5. QED BY <1>4 DEF q

LEMMA NextCounted ==
  ASSUME TypeOK, InterruptsWait, OverflowsWait, OverflowsCounted, [Next]_vars
  PROVE  OverflowsCounted'
<1>1. now \in Nat /\ TAIFG \in BOOLEAN
  BY DEF TypeOK
<1>2. ASSUME UNCHANGED <<now, COUNTER32_LOWER>>, Uncounted' = Uncounted
      PROVE  OverflowsCounted'
  BY <1>2 DEF OverflowsCounted
<1>3. CASE Pass
  <2>1. /\ now' = now + 1 /\ cpu' = cpu /\ COUNTER32_LOWER' = COUNTER32_LOWER
        /\ TAIFG' = (TAIFG \/ (now + 1) % Wrap = 0)
    BY <1>3 DEF Pass, CyclePasses
  <2>2. (now + 1) % Wrap = 0 => ~TAIFG
    <3>1. CASE cpu = "main"
      BY <1>3, <3>1 DEF Pass, CyclePasses, Pending
    <3>2. CASE cpu # "main"
      BY <1>3, <3>2, NoneAgain DEF Pass, CyclePasses
    <3>3. QED BY <3>1, <3>2
  <2> DEFINE a == IF TAIFG THEN 1 ELSE 0
             b == IF cpu = "timer" THEN 1 ELSE 0
             c == IF TAIFG' THEN 1 ELSE 0
  <2>3. /\ now \div Wrap \in Int
        /\ (now + 1) % Wrap = 0 => (now + 1) \div Wrap = (now \div Wrap) + 1
        /\ (now + 1) % Wrap # 0 => (now + 1) \div Wrap = now \div Wrap
    <3>1. now \in Nat /\ now \in Int /\ Wrap \in Nat \ {0}
      BY <1>1, Constant
    <3>2. now \div Wrap \in Int
      BY <3>1, Division
    <3>3. QED BY <3>1, <3>2, NextRemainder
  <2>4. /\ a \in Int /\ b \in Int /\ c \in Int
        /\ (now + 1) % Wrap = 0 => c = a + 1
        /\ (now + 1) % Wrap # 0 => c = a
    <3>1. CASE (now + 1) % Wrap = 0
      <4>1. TAIFG = FALSE /\ TAIFG' = TRUE
        BY <1>1, <2>1, <2>2, <3>1
      <4>2. QED BY <3>1, <4>1
    <3>2. CASE (now + 1) % Wrap # 0
      <4>1. TAIFG' = TAIFG
        BY <1>1, <2>1, <3>2, Zenon
      <4>2. QED BY <3>2, <4>1
    <3>3. QED BY <3>1, <3>2
  <2>5. Uncounted = a + b /\ Uncounted' = c + b
    BY <2>1 DEF Uncounted
  <2> HIDE DEF a, b, c
  <2>6. ((now + 1) \div Wrap) - (c + b) = (now \div Wrap) - (a + b)
    BY <2>3, <2>4
  <2>7. QED BY <2>1, <2>5, <2>6 DEF OverflowsCounted
<1>4. CASE Overflowed
  <2>1. UNCHANGED <<now, COUNTER32_LOWER>> /\ TAIFG /\ cpu = "main" /\ ~TAIFG' /\ cpu' = "timer"
    BY <1>4 DEF Overflowed
  <2>2. Uncounted' = Uncounted
    BY <2>1 DEF Uncounted
  <2>3. QED BY <1>2, <2>1, <2>2
<1>5. CASE isr_timera1
  <2>1. /\ now' = now /\ cpu = "timer" /\ ~TAIFG /\ ~TAIFG' /\ cpu' = "main"
        /\ COUNTER32_LOWER' = (COUNTER32_LOWER + 1) % Words
    BY <1>5 DEF isr_timera1, OverflowsWait
  <2> DEFINE x == now \div Wrap
  <2>2. x \in Nat /\ x >= 1
    BY <2>1, Overflown
  <2>3. Uncounted = 1 /\ Uncounted' = 0
    BY <2>1 DEF Uncounted
  <2>4. COUNTER32_LOWER' = (((x - 1) % Words) + 1) % Words
    BY <2>1, <2>3 DEF OverflowsCounted
  <2> HIDE DEF x
  <2>5. COUNTER32_LOWER' = x % Words /\ x - 0 = x
    BY <2>2, <2>4, CountOneMore
  <2>6. QED BY <2>1, <2>3, <2>5 DEF OverflowsCounted, x
<1>6. ASSUME NEW g \in Stations, Called(g) \/ Stored(g) PROVE OverflowsCounted'
  <2>1. UNCHANGED <<now, COUNTER32_LOWER, TAIFG>> /\ cpu # "timer" /\ cpu' # "timer"
    BY <1>6 DEF Called, Stored, Stations
  <2>2. Uncounted' = Uncounted
    BY <2>1 DEF Uncounted
  <2>3. QED BY <1>2, <2>1, <2>2
<1>7. ASSUME UNCHANGED <<now, COUNTER32_LOWER, TAIFG, cpu>> PROVE OverflowsCounted'
  BY <1>2, <1>7 DEF Uncounted
<1>8. QED
  BY <1>3, <1>4, <1>5, <1>6, <1>7
     DEF Next, vars, Start, Set, Serve, Printing, acceptor

-----------------------------------------------------------------------------
(* What the stamps are *)

\* The routine of a line reads the whole count, or that of a wrap of TAR before.
LEMMA StoredReads ==
  ASSUME TypeOK, InterruptsWait, OverflowsWait, OverflowsCounted,
         NEW g \in Stations, cpu = g
  PROVE  \E v \in Nat : Reading(v, raised[g]) /\ COUNTER32 = v % Values
<1>1. /\ now \in Nat /\ woken \in Nat /\ ran \in Nat /\ ran <= RoutineCycles
      /\ raised[g] \in Nat /\ raised[g] <= now /\ TAIFG \in BOOLEAN
      /\ raised[g] >= woken /\ raised[g] <= now - ran /\ cpu # "main" /\ cpu # "timer"
  BY DEF TypeOK, InterruptsWait, Stations
<1>2. now - raised[g] \in 0..Latency
  BY <1>1, Brief, Constant
<1>3. CASE ~TAIFG
  <2>1. Uncounted = 0
    BY <1>1, <1>3 DEF Uncounted
  <2>2. now \div Wrap \in Int
    BY <1>1, Constant, Division
  <2>3. COUNTER32_LOWER = (now \div Wrap) % Words
    BY <2>1, <2>2 DEF OverflowsCounted
  <2>4. COUNTER32 = now % Values
    BY <1>1, <2>3, Composed DEF COUNTER32, TAR
  <2>5. Reading(now, raised[g])
    BY <1>1, <1>2 DEF Reading
  <2>6. QED BY <1>1, <2>4, <2>5
<1>4. CASE TAIFG
  <2> DEFINE q == now \div Wrap
             l == now % Wrap
             v == now - Wrap
  <2>1. q \in Nat /\ q >= 1
    BY <1>4, Overflown
  <2>2. l \in 0..(Wrap - 1) /\ now = Wrap * q + l
    <3>1. now \in Int /\ Wrap \in Nat \ {0}
      BY <1>1, Constant
    <3>2. QED BY ONLY <3>1, Division
  <2>3. Uncounted = 1 /\ l < ran
    BY <1>1, <1>4 DEF Uncounted, OverflowsWait
  <2>4. COUNTER32_LOWER = (q - 1) % Words
    BY <2>3 DEF OverflowsCounted
  <2>5. COUNTER32 = COUNTER32_LOWER * Wrap + l
    BY DEF COUNTER32, TAR
  <2> HIDE DEF q, l
  <2>6. Wrap * q = Wrap * (q - 1) + Wrap /\ Wrap * (q - 1) \in Nat
    BY <2>1, Constant, SMT
  <2>7. v \in Nat /\ v = Wrap * (q - 1) + l
    BY <1>1, <2>2, <2>6, Constant
  <2>8. v \div Wrap = q - 1 /\ v % Wrap = l
    <3> DEFINE p == q - 1
    <3>1. v \in Int /\ p \in Int /\ v = Wrap * p + l
      BY <2>1, <2>7
    <3> HIDE DEF v, p
    <3>2. v \div Wrap = p /\ v % Wrap = l
      BY ONLY <2>2, <3>1, Constant, Quotient
    <3>3. QED BY <3>2 DEF p
  <2>9. COUNTER32 = v % Values
    <3> HIDE DEF v
    <3>1. ((v \div Wrap) % Words) * Wrap + (v % Wrap) = v % Values
      BY <2>7, Composed
    <3>2. QED BY <2>4, <2>5, <2>8, <3>1
  <2>10. Reading(v, raised[g])
    <3>1. v + Wrap - raised[g] \in 0..Latency
      BY <1>1, <1>2, Constant
    <3>2. raised[g] < v + Wrap - l
      BY <1>1, <2>2, <2>3, Constant
    <3>3. l < RoutineCycles
      BY <1>1, <2>2, <2>3, Constant
    <3> HIDE DEF v
    <3>4. QED BY <2>7, <2>8, <3>1, <3>2, <3>3 DEF Reading
  <2>11. QED BY <2>7, <2>9, <2>10
<1>5. QED BY <1>1, <1>3, <1>4

\* The first count of a line, where the counter does not wrap meanwhile.
LEMMA FirstCount ==
  ASSUME NEW c \in Nat, NEW v \in Nat, Reading(v, c),
         c \div Values = (c + Latency) \div Values
  PROVE  v = (c \div Values) * Values + (v % Values)
<1> DEFINE k == c \div Values
           d == c + Latency
<1>1. k \in Nat /\ c % Values \in 0..(Values - 1) /\ c = Values * k + (c % Values)
  <2>1. c \in Int /\ c >= 0
    OBVIOUS
  <2>2. k \in Int /\ k >= 0
    BY ONLY <2>1, Constant, Division
  <2>3. c % Values \in 0..(Values - 1) /\ c = Values * k + (c % Values)
    BY ONLY <2>1, Constant, Division
  <2>4. QED BY <2>2, <2>3
<1>2. d % Values \in 0..(Values - 1) /\ d = Values * k + (d % Values)
  <2>1. d \in Int /\ d \div Values = k
    BY Constant
  <2> HIDE DEF d, k
  <2>2. QED BY <2>1, Constant, Division
<1>3. k * Values = Values * k /\ Values * k \in Nat
  BY <1>1, Constant, SMT
<1>4. v <= d /\ d = c + Latency
  BY Constant DEF Reading
<1> HIDE DEF k, d
<1>5. v < Values * k + Values
  BY <1>2, <1>3, <1>4, Constant
<1>6. v >= Values * k
  <2>1. CASE v - c \in 0..Latency
    BY <1>1, <1>3, <2>1, Constant
  <2>2. CASE c < v + Wrap - (v % Wrap)
    <3> DEFINE p == v \div Wrap
               l == v % Wrap
    <3>1. p \in Int /\ l \in 0..(Wrap - 1) /\ v = Wrap * p + l
      BY Constant, Division
    <3>2. c < v + Wrap - l
      BY <2>2
    <3> HIDE DEF p, l
    <3>3. Wrap * p \in Int /\ Wrap * (Words * k) = Values * k
      BY <1>1, <3>1, Constant, SMT DEF Values
    <3>4. Wrap * (Words * k) < Wrap * p + Wrap
      BY <1>1, <1>3, <3>1, <3>2, <3>3, Constant
    <3>5. Words * k \in Int
      BY <1>1, Constant
    <3>6. Words * k <= p
      BY <3>1, <3>4, <3>5, Constant, Multiples
    <3>7. Wrap * (Words * k) <= Wrap * p
      BY <3>1, <3>5, <3>6, Constant, SMTT(30)
    <3>8. QED BY <1>3, <3>1, <3>3, <3>7, Constant
  <2>3. QED BY <2>1, <2>2 DEF Reading
<1>7. v % Values = v - Values * k
  <2> DEFINE r == v - Values * k
  <2>1. r \in 0..(Values - 1) /\ v = Values * k + r /\ v \in Int /\ k \in Int
    BY <1>1, <1>3, <1>5, <1>6, Constant
  <2> HIDE DEF r
  <2>2. v % Values = r
    BY ONLY <2>1, Constant, Quotient
  <2>3. QED BY <2>2 DEF r
<1>8. v = k * Values + (v % Values)
  BY <1>3, <1>7
<1>9. QED BY <1>8 DEF k

\* The count after it: the counter wraps once exactly if the stamp is below.
LEMMA NextCount ==
  ASSUME NEW c \in Nat, NEW d \in Nat, NEW u \in Nat, NEW v \in Nat,
         Reading(u, c), Reading(v, d),
         d - c \in (Wrap + Latency)..(Values - Wrap - Latency - 1),
         NEW k \in Nat, NEW s \in 0..(Values - 1), u = k * Values + s
  PROVE  v = (k + (IF v % Values < s THEN 1 ELSE 0)) * Values + (v % Values)
<1> DEFINE q == v \div Values
           t == v % Values
<1>1. q \in Int /\ t \in 0..(Values - 1) /\ v = Values * q + t
  <2>1. v \in Int
    OBVIOUS
  <2>2. QED BY ONLY <2>1, Constant, Division
<1> HIDE DEF q, t
<1>2. /\ Values * q \in Int /\ q * Values = Values * q
      /\ Values * k \in Int /\ k * Values = Values * k
      /\ Values * (k + 1) \in Int /\ (k + 1) * Values = Values * (k + 1)
      /\ Values * (k + 1) = Values * k + Values
  BY <1>1, Constant, SMT
<1>3. v - u >= 0 /\ v - u < Values
  <2>1. u <= c + Latency /\ u >= c - Wrap /\ v <= d + Latency /\ v >= d - Wrap
    BY Constant DEF Reading
  <2>2. QED BY <2>1, Constant
<1>4. CASE t < s
  <2>1. Values * q < Values * (k + 1) + Values /\ Values * (k + 1) < Values * q + Values
    BY <1>1, <1>2, <1>3, <1>4, Constant
  <2>2. q = k + 1
    <3>1. k + 1 \in Int
      OBVIOUS
    <3>2. q <= k + 1 /\ k + 1 <= q
      BY <1>1, <2>1, <3>1, Constant, Multiples
    <3>3. QED BY <1>1, <3>2
  <2>3. v = (k + 1) * Values + t
    BY <1>1, <1>2, <2>2
  <2>4. QED BY <1>4, <2>3 DEF t
<1>5. CASE ~(t < s)
  <2>1. Values * q < Values * k + Values /\ Values * k < Values * q + Values
    BY <1>1, <1>2, <1>3, <1>5, Constant
  <2>2. q <= k /\ k <= q
    BY <1>1, <2>1, Constant, Multiples
  <2>3. q = k /\ k + 0 = k
    BY <1>1, <2>2
  <2>4. v = (k + 0) * Values + t
    BY <1>1, <1>2, <2>3
  <2>5. QED BY <1>5, <2>4 DEF t
<1>6. QED BY <1>4, <1>5

\* A step leaves a line's stamps alone, or its routine stores the counter.
LEMMA NextStamps ==
  ASSUME TypeOK, [Next]_vars, NEW g \in Stations
  PROVE  \/ stamps'[g] = stamps[g] /\ came'[g] = came[g]
         \/ /\ cpu = g
            /\ stamps'[g] = Append(stamps[g], COUNTER32)
            /\ came'[g] = Append(came[g], raised[g])
<1>1. CASE UNCHANGED <<stamps, came>>
  BY <1>1
<1>2. ASSUME NEW h \in Stations, Stored(h), Len(stamps[h]) < MEASUREMENTS
      PROVE  \/ stamps'[g] = stamps[g] /\ came'[g] = came[g]
             \/ /\ cpu = g
                /\ stamps'[g] = Append(stamps[g], COUNTER32)
                /\ came'[g] = Append(came[g], raised[g])
  <2>1. /\ stamps' = [stamps EXCEPT ![h] = Append(@, COUNTER32)] /\ cpu = h
        /\ came' = [came EXCEPT ![h] = Append(@, raised[h])]
    BY <1>2 DEF Stored
  <2>2. DOMAIN stamps = Stations /\ DOMAIN came = Stations
    BY DEF TypeOK
  <2>3. CASE g = h
    <3>1. stamps'[g] = Append(stamps[g], COUNTER32) /\ came'[g] = Append(came[g], raised[g])
      BY <2>1, <2>2, <2>3
    <3>2. QED BY <2>1, <2>3, <3>1
  <2>4. CASE g # h
    BY <2>1, <2>2, <2>4
  <2>5. QED BY <2>3, <2>4
<1>3. ASSUME NEW h \in Stations, Stored(h), ~(Len(stamps[h]) < MEASUREMENTS)
      PROVE  UNCHANGED <<stamps, came>>
  BY <1>3 DEF Stored
<1>4. CASE Pass
  BY <1>1, <1>4 DEF Pass, CyclePasses
<1>5. QED
  BY <1>1, <1>2, <1>3, <1>4
     DEF Next, vars, Start, Set, Serve, Overflowed, isr_timera1, Called, Printing, acceptor

LEMMA Appended ==
  ASSUME NEW T, NEW q \in Seq(T), NEW x \in T, NEW r, r = Append(q, x)
  PROVE  /\ Len(q) \in Nat /\ DOMAIN q = 1..Len(q) /\ DOMAIN r = 1..(Len(q) + 1)
         /\ \A i \in 1..Len(q) : q[i] \in T /\ r[i] = q[i]
         /\ r[Len(q) + 1] = x
<1>1. r \in Seq(T) /\ Len(r) = Len(q) + 1 /\ Len(q) \in Nat
  OBVIOUS
<1>2. DOMAIN q = 1..Len(q) /\ DOMAIN r = 1..(Len(q) + 1)
  BY <1>1
<1>3. ASSUME NEW i \in 1..Len(q) PROVE q[i] \in T /\ r[i] = q[i]
  BY <1>3
<1>4. r[Len(q) + 1] = x
  OBVIOUS
<1>5. QED BY <1>1, <1>2, <1>3, <1>4

\* What a line's sequences are before and after its routine has stored the counter.
LEMMA Grown ==
  ASSUME TypeOK, NEW g \in Stations,
         stamps'[g] = Append(stamps[g], COUNTER32),
         came'[g] = Append(came[g], raised[g])
  PROVE  LET n == Len(stamps[g])
         IN /\ n \in Nat /\ DOMAIN stamps[g] = 1..n /\ DOMAIN stamps'[g] = 1..(n + 1)
            /\ \A i \in 1..n :
                 /\ stamps[g][i] \in 0..(Values - 1) /\ stamps'[g][i] = stamps[g][i]
                 /\ came[g][i] \in Nat /\ came'[g][i] = came[g][i]
            /\ stamps'[g][n + 1] = COUNTER32 /\ came'[g][n + 1] = raised[g]
<1> DEFINE s == stamps[g]
           c == came[g]
           x == COUNTER32
           y == raised[g]
<1>1. s \in Seq(0..(Values - 1)) /\ c \in Seq(Nat) /\ Len(s) = Len(c)
  BY DEF TypeOK
<1>2. x \in 0..(Values - 1) /\ y \in Nat
  <2>1. x \in 0..(Values - 1)
    BY CounterType
  <2>2. y \in Nat
    BY DEF TypeOK
  <2>3. QED BY <2>1, <2>2
<1>3. stamps'[g] = Append(s, x) /\ came'[g] = Append(c, y)
  OBVIOUS
<1> HIDE DEF s, c, x, y, TypeOK
<1>4. /\ Len(s) \in Nat /\ DOMAIN s = 1..Len(s) /\ DOMAIN stamps'[g] = 1..(Len(s) + 1)
      /\ \A i \in 1..Len(s) : s[i] \in 0..(Values - 1) /\ stamps'[g][i] = s[i]
      /\ stamps'[g][Len(s) + 1] = x
  <2> DEFINE T == 0..(Values - 1)
             r == stamps'[g]
  <2>1. s \in Seq(T) /\ x \in T /\ r = Append(s, x)
    BY <1>1, <1>2, <1>3
  <2> HIDE DEF T, r
  <2>2. /\ Len(s) \in Nat /\ DOMAIN s = 1..Len(s) /\ DOMAIN r = 1..(Len(s) + 1)
        /\ \A i \in 1..Len(s) : s[i] \in T /\ r[i] = s[i]
        /\ r[Len(s) + 1] = x
    BY ONLY <2>1, Appended
  <2>3. QED BY <2>2 DEF T, r
<1>5. /\ \A i \in 1..Len(c) : c[i] \in Nat /\ came'[g][i] = c[i]
      /\ came'[g][Len(c) + 1] = y
  BY ONLY <1>1, <1>2, <1>3, Appended
<1>6. LET n == Len(s)
      IN /\ n \in Nat /\ DOMAIN s = 1..n /\ DOMAIN stamps'[g] = 1..(n + 1)
         /\ \A i \in 1..n :
              /\ s[i] \in 0..(Values - 1) /\ stamps'[g][i] = s[i]
              /\ c[i] \in Nat /\ came'[g][i] = c[i]
         /\ stamps'[g][n + 1] = x /\ came'[g][n + 1] = y
  BY ONLY <1>1, <1>4, <1>5
<1>7. QED BY <1>6 DEF s, c, x, y

LEMMA NextStampsRead ==
  ASSUME TypeOK, InterruptsWait, OverflowsWait, OverflowsCounted, StampsRead, [Next]_vars
  PROVE  StampsRead'
<1> SUFFICES ASSUME NEW g \in Stations, NEW i \in DOMAIN stamps'[g]
             PROVE  \E v \in Nat : Reading(v, came'[g][i]) /\ stamps'[g][i] = v % Values
  BY DEF StampsRead
<1>1. CASE stamps'[g] = stamps[g] /\ came'[g] = came[g]
  BY <1>1 DEF StampsRead
<1>2. CASE /\ cpu = g
           /\ stamps'[g] = Append(stamps[g], COUNTER32)
           /\ came'[g] = Append(came[g], raised[g])
  <2> DEFINE n == Len(stamps[g])
  <2>1. /\ n \in Nat /\ DOMAIN stamps[g] = 1..n /\ DOMAIN stamps'[g] = 1..(n + 1)
        /\ \A j \in 1..n : stamps'[g][j] = stamps[g][j] /\ came'[g][j] = came[g][j]
        /\ stamps'[g][n + 1] = COUNTER32 /\ came'[g][n + 1] = raised[g]
    BY <1>2, Grown
  <2>2. CASE i = n + 1
    BY <1>2, <2>1, <2>2, StoredReads
  <2>3. CASE i # n + 1
    <3> HIDE DEF n
    <3>1. i \in 1..n
      BY <2>1, <2>3
    <3>2. QED BY <2>1, <3>1 DEF StampsRead
  <2>4. QED BY <2>2, <2>3
<1>3. QED BY <1>1, <1>2, NextStamps

-----------------------------------------------------------------------------
(* What the collector makes of the stamps *)

LEMMA FallsType ==
  ASSUME NEW g \in Stations, NEW n \in Nat
  PROVE  IsFiniteSet(Falls(g, n)) /\ Cardinality(Falls(g, n)) \in Nat
<1>1. IsFiniteSet(2..n)
  BY FS_Interval
<1>2. Falls(g, n) \in SUBSET (2..n)
  BY DEF Falls
<1>3. IsFiniteSet(Falls(g, n))
  BY <1>1, <1>2, FS_Subset
<1>4. QED BY <1>3, FS_CardinalityType

\* A line's earlier counts are as they were when it has grown.
LEMMA CountsKept ==
  ASSUME TypeOK, NEW g \in Stations,
         stamps'[g] = Append(stamps[g], COUNTER32),
         came'[g] = Append(came[g], raised[g]),
         NEW i \in DOMAIN stamps[g]
  PROVE  /\ Falls(g, i)' = Falls(g, i) /\ Count(g, i)' = Count(g, i)
         /\ Apart(g, i)' <=> Apart(g, i)
         /\ FirstClear(g)' <=> FirstClear(g)
<1> DEFINE n == Len(stamps[g])
<1>1. /\ n \in Nat /\ DOMAIN stamps[g] = 1..n
      /\ \A j \in 1..n : stamps'[g][j] = stamps[g][j] /\ came'[g][j] = came[g][j]
  BY Grown
<1> HIDE DEF n
<1>2. i \in 1..n /\ 1 \in 1..n
  BY <1>1
<1>3. ASSUME NEW j \in 2..i PROVE j \in 1..n /\ j - 1 \in 1..n
  BY <1>1, <1>2, <1>3
<1>4. \A j \in 2..i :
        /\ stamps'[g][j] = stamps[g][j] /\ came'[g][j] = came[g][j]
        /\ stamps'[g][j - 1] = stamps[g][j - 1] /\ came'[g][j - 1] = came[g][j - 1]
  BY <1>1, <1>3
<1>5. Falls(g, i)' = Falls(g, i)
  BY <1>4 DEF Falls
<1>6. stamps'[g][i] = stamps[g][i] /\ came'[g][1] = came[g][1]
  BY <1>1, <1>2
<1>7. QED BY <1>4, <1>5, <1>6 DEF Count, Apart, FirstClear

LEMMA NextCountsRead ==
  ASSUME TypeOK, InterruptsWait, OverflowsWait, OverflowsCounted, CountsRead, [Next]_vars
  PROVE  CountsRead'
<1> SUFFICES ASSUME NEW g \in Stations, NEW i \in DOMAIN stamps'[g],
                    FirstClear(g)', Apart(g, i)'
             PROVE  Reading(Count(g, i)', came'[g][i])
  BY DEF CountsRead
<1>1. CASE stamps'[g] = stamps[g] /\ came'[g] = came[g]
  <2>1. /\ Falls(g, i)' = Falls(g, i) /\ FirstClear(g) /\ Apart(g, i)
        /\ i \in DOMAIN stamps[g]
    BY <1>1 DEF Falls, FirstClear, Apart
  <2>2. Count(g, i)' = Count(g, i)
    BY <1>1, <2>1 DEF Count
  <2>3. QED BY <1>1, <2>1, <2>2 DEF CountsRead
<1>2. CASE /\ cpu = g
           /\ stamps'[g] = Append(stamps[g], COUNTER32)
           /\ came'[g] = Append(came[g], raised[g])
  <2>1. PICK n \in Nat :
          /\ DOMAIN stamps[g] = 1..n /\ DOMAIN stamps'[g] = 1..(n + 1)
          /\ \A j \in 1..n :
               /\ stamps[g][j] \in 0..(Values - 1) /\ stamps'[g][j] = stamps[g][j]
               /\ came[g][j] \in Nat /\ came'[g][j] = came[g][j]
          /\ stamps'[g][n + 1] = COUNTER32 /\ came'[g][n + 1] = raised[g]
    BY <1>2, Grown
  <2>2. PICK v \in Nat : Reading(v, raised[g]) /\ COUNTER32 = v % Values
    BY <1>2, StoredReads
  <2>3. raised[g] \in Nat /\ v % Values \in 0..(Values - 1)
    <3>1. raised[g] \in Nat
      BY DEF TypeOK
    <3>2. v \in Int /\ Values \in Nat \ {0}
      BY Constant
    <3>3. v % Values \in 0..(Values - 1)
      BY ONLY <3>2, Division
    <3>4. QED BY <3>1, <3>3
  <2>4. CASE i \in 1..n
    <3>1. i \in DOMAIN stamps[g] /\ came'[g][i] = came[g][i]
      BY <2>1, <2>4
    <3>2. FirstClear(g) /\ Apart(g, i) /\ Count(g, i)' = Count(g, i)
      BY <1>2, <3>1, CountsKept
    <3>3. QED BY <3>1, <3>2 DEF CountsRead
  <2>5. CASE i = n + 1 /\ n = 0
    <3>1. stamps'[g][1] = v % Values /\ came'[g][1] = raised[g] /\ i = 1
      BY <2>1, <2>2, <2>5
    <3>2. Falls(g, i)' = {}
      BY <3>1 DEF Falls
    <3>3. Cardinality(Falls(g, i)') = 0
      BY <3>2, FS_EmptySet
    <3>4. v = (raised[g] \div Values) * Values + (v % Values)
      <4>1. raised[g] \div Values = (raised[g] + Latency) \div Values
        BY <3>1 DEF FirstClear
      <4>2. QED BY <2>2, <2>3, <4>1, FirstCount
    <3>5. raised[g] \div Values \in Int
      <4>1. raised[g] \in Int /\ Values \in Nat \ {0}
        BY <2>3, Constant
      <4>2. QED BY ONLY <4>1, Division
    <3>6. Count(g, i)' = (0 + raised[g] \div Values) * Values + (v % Values)
      BY <3>1, <3>3 DEF Count
    <3>7. Count(g, i)' = v
      BY <3>4, <3>5, <3>6
    <3>8. QED BY <2>2, <3>1, <3>7
  <2>6. CASE i = n + 1 /\ n # 0
    <3> DEFINE s == stamps[g][n]
               t == v % Values
               c == came[g][n]
               f == Cardinality(Falls(g, n))
               e == came[g][1] \div Values
               k == f + e
    <3>1. /\ n \in 1..n /\ 1 \in 1..n /\ n + 1 \in 2..(n + 1) /\ n + 1 - 1 = n
          /\ n \in DOMAIN stamps[g]
      BY <2>1, <2>6
    <3>2. /\ s \in 0..(Values - 1) /\ c \in Nat
          /\ stamps'[g][n] = s /\ stamps'[g][n + 1] = t
          /\ came'[g][n] = c /\ came'[g][n + 1] = raised[g] /\ came'[g][1] = came[g][1]
      BY <2>1, <2>2, <3>1
    <3>3. k \in Nat /\ f \in Nat /\ e \in Nat
      <4>1. came[g][1] \in Int /\ came[g][1] >= 0 /\ Values \in Nat \ {0}
        BY <2>1, <3>1, Constant
      <4>2. e \in Int /\ e >= 0
        BY ONLY <4>1, Division
      <4>3. f \in Nat
        BY <2>1, FallsType
      <4> HIDE DEF e, f
      <4>4. QED BY <4>2, <4>3
    <3>4. Apart(g, n)' /\ raised[g] - c \in (Wrap + Latency)..(Values - Wrap - Latency - 1)
      <4>1. \A j \in 2..(n + 1) :
              came'[g][j] - came'[g][j - 1] \in (Wrap + Latency)..(Values - Wrap - Latency - 1)
        BY <2>6 DEF Apart
      <4>2. 2..n \subseteq 2..(n + 1)
        BY <2>1
      <4>3. Apart(g, n)'
        BY <4>1, <4>2 DEF Apart
      <4>4. QED BY <3>1, <3>2, <4>1, <4>3
    <3>5. /\ FirstClear(g) /\ Apart(g, n) /\ Falls(g, n)' = Falls(g, n)
      BY <1>2, <3>1, <3>4, CountsKept
    <3>6. Reading(Count(g, n), c) /\ Count(g, n) = k * Values + s
      BY <3>1, <3>5 DEF CountsRead, Count
    <3>7. Falls(g, n + 1)' = Falls(g, n) \cup (IF t < s THEN {n + 1} ELSE {})
      <4>1. 2..(n + 1) = (2..n) \cup {n + 1}
        BY <2>1, <3>1
      <4>2. Falls(g, n + 1)' = Falls(g, n)' \cup (IF t < s THEN {n + 1} ELSE {})
        <5> DEFINE P(j) == stamps'[g][j] < stamps'[g][j - 1]
        <5>1. P(n + 1) <=> t < s
          BY <3>1, <3>2
        <5>2. /\ Falls(g, n)' = {j \in 2..n : P(j)}
              /\ Falls(g, n + 1)' = {j \in (2..n) \cup {n + 1} : P(j)}
          BY <4>1 DEF Falls
        <5> HIDE DEF t, s, P
        <5>3. CASE t < s
          BY <5>1, <5>2, <5>3
        <5>4. CASE ~(t < s)
          BY <5>1, <5>2, <5>4
        <5>5. QED BY <5>3, <5>4
      <4>3. QED BY <3>5, <4>2
    <3>8. Cardinality(Falls(g, n + 1)') = f + (IF t < s THEN 1 ELSE 0)
      <4>1. n + 1 \notin Falls(g, n)
        BY <2>1 DEF Falls
      <4>2. IsFiniteSet(Falls(g, n))
        BY <2>1, FallsType
      <4>3. Cardinality(Falls(g, n) \cup {n + 1}) = f + 1
        BY <4>1, <4>2, FS_AddElement
      <4>4. Falls(g, n) \cup {} = Falls(g, n)
        OBVIOUS
      <4> HIDE DEF t, s
      <4>5. CASE t < s
        BY <3>7, <4>3, <4>5
      <4>6. CASE ~(t < s)
        <5>1. Falls(g, n + 1)' = Falls(g, n)
          BY <3>7, <4>4, <4>6
        <5>2. Cardinality(Falls(g, n + 1)') = f
          BY <5>1
        <5> HIDE DEF f
        <5>3. QED BY <3>3, <4>6, <5>2
      <4>7. QED BY <4>5, <4>6
    <3>9. v = (k + (IF t < s THEN 1 ELSE 0)) * Values + t
      <4> DEFINE u == Count(g, n)
      <4>1. u \in Nat /\ Reading(u, c) /\ u = k * Values + s
        BY <3>6 DEF Reading
      <4> HIDE DEF u, k, s, c
      <4>2. QED BY <2>2, <2>3, <3>2, <3>3, <3>4, <4>1, NextCount
    <3>10. Count(g, i)' = ((f + (IF t < s THEN 1 ELSE 0)) + e) * Values + t
      <4>1. came'[g][1] \div Values = e /\ stamps'[g][n + 1] = t
        BY <3>2
      <4>2. QED BY <2>6, <3>8, <4>1 DEF Count
    <3>11. Count(g, i)' = v
      <4> DEFINE w == IF t < s THEN 1 ELSE 0
      <4>1. w \in Nat
        OBVIOUS
      <4>2. /\ Count(g, i)' = ((f + w) + e) * Values + t /\ v = (k + w) * Values + t
        BY <3>9, <3>10
      <4> HIDE DEF w, f, e
      <4>3. (f + w) + e = k + w
        BY <3>3, <4>1
      <4> HIDE DEF k, t
      <4>4. QED BY <4>2, <4>3
    <3>12. QED BY <2>2, <2>6, <3>2, <3>11
  <2>7. QED BY <2>1, <2>4, <2>5, <2>6
<1>3. QED BY <1>1, <1>2, NextStamps

-----------------------------------------------------------------------------
(* The invariant and what it says *)

LEMMA InitIInv ==
  ASSUME Init
  PROVE  IInv
<1>1. /\ off \in [Stations -> Offsets] /\ phase \in [Stations -> 0..(TickLength - 1)]
      /\ next = [g \in Stations |-> -1] /\ first = next
      /\ now = 0 /\ woken = 0 /\ TAIFG = FALSE /\ IFG = {} /\ cpu = "main" /\ ran = 0
      /\ COUNTER32_LOWER = 0 /\ state = "RUNNING" /\ printed = FALSE /\ jumps = 0
      /\ stamps = [g \in Stations |-> <<>>] /\ came = [g \in Stations |-> <<>>]
      /\ raised = [g \in Stations |-> 0]
  BY DEF Init, GeneratorInit, AcceptorInit
<1>2. MaxJumps \in Nat /\ Offsets \subseteq Nat
  BY MeasurementAssumption
<1>3. 0 % Wrap = 0 /\ 0 \div Wrap = 0 /\ 0 % Words = 0
  <2>1. 0 = Wrap * 0 + 0 /\ 0 \in 0..(Wrap - 1) /\ 0 = Words * 0 + 0 /\ 0 \in 0..(Words - 1)
    BY Constant
  <2>2. QED BY <2>1, Constant, Quotient
<1>4. \A g \in Stations :
        /\ stamps[g] = <<>> /\ came[g] = <<>> /\ Len(stamps[g]) = 0 /\ DOMAIN stamps[g] = {}
        /\ raised[g] = 0 /\ next[g] = -1 /\ first[g] = -1
        /\ off[g] \in Nat
  <2> SUFFICES ASSUME NEW g \in Stations
               PROVE  /\ stamps[g] = <<>> /\ came[g] = <<>> /\ Len(stamps[g]) = 0
                      /\ DOMAIN stamps[g] = {}
                      /\ raised[g] = 0 /\ next[g] = -1 /\ first[g] = -1
                      /\ off[g] \in Nat
    OBVIOUS
  <2>1. off[g] \in Nat
    BY <1>1, <1>2
  <2>2. /\ stamps[g] = <<>> /\ came[g] = <<>> /\ raised[g] = 0
        /\ next[g] = -1 /\ first[g] = -1
    BY <1>1
  <2>3. Len(stamps[g]) = 0 /\ DOMAIN stamps[g] = {}
    BY <2>2
  <2>4. QED BY <2>1, <2>2, <2>3
<1>5. TypeOK
  <2>1. stamps \in [Stations -> Seq(0..(Values - 1))] /\ came \in [Stations -> Seq(Nat)]
    BY <1>1
  <2>2. off \in [Stations -> Int]
    <3>1. \A g \in Stations : off[g] \in Int
      BY <1>4
    <3>2. off = [g \in Stations |-> off[g]]
      BY <1>1
    <3>3. QED BY <3>1, <3>2
  <2>3. next \in [Stations -> Nat \cup {-1}] /\ first \in [Stations -> Nat \cup {-1}]
    BY <1>1
  <2>4. \A g \in Stations :
          Len(stamps[g]) <= MEASUREMENTS /\ Len(stamps[g]) = Len(came[g])
    BY <1>4, Constant
  <2>5. raised \in [Stations -> Nat] /\ jumps \in 0..MaxJumps /\ IFG \subseteq Stations
    BY <1>1, <1>2
  <2>6. COUNTER32_LOWER \in 0..(Words - 1) /\ ran \in 0..RoutineCycles
    BY <1>1, Constant
  <2>7. QED BY <1>1, <2>1, <2>2, <2>3, <2>4, <2>5, <2>6 DEF TypeOK
<1>6. InterruptsWait
  <2>1. Elapsed >= 0
    <3>1. /\ Cost(Served("master")) >= 0 /\ Cost(Served("slave")) >= 0 /\ Cost(Counted) >= 0
          /\ {Cost(Served("master")), Cost(Served("slave")), Cost(Counted)} \subseteq Nat
      BY Constant DEF Cost
    <3>2. QED BY <1>1, <3>1 DEF Elapsed
  <2>2. QED BY <1>1, <1>4, <2>1 DEF InterruptsWait, Pending, Stations
<1>7. OverflowsWait
  BY <1>1 DEF OverflowsWait
<1>8. OverflowsCounted
  <2>1. Uncounted = 0
    BY <1>1 DEF Uncounted
  <2>2. QED BY <1>1, <1>3, <2>1 DEF OverflowsCounted
<1>9. EdgesSeen
  <2>1. ASSUME NEW g \in Stations PROVE Seen(g) = 0
    BY <1>1, <1>4, <2>1 DEF Seen, Stations
  <2>2. Period * 0 = 0
    BY Constant
  <2>3. QED BY <1>1, <1>4, <2>1, <2>2 DEF EdgesSeen
<1>10. StampsRead /\ CountsRead
  BY <1>4 DEF StampsRead, CountsRead
<1>11. QED BY <1>5, <1>6, <1>7, <1>8, <1>9, <1>10 DEF IInv

LEMMA NextIInv ==
  ASSUME IInv, [Next]_vars
  PROVE  IInv'
BY NextTypes, NextWaits, NextCounted, NextSeen, NextStampsRead, NextCountsRead DEF IInv

LEMMA Inductive == Spec => []IInv
<1>1. Init => IInv
  BY InitIInv
<1>2. IInv /\ [Next]_vars => IInv'
  BY NextIInv
<1>3. QED BY <1>1, <1>2, PTL DEF Spec

\* The types of the variables; no line stores more than it has room for (main.c:81).
THEOREM TypeCorrect == Spec => []TypeOK
<1>1. IInv => TypeOK
  BY DEF IInv
<1>2. QED BY <1>1, Inductive, PTL

\* However the edges of the stations, the overflows and the routines follow each
\* other and whenever the slave's clock is set, no edge is lost (gen.c:283-285,
\* main.c:78-99).
THEOREM EveryEdgeIsStored == Spec => []NoEdgeLost
<1>1. IInv => NoEdgeLost
  BY DEF IInv, EdgesSeen, NoEdgeLost, Seen
<1>2. QED BY <1>1, Inductive, PTL

\* What is off by less than a wrap of 32 bits is so after the count is cut to them.
LEMMA Remains ==
  ASSUME NEW v \in Nat, NEW x \in Int, v + x \in 0..Latency
  PROVE  ((v % Values) + x) % Values = v + x
<1> DEFINE q == v \div Values
           r == v % Values
           p == 0 - q
           n == r + x
           d == v + x
<1>1. q \in Int /\ r \in 0..(Values - 1) /\ v = Values * q + r
  <2>1. v \in Int /\ Values \in Nat \ {0}
    BY Constant
  <2>2. QED BY ONLY <2>1, Division
<1> HIDE DEF q, r
<1>2. Values * p = 0 - Values * q /\ Values * q \in Int
  BY <1>1, Constant, SMT
<1>3. p \in Int /\ n \in Int /\ d \in 0..(Values - 1) /\ n = Values * p + d
  BY <1>1, <1>2, Constant
<1> HIDE DEF p, n, d
<1>4. n % Values = d
  <2>1. Values \in Nat \ {0}
    BY Constant
  <2>2. QED BY ONLY <1>3, <2>1, Quotient
<1>5. QED BY <1>4 DEF n, r, d

\* The lower half of the count is TAR's.
LEMMA LowerHalf ==
  ASSUME NEW v \in Nat
  PROVE  (v % Values) % Wrap = v % Wrap
<1> DEFINE q == v \div Values
           r == v % Values
           p == v \div Wrap
           l == v % Wrap
           k == p - Words * q
<1>1. q \in Int /\ r \in 0..(Values - 1) /\ v = Values * q + r
  <2>1. v \in Int /\ Values \in Nat \ {0}
    BY Constant
  <2>2. QED BY ONLY <2>1, Division
<1>2. p \in Int /\ l \in 0..(Wrap - 1) /\ v = Wrap * p + l
  <2>1. v \in Int /\ Wrap \in Nat \ {0}
    BY Constant
  <2>2. QED BY ONLY <2>1, Division
<1> HIDE DEF q, r, p, l
<1>3. Words * q \in Int /\ Wrap * (Words * q) = Values * q
  BY <1>1, Constant, SMT DEF Values
<1>4. Wrap * (p - Words * q) = Wrap * p - Wrap * (Words * q)
  <2> DEFINE w == Words * q
  <2>1. w \in Int
    BY <1>3
  <2> HIDE DEF w
  <2>2. Wrap * (p - w) = Wrap * p - Wrap * w
    BY <1>2, <2>1, Constant, SMT
  <2>3. QED BY <2>2 DEF w
<1>5. k \in Int /\ r \in Int /\ r = Wrap * k + l
  BY <1>1, <1>2, <1>3, <1>4, Constant
<1> HIDE DEF k
<1>6. r % Wrap = l
  <2>1. Wrap \in Nat \ {0}
    BY Constant
  <2>2. QED BY ONLY <1>2, <1>5, <2>1, Quotient
<1>7. QED BY <1>6 DEF r, l

LEMMA Elements ==
  ASSUME NEW T, NEW q \in Seq(T), NEW i \in DOMAIN q
  PROVE  /\ Len(q) \in Nat /\ DOMAIN q = 1..Len(q) /\ i \in 1..Len(q) /\ 1 \in 1..Len(q)
         /\ \A j \in 1..Len(q) : q[j] \in T
         /\ \A r \in Seq(Nat) : Len(r) = Len(q) => i \in DOMAIN r
OBVIOUS

\* A stamp is late by the routines that ran before it, and a wrap of TAR too small
\* only if TAR ran over in its own routine (main.c:65-99).
THEOREM StampsAreRead == Spec => []StampsOffByAWrap
<1>1. ASSUME IInv PROVE StampsOffByAWrap
  <2> SUFFICES ASSUME NEW g \in Stations, NEW i \in DOMAIN stamps[g]
               PROVE  \/ Off(stamps[g][i], came[g][i]) <= Latency
                      \/ /\ Off(stamps[g][i] + Wrap, came[g][i]) <= Latency
                         /\ stamps[g][i] % Wrap < RoutineCycles
    BY DEF StampsOffByAWrap
  <2> DEFINE c == came[g][i]
             s == stamps[g][i]
  <2>1. PICK v \in Nat : Reading(v, c) /\ s = v % Values
    BY <1>1 DEF IInv, StampsRead
  <2>2. c \in Nat /\ s \in Nat
    <3>1. /\ stamps[g] \in Seq(0..(Values - 1)) /\ came[g] \in Seq(Nat)
          /\ Len(stamps[g]) = Len(came[g])
      BY <1>1 DEF IInv, TypeOK
    <3>2. i \in DOMAIN came[g]
      BY <3>1, Elements
    <3>3. c \in Nat
      BY <3>1, <3>2, Elements
    <3>4. s \in 0..(Values - 1)
      BY <3>1, Elements
    <3>5. QED BY <3>3, <3>4
  <2> HIDE DEF c, s
  <2>3. CASE v - c \in 0..Latency
    <3> DEFINE x == 0 - c
    <3>1. x \in Int /\ v + x \in 0..Latency /\ s - c = (v % Values) + x
      BY <2>1, <2>2, <2>3
    <3> HIDE DEF x
    <3>2. ((v % Values) + x) % Values = v + x
      BY <3>1, Remains
    <3>3. Off(s, c) <= Latency
      BY <3>1, <3>2, Constant DEF Off
    <3>4. QED BY <3>3 DEF s, c
  <2>4. CASE v + Wrap - c \in 0..Latency /\ v % Wrap < RoutineCycles
    <3> DEFINE x == Wrap - c
    <3>1. x \in Int /\ v + x \in 0..Latency /\ (s + Wrap) - c = (v % Values) + x
      BY <2>1, <2>2, <2>4, Constant
    <3> HIDE DEF x
    <3>2. ((v % Values) + x) % Values = v + x
      BY <3>1, Remains
    <3>3. Off(s + Wrap, c) <= Latency
      <4>1. Off(s + Wrap, c) = v + x
        BY <3>1, <3>2 DEF Off
      <4>2. QED BY <3>1, <4>1, Constant
    <3>4. s % Wrap < RoutineCycles
      BY <2>1, <2>4, LowerHalf
    <3>5. QED BY <3>3, <3>4 DEF s, c
  <2>5. QED BY <2>1, <2>3, <2>4 DEF Reading
<1>2. IInv => StampsOffByAWrap
  BY <1>1
<1>3. QED BY <1>2, Inductive, PTL

\* The counts of the collector are those of the counter, but for the wraps of it
\* before the first edges.
LEMMA UnwrappedCount ==
  ASSUME TypeOK, NEW g \in Stations, NEW i \in DOMAIN stamps[g]
  PROVE  /\ Unwrapped(g, i) \in Int /\ came[g][1] \div Values \in Int
         /\ Count(g, i) = Unwrapped(g, i) + (came[g][1] \div Values) * Values
         /\ came[g][i] \in Nat
<1>1. /\ stamps[g] \in Seq(0..(Values - 1)) /\ came[g] \in Seq(Nat)
      /\ Len(stamps[g]) = Len(came[g]) /\ Len(stamps[g]) <= MEASUREMENTS
  BY DEF TypeOK
<1> DEFINE n == Len(stamps[g])
<1>2. /\ n \in Nat /\ DOMAIN stamps[g] = 1..n /\ i \in 1..n /\ 1 \in 1..n /\ n <= MEASUREMENTS
      /\ \A j \in 1..n : stamps[g][j] \in 0..(Values - 1) /\ came[g][j] \in Nat
  <2>1. /\ n \in Nat /\ DOMAIN stamps[g] = 1..n /\ i \in 1..n /\ 1 \in 1..n
        /\ \A j \in 1..n : stamps[g][j] \in 0..(Values - 1)
    BY <1>1, Elements
  <2>2. \A j \in 1..n : came[g][j] \in Nat
    BY <1>1
  <2>3. QED BY <1>1, <2>1, <2>2
<1> HIDE DEF n
<1>3. \A j \in 1..n : Lines[j][g] = stamps[g][j]
  BY <1>2, Constant DEF Lines
<1>4. Drops(g, i) = Falls(g, i)
  <2>1. ASSUME NEW j \in 2..i PROVE j \in 1..n /\ j - 1 \in 1..n
    BY <1>2, <2>1
  <2>2. \A j \in 2..i : Lines[j][g] = stamps[g][j] /\ Lines[j - 1][g] = stamps[g][j - 1]
    BY <1>3, <2>1
  <2>3. QED BY <2>2 DEF Drops, Falls
<1> DEFINE f == Cardinality(Falls(g, i))
           e == came[g][1] \div Values
           s == stamps[g][i]
<1>5. f \in Nat /\ e \in Int /\ s \in Nat /\ Values \in Nat
  <2>1. i \in Nat
    BY <1>2
  <2>2. f \in Nat
    BY <2>1, FallsType
  <2>3. came[g][1] \in Int /\ Values \in Nat \ {0}
    BY <1>2, Constant
  <2>4. e \in Int
    BY ONLY <2>3, Division
  <2>5. QED BY <1>2, <2>2, <2>3, <2>4
<1>6. Unwrapped(g, i) = f * Values + s /\ Count(g, i) = (f + e) * Values + s
  BY <1>2, <1>3, <1>4 DEF Unwrapped, Count
<1> HIDE DEF f, e, s
<1>7. (f + e) * Values = f * Values + e * Values /\ f * Values \in Int /\ e * Values \in Int
  BY <1>5, SMT
<1>8. QED BY <1>2, <1>5, <1>6, <1>7 DEF e

\* Where the counter does not wrap with the first edges, and no edges are so close or
\* so far apart that the wraps cannot be told, a reported difference is the time
\* between the edges, but for the latencies and a wrap of TAR (gen_stats.py:64-88).
THEOREM CollectorIsRight == Spec => []DifferencesMeasured
<1>1. ASSUME IInv PROVE DifferencesMeasured
  <2> SUFFICES ASSUME NEW i \in DOMAIN stamps["master"] \cap DOMAIN stamps["slave"],
                      FirstTogether, \A g \in Stations : Apart(g, i)
               PROVE  Difference(i) - (came["slave"][i] - came["master"][i])
                        \in -(Wrap + Latency)..(Wrap + Latency)
    BY DEF DifferencesMeasured
  <2>1. /\ "master" \in Stations /\ "slave" \in Stations
        /\ i \in DOMAIN stamps["master"] /\ i \in DOMAIN stamps["slave"]
    BY DEF Stations
  <2>2. TypeOK /\ CountsRead
    BY <1>1 DEF IInv
  <2>3. /\ FirstClear("master") /\ FirstClear("slave")
        /\ came["master"][1] \div Values = came["slave"][1] \div Values
    BY <2>1 DEF FirstTogether, FirstClear
  <2>4. /\ Reading(Count("master", i), came["master"][i])
        /\ Reading(Count("slave", i), came["slave"][i])
    BY <2>1, <2>2, <2>3 DEF CountsRead
  <2> DEFINE m == Unwrapped("master", i)
             s == Unwrapped("slave", i)
             b == (came["slave"][1] \div Values) * Values
             c == came["master"][i]
             d == came["slave"][i]
  <2>5. /\ m \in Int /\ Count("master", i) = m + b /\ c \in Nat
        /\ s \in Int /\ Count("slave", i) = s + b /\ d \in Nat
        /\ b \in Int
    <3>1. came["slave"][1] \div Values \in Int
      BY <2>1, <2>2, UnwrappedCount
    <3>2. b \in Int
      BY <3>1, Constant
    <3>3. QED BY <2>1, <2>2, <2>3, <3>2, UnwrappedCount
  <2>6. Difference(i) = s - m
    BY DEF Difference
  <2> HIDE DEF m, s, b, c, d
  <2>7. m + b - c \in -Wrap..Latency /\ s + b - d \in -Wrap..Latency
    <3>1. Reading(m + b, c) /\ Reading(s + b, d)
      BY <2>4, <2>5 DEF c, d
    <3>2. QED BY <2>5, <3>1, Constant DEF Reading
  <2>8. (s - m) - (d - c) \in -(Wrap + Latency)..(Wrap + Latency)
    BY <2>5, <2>7, Constant
  <2>9. QED BY <2>6, <2>8 DEF c, d
<1>2. IInv => DifferencesMeasured
  BY <1>1
<1>3. QED BY <1>2, Inductive, PTL
=============================================================================

----------------------------- MODULE ClockServo -----------------------------
(***************************************************************************)
(* The clock servo of a slave: what servo.c makes of the time stamps of    *)
(* Syncs and delay exchanges, and how its corrections move the clock.  The *)
(* arithmetic is the code's own, with its 32-bit nanoseconds, truncating   *)
(* divisions and default options.                                          *)
(*                                                                         *)
(* The clock itself is external: it gains skew every second, the interval  *)
(* of Syncs, and adjFreq() adds its argument to one tick, as ClockAdjust() *)
(* does on QNX.  The correctionField is zero and no leap second is         *)
(* pending.                                                                *)
(*                                                                         *)
(* Init, Next and the like are called ServoInit, ServoNext and so on, for  *)
(* TimeServices_proofs to extend this module beside others.                *)
(***************************************************************************)
EXTENDS Integers, FiniteSets, FiniteSetsExt

CONSTANTS
  Plants,      \* the clocks, networks and options to control: records
  Rounds,      \* bound: the seconds in which something may go wrong
  MaxFaults    \* bound: how often something goes wrong

SECOND == 1000000000
MaxInt == 2147483647
ADJ_FREQ_MAX == 512000
AP == 10
AI == 1000
S == 6

\* The times, of seconds and nanoseconds, both of which have the sign of the time.
Fractions == (1 - SECOND)..(SECOND - 1)
TimeInternal ==
  {t \in [seconds : Int, nanoseconds : Fractions] :
     /\ t.seconds >= 0 \/ t.nanoseconds <= 0
     /\ t.seconds <= 0 \/ t.nanoseconds >= 0}

ASSUME ServoAssumption ==
  /\ {Rounds, MaxFaults} \subseteq Nat
  /\ \A p \in Plants :
       /\ p.mechanism \in {"E2E", "P2P"}
       /\ p.offset \in TimeInternal
       /\ p.skew \in (-ADJ_FREQ_MAX)..ADJ_FREQ_MAX
       /\ p.delay \in 0..SECOND
       /\ p.late \subseteq 0..SECOND       \* by how much a message may be late
       /\ p.maxDelay \in 0..SECOND /\ p.maxReset \in 0..SECOND
       /\ p.noResetClock \in BOOLEAN /\ p.maxDelayAutoTune \in BOOLEAN
       /\ p.discardedPacketThreshold \in Nat \ {0}

-----------------------------------------------------------------------------
(* The arithmetic of C and of arith.c *)

Magnitude(a) == IF a < 0 THEN -a ELSE a
Quot(a, b) == IF a < 0 THEN -((-a) \div b) ELSE a \div b
Rem(a, b) == a - Quot(a, b) * b

\* Faulty variant: the accumulator is not clamped.
ClampedNot(a, most) == a

Clamped(a, most) == Min({Max({a, -most}), most})

Time(s, ns) == [seconds |-> s, nanoseconds |-> ns]
NoTime == Time(0, 0)

normalizeTime(s, ns) ==
  LET t == s + Quot(ns, SECOND)
      n == Rem(ns, SECOND)
  IN IF t > 0 /\ n < 0 THEN Time(t - 1, n + SECOND)
     ELSE IF t < 0 /\ n > 0 THEN Time(t + 1, n - SECOND)
     ELSE Time(t, n)

addTime(x, y) == normalizeTime(x.seconds + y.seconds, x.nanoseconds + y.nanoseconds)
subTime(x, y) == normalizeTime(x.seconds - y.seconds, x.nanoseconds - y.nanoseconds)
div2Time(x) ==
  normalizeTime(Quot(x.seconds, 2), Quot(x.nanoseconds + Rem(x.seconds, 2) * SECOND, 2))
Nano(n) == normalizeTime(0, n)
Positive(x) == Time(Magnitude(x.seconds), Magnitude(x.nanoseconds))

-----------------------------------------------------------------------------
VARIABLES
  plant,     \* which of the Plants it is
  theta,     \* by how much the slave's clock is ahead of the master's
  c,         \* what PtpClock and RunTimeOpts hold for the servo
  asked,     \* {}, or {theta} when the delay request was stamped
  phase,     \* what comes next: "second", "sync", "ask", "answer" or "reset"
  rounds,    \* history: seconds, counted to Rounds
  faults     \* history: messages lost, late or overtaken

servoVars == <<plant, theta, c, asked, phase, rounds, faults>>

Filter == [y : Int, nsec_prev : Fractions, s_exp : 0..2^S]
ServoData ==
  [offsetFromMaster : TimeInternal, meanPathDelay : TimeInternal,
   peerMeanPathDelay : TimeInternal, delayMS : TimeInternal, ofm_prev : Fractions,
   owd_filt : Filter, observed_drift : (-ADJ_FREQ_MAX)..ADJ_FREQ_MAX,
   offset_first_updated : BOOLEAN, maxDelay : Nat, discarded : Int]

ClearedFilter == [y |-> 0, nsec_prev |-> 0, s_exp |-> 0]

\* initClock(), which leaves the delay filter all but its stiffness.
initClock(k) ==
  [k EXCEPT !.owd_filt.s_exp = 0, !.observed_drift = 0, !.offsetFromMaster = NoTime,
            !.meanPathDelay = NoTime, !.delayMS = NoTime, !.ofm_prev = 0,
            !.offset_first_updated = FALSE]

ServoInit ==
  /\ plant \in Plants
  /\ theta = plant.offset
  /\ c = [offsetFromMaster |-> NoTime, meanPathDelay |-> NoTime,
          peerMeanPathDelay |-> NoTime, delayMS |-> NoTime, ofm_prev |-> 0,
          owd_filt |-> ClearedFilter, observed_drift |-> 0,
          offset_first_updated |-> FALSE, maxDelay |-> plant.maxDelay, discarded |-> 0]
  /\ asked = {}
  /\ phase = "second"
  /\ rounds = 0
  /\ faults = 0

-----------------------------------------------------------------------------
(* The delay *)

\* (e - 1) * y / e; the product of a filter that is too stiff overflows, and
\* what then comes out is anything.
Scaled(e, y) ==
  IF y # 0 /\ e - 1 > MaxInt \div Magnitude(y) THEN -MaxInt ELSE Quot((e - 1) * y, e)

\* Faulty variant: the filter is as stiff as it was asked to be.
StiffnessUnguarded(y) == S

\* How stiff the filter may get without overflow.
Stiffness(y) == Max({s \in 0..S : s = 0 \/ Magnitude(y) \div 2^(31 - s) = 0})

\* The filter after a measurement of ns nanoseconds.
Filtered(f, ns) ==
  LET most == 2^Stiffness(f.y)
      e == IF f.s_exp < 1 THEN 1 ELSE Min({f.s_exp + 1, most})
  IN [y |-> Scaled(e, f.y) + Quot(Quot(ns, 2) + Quot(f.nsec_prev, 2), e),
      nsec_prev |-> ns, s_exp |-> e]

\* The limit to the delay when it tunes itself; the delays discarded are counted
\* only then.
Counted(k, n) == IF plant.maxDelayAutoTune THEN [k EXCEPT !.discarded = @ + n] ELSE k
AutoTuned(k) ==
  LET many == plant.discardedPacketThreshold
  IN IF k.discarded >= many THEN [k EXCEPT !.discarded = 0, !.maxDelay = 2 * @]
     ELSE IF k.discarded < -many
          THEN [k EXCEPT !.discarded = 0,
                         !.maxDelay = IF @ \div 2 < plant.maxDelay THEN @ ELSE @ \div 2]
     ELSE k

Refused(k, sm) ==
  /\ k.maxDelay # 0
  /\ \/ sm.seconds # 0
     \/ Magnitude(sm.nanoseconds) > k.maxDelay

\* updateDelay() with the slave-to-master delay sm.
updateDelay(k, sm) ==
  LET mean == div2Time(addTime(sm, k.delayMS))
      f == Filtered(k.owd_filt, mean.nanoseconds)
      d == Counted(k, -1)
  IN IF ~k.offset_first_updated THEN AutoTuned(k)
     ELSE IF Refused(k, sm) THEN AutoTuned(Counted(k, 1))
     ELSE IF mean.seconds # 0
          THEN [d EXCEPT !.owd_filt.s_exp = 0, !.owd_filt.nsec_prev = 0]
     ELSE IF mean.nanoseconds < 0 THEN d
     ELSE AutoTuned([d EXCEPT !.owd_filt = f, !.meanPathDelay = Nano(f.y)])

\* updatePeerDelay() with the time both ways together.
updatePeerDelay(k, both) ==
  LET mean == div2Time(both)
      f == Filtered(k.owd_filt, mean.nanoseconds)
  IN IF mean.seconds # 0
     THEN [k EXCEPT !.peerMeanPathDelay = mean,
                    !.owd_filt.s_exp = 0, !.owd_filt.nsec_prev = 0]
     ELSE [k EXCEPT !.owd_filt = f, !.peerMeanPathDelay = Nano(f.y)]

-----------------------------------------------------------------------------
(* The offset *)

\* updateOffset() with the master-to-slave delay ms.
updateOffset(k, ms) ==
  LET delay == IF plant.mechanism = "P2P" THEN k.peerMeanPathDelay ELSE k.meanPathDelay
      o == subTime(ms, delay)
      d == [k EXCEPT !.delayMS = ms, !.offset_first_updated = TRUE]
  IN IF k.maxDelay # 0 /\ (ms.seconds # 0 \/ ms.nanoseconds > k.maxDelay) THEN k
     ELSE IF o.seconds # 0 THEN [d EXCEPT !.offsetFromMaster = o, !.ofm_prev = 0]
     ELSE [d EXCEPT !.ofm_prev = o.nanoseconds,
                    !.offsetFromMaster =
                        Time(0, Quot(o.nanoseconds, 2) + Quot(k.ofm_prev, 2))]

TooFar(k) ==
  /\ plant.maxReset # 0
  /\ \/ k.offsetFromMaster.seconds # 0
     \/ k.offsetFromMaster.nanoseconds > plant.maxReset

Steps(k) == k.offsetFromMaster.seconds # 0 /\ ~TooFar(k) /\ ~plant.noResetClock

\* Faulty variant: the accumulator does not accumulate.
DriftForgotten(k) ==
  LET o == k.offsetFromMaster
  IN IF TooFar(k) THEN k.observed_drift
     ELSE IF o.seconds # 0 THEN IF o.nanoseconds > 0 THEN ADJ_FREQ_MAX ELSE -ADJ_FREQ_MAX
     ELSE Clamped(Quot(o.nanoseconds, AI), ADJ_FREQ_MAX)

\* The accumulator of the integral part after this offset.
Drift(k) ==
  LET o == k.offsetFromMaster
  IN IF TooFar(k) THEN k.observed_drift
     ELSE IF o.seconds # 0 THEN IF o.nanoseconds > 0 THEN ADJ_FREQ_MAX ELSE -ADJ_FREQ_MAX
     ELSE Clamped(k.observed_drift + Quot(o.nanoseconds, AI), ADJ_FREQ_MAX)

\* What updateClock() passes to adjFreq().
Correction(k) ==
  IF TooFar(k) THEN 0
  ELSE IF k.offsetFromMaster.seconds # 0 THEN -Drift(k)
  ELSE -(Quot(k.offsetFromMaster.nanoseconds, AP) + Drift(k))

\* Faulty variant: the clock is set away from the master's.
SteppedAway(k, lost) == subTime(addTime(theta, k.offsetFromMaster), Nano(lost))

\* servo_perform_clock_step(): setTime() loses the last nanoseconds.
Stepped(k, lost) == subTime(subTime(theta, k.offsetFromMaster), Nano(lost))

-----------------------------------------------------------------------------
(* The actions *)

Fault == faults < MaxFaults /\ rounds < Rounds /\ faults' = faults + 1

\* By how much a message is late: not at all, or by a fault.
Late(by) ==
  \/ by = 0 /\ UNCHANGED faults
  \/ by \in plant.late /\ Fault

Second ==
  /\ phase = "second"
  /\ theta' = addTime(theta, Nano(plant.skew))
  /\ rounds' = Min({rounds + 1, Rounds})
  /\ phase' = "sync"
  /\ UNCHANGED <<plant, c, asked, faults>>

\* A Sync and its FollowUp arrive: handleFollowUp().
Sync(by) ==
  /\ phase = "sync"
  /\ Late(by)
  /\ LET k == updateOffset(c, addTime(theta, Nano(plant.delay + by)))
     IN \/ /\ Steps(k)
           /\ \E lost \in {0, 999} : theta' = Stepped(k, lost)
           /\ c' = initClock(k)
           /\ asked' = {}
           /\ phase' = "reset"
        \/ /\ ~Steps(k)
           /\ theta' = addTime(theta, Nano(Correction(k)))
           /\ c' = [k EXCEPT !.observed_drift = Drift(k)]
           /\ asked' = asked
           /\ phase' = IF asked = {} THEN "ask" ELSE "answer"
  /\ UNCHANGED <<plant, rounds>>

\* The step made the port FAULTY: initData() and initClock() follow.
Reset ==
  /\ phase = "reset"
  /\ c' = initClock([c EXCEPT !.peerMeanPathDelay = NoTime])
  /\ phase' = "second"
  /\ UNCHANGED <<plant, theta, asked, rounds, faults>>

\* The delay request is sent after the Sync or, by a fault, just before it.
Ask ==
  /\ asked = {}
  /\ \/ phase = "ask" /\ phase' = "answer" /\ UNCHANGED faults
     \/ phase = "sync" /\ phase' = phase /\ Fault
  /\ asked' = {theta}
  /\ UNCHANGED <<plant, theta, c, rounds>>

\* The answer to the delay request arrives, which had been late by that much:
\* handleDelayResp() or handlePDelayRespFollowUp().
Answer(by) ==
  /\ phase = "answer"
  /\ Late(by)
  /\ \E then \in asked :
       c' = IF plant.mechanism = "E2E"
            THEN updateDelay(c, subTime(Nano(plant.delay + by), then))
            ELSE updatePeerDelay(c, addTime(subTime(theta, then),
                                            addTime(Nano(plant.delay), Nano(plant.delay + by))))
  /\ asked' = {}
  /\ phase' = "second"
  /\ UNCHANGED <<plant, theta, rounds>>

\* A Sync or a message of the exchange is lost.
Lose ==
  /\ Fault
  /\ \/ phase = "sync" /\ phase' = IF asked = {} THEN "ask" ELSE "answer"
     \/ phase = "answer" /\ phase' = "second"
  /\ asked' = IF phase = "answer" THEN {} ELSE asked
  /\ UNCHANGED <<plant, theta, c, rounds>>

ServoNext ==
  \/ Second
  \/ \E by \in {0} \cup plant.late : Sync(by) \/ Answer(by)
  \/ Reset
  \/ Ask
  \/ Lose

\* Every phase comes to its end, which every phase can: time passes, and messages
\* arrive, all but MaxFaults of them.
ServoPhases == {"second", "sync", "ask", "answer", "reset"}
PhaseEnds == \E p \in ServoPhases : p # phase /\ phase' = p

ServoSpec == ServoInit /\ [][ServoNext]_servoVars /\ WF_phase(PhaseEnds)

-----------------------------------------------------------------------------
(* Properties *)

\* Every time has one sign in both fields, the accumulator of the integral part
\* is clamped and the filter never stiffer than it was asked to be.
ServoTypeOK ==
  /\ plant \in Plants
  /\ theta \in TimeInternal /\ asked \subseteq TimeInternal
  /\ c \in ServoData
  /\ phase \in ServoPhases
  /\ rounds \in 0..Rounds
  /\ faults \in 0..MaxFaults

\* Whatever the corrections of the clock do to its measurements, the delay an end
\* to end slave works with is one that can be: not negative, and below a second.
\* It would not be if the filter's product overflowed (servo.c:229).
DelayBounded ==
  /\ c.meanPathDelay.seconds = 0
  /\ c.meanPathDelay.nanoseconds >= 0

\* Of two times that are not negative, whether the first is not the later.
NotAbove(x, y) ==
  \/ x.seconds < y.seconds
  \/ x.seconds = y.seconds /\ x.nanoseconds <= y.nanoseconds

\* How far a step may miss, after a Sync that was late by that much: by the
\* network's delay, how wrongly it was measured, and the microsecond that setTime()
\* cuts off.
Miss(by) ==
  addTime(Nano(plant.delay + by),
          addTime(addTime(Positive(c.meanPathDelay), Positive(c.peerMeanPathDelay)),
                  Nano(1000)))

\* A step leaves the clock no further from the master's than that
\* (servo_perform_clock_step()).
StepLands ==
  [][phase = "sync" /\ phase' = "reset" =>
       \E by \in {0} \cup plant.late : NotAbove(Positive(theta'), Miss(by))]_servoVars

\* Once nothing goes wrong any more the servo locks: the offset it works with
\* stays below what its integral part takes notice of (updateClock()).
Settles ==
  <>[](/\ c.offsetFromMaster.seconds = 0
       /\ Magnitude(c.offsetFromMaster.nanoseconds) < AI)

=============================================================================

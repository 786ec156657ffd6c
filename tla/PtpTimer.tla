------------------------------ MODULE PtpTimer ------------------------------
(***************************************************************************)
(* dep/timer.c: the software timers that drive the protocol engine.  The   *)
(* SIGALRM handler catch_alarm() counts ticks asynchronously; the daemon   *)
(* charges them to its timers in timerUpdate(), which reads the counter    *)
(* and clears it in two steps.  Intervals are numbers of ticks.            *)
(***************************************************************************)
EXTENDS Integers

CONSTANTS
  Timer,        \* indices of the timer array
  Ticks,        \* what (interval * 1E6) / US_TIMER_INTERVAL may truncate to
  MaxAlarms     \* bound: alarms raised in one behaviour

ASSUME TicksAssumption == Ticks \subseteq Nat
ASSUME MaxAlarmsAssumption == MaxAlarms \in Nat

VARIABLES
  elapsed,      \* ticks counted by the handler and not yet taken
  itimer,       \* the array: interval (0 when stopped), left, expire
  pc,           \* where the daemon is inside timerExpired()
  index,        \* the argument of that call
  delta         \* timerUpdate()'s local copy of elapsed

\* History variables: they only observe.
VARIABLES
  alarms,       \* alarms raised so far
  budget,       \* per timer: ticks pending when it was started, plus the
                \* alarms raised since
  charged       \* per timer: ticks charged to it since it was started

code == <<elapsed, itimer, pc, index, delta>>
vars == <<elapsed, itimer, pc, index, delta, alarms, budget, charged>>

PC == {"idle", "read", "clear", "scan", "test"}

TypeOK ==
  /\ elapsed \in Nat
  /\ itimer \in [Timer -> [interval : Nat, left : Int, expire : BOOLEAN]]
  /\ pc \in PC
  /\ index \in Timer
  /\ delta \in Nat
  /\ alarms \in 0..MaxAlarms
  /\ budget \in [Timer -> Nat]
  /\ charged \in [Timer -> Nat]

Init ==
  /\ elapsed = 0
  /\ itimer = [i \in Timer |-> [interval |-> 0, left |-> 0, expire |-> FALSE]]
  /\ pc = "idle"
  /\ index \in Timer
  /\ delta = 0
  /\ alarms = 0
  /\ budget = [i \in Timer |-> 0]
  /\ charged = [i \in Timer |-> 0]

-----------------------------------------------------------------------------
\* The signal handler may run between any two steps of the daemon.
catch_alarm ==
  /\ alarms < MaxAlarms
  /\ elapsed' = elapsed + 1
  /\ alarms' = alarms + 1
  /\ budget' = [i \in Timer |-> budget[i] + 1]
  /\ UNCHANGED <<itimer, pc, index, delta, charged>>

\* initTimer() restarts the tick source and discards the pending ticks; the
\* timer array is left as it is.
initTimer ==
  /\ pc = "idle"
  /\ elapsed' = 0
  /\ budget' = charged
  /\ UNCHANGED <<itimer, pc, index, delta, alarms, charged>>

\* Faulty variant: a latched expiration survives timerStart().
timerStartLatched(i, ticks) ==
  /\ pc = "idle"
  /\ LET left == IF ticks = 0 THEN 1 ELSE ticks IN
       itimer' = [itimer EXCEPT ![i].interval = left, ![i].left = left]
  /\ budget' = [budget EXCEPT ![i] = elapsed]
  /\ charged' = [charged EXCEPT ![i] = 0]
  /\ UNCHANGED <<elapsed, pc, index, delta, alarms>>

\* An interval below one tick is raised to one.
timerStart(i, ticks) ==
  /\ pc = "idle"
  /\ LET left == IF ticks = 0 THEN 1 ELSE ticks IN
       itimer' = [itimer EXCEPT ![i] =
                    [interval |-> left, left |-> left, expire |-> FALSE]]
  /\ budget' = [budget EXCEPT ![i] = elapsed]
  /\ charged' = [charged EXCEPT ![i] = 0]
  /\ UNCHANGED <<elapsed, pc, index, delta, alarms>>

timerStop(i) ==
  /\ pc = "idle"
  /\ itimer' = [itimer EXCEPT ![i].interval = 0]
  /\ UNCHANGED <<elapsed, pc, index, delta, alarms, budget, charged>>

\* timerExpired(i) calls timerUpdate(), then tests and clears expire.
timerExpired(i) ==
  /\ pc = "idle"
  /\ index' = i
  /\ pc' = "read"
  /\ UNCHANGED <<elapsed, itimer, delta, alarms, budget, charged>>

ReadElapsed ==
  /\ pc = "read"
  /\ delta' = elapsed
  /\ pc' = "clear"
  /\ UNCHANGED <<elapsed, itimer, index, alarms, budget, charged>>

\* Faulty variant: the ticks are read and left.
ClearNothing ==
  /\ pc = "clear"
  /\ pc' = IF delta <= 0 THEN "test" ELSE "scan"
  /\ UNCHANGED <<elapsed, itimer, index, delta, alarms, budget, charged>>

ClearElapsed ==
  /\ pc = "clear"
  /\ elapsed' = 0
  /\ pc' = IF delta <= 0 THEN "test" ELSE "scan"
  /\ UNCHANGED <<itimer, index, delta, alarms, budget, charged>>

\* Faulty variant: stopped timers run too.
AdvanceStopped(t) ==
  IF t.left - delta <= 0
    THEN [interval |-> t.interval, left |-> t.interval, expire |-> TRUE]
    ELSE [t EXCEPT !.left = @ - delta]

\* One timer after delta ticks: rearmed at its original interval, with the
\* overshoot forgotten, once it has run out.
Advance(t) ==
  IF t.interval > 0 /\ t.left - delta <= 0
    THEN [interval |-> t.interval, left |-> t.interval, expire |-> TRUE]
    ELSE [t EXCEPT !.left = IF t.interval > 0 THEN @ - delta ELSE @]

\* The loop over the array; the handler does not touch the array, so the
\* whole loop is one step.
ScanTimers ==
  /\ pc = "scan"
  /\ itimer' = [i \in Timer |-> Advance(itimer[i])]
  /\ charged' = [i \in Timer |-> charged[i] + delta]
  /\ pc' = "test"
  /\ UNCHANGED <<elapsed, index, delta, alarms, budget>>

\* The call returns the latched expiration and clears it.
TestExpire ==
  /\ pc = "test"
  /\ itimer' = [itimer EXCEPT ![index].expire = FALSE]
  /\ pc' = "idle"
  /\ UNCHANGED <<elapsed, index, delta, alarms, budget, charged>>

timerUpdate == ReadElapsed \/ ClearElapsed \/ ScanTimers

Next ==
  \/ catch_alarm
  \/ initTimer
  \/ timerUpdate
  \/ TestExpire
  \/ \E i \in Timer : timerStop(i) \/ timerExpired(i)
  \/ \E i \in Timer, ticks \in Ticks : timerStart(i, ticks)

Spec == Init /\ [][Next]_vars

-----------------------------------------------------------------------------
(* Properties *)

\* Ticks the daemon has taken out of elapsed but not yet charged.
InTransit == IF pc = "scan" THEN delta ELSE 0

\* A running timer always has between one tick and its whole interval left,
\* whatever number of ticks one timerUpdate() takes: it can neither get stuck
\* at or below zero nor run longer than it was started for.
LeftWithinInterval ==
  \A i \in Timer :
    itimer[i].interval > 0 => itimer[i].left \in 1..itimer[i].interval

\* The ticks charged to a timer, in transit to it or pending never exceed the
\* alarms raised since timerStart() plus those that were pending at that moment.
TicksAccounted ==
  \A i \in Timer : charged[i] + InTransit + elapsed <= budget[i]

\* No expiration is invented: one is latched for a running timer only after its
\* whole interval of ticks; what was pending in elapsed when timerStart() ran,
\* which timerStart() does not flush, is all by which a timer can be early.
NeverEarlierThanPending ==
  \A i \in Timer :
    itimer[i].interval > 0 /\ itimer[i].expire => itimer[i].interval <= budget[i]

\* The caller's view of the array.
Abstract == [i \in Timer |-> [running |-> itimer[i].interval > 0,
                              expire  |-> itimer[i].expire]]

Service == INSTANCE TimerService WITH timers <- Abstract

\* The tick-counting timers implement the timer service.
ImplementsService == Service!Spec
=============================================================================

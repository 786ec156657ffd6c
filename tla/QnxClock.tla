------------------------------ MODULE QnxClock ------------------------------
(***************************************************************************)
(* The time of day as the patch reads it on QNX 6.5.  The kernel's clock   *)
(* moves once per tick; an interrupt handler notes at every tick where the *)
(* clock and the processor's cycle counter stood and how far both moved,   *)
(* and getTime() extrapolates from its notes to the cycle it is called in. *)
(* The notes are five words that getTime() copies one after the other      *)
(* while the handler may interrupt it.                                     *)
(*                                                                         *)
(* Units are chosen so that a tick is a few cycles and a few nanoseconds.  *)
(* The 64-bit words wrap at Word.  A word is copied at once: its halves    *)
(* differ from each other only every 2^32 units.                           *)
(*                                                                         *)
(* Init, Next and the like are called ClockInit, ClockNext and so on, for  *)
(* TimeServices_proofs to extend this module beside others.                *)
(***************************************************************************)
EXTENDS Integers, Sequences

CONSTANTS
  Cycles,       \* cycles between two ticks
  Nanos,        \* nanoseconds the kernel's clock gains per tick
  Latency,      \* cycles by which the tick's interrupt may come late
  Phases,       \* bound: the cycles after a tick at which anything happens
  Adjustments,  \* what adjFreq() may be called with, never more than a tick
  Jumps,        \* by how much setTime() may change the clock
  Start,        \* the clock when the daemon starts
  Word,         \* how many values a word has: 2^64 in the code
  MaxTicks,     \* bound: ticks
  MaxTorn,      \* bound: ticks during one getTime()
  MaxSets       \* bound: calls of setTime() and adjFreq()

ASSUME ClockAssumption ==
  /\ {Cycles, Nanos} \subseteq Nat \ {0}
  /\ Latency \in 0..(Cycles - 1)
  /\ Phases \subseteq 0..(Cycles + Latency)
  /\ Adjustments \subseteq (-Nanos)..Nanos
  /\ Jumps \subseteq Int
  /\ {Start, Word, MaxTicks, MaxTorn, MaxSets} \subseteq Nat
  /\ Word > 0

\* A word has room for the time over which getTime() extrapolates.
ASSUME WordsAreWide == Word > 2 * (MaxTorn + 2) * Nanos

\* Faulty variant: the first step is taken for a whole one.
HandlerCallsOne == 1

MIN_HANDLER_CALLS == 2

\* no_page_area, and the order of its words.
Fields == {"int_count", "last_tsc", "tsc_step", "last_clock", "clock_step"}
Notes == [Fields -> Nat]
NoNotes == [f \in Fields |-> 0]
Words == <<"int_count", "last_tsc", "tsc_step", "last_clock", "clock_step">>

\* What getTime() returned, the time it should have returned, the ticks that came
\* during the call, and how rough its copy of tsc_step was.
Reading == [time : Nat, now : Int, torn : Nat, rough : Nat]

VARIABLES
  tsc,        \* ClockCycles()
  due,        \* the cycle of the next tick; 0 is that of the last before it starts
  clock,      \* the kernel's clock, in nanoseconds
  inc,        \* what ClockAdjust() adds to the next tick
  area,       \* the handler's notes
  at,         \* "start", "idle", "copy" or "extrapolate": where the daemon is
  a,          \* getTime()'s copy of the notes
  copied,     \* how many words of them it has copied
  torn,       \* history: ticks since getTime() was called
  result,     \* history: {} or what the last getTime() returned, and when
  ticks,      \* history: ticks since the daemon attached the handler
  steady,     \* history: ticks since the clock was last set or adjusted
  rough,      \* history: what is left of the first step in tsc_step, in the
              \* handler's notes and in the copy
  sets        \* history: calls of setTime() and adjFreq()

kernel == <<tsc, due, clock, inc>>
reader == <<at, a, copied, torn, result>>
history == <<ticks, steady, sets, rough>>
clockVars == <<kernel, area, reader, history>>

\* The time of day at this cycle, to which the clock will have moved when the
\* next tick comes.
Phase == tsc - (due - Cycles)
Now == clock + (Phase * Nanos) \div Cycles

ClockInit ==
  /\ tsc \in Phases
  /\ due = Cycles
  /\ clock = Start
  /\ inc = 0
  /\ area = NoNotes
  /\ at = "start"
  /\ a = NoNotes
  /\ copied = 0
  /\ torn = 0
  /\ result = {}
  /\ ticks = 0
  /\ steady = 0
  /\ sets = 0
  /\ rough = [notes |-> Cycles, copy |-> Cycles]

-----------------------------------------------------------------------------
(* The processor and the kernel *)

\* Cycles pass; the tick's interrupt is served at most Latency cycles late.
Pass ==
  /\ \E phase \in Phases : phase > Phase /\ tsc' = due - Cycles + phase
  /\ result' = {}
  /\ UNCHANGED <<due, clock, inc, area, at, a, copied, torn, history>>

\* Faulty variant: the weights do not add up.
SmoothedTwice(old, new) ==
  LET f == IF old = 0 THEN 0 ELSE 40
  IN (f * old + 100 * new) \div 100

\* The weighted mean of the old and the new number of cycles per tick.
Smoothed(old, new) ==
  LET f == IF old = 0 THEN 0 ELSE 40
  IN (f * old + (100 - f) * new) \div 100

\* A number as an unsigned word: a step backward becomes a huge one forward.
Wrapped(n) == n % Word

\* timer_handler(), which finds the clock at now.
timer_handler(now) ==
  area' = [int_count  |-> IF area.int_count < MIN_HANDLER_CALLS THEN area.int_count + 1
                          ELSE area.int_count,
           last_tsc   |-> tsc,
           tsc_step   |-> Smoothed(area.tsc_step, tsc - area.last_tsc),
           last_clock |-> Wrapped(now),
           clock_step |-> Wrapped(now - area.last_clock)]

Tick ==
  /\ at # "start"
  /\ tsc \in due..(due + Latency)
  /\ ticks < MaxTicks /\ torn < MaxTorn
  /\ due' = due + Cycles
  /\ clock' = clock + Nanos + inc
  /\ inc' = 0
  /\ timer_handler(clock')
  /\ ticks' = ticks + 1
  /\ torn' = IF at \in {"copy", "extrapolate"} THEN torn + 1 ELSE 0
  /\ steady' = steady + 1
  /\ rough' = [rough EXCEPT !.notes = IF area.int_count = 0 THEN Cycles ELSE (2 * @) \div 5]
  /\ result' = {}
  /\ UNCHANGED <<tsc, at, a, copied, sets>>

-----------------------------------------------------------------------------
(* The daemon *)

\* The first getTime() attaches the handler and returns the kernel's clock.
Attach ==
  /\ at = "start"
  /\ at' = "idle"
  /\ area' = [area EXCEPT !.last_tsc = tsc, !.last_clock = Wrapped(clock)]
  /\ result' = {}
  /\ UNCHANGED <<kernel, a, copied, torn, history>>

Call ==
  /\ at = "idle"
  /\ at' = "copy"
  /\ result' = {}
  /\ UNCHANGED <<kernel, area, a, copied, torn, history>>

\* memcpy(), one word.
Copy ==
  /\ at = "copy"
  /\ a' = [a EXCEPT ![Words[copied + 1]] = area[Words[copied + 1]]]
  /\ copied' = copied + 1
  /\ at' = IF copied' = 5 THEN "extrapolate" ELSE "copy"
  /\ rough' = IF Words[copied'] = "tsc_step" THEN [rough EXCEPT !.copy = rough.notes]
              ELSE rough
  /\ result' = {}
  /\ UNCHANGED <<kernel, area, torn, ticks, steady, sets>>

\* (uint64_t)(step_part * clock_step), where a double of 2^64 or more converts to
\* whatever the processor makes of it.
Offsets ==
  LET exact == ((tsc - a.last_tsc) * a.clock_step) \div a.tsc_step
  IN IF a.int_count < MIN_HANDLER_CALLS THEN {0}
     ELSE IF exact < Word THEN {exact} ELSE {0, Word \div 2, Word - 1}

Extrapolate ==
  /\ at = "extrapolate"
  /\ at' = "idle"
  /\ \E offset \in Offsets :
       result' = {[time |-> Wrapped(a.last_clock + offset), now |-> Now,
                    torn |-> torn, rough |-> rough.copy]}
  /\ a' = NoNotes      \* all dead until the next call
  /\ copied' = 0
  /\ torn' = 0
  /\ UNCHANGED <<kernel, area, history>>

Sets ==
  /\ at = "idle"
  /\ sets < MaxSets
  /\ sets' = sets + 1
  /\ steady' = 0
  /\ result' = {}
  /\ UNCHANGED <<tsc, due, area, at, a, copied, torn, ticks, rough>>

\* settimeofday(): at once, while the handler's notes are of the last tick.
setTime ==
  /\ Sets
  /\ \E j \in Jumps : clock' = clock + j
  /\ UNCHANGED inc

\* ClockAdjust() with a tick_count of 1.
adjFreq ==
  /\ Sets
  /\ \E adj \in Adjustments : inc' = adj
  /\ UNCHANGED clock

ClockNext == Pass \/ Tick \/ Attach \/ Call \/ Copy \/ Extrapolate \/ setTime \/ adjFreq

ClockSpec == ClockInit /\ [][ClockNext]_clockVars

-----------------------------------------------------------------------------
(* Properties *)

\* Every variable keeps to its type.
ClockTypeOK ==
  /\ {tsc, due} \subseteq Nat
  /\ {clock, inc} \subseteq Int
  /\ area \in Notes
  /\ at \in {"start", "idle", "copy", "extrapolate"}
  /\ a \in Notes
  /\ copied \in 0..5
  /\ result \subseteq Reading
  /\ {torn, ticks, steady, sets} \subseteq Nat
  /\ rough \in [notes : Nat, copy : Nat]

\* By how many cycles the measured length of a tick may be off: two interrupts may
\* be late, the mean is rounded at every tick, and the first step, from wherever in
\* the tick the daemon attached the handler, is forgotten by three fifths a tick.
StepError(left) == Latency + 3 + left

\* By how many nanoseconds a reading may be off: by the ticks that came during the
\* call, by the error of the step over all the cycles extrapolated, by the lateness
\* of the interrupt that is extrapolated from, and by the roundings.
Tolerance(missed, left) ==
  LET e == StepError(left)
  IN missed * Nanos
       + (((missed + 1) * Cycles + Latency) * Nanos * e) \div ((Cycles - e) * Cycles)
       + (Latency * Nanos) \div Cycles + 2

\* Once the clock was left alone for two ticks and the length of a tick is known to
\* within a half, getTime() returns the time of day, wherever in the tick it is
\* called, even with a copy of the notes that mixes ticks since the handler
\* interrupted it.
ReadsTrue ==
  \A r \in result :
    steady - r.torn >= 2 /\ 2 * StepError(r.rough) <= Cycles =>
      \/ Wrapped(r.time - r.now) <= Tolerance(r.torn, r.rough)
      \/ Wrapped(r.now - r.time) <= Tolerance(r.torn, r.rough)

\* The cycles are never divided by a step of zero: not before the first ticks, not
\* when the daemon attaches right before one, and not with a torn copy.
NeverDividesByZero ==
  at = "extrapolate" /\ a.int_count >= MIN_HANDLER_CALLS => a.tsc_step > 0
=============================================================================

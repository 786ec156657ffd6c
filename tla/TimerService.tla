---------------------------- MODULE TimerService ----------------------------
(***************************************************************************)
(* What dep/timer.c promises to protocol.c: timers are started, stopped    *)
(* and polled; a running timer may become due at any moment, its           *)
(* expiration is latched, and a poll reports a latched expiration once.    *)
(* PtpTimer, the tick-counting implementation, refines this specification. *)
(***************************************************************************)
EXTENDS IntervalTimers

VARIABLE timers

Init == timers = IdleTimers

Start(i) == timers' = Started(timers, i)

Stop(i) == timers' = Stopped(timers, {i})

\* Any set of running timers becomes due; nothing else may be latched.
ComeDue == \E due \in SUBSET Running(timers) : timers' = Latched(timers, due)

Report(i) ==
  /\ timers[i].expire
  /\ timers' = Consumed(timers, i)

Next == ComeDue \/ \E i \in Timer : Start(i) \/ Stop(i) \/ Report(i)

Spec == Init /\ [][Next]_timers
=============================================================================

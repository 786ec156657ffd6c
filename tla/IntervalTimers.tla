--------------------------- MODULE IntervalTimers ---------------------------
(***************************************************************************)
(* The four operations the daemon performs on its array of software timers *)
(* (dep/timer.c), seen from the caller: how many ticks are left is hidden, *)
(* what remains is whether a timer is running and whether an expiration of *)
(* it is latched.  The operators are functions from one timer array to the *)
(* next, so that a handler that makes several timer calls composes them.   *)
(***************************************************************************)
CONSTANT Timer                  \* indices of the timer array

TimerState == [running : BOOLEAN, expire : BOOLEAN]

TimerArray == [Timer -> TimerState]

\* The calloc'ed array of a process that has just started.
IdleTimers == [i \in Timer |-> [running |-> FALSE, expire |-> FALSE]]

Running(it) == {i \in Timer : it[i].running}

\* timerStart() forgets a latched expiration.
Started(it, i) == [it EXCEPT ![i] = [running |-> TRUE, expire |-> FALSE]]

\* timerStop(), of each timer in S, only zeroes the interval: a latched
\* expiration survives it.
Stopped(it, S) ==
  [i \in Timer |-> [running |-> it[i].running /\ i \notin S,
                    expire  |-> it[i].expire]]

\* timerUpdate() latches the expiration of the running timers in due.
Latched(it, due) ==
  [i \in Timer |-> [running |-> it[i].running,
                    expire  |-> it[i].expire \/ i \in due]]

\* The tail of timerExpired(i), which reports expire and clears it.
Consumed(it, i) == [it EXCEPT ![i].expire = FALSE]
=============================================================================

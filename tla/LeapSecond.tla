----------------------------- MODULE LeapSecond -----------------------------
(***************************************************************************)
(* The pause around a leap second: s1() learns of it from the parent's     *)
(* flags, doState() stops the clock's updates shortly before midnight and  *)
(* starts a timer, and the first Announce after the timer has expired lets *)
(* them go on.                                                             *)
(*                                                                         *)
(* Time is counted in seconds, of a day that is short; an iteration of     *)
(* protocol() takes less than a second.  Who is followed is PtpPort's      *)
(* subject: here any decision may be taken and any timeout may happen.     *)
(* LISTENING stands for PASSIVE as well, and FAULTY for INITIALIZING.      *)
(***************************************************************************)
EXTENDS Integers

CONSTANTS
  Masters,
  Day,              \* seconds from midnight to midnight
  Pause,            \* getPauseAfterMidnight()
  Kind              \* the leap second to come: 61, an added one, or 59

ASSUME LeapAssumption ==
  /\ Day \in Nat /\ Pause \in Nat \ {0} /\ Pause < Day
  /\ Kind \in {59, 61}

\* The flags LI59 and LI61 an Announce may carry: both are an error.
Both == {59, 61}
Flags == {{}, {Kind}, Both}

VARIABLES
  portState, parent,
  announced,                \* the flags last received from each master
  leap,                     \* those of leap59 and leap61 that are set
  leapSecondPending, leapSecondInProgress,
  timer,                    \* LEAP_SECOND_PAUSE_TIMER: running, seconds left
  clock,                    \* this clock's time of the day
  pc,                       \* position in the iteration of protocol()
  sinceMidnight             \* history: seconds since the first midnight after
                            \* the last pause began, at most Pause + 1

following == <<portState, parent>>
flags == <<announced, leap>>
pause == <<leapSecondPending, leapSecondInProgress, timer>>
time == <<clock, sinceMidnight>>
vars == <<following, flags, pause, time, pc>>

States == {"LISTENING", "SLAVE", "MASTER", "FAULTY"}
PC == {"decide", "handle", "poll", "masterPoll", "between"}
None == -1
Stopped == [running |-> FALSE, left |-> 0]

Init ==
  /\ portState = "LISTENING"
  /\ parent \in Masters
  /\ announced = [m \in Masters |-> {}]
  /\ leap = {}
  /\ leapSecondPending = FALSE
  /\ leapSecondInProgress = FALSE
  /\ timer = Stopped
  /\ clock \in 0..(Day - 1)
  /\ pc = "decide"
  /\ sinceMidnight = None

-----------------------------------------------------------------------------
(* s1(), the leap second part, of a slave *)

\* A flag of the pending leap second is gone, or another has come.
Aborted(f) == leapSecondPending /\ ~leapSecondInProgress /\ f # leap

\* A flag has come, or is lit with nothing pending.
Raised(f) ==
  \/ f \ leap # {}
  \/ f # {} /\ ~leapSecondInProgress /\ (~leapSecondPending \/ Aborted(f))

\* Faulty variant: any flag makes the leap second pending.
PendingIfLit(f) ==
  IF f = Both THEN leapSecondPending
  ELSE f # {} \/ (leapSecondPending /\ ~Aborted(f))

\* Both flags are an error, noticed before anything else is done.
Pending(f) ==
  IF f = Both THEN leapSecondPending
  ELSE Raised(f) \/ (leapSecondPending /\ ~Aborted(f))

s1(f) ==
  /\ leapSecondPending' = Pending(f)
  /\ timer' = IF Aborted(f) /\ f # Both THEN Stopped ELSE timer

-----------------------------------------------------------------------------
(* An iteration: decision, message, timers *)

\* A fault is cleared: the port is initialised, the pause is not.
doInit ==
  /\ pc = "decide" /\ portState = "FAULTY"
  /\ portState' = "LISTENING"
  /\ pc' = "between"
  /\ UNCHANGED <<parent, flags, pause, time>>

NoDecision ==
  /\ pc = "decide" /\ portState # "FAULTY"
  /\ pc' = "handle"
  /\ UNCHANGED <<following, flags, pause, time>>

\* bmc() decides for master m, whose last Announce is in the table: s1() looks
\* at its flags only if the port has been a slave.  The fault of both flags is
\* overwritten by the toState(PTP_SLAVE) that follows.
DecideSlave(m) ==
  /\ pc = "decide" /\ portState # "FAULTY"
  /\ IF portState = "SLAVE" THEN s1(announced[m]) /\ leap' = announced[m]
     ELSE UNCHANGED <<leap, leapSecondPending, timer>>
  /\ portState' = "SLAVE"
  /\ parent' = m
  /\ pc' = "handle"
  /\ UNCHANGED <<announced, leapSecondInProgress, time>>

DecideMaster ==
  /\ pc = "decide" /\ portState # "FAULTY"
  /\ portState' = "MASTER"
  /\ pc' = "handle"
  /\ UNCHANGED <<parent, flags, pause, time>>

AfterHandle == IF portState = "MASTER" THEN "masterPoll" ELSE "poll"

\* During a pause no master raises a flag it has not raised before.
MayAnnounce(m, f) == leapSecondInProgress => f \subseteq announced[m]

\* handleAnnounce(): the parent's, to a slave.  The first one after the timer
\* ends the pause.
AnnounceFromParent(f) ==
  /\ pc = "handle" /\ portState = "SLAVE"
  /\ MayAnnounce(parent, f)
  /\ announced' = [announced EXCEPT ![parent] = f]
  /\ s1(f)
  /\ LET over == leapSecondInProgress /\ ~Pending(f)
     IN  /\ leap' = IF over THEN {} ELSE f
         /\ leapSecondInProgress' = (leapSecondInProgress /\ ~over)
  /\ portState' = IF f = Both THEN "FAULTY" ELSE "SLAVE"
  /\ pc' = "poll"
  /\ UNCHANGED <<parent, time>>

\* Any other Announce is for the table.
AnnounceFromOther(m, f) ==
  /\ pc = "handle"
  /\ ~(portState = "SLAVE" /\ m = parent)
  /\ MayAnnounce(m, f)
  /\ announced' = [announced EXCEPT ![m] = f]
  /\ pc' = AfterHandle
  /\ UNCHANGED <<following, leap, pause, time>>

NoAnnounce ==
  /\ pc = "handle"
  /\ pc' = AfterHandle
  /\ UNCHANGED <<following, flags, pause, time>>

\* What handlers and timeouts of the same iteration make of the state.
Drifts(states) ==
  /\ portState' \in {portState} \cup states
  /\ pc' = "between"
  /\ UNCHANGED <<parent, flags, clock>>

Due == timer.running /\ timer.left = 0

secondsToMidnight == Day - clock

\* Faulty variant: the pause starts one second late.
ImminentLate ==
  leapSecondPending /\ ~leapSecondInProgress /\ secondsToMidnight < Pause

Imminent ==
  leapSecondPending /\ ~leapSecondInProgress /\ secondsToMidnight <= Pause

\* Faulty variant: the second added is forgotten.
PauseTimerShort == [running |-> TRUE, left |-> secondsToMidnight + Pause]

PauseTimer ==
  [running |-> TRUE,
   left |-> secondsToMidnight + (IF 61 \in leap THEN 1 ELSE 0) + Pause]

\* Faulty variant: the leap second stays pending.
PauseOverPending ==
  /\ pc = "poll" /\ Due /\ leapSecondInProgress
  /\ timer' = Stopped
  /\ UNCHANGED <<leapSecondPending, leapSecondInProgress, sinceMidnight>>
  /\ Drifts({"LISTENING", "MASTER", "FAULTY"})

PauseOver ==
  /\ pc = "poll" /\ Due /\ leapSecondInProgress
  /\ leapSecondPending' = FALSE
  /\ timer' = Stopped
  /\ UNCHANGED <<leapSecondInProgress, sinceMidnight>>
  /\ Drifts({"LISTENING", "MASTER", "FAULTY"})

PauseBegins ==
  /\ pc = "poll" /\ Imminent
  /\ leapSecondInProgress' = TRUE
  /\ timer' = PauseTimer
  /\ sinceMidnight' = None
  /\ UNCHANGED leapSecondPending
  /\ Drifts({"LISTENING", "MASTER", "FAULTY"})

PauseGoesOn ==
  /\ pc = "poll" /\ ~Imminent /\ ~(Due /\ leapSecondInProgress)
  /\ UNCHANGED <<pause, sinceMidnight>>
  /\ Drifts({"LISTENING", "MASTER", "FAULTY"})

\* A master does not look at the timer.
MasterPoll ==
  /\ pc = "masterPoll"
  /\ UNCHANGED <<pause, sinceMidnight>>
  /\ Drifts({"LISTENING", "FAULTY"})

NoTick ==
  /\ pc = "between"
  /\ pc' = "decide"
  /\ UNCHANGED <<following, flags, pause, time>>

\* A second passes.  An expiration stays latched until it is looked at.
Tick ==
  /\ pc = "between"
  /\ pc' = "decide"
  /\ clock' = IF clock = Day - 1 THEN 0 ELSE clock + 1
  /\ timer' = [timer EXCEPT !.left = IF @ > 0 THEN @ - 1 ELSE 0]
  /\ sinceMidnight' = CASE sinceMidnight \in 0..Pause -> sinceMidnight + 1
                        [] sinceMidnight = None /\ clock = Day - 1 -> 0
                        [] OTHER -> sinceMidnight
  /\ UNCHANGED <<following, flags, leapSecondPending, leapSecondInProgress>>

Next ==
  \/ doInit
  \/ NoDecision
  \/ \E m \in Masters : DecideSlave(m)
  \/ DecideMaster
  \/ \E f \in Flags : AnnounceFromParent(f)
  \/ \E m \in Masters, f \in Flags : AnnounceFromOther(m, f)
  \/ NoAnnounce
  \/ PauseOver
  \/ PauseBegins
  \/ PauseGoesOn
  \/ MasterPoll
  \/ NoTick
  \/ Tick

Spec == Init /\ [][Next]_vars

\* The daemon keeps running, and time passes.
FairSpec == Spec /\ WF_vars(Next) /\ SF_vars(Tick)

-----------------------------------------------------------------------------
(* Properties *)

\* Every variable keeps to its type; the pause timer is never started for more
\* than the pause on both sides of midnight and the second added.
TypeOK ==
  /\ portState \in States
  /\ parent \in Masters
  /\ announced \in [Masters -> Flags]
  /\ leap \in Flags
  /\ leapSecondPending \in BOOLEAN
  /\ leapSecondInProgress \in BOOLEAN
  /\ timer \in [running : BOOLEAN, left : 0..(2 * Pause + 1)]
  /\ clock \in 0..(Day - 1)
  /\ pc \in PC
  /\ sinceMidnight \in {None} \cup 0..(Pause + 1)

\* No slave that knows of a leap second updates its clock in the last seconds
\* before midnight, however late it has learnt of it and wherever it has been.
WindowPaused ==
  pc = "between" /\ portState = "SLAVE" /\ leapSecondPending
    /\ secondsToMidnight <= Pause
  => leapSecondInProgress

\* The clock is not updated again before the pause after midnight is over, with
\* the second that was added.
PauseLastsLong ==
  [][leapSecondInProgress /\ ~leapSecondInProgress' =>
       sinceMidnight >= Pause + (IF Kind = 61 THEN 1 ELSE 0)]_vars

\* A pause that waits for its end has a timer that will end it: starting one is
\* for a pause that has not begun, so nothing else could.
PauseCanEnd == leapSecondInProgress /\ leapSecondPending => timer.running

\* protocol.c:451: "just indicate and it will be unpaused in handleAnnounce()".
\* Every pause ends if the slave goes on hearing its parent.
PauseEnds ==
  []<><<\E f \in Flags : AnnounceFromParent(f)>>_vars =>
    (leapSecondInProgress ~> ~leapSecondInProgress)
=============================================================================

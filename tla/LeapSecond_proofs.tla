-------------------------- MODULE LeapSecond_proofs --------------------------
(***************************************************************************)
(* Proofs about LeapSecond for any length of the day and of the pause.     *)
(* LengthInv keeps account of a pause: what its timer has left and what has *)
(* passed since midnight make up its length.  That a pause can always end  *)
(* needs that the slave knows the flag of every master (FlagsKnown), which *)
(* is so if there is only one.                                             *)
(***************************************************************************)
EXTENDS LeapSecond, TLAPS

LEMMA TypeInit == Init => TypeOK
<1> SUFFICES ASSUME Init PROVE TypeOK
  OBVIOUS
<1>1. {} \in Flags
  BY DEF Flags
<1>2. announced \in [Masters -> Flags] /\ leap \in Flags
  BY <1>1 DEF Init
<1>3. timer \in [running : BOOLEAN, left : 0..(2 * Pause + 1)]
  BY LeapAssumption DEF Init, Stopped
<1>4. QED BY <1>2, <1>3 DEF Init, TypeOK, States, PC, None

\* What s1() does keeps to the types.
LEMMA PendingType == ASSUME TypeOK, NEW f PROVE Pending(f) \in BOOLEAN
BY DEF Pending, Raised, Aborted, TypeOK

LEMMA TypeStep == TypeOK /\ [Next]_vars => TypeOK'
<1> SUFFICES ASSUME TypeOK, [Next]_vars PROVE TypeOK'
  OBVIOUS
<1>0. Stopped \in [running : BOOLEAN, left : 0..(2 * Pause + 1)]
  BY LeapAssumption DEF Stopped
<1> USE DEF TypeOK
<1>1. CASE doInit
  BY <1>1 DEF doInit, flags, pause, time, States, PC
<1>2. CASE NoDecision
  BY <1>2 DEF NoDecision, following, flags, pause, time, PC
<1>3. ASSUME NEW m \in Masters, DecideSlave(m) PROVE TypeOK'
  <2>1. leapSecondPending' \in BOOLEAN
    BY <1>3, PendingType DEF DecideSlave, s1
  <2>2. timer' = timer \/ timer' = Stopped
    BY <1>3 DEF DecideSlave, s1
  <2>3. leap' \in Flags /\ announced' = announced
    BY <1>3 DEF DecideSlave
  <2>4. QED
    BY <1>0, <1>3, <2>1, <2>2, <2>3 DEF DecideSlave, time, States, PC
<1>4. CASE DecideMaster
  BY <1>4 DEF DecideMaster, flags, pause, time, States, PC
<1>5. ASSUME NEW f \in Flags, AnnounceFromParent(f) PROVE TypeOK'
  <2>1. leapSecondPending' \in BOOLEAN /\ leapSecondInProgress' \in BOOLEAN
    BY <1>5, PendingType DEF AnnounceFromParent, s1
  <2>2. timer' = timer \/ timer' = Stopped
    BY <1>5 DEF AnnounceFromParent, s1
  <2>3. leap' \in Flags
    BY <1>5 DEF AnnounceFromParent, Flags
  <2>4. announced' \in [Masters -> Flags]
    BY <1>5 DEF AnnounceFromParent
  <2>5. portState' \in States /\ pc' \in PC /\ UNCHANGED <<parent, time>>
    BY <1>5 DEF AnnounceFromParent, States, PC
  <2>6. QED BY <1>0, <2>1, <2>2, <2>3, <2>4, <2>5 DEF time
<1>6. ASSUME NEW m \in Masters, NEW f \in Flags, AnnounceFromOther(m, f)
      PROVE  TypeOK'
  BY <1>6 DEF AnnounceFromOther, AfterHandle, following, pause, time, PC
<1>7. CASE NoAnnounce
  BY <1>7 DEF NoAnnounce, AfterHandle, following, flags, pause, time, PC
<1>8. CASE PauseOver
  BY <1>0, <1>8 DEF PauseOver, Drifts, flags, States, PC
<1>9. CASE PauseBegins
  <2>1. PauseTimer \in [running : BOOLEAN, left : 0..(2 * Pause + 1)]
    BY <1>9, LeapAssumption DEF PauseBegins, PauseTimer, Imminent, secondsToMidnight
  <2>2. QED BY <1>9, <2>1 DEF PauseBegins, Drifts, flags, States, PC, None
<1>10. CASE PauseGoesOn
  BY <1>10 DEF PauseGoesOn, Drifts, flags, pause, States, PC
<1>11. CASE MasterPoll
  BY <1>11 DEF MasterPoll, Drifts, flags, pause, States, PC
<1>12. CASE NoTick
  BY <1>12 DEF NoTick, following, flags, pause, time, PC
<1>13. CASE Tick
  <2>1. clock' \in 0..(Day - 1)
    BY <1>13, LeapAssumption DEF Tick
  <2>2. timer' \in [running : BOOLEAN, left : 0..(2 * Pause + 1)]
    BY <1>13, LeapAssumption DEF Tick
  <2>3. sinceMidnight' \in {None} \cup 0..(Pause + 1)
    BY <1>13, LeapAssumption DEF Tick, None
  <2>4. QED BY <1>13, <2>1, <2>2, <2>3 DEF Tick, following, flags, PC
<1>14. CASE UNCHANGED vars
  BY <1>14 DEF vars, following, flags, pause, time
<1>15. QED
  BY <1>1, <1>2, <1>3, <1>4, <1>5, <1>6, <1>7, <1>8, <1>9, <1>10, <1>11, <1>12,
     <1>13, <1>14 DEF Next

\* The leap second pause keeps to its types.
THEOREM TypeCorrect == Spec => []TypeOK
BY TypeInit, TypeStep, PTL DEF Spec

-----------------------------------------------------------------------------
(* The window before midnight *)

\* Nothing but the iteration's poll leads a slave to its end.
WindowInv ==
  /\ WindowPaused
  /\ pc = "masterPoll" => portState = "MASTER"

LEMMA WindowStep == TypeOK /\ WindowInv /\ [Next]_vars => WindowInv'
<1> SUFFICES ASSUME TypeOK, WindowInv, [Next]_vars PROVE WindowInv'
  OBVIOUS
<1> USE DEF WindowInv, WindowPaused
<1>1. CASE pc' = "decide" \/ pc' = "handle" \/ pc' = "poll"
  BY <1>1
<1>2. CASE doInit
  BY <1>2 DEF doInit
<1>3. ASSUME NEW m \in Masters, NEW f \in Flags, AnnounceFromOther(m, f)
      PROVE  WindowInv'
  BY <1>3 DEF AnnounceFromOther, AfterHandle, following
<1>4. CASE NoAnnounce
  BY <1>4 DEF NoAnnounce, AfterHandle, following
<1>5. CASE PauseOver
  BY <1>5 DEF PauseOver, Drifts
<1>6. CASE PauseBegins
  BY <1>6 DEF PauseBegins, Drifts
<1>7. CASE PauseGoesOn
  BY <1>7 DEF PauseGoesOn, Drifts, Imminent, secondsToMidnight, pause
<1>8. CASE MasterPoll
  BY <1>8 DEF MasterPoll, Drifts
<1>9. CASE UNCHANGED vars
  BY <1>9 DEF vars, following, pause, time, secondsToMidnight
<1>10. QED
  BY <1>1, <1>2, <1>3, <1>4, <1>5, <1>6, <1>7, <1>8, <1>9
  DEF Next, NoDecision, DecideSlave, DecideMaster, AnnounceFromParent, NoTick, Tick

\* A slave that knows of a leap second is paused before midnight.
THEOREM WindowAlwaysPaused == Spec => []WindowPaused
<1>1. Init => TypeOK /\ WindowInv
  BY TypeInit DEF Init, WindowInv, WindowPaused
<1>2. TypeOK /\ WindowInv /\ [Next]_vars => TypeOK' /\ WindowInv'
  BY TypeStep, WindowStep
<1>3. TypeOK /\ WindowInv => WindowPaused
  BY DEF WindowInv
<1>4. QED BY <1>1, <1>2, <1>3, PTL DEF Spec

-----------------------------------------------------------------------------
(* The length of the pause *)

Added == IF Kind = 61 THEN 1 ELSE 0

\* A leap second is pending because of a flag that is still set.
PendingIsLit == leapSecondPending /\ ~leapSecondInProgress => leap # {}

\* A timer that runs is a pause's, and a pause without one is long enough.
TimerAccounts ==
  /\ timer.running =>
       /\ leapSecondInProgress
       /\ leapSecondPending
       /\ sinceMidnight = None =>
            timer.left >= secondsToMidnight + Pause + Added
       /\ sinceMidnight # None => timer.left + sinceMidnight >= Pause + Added
  /\ leapSecondInProgress /\ ~timer.running => sinceMidnight >= Pause + Added

\* What the length of a pause rests on.
LengthInv == PendingIsLit /\ TimerAccounts

LEMMA LengthInit == Init => LengthInv
BY DEF Init, LengthInv, PendingIsLit, TimerAccounts, Stopped

\* s1() aborts nothing and forgets nothing that belongs to a pause.
LEMMA S1Keeps ==
  ASSUME TypeOK, LengthInv, NEW f \in Flags, s1(f), leap' = f,
         UNCHANGED <<leapSecondInProgress, time>>
  PROVE  LengthInv'
<1> USE DEF TypeOK
<1>1. CASE f = Both
  <2>1. leap' # {}
    BY <1>1 DEF Both
  <2>2. UNCHANGED <<leapSecondPending, timer>>
    BY <1>1 DEF s1, Pending
  <2>3. QED
    BY <2>1, <2>2 DEF LengthInv, PendingIsLit, TimerAccounts, time, secondsToMidnight
<1>2. CASE f # Both /\ leapSecondInProgress
  <2>1. ~Aborted(f)
    BY <1>2 DEF Aborted
  <2>2. timer' = timer /\ (leapSecondPending => leapSecondPending')
    BY <1>2, <2>1 DEF s1, Pending
  <2>3. QED
    BY <1>2, <2>2 DEF LengthInv, PendingIsLit, TimerAccounts, time, secondsToMidnight
<1>3. CASE f # Both /\ ~leapSecondInProgress
  <2>1. ~timer.running
    BY <1>3 DEF LengthInv, TimerAccounts
  <2>2. ~timer'.running
    BY <2>1 DEF s1, Stopped
  <2>3. leapSecondPending' => f # {}
    BY <1>3 DEF s1, Pending, Raised, Aborted, LengthInv, PendingIsLit
  <2>4. QED BY <1>3, <2>2, <2>3 DEF LengthInv, PendingIsLit, TimerAccounts
<1>4. QED BY <1>1, <1>2, <1>3

\* The first Announce after the timer.
LEMMA ParentKeeps ==
  ASSUME TypeOK, LengthInv, NEW f \in Flags, AnnounceFromParent(f)
  PROVE  LengthInv'
<1>1. s1(f) /\ UNCHANGED time
  BY DEF AnnounceFromParent
<1>2. CASE leapSecondInProgress /\ ~Pending(f)
  <2>1. leapSecondInProgress' = FALSE /\ leapSecondPending' = FALSE
    <3>1. leapSecondInProgress' = FALSE
      BY <1>2 DEF AnnounceFromParent
    <3>2. Pending(f) = FALSE
      BY <1>2, PendingType
    <3>3. QED BY <1>1, <3>1, <3>2 DEF s1
  <2>2. ~leapSecondPending
    BY <1>2 DEF Pending, Aborted, TypeOK
  <2>3. ~timer'.running
    BY <1>1, <2>2 DEF s1, Stopped, LengthInv, TimerAccounts
  <2>4. QED BY <2>1, <2>3 DEF LengthInv, PendingIsLit, TimerAccounts
<1>3. CASE ~(leapSecondInProgress /\ ~Pending(f))
  <2>1. leap' = f
    BY <1>3 DEF AnnounceFromParent
  <2>2. leapSecondInProgress' = leapSecondInProgress
    BY <1>3 DEF AnnounceFromParent, TypeOK
  <2>3. QED BY <1>1, <2>1, <2>2, S1Keeps
<1>4. QED BY <1>2, <1>3

\* A step that leaves the pause alone.
LEMMA PauseAlone ==
  ASSUME LengthInv, UNCHANGED <<leap, pause, time>>
  PROVE  LengthInv'
BY DEF LengthInv, PendingIsLit, TimerAccounts, pause, time, secondsToMidnight

LEMMA LengthStep == TypeOK /\ LengthInv /\ [Next]_vars => LengthInv'
<1> SUFFICES ASSUME TypeOK, LengthInv, [Next]_vars PROVE LengthInv'
  OBVIOUS
<1>1. ASSUME NEW m \in Masters, DecideSlave(m) PROVE LengthInv'
  <2>1. CASE portState = "SLAVE"
    <3>1. announced[m] \in Flags
      BY DEF TypeOK
    <3>2. s1(announced[m]) /\ leap' = announced[m]
      BY <1>1, <2>1 DEF DecideSlave
    <3>3. UNCHANGED <<leapSecondInProgress, time>>
      BY <1>1 DEF DecideSlave
    <3>4. QED BY <3>1, <3>2, <3>3, S1Keeps
  <2>2. CASE portState # "SLAVE"
    BY <1>1, <2>2, PauseAlone DEF DecideSlave, pause
  <2>3. QED BY <2>1, <2>2
<1>2. ASSUME NEW f \in Flags, AnnounceFromParent(f) PROVE LengthInv'
  BY <1>2, ParentKeeps
<1>3. CASE PauseOver
  <2>1. sinceMidnight >= Pause + Added
    <3>1. timer.running /\ timer.left = 0
      BY <1>3 DEF PauseOver, Due
    <3>2. secondsToMidnight \in Nat \ {0} /\ Pause \in Nat /\ Added \in Nat
      BY LeapAssumption DEF TypeOK, secondsToMidnight, Added
    <3>3. sinceMidnight # None
      BY <3>1, <3>2 DEF LengthInv, TimerAccounts
    <3>4. sinceMidnight \in Nat
      BY <3>3, LeapAssumption DEF TypeOK
    <3>5. QED BY <3>1, <3>3, <3>4 DEF LengthInv, TimerAccounts
  <2>2. QED
    BY <1>3, <2>1 DEF PauseOver, Drifts, flags, Stopped, LengthInv, PendingIsLit,
                      TimerAccounts
<1>4. CASE PauseBegins
  <2>1. Kind \in leap
    BY <1>4, LeapAssumption
    DEF PauseBegins, Imminent, LengthInv, PendingIsLit, TypeOK, Flags, Both
  <2>2. timer' = PauseTimer /\ sinceMidnight' = None /\ leapSecondInProgress'
        /\ leapSecondPending' /\ secondsToMidnight' = secondsToMidnight
    BY <1>4 DEF PauseBegins, Imminent, Drifts, secondsToMidnight
  <2>3. PauseTimer.running /\ PauseTimer.left >= secondsToMidnight + Pause + Added
    BY <2>1, LeapAssumption DEF PauseTimer, Added, TypeOK, secondsToMidnight
  <2>4. QED BY <2>2, <2>3 DEF LengthInv, PendingIsLit, TimerAccounts
<1>5. CASE Tick
  <2>1. UNCHANGED <<leap, leapSecondPending, leapSecondInProgress>>
    BY <1>5 DEF Tick, flags
  <2>2. /\ timer'.running = timer.running
        /\ timer.left > 0 => timer'.left = timer.left - 1
        /\ timer.left = 0 => timer'.left = 0
    BY <1>5 DEF Tick, TypeOK
  <2>3. /\ sinceMidnight \in 0..Pause => sinceMidnight' = sinceMidnight + 1
        /\ sinceMidnight = Pause + 1 => sinceMidnight' = sinceMidnight
        /\ sinceMidnight = None /\ clock = Day - 1 => sinceMidnight' = 0
        /\ sinceMidnight = None /\ clock # Day - 1 => sinceMidnight' = None
    BY <1>5, LeapAssumption DEF Tick, None
  <2>4. clock # Day - 1 => secondsToMidnight' = secondsToMidnight - 1
    BY <1>5, LeapAssumption DEF Tick, secondsToMidnight, TypeOK
  <2>5. /\ timer.left \in Nat /\ Pause \in Nat \ {0} /\ Added \in {0, 1}
        /\ secondsToMidnight \in Nat \ {0} /\ (clock = Day - 1 => secondsToMidnight = 1)
        /\ sinceMidnight \in {None} \cup 0..(Pause + 1)
    BY LeapAssumption DEF TypeOK, Added, secondsToMidnight
  <2>6. CASE timer.running
    <3>1. CASE sinceMidnight = None
      BY <2>1, <2>2, <2>3, <2>4, <2>5, <2>6, <3>1
      DEF LengthInv, PendingIsLit, TimerAccounts, None
    <3>2. CASE sinceMidnight # None
      BY <2>1, <2>2, <2>3, <2>5, <2>6, <3>2
      DEF LengthInv, PendingIsLit, TimerAccounts, None
    <3>3. QED BY <3>1, <3>2
  <2>7. CASE ~timer.running
    BY <2>1, <2>2, <2>3, <2>5, <2>7 DEF LengthInv, PendingIsLit, TimerAccounts, None
  <2>8. QED BY <2>6, <2>7
<1>6. CASE UNCHANGED <<leap, pause, time>>
  BY <1>6, PauseAlone
<1>7. CASE UNCHANGED vars
  BY <1>6, <1>7 DEF vars, flags
<1>8. QED
  BY <1>1, <1>2, <1>3, <1>4, <1>5, <1>6, <1>7
  DEF Next, doInit, NoDecision, DecideMaster, AnnounceFromOther, NoAnnounce,
      PauseGoesOn, MasterPoll, NoTick, Drifts, flags, time

\* A pause lasts until its length after midnight, and the second added.
THEOREM PauseAlwaysLasts == Spec => PauseLastsLong
<1>1. Init => TypeOK /\ LengthInv
  BY TypeInit, LengthInit
<1>2. TypeOK /\ LengthInv /\ [Next]_vars => TypeOK' /\ LengthInv'
  BY TypeStep, LengthStep
<1>3. TypeOK /\ LengthInv /\ [Next]_vars =>
        [leapSecondInProgress /\ ~leapSecondInProgress' =>
           sinceMidnight >= Pause + (IF Kind = 61 THEN 1 ELSE 0)]_vars
  <2> SUFFICES ASSUME TypeOK, LengthInv, Next,
                      leapSecondInProgress, ~leapSecondInProgress'
               PROVE  sinceMidnight >= Pause + Added
    BY DEF Added
  <2>1. PICK f \in Flags : AnnounceFromParent(f)
    BY DEF Next, doInit, NoDecision, DecideSlave, DecideMaster, AnnounceFromOther,
           NoAnnounce, PauseOver, PauseBegins, PauseGoesOn, MasterPoll, NoTick, Tick,
           pause
  <2>2. ~Pending(f)
    BY <2>1 DEF AnnounceFromParent
  <2>3. ~leapSecondPending
    BY <2>2 DEF Pending, Aborted, TypeOK
  <2>4. QED BY <2>3 DEF LengthInv, TimerAccounts
<1>4. QED BY <1>1, <1>2, <1>3, PTL DEF Spec, PauseLastsLong

-----------------------------------------------------------------------------
(* The end of the pause *)

\* During a pause the slave has the flag of every master that shows it.
FlagsKnown ==
  leapSecondInProgress => \A m \in Masters : announced[m] # {} => Kind \in leap

EndInv == TypeOK /\ LengthInv /\ FlagsKnown /\ PauseCanEnd

\* Nothing that a master may announce during a pause sets the leap second
\* pending again.
LEMMA NothingRaised ==
  ASSUME TypeOK, FlagsKnown, leapSecondInProgress,
         NEW m \in Masters, NEW f \in Flags, f \subseteq announced[m]
  PROVE  Pending(f) = leapSecondPending
<1>1. CASE f = Both
  BY <1>1 DEF Pending
<1>2. CASE f = {}
  BY <1>2 DEF Pending, Raised, Aborted, TypeOK
<1>3. CASE f = {Kind} /\ f # Both
  <2>1. Kind \in leap
    BY <1>3 DEF FlagsKnown
  <2>2. f \ leap = {}
    BY <1>3, <2>1
  <2>3. QED BY <1>3, <2>2 DEF Pending, Raised, Aborted, TypeOK
<1>4. QED BY <1>1, <1>2, <1>3 DEF Flags

\* With one master, every action keeps a pause able to end.
LEMMA EndStep ==
  ASSUME \A m, n \in Masters : m = n, EndInv, [Next]_vars
  PROVE  EndInv'
<1>0. TypeOK /\ LengthInv /\ FlagsKnown /\ PauseCanEnd /\ TypeOK' /\ LengthInv'
  BY TypeStep, LengthStep DEF EndInv
<1> USE DEF TypeOK
<1> SUFFICES FlagsKnown' /\ PauseCanEnd'
  BY <1>0 DEF EndInv
<1>1. ASSUME NEW m \in Masters, DecideSlave(m) PROVE FlagsKnown' /\ PauseCanEnd'
  <2>1. CASE portState = "SLAVE" /\ leapSecondInProgress
    <3>1. announced[m] \in Flags /\ s1(announced[m]) /\ leap' = announced[m]
          /\ UNCHANGED <<announced, leapSecondInProgress>>
      BY <1>0, <1>1, <2>1 DEF DecideSlave
    <3>2. leapSecondPending' = leapSecondPending
      BY <1>0, <2>1, <3>1, NothingRaised DEF s1
    <3>3. timer' = timer
      BY <2>1, <3>1 DEF s1, Aborted
    <3>4. \A n \in Masters : announced[n] # {} => Kind \in announced[m]
      <4>1. announced[m] # {} => Kind \in announced[m]
        BY <3>1, LeapAssumption DEF Flags, Both
      <4>2. QED BY <4>1
    <3>5. QED BY <1>0, <3>1, <3>2, <3>3, <3>4 DEF FlagsKnown, PauseCanEnd
  <2>2. CASE portState # "SLAVE"
    BY <1>0, <1>1, <2>2 DEF DecideSlave, FlagsKnown, PauseCanEnd
  <2>3. CASE ~leapSecondInProgress
    BY <1>1, <2>3 DEF DecideSlave, FlagsKnown, PauseCanEnd
  <2>4. QED BY <2>1, <2>2, <2>3
<1>2. ASSUME NEW f \in Flags, AnnounceFromParent(f)
      PROVE  FlagsKnown' /\ PauseCanEnd'
  <2>1. CASE leapSecondInProgress'
    <3>1. leapSecondInProgress /\ leap' = f
      BY <1>2, <2>1 DEF AnnounceFromParent
    <3>2. parent \in Masters /\ f \subseteq announced[parent]
      BY <1>0, <1>2, <3>1 DEF AnnounceFromParent, MayAnnounce
    <3>3. Pending(f) = leapSecondPending
      BY <1>0, <3>1, <3>2, NothingRaised
    <3>4. leapSecondPending' = leapSecondPending /\ timer' = timer
      BY <1>2, <3>1, <3>3 DEF AnnounceFromParent, s1, Aborted
    <3>5. announced'[parent] = f
      BY <1>0, <1>2 DEF AnnounceFromParent
    <3>6. f # {} => Kind \in f
      BY LeapAssumption DEF Flags, Both
    <3>7. \A n \in Masters : announced'[n] # {} => Kind \in leap'
      BY <3>1, <3>2, <3>5, <3>6
    <3>8. QED BY <1>0, <3>1, <3>4, <3>7 DEF FlagsKnown, PauseCanEnd
  <2>2. CASE ~leapSecondInProgress'
    BY <2>2 DEF FlagsKnown, PauseCanEnd
  <2>3. QED BY <2>1, <2>2
<1>3. ASSUME NEW m \in Masters, NEW f \in Flags, AnnounceFromOther(m, f)
      PROVE  FlagsKnown' /\ PauseCanEnd'
  <2>1. PauseCanEnd'
    BY <1>0, <1>3 DEF AnnounceFromOther, PauseCanEnd, pause
  <2>2. announced' = [announced EXCEPT ![m] = f] /\ UNCHANGED <<leap, pause>>
    BY <1>3 DEF AnnounceFromOther
  <2>3. leapSecondInProgress => f \subseteq announced[m]
    BY <1>3 DEF AnnounceFromOther, MayAnnounce
  <2>4. FlagsKnown'
    BY <1>0, <2>2, <2>3 DEF FlagsKnown, pause
  <2>5. QED BY <2>1, <2>4
<1>4. CASE PauseOver
  BY <1>0, <1>4 DEF PauseOver, Drifts, flags, FlagsKnown, PauseCanEnd
<1>5. CASE PauseBegins
  <2>1. Kind \in leap
    BY <1>0, <1>5, LeapAssumption
    DEF PauseBegins, Imminent, LengthInv, PendingIsLit, Flags, Both
  <2>2. timer'.running
    BY <1>5 DEF PauseBegins, PauseTimer
  <2>3. QED BY <1>5, <2>1, <2>2 DEF PauseBegins, Drifts, flags, FlagsKnown, PauseCanEnd
<1>6. CASE Tick
  BY <1>0, <1>6 DEF Tick, flags, FlagsKnown, PauseCanEnd
<1>7. CASE UNCHANGED <<flags, pause>>
  BY <1>0, <1>7 DEF flags, pause, FlagsKnown, PauseCanEnd
<1>8. CASE UNCHANGED vars
  BY <1>7, <1>8 DEF vars
<1>9. QED
  BY <1>1, <1>2, <1>3, <1>4, <1>5, <1>6, <1>7, <1>8
  DEF Next, doInit, NoDecision, DecideMaster, NoAnnounce, PauseGoesOn, MasterPoll,
      NoTick, Drifts

\* With one master, a pause that waits for its end has a running timer.
THEOREM PauseCanAlwaysEnd ==
  ASSUME \A m, n \in Masters : m = n
  PROVE  Spec => []PauseCanEnd
<1>1. Init => EndInv
  BY TypeInit, LengthInit DEF Init, EndInv, FlagsKnown, PauseCanEnd
<1>2. EndInv /\ [Next]_vars => EndInv'
  BY EndStep
<1>3. EndInv => PauseCanEnd
  BY DEF EndInv
<1>4. QED BY <1>1, <1>2, <1>3, PTL DEF Spec
=============================================================================

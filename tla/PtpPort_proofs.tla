--------------------------- MODULE PtpPort_proofs ---------------------------
(***************************************************************************)
(* Theorems about the port for any set of Announces, any table size and    *)
(* any configuration: types, timers, the foreign master table and the      *)
(* decisions made on it.  What the scan of bmc() finds is proved by the    *)
(* principle of the least counterexample, everything else is an inductive  *)
(* invariant.                                                              *)
(***************************************************************************)
EXTENDS PtpPort, TLAPS, WellFoundedInduction

(* Facts about the timer operations. *)

LEMMA TimersTyped ==
  ASSUME NEW it \in TimerArray, NEW i \in Timer, NEW S
  PROVE  /\ Started(it, i) \in TimerArray
         /\ Stopped(it, S) \in TimerArray
         /\ Latched(it, S) \in TimerArray
         /\ Consumed(it, i) \in TimerArray
<1>1. \A j \in Timer : it[j] \in TimerState
  BY DEF TimerArray
<1>2. \A j \in Timer : it[j].running \in BOOLEAN /\ it[j].expire \in BOOLEAN
  BY <1>1 DEF TimerState
<1>3. Started(it, i) \in TimerArray
  BY <1>1 DEF Started, TimerArray, TimerState
<1>4. Stopped(it, S) \in TimerArray
  BY <1>2 DEF Stopped, TimerArray, TimerState
<1>5. Latched(it, S) \in TimerArray
  BY <1>2 DEF Latched, TimerArray, TimerState
<1>6. Consumed(it, i) \in TimerArray
  BY <1>1 DEF Consumed, TimerArray, TimerState
<1> QED BY <1>3, <1>4, <1>5, <1>6

LEMMA TimersRunning ==
  ASSUME NEW it \in TimerArray, NEW i \in Timer, NEW S, NEW j \in Timer
  PROVE  /\ Started(it, i)[j].running <=> j = i \/ it[j].running
         /\ Stopped(it, S)[j].running <=> it[j].running /\ j \notin S
         /\ Latched(it, S)[j].running <=> it[j].running
         /\ Consumed(it, i)[j].running <=> it[j].running
<1>1. it[j] \in TimerState /\ it[i] \in TimerState
  BY DEF TimerArray
<1>2. Started(it, i)[j].running <=> j = i \/ it[j].running
  <2>1. CASE j = i
    BY <2>1 DEF Started, TimerArray
  <2>2. CASE j # i
    BY <2>2 DEF Started, TimerArray
  <2> QED BY <2>1, <2>2
<1>3. Stopped(it, S)[j].running <=> it[j].running /\ j \notin S
  BY DEF Stopped
<1>4. Latched(it, S)[j].running <=> it[j].running
  BY DEF Latched
<1>5. Consumed(it, i)[j].running <=> it[j].running
  <2>1. CASE j = i
    BY <2>1, <1>1 DEF Consumed, TimerArray, TimerState
  <2>2. CASE j # i
    BY <2>2 DEF Consumed, TimerArray
  <2> QED BY <2>1, <2>2
<1> QED BY <1>2, <1>3, <1>4, <1>5

LEMMA SwitchTyped ==
  ASSUME NEW it \in TimerArray, NEW state
  PROVE  LeaveTimers(it, state) \in TimerArray /\ EnterTimers(it, state) \in TimerArray
<1>1. DelayTimerOf(P2P) \in Timer
  BY DEF DelayTimerOf, Timer
<1>2. LeaveTimers(it, state) \in TimerArray
  BY TimersTyped DEF LeaveTimers, Timer
<1>3. EnterTimers(it, state) \in TimerArray
  BY TimersTyped DEF EnterTimers, Timer
<1> QED BY <1>2, <1>3

-----------------------------------------------------------------------------
(* Type correctness *)

\* The foreign master table stays one whatever is done to it.
LEMMA TableTyped ==
  ASSUME NEW t \in ForeignTable, NEW a \in Announce, NEW j
  PROVE  /\ Refresh(t, j, a) \in ForeignTable
         /\ Insert(t, a) \in ForeignTable
         /\ addForeign(t, a) \in ForeignTable
         /\ DiscardRecords(t) \in ForeignTable
         /\ ResetRecords(t) \in ForeignTable
<1> USE MaxForeignAssumption
<1>1. \A k : Refresh(t, k, a) \in ForeignTable
  BY DEF Refresh, ForeignTable, Record
<1>2. Insert(t, a) \in ForeignTable
  <2>1. [id |-> a.src, ann |-> a] \in Record
    BY DEF Record, Announce
  <2>2. (t.i + 1) % MaxForeign \in Slots
    BY DEF ForeignTable, Slots
  <2>3. [t.slot EXCEPT ![t.i] = [id |-> a.src, ann |-> a]] \in [Slots -> Record]
    BY <2>1 DEF ForeignTable
  <2>4. (IF t.n < MaxForeign THEN t.n + 1 ELSE t.n) \in 0..MaxForeign
    BY DEF ForeignTable
  <2> QED BY <2>2, <2>3, <2>4 DEF Insert, ForeignTable
<1>3. addForeign(t, a) \in ForeignTable
  BY <1>1, <1>2 DEF addForeign
<1>4. DiscardRecords(t) \in ForeignTable /\ ResetRecords(t) \in ForeignTable
  <2>1. 0 \in 0..MaxForeign /\ 0 \in Slots
    BY DEF Slots
  <2> QED BY <2>1 DEF DiscardRecords, ResetRecords, ForeignTable
<1> QED BY <1>1, <1>2, <1>3, <1>4

LEMMA EmptyTableTyped == EmptyTable \in ForeignTable
<1>1. Blank \in Record
  BY DEF Blank, Record, Announce, PortIdentity
<1> QED BY <1>1, MaxForeignAssumption DEF EmptyTable, ForeignTable, Slots

\* bmc()'s best is never beyond the records it has looked at.
LEMMA LeastElement ==
  ASSUME NEW S, S \subseteq Nat, S # {}
  PROVE  \E n \in S : \A m \in S : n <= m
<1> DEFINE R == OpToRel(<, Nat)
<1>1. IsWellFoundedOn(R, Nat)
  BY NatLessThanWellFounded
<1>2. \A x, y \in Nat : x < y => <<x, y>> \in R
  BY DEF OpToRel
<1> HIDE DEF R
<1>3. PICK n \in S : \A m \in S : ~ (<<m, n>> \in R)
  BY <1>1, WFMin
<1>4. ASSUME NEW m \in S PROVE n <= m
  <2>1. n \in Nat /\ m \in Nat
    OBVIOUS
  <2>2. ~ (m < n)
    BY <2>1, <1>2, <1>3
  <2> QED BY <2>1, <2>2
<1> QED BY <1>4

LEMMA ScanBounded ==
  ASSUME NEW t \in ForeignTable, NEW p, NEW s \in Scans(t, p)
  PROVE  \A k \in Slots : s[k] <= k
<1>1. s \in [Slots -> Slots] /\ s[0] = 0
  BY DEF Scans
<1>2. \A k \in Slots \ {0} : s[k] = k \/ s[k] = s[k - 1]
  BY DEF Scans
<1>3. SUFFICES ASSUME {k \in Slots : ~ (s[k] <= k)} # {} PROVE FALSE
  OBVIOUS
<1>4. {k \in Slots : ~ (s[k] <= k)} \subseteq Nat
  BY MaxForeignAssumption DEF Slots
<1>5. PICK k \in Slots : /\ ~ (s[k] <= k)
                         /\ \A m \in Slots : ~ (s[m] <= m) => k <= m
  BY <1>3, <1>4, LeastElement
<1>6. k # 0
  BY <1>1, <1>5
<1>7. k - 1 \in Slots /\ ~ (k <= k - 1)
  BY <1>6, MaxForeignAssumption DEF Slots
<1>8. s[k - 1] <= k - 1
  BY <1>5, <1>7
<1>9. s[k - 1] \in Int /\ s[k] \in Int /\ k \in Int
  BY <1>1, <1>5, <1>7, MaxForeignAssumption DEF Slots
<1> QED BY <1>2, <1>5, <1>6, <1>8, <1>9

LEMMA BestBounded ==
  ASSUME NEW t \in ForeignTable, NEW p, NEW b \in BestSlots(t, p)
  PROVE  b \in Slots /\ (t.n = 0 => b = 0) /\ (t.n > 0 => b < t.n)
<1>1. t.n \in 0..MaxForeign
  BY DEF ForeignTable
<1>2. CASE t.n = 0
  BY <1>2, MaxForeignAssumption DEF BestSlots, Slots
<1>3. CASE t.n # 0
  <2>1. PICK s \in Scans(t, p) : b = s[t.n - 1]
    BY <1>3 DEF BestSlots
  <2>2. t.n - 1 \in Slots
    BY <1>1, <1>3, MaxForeignAssumption DEF Slots
  <2>3. s[t.n - 1] <= t.n - 1
    BY <2>2, ScanBounded
  <2>4. b \in Slots
    BY <2>1, <2>2 DEF Scans
  <2> QED BY <1>1, <1>3, <2>1, <2>3, <2>4, MaxForeignAssumption DEF Slots
<1> QED BY <1>2, <1>3

LEMMA InitTyped == Init => TypeOK
<1>1. IdleTimers \in TimerArray
  BY DEF IdleTimers, TimerArray, TimerState
<1>2. Blank.id \in PortIdentity
  BY DEF Blank, PortIdentity
<1>3. Init => /\ delayMechanism \in Mechanisms /\ portState \in States
              /\ pc \in PC /\ sent \in Messages
              /\ looped \in 0..MaxLoop
  BY ConfigAssumption DEF Init, States, PC, Messages
<1>4. Init => /\ parent \in PortIdentity /\ fm \in ForeignTable
              /\ itimer \in TimerArray /\ heard \subseteq Sources
              /\ announcer \in Sources \cup {Blank.id}
  BY <1>1, <1>2, EmptyTableTyped DEF Init
<1>5. Init => /\ record_update \in BOOLEAN /\ waiting_for_first_sync \in BOOLEAN
              /\ waitingForFollow \in BOOLEAN
  BY DEF Init
<1> QED BY <1>3, <1>4, <1>5 DEF TypeOK

\* A move to state "to" keeps the types, if it is made with well-formed timers.
LEMMA MoveTyped ==
  ASSUME TypeOK, NEW from, NEW to \in States, NEW it \in TimerArray,
         Move(from, to, it)
  PROVE  /\ portState' \in States /\ itimer' \in TimerArray
         /\ waiting_for_first_sync' \in BOOLEAN
         /\ waitingForFollow' \in BOOLEAN
BY SwitchTyped DEF Move, TypeOK

LEMMA StayTyped ==
  ASSUME TypeOK, NEW it \in TimerArray, Stay(it)
  PROVE  /\ portState' \in States /\ itimer' \in TimerArray
         /\ waiting_for_first_sync' \in BOOLEAN
         /\ waitingForFollow' \in BOOLEAN
BY DEF Stay, TypeOK, exchange

\* What the port's own variables are required to be.
PortTyped ==
  /\ portState \in States
  /\ itimer \in TimerArray
  /\ waiting_for_first_sync \in BOOLEAN
  /\ waitingForFollow \in BOOLEAN

\* bmc() leaves types alone, whatever slot it chose.
LEMMA DecisionTyped ==
  ASSUME TypeOK, NEW b \in Slots, Decide(b)
  PROVE  PortTyped' /\ fm' \in ForeignTable /\ parent' \in PortIdentity
<1> DEFINE a == fm.slot[b].ann
           state == bmcStateDecision(b)
           now == IF state \in {"SLAVE", "PASSIVE"} THEN StateAfterS1(a)
                  ELSE portState
           it == IF now = portState THEN itimer
                 ELSE LeaveTimers(itimer, portState)
<1>1. a \in Announce /\ a.src \in PortIdentity
  BY DEF TypeOK, ForeignTable, Record, Announce
<1>2. state \in States
  BY DEF bmcStateDecision, States
<1>3. fm' \in ForeignTable
  BY DEF Decide, ForeignTable, TypeOK
<1>4. OwnParent \in PortIdentity
  BY ConfigAssumption DEF OwnParent, PortIdentity
<1>5. parent' \in PortIdentity
  BY <1>1, <1>4 DEF Decide, TypeOK
<1>6. it \in TimerArray
  BY SwitchTyped DEF TypeOK
<1>7. EnterDecided(state, a)
  BY DEF Decide
<1>8. PortTyped'
  <2>1. CASE state = now
    <3>1. Stay(it)
      BY <1>7, <2>1 DEF EnterDecided
    <3> QED BY <3>1, <1>6, StayTyped DEF PortTyped
  <2>2. CASE state # now
    <3>1. Move(now, state, it)
      BY <1>7, <2>2 DEF EnterDecided
    <3> HIDE DEF state, now, it
    <3> QED BY <3>1, <1>2, <1>6, MoveTyped DEF PortTyped
  <2> QED BY <2>1, <2>2
<1> QED BY <1>3, <1>5, <1>8

\* The variables TypeOK constrains besides PortTyped's.
RestTyped ==
  /\ delayMechanism \in Mechanisms
  /\ parent \in PortIdentity /\ fm \in ForeignTable
  /\ record_update \in BOOLEAN /\ looped \in 0..MaxLoop
  /\ pc \in PC /\ sent \in Messages
  /\ heard \subseteq Sources /\ announcer \in Sources \cup {Blank.id}

LEMMA AnnounceTyped ==
  ASSUME TypeOK, NEW a \in Announces, handleAnnounce(a)
  PROVE  PortTyped' /\ RestTyped'
<1> USE TimersTyped, SwitchTyped
<1>1. a \in Announce /\ a.src \in Sources
  BY AnnouncesAssumption DEF Sources
<1>2. fm' \in ForeignTable
  BY <1>1, TableTyped
     DEF handleAnnounce, AnnounceFromParent, AnnounceFromOther,
         AnnounceInPassive, AnnounceWhileIndependent, TypeOK
<1>3. PortTyped'
  <2>1. CASE AnnounceFromParent(a)
    BY <2>1 DEF AnnounceFromParent, StateAfterS1, PortTyped, TypeOK, States,
                exchange, Timer
  <2>2. CASE AnnounceFromOther(a) \/ AnnounceInPassive(a) \/ AnnounceWhileIndependent(a)
    BY <2>2 DEF AnnounceFromOther, AnnounceInPassive, AnnounceWhileIndependent,
                Stay, PortTyped, TypeOK, exchange, Timer
  <2> QED BY <2>1, <2>2 DEF handleAnnounce
<1>4. pc' \in PC /\ sent' \in Messages
  BY DEF handleAnnounce, Handling, PC, Messages
<1> QED BY <1>1, <1>2, <1>3, <1>4 DEF handleAnnounce, RestTyped, TypeOK

LEMMA HandleTyped ==
  ASSUME TypeOK, Handle
  PROVE  PortTyped' /\ RestTyped'
<1> USE TimersTyped, SwitchTyped
<1>0. PortTyped /\ RestTyped
  BY DEF TypeOK, PortTyped, RestTyped
<1>1. Handling => pc' \in PC
  BY DEF Handling, PC
<1>2. DelayTimerOf(P2P) \in Timer
  BY DEF DelayTimerOf, Timer
<1>3. ASSUME NEW it \in TimerArray, updateClock(it)
      PROVE  portState' \in States /\ itimer' \in TimerArray
  BY <1>3, <1>0 DEF updateClock, States, PortTyped
<1>4. CASE HandleNothing
  BY <1>4, <1>0, <1>1 DEF HandleNothing, Stay, PortTyped, RestTyped, exchange,
                          table, Messages
<1>5. CASE HandleShort
  <2>1. PortTyped'
    BY <1>5, MoveTyped DEF HandleShort, toState, PortTyped, States, TypeOK
  <2> QED BY <1>5, <2>1, <1>0, <1>1 DEF HandleShort, RestTyped, table, Messages
<1>6. CASE \E a \in Announces : handleAnnounce(a)
  BY <1>6, AnnounceTyped
<1>7. ASSUME NEW twoStep \in BOOLEAN, handleSync(twoStep)
      PROVE  PortTyped' /\ RestTyped'
  <2> DEFINE it == IF waiting_for_first_sync
                   THEN Started(itimer, DelayTimerOf(P2P)) ELSE itimer
  <2>1. it \in TimerArray
    BY <1>0, <1>2 DEF PortTyped
  <2>2. IF twoStep THEN itimer' = it /\ UNCHANGED portState ELSE updateClock(it)
    BY <1>7 DEF handleSync
  <2>3. portState' \in States /\ itimer' \in TimerArray
    BY <2>1, <2>2, <1>3, <1>0 DEF PortTyped
  <2> QED BY <1>7, <2>3, <1>0, <1>1 DEF handleSync, PortTyped, RestTyped, table,
                                        Messages
<1>8. CASE handleFollowUp
  <2>1. portState' \in States /\ itimer' \in TimerArray
    BY <1>8, <1>3, <1>0 DEF handleFollowUp, PortTyped
  <2> QED BY <1>8, <2>1, <1>0, <1>1 DEF handleFollowUp, PortTyped, RestTyped,
                                        table, Messages
<1>9. CASE handleOwnSync
  <2>1. looped' \in 0..MaxLoop
    BY <1>9, <1>0, ConfigAssumption DEF handleOwnSync, RestTyped
  <2> QED BY <1>9, <2>1, <1>0, <1>1 DEF handleOwnSync, Stay, PortTyped, RestTyped,
                                        table, exchange, Messages
<1>10. CASE handleDelayReq \/ handlePDelayReq
  BY <1>10, <1>0, <1>1 DEF handleDelayReq, handlePDelayReq, Stay, PortTyped,
                           RestTyped, table, exchange, Messages
<1> QED BY <1>4, <1>5, <1>6, <1>7, <1>8, <1>9, <1>10 DEF Handle

LEMMA AnnounceTimerTyped ==
  ASSUME TypeOK, NEW due, AnnounceTimer(due)
  PROVE  PortTyped' /\ RestTyped'
<1> DEFINE it == Latched(itimer, due)
           consumed == Consumed(it, "ANNOUNCE_RECEIPT")
<1>1. it \in TimerArray /\ consumed \in TimerArray
  BY TimersTyped DEF TypeOK, Timer
<1>2. OwnParent \in PortIdentity
  BY ConfigAssumption DEF OwnParent, PortIdentity
<1>3. pc' \in PC /\ sent' \in Messages
  BY DEF AnnounceTimer, PC, Messages
<1>4. DiscardRecords(fm) \in ForeignTable
  <2>1. Own \in Announce
    BY ConfigAssumption
  <2> QED BY <2>1, TableTyped DEF TypeOK
<1>5. CASE it["ANNOUNCE_RECEIPT"].expire
  <2>1. AnnounceReceiptTimeout(it)
    BY <1>5 DEF AnnounceTimer
  <2>2. \E to \in {"MASTER", "LISTENING"} : Move(portState, to, consumed)
    BY <2>1 DEF AnnounceReceiptTimeout, toState
  <2>3. PortTyped'
    <3> HIDE DEF consumed
    <3> QED BY <2>2, <1>1, MoveTyped DEF PortTyped, States
  <2>4. fm' \in ForeignTable /\ parent' \in PortIdentity
    BY <2>1, <1>2, <1>4 DEF AnnounceReceiptTimeout, TypeOK
  <2> QED BY <2>3, <2>4, <1>3 DEF AnnounceTimer, RestTyped, TypeOK
<1>6. CASE ~ it["ANNOUNCE_RECEIPT"].expire
  <2>1. Stay(it) /\ UNCHANGED <<parent, fm>>
    BY <1>6 DEF AnnounceTimer
  <2>2. PortTyped'
    BY <2>1, <1>1, StayTyped DEF PortTyped
  <2> QED BY <2>1, <2>2, <1>3 DEF AnnounceTimer, RestTyped, TypeOK
<1> QED BY <1>5, <1>6

\* The steps that only look at timers, and those of the daemon's own loop.
LEMMA LoopTyped ==
  ASSUME TypeOK,
         \/ doInit \/ InitFails \/ NoDecision \/ Dispatch \/ DelayTimer
         \/ LeapSecondTimer \/ SyncTimer \/ AnnounceIntervalTimer
         \/ PDelayTimer \/ MasterCheck \/ check_signals
  PROVE  PortTyped' /\ RestTyped'
<1>0. PortTyped /\ RestTyped
  BY DEF TypeOK, PortTyped, RestTyped
<1>1. itimer \in TimerArray /\ DelayTimerOf(P2P) \in Timer
  BY <1>0 DEF PortTyped, DelayTimerOf, Timer
<1>2. \A it \in TimerArray : Stay(it) => PortTyped'
  BY <1>0, StayTyped DEF PortTyped
<1>3. \A it \in TimerArray : \A to \in States : toState(to, it) => PortTyped'
  BY <1>0, MoveTyped DEF PortTyped, toState
<1>4. CASE doInit
  <2>1. fm' \in ForeignTable
    <3>1. Own \in Announce
      BY ConfigAssumption
    <3> QED BY <1>4, <1>0, <3>1, TableTyped DEF doInit, RestTyped
  <2>2. parent' \in PortIdentity /\ looped' \in 0..MaxLoop
    BY <1>4, ConfigAssumption DEF doInit, OwnParent, PortIdentity
  <2>3. PortTyped'
    BY <1>4, <1>1, <1>3 DEF doInit, States
  <2>4. pc' \in PC /\ sent' \in Messages
    BY <1>4 DEF doInit, PC, Messages
  <2> QED BY <1>4, <1>0, <2>1, <2>2, <2>3, <2>4 DEF doInit, RestTyped
<1>5. CASE InitFails
  <2>1. PortTyped' /\ pc' \in PC /\ sent' \in Messages
    BY <1>5, <1>1, <1>3 DEF InitFails, States, PC, Messages
  <2> QED BY <1>5, <1>0, <2>1 DEF InitFails, RestTyped, table
<1>6. CASE NoDecision
  <2>1. pc' \in PC /\ sent' \in Messages
    BY <1>6 DEF NoDecision, PC, Messages
  <2> QED BY <1>6, <1>0, <2>1 DEF NoDecision, PortTyped, RestTyped, table, exchange
<1>7. CASE Dispatch
  <2>1. PortTyped' /\ pc' \in PC /\ sent' \in Messages
    BY <1>7, <1>1, <1>2, <1>3 DEF Dispatch, States, PC, Messages
  <2> QED BY <1>7, <1>0, <2>1 DEF Dispatch, RestTyped, table
<1>8. CASE DelayTimer
  <2>1. PICK due \in SUBSET Running(itimer) :
          LET it == Latched(itimer, due)
              i == DelayTimerOf(P2P)
          IN  IF it[i].expire
                THEN /\ sent' = IF P2P THEN "PDelayReq" ELSE "DelayReq"
                     /\ Stay(IF P2P THEN Consumed(it, i) ELSE Started(it, i))
                ELSE sent' = "None" /\ Stay(it)
    BY <1>8 DEF DelayTimer
  <2>2. Latched(itimer, due) \in TimerArray
    BY <1>1, TimersTyped
  <2>3. /\ Consumed(Latched(itimer, due), DelayTimerOf(P2P)) \in TimerArray
        /\ Started(Latched(itimer, due), DelayTimerOf(P2P)) \in TimerArray
    BY <1>1, <2>2, TimersTyped
  <2>4. PortTyped' /\ sent' \in Messages
    BY <2>1, <2>2, <2>3, <1>2 DEF Messages
  <2> QED BY <1>8, <1>0, <2>4 DEF DelayTimer, RestTyped, table, PC
<1>9. CASE LeapSecondTimer
  <2>1. PortTyped'
    BY <1>9, <1>1, <1>2, TimersTyped DEF LeapSecondTimer
  <2>2. pc' \in PC /\ sent' \in Messages
    BY <1>9 DEF LeapSecondTimer, PC, Messages
  <2> QED BY <1>9, <1>0, <2>1, <2>2 DEF LeapSecondTimer, RestTyped, table
<1>10. ASSUME NEW i \in Timer, NEW m \in Messages, MasterTimer(i, m)
       PROVE  PortTyped' /\ sent' \in {m, "None"}
  <2>1. PICK due \in SUBSET Running(itimer) :
          /\ Stay(Consumed(Latched(itimer, due), i))
          /\ sent' \in {m, "None"}
    BY <1>10 DEF MasterTimer
  <2>2. Consumed(Latched(itimer, due), i) \in TimerArray
    BY <1>1, TimersTyped
  <2> QED BY <2>1, <2>2, <1>2
<1>11. CASE SyncTimer
  <2>1. PortTyped' /\ sent' \in Messages
    BY <1>11, <1>10 DEF SyncTimer, Timer, Messages
  <2>2. looped' \in 0..MaxLoop
    BY <1>11, <1>0, ConfigAssumption DEF SyncTimer, RestTyped
  <2> QED BY <1>11, <1>0, <2>1, <2>2 DEF SyncTimer, RestTyped, table, PC
<1>12. CASE AnnounceIntervalTimer
  <2>1. PortTyped' /\ sent' \in Messages
    BY <1>12, <1>10 DEF AnnounceIntervalTimer, Timer, Messages
  <2>2. pc' \in PC
    BY <1>12 DEF AnnounceIntervalTimer, PC
  <2> QED BY <1>12, <1>0, <2>1, <2>2 DEF AnnounceIntervalTimer, RestTyped, table
<1>13. CASE PDelayTimer
  <2>1. PortTyped' /\ sent' \in Messages
    BY <1>13, <1>10 DEF PDelayTimer, Timer, Messages
  <2> QED BY <1>13, <1>0, <2>1 DEF PDelayTimer, RestTyped, table, PC
<1>14. CASE MasterCheck
  <2>1. PortTyped' /\ pc' \in PC /\ sent' \in Messages
    BY <1>14, <1>1, <1>2, <1>3 DEF MasterCheck, States, PC, Messages
  <2> QED BY <1>14, <1>0, <2>1 DEF MasterCheck, RestTyped, table
<1>15. CASE check_signals
  <2>1. PortTyped' /\ pc' \in PC /\ sent' \in Messages
    BY <1>15, <1>1, <1>2, <1>3
       DEF check_signals, NoSignal, SigUsr1, SigTerm, CheckSignals,
           servo_perform_clock_step, States, PC, Messages
  <2>2. CheckSignals
    BY <1>15 DEF check_signals, NoSignal, SigUsr1, SigTerm
  <2> QED BY <1>0, <2>1, <2>2 DEF CheckSignals, RestTyped, table
<1> QED BY <1>4, <1>5, <1>6, <1>7, <1>8, <1>9, <1>11, <1>12, <1>13, <1>14, <1>15

\* Every variable keeps to its type, for any Announces and any table size.
THEOREM TypeCorrect == Spec => []TypeOK
<1>1. Init => TypeOK
  BY InitTyped
<1>2. TypeOK /\ [Next]_vars => TypeOK'
  <2> SUFFICES ASSUME TypeOK, [Next]_vars PROVE TypeOK'
    OBVIOUS
  <2>1. SUFFICES ASSUME Next PROVE PortTyped' /\ RestTyped'
    BY DEF TypeOK, PortTyped, RestTyped, vars
  <2>2. CASE StateDecision
    <3>1. pc' \in PC /\ sent' \in Messages /\ record_update' \in BOOLEAN
      BY <2>2 DEF StateDecision, PC, Messages
    <3>2. CASE RemainMaster
      <4>1. OwnParent \in PortIdentity
        BY ConfigAssumption DEF OwnParent, PortIdentity
      <4> QED BY <2>2, <3>1, <3>2, <4>1
              DEF StateDecision, RemainMaster, Stay, exchange, TypeOK, PortTyped,
                  RestTyped
    <3>3. ASSUME NEW b \in BestSlots(fm, parent), Decide(b)
          PROVE  PortTyped' /\ RestTyped'
      <4>1. b \in Slots
        BY BestBounded DEF TypeOK
      <4>2. PortTyped' /\ fm' \in ForeignTable /\ parent' \in PortIdentity
        BY <3>3, <4>1, DecisionTyped
      <4> QED BY <2>2, <3>1, <4>2 DEF StateDecision, RestTyped, TypeOK
    <3> QED BY <2>2, <3>2, <3>3 DEF StateDecision
  <2>3. CASE Handle
    BY <2>3, HandleTyped
  <2>4. CASE \E due \in SUBSET Running(itimer) : AnnounceTimer(due)
    BY <2>4, AnnounceTimerTyped
  <2> QED BY <2>1, <2>2, <2>3, <2>4, LoopTyped DEF Next
<1> QED BY <1>1, <1>2, PTL DEF Spec

-----------------------------------------------------------------------------
(* The timers fit the state *)

\* TimersMatchState and MeasurementKeepsGoing of a state, its timers and
\* whether it waits for a first Sync.  Both are inductive as they stand.
TimersFit(state, it, waiting) ==
  /\ state \in {"LISTENING", "PASSIVE", "SLAVE"} =>
       it["ANNOUNCE_RECEIPT"].running
  /\ \A i \in {"SYNC_INTERVAL", "ANNOUNCE_INTERVAL"} :
       it[i].running <=> state = "MASTER"
  /\ state = "SLAVE" /\ ~waiting => it[DelayTimerOf(P2P)].running

TimersInv == TimersFit(portState, itimer, waiting_for_first_sync)

\* TimersInv after the step, as delayMechanism never changes.
FitNext == TimersFit(portState', itimer', waiting_for_first_sync')

\* Latching and consuming expirations changes no timer's running, starting one
\* of the timers every state may run fits any state.
LEMMA FitKept ==
  ASSUME NEW it \in TimerArray, NEW i \in Timer, NEW due, NEW state, NEW waiting,
         TimersFit(state, it, waiting)
  PROVE  /\ TimersFit(state, Latched(it, due), waiting)
         /\ TimersFit(state, Consumed(it, i), waiting)
         /\ i \notin {"SYNC_INTERVAL", "ANNOUNCE_INTERVAL"} =>
              TimersFit(state, Started(it, i), waiting)
<1>1. /\ {"ANNOUNCE_RECEIPT", "SYNC_INTERVAL", "ANNOUNCE_INTERVAL"} \subseteq Timer
      /\ DelayTimerOf(P2P) \in Timer
  BY DEF Timer, DelayTimerOf
<1>2. \A j \in Timer : /\ Latched(it, due)[j].running <=> it[j].running
                       /\ Consumed(it, i)[j].running <=> it[j].running
                       /\ Started(it, i)[j].running <=> j = i \/ it[j].running
  BY TimersRunning
<1>3. TimersFit(state, Latched(it, due), waiting)
  BY <1>1, <1>2 DEF TimersFit
<1>4. TimersFit(state, Consumed(it, i), waiting)
  BY <1>1, <1>2 DEF TimersFit
<1>5. ASSUME i \notin {"SYNC_INTERVAL", "ANNOUNCE_INTERVAL"}
      PROVE  TimersFit(state, Started(it, i), waiting)
  BY <1>1, <1>2, <1>5 DEF TimersFit
<1> QED BY <1>3, <1>4, <1>5

\* Leaving a state stops the master's timers and starts none.
LEMMA LeaveFits ==
  ASSUME NEW it \in TimerArray, NEW from \in States, NEW waiting,
         TimersFit(from, it, waiting)
  PROVE  \A i \in {"SYNC_INTERVAL", "ANNOUNCE_INTERVAL"} :
           ~ LeaveTimers(it, from)[i].running
<1> SUFFICES ASSUME NEW i \in {"SYNC_INTERVAL", "ANNOUNCE_INTERVAL"}
             PROVE  ~ LeaveTimers(it, from)[i].running
  OBVIOUS
<1>1. i \in Timer
  BY DEF Timer
<1>2. \A S : Stopped(it, S)[i].running <=> it[i].running /\ i \notin S
  BY <1>1, TimersRunning
<1>3. it[i].running <=> from = "MASTER"
  BY DEF TimersFit
<1>4. CASE from = "MASTER"
  BY <1>2, <1>4 DEF LeaveTimers
<1>5. CASE from # "MASTER"
  BY <1>2, <1>3, <1>5 DEF LeaveTimers
<1> QED BY <1>4, <1>5

\* Entering a state fits it, if the master's timers have been stopped.
LEMMA EnterFits ==
  ASSUME NEW it \in TimerArray, NEW to \in States, NEW waiting,
         \A i \in {"SYNC_INTERVAL", "ANNOUNCE_INTERVAL"} : ~ it[i].running,
         to = "SLAVE" => waiting
  PROVE  TimersFit(to, EnterTimers(it, to), waiting)
<1> USE DEF TimersFit
<1>1. "ANNOUNCE_RECEIPT" \in Timer /\ "SYNC_INTERVAL" \in Timer
      /\ "ANNOUNCE_INTERVAL" \in Timer /\ "PDELAYREQ_INTERVAL" \in Timer
  BY DEF Timer
<1>2. \A x \in TimerArray : \A i \in Timer : Started(x, i) \in TimerArray
  BY TimersTyped
<1>3. \A x \in TimerArray : \A i, j \in Timer :
        Started(x, i)[j].running <=> j = i \/ x[j].running
  BY TimersRunning
<1>4. CASE to = "LISTENING"
  <2> DEFINE x == Stopped(it, Timer \ {"ANNOUNCE_RECEIPT"})
  <2>1. x \in TimerArray
    BY <1>1, TimersTyped
  <2>2. ~ x["SYNC_INTERVAL"].running /\ ~ x["ANNOUNCE_INTERVAL"].running
    BY <1>1, TimersRunning
  <2>3. EnterTimers(it, to) = Started(x, "ANNOUNCE_RECEIPT")
    BY <1>4 DEF EnterTimers
  <2> HIDE DEF x
  <2> QED BY <1>1, <1>3, <1>4, <2>1, <2>2, <2>3
<1>5. CASE to = "MASTER"
  <2> DEFINE x == Started(it, "SYNC_INTERVAL")
             y == Started(x, "ANNOUNCE_INTERVAL")
  <2>1. x \in TimerArray /\ y \in TimerArray
    BY <1>1, <1>2
  <2>2. y["SYNC_INTERVAL"].running /\ y["ANNOUNCE_INTERVAL"].running
    <3>1. x["SYNC_INTERVAL"].running
      BY <1>1, <1>3
    <3> HIDE DEF x
    <3> QED BY <1>1, <1>3, <2>1, <3>1
  <2>3. EnterTimers(it, to) = Started(y, "PDELAYREQ_INTERVAL")
    BY <1>5 DEF EnterTimers
  <2> HIDE DEF x, y
  <2> QED BY <1>1, <1>3, <1>5, <2>1, <2>2, <2>3
<1>6. CASE to = "PASSIVE"
  <2> DEFINE x == Started(it, "PDELAYREQ_INTERVAL")
  <2>1. x \in TimerArray
    BY <1>1, <1>2
  <2>2. ~ x["SYNC_INTERVAL"].running /\ ~ x["ANNOUNCE_INTERVAL"].running
    BY <1>1, <1>3
  <2>3. EnterTimers(it, to) = Started(x, "ANNOUNCE_RECEIPT")
    BY <1>6 DEF EnterTimers
  <2> HIDE DEF x
  <2> QED BY <1>1, <1>3, <1>6, <2>1, <2>2, <2>3
<1>7. CASE to = "SLAVE"
  BY <1>1, <1>3, <1>7 DEF EnterTimers
<1>8. CASE to \in {"INITIALIZING", "FAULTY"}
  BY <1>1, <1>8 DEF EnterTimers
<1> QED BY <1>4, <1>5, <1>6, <1>7, <1>8 DEF States

LEMMA MoveFits ==
  ASSUME NEW it \in TimerArray, NEW from \in States, NEW to \in States,
         NEW waiting, TimersFit(from, it, waiting), Move(from, to, it)
  PROVE  FitNext
<1>1. LeaveTimers(it, from) \in TimerArray
  BY SwitchTyped
<1>2. \A i \in {"SYNC_INTERVAL", "ANNOUNCE_INTERVAL"} :
        ~ LeaveTimers(it, from)[i].running
  BY LeaveFits
<1> QED BY <1>1, <1>2, EnterFits DEF Move, TimersInv, FitNext

\* A fault found in a state leaves it, and no timer has to run in FAULTY.
LEMMA FaultFits ==
  ASSUME NEW it \in TimerArray, NEW from \in States, NEW waiting,
         TimersFit(from, it, waiting)
  PROVE  TimersFit("FAULTY", LeaveTimers(it, from), waiting)
BY LeaveFits DEF TimersFit

LEMMA DecisionFits ==
  ASSUME TypeOK, TimersInv, NEW b \in Slots, Decide(b)
  PROVE  FitNext
<1> DEFINE a == fm.slot[b].ann
           state == bmcStateDecision(b)
           now == IF state \in {"SLAVE", "PASSIVE"} THEN StateAfterS1(a)
                  ELSE portState
           it == IF now = portState THEN itimer
                 ELSE LeaveTimers(itimer, portState)
<1>1. state \in States
  BY DEF bmcStateDecision, States
<1>2. now = portState \/ (now = "FAULTY" /\ now # portState)
  BY DEF StateAfterS1
<1>3. /\ now \in States /\ it \in TimerArray
      /\ TimersFit(now, it, waiting_for_first_sync)
  BY <1>2, SwitchTyped, FaultFits DEF TypeOK, TimersInv, States
<1>4. EnterDecided(state, a)
  BY DEF Decide
<1>5. CASE state = now
  <2>1. Stay(it)
    BY <1>4, <1>5 DEF EnterDecided
  <2>2. state \in {"SLAVE", "PASSIVE"} => state # "FAULTY"
    OBVIOUS
  <2>3. now = portState
    BY <1>2, <1>5, <2>2
  <2> QED BY <2>1, <2>3 DEF Stay, TimersInv, FitNext, exchange
<1>6. CASE state # now
  <2>1. Move(now, state, it)
    BY <1>4, <1>6 DEF EnterDecided
  <2> HIDE DEF state, now, it
  <2> QED BY <2>1, <1>1, <1>3, MoveFits
<1> QED BY <1>5, <1>6

LEMMA HandleFits ==
  ASSUME TypeOK, TimersInv, Handle
  PROVE  FitNext
<1>0. /\ itimer \in TimerArray /\ portState \in States
      /\ TimersFit(portState, itimer, waiting_for_first_sync)
  BY DEF TypeOK, TimersInv
<1>1. "ANNOUNCE_RECEIPT" \in Timer /\ DelayTimerOf(P2P) \in Timer
      /\ "ANNOUNCE_RECEIPT" \notin {"SYNC_INTERVAL", "ANNOUNCE_INTERVAL"}
      /\ DelayTimerOf(P2P) \notin {"SYNC_INTERVAL", "ANNOUNCE_INTERVAL"}
  BY DEF Timer, DelayTimerOf
<1>2. Started(itimer, "ANNOUNCE_RECEIPT") \in TimerArray
  BY <1>0, <1>1, TimersTyped
<1>3. TimersFit(portState, Started(itimer, "ANNOUNCE_RECEIPT"), waiting_for_first_sync)
  BY <1>0, <1>1, FitKept
<1>4. CASE HandleNothing \/ handleOwnSync \/ handleDelayReq \/ handlePDelayReq
  <2>1. Stay(itimer)
    BY <1>4 DEF HandleNothing, handleOwnSync, handleDelayReq, handlePDelayReq
  <2> QED BY <2>1, <1>0 DEF Stay, exchange, TimersInv, FitNext
<1>5. CASE HandleShort
  <2>1. Move(portState, "FAULTY", itimer)
    BY <1>5 DEF HandleShort, toState
  <2> QED BY <1>0, <2>1, MoveFits DEF States
<1>6. ASSUME NEW a \in Announces, handleAnnounce(a) PROVE FitNext
  <2>1. CASE AnnounceFromParent(a)
    <3> DEFINE now == StateAfterS1(a)
               it == IF now = portState THEN itimer
                     ELSE LeaveTimers(itimer, portState)
    <3>1. now = portState \/ now = "FAULTY"
      BY DEF StateAfterS1
    <3>2. it \in TimerArray /\ TimersFit(now, it, waiting_for_first_sync)
      BY <3>1, <1>0, SwitchTyped, FaultFits
    <3>3. TimersFit(now, Started(it, "ANNOUNCE_RECEIPT"), waiting_for_first_sync)
      <4> HIDE DEF now, it
      <4> QED BY <3>2, <1>1, FitKept
    <3> QED BY <2>1, <3>3 DEF AnnounceFromParent, TimersInv, FitNext, exchange
  <2>2. CASE AnnounceFromOther(a) \/ AnnounceInPassive(a) \/ AnnounceWhileIndependent(a)
    BY <2>2, <1>0, <1>3 DEF AnnounceFromOther, AnnounceInPassive,
                            AnnounceWhileIndependent, Stay, exchange, TimersInv, FitNext
  <2> QED BY <1>6, <2>1, <2>2 DEF handleAnnounce
<1>7. ASSUME NEW it \in TimerArray, NEW waiting, TimersFit("SLAVE", it, waiting),
             portState = "SLAVE", updateClock(it)
      PROVE  TimersFit(portState', itimer', waiting)
  <2>1. CASE itimer' = it /\ UNCHANGED portState
    BY <2>1, <1>7
  <2>2. CASE portState' = "FAULTY" /\ itimer' = LeaveTimers(it, portState)
    BY <2>2, <1>0, <1>7, FaultFits
  <2> QED BY <1>7, <2>1, <2>2 DEF updateClock
<1>8. ASSUME NEW twoStep \in BOOLEAN, handleSync(twoStep) PROVE FitNext
  <2> DEFINE it == IF waiting_for_first_sync
                   THEN Started(itimer, DelayTimerOf(P2P)) ELSE itimer
  <2>1. portState = "SLAVE" /\ waiting_for_first_sync' = FALSE
    BY <1>8 DEF handleSync
  <2>2. it \in TimerArray
    BY <1>0, <1>1, TimersTyped
  <2>3. TimersFit("SLAVE", it, FALSE)
    <3>1. CASE waiting_for_first_sync
      <4>1. TimersFit("SLAVE", it, TRUE)
        BY <3>1, <2>1, <1>0, <1>1, FitKept
      <4>2. it[DelayTimerOf(P2P)].running
        BY <3>1, <1>0, <1>1, TimersRunning
      <4> QED BY <4>1, <4>2 DEF TimersFit
    <3>2. CASE ~ waiting_for_first_sync
      BY <3>2, <2>1, <1>0 DEF TimersFit
    <3> QED BY <3>1, <3>2
  <2>4. IF twoStep THEN itimer' = it /\ UNCHANGED portState ELSE updateClock(it)
    BY <1>8 DEF handleSync
  <2>5. TimersFit(portState', itimer', FALSE)
    <3> HIDE DEF it
    <3> QED BY <2>1, <2>2, <2>3, <2>4, <1>7
  <2> QED BY <2>1, <2>5 DEF TimersInv, FitNext
<1>9. CASE handleFollowUp
  BY <1>9, <1>0, <1>7 DEF handleFollowUp, TimersInv, FitNext
<1> QED BY <1>4, <1>5, <1>6, <1>8, <1>9 DEF Handle

LEMMA TimerStepFits ==
  ASSUME TypeOK, TimersInv,
         \/ \E due \in SUBSET Running(itimer) : AnnounceTimer(due)
         \/ DelayTimer \/ LeapSecondTimer
         \/ SyncTimer \/ AnnounceIntervalTimer \/ PDelayTimer
  PROVE  FitNext
<1>0. /\ itimer \in TimerArray /\ portState \in States
      /\ TimersFit(portState, itimer, waiting_for_first_sync)
  BY DEF TypeOK, TimersInv
<1>1. \A it : Stay(it) /\ TimersFit(portState, it, waiting_for_first_sync) => FitNext
  BY DEF Stay, exchange, TimersInv, FitNext
<1>2. \A due : /\ Latched(itimer, due) \in TimerArray
               /\ TimersFit(portState, Latched(itimer, due), waiting_for_first_sync)
  BY <1>0, TimersTyped, FitKept DEF Timer
<1>3. \A due : \A i \in Timer :
        /\ Consumed(Latched(itimer, due), i) \in TimerArray
        /\ TimersFit(portState, Consumed(Latched(itimer, due), i),
                     waiting_for_first_sync)
        /\ i \notin {"SYNC_INTERVAL", "ANNOUNCE_INTERVAL"} =>
             TimersFit(portState, Started(Latched(itimer, due), i),
                       waiting_for_first_sync)
  BY <1>2, TimersTyped, FitKept
<1>4. ASSUME NEW due, AnnounceTimer(due) PROVE FitNext
  <2> DEFINE it == Latched(itimer, due)
  <2>1. CASE it["ANNOUNCE_RECEIPT"].expire
    <3> DEFINE consumed == Consumed(it, "ANNOUNCE_RECEIPT")
    <3>1. /\ consumed \in TimerArray
          /\ TimersFit(portState, consumed, waiting_for_first_sync)
      BY <1>3 DEF Timer
    <3>2. \E to \in {"MASTER", "LISTENING"} : Move(portState, to, consumed)
      BY <1>4, <2>1 DEF AnnounceTimer, AnnounceReceiptTimeout, toState
    <3> HIDE DEF consumed
    <3> QED BY <1>0, <3>1, <3>2, MoveFits DEF States
  <2>2. CASE ~ it["ANNOUNCE_RECEIPT"].expire
    BY <1>1, <1>2, <1>4, <2>2 DEF AnnounceTimer
  <2> QED BY <2>1, <2>2
<1>5. CASE DelayTimer
  <2>1. /\ DelayTimerOf(P2P) \in Timer
        /\ DelayTimerOf(P2P) \notin {"SYNC_INTERVAL", "ANNOUNCE_INTERVAL"}
    BY DEF Timer, DelayTimerOf
  <2>2. PICK due \in SUBSET Running(itimer) :
          LET it == Latched(itimer, due)
              i == DelayTimerOf(P2P)
          IN  IF it[i].expire
                THEN /\ sent' = IF P2P THEN "PDelayReq" ELSE "DelayReq"
                     /\ Stay(IF P2P THEN Consumed(it, i) ELSE Started(it, i))
                ELSE sent' = "None" /\ Stay(it)
    BY <1>5 DEF DelayTimer
  <2>3. \/ Stay(Consumed(Latched(itimer, due), DelayTimerOf(P2P)))
        \/ Stay(Started(Latched(itimer, due), DelayTimerOf(P2P)))
        \/ Stay(Latched(itimer, due))
    BY <2>2
  <2> QED BY <2>1, <2>3, <1>1, <1>2, <1>3
<1>6. CASE LeapSecondTimer
  BY <1>6, <1>1, <1>2 DEF LeapSecondTimer
<1>7. ASSUME NEW i \in Timer, NEW m, MasterTimer(i, m) PROVE FitNext
  BY <1>7, <1>1, <1>3 DEF MasterTimer
<1>8. CASE SyncTimer \/ AnnounceIntervalTimer \/ PDelayTimer
  BY <1>8, <1>7 DEF SyncTimer, AnnounceIntervalTimer, PDelayTimer, Timer
<1> QED BY <1>4, <1>5, <1>6, <1>8

LEMMA LoopFits ==
  ASSUME TypeOK, TimersInv,
         doInit \/ InitFails \/ NoDecision \/ Dispatch \/ MasterCheck \/ check_signals
  PROVE  FitNext
<1>0. itimer \in TimerArray /\ portState \in States
  BY DEF TypeOK
<1>1. Stay(itimer) => FitNext
  BY DEF Stay, exchange, TimersInv, FitNext
<1>2. \A to \in States : toState(to, itimer) => FitNext
  BY <1>0, MoveFits DEF toState, TimersInv, FitNext
<1>3. CASE NoDecision
  BY <1>3 DEF NoDecision, exchange, TimersInv, FitNext
<1>4. CASE doInit \/ InitFails \/ Dispatch \/ MasterCheck
  BY <1>4, <1>1, <1>2 DEF doInit, InitFails, Dispatch, MasterCheck, States
<1>5. CASE check_signals
  BY <1>5, <1>1, <1>2 DEF check_signals, NoSignal, SigUsr1, SigTerm,
                          servo_perform_clock_step, States
<1> QED BY <1>3, <1>4, <1>5

\* The delay mechanism is an option of the run: no step changes it.
LEMMA MechanismFixed == [Next]_vars => delayMechanism' = delayMechanism
<1>1. CASE Handle
  BY <1>1 DEF Handle, HandleNothing, HandleShort, handleAnnounce, handleSync,
              handleFollowUp, handleOwnSync, handleDelayReq, handlePDelayReq, table
<1>2. CASE Next /\ ~ Handle
  BY <1>2 DEF Next, doInit, InitFails, StateDecision, NoDecision, Dispatch,
              AnnounceTimer, DelayTimer, LeapSecondTimer, SyncTimer,
              AnnounceIntervalTimer, PDelayTimer, MasterCheck, check_signals,
              NoSignal, SigUsr1, SigTerm, CheckSignals, table
<1> QED BY <1>1, <1>2 DEF vars

LEMMA TimersInductive == Spec => []TimersInv
<1>1. Init => TimersInv
  BY DEF Init, TimersInv, TimersFit, IdleTimers, Timer
<1>2. TypeOK /\ TimersInv /\ [Next]_vars => TimersInv'
  <2> SUFFICES ASSUME TypeOK, TimersInv, [Next]_vars PROVE TimersInv'
    OBVIOUS
  <2>0. SUFFICES FitNext
    BY MechanismFixed DEF FitNext, TimersInv, TimersFit, P2P
  <2>1. CASE StateDecision
    <3>1. CASE RemainMaster
      BY <3>1 DEF RemainMaster, Stay, exchange, TimersInv, FitNext
    <3>2. ASSUME NEW b \in BestSlots(fm, parent), Decide(b) PROVE FitNext
      BY <3>2, BestBounded, DecisionFits DEF TypeOK
    <3> QED BY <2>1, <3>1, <3>2 DEF StateDecision
  <2>2. CASE Handle
    BY <2>2, HandleFits
  <2>3. CASE UNCHANGED vars
    BY <2>3 DEF vars, TimersInv, FitNext
  <2> QED BY <2>1, <2>2, <2>3, TimerStepFits, LoopFits DEF Next
<1> QED BY <1>1, <1>2, TypeCorrect, PTL DEF Spec

\* A waiting port can time out, and only a master's Sync and Announce timers
\* run: whatever is received, expires late or faults, toState() keeps it so.
THEOREM TimersAlwaysMatch == Spec => []TimersMatchState
<1>1. TimersInv => TimersMatchState
  BY DEF TimersInv, TimersFit, TimersMatchState
<1> QED BY <1>1, TimersInductive, PTL

\* The delay measurement of a slave never dies out.
THEOREM MeasurementNeverStops == Spec => []MeasurementKeepsGoing
<1>1. TimersInv => MeasurementKeepsGoing
  BY DEF TimersInv, TimersFit, MeasurementKeepsGoing
<1> QED BY <1>1, TimersInductive, PTL

-----------------------------------------------------------------------------
(* Records: whom the port can follow, and whose record the best one is. *)

\* Slot j has been filled with an Announce of another clock.
Written(t, j) == t.slot[j].ann.src \in Sources

\* Records are filed under the sender of their Announce, and as long as a slot
\* is free it is one beyond foreign_record_i: a reset of the number of records
\* leaves foreign_record_i behind, so the slots in use need not be the last
\* ones written, but they have all been written.
TableSound(t) ==
  /\ \A j \in Slots : t.slot[j].id = t.slot[j].ann.src
  /\ \A j \in Slots : t.i < t.n \/ j < t.i => Written(t, j)

LEMMA InUseWritten ==
  ASSUME NEW t \in ForeignTable, TableSound(t), NEW j \in Slots, j < t.n
  PROVE  Written(t, j)
<1>1. t.n \in Int /\ t.i \in Int /\ j \in Int
  BY MaxForeignAssumption DEF ForeignTable, Slots
<1> QED BY <1>1 DEF TableSound

\* addForeign() refreshes a record of the master that announces itself.
LEMMA HitSound ==
  ASSUME NEW t, NEW id, Hits(t, id) # {}
  PROVE  t.slot[Probe(t, FirstHit(t, id))].id = id
<1>1. Hits(t, id) \subseteq Nat
  BY DEF Hits
<1>2. \E k \in Hits(t, id) : \A l \in Hits(t, id) : k <= l
  BY <1>1, LeastElement
<1>3. FirstHit(t, id) \in Hits(t, id)
  BY <1>2 DEF FirstHit
<1> QED BY <1>3 DEF Hits

LEMMA RefreshSound ==
  ASSUME NEW t \in ForeignTable, TableSound(t), NEW a \in Announces,
         NEW b, t.slot[b].id = a.src
  PROVE  /\ TableSound(Refresh(t, b, a))
         /\ \A j \in Slots : Written(t, j) => Written(Refresh(t, b, a), j)
         /\ \A j \in Slots : Refresh(t, b, a).slot[j].id = t.slot[j].id
<1> DEFINE u == Refresh(t, b, a)
<1>1. u.n = t.n /\ u.i = t.i
  BY DEF Refresh, ForeignTable
<1>2. a.src \in Sources
  BY DEF Sources
<1>3. \A j \in Slots : j # b => u.slot[j] = t.slot[j]
  BY DEF Refresh, ForeignTable
<1>4. b \in Slots => u.slot[b].id = t.slot[b].id /\ u.slot[b].ann = a
  <2> SUFFICES ASSUME b \in Slots
               PROVE  u.slot[b].id = t.slot[b].id /\ u.slot[b].ann = a
    OBVIOUS
  <2>1. t.slot \in [Slots -> Record] /\ t.slot[b] \in Record
    BY DEF ForeignTable
  <2>2. u.slot = [t.slot EXCEPT ![b].ann = a]
    BY DEF Refresh, ForeignTable
  <2>3. u.slot[b] = [t.slot[b] EXCEPT !.ann = a]
    BY <2>1, <2>2
  <2> QED BY <2>1, <2>3 DEF Record
<1> HIDE DEF u
<1>5. \A j \in Slots : Written(t, j) => Written(u, j)
  BY <1>2, <1>3, <1>4 DEF Written
<1>6. \A j \in Slots : u.slot[j].id = t.slot[j].id
  BY <1>3, <1>4
<1>7. \A j \in Slots : u.slot[j].id = u.slot[j].ann.src
  BY <1>3, <1>4 DEF TableSound
<1>8. TableSound(u)
  BY <1>1, <1>5, <1>7 DEF TableSound
<1> QED BY <1>5, <1>6, <1>8 DEF u

LEMMA InsertSound ==
  ASSUME NEW t \in ForeignTable, TableSound(t), NEW a \in Announces
  PROVE  TableSound(Insert(t, a)) /\ Written(Insert(t, a), 0)
<1> DEFINE u == Insert(t, a)
<1>1. /\ t.n \in 0..MaxForeign /\ t.i \in 0..(MaxForeign - 1)
      /\ t.slot \in [Slots -> Record]
  BY DEF ForeignTable, Slots
<1>2. a.src \in Sources
  BY DEF Sources
<1>3. /\ u.slot[t.i] = [id |-> a.src, ann |-> a]
      /\ \A j \in Slots : j # t.i => u.slot[j] = t.slot[j]
  BY <1>1 DEF Insert, Slots
<1>4. u.i = (t.i + 1) % MaxForeign
  BY DEF Insert
<1>5. (t.i + 1) % MaxForeign = IF t.i + 1 = MaxForeign THEN 0 ELSE t.i + 1
  BY <1>1, MaxForeignAssumption
<1>6. u.n = IF t.n < MaxForeign THEN t.n + 1 ELSE t.n
  BY DEF Insert
<1> HIDE DEF u
<1>7. Written(u, t.i) /\ \A j \in Slots : Written(t, j) => Written(u, j)
  BY <1>2, <1>3 DEF Written
<1>8. \A j \in Slots : u.slot[j].id = u.slot[j].ann.src
  BY <1>3 DEF TableSound
<1>9. ASSUME NEW j \in Slots, u.i < u.n \/ j < u.i PROVE Written(u, j)
  <2>1. j \in 0..(MaxForeign - 1)
    BY DEF Slots
  <2>2. CASE t.i < t.n
    BY <2>2, <1>7 DEF TableSound
  <2>3. CASE ~ (t.i < t.n)
    <3>1. j < t.i \/ j = t.i
      BY <2>1, <2>3, <1>1, <1>4, <1>5, <1>6, <1>9, MaxForeignAssumption
    <3> QED BY <3>1, <1>7 DEF TableSound
  <2> QED BY <2>2, <2>3
<1>10. Written(u, 0)
  <2>1. 0 \in Slots
    BY MaxForeignAssumption DEF Slots
  <2>2. t.i = 0 \/ 0 < t.i
    BY <1>1
  <2> QED BY <2>1, <2>2, <1>7 DEF TableSound
<1>11. TableSound(u)
  BY <1>8, <1>9 DEF TableSound
<1> QED BY <1>10, <1>11 DEF u

LEMMA AddSound ==
  ASSUME NEW t \in ForeignTable, TableSound(t), NEW a \in Announces
  PROVE  TableSound(addForeign(t, a)) /\ Written(addForeign(t, a), 0)
<1>1. CASE Hits(t, a.src) # {}
  <2> DEFINE b == Probe(t, FirstHit(t, a.src))
  <2>1. t.slot[b].id = a.src
    BY <1>1, HitSound
  <2>2. 0 \in Slots /\ 0 < t.n
    <3>1. t.n \in 0..MaxForeign
      BY DEF ForeignTable
    <3>2. PICK k \in 0..(t.n - 1) : TRUE
      BY <1>1 DEF Hits
    <3> QED BY <3>1, <3>2, MaxForeignAssumption DEF Slots
  <2>3. Written(t, 0)
    BY <2>2, InUseWritten
  <2>4. addForeign(t, a) = Refresh(t, b, a)
    BY <1>1 DEF addForeign
  <2> HIDE DEF b
  <2> QED BY <2>1, <2>2, <2>3, <2>4, RefreshSound
<1>2. CASE Hits(t, a.src) = {}
  BY <1>2, InsertSound DEF addForeign
<1> QED BY <1>1, <1>2

-----------------------------------------------------------------------------
(* The inductive invariant *)

\* Whoever is followed, or waits to be decided upon, has been recorded.
FollowReal ==
  /\ record_update \/ Following => Written(fm, 0)
  /\ Following => parent \in Sources

\* With no decision outstanding, the best record is the parent's and in use.
BestReal ==
  ~record_update =>
    /\ Following => fm.slot[fm.best].id = parent
    /\ fm.n > 0 => fm.best < fm.n

\* No decision is outstanding when doState() gets past its first switch.
Decided ==
  /\ pc = "dispatch" => portState = "FAULTY" \/ ~record_update
  /\ pc \in {"handle", "syncTimer", "announceInterval", "pdelayTimer",
             "masterHandle"} => ~record_update

RecordsInv == TableSound(fm) /\ FollowReal /\ BestReal /\ Decided

LEMMA InitRecords == Init => RecordsInv
<1> SUFFICES ASSUME Init PROVE RecordsInv
  OBVIOUS
<1>1. fm.n = 0 /\ fm.i = 0 /\ fm.slot = [j \in Slots |-> Blank]
  BY DEF Init, EmptyTable
<1>2. TableSound(fm)
  <2>1. \A j \in Slots : ~ (j < 0)
    BY MaxForeignAssumption DEF Slots
  <2> QED BY <1>1, <2>1 DEF TableSound, Blank
<1> QED BY <1>1, <1>2 DEF Init, RecordsInv, FollowReal, BestReal, Decided, Following

\* Forgetting the records leaves the slots and their contents.
LEMMA ForgetSound ==
  ASSUME NEW t \in ForeignTable, TableSound(t)
  PROVE  /\ TableSound(DiscardRecords(t)) /\ DiscardRecords(t).n = 0
         /\ TableSound(ResetRecords(t)) /\ ResetRecords(t).n = 0
         /\ Written(DiscardRecords(t), 0) <=> Written(t, 0)
         /\ Written(ResetRecords(t), 0) <=> Written(t, 0)
<1>1. t.i \in Slots /\ \A j \in Slots : j \in Nat
  BY MaxForeignAssumption DEF ForeignTable, Slots
<1>2. /\ DiscardRecords(t).slot = t.slot /\ DiscardRecords(t).n = 0
      /\ DiscardRecords(t).i = 0
  BY DEF DiscardRecords, ForeignTable
<1>3. /\ ResetRecords(t).slot = t.slot /\ ResetRecords(t).n = 0
      /\ ResetRecords(t).i = t.i
  BY DEF ResetRecords, ForeignTable
<1>4. TableSound(DiscardRecords(t))
  BY <1>1, <1>2 DEF TableSound, Written
<1>5. TableSound(ResetRecords(t))
  BY <1>1, <1>3 DEF TableSound, Written
<1> QED BY <1>2, <1>3, <1>4, <1>5 DEF Written

\* The state a decision on slot b leads to.
LEMMA DecidedState ==
  ASSUME NEW b, Decide(b)
  PROVE  portState' = bmcStateDecision(b)
<1> DEFINE state == bmcStateDecision(b)
           now == IF state \in {"SLAVE", "PASSIVE"}
                  THEN StateAfterS1(fm.slot[b].ann) ELSE portState
<1>1. state = now => portState' = portState /\ state = now
  BY DEF Decide, EnterDecided, Stay
<1>2. state # now => portState' = state
  BY DEF Decide, EnterDecided, Move
<1>3. now = portState \/ now = "FAULTY"
  BY DEF StateAfterS1
<1>4. now = "FAULTY" /\ now # portState => state # now
  BY DEF StateAfterS1
<1> QED BY <1>1, <1>2, <1>3, <1>4

\* Whom it makes the port follow.
LEMMA DecidedParent ==
  ASSUME NEW b, Decide(b), Following'
  PROVE  parent' = fm.slot[b].ann.src
<1>1. bmcStateDecision(b) \in {"SLAVE", "PASSIVE"}
  BY DecidedState DEF Following
<1> QED BY <1>1 DEF Decide

LEMMA DecisionRecords ==
  ASSUME TypeOK, RecordsInv, StateDecision
  PROVE  RecordsInv'
<1>0. fm \in ForeignTable /\ record_update /\ record_update' = FALSE
      /\ pc' = "dispatch"
  BY DEF StateDecision, TypeOK
<1>1. CASE RemainMaster
  <2>1. fm' = fm /\ portState' = portState /\ portState = "MASTER" /\ fm.n = 0
    BY <1>1 DEF RemainMaster, Stay
  <2> QED BY <1>0, <2>1 DEF RecordsInv, FollowReal, BestReal, Decided, Following
<1>2. ASSUME NEW b \in BestSlots(fm, parent), Decide(b) PROVE RecordsInv'
  <2>1. b \in Slots /\ (fm.n = 0 => b = 0) /\ (fm.n > 0 => b < fm.n)
    BY <1>0, BestBounded
  <2>2. fm' = [fm EXCEPT !.best = b]
    BY <1>2 DEF Decide
  <2>3. fm'.slot = fm.slot /\ fm'.n = fm.n /\ fm'.i = fm.i /\ fm'.best = b
    BY <1>0, <2>2 DEF ForeignTable
  <2>4. TableSound(fm') /\ Written(fm', 0) /\ Written(fm, b)
    <3>1. TableSound(fm') /\ Written(fm', 0) /\ Written(fm, 0)
      BY <1>0, <2>3 DEF RecordsInv, FollowReal, TableSound, Written
    <3>2. fm.n \in Nat
      BY <1>0 DEF ForeignTable
    <3>3. Written(fm, b)
      BY <1>0, <2>1, <3>1, <3>2, InUseWritten DEF RecordsInv
    <3> QED BY <3>1, <3>3
  <2>5. Following' => parent' = fm.slot[b].ann.src
    BY <1>2, <2>1, DecidedParent
  <2>6. fm.slot[b].id = fm.slot[b].ann.src
    BY <2>1 DEF RecordsInv, TableSound
  <2> QED BY <1>0, <2>1, <2>3, <2>4, <2>5, <2>6
          DEF RecordsInv, FollowReal, BestReal, Decided, Written
<1> QED BY <1>1, <1>2 DEF StateDecision

LEMMA AnnounceRecords ==
  ASSUME TypeOK, RecordsInv, NEW a \in Announces, handleAnnounce(a)
  PROVE  RecordsInv'
<1>0. /\ fm \in ForeignTable /\ record_update' = TRUE /\ parent' = parent
      /\ pc \in {"handle", "masterHandle"}
      /\ pc' \in {"announceTimer", "masterCheck"}
  BY DEF handleAnnounce, Handling, TypeOK
<1>1. ~record_update /\ TableSound(fm) /\ (Following => Written(fm, 0))
      /\ (Following => parent \in Sources)
  BY <1>0 DEF RecordsInv, Decided, FollowReal
<1>2. portState' = portState \/ portState' = "FAULTY"
  BY DEF handleAnnounce, AnnounceFromParent, AnnounceFromOther,
         AnnounceInPassive, AnnounceWhileIndependent, Stay, StateAfterS1
<1>3. 0 \in Slots
  BY MaxForeignAssumption DEF Slots
<1>4. TableSound(fm') /\ Written(fm', 0)
  <2>1. CASE AnnounceFromParent(a)
    <3>1. fm.slot[fm.best].id = a.src /\ Written(fm, 0)
      BY <1>1, <2>1 DEF AnnounceFromParent, RecordsInv, BestReal, Following
    <3>2. fm' = Refresh(fm, fm.best, a)
      BY <2>1 DEF AnnounceFromParent
    <3> QED BY <1>0, <1>1, <1>3, <3>1, <3>2, RefreshSound
  <2>2. CASE fm' = addForeign(fm, a)
    BY <1>0, <1>1, <2>2, AddSound
  <2>3. CASE AnnounceInPassive(a) /\ fm' = fm
    BY <1>1, <2>3 DEF AnnounceInPassive, Following
  <2> QED BY <2>1, <2>2, <2>3
          DEF handleAnnounce, AnnounceFromOther, AnnounceInPassive,
              AnnounceWhileIndependent
<1> QED BY <1>0, <1>1, <1>2, <1>4
        DEF RecordsInv, FollowReal, BestReal, Decided, Following

\* Steps that leave the table alone keep the invariant, if they do not start
\* following and do not get to a place where a decision must be over.
LEMMA OtherRecords ==
  ASSUME RecordsInv, UNCHANGED table,
         Following' => Following, Decided'
  PROVE  RecordsInv'
BY DEF RecordsInv, FollowReal, BestReal, Following, table

LEMMA HandleRecords ==
  ASSUME TypeOK, RecordsInv, Handle
  PROVE  RecordsInv'
<1>1. CASE \E a \in Announces : handleAnnounce(a)
  BY <1>1, AnnounceRecords
<1>2. ASSUME UNCHANGED table, Handling, portState' \in {portState, "FAULTY"}
      PROVE  RecordsInv'
  BY <1>2, OtherRecords DEF Handling, Decided, Following
<1>3. CASE HandleNothing \/ handleOwnSync \/ handleDelayReq \/ handlePDelayReq
  BY <1>2, <1>3 DEF HandleNothing, handleOwnSync, handleDelayReq, handlePDelayReq, Stay
<1>4. CASE HandleShort
  BY <1>2, <1>4 DEF HandleShort, toState, Move
<1>5. CASE handleFollowUp \/ \E twoStep \in BOOLEAN : handleSync(twoStep)
  BY <1>2, <1>5 DEF handleFollowUp, handleSync, updateClock
<1> QED BY <1>1, <1>3, <1>4, <1>5 DEF Handle

LEMMA TimeoutRecords ==
  ASSUME TypeOK, RecordsInv, NEW due, AnnounceTimer(due)
  PROVE  RecordsInv'
<1> DEFINE it == Latched(itimer, due)
<1>0. fm \in ForeignTable /\ record_update' = record_update /\ pc' = "delayTimer"
  BY DEF AnnounceTimer, TypeOK
<1>1. CASE it["ANNOUNCE_RECEIPT"].expire
  <2>1. fm' = DiscardRecords(fm) /\ portState' \in {"MASTER", "LISTENING"}
    BY <1>1 DEF AnnounceTimer, AnnounceReceiptTimeout, toState, Move
  <2>2. /\ TableSound(fm') /\ fm'.n = 0
        /\ Written(fm, 0) => Written(fm', 0)
    BY <1>0, <2>1, ForgetSound DEF RecordsInv
  <2> QED BY <1>0, <2>1, <2>2 DEF RecordsInv, FollowReal, BestReal, Decided, Following
<1>2. CASE ~ it["ANNOUNCE_RECEIPT"].expire
  BY <1>0, <1>2 DEF AnnounceTimer, Stay, RecordsInv, FollowReal, BestReal,
                    Decided, Following
<1> QED BY <1>1, <1>2

LEMMA LoopRecords ==
  ASSUME TypeOK, RecordsInv,
         \/ doInit \/ InitFails \/ NoDecision \/ Dispatch \/ DelayTimer
         \/ LeapSecondTimer \/ SyncTimer \/ AnnounceIntervalTimer
         \/ PDelayTimer \/ MasterCheck \/ check_signals
  PROVE  RecordsInv'
<1>1. CASE doInit
  <2>1. fm' = ResetRecords(fm) /\ portState' = "LISTENING" /\ pc' = "signals"
        /\ record_update' = record_update /\ fm \in ForeignTable
    BY <1>1 DEF doInit, toState, Move, TypeOK
  <2>2. /\ TableSound(fm') /\ fm'.n = 0
        /\ Written(fm, 0) => Written(fm', 0)
    BY <2>1, ForgetSound DEF RecordsInv
  <2> QED BY <2>1, <2>2 DEF RecordsInv, FollowReal, BestReal, Decided, Following
<1>2. CASE InitFails
  BY <1>2, OtherRecords DEF InitFails, toState, Move, Following, Decided
<1>3. CASE NoDecision
  <2>1. portState' = portState /\ Decided'
    BY <1>3 DEF NoDecision, Decided, table
  <2> QED BY <1>3, <2>1, OtherRecords DEF NoDecision, Following
<1>4. CASE Dispatch
  <2>1. CASE portState = "FAULTY"
    BY <1>4, <2>1, OtherRecords DEF Dispatch, toState, Move, Following, Decided
  <2>2. CASE portState # "FAULTY"
    BY <1>4, <2>2, OtherRecords DEF Dispatch, Stay, Following, Decided, RecordsInv,
                                    table
  <2> QED BY <2>1, <2>2
<1>5. CASE DelayTimer \/ LeapSecondTimer
  BY <1>5, OtherRecords DEF DelayTimer, LeapSecondTimer, Stay, Following, Decided
<1>6. CASE SyncTimer \/ AnnounceIntervalTimer \/ PDelayTimer
  BY <1>6, OtherRecords DEF SyncTimer, AnnounceIntervalTimer, PDelayTimer,
                            MasterTimer, Stay, Following, Decided, RecordsInv, table
<1>7. CASE MasterCheck
  BY <1>7, OtherRecords DEF MasterCheck, toState, Move, Stay, Following, Decided
<1>8. CASE check_signals
  BY <1>8, OtherRecords
     DEF check_signals, NoSignal, SigUsr1, SigTerm, CheckSignals,
         servo_perform_clock_step, toState, Move, Stay, Following, Decided
<1> QED BY <1>1, <1>2, <1>3, <1>4, <1>5, <1>6, <1>7, <1>8

LEMMA RecordsInductive == Spec => []RecordsInv
<1>1. TypeOK /\ RecordsInv /\ [Next]_vars => RecordsInv'
  <2> SUFFICES ASSUME TypeOK, RecordsInv, [Next]_vars PROVE RecordsInv'
    OBVIOUS
  <2>1. CASE UNCHANGED vars
    BY <2>1, OtherRecords DEF vars, table, RecordsInv, Decided, Following
  <2> QED BY <2>1, DecisionRecords, HandleRecords, TimeoutRecords, LoopRecords
          DEF Next
<1> QED BY <1>1, InitRecords, TypeCorrect, PTL DEF Spec

\* The port never follows a slot nobody has filled in: neither the scan of an
\* empty table nor a reset with an Announce waiting leads to one.
THEOREM AlwaysFollowsRealMaster == Spec => []FollowsRealMaster
<1>1. RecordsInv => FollowsRealMaster
  BY DEF RecordsInv, FollowReal, FollowsRealMaster
<1> QED BY <1>1, RecordsInductive, PTL

\* The record the parent's Announce overwrites is always the parent's, and
\* addForeign() always starts at a record in use.
THEOREM BestRecordAlwaysStands == Spec => []BestRecordStands
<1>1. RecordsInv => BestRecordStands
  BY DEF RecordsInv, BestReal, Decided, BestRecordStands
<1> QED BY <1>1, RecordsInductive, PTL

-----------------------------------------------------------------------------
(* Decisions: the best record is the best of all.                          *)
(*                                                                         *)
(* ComparePaths() reports an error for two paths to one grandmaster whose  *)
(* lengths differ by one when the longer leads through the parent, and the *)
(* attributes of a grandmaster known along two paths may disagree: in both *)
(* cases the comparison is no order and its best may be beaten by a third. *)

\* Data sets for which bmcDataSetComparison() never meets either case.
Consistent(a, b) ==
  a.gm = b.gm =>
    /\ Attributes(a) = Attributes(b)
    /\ a.stepsRemoved # b.stepsRemoved + 1 /\ b.stepsRemoved # a.stepsRemoved + 1

\* Any two clocks' Announces, and any Announce and this clock's own data set,
\* are consistent.  One clock may change its mind as it likes.
PathsConsistent ==
  \A a \in Announces : /\ Consistent(a, Own)
                       /\ \A b \in Announces : a.src # b.src => Consistent(a, b)

\* The order bmcDataSetComparison() then amounts to.
Beats(a, b) ==
  \/ Precedes(Attributes(a), Attributes(b))
  \/ /\ Attributes(a) = Attributes(b)
     /\ \/ a.stepsRemoved < b.stepsRemoved
        \/ a.stepsRemoved = b.stepsRemoved /\ a.src.clock < b.src.clock

LEMMA AttributesTyped ==
  ASSUME NEW a \in Announce
  PROVE  /\ Attributes(a) \in [1..6 -> Nat] /\ Attributes(a)[6] = a.gm
         /\ a.stepsRemoved \in Nat /\ a.src.clock \in Nat
<1>1. a.src \in PortIdentity
  BY DEF Announce
<1> QED BY <1>1 DEF Attributes, Announce, PortIdentity

\* Precedes() is the lexicographic order.
LEMMA PrecedesIsOrder ==
  ASSUME NEW x \in [1..6 -> Nat], NEW y \in [1..6 -> Nat], NEW z \in [1..6 -> Nat]
  PROVE  /\ ~ (Precedes(x, y) /\ Precedes(y, x))
         /\ Precedes(x, y) \/ Precedes(y, x) \/ x = y
         /\ Precedes(x, y) /\ Precedes(y, z) => Precedes(x, z)
         /\ ~ Precedes(x, x)
<1>0. \A k \in 1..6 : x[k] \in Nat /\ y[k] \in Nat /\ z[k] \in Nat
  OBVIOUS
<1>1. ~ Precedes(x, x)
  BY <1>0 DEF Precedes
<1>2. ASSUME Precedes(x, y), Precedes(y, z) PROVE Precedes(x, z)
  <2>1. PICK k \in 1..6 : x[k] < y[k] /\ \A l \in 1..6 : l < k => x[l] = y[l]
    BY <1>2 DEF Precedes
  <2>2. PICK m \in 1..6 : y[m] < z[m] /\ \A l \in 1..6 : l < m => y[l] = z[l]
    BY <1>2 DEF Precedes
  <2>3. CASE k <= m
    <3>1. x[k] < z[k]
      BY <1>0, <2>1, <2>2, <2>3
    <3>2. \A l \in 1..6 : l < k => x[l] = z[l]
      BY <2>1, <2>2, <2>3
    <3> QED BY <3>1, <3>2 DEF Precedes
  <2>4. CASE m < k
    <3>1. x[m] < z[m]
      BY <2>1, <2>2, <2>4
    <3>2. \A l \in 1..6 : l < m => x[l] = z[l]
      BY <2>1, <2>2, <2>4
    <3> QED BY <3>1, <3>2 DEF Precedes
  <2> QED BY <2>3, <2>4
<1>3. ~ (Precedes(x, y) /\ Precedes(y, x))
  <2> SUFFICES ASSUME Precedes(x, y), Precedes(y, x) PROVE FALSE
    OBVIOUS
  <2>1. PICK k \in 1..6 : x[k] < y[k] /\ \A l \in 1..6 : l < k => x[l] = y[l]
    BY DEF Precedes
  <2>2. PICK m \in 1..6 : y[m] < x[m] /\ \A l \in 1..6 : l < m => y[l] = x[l]
    BY DEF Precedes
  <2>3. k < m \/ m < k \/ k = m
    OBVIOUS
  <2> QED BY <1>0, <2>1, <2>2, <2>3
<1>4. Precedes(x, y) \/ Precedes(y, x) \/ x = y
  <2> DEFINE D == {k \in 1..6 : x[k] # y[k]}
  <2>1. CASE D = {}
    BY <2>1
  <2>2. CASE D # {}
    <3>1. D \subseteq Nat
      OBVIOUS
    <3>2. PICK k \in D : \A l \in D : k <= l
      <4> HIDE DEF D
      <4> QED BY <2>2, <3>1, LeastElement
    <3>3. \A l \in 1..6 : l < k => x[l] = y[l]
      BY <3>2
    <3>4. x[k] < y[k] \/ y[k] < x[k]
      BY <1>0, <3>2
    <3> QED BY <3>2, <3>3, <3>4 DEF Precedes
  <2> QED BY <2>1, <2>2
<1> QED BY <1>1, <1>2, <1>3, <1>4

\* Beats() is a strict weak order: not to be beaten is transitive.
LEMMA UnbeatenTransitive ==
  ASSUME NEW a \in Announce, NEW b \in Announce, NEW c \in Announce,
         ~ Beats(b, a), ~ Beats(c, b)
  PROVE  ~ Beats(c, a)
<1> DEFINE A == Attributes(a)  B == Attributes(b)  C == Attributes(c)
<1>1. /\ A \in [1..6 -> Nat] /\ B \in [1..6 -> Nat] /\ C \in [1..6 -> Nat]
      /\ a.stepsRemoved \in Nat /\ b.stepsRemoved \in Nat /\ c.stepsRemoved \in Nat
      /\ a.src.clock \in Nat /\ b.src.clock \in Nat /\ c.src.clock \in Nat
  BY AttributesTyped
<1>2. /\ ~ Precedes(B, A) /\ (A = B => ~ (b.stepsRemoved < a.stepsRemoved))
      /\ ~ Precedes(C, B) /\ (B = C => ~ (c.stepsRemoved < b.stepsRemoved))
  BY DEF Beats
<1> HIDE DEF A, B, C
<1>3. /\ A = B \/ Precedes(A, B)
      /\ B = C \/ Precedes(B, C)
      /\ Precedes(A, B) /\ Precedes(B, C) => Precedes(A, C)
      /\ ~ (Precedes(A, C) /\ Precedes(C, A))
      /\ ~ Precedes(A, A)
  BY <1>1, <1>2, PrecedesIsOrder
<1>4. CASE A = B /\ B = C
  <2>1. ~ Precedes(C, A)
    BY <1>3, <1>4
  <2> QED BY <1>1, <1>4, <2>1 DEF Beats, A, B, C
<1>5. CASE ~ (A = B /\ B = C)
  <2>1. Precedes(A, C) /\ ~ Precedes(C, A) /\ A # C
    BY <1>3, <1>5
  <2> QED BY <2>1 DEF Beats, A, C
<1> QED BY <1>4, <1>5

\* Among consistent data sets the comparison is the order, whoever is parent.
LEMMA ComparisonIsOrder ==
  ASSUME NEW a \in Announce, NEW b \in Announce, Consistent(a, b), NEW p
  PROVE  /\ bmcDataSetComparison(a, b, p) \in {-1, 0, 1}
         /\ bmcDataSetComparison(a, b, p) < 0 <=> Beats(a, b)
         /\ bmcDataSetComparison(a, b, p) > 0 <=> Beats(b, a)
<1> DEFINE A == Attributes(a)  B == Attributes(b)
<1>1. /\ A \in [1..6 -> Nat] /\ B \in [1..6 -> Nat]
      /\ A[6] = a.gm /\ B[6] = b.gm
      /\ a.stepsRemoved \in Nat /\ b.stepsRemoved \in Nat
      /\ a.src.clock \in Nat /\ b.src.clock \in Nat
  BY AttributesTyped
<1>2. /\ ~ (Precedes(A, B) /\ Precedes(B, A))
      /\ Precedes(A, B) \/ Precedes(B, A) \/ A = B
      /\ ~ Precedes(A, A)
  <2> HIDE DEF A, B
  <2> QED BY <1>1, PrecedesIsOrder
<1>3. CASE a.gm = b.gm
  <2>1. A = B /\ a.stepsRemoved # b.stepsRemoved + 1
        /\ b.stepsRemoved # a.stepsRemoved + 1
    BY <1>3 DEF Consistent
  <2>2. bmcDataSetComparison(a, b, p) = ComparePaths(a, b, p)
    BY <1>3 DEF bmcDataSetComparison
  <2>3. /\ Beats(a, b) <=> \/ a.stepsRemoved < b.stepsRemoved
                           \/ /\ a.stepsRemoved = b.stepsRemoved
                              /\ a.src.clock < b.src.clock
        /\ Beats(b, a) <=> \/ b.stepsRemoved < a.stepsRemoved
                           \/ /\ b.stepsRemoved = a.stepsRemoved
                              /\ b.src.clock < a.src.clock
    BY <1>2, <2>1 DEF Beats
  <2> HIDE DEF A, B
  <2>4. CASE a.stepsRemoved > b.stepsRemoved + 1
    BY <1>1, <2>2, <2>3, <2>4 DEF ComparePaths
  <2>5. CASE b.stepsRemoved > a.stepsRemoved + 1
    BY <1>1, <2>2, <2>3, <2>5 DEF ComparePaths
  <2>6. CASE a.stepsRemoved = b.stepsRemoved
    BY <1>1, <2>2, <2>3, <2>6 DEF ComparePaths
  <2> QED BY <1>1, <2>1, <2>4, <2>5, <2>6
<1>4. CASE a.gm # b.gm
  <2>1. A # B
    BY <1>1, <1>4
  <2>2. bmcDataSetComparison(a, b, p)
          = IF Precedes(A, B) THEN -1 ELSE IF Precedes(B, A) THEN 1 ELSE 0
    BY <1>4 DEF bmcDataSetComparison, CompareGrandmasters
  <2>3. (Beats(a, b) <=> Precedes(A, B)) /\ (Beats(b, a) <=> Precedes(B, A))
    BY <2>1 DEF Beats
  <2> HIDE DEF A, B
  <2> QED BY <1>2, <2>2, <2>3
<1> QED BY <1>3, <1>4

\* bmc()'s best after k + 1 records is beaten by none of them.
LEMMA ScanFindsBest ==
  ASSUME NEW t \in ForeignTable, NEW p, NEW s \in Scans(t, p), NEW n \in Slots,
         \A j, k \in 0..n : j # k => Consistent(t.slot[j].ann, t.slot[k].ann)
  PROVE  \A k \in 0..n : \A j \in 0..k : ~ Beats(t.slot[j].ann, t.slot[s[k]].ann)
<1> DEFINE Ann(j) == t.slot[j].ann
           Bad == {k \in 0..n : ~ \A j \in 0..k : ~ Beats(Ann(j), Ann(s[k]))}
<1>0. Slots \subseteq Nat /\ 0..n \subseteq Slots /\ n \in Nat
  BY MaxForeignAssumption DEF Slots
<1>1. /\ s \in [Slots -> Slots] /\ s[0] = 0
      /\ \A k \in Slots \ {0} :
           s[k] = IF bmcDataSetComparison(Ann(k), Ann(s[k - 1]), p) < 0
                  THEN k ELSE s[k - 1]
  BY DEF Scans
<1>2. \A j \in Slots : Ann(j) \in Announce /\ ~ Beats(Ann(j), Ann(j))
  <2> SUFFICES ASSUME NEW j \in Slots
               PROVE  Ann(j) \in Announce /\ ~ Beats(Ann(j), Ann(j))
    OBVIOUS
  <2>1. Ann(j) \in Announce
    BY DEF ForeignTable, Record
  <2>2. ~ Precedes(Attributes(Ann(j)), Attributes(Ann(j)))
    BY <2>1, AttributesTyped, PrecedesIsOrder
  <2>3. Ann(j).stepsRemoved \in Nat /\ Ann(j).src.clock \in Nat
    BY <2>1, AttributesTyped
  <2> HIDE DEF Ann
  <2> QED BY <2>1, <2>2, <2>3 DEF Beats
<1>3. \A k \in Slots : s[k] <= k
  BY ScanBounded
<1> HIDE DEF Ann
<1>4. SUFFICES ASSUME Bad # {} PROVE FALSE
  BY DEF Ann
<1>5. PICK k \in Bad : \A m \in Bad : k <= m
  <2>1. Bad \subseteq Nat
    BY <1>0
  <2> HIDE DEF Bad
  <2> QED BY <1>4, <2>1, LeastElement
<1>6. k \in 0..n /\ k \in Slots
  BY <1>0, <1>5
<1>7. PICK j \in 0..k : Beats(Ann(j), Ann(s[k]))
  BY <1>5
<1>8. k # 0
  <2> SUFFICES ASSUME k = 0 PROVE FALSE
    OBVIOUS
  <2>1. j = 0 /\ s[k] = 0
    BY <1>1, <1>7
  <2> QED BY <1>2, <1>6, <1>7, <2>1
<1>9. k - 1 \in 0..n /\ k - 1 \in Slots /\ k \in Slots \ {0}
  BY <1>0, <1>6, <1>8
<1> DEFINE b == s[k - 1]
<1>10. /\ b \in Slots /\ b \in 0..(k - 1) /\ b # k /\ b \in 0..n
  <2>1. b \in Slots /\ b <= k - 1
    BY <1>1, <1>3, <1>9
  <2> HIDE DEF b, Bad
  <2>2. b \in Nat /\ k \in Nat /\ k <= n
    BY <1>0, <1>6, <2>1
  <2> QED BY <1>0, <2>1, <2>2
<1>11. \A m \in 0..(k - 1) : ~ Beats(Ann(m), Ann(b))
  <2>1. k - 1 \notin Bad
    BY <1>5, <1>0, <1>6
  <2> QED BY <1>9, <2>1
<1>12. s[k] = IF Beats(Ann(k), Ann(b)) THEN k ELSE b
  <2>1. Consistent(Ann(k), Ann(b))
    BY <1>6, <1>10 DEF Ann
  <2>2. bmcDataSetComparison(Ann(k), Ann(b), p) < 0 <=> Beats(Ann(k), Ann(b))
    BY <1>2, <1>6, <1>10, <2>1, ComparisonIsOrder
  <2> QED BY <1>1, <1>9, <2>2
<1> HIDE DEF b, Bad
<1>13. j \in Slots /\ (j = k \/ j \in 0..(k - 1))
  BY <1>0, <1>6, <1>7
<1>14. CASE Beats(Ann(k), Ann(b))
  <2>1. s[k] = k
    BY <1>12, <1>14
  <2>2. j # k
    BY <1>2, <1>6, <1>7, <2>1
  <2>3. ~ Beats(Ann(j), Ann(b))
    BY <1>11, <1>13, <2>2
  <2>4. ~ Beats(Ann(b), Ann(k))
    <3>1. Consistent(Ann(k), Ann(b))
      BY <1>6, <1>10 DEF Ann
    <3>2. bmcDataSetComparison(Ann(k), Ann(b), p) \in {-1, 0, 1}
      BY <1>2, <1>6, <1>10, <3>1, ComparisonIsOrder
    <3> QED BY <1>2, <1>6, <1>10, <1>14, <3>1, <3>2, ComparisonIsOrder
  <2>5. ~ Beats(Ann(j), Ann(k))
    BY <1>2, <1>6, <1>10, <1>13, <2>3, <2>4, UnbeatenTransitive
  <2> QED BY <1>7, <2>1, <2>5
<1>15. CASE ~ Beats(Ann(k), Ann(b))
  BY <1>7, <1>11, <1>12, <1>13, <1>15
<1> QED BY <1>14, <1>15

\* The records in use hold Announces of different clocks, so they are comparable.
LEMMA RecordsComparable ==
  ASSUME NEW t \in ForeignTable, TableSound(t), PathsConsistent,
         \A j \in Slots : t.slot[j].ann \in Announces \cup {Blank.ann},
         \A j, k \in 0..(t.n - 1) : t.slot[j].id = t.slot[k].id => j = k
  PROVE  /\ \A j \in 0..(t.n - 1) : j \in Slots /\ t.slot[j].ann \in Announces
         /\ \A j, k \in 0..(t.n - 1) :
              j # k => Consistent(t.slot[j].ann, t.slot[k].ann)
<1>1. t.n \in 0..MaxForeign
  BY DEF ForeignTable
<1>2. ASSUME NEW j \in 0..(t.n - 1)
      PROVE  j \in Slots /\ t.slot[j].ann \in Announces /\ t.slot[j].id = t.slot[j].ann.src
  <2>1. j \in Slots /\ j < t.n
    BY <1>1, MaxForeignAssumption DEF Slots
  <2>2. Written(t, j)
    BY <2>1, InUseWritten
  <2>3. Blank.ann.src \notin Sources
    BY AnnouncesAssumption DEF Sources, Blank
  <2>4. t.slot[j].ann # Blank.ann
    BY <2>2, <2>3 DEF Written
  <2> QED BY <2>1, <2>4 DEF TableSound
<1>3. ASSUME NEW j \in 0..(t.n - 1), NEW k \in 0..(t.n - 1), j # k
      PROVE  Consistent(t.slot[j].ann, t.slot[k].ann)
  BY <1>2, <1>3 DEF PathsConsistent
<1> QED BY <1>2, <1>3

\* Every slot holds an Announce, or nothing yet.
TableAnnounced == \A j \in Slots : fm.slot[j].ann \in Announces \cup {Blank.ann}

\* With no decision outstanding, no record in use beats the best one of a port
\* that follows it, nor the own data set of a master.
Unbeaten(t, own) ==
  \A j \in 0..(t.n - 1) :
    /\ Following => ~ Beats(t.slot[j].ann, t.slot[t.best].ann)
    /\ portState = "MASTER" => ~ Beats(t.slot[j].ann, own)

DecisionInv ==
  /\ TableAnnounced
  /\ ~record_update /\ OneRecordPerMaster => Unbeaten(fm, Own)
  /\ pc = "syncTimer" => portState = "MASTER"

LEMMA InitDecision == Init => DecisionInv
BY MaxForeignAssumption
   DEF Init, DecisionInv, TableAnnounced, Unbeaten, EmptyTable, Following

LEMMA DecisionUnbeaten ==
  ASSUME TypeOK, RecordsInv, DecisionInv, PathsConsistent, OneRecordPerMaster,
         NEW b \in BestSlots(fm, parent), Decide(b), fm.n # 0
  PROVE  Unbeaten(fm, Own)'
<1> DEFINE n == fm.n - 1
           Ann(j) == fm.slot[j].ann
<1>1. fm \in ForeignTable /\ TableSound(fm) /\ Own \in Announce
  BY ConfigAssumption DEF TypeOK, RecordsInv
<1>2. n \in Slots /\ b \in 0..n
  <2>1. fm.n \in 0..MaxForeign
    BY <1>1 DEF ForeignTable
  <2>2. b \in Slots /\ b < fm.n
    BY <1>1, <2>1, BestBounded
  <2> QED BY <2>1, <2>2, MaxForeignAssumption DEF Slots
<1>3. /\ \A j \in 0..n : j \in Slots /\ Ann(j) \in Announces
      /\ \A j, k \in 0..n : j # k => Consistent(Ann(j), Ann(k))
  BY <1>1, RecordsComparable DEF DecisionInv, TableAnnounced, OneRecordPerMaster
<1>4. \A j \in 0..n : Ann(j) \in Announce /\ Consistent(Ann(j), Own)
  BY <1>3, AnnouncesAssumption DEF PathsConsistent
<1>5. \A j \in 0..n : ~ Beats(Ann(j), Ann(b))
  <2>1. PICK s \in Scans(fm, parent) : b = s[n]
    BY DEF BestSlots
  <2>2. n \in 0..n
    BY <1>2, MaxForeignAssumption DEF Slots
  <2>3. \A k \in 0..n : \A j \in 0..k : ~ Beats(Ann(j), Ann(s[k]))
    BY <1>1, <1>2, <1>3, ScanFindsBest
  <2> QED BY <2>1, <2>2, <2>3
<1>6. fm'.slot = fm.slot /\ fm'.n = fm.n /\ fm'.best = b
  BY <1>1, <1>2, <1>3 DEF Decide, ForeignTable
<1>7. ASSUME portState' = "MASTER" PROVE \A j \in 0..n : ~ Beats(Ann(j), Own)
  <2>1. bmcStateDecision(b) = "MASTER"
    BY <1>7, DecidedState
  <2>2. bmcDataSetComparison(Own, Ann(b), parent) < 0
    BY <2>1 DEF bmcStateDecision
  <2>3. Consistent(Own, Ann(b))
    BY <1>2, <1>4 DEF Consistent
  <2>4. bmcDataSetComparison(Own, Ann(b), parent) \in {-1, 0, 1}
    BY <1>1, <1>2, <1>4, <2>3, ComparisonIsOrder
  <2>5. ~ Beats(Ann(b), Own)
    <3>1. ~ (bmcDataSetComparison(Own, Ann(b), parent) > 0)
      BY <2>2, <2>4
    <3> HIDE DEF Ann
    <3> QED BY <1>1, <1>2, <1>4, <2>3, <3>1, ComparisonIsOrder
  <2> HIDE DEF Ann
  <2> QED BY <1>1, <1>2, <1>4, <1>5, <2>5, UnbeatenTransitive
<1> QED BY <1>5, <1>6, <1>7 DEF Unbeaten, Following

LEMMA DecisionDecides ==
  ASSUME TypeOK, RecordsInv, DecisionInv, PathsConsistent, StateDecision
  PROVE  DecisionInv'
<1>0. pc' = "dispatch" /\ fm \in ForeignTable
  BY DEF StateDecision, TypeOK
<1>1. CASE RemainMaster
  BY <1>0, <1>1 DEF RemainMaster, DecisionInv, TableAnnounced, Unbeaten
<1>2. ASSUME NEW b \in BestSlots(fm, parent), Decide(b) PROVE DecisionInv'
  <2>1. fm'.slot = fm.slot /\ fm'.n = fm.n
    BY <1>0, <1>2 DEF Decide, ForeignTable
  <2>2. OneRecordPerMaster' => OneRecordPerMaster
    BY <2>1 DEF OneRecordPerMaster
  <2>3. CASE fm.n = 0
    BY <1>0, <2>1, <2>3 DEF DecisionInv, TableAnnounced, Unbeaten
  <2>4. CASE fm.n # 0
    BY <1>0, <1>2, <2>1, <2>2, <2>4, DecisionUnbeaten DEF DecisionInv, TableAnnounced
  <2> QED BY <2>3, <2>4
<1> QED BY <1>1, <1>2 DEF StateDecision

LEMMA StoredAnnounced ==
  ASSUME NEW t \in ForeignTable, NEW a \in Announces,
         \A j \in Slots : t.slot[j].ann \in Announces \cup {Blank.ann}
  PROVE  /\ \A b : \A j \in Slots :
              Refresh(t, b, a).slot[j].ann \in Announces \cup {Blank.ann}
         /\ \A j \in Slots :
              addForeign(t, a).slot[j].ann \in Announces \cup {Blank.ann}
<1>1. ASSUME NEW b, NEW j \in Slots
      PROVE  Refresh(t, b, a).slot[j].ann \in Announces \cup {Blank.ann}
  <2>1. t.slot \in [Slots -> Record] /\ t.slot[j] \in Record
    BY DEF ForeignTable
  <2>2. Refresh(t, b, a).slot[j] = IF j = b THEN [t.slot[j] EXCEPT !.ann = a]
                                   ELSE t.slot[j]
    BY <2>1 DEF Refresh, ForeignTable
  <2>3. [t.slot[j] EXCEPT !.ann = a].ann = a
    BY <2>1 DEF Record
  <2> QED BY <2>2, <2>3
<1>2. ASSUME NEW j \in Slots
      PROVE  Insert(t, a).slot[j].ann \in Announces \cup {Blank.ann}
  BY DEF Insert, ForeignTable
<1> QED BY <1>1, <1>2 DEF addForeign

\* Steps that leave the table alone keep the invariant, if they begin neither
\* to follow nor to be master.
LEMMA OtherDecides ==
  ASSUME DecisionInv, UNCHANGED <<fm, record_update>>,
         Following' => Following,
         portState' = "MASTER" => portState = "MASTER",
         pc' = "syncTimer" => portState' = "MASTER"
  PROVE  DecisionInv'
BY DEF DecisionInv, TableAnnounced, OneRecordPerMaster, Unbeaten

LEMMA HandleDecides ==
  ASSUME TypeOK, DecisionInv, Handle
  PROVE  DecisionInv'
<1>1. pc' \in {"announceTimer", "masterCheck"}
  BY DEF Handle, HandleNothing, HandleShort, handleAnnounce, handleSync,
         handleFollowUp, handleOwnSync, handleDelayReq, handlePDelayReq, Handling
<1>2. ASSUME NEW a \in Announces, handleAnnounce(a) PROVE DecisionInv'
  <2>1. record_update' = TRUE
    BY <1>2 DEF handleAnnounce
  <2>2. \/ fm' = fm \/ fm' = addForeign(fm, a) \/ \E b : fm' = Refresh(fm, b, a)
    BY <1>2 DEF handleAnnounce, AnnounceFromParent, AnnounceFromOther,
                AnnounceInPassive, AnnounceWhileIndependent
  <2>3. TableAnnounced'
    BY <2>2, StoredAnnounced DEF TypeOK, DecisionInv, TableAnnounced
  <2> QED BY <1>1, <2>1, <2>3 DEF DecisionInv
<1>3. CASE UNCHANGED table /\ portState' \in {portState, "FAULTY"}
  BY <1>1, <1>3, OtherDecides DEF table, Following
<1>4. CASE HandleNothing \/ handleOwnSync \/ handleDelayReq \/ handlePDelayReq
  BY <1>3, <1>4 DEF HandleNothing, handleOwnSync, handleDelayReq, handlePDelayReq, Stay
<1>5. CASE HandleShort
  BY <1>3, <1>5 DEF HandleShort, toState, Move
<1>6. CASE handleFollowUp \/ \E twoStep \in BOOLEAN : handleSync(twoStep)
  BY <1>3, <1>6 DEF handleFollowUp, handleSync, updateClock
<1> QED BY <1>2, <1>4, <1>5, <1>6 DEF Handle

LEMMA TimeoutDecides ==
  ASSUME TypeOK, DecisionInv, NEW due, AnnounceTimer(due)
  PROVE  DecisionInv'
<1>1. pc' = "delayTimer" /\ record_update' = record_update /\ fm \in ForeignTable
  BY DEF AnnounceTimer, TypeOK
<1>2. CASE Latched(itimer, due)["ANNOUNCE_RECEIPT"].expire
  <2>1. fm' = DiscardRecords(fm)
    BY <1>2 DEF AnnounceTimer, AnnounceReceiptTimeout
  <2>2. fm'.slot = fm.slot /\ fm'.n = 0
    BY <1>1, <2>1 DEF DiscardRecords, ForeignTable
  <2> QED BY <1>1, <2>2 DEF DecisionInv, TableAnnounced, Unbeaten
<1>3. CASE ~ Latched(itimer, due)["ANNOUNCE_RECEIPT"].expire
  BY <1>1, <1>3, OtherDecides DEF AnnounceTimer, Stay, Following
<1> QED BY <1>2, <1>3

LEMMA LoopDecides ==
  ASSUME TypeOK, DecisionInv,
         \/ doInit \/ InitFails \/ NoDecision \/ Dispatch \/ DelayTimer
         \/ LeapSecondTimer \/ SyncTimer \/ AnnounceIntervalTimer
         \/ PDelayTimer \/ MasterCheck \/ check_signals
  PROVE  DecisionInv'
<1>1. CASE doInit
  <2>1. fm' = ResetRecords(fm) /\ pc' = "signals" /\ fm \in ForeignTable
    BY <1>1 DEF doInit, TypeOK
  <2>2. fm'.slot = fm.slot /\ fm'.n = 0
    BY <2>1 DEF ResetRecords, ForeignTable
  <2> QED BY <2>1, <2>2 DEF DecisionInv, TableAnnounced, Unbeaten
<1>2. CASE InitFails
  BY <1>2, OtherDecides DEF InitFails, toState, Move, Following, table
<1>3. CASE NoDecision
  BY <1>3, OtherDecides DEF NoDecision, Following, table
<1>4. CASE Dispatch
  BY <1>4, OtherDecides DEF Dispatch, toState, Move, Stay, Following, table
<1>5. CASE DelayTimer \/ LeapSecondTimer
  BY <1>5, OtherDecides DEF DelayTimer, LeapSecondTimer, Stay, Following, table
<1>6. CASE SyncTimer \/ AnnounceIntervalTimer \/ PDelayTimer
  BY <1>6, OtherDecides DEF SyncTimer, AnnounceIntervalTimer, PDelayTimer,
                            MasterTimer, Stay, Following, table
<1>7. CASE MasterCheck
  BY <1>7, OtherDecides DEF MasterCheck, toState, Move, Stay, Following, table
<1>8. CASE check_signals
  BY <1>8, OtherDecides
     DEF check_signals, NoSignal, SigUsr1, SigTerm, CheckSignals,
         servo_perform_clock_step, toState, Move, Stay, Following, table
<1> QED BY <1>1, <1>2, <1>3, <1>4, <1>5, <1>6, <1>7, <1>8

\* Whatever is received, evicted, forgotten or timed out, the port obeys the
\* best record it has: as long as no two paths to one grandmaster make
\* bmcDataSetComparison() contradict itself, a decision stands until an
\* Announce puts it in question, and is then taken again before it is used.
THEOREM DecisionsStand ==
  ASSUME PathsConsistent
  PROVE  Spec => []DecisionStands
<1>1. TypeOK /\ RecordsInv /\ DecisionInv /\ [Next]_vars => DecisionInv'
  <2> SUFFICES ASSUME TypeOK, RecordsInv, DecisionInv, [Next]_vars
               PROVE  DecisionInv'
    OBVIOUS
  <2>1. CASE UNCHANGED vars
    BY <2>1, OtherDecides DEF vars, DecisionInv, Following
  <2> QED BY <2>1, DecisionDecides, HandleDecides, TimeoutDecides, LoopDecides
          DEF Next
<1>2. TypeOK /\ RecordsInv /\ DecisionInv => DecisionStands
  <2> SUFFICES ASSUME TypeOK, RecordsInv, DecisionInv, OneRecordPerMaster,
                      NEW j \in 0..(fm.n - 1)
               PROVE  LET a == fm.slot[j].ann IN
                      /\ pc = "handle" /\ Following =>
                           bmcDataSetComparison(a, fm.slot[fm.best].ann, parent) >= 0
                      /\ pc = "syncTimer" => bmcDataSetComparison(a, Own, parent) >= 0
    BY DEF DecisionStands
  <2> DEFINE a == fm.slot[j].ann
             best == fm.slot[fm.best].ann
  <2>1. fm \in ForeignTable /\ TableSound(fm) /\ Own \in Announce
    BY ConfigAssumption DEF TypeOK, RecordsInv
  <2>2. /\ \A k \in 0..(fm.n - 1) : k \in Slots /\ fm.slot[k].ann \in Announces
        /\ \A k, l \in 0..(fm.n - 1) :
             k # l => Consistent(fm.slot[k].ann, fm.slot[l].ann)
    BY <2>1, RecordsComparable DEF DecisionInv, TableAnnounced, OneRecordPerMaster
  <2>3. a \in Announce /\ Consistent(a, Own)
    BY <2>2, AnnouncesAssumption DEF PathsConsistent
  <2>4. pc = "handle" \/ pc = "syncTimer" => Unbeaten(fm, Own)
    BY DEF RecordsInv, Decided, DecisionInv
  <2>5. ASSUME pc = "handle", Following
        PROVE  bmcDataSetComparison(a, best, parent) >= 0
    <3>1. fm.best \in 0..(fm.n - 1)
      <4>1. fm.n \in 0..MaxForeign /\ fm.best \in Slots
        BY <2>1 DEF ForeignTable
      <4>2. fm.n > 0 => fm.best < fm.n
        BY <2>5 DEF RecordsInv, BestReal, Decided
      <4> QED BY <4>1, <4>2, MaxForeignAssumption DEF Slots
    <3>2. best \in Announce
      BY <2>2, <3>1, AnnouncesAssumption
    <3>3. ~ Beats(a, best)
      BY <2>4, <2>5 DEF Unbeaten
    <3>4. CASE j = fm.best
      <4>1. a = best /\ a.stepsRemoved \in Nat /\ a.src.clock \in Nat
        BY <2>3, <3>4, AttributesTyped
      <4> HIDE DEF a, best
      <4> QED BY <4>1 DEF bmcDataSetComparison, ComparePaths
    <3>5. CASE j # fm.best
      <4>1. Consistent(a, best)
        BY <2>2, <3>1, <3>5
      <4> HIDE DEF a, best
      <4>2. /\ bmcDataSetComparison(a, best, parent) \in {-1, 0, 1}
            /\ bmcDataSetComparison(a, best, parent) < 0 <=> Beats(a, best)
        BY <2>3, <3>2, <4>1, ComparisonIsOrder
      <4> QED BY <3>3, <4>2
    <3> QED BY <3>4, <3>5
  <2>6. ASSUME pc = "syncTimer"
        PROVE  bmcDataSetComparison(a, Own, parent) >= 0
    <3>1. ~ Beats(a, Own)
      BY <2>4, <2>6 DEF Unbeaten, DecisionInv
    <3> HIDE DEF a
    <3>2. /\ bmcDataSetComparison(a, Own, parent) \in {-1, 0, 1}
          /\ bmcDataSetComparison(a, Own, parent) < 0 <=> Beats(a, Own)
      BY <2>1, <2>3, ComparisonIsOrder
    <3> QED BY <3>1, <3>2
  <2> QED BY <2>5, <2>6
<1> QED BY <1>1, <1>2, InitDecision, TypeCorrect, RecordsInductive, PTL DEF Spec

=============================================================================

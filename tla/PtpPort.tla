------------------------------ MODULE PtpPort ------------------------------
(***************************************************************************)
(* The port of one ordinary PTP clock: protocol.c's engine around the best *)
(* master decision of bmc.c, the foreign master table and the timers.      *)
(*                                                                         *)
(* The daemon is one thread.  Each iteration of protocol() is cut where an *)
(* alarm, a signal or a message can come in between, and pc says how far   *)
(* it has got; the actions below follow the order of doState().  Messages, *)
(* and the servo's verdict on an offset, come from the environment.  Of    *)
(* the delay measurement only what touches the port's timers and state is  *)
(* kept, sequence numbers are reduced to whether they match, and           *)
(* management messages are not modelled.                                   *)
(***************************************************************************)
EXTENDS BestMaster

CONSTANTS
  Announces,        \* the Announce messages other clocks may send
  Self,             \* this port's identity
  Own,              \* this clock's data set, as copyD0() presents it
  SlaveOnly,        \* option -g
  NoAdjust,         \* option -t (implied by -G): never touch the clock
  NoResetClock,     \* option -x: never step the clock on an offset
  Mechanisms,       \* the delay mechanisms options -g and -z choose from
  MaxLoop           \* bound: own Syncs waiting in the event socket

ASSUME ConfigAssumption ==
  /\ {SlaveOnly, NoAdjust, NoResetClock} \subseteq BOOLEAN
  /\ Mechanisms \subseteq {"E2E", "P2P"}
  /\ MaxLoop \in Nat
  /\ Self \in PortIdentity
  /\ Own \in Announce
ASSUME AnnouncesAssumption ==
  /\ Announces \subseteq Announce
  /\ \A a \in Announces : a.src # Self /\ a.src.clock # 0

Timer == {"PDELAYREQ_INTERVAL", "DELAYREQ_INTERVAL", "SYNC_INTERVAL",
          "ANNOUNCE_RECEIPT", "ANNOUNCE_INTERVAL"}

INSTANCE IntervalTimers

SLAVE_ONLY_CLOCK_CLASS == 255

\* Who may be followed, and what m1() puts in the parent data set.
Sources == {a.src : a \in Announces}
OwnParent == [clock |-> Self.clock, port |-> 0]

States == {"INITIALIZING", "FAULTY", "LISTENING", "MASTER", "PASSIVE", "SLAVE"}

Messages == {"None", "Sync", "Announce", "FollowUp", "DelayReq", "DelayResp",
             "PDelayReq", "PDelayResp"}

VARIABLES
  delayMechanism,           \* of this run, from rtOpts
  portState,
  parent,                   \* parentPortIdentity
  fm,                       \* the foreign master table
  record_update,            \* an Announce is waiting for bmc()
  itimer,
  waiting_for_first_sync,
  waitingForFollow,
  looped,                   \* own Syncs looped back and not yet received
  pc,                       \* position in the iteration of protocol()
  sent,                     \* the message the last step handed to the network
  heard,                    \* history: who announced since the last doInit()
  announcer                 \* history: and who of them last

vars == <<delayMechanism, portState, parent, fm, record_update, itimer,
          waiting_for_first_sync, waitingForFollow, looped, pc, sent, heard,
          announcer>>

P2P == delayMechanism = "P2P"

\* Groups of variables most actions leave alone.
table == <<delayMechanism, parent, fm, record_update, heard, announcer>>
exchange == <<waiting_for_first_sync, waitingForFollow>>

PC == {"loop", "dispatch", "handle", "announceTimer", "delayTimer",
       "leapTimer", "syncTimer", "announceInterval", "pdelayTimer", "masterHandle",
       "masterCheck", "signals", "exit"}

Init ==
  /\ delayMechanism \in Mechanisms
  /\ portState = "INITIALIZING"         \* protocol() before its loop
  /\ parent = Blank.id
  /\ fm = EmptyTable
  /\ record_update = FALSE
  /\ itimer = IdleTimers
  /\ waiting_for_first_sync = FALSE
  /\ waitingForFollow = FALSE
  /\ looped = 0
  /\ pc = "loop"
  /\ sent = "None"
  /\ heard = {}
  /\ announcer = Blank.id

-----------------------------------------------------------------------------
(* toState() *)

DelayTimerOf(p2p) == IF p2p THEN "PDELAYREQ_INTERVAL" ELSE "DELAYREQ_INTERVAL"

LeaveTimers(it, state) ==
  CASE state = "MASTER" ->
         Stopped(it, {"SYNC_INTERVAL", "ANNOUNCE_INTERVAL", "PDELAYREQ_INTERVAL"})
    [] state = "SLAVE" -> Stopped(it, {"ANNOUNCE_RECEIPT", DelayTimerOf(P2P)})
    [] state = "PASSIVE" ->
         Stopped(it, {"PDELAYREQ_INTERVAL", "ANNOUNCE_RECEIPT"})
    [] state = "LISTENING" -> Stopped(it, {"ANNOUNCE_RECEIPT"})
    [] OTHER -> it

\* Faulty variant: the timer of the state left is taken to be running still.
EnterTimersReused(it, state) ==
  CASE state = "LISTENING" ->
         Started(Stopped(it, Timer \ {"ANNOUNCE_RECEIPT"}), "ANNOUNCE_RECEIPT")
    [] state = "MASTER" ->
         Started(Started(Started(it, "SYNC_INTERVAL"), "ANNOUNCE_INTERVAL"),
                 "PDELAYREQ_INTERVAL")
    [] state = "PASSIVE" -> Started(it, "PDELAYREQ_INTERVAL")
    [] OTHER -> it

EnterTimers(it, state) ==
  CASE state = "LISTENING" ->
         Started(Stopped(it, Timer \ {"ANNOUNCE_RECEIPT"}), "ANNOUNCE_RECEIPT")
    [] state = "MASTER" ->
         Started(Started(Started(it, "SYNC_INTERVAL"), "ANNOUNCE_INTERVAL"),
                 "PDELAYREQ_INTERVAL")
    [] state = "PASSIVE" ->
         Started(Started(it, "PDELAYREQ_INTERVAL"), "ANNOUNCE_RECEIPT")
    [] state = "SLAVE" -> Started(it, "ANNOUNCE_RECEIPT")
    [] OTHER -> it

\* Faulty variant: becoming a slave again does not wait for a new first Sync.
MoveWithoutWaiting(from, to, it) ==
  /\ portState' = to
  /\ itimer' = EnterTimers(LeaveTimers(it, from), to)
  /\ waitingForFollow' = (to # "SLAVE" /\ waitingForFollow)
  /\ UNCHANGED waiting_for_first_sync

\* toState(to), called in state from with timers it.
Move(from, to, it) ==
  /\ portState' = to
  /\ itimer' = EnterTimers(LeaveTimers(it, from), to)
  /\ waiting_for_first_sync' = (to = "SLAVE" \/ waiting_for_first_sync)
  /\ waitingForFollow' = (to # "SLAVE" /\ waitingForFollow)

toState(to, it) == Move(portState, to, it)

Stay(it) ==
  /\ itimer' = it
  /\ UNCHANGED <<portState, exchange>>

\* servo_perform_clock_step(), which ends in "a full protocol reset".
servo_perform_clock_step(it) == IF NoAdjust THEN Stay(it) ELSE toState("FAULTY", it)

-----------------------------------------------------------------------------
(* One iteration: initialisation, and the state decision event *)

\* doInit() after netInit() succeeded: the sockets are new, the table keeps its
\* contents, and the daemon starts listening.
doInit ==
  /\ pc = "loop" /\ portState = "INITIALIZING"
  /\ fm' = ResetRecords(fm)
  /\ parent' = OwnParent
  /\ looped' = 0
  /\ toState("LISTENING", itimer)
  /\ heard' = {}
  /\ announcer' = Blank.id
  /\ sent' = "None"
  /\ pc' = "signals"
  /\ UNCHANGED <<delayMechanism, record_update>>

\* netInit() failed: protocol() returns and the process ends.
InitFails ==
  /\ pc = "loop" /\ portState = "INITIALIZING"
  /\ toState("FAULTY", itimer)
  /\ sent' = "None"
  /\ pc' = "exit"
  /\ UNCHANGED <<table, looped>>

\* bmcStateDecision() on the record in slot b.
bmcStateDecision(b) ==
  LET comp == bmcDataSetComparison(Own, fm.slot[b].ann, parent)
  IN  CASE SlaveOnly -> "SLAVE"
        [] ~SlaveOnly /\ fm.n = 0 /\ portState = "LISTENING" -> "LISTENING"
        [] OTHER -> IF comp < 0 THEN "MASTER"
                    ELSE IF comp = 0 THEN "FAULTY"
                    ELSE IF Own.clockClass < 128 THEN "PASSIVE" ELSE "SLAVE"

\* s1() on an Announce: a slave turns faulty if both leap flags are set.
StateAfterS1(a) ==
  IF portState = "SLAVE" /\ a.leap59 /\ a.leap61 THEN "FAULTY" ELSE portState

\* The call of toState() at the end of a decision for state; s1() may already
\* have left the state it was called in.
EnterDecided(state, a) ==
  LET now == IF state \in {"SLAVE", "PASSIVE"} THEN StateAfterS1(a) ELSE portState
      it == IF now = portState THEN itimer ELSE LeaveTimers(itimer, portState)
  IN  IF state = now THEN Stay(it) ELSE Move(now, state, it)

\* Faulty variant: foreign_record_best is not kept.
DecideUnrecorded(b) ==
  LET a == fm.slot[b].ann
      state == bmcStateDecision(b)
  IN  /\ ~(fm.n = 0 /\ portState = "MASTER")
      /\ parent' = CASE state = "MASTER" -> OwnParent
                     [] state \in {"SLAVE", "PASSIVE"} -> a.src
                     [] OTHER -> parent
      /\ EnterDecided(state, a)
      /\ UNCHANGED fm

\* bmc() with records to compare, or in a state that does not check for them.
Decide(b) ==
  LET a == fm.slot[b].ann
      state == bmcStateDecision(b)
  IN  /\ ~(fm.n = 0 /\ portState = "MASTER")
      /\ fm' = [fm EXCEPT !.best = b]
      /\ parent' = CASE state = "MASTER" -> OwnParent
                     [] state \in {"SLAVE", "PASSIVE"} -> a.src
                     [] OTHER -> parent
      /\ EnterDecided(state, a)

\* bmc() of a master that knows no other: m1() and no comparison.
RemainMaster ==
  /\ fm.n = 0 /\ portState = "MASTER"
  /\ parent' = OwnParent
  /\ Stay(itimer)
  /\ UNCHANGED fm

\* Faulty variant: the Announce stays waiting.
StateDecisionRepeated ==
  /\ pc = "loop"
  /\ portState \in {"LISTENING", "PASSIVE", "SLAVE", "MASTER"}
  /\ record_update
  /\ RemainMaster \/ \E b \in BestSlots(fm, parent) : Decide(b)
  /\ sent' = "None"
  /\ pc' = "dispatch"
  /\ UNCHANGED <<delayMechanism, record_update, looped, heard, announcer>>

\* The first switch of doState(), when an Announce is waiting.
StateDecision ==
  /\ pc = "loop"
  /\ portState \in {"LISTENING", "PASSIVE", "SLAVE", "MASTER"}
  /\ record_update
  /\ record_update' = FALSE
  /\ RemainMaster \/ \E b \in BestSlots(fm, parent) : Decide(b)
  /\ sent' = "None"
  /\ pc' = "dispatch"
  /\ UNCHANGED <<delayMechanism, looped, heard, announcer>>

NoDecision ==
  /\ pc = "loop" /\ portState # "INITIALIZING"
  /\ portState = "FAULTY" \/ ~record_update
  /\ sent' = "None"
  /\ pc' = "dispatch"
  /\ UNCHANGED <<portState, table, itimer, exchange, looped>>

\* Faulty variant: nothing clears a fault.
DispatchFaulty ==
  /\ pc = "dispatch"
  /\ Stay(itimer)
  /\ pc' = CASE portState = "FAULTY" -> "signals"
             [] portState = "MASTER" -> "syncTimer"
             [] OTHER -> "handle"
  /\ sent' = "None"
  /\ UNCHANGED <<table, looped>>

\* The second switch of doState().
Dispatch ==
  /\ pc = "dispatch"
  /\ IF portState = "FAULTY"
       THEN toState("INITIALIZING", itimer) /\ pc' = "signals"
       ELSE /\ Stay(itimer)
            /\ pc' = IF portState = "MASTER" THEN "syncTimer" ELSE "handle"
  /\ sent' = "None"
  /\ UNCHANGED <<table, looped>>

-----------------------------------------------------------------------------
(* handle() and the message handlers *)

Handling ==
  /\ pc \in {"handle", "masterHandle"}
  /\ pc' = IF pc = "handle" THEN "announceTimer" ELSE "masterCheck"

\* No message, or one no handler acts upon: wrong version or domain, a Sync or
\* a FollowUp that is not the parent's, a response to another slave.
HandleNothing ==
  /\ Handling
  /\ Stay(itimer)
  /\ sent' = "None"
  /\ UNCHANGED <<table, looped>>

\* A message shorter than its type requires.
HandleShort ==
  /\ Handling
  /\ toState("FAULTY", itimer)
  /\ sent' = "None"
  /\ UNCHANGED <<table, looped>>

\* The parent's Announce in SLAVE: s1(), then the record and the timer, both
\* also when s1() has just declared the port faulty.
AnnounceFromParent(a) ==
  /\ portState = "SLAVE" /\ a.src = parent
  /\ fm' = Refresh(fm, fm.best, a)
  /\ LET now == StateAfterS1(a)
         it == IF now = portState THEN itimer ELSE LeaveTimers(itimer, portState)
     IN  /\ portState' = now
         /\ itimer' = Started(it, "ANNOUNCE_RECEIPT")
  /\ UNCHANGED exchange

\* Another master's Announce in SLAVE restarts the timer as well.
AnnounceFromOther(a) ==
  /\ portState = "SLAVE" /\ a.src # parent
  /\ fm' = addForeign(fm, a)
  /\ Stay(Started(itimer, "ANNOUNCE_RECEIPT"))

\* In PASSIVE the active master's Announce restarts the timer and is not
\* stored; any other is stored.
AnnounceInPassive(a) ==
  /\ portState = "PASSIVE"
  /\ IF a.src = parent
       THEN Stay(Started(itimer, "ANNOUNCE_RECEIPT")) /\ UNCHANGED fm
       ELSE Stay(itimer) /\ fm' = addForeign(fm, a)

AnnounceWhileIndependent(a) ==
  /\ portState \in {"MASTER", "LISTENING"}
  /\ fm' = addForeign(fm, a)
  /\ Stay(itimer)

handleAnnounce(a) ==
  /\ Handling
  /\ \/ AnnounceFromParent(a)
     \/ AnnounceFromOther(a)
     \/ AnnounceInPassive(a)
     \/ AnnounceWhileIndependent(a)
  /\ record_update' = TRUE
  /\ heard' = heard \cup {a.src}
  /\ announcer' = a.src
  /\ sent' = "None"
  /\ UNCHANGED <<delayMechanism, parent, looped>>

\* updateClock(), after a handler left the timers it: a large offset steps the
\* clock.  Either way the handler has set waitingForFollow to FALSE.
updateClock(it) ==
  \/ itimer' = it /\ UNCHANGED portState
  \/ /\ ~NoAdjust /\ ~NoResetClock
     /\ portState' = "FAULTY"
     /\ itimer' = LeaveTimers(it, portState)

\* A Sync of the parent: the first one starts the delay measurement.
handleSync(twoStep) ==
  /\ Handling
  /\ portState = "SLAVE"
  /\ LET it == IF waiting_for_first_sync THEN Started(itimer, DelayTimerOf(P2P))
               ELSE itimer
     IN  IF twoStep THEN itimer' = it /\ UNCHANGED portState ELSE updateClock(it)
  /\ waiting_for_first_sync' = FALSE
  /\ waitingForFollow' = twoStep
  /\ sent' = "None"
  /\ UNCHANGED <<table, looped>>

\* The FollowUp that matches the last Sync of the parent.
handleFollowUp ==
  /\ Handling
  /\ portState = "SLAVE" /\ waitingForFollow
  /\ updateClock(itimer)
  /\ waitingForFollow' = FALSE
  /\ sent' = "None"
  /\ UNCHANGED <<table, looped, waiting_for_first_sync>>

\* An own Sync loops back with its send time: every state but SLAVE answers it
\* with the FollowUp (twoStepFlag is always set).
handleOwnSync ==
  /\ Handling
  /\ looped > 0
  /\ looped' = looped - 1
  /\ sent' = IF portState = "SLAVE" THEN "None" ELSE "FollowUp"
  /\ Stay(itimer)
  /\ UNCHANGED table

handleDelayReq ==
  /\ Handling
  /\ ~P2P /\ portState = "MASTER"
  /\ sent' = "DelayResp"
  /\ Stay(itimer)
  /\ UNCHANGED <<table, looped>>

handlePDelayReq ==
  /\ Handling
  /\ P2P /\ portState \in {"SLAVE", "MASTER", "PASSIVE"}
  /\ sent' = "PDelayResp"
  /\ Stay(itimer)
  /\ UNCHANGED <<table, looped>>

Handle ==
  \/ HandleNothing
  \/ HandleShort
  \/ \E a \in Announces : handleAnnounce(a)
  \/ \E twoStep \in BOOLEAN : handleSync(twoStep)
  \/ handleFollowUp
  \/ handleOwnSync
  \/ handleDelayReq
  \/ handlePDelayReq

-----------------------------------------------------------------------------
(* Timers.  Every timerExpired() first latches whatever came due; it is the *)
(* caller's timer i that is then reported and cleared.                      *)

AnnounceReceiptTimeout(it) ==
  LET consumed == Consumed(it, "ANNOUNCE_RECEIPT") IN
  /\ fm' = DiscardRecords(fm)
  /\ IF ~SlaveOnly /\ Own.clockClass # SLAVE_ONLY_CLOCK_CLASS
       THEN parent' = OwnParent /\ toState("MASTER", consumed)
       ELSE UNCHANGED parent /\ toState("LISTENING", consumed)

\* After handle(), whatever state that left the port in.
AnnounceTimer(due) ==
  /\ pc = "announceTimer"
  /\ LET it == Latched(itimer, due) IN
     IF it["ANNOUNCE_RECEIPT"].expire
       THEN AnnounceReceiptTimeout(it)
       ELSE Stay(it) /\ UNCHANGED <<parent, fm>>
  /\ sent' = "None"
  /\ pc' = "delayTimer"
  /\ UNCHANGED <<delayMechanism, record_update, looped, heard, announcer>>

\* issueDelayReq() rearms its timer, issuePDelayReq() leaves it to recur.
DelayTimer ==
  /\ pc = "delayTimer"
  /\ \E due \in SUBSET Running(itimer) :
       LET it == Latched(itimer, due)
           i == DelayTimerOf(P2P)
       IN  IF it[i].expire
             THEN /\ sent' = IF P2P THEN "PDelayReq" ELSE "DelayReq"
                  /\ Stay(IF P2P THEN Consumed(it, i) ELSE Started(it, i))
             ELSE sent' = "None" /\ Stay(it)
  /\ pc' = "leapTimer"
  /\ UNCHANGED <<table, looped>>

\* The leap second pause is not modelled, but looking at its timer latches the
\* others.
LeapSecondTimer ==
  /\ pc = "leapTimer"
  /\ \E due \in SUBSET Running(itimer) : Stay(Latched(itimer, due))
  /\ sent' = "None"
  /\ pc' = "signals"
  /\ UNCHANGED <<table, looped>>

\* A timer of the master that sends message m each time it expires.
MasterTimer(i, m) ==
  \E due \in SUBSET Running(itimer) :
    LET it == Latched(itimer, due) IN
    /\ Stay(Consumed(it, i))
    /\ sent' = IF it[i].expire THEN m ELSE "None"

\* A Sync loops back to the event socket of its sender.
SyncTimer ==
  /\ pc = "syncTimer"
  /\ MasterTimer("SYNC_INTERVAL", "Sync")
  /\ looped' = IF sent' = "Sync" /\ looped < MaxLoop THEN looped + 1 ELSE looped
  /\ pc' = "announceInterval"
  /\ UNCHANGED table

AnnounceIntervalTimer ==
  /\ pc = "announceInterval"
  /\ MasterTimer("ANNOUNCE_INTERVAL", "Announce")
  /\ pc' = IF P2P THEN "pdelayTimer" ELSE "masterHandle"
  /\ UNCHANGED <<table, looped>>

PDelayTimer ==
  /\ pc = "pdelayTimer"
  /\ MasterTimer("PDELAYREQ_INTERVAL", "PDelayReq")
  /\ pc' = "masterHandle"
  /\ UNCHANGED <<table, looped>>

\* The end of the MASTER case: a clock that must not be master listens again.
MasterCheck ==
  /\ pc = "masterCheck"
  /\ IF SlaveOnly \/ Own.clockClass = SLAVE_ONLY_CLOCK_CLASS
       THEN toState("LISTENING", itimer)
       ELSE Stay(itimer)
  /\ sent' = "None"
  /\ pc' = "signals"
  /\ UNCHANGED <<table, looped>>

\* check_signals(): nothing, SIGUSR1, or a signal that ends the process.
CheckSignals ==
  /\ pc = "signals"
  /\ sent' = "None"
  /\ UNCHANGED <<table, looped>>

NoSignal == CheckSignals /\ Stay(itimer) /\ pc' = "loop"

SigUsr1 == CheckSignals /\ servo_perform_clock_step(itimer) /\ pc' = "loop"

SigTerm == CheckSignals /\ Stay(itimer) /\ pc' = "exit"

check_signals == NoSignal \/ SigUsr1 \/ SigTerm

-----------------------------------------------------------------------------
Next ==
  \/ doInit
  \/ InitFails
  \/ StateDecision
  \/ NoDecision
  \/ Dispatch
  \/ Handle
  \/ \E due \in SUBSET Running(itimer) : AnnounceTimer(due)
  \/ DelayTimer
  \/ LeapSecondTimer
  \/ SyncTimer
  \/ AnnounceIntervalTimer
  \/ PDelayTimer
  \/ MasterCheck
  \/ check_signals

Spec == Init /\ [][Next]_vars

-----------------------------------------------------------------------------
(* Fairness: the daemon keeps running, and in silence the announce receipt  *)
(* timer comes due.                                                         *)

HearsAnnounce == \E a \in Announces : handleAnnounce(a)

ReceiptTimeout ==
  \E due \in SUBSET Running(itimer) :
    "ANNOUNCE_RECEIPT" \in due /\ AnnounceTimer(due)

\* timerStart() puts the timeout off at every Announce it is called for, so
\* nothing is assumed of the timer while Announces keep coming.
FairSpec ==
  /\ Spec
  /\ WF_vars(Next)
  /\ []<><<HearsAnnounce>>_vars \/ SF_vars(ReceiptTimeout)

-----------------------------------------------------------------------------
(* Properties *)

Following == portState \in {"SLAVE", "PASSIVE"}

\* Every variable keeps to its type.
TypeOK ==
  /\ delayMechanism \in Mechanisms
  /\ portState \in States
  /\ parent \in PortIdentity
  /\ fm \in ForeignTable
  /\ record_update \in BOOLEAN
  /\ itimer \in TimerArray
  /\ waiting_for_first_sync \in BOOLEAN
  /\ waitingForFollow \in BOOLEAN
  /\ looped \in 0..MaxLoop
  /\ pc \in PC
  /\ sent \in Messages
  /\ heard \subseteq Sources
  /\ announcer \in Sources \cup {Blank.id}

\* A port that follows a master follows one that has announced itself at some
\* time, never a slot of the calloc'ed table nobody has filled in.  bmc() reads
\* slot 0 without looking at the number of records, initData() resets that
\* number alone, and an Announce may be waiting when it does.
FollowsRealMaster == Following => parent \in Sources

\* When a message is about to be handled, the record handleAnnounce() copies
\* the parent's Announce over is the parent's, and addForeign() starts probing
\* at a record in use: no eviction, reset or timeout leaves
\* foreign_record_best on another master's record or on a forgotten one.
BestRecordStands ==
  pc \in {"handle", "masterHandle"} =>
    /\ Following => fm.slot[fm.best].id = parent
    /\ fm.n > 0 => fm.best < fm.n

OneRecordPerMaster ==
  \A j, k \in 0..(fm.n - 1) : fm.slot[j].id = fm.slot[k].id => j = k

\* A slave's master is beaten by no record in use, and a master's own data set
\* by none: an Announce that changes the outcome is decided upon before the
\* next message is handled and before the next Sync is sent.  (Not if a master
\* has two records: the comparison of one clock's data sets is an error.)
DecisionStands ==
  LET known == {fm.slot[j].ann : j \in 0..(fm.n - 1)} IN
  OneRecordPerMaster =>
    /\ pc = "handle" /\ Following =>
         \A a \in known :
           bmcDataSetComparison(a, fm.slot[fm.best].ann, parent) >= 0
    /\ pc = "syncTimer" =>
         \A a \in known : bmcDataSetComparison(a, Own, parent) >= 0

\* A port that is no master can always time out, so it never waits for good,
\* and the timers that send Sync and Announce run in a master and in no other.
TimersMatchState ==
  /\ portState \in {"LISTENING", "PASSIVE", "SLAVE"} =>
       itimer["ANNOUNCE_RECEIPT"].running
  /\ \A i \in {"SYNC_INTERVAL", "ANNOUNCE_INTERVAL"} :
       itimer[i].running <=> portState = "MASTER"

\* A slave that has had its first Sync never stops measuring the delay: its
\* delay timer runs whatever messages, timeouts and rearming came since.
MeasurementKeepsGoing ==
  portState = "SLAVE" /\ ~waiting_for_first_sync =>
    itimer[DelayTimerOf(P2P)].running

\* If Announces stop, the port ends up following nobody, and does not relapse
\* because of an Announce or a record left behind.
SilenceEndsFollowing ==
  []<><<HearsAnnounce>>_vars \/ <>[](~Following \/ pc = "exit")

\* A fault is always cleared, unless the process ends first or SIGUSR1 keeps
\* coming when the port is about to initialise.
FaultsAreCleared ==
  \/ []<><<SigUsr1 /\ portState = "INITIALIZING">>_vars
  \/ portState = "FAULTY" ~>
       portState \notin {"FAULTY", "INITIALIZING"} \/ pc = "exit"

-----------------------------------------------------------------------------
(* What comments in the source say of the program, and the code does not do. *)

\* protocol.c:185, of entering LISTENING: "in Listening mode, make sure we
\* don't send anything".
ListeningSilent == portState = "LISTENING" => sent = "None"

\* servo.c:466, of entering FAULTY: "make a full protocol reset", after which only
\* a master heard since is followed.
FollowsHeardMaster == Following => parent \in heard

\* protocol.c:394: SLAVE and PASSIVE "wait for the announce timeout of the
\* current active master", so one that falls silent is not followed for ever.
SilentParentAbandoned ==
  \A p \in Sources :
    \/ []<>(announcer = p)
    \/ []<>(~(Following /\ parent = p) \/ pc = "exit")

=============================================================================

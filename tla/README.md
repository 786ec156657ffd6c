# Verification of the QNX network time synchronisation

The repository patches PTPd 2.2.2 (IEEE 1588 clock synchronisation) for QNX 6.5 and measures how well two
boards keep time with it.  This directory holds TLA+ models of that software, TLC configurations that check
them on small instances, and theorems about them that the TLA+ proof system checks.  All paths below are
relative to `src/results/ptp/new/src/`, the patched daemon, unless they start with `src/`.

## The system

| Part | Source | State it keeps | Operations | What is hard about it |
|---|---|---|---|---|
| interval timers | `dep/timer.c` | `elapsed` (volatile, written by the signal handler); per timer `interval`, `left`, `expire` | `catch_alarm`, `timerUpdate`, `timerStart`, `timerStop`, `timerExpired` | the SIGALRM handler runs between any two statements of the daemon |
| protocol engine | `protocol.c` | `portState`, the timers, flags of half finished exchanges, sequence numbers, `record_update` | `protocol`, `toState`, `doInit`, `doState`, `handle` and the message handlers | ten state transitions start and stop five timers; messages, timeouts and signals come in any order |
| best master clock | `bmc.c` | the default, parent and time property data sets | `initData`, `m1`, `s1`, `bmcDataSetComparison`, `bmcStateDecision`, `bmc` | a decision is taken later than the Announce that asks for it |
| foreign master table | `protocol.c:1972-2027` (`addForeign`) | `foreign[]`, `number_foreign_records`, `foreign_record_i`, `foreign_record_best` | insertion, refresh, and being forgotten by a timeout or a reset | a full table evicts; the best slot is an index into a table that changes |
| delay measurement, end to end | `protocol.c:902-1299, 1797-1834` | `sentDelayReqSequenceId`, `waitingForDelayResp`, `waitingForFollow`, four time stamps | Sync, FollowUp, DelayReq, DelayResp | the request is recognised by its own loopback; messages overtake each other |
| delay measurement, peer to peer | `protocol.c:1302-1505, 1837-1930` | the same for PDelay | PDelayReq, PDelayResp, its FollowUp | a negated test of the requester; one header is kept of the requests, whose answers are finished later |
| leap second pause | `protocol.c:447-486, 775-793`, `bmc.c:245-292` | `leapSecondPending`, `leapSecondInProgress`, a timer | announced by s1(), begun and ended by doState() | pending may be set again while in progress |
| servo | `dep/servo.c` | filters, `observed_drift` | `updateOffset`, `updateDelay`, `updatePeerDelay`, `updateClock` | integer arithmetic at its limits |
| QNX clock | `dep/sys.c:561-720` | five words written by the interrupt handler | `getTime`, `setTime`, `adjFreq` | torn and stale reads |
| network | `dep/net.c` | event and general sockets, multicast memberships | `netInit`, `netShutdown`, `netRefreshIGMP`, `netSelect`, `netRecv*`, `netSend*` | loss, reordering, loopback; failures halfway; the callers misread the results |
| packing | `dep/msg.c` | `msgIbuf`, `msgObuf`, shared by all messages | pack and unpack each message | what one message leaves in the buffer for the next |
| management | `management.c`, `protocol.c:1508-1792` | none of its own, assigns to everything | one handler per management id | bypasses `toState` |
| start-up and signals | `dep/startup.c`, `ptpd.c` | flags set by handlers, the lock file, log and quality files | `ptpdStartup`, `check_signals`, `ptpdShutdown` | several daemons, and a parent and its child, race for one lock file |
| edge generator, acceptor, collector | `src/results/edge_*` | counters and arrays of the measurement | toggling, timing and evaluating edges | an interrupt pending while another one is served; 32 bit wrap |

How they interact: `protocol()` is one thread.  Each iteration takes a state decision if an Announce is
waiting (`bmc()`), receives at most one message (`handle()`), polls its timers, sends what they ask for and
looks at the signals.  Everything shared inside the daemon is the structure `PtpClock`; the only concurrent
parties are the signal handlers (`elapsed`, the signal flags) and, on QNX, the interrupt handler behind
`getTime()`.  Ports interact by messages alone, and a port also receives its own event messages, by
multicast loopback, to learn when they left.

What makes the parts correct:

- timers: an expiration is neither early nor invented, a running timer is never stuck;
- port: the timeouts and send timers that run are those the state needs, faults are cleared, a slave keeps
  measuring;
- best master: the port follows a master that exists, its record is the parent's, no better record is
  ignored, a master that falls silent is given up;
- delay measurement: two time stamps are paired only if they belong to one exchange;
- leap second: a slave stops updating its clock before midnight, for long enough, and goes on afterwards;
- peer delay: the four stamps of a measurement are of one request and one answer;
- QNX clock: a time read is the time of day, up to the lateness of an interrupt and the ticks that tear the copy;
- management: answers do not breed answers, ports given the same requests agree, allocations are freed;
- messages: what is read is what was packed, never what the message before has left;
- servo: no sum leaves its 32 bits, a step lands, the clock locks;
- edge measurement: no edge is lost, and the wraps of the counter cancel;
- the daemon: slaves never run side by side, a dead one does not stop the next, memberships are regained.

PROJECT.json lists the components (also those not modelled, with the reason) and every hazard at its line.

## Modules

| Module | Models | Kind |
|---|---|---|
| `IntervalTimers` | the timer calls as functions from one timer array to the next, as the caller sees them | operators |
| `TimerService` | what `dep/timer.c` promises: start, stop, come due, report once | abstract specification |
| `PtpTimer` | `dep/timer.c`, tick by tick, the alarm handler between any two steps | refines `TimerService` |
| `BestMaster` | comparison and scan of `bmc.c`, table of `addForeign()` | operators |
| `PtpPort` | the engine of `protocol.c` around them | component; extends `BestMaster`, uses `IntervalTimers` |
| `PtpExchange` | one port and its masters, pairing time stamps over a network | composition |
| `PeerDelay` | ports of one link that measure peer to peer | composition |
| `LeapSecond` | the pause around a leap second | component |
| `QnxClock` | the patch's clock on QNX, `dep/sys.c:561-715` | component |
| `ClockServo` | `dep/servo.c` with the arithmetic of `arith.c`, and the clock it moves | component with its plant |
| `ManagementHandlers`, `Management` | `management.c`; ports that a manager speaks to and that hear each other | operators; composition |
| `MessageLayouts`, `Messages` | `dep/msg.c`, octet by octet; a sender's and a receiver's buffer | operators; component |
| `DaemonOptions`, `DaemonNetwork`, `Daemon` | the command line; sockets and memberships; daemons on one station from start to end | operators; component; composition |
| `EdgeGenerator`, `EdgeAcceptor`, `EdgeMeasurement` | `gen.c`; the microcontroller's `main.c`; both, with `gen_stats.py` | components; composition |
| `MC...` | clocks, sets of messages, symmetry for TLC | instances |
| `PtpPort_proofs`, `PtpExchange_proofs`, `PeerDelay_proofs`, `LeapSecond_proofs`, `Management_proofs`, `Daemon_proofs`, `EdgeMeasurement_proofs` | theorems about those modules | proofs |
| `TimeServices_proofs` | theorems about `PtpTimer`, `QnxClock` and `ClockServo`, which it extends together; the names of the latter two begin with Clock and Servo where they would meet | proofs |

**PtpTimer.**  `elapsed`, and per timer `interval`, `left`, `expire`, are the code's.  `catch_alarm` may
happen in any state.  `timerExpired` is cut into the read of `elapsed` (`delta = elapsed`), its clearing, the
loop over the array and the test of `expire`, because an alarm between the read and the clear is lost; the
loop is one step, since the handler never touches the array.  Start and stop are one step each.

**PtpPort.**  `pc` is the position in an iteration of `protocol()`, and every place where something else can
come in is a value of it.  One iteration is: `doInit` if the port is initialising or faulty; otherwise
`StateDecision` if an Announce is waiting (`bmc()` and the `toState()` it asks for); `Handle`, at most one
message; the timers that the port's state polls, in the order of `doState()`; `check_signals`.  Each timer poll
first lets any set of running timers come due, which is what `TimerService` allows.  `toState()` is `Move`,
written as what leaving the old state and entering the new one do to the timers and flags.  The delay mechanism, an
option, is chosen in `Init` and stays.  `sent`, `heard`,
`announcer` are history that the properties need and nothing in the model reads.  A message is its type and
what the handler's branches look at.

**PtpExchange.**  A time stamp is named by the transmission it was taken of; two stamps may be subtracted
only if they are equal.  Transmissions are counted without bound while messages carry `Number(k)`, the count
modulo `SeqSize`, so the wrap is real.  The network is a set from which messages vanish, and in which they
stay after having been read; it has no order.  The event sockets of the port and of the masters, which carry
the loopback, are sequences.

**PeerDelay.**  Stamps and numbers as in `PtpExchange`; here every port asks and answers, all on one multicast group.
Every port has one event socket, a queue in which the requests and responses it receives (`Arrive`) and its own, looped
back, wait in the order they came; each pass reads the first.  So a port that answers a request finds its response
behind whatever had arrived meanwhile, and a second request read before it overwrites the header of which the FollowUp
takes its number.  `Disregard` reads what the state or the match leaves alone.  `handlePDelayResp()` is modelled with its
negated test.  `PeerDelayPaired` says what remains true, on a link of two ports, of a measurement taken at the peer's
FollowUp by a port that has not changed state since its request and has had a response since it last became slave: the
request's two stamps are of one request, and the response's of one response, unless that request reached the peer's
socket behind one that waited there (`crowded`); then the send time may be an earlier response's, and never a later
one's.

**LeapSecond.**  The two flags, the timer, the position in the iteration, and a clock in seconds.  Every
change of state and of parent that `PtpPort` may make, and more, is allowed at any time.

**QnxClock.**  `area` is the structure of five words that the interrupt handler fills; `getTime()` copies one word
per step into `a`, and a tick may come between any two.  Time is in cycles of the processor; the kernel's clock
moves once per tick, by `inc`.  `torn` counts the ticks that came during the copy, and `rough` bounds how much of
the first step, measured from wherever in a tick the daemon started, is left in the smoothed one.  `ReadsTrue`
bounds the error of a reading by the constants: ticks missed during the copy, the error of the step over the cycles
extrapolated, the lateness of one interrupt, and the roundings.

**ClockServo.**  A record holds what `servo.c` keeps, in the code's own 32-bit nanoseconds and truncating
divisions.  Each second the clock gains its skew and the last `adjFreq()` on one tick, because that is what
`ClockAdjust()` does on QNX; then a Sync, and a delay exchange, arrive on time, late or not at all.

**Management.**  A handler maps a clock and a message to what it makes of the clock, the answer and the blocks it
leaves allocated.  Management messages reach every port, since the target is never looked at, and so do answers.
A pass that has handled one goes on in the state it began in (`Passing`), which is how a port made slave-only
stays master for the rest of it.  The state decision that comes first in a pass (`Decided`) looks at the option of the
command line alone (`bmc.c:450`): it makes master of a port that management has made slave-only too, and the check at
the end of the pass (`protocol.c:520`, in `AfterHandle`) takes it back.  What `PtpPort` decides from timers and Announces is left to chance.

**Messages.**  An octet is the name of a field and a rank in it, so that a value read from elsewhere, in another
order or left by another message, shows.  `F @@ G` is the order in which the packers write.

**Daemon.**  A slot is a family: the process that was started, its child, or both.  A lock is on an inode and of a
process, as `fcntl()` has it; `LOCKFILE` is a name that `unlink()` takes away from its inode.  `daemon_already_running()`
is cut between the open and the lock, `ptpdShutdown()` between the close and the unlink, and `netRefreshIGMP()` where
it sleeps.  A kill may come anywhere.  Only the part of the protocol engine that reaches `net.c` is kept, and of the
network only what decides whether a slave hears its masters: the interface's address, memberships, and the switch that
forwards a group while it remembers a report of it.

**EdgeMeasurement.**  A step of `Pass` is a cycle of the acceptor's counter.  Interrupts wait for the routine that
runs, and of those that are pending the counter's overflow goes first.  A routine is called, which clears its flag,
takes up to `RoutineCycles`, and reads or counts at its end.  The generators look at their clocks at each
tick of their own, in a phase of their own; the slave's clock is set now and then.  `Difference` is what
`gen_stats.py` makes of the printed numbers.

How they compose: `PtpPort` is built on the view of the timers that `PtpTimer` is proved to implement.
`PtpExchange`, `PeerDelay`, `LeapSecond` and `Management` leave the port's state to chance where `PtpPort` decides it,
so what holds in them holds for the port's actual choices.  `ClockServo` takes the stamps that `PtpExchange` and
`PeerDelay` pair, and runs on the clock that `QnxClock` reads.

Operators commented *Faulty variant* are not part of the model: each is a definition as a plausible bug would
have it, and the property named with it in PROJECT.json fails when it takes the definition's place.

## Runs

| Run | Asks | Bounds |
|---|---|---|
| `PtpTimer` | are expirations neither early nor invented, is the service implemented? | two timers, intervals of 0, 2 and 3 ticks, 4 alarms |
| `PortOrdinary` | records, decisions, timers and measurement of a clock without options, by either delay mechanism | three masters for a table of 2 |
| `PortClient` | whom the measured client (`ptpd2 -g`) follows, and its liveness | a better and a worse master, the better one also with both leap flags |
| `PtpExchange` | are stamps of one transmission paired? | two masters, 3 numbers, 5 transmissions, 2 messages under way |
| `PeerDelay` | the same, peer to peer | two ports, 3 numbers, 3 requests, 2 messages under way, 3 waiting at a port, 2 changes of state |
| `LeapSecond` | does the pause begin in time, last, and end? | one master, a day of 7 s, a pause of 2 s, an added second |
| `QnxClock` | how wrong can a time be, and does the extrapolation divide by zero? | ticks of 100 cycles up to 5 late, 6 ticks, 2 of them in one copy, one setting of the clock |
| `Management` | answers, agreement, memory, slave-only ports | two ports, 2 requests with 6 of the ids |
| `Messages` | is what is read what was packed? | every type and id, texts of 7 and 128 octets, 3 messages in a row |
| `ClockServo` | overflow, filters, steps, and does it lock? | 8 clocks and sets of options; 2 faults in the first 3 s, then as many as it takes |
| `EdgeMeasurement` | stamps, losses, differences, and does it end? | routines of 1 cycle, ticks of 4, a counter that wraps at 5 in 5 words, a period of 11, 3 edges of each line, one setting of the clock back, forward a little, or by more than a period |
| `Daemon` | who runs with whom, what is left over, and is the network regained? | two slots; a slave, and a `-L` master that keeps a file in the foreground |

Why these are enough to see the interesting cases:

- two timers are needed for one to run while another is started; 4 alarms are more than the longest interval,
  so a timer can be overcharged and rearmed;
- a table of 2 with three masters is the smallest that evicts with a best slot different from the insertion
  slot; five records, the daemon's default, add nothing but length (the proofs are for any size).  `PortOrdinary`
  is the port that is master or slave, with `-g` the slave alone.  Neither becomes PASSIVE: that takes a class below 128,
  which nobody sets on the systems measured.  With `Own <- OwnPrecise` (class 13) in `PortOrdinary.cfg` TLC reaches it, in
  274,932 states, and the same properties hold; the theorems are for every class;
- one Sync waiting in the event socket (`MaxLoop`) is the smallest number that can be handled in the wrong
  state;
- three sequence numbers wrap within five transmissions, and make the number before 0 differ from the one
  after it; two messages under way can overtake;
- in `PeerDelay` three requests put two into the peer's queue, ahead of the first one's response and with one of the
  peer's own, and three places hold them; the numbers of three requests of one port are all different, and what happens
  when they come round, at the fourth, is left to the theorem;
- `Pause < Day` leaves a part of the day in which nothing is imminent; the code's pause of 2 s and day of
  86,400 s have the same shape;
- four ticks are what `getTime()` waits for, so six leave room for two that tear a copy;
- two requests suffice for one to change what the other finds (a domain, a disabled port, a slave-only clock), and two
  ports for an answer to reach somebody who was not asked;
- a message is read by one packed before it and one before that: what leaks comes from the message before, and what
  the third finds is what the first left where the second did not write;
- the eight plants of `MCClockServo` cover both delay mechanisms, offsets below, around and above the second at which
  the clock is stepped, `-x`, `-O`, `-M` and `-A`;
- the edge run keeps the order of the real lengths (three routines < a tick < the counter's wrap < the period); the
  counter overflows while routines run and edges wait, its words wrap within the three periods, and a clock set
  forward by more than a period makes a burst;
- two slots, each started any number of times, give the race of a daemon that ends with one that starts and a third
  that comes after it.

`CHECK_DEADLOCK FALSE` stands where the system really stops: SIGTERM and SIGINT end the process (`PtpPort`), the
measurement is over (`EdgeMeasurement`), and the bounds end what is issued (`PtpExchange`, `PeerDelay`, `QnxClock`,
`Management`, `Messages`).

## Fairness

- `WF_vars(Next)` (PtpPort, LeapSecond): the daemon keeps iterating.  It blocks in `select()` alone, without a
  timeout, and the interval timer's SIGALRM every 62.5 ms interrupts that call.  Fairness of the disjunction
  does not choose between messages, so no message is assumed to arrive and none to be kept away.
- `SF_vars(ReceiptTimeout)`, only if Announces stop: each `handleAnnounce()` of a slave restarts the timer, so
  nothing is assumed of it while they come; once they stop the ticks run it down.  Strong, because it is polled
  at one point of the iteration.
- `SF_vars(Tick)` (LeapSecond): seconds pass although an iteration does not always see one do so.  `PauseEnds`
  moreover supposes that the slave hears its parent again and again, since the code ends the pause in
  `handleAnnounce()`.
- `WF_phase(PhaseEnds)` (ClockServo): seconds pass.
- `EdgeMeasurement`: cycles pass, the start signals come, and the microcontroller serves what is pending
  (`WF` of `Pass`, `Start` and `Serve`).
- `Daemon`: the main loop goes on, a fault is cleared by the next pass, and the announce receipt timer of a port that
  hears nobody expires.  Nothing is assumed of the interface, of starts, or of signals.

`FaultsAreCleared` excludes SIGUSR1 arriving in every initialisation for ever, which does keep the port from
starting.  `HearsAgain` supposes that from some time on the interface stays up and no other daemon of the station
runs: a membership held by another one is not reported anew.

## Proofs

For every value of the constants allowed by the ASSUMEs of the modules.

- **PtpTimer** (`TimeServices_proofs`).  Type correctness, `LeftWithinInterval`, `TicksAccounted`, `NeverEarlierThanPending`, and that the
  ticking timers implement `TimerService`.  `TicksAccounted` is not inductive alone: the ticks are held in
  `delta` between read and clear, so the invariant (`Accounting`) adds that this copy never exceeds `elapsed`
  (`CopyIsBounded`) and that a running timer has been charged what its interval lacks (`ChargedCoversInterval`).
- **PtpPort, timers** (`PtpPort_proofs`).  `TypeOK`, which includes that the insertion and best slots stay in the
  table, `TimersMatchState` and `MeasurementKeepsGoing`.  `TimersFit` relates the timers to a state; the lemmas say
  what each timer call and `Move` preserve of it, and each action composes them.
- **PtpPort, records** (`PtpPort_proofs`).  `FollowsRealMaster` and `BestRecordStands`.  Neither is inductive.
  `RecordsInv` adds that the slots in use are a prefix filled by real masters (`TableSound`), that slot 0, which a decision may read,
  has been written (`FollowReal`), although the number of records may be zero
  by then, that with no decision outstanding the best record is the parent's and in use (`BestReal`), and that none
  is outstanding past the first switch of `doState()` (`Decided`).
- **PtpPort, decisions** (`PtpPort_proofs`).  `DecisionStands`, for any table, options and set of Announces, assuming
  `PathsConsistent`: two clocks that name one grandmaster give it the same attributes, and their steps to it do not
  differ by exactly one; one clock may contradict itself from one Announce to the next.
  The masters of `PortOrdinary` satisfy it.  The hypothesis is what the code
  needs and not a convenience of the proof: with a table of 3 and the Announces {grandmaster 9 by clock 1, priority
  100, 3 steps; 9 by clock 3, priority 200, 1 step; 8 by clock 4, priority 150, 1 step} the comparison is a
  cycle, as it never looks at the attributes of what has the same grandmaster, and TLC finds the port following
  a master that another of its records beats.  The proof has three parts.  `Precedes`, which goes through six attributes
  in turn, is a strict total order (`PrecedesIsOrder`, by the first attribute that differs), so consistent data sets
  are ordered by it and then by steps and clock, whoever is the parent (`ComparisonIsOrder`).
  The scan of `bmc()`, one pass with a running best, ends at a record that none in the table beats (`ScanFindsBest`).
  `DecisionInv` says that what the table holds was announced, and that with no decision outstanding no record beats the
  one followed, or the port's own data set if it is master; an Announce that changes the table always asks for a
  decision, so only the steps that take one can disturb it.  As in the property, a table in which one master has
  two records is left out: the code cannot compare them.
- **PtpExchange.**  `TypeOK`, `OffsetPaired`; `DelayPaired` and `DelaysGoForward` assuming `LossyLoopback = FALSE`,
  for any number of masters, sequence numbers, messages under way and transmissions.  `ExchangeInv` says that the
  messages under way are recent enough for their number to name one transmission (`Recent`), that a master's own
  Sync is its last (`OwnSyncLast`), and what a port that waits for a FollowUp has received (`AwaitedRecent`).
  `RequestsInv` says that the own request in the event socket is the last one issued (`LoopedLast`), that every
  request measured is older than one awaited (`NewestIsOld`), and that when none is in the socket the stored send
  time is the last request's (`LastRequestKnown`), which is what the lost loopback breaks.
- **PeerDelay.**  `TypeOK` for any number of ports; `PeerDelayPaired` on a link of two ports, for any number of sequence
  numbers, requests, messages under way or waiting, and changes of state.  `ExchangeInv` says that whatever of an exchange
  is under way, waiting or stored is of one of the last `SeqSize` requests of its port, since a number comes round only
  when nothing carries it any more; so equal numbers mean equal requests.  `WaitingInv`: a request waits in one place,
  once, and only before it has been answered, so `AnswersInv`: it has one response, and a FollowUp with its number has
  the send time of no later one, or its own if it is the last request and has arrived behind no other (`Alone`).  That
  rests on `AloneInv`: before such a request no other waits, and behind it no response, so that by the time it is answered
  no older response is left for the FollowUp that its header will make.  `RequestsInv` says that a port which reads its general socket has the send
  time of its last request, as the event socket comes first.  Both exchanges rest on the same lemmas about numbers that
  wrap, where the modulus is a constant.
- **LeapSecond.**  `TypeOK`, `WindowPaused` and `PauseLastsLong`, for any masters, day and pause; `PauseCanEnd` for one
  master.  `WindowInv` adds the position in the iteration.  `LengthInv` adds that a pending leap second's flag is lit
  (`PendingIsLit`), so that the second added is counted, and that what the timer has left reaches to the end of the
  pause (`TimerAccounts`).  `FlagsKnown`: during the pause the port shows no flag fewer than its one master last sent,
  so none can be raised again; with two masters it is false (see below).

- **QnxClock** (`TimeServices_proofs`).  `ClockTypeOK` and `NeverDividesByZero`, for any ticks, lateness and settings of
  the clock.  `StepsPositive` says that a tick's note is older than the next tick is due, so that two notes are at least
  a cycle apart, and that the count of the interrupts is copied before the length of the tick.
  `ReadsTrue`, for any tick, lateness, adjustment and number of ticks in a copy, assuming that a word is wide enough for
  what is extrapolated (`WordsAreWide`: 2^64 against some millions).  `NotesTrue` says that the notes are those of the last
  tick, with the clock where it stands unless it was set since, and a step within `StepError` of the true one
  (`SmoothedNear`: the mean keeps two fifths of the old error, and the rounding adds less than it takes).  `CopyTrue` says
  that a torn copy has the cycle counter of some g ticks ago and the clock of some h ticks ago, where h <= g <= `torn`
  because the words are copied in that order.  The rest is arithmetic: quotients by two numbers that are close
  (`RoughQuotient`), whole ticks more and a late interrupt less (`LateQuotient`), and words that wrap (`WrappedIs`).

- **ClockServo** (`TimeServices_proofs`).  `ServoTypeOK`, `DelayBounded` and the action property `StepLands`, for any
  clock, network and options, whatever is lost or late and for any number of seconds.  First the arithmetic: division as
  C truncates it (`Truncated`), `normalizeTime()` gives both fields one sign and keeps the value in nanoseconds
  (`Normalized`), and so the operations of `arith.c` add and subtract (`TimeArithmetic`).  The filter's stiffness is
  chosen so that 2^s times its value fits 32 bits (`StiffnessBound`), so its product is never the one that overflows
  (`ScaledIs`), and a filter below a second that is fed less than a second stays there and keeps its sign
  (`FilteredSound`).  `ServoInv` adds to the types that filter and delay are such (`Sound`), and that no offset for
  which the servo would step outlives its Sync: a Sync that `-M` refuses leaves the old offset in place, and were that
  one of whole seconds the clock would be stepped by it a second time.  `StepLands` then is arithmetic on values in
  nanoseconds (`StepLandsNear`) and the comparison of times (`Compared`).

- **Management.**  `TypeOK` and the five properties of the run, for any number of ports and requests and any of the ids.
  First the handlers, none of which is looked at again: whatever the message, its handler is of one of a few shapes
  (`HandlerShape`), and each answers with the address the port had before, reaches what it has allocated if it can be
  packed at all, answers an answer by silence or an error, and changes no setting but the one that a SET names
  (`HandlerSound`).
  `ManagementInv` then says what a message can be by its distance from the manager's request (`MessageSound`): a request
  asks, its answer is a RESPONSE or an ACKNOWLEDGE, and what a port says to that is an error, which nobody answers.
  `AnswersEnd` and `AnsweredWhereAsked` follow.  `SettingsLeft` says that a setting is what the last SET among the
  requests handled made it, or as configured, so that equal requests leave equal settings (`PortsAgree`), whatever
  state decisions, answers and foreign messages came between them.  `SlaveOnlyObeyed` needs that the rest of a pass
  looks at the setting as it is after the handler (`RestSound`), whatever the decision before it has made of the port; `HeapBalanced` is inductive once the shapes are known.

- **Daemon.**  `TypeOK`, `RefusedForAReason`, `SlavesRunAlone` and `DescriptorsAccounted`, for any number of slots, any
  commands and any number of starts.  The invariant says how often each process has the lock file open at each point
  (at most twice, so that an inode is free for the next file), that a lock is held by a process that is there, that a daemon
  that starts has met all that are alive (so a refusal has a reason), that of the strict ones at most one has come past
  its look at the processes, and that sockets are open in the states that work.  It assumes that the options
  a command is parsed to are consistent (`CommandsAssumption`), which TLC evaluates for those of the run.

- **EdgeMeasurement.**  `TypeOK`, `StampsOffByAWrap`, `NoEdgeLost` and `DifferencesMeasured`, for any period, tick, width
  of the counter, length of a routine, number of measurements, offsets and settings of the clock, assuming that three
  routines are over before a tick and before the counter wraps (`RoutinesAreShort`: a tick is 295 cycles).
  `InterruptsWait` says that since `main()` was interrupted each of the three interrupts has come once at most, so that
  the cycles passed are those of the routines that have run (`Elapsed`): an edge waits for the routine that runs, the
  overflow and the other line, while a line's own next edge is a tick away.  So it finds the flag of the one before
  taken, and none is lost (`EdgesSeen`).  `OverflowsWait` and `OverflowsCounted` relate `COUNTER32_LOWER`, the pending
  overflow and the routine that runs to the overflows there have been: the count lags by one at most, and a line reads it
  lagging only if TAR ran over while that line's routine ran.  Hence what a stamp can be (`StampsRead`).  What the
  collector makes of a line would be an induction over its entries, which the provers cannot do; so the invariant
  carries it along from one stored edge to the next (`CountsRead`).

Checked by TLC and not proved:

- liveness (`SilenceEndsFollowing`, `FaultsAreCleared`, `PauseEnds`, `Settles`, `Finishes`, `HearsAgain`), which needs
  fairness and ENABLED;
- the layouts (`ReadAsPacked`, `LeftoversAreZero`, `WellSized`): the constants are the code's own offsets, so TLC's
  enumeration of every type and id already is the general case but for the texts.

The type invariants of `Messages` and `EdgeMeasurement` are stated beside their specifications and were used in
developing them, and those of `EdgeMeasurement`, `PeerDelay` and `Management` are proved; the runs spend their time on
the properties instead.

## Where code and comments disagree

Met while modelling.  Each has a configuration beside the modules that is no part of the runs above, because TLC finds
its property violated: run `tlc -config X.cfg` on the module named.

| Configuration | Module | What the code does, and what its comments say |
|---|---|---|
| `PortListening` | `MCPtpPort` | A listening port goes on sending delay requests, since `timerStop()` leaves a latched expiration and `issueDelayReq()` rearms the timer.  `protocol.c:185`: "in Listening mode, make sure we don't send anything". |
| `PortReset` | `MCPtpPort` | After a reset the port can follow a master it has not heard since, because `initData()` resets the number of records alone.  `dep/servo.c:466`: "make a full protocol reset". |
| `PortSilentParent` | `MCPtpPort` | Any master's Announce restarts the timeout by which a silent parent would be noticed.  `protocol.c:394`: "in order to wait for the announce timeout of the current active master". |
| `PtpExchangeParents` | `MCPtpExchange` | After a change of parent the new parent's DelayResp is combined with the delay from the old one's Sync.  `dep/servo.c:440`: "Offset must have been computed at least one time before computing end to end delay". |
| `PtpExchangeLoopback` | `MCPtpExchange` | If the own DelayReq's loopback is lost, its answer is measured against the send time of the request before it.  `protocol.c:1147-1150`: "Make sure we process the REQ _before_ the RESP". |
| `LeapSecondDispute` | `LeapSecond` | Two masters that drop the leap flag at different times can leave a port that changes between them paused for good.  `protocol.c:450-452`: "it will be unpaused in handleAnnounce()". |
| `PeerDelayForeign` | `MCPeerDelay` | A port measures another port's request: the test of the requester is negated, and a third port's exchange passes it.  `protocol.c:1433`: "Pdelayresp doesn't match with the PdelayReq". |
| `ManagementLost` | `MCManagement` | A port told to INITIALIZE may never do so: the rest of the pass, or the next message, assigns another state first.  `management.c:366`: "cause INITIALIZE event". |
| `EdgeStamp` | `MCEdgeMeasurement` | A stamp is too small by a wrap of the counter if that wraps while the interrupt routine runs.  `src/results/edge_acceptor/mcu/main.c:103-104`: "Measure N-times clock tics count from program launch". |

Noticed on the way and without a configuration:

- After a pause has ended, a flag that is still lit makes the leap second pending for the next midnight.  One delay
  exchange in 65,536 is dropped, because `sentDelayReqSequenceId - 1` is an `int` and -1 equals no number.
- `initData()` copies the clock class before it sets a slave-only clock's to 255; without effect, since a slave-only
  clock is never compared.
- `netSelect()` and the send functions report failure in a way their callers take for success, so that the branches
  to FAULTY behind them are dead.
- GET and SET of TIME pack through a null pointer and end the daemon; a TLV of another type leaks a block; the target of a
  management message is never looked at; RESPONSE to SLAVE_ONLY and USER_DESCRIPTION and ACKNOWLEDGE of ENABLE_PORT and
  DISABLE_PORT are answered by errors; a message too short makes a disabled port faulty and so enables it.
- The packers written by hand never write the octet of the leap second and UTC flags, so that this program as master
  announces none; an Integer64 is packed with its lower word first, and read from a header with its upper one first.
- A port that lets a second request queue before it has read its response to the first answers the second with the
  send time of that first response, as it keeps one header for both (`protocol.c:1344`, `1386-1392`), and the requester
  measures with it.  TLC shows it, in `PeerDelay`, when `PeerDelayPaired` is stated without the alternative of `crowded`.
- A state decision makes master of a port that management has made slave-only; it is for the rest of that pass.
- A Sync refused by `-M` still moves the clock, by the stale offset (`dep/servo.c:535`; `ptpd2.8:91` says: "do not accept
  delay values of more than NUMBER nanoseconds").
- `-O` limits a step in one direction only; without steps the clock is slewed by the sign of the nanoseconds alone;
  `-A` cannot help when the first Sync is refused; the peer delay is not checked to be positive.
- `toInternalTime()` and `fromInternalTime()` leave their result as it was when a time is out of range.
- A daemon started alone can be refused, because its own parent may still hold the lock when it locks again.  A `-L`
  daemon that ends removes the others' lock file and closes its standard input.  A slave is kept from a second one by
  `pgrep` and not by the lock alone; on a system without `pgrep` it would be the lock alone, which does not suffice.
- The help says that `-G` implies `-L` and `-c` implies `-D`; neither is so.  `-e` ends with a status nobody has set.
- A fault that is cleared while the interface is gone ends the daemon, as `doInit()` fails.  Masters, and slaves with
  `-j`, never refresh their memberships: once the switch has forgotten them they stay deaf.
- The list of `getifaddrs()` is never freed; the lock file's first descriptor stays open; SIGHUP truncates the quality
  file; a signal that arrives between its handling and the clearing of its flag is lost.
- Entries of the acceptor's arrays that were never filled are printed as zeroes, which the collector takes for wraps.
- A station whose clock is set forward makes up for the edges by a burst, one per tick.  Edges that close may get stamps
  of which the later is the smaller, if the former was read while the counter ran over; the collector then adds a wrap
  of 2^32 to all that follow.  `DifferencesMeasured` therefore supposes that edges are `Apart`.

## Assumptions

- **PtpPort**: nobody else uses this port's identity, and no clock has identity 0.  Options are those of the
  repository's scripts (`run_client.sh`, `run_master.sh`) and none; class 255 by option `-s` is not instantiated.
  The masters' Announces come from a small set but in any order, and any of them may stop.
- **PtpExchange**, **PeerDelay**: a sequence number is free again before it is reused (there are 65,536 of them, and a few are
  issued in a second).  A master drains its event socket between two Syncs.  Masters are two-step and stay masters.
  The loopback is reliable unless `LossyLoopback`.
- **PeerDelay**: the link loses and reorders messages and repeats none, unlike the network of `PtpExchange`.
- **LeapSecond**: time in seconds, an iteration shorter than one, a day that is short.  One kind of leap second,
  and no master raises a flag during a pause that it had not raised before.  LISTENING stands for PASSIVE too, and
  FAULTY for INITIALIZING.
- **QnxClock**: a tick's interrupt is late by less than a tick; a word is copied at once.  The kernel's tick and the
  cycle counter do not drift against each other.  The double of `getTime()` is the exact quotient, cut off.
- **ClockServo**: a skew within what the servo can adjust.  Latency options and correctionField are zero, `-t` is not
  given, and no leap second is pending.
- **Management**: values are as configured, changed, or too long; the manager sends nothing that makes no sense.
- **Messages**: an upper nibble is constant and not shown.  A receiver takes the length it is told.
- **Daemon**: `pgrep` answers a number when the shell can be started.  A kernel that has lost an interface's address may fail
  to leave a group.  The event and the general socket, and both groups, are joined together.  The log file is left out.
- **EdgeMeasurement**: the compiler reads `state` in each turn of the loop although it is not volatile.  The first pair
  of edges does not straddle a wrap of the 32-bit counter (`FirstTogether`).  A station's period is longer than its tick,
  and three interrupt routines are shorter (`RoutinesAreShort`).

## Not modelled

Display, `msgDump()` and logging, which change no state.  SIGUSR2, the hybrid and unicast modes, unicast addresses and the
choice among interfaces.  The conversions of `arith.c` between stamps and internal times.  The FPGA, which wires lines
through, and the collector's charts.  The unpatched tree `src/results/ptp/old/` runs on none of the systems measured.

## What the properties do not say

- `FaultsAreCleared` counts a FAULTY that the timeout of the same pass overwrites as cleared: the port leaves it, but has
  not been initialised.
- `Settles` does not exclude that a stale offset is applied again (`dep/servo.c:535`), only that it keeps the servo from
  locking; `StepLands` says that it never makes a step.
- `DescriptorsAccounted` is about sockets; the files it counts are bounded nearly by the way they are opened.
- The runs of `Daemon` use two commands; the other combinations of `DaemonOptions` are checked by nothing but the
  assumption that those used are consistent.
- `EdgeGenerator` acts at its tick.  In `gen.c:271-328` an iteration that was held up runs back to back with the next when a
  tick is pending, and a `devctl()` that fails ends the program; neither is modelled.

## Plan

1. `DomainOfPorts`: several `PtpPort`s over a network that loses Announces, against an abstract specification in which one
   master is chosen.
2. Proofs: `PeerDelayPaired` for more ports than two, under a sharper property.
3. A refinement of `PtpExchange` to "each exchange yields the stamps of one transmission or nothing".
4. The conversions of `arith.c` with the correctionField in `ClockServo`; the log file in `Daemon`.

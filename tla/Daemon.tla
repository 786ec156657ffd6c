------------------------------- MODULE Daemon -------------------------------
(***************************************************************************)
(* The life of the daemons on one station: ptpdStartup(), the main loop's  *)
(* signals and network, and ptpdShutdown() (dep/startup.c, ptpd.c and      *)
(* protocol()), with any number of starts and kills.                       *)
(*                                                                         *)
(* A slot is a daemon's place.  Its family is the process that was started *)
(* ("first"), the one it forks ("child"), or for a while both.  A lock is  *)
(* fcntl()'s: a process holds it on an inode, a forked process does not    *)
(* inherit it, and closing any descriptor of the inode releases it.        *)
(***************************************************************************)
EXTENDS DaemonNetwork, DaemonOptions, FiniteSets

CONSTANTS
  Commands   \* the command lines daemons are started with

\* Whoever is strict about ntpd expects none, and a slave is strict about its like:
\* the options of a mode set the three fields together.
ASSUME CommandsAssumption ==
  /\ IsFiniteSet(Slots) /\ Commands # {}
  /\ \A c \in Commands :
       /\ Parsed(c).ntp_daemons_strict => Parsed(c).ntp_daemons_expected = 0
       /\ Parsed(c).slaveOnly => Parsed(c).ptp_daemons_strict

\* The files that LOCKFILE names one after the other: each slot may have two open.
Inodes == 1..(2 * Cardinality(Slots) + 1)
NoInode == 0

Nobody == <<>>

VARIABLES
  pc,       \* where a slot's daemon is; "off": there is none
  family,
  command,
  path,     \* the inode that LOCKFILE names
  opened,   \* the inodes a daemon has opened, the last being global_lock_fd
  holder,   \* of an inode: the process that has locked it
  files,    \* how many quality files a daemon has open
  portState,
  met,         \* history: has a daemon that starts met another one
  unexplained  \* history: was a start refused that had met nothing

locks == <<path, opened, holder>>
vars ==
  <<pc, family, command, locks, files, portState, met, unexplained, network>>

\* rtOpts of each command.
Options == [c \in Commands |-> Parsed(c)]
rtOpts(p) == Options[command[p]]

Starting == {"open", "lock", "look", "files", "fork", "reopen", "relock"}
Running == {"run", "reset", "joining"}
Ending == {"closing", "unlinking"}

Alive(p) == pc[p] # "off"

\* The process that acts for a slot.
Self(p) == <<p, IF family[p] = "first" THEN "first" ELSE "child">>

TypeOK ==
  /\ pc \in [Slots -> {"off"} \cup Starting \cup Running \cup Ending]
  /\ family \in [Slots -> {"first", "both", "child"}]
  /\ command \in [Slots -> Commands]
  /\ path \in Inodes \cup {NoInode}
  /\ opened \in [Slots -> Seq(Inodes)]
  /\ holder \in [Inodes -> (Slots \X {"first", "child"}) \cup {Nobody}]
  /\ files \in [Slots -> 0..1]
  /\ portState \in [Slots -> {"INITIALIZING", "LISTENING", "SLAVE", "MASTER", "FAULTY"}]
  /\ met \in [Slots -> BOOLEAN] /\ unexplained \in BOOLEAN
  /\ NetworkTypeOK

Init ==
  /\ pc = [p \in Slots |-> "off"]
  /\ family = [p \in Slots |-> "first"]
  /\ command = [p \in Slots |-> CHOOSE c \in Commands : TRUE]
  /\ path = NoInode
  /\ opened = [p \in Slots |-> <<>>]
  /\ holder = [i \in Inodes |-> Nobody]
  /\ files = [p \in Slots |-> 0]
  /\ portState = [p \in Slots |-> "INITIALIZING"]
  /\ met = [p \in Slots |-> FALSE]
  /\ unexplained = FALSE
  /\ NetworkInit

\* What a daemon has met matters while it starts.
Goes(p, to) ==
  /\ pc' = [pc EXCEPT ![p] = to]
  /\ met' = [met EXCEPT ![p] = @ /\ to \in Starting]

-----------------------------------------------------------------------------
(* The end of a process, by exit or by a signal nobody handles *)

\* The kernel closes what is open and releases the locks of the slot's processes.
\* A process still there that has forked exits with its child.
Dies(p) ==
  /\ Goes(p, "off")
  /\ family' = [family EXCEPT ![p] = "first"]
  /\ command' = [command EXCEPT ![p] = CHOOSE c \in Commands : TRUE]
  /\ opened' = [opened EXCEPT ![p] = <<>>]
  /\ holder' = [i \in Inodes |-> IF holder[i] \in {<<p, "first">>, <<p, "child">>}
                                   THEN Nobody ELSE holder[i]]
  /\ files' = [files EXCEPT ![p] = 0]
  /\ portState' = [portState EXCEPT ![p] = "INITIALIZING"]
  /\ netShutdown(p)

\* exit(3): an instance too many.
Refuses(p, reason) ==
  /\ Dies(p)
  /\ unexplained' = (unexplained \/ ~(met[p] \/ reason))
  /\ UNCHANGED path

\* SIGKILL, or another signal before the handlers are there.
Kill(p) ==
  /\ Alive(p)
  /\ Dies(p)
  /\ UNCHANGED <<path, unexplained>>

\* daemon(): the process that was started ends, at any time after its fork.
FirstExits(p) ==
  /\ family[p] = "both"
  /\ family' = [family EXCEPT ![p] = "child"]
  /\ holder' = [i \in Inodes |-> IF holder[i] = <<p, "first">> THEN Nobody
                                   ELSE holder[i]]
  /\ UNCHANGED <<pc, met, command, path, opened, files, portState, unexplained, network>>

-----------------------------------------------------------------------------
(* ptpdStartup() *)

\* A daemon that starts meets those alive, and those that start meet it.
Meeting(p) == [q \in Slots |-> IF q = p THEN \E r \in Slots \ {p} : Alive(r)
                                 ELSE met[q] \/ pc[q] \in Starting]

\* A process is started; a command line with a mistake ends it at once.
Start(p) ==
  /\ ~Alive(p)
  /\ \E c \in Commands :
       /\ Checked(Options[c]) = {}
       /\ command' = [command EXCEPT ![p] = c]
       /\ pc' = [pc EXCEPT ![p] = IF Options[c].ignore_daemon_lock THEN "look" ELSE "open"]
  /\ met' = Meeting(p)
  /\ UNCHANGED <<family, locks, files, portState, unexplained, network>>

\* An inode that nobody has open.
FreeInode ==
  CHOOSE i \in Inodes : i # path /\ \A p \in Slots : i \notin Range(opened[p])

\* Faulty variant: a LOCKFILE that is there already is an instance.
OpenExclusively(p) ==
  /\ pc[p] \in {"open", "reopen"}
  /\ IF path # NoInode /\ pc[p] = "open"
       THEN Refuses(p, FALSE)
       ELSE LET i == IF path = NoInode THEN FreeInode ELSE path
            IN /\ path' = i
               /\ opened' = [opened EXCEPT ![p] = Append(@, i)]
               /\ Goes(p, IF pc[p] = "open" THEN "lock" ELSE "relock")
               /\ UNCHANGED <<family, command, holder, files, portState, unexplained, network>>

\* daemon_already_running(), first half: LOCKFILE is opened, and made if need be.
Open(p) ==
  LET i == IF path = NoInode THEN FreeInode ELSE path
  IN /\ pc[p] \in {"open", "reopen"}
     /\ path' = i
     /\ opened' = [opened EXCEPT ![p] = Append(@, i)]
     /\ Goes(p, IF pc[p] = "open" THEN "lock" ELSE "relock")
     /\ UNCHANGED <<family, command, holder, files, portState, unexplained, network>>

\* fcntl(F_SETLK) by the process that acts for p.
MayLock(p, i) == holder[i] \in {Nobody, Self(p)}

\* daemon_already_running(), second half.
Lock(p) ==
  LET i == Last(opened[p])
  IN /\ pc[p] \in {"lock", "relock"}
     /\ IF MayLock(p, i)
          THEN /\ holder' = [holder EXCEPT ![i] = Self(p)]
               /\ Goes(p, IF pc[p] = "lock" THEN "look" ELSE "run")
               /\ UNCHANGED <<family, command, path, opened, files, portState, unexplained, network>>
          ELSE Refuses(p, family[p] = "both")

\* The processes named like the daemon that pgrep counts, the caller not.
pgrep_matches(p) ==
  LET others == {q \in Slots \ {p} : Alive(q)}
  IN Cardinality(others) + Cardinality({q \in others : family[q] = "both"})

\* Faulty variant: one process more is taken to be the one that asks.
PassesTolerant(found, expected, strict, p) ==
  found \in {expected, expected + 1} \/ ~strict \/ rtOpts(p).ignore_daemon_lock

\* check_parallel_daemons(): with -L not strict about either name.
Passes(found, expected, strict, p) ==
  found = expected \/ ~strict \/ rtOpts(p).ignore_daemon_lock

\* Both names; ntpd may run, and a shell that cannot be started counts as -1.
Look(p) ==
  /\ pc[p] = "look"
  /\ \E answers, ntpd \in BOOLEAN :
       LET ptp == IF answers THEN pgrep_matches(p) ELSE -1
           ntp == IF ~answers THEN -1 ELSE IF ntpd THEN 1 ELSE 0
       IN IF /\ Passes(ptp, 0, rtOpts(p).ptp_daemons_strict, p)
             /\ Passes(ntp, rtOpts(p).ntp_daemons_expected, rtOpts(p).ntp_daemons_strict, p)
            THEN /\ Goes(p, "files")
                 /\ UNCHANGED <<family, command, locks, files, portState, unexplained, network>>
            ELSE Refuses(p, ~answers \/ ntpd)

\* The file that is open is closed before the new one is opened, which may fail: the
\* daemon goes on without.  logToFile() is the same with the log and left out.
recordToFile(open, success) == IF success THEN 1 ELSE 0

OpenFiles(p) ==
  \E success \in BOOLEAN :
    files' = [files EXCEPT ![p] =
      IF rtOpts(p).do_record_quality_file THEN recordToFile(@, success) ELSE @]

\* After the lock: the loop of the protocol engine, or the second lock first.
Settled(p) == IF rtOpts(p).ignore_daemon_lock THEN "run" ELSE "reopen"

Files(p) ==
  /\ pc[p] = "files"
  /\ OpenFiles(p)
  /\ Goes(p, IF rtOpts(p).nonDaemon THEN Settled(p) ELSE "fork")
  /\ UNCHANGED <<family, command, locks, portState, unexplained, network>>

\* daemon().  It fails when there are no processes left.
Fork(p) ==
  /\ pc[p] = "fork"
  /\ \/ /\ family' = [family EXCEPT ![p] = "both"]
        /\ Goes(p, Settled(p))
        /\ UNCHANGED <<command, locks, files, portState, unexplained, network>>
     \/ Dies(p) /\ UNCHANGED <<path, unexplained>>

-----------------------------------------------------------------------------
(* protocol(): the passes of the main loop, as far as net.c sees them.  SLAVE *)
(* stands for PASSIVE as well.                                                *)

Standing == <<family, command, locks, files, unexplained>>

Working == {"LISTENING", "SLAVE", "MASTER"}

Becomes(p, state) == portState' = [portState EXCEPT ![p] = state]

\* A pass that looks at the port in one of states.
Pass(p, states) == pc[p] = "run" /\ portState[p] \in states

\* doInit(): the sockets anew.  When it fails protocol() returns.
doInit(p) ==
  /\ Pass(p, {"INITIALIZING"})
  /\ \E success \in BOOLEAN :
       /\ netInit(p, success)
       /\ Goes(p, IF success THEN "reset" ELSE "closing")
       /\ IF success THEN UNCHANGED portState ELSE Becomes(p, "FAULTY")
  /\ UNCHANGED Standing

\* toState(PTP_LISTENING); netRefreshIGMP() sleeps when it has left the groups.
ToListening(p) ==
  /\ Becomes(p, "LISTENING")
  /\ IF rtOpts(p).do_IGMP_refresh
       THEN netShutdownMulticast(p) /\ Goes(p, "joining")
       ELSE Goes(p, "run") /\ UNCHANGED network
  /\ UNCHANGED Standing

Reset(p) == pc[p] = "reset" /\ ToListening(p)

\* The rest of netRefreshIGMP(), whose result is ignored.
Join(p) ==
  /\ pc[p] = "joining"
  /\ netInitMulticast(p)
  /\ Goes(p, "run")
  /\ UNCHANGED <<Standing, portState>>

\* The announce receipt timer expires.
AnnounceTimeout(p) ==
  /\ Pass(p, {"LISTENING", "SLAVE"})
  /\ IF rtOpts(p).slaveOnly
       THEN ToListening(p)
       ELSE Becomes(p, "MASTER") /\ UNCHANGED <<Standing, pc, met, network>>

\* An Announce is heard, and bmc() decides.
Announced(p) ==
  /\ Pass(p, Working) /\ Hears(p)
  /\ \E state \in IF rtOpts(p).slaveOnly THEN {"SLAVE"} ELSE {"SLAVE", "MASTER"} :
       Becomes(p, state)
  /\ UNCHANGED <<Standing, pc, met, network>>

\* A receive error, a message too short or a step of the clock; and the pass after.
Fault(p) ==
  /\ Pass(p, Working \cup {"FAULTY"})
  /\ Becomes(p, IF portState[p] = "FAULTY" THEN "INITIALIZING" ELSE "FAULTY")
  /\ UNCHANGED <<Standing, pc, met, network>>

\* check_signals(), SIGHUP: the file again, that it may be moved away.
do_signal_sighup(p) ==
  /\ pc[p] = "run"
  /\ OpenFiles(p)
  /\ UNCHANGED <<pc, met, family, command, locks, portState, unexplained, network>>

\* check_signals(), SIGINT or SIGTERM.
do_signal_close(p) ==
  /\ pc[p] = "run"
  /\ Goes(p, "closing")
  /\ UNCHANGED <<Standing, portState, network>>

-----------------------------------------------------------------------------
(* ptpdShutdown() *)

\* The lock is released with the descriptor; with -L that is standard input.
Close(p) ==
  /\ pc[p] = "closing"
  /\ netShutdown(p)
  /\ holder' = [i \in Inodes |->
       IF ~rtOpts(p).ignore_daemon_lock /\ i = Last(opened[p]) /\ holder[i] = Self(p)
         THEN Nobody ELSE holder[i]]
  /\ Goes(p, "unlinking")
  /\ UNCHANGED <<family, command, path, opened, files, portState, unexplained>>

\* LOCKFILE is removed, whoever has locked it meanwhile, and the process ends.
Unlink(p) ==
  /\ pc[p] = "unlinking"
  /\ path' = NoInode
  /\ Dies(p)
  /\ UNCHANGED unexplained

-----------------------------------------------------------------------------

Startup(p) == Open(p) \/ Lock(p) \/ Look(p) \/ Files(p) \/ Fork(p)

Loop(p) == doInit(p) \/ Reset(p) \/ Join(p)

Shutdown(p) == Close(p) \/ Unlink(p)

Station ==
  /\ LinkGoes \/ LinkComes
  /\ UNCHANGED <<pc, met, family, command, locks, files, portState, unexplained>>

Next ==
  \/ \E p \in Slots :
       \/ Start(p) \/ Kill(p) \/ FirstExits(p)
       \/ Startup(p) \/ Loop(p) \/ Shutdown(p)
       \/ AnnounceTimeout(p) \/ Announced(p) \/ Fault(p)
       \/ do_signal_sighup(p) \/ do_signal_close(p)
  \/ Station

\* The main loop goes on; a fault is cleared by the next pass; and the announce
\* receipt timer, restarted by Announces only, expires on a port that hears none.
\* Nothing else need happen.
Fairness(p) ==
  /\ WF_vars(Loop(p))
  /\ WF_vars(portState[p] = "FAULTY" /\ Fault(p))
  /\ WF_vars(~Hears(p) /\ AnnounceTimeout(p))

Spec == Init /\ [][Next]_vars /\ \A p \in Slots : Fairness(p)

-----------------------------------------------------------------------------
(* Properties *)

\* Past the checks of its start and not yet gone.
Runs(p) == pc[p] \in Running \cup Ending

\* Two slaves that respect the lock never run at the same time.  The lock file alone
\* would not keep them apart: a daemon that ends removes it whoever has locked it
\* meanwhile, and the next one locks another inode; the look at the processes does.
SlavesRunAlone ==
  \A p, q \in {r \in Slots : Runs(r) /\ rtOpts(r).slaveOnly
                              /\ ~rtOpts(r).ignore_daemon_lock} : p = q

\* No start is refused by what a dead daemon has left: it has met a living one while
\* it started, or ntpd, or the parent that it was forked from, or could not look.
RefusedForAReason == ~unexplained

\* However often the network is set up anew, after faults and halfway failures, a
\* working port has its two sockets, and nobody has more than one descriptor of each
\* other kind, but for the lock file that is opened before the fork and after it.
DescriptorsAccounted ==
  \A p \in Slots :
    /\ pc[p] = "run" /\ portState[p] \in Working => sockets[p] = 2
    /\ sockets[p] <= 2
    /\ files[p] <= 1
    /\ Len(opened[p]) <= IF Runs(p) THEN 2 ELSE 1 + Cardinality({pc[p]} \cap {"relock"})

\* A slave runs alone on the station, and its interface stays.
Calm(p) ==
  /\ link = "up" /\ pc[p] \in Running
  /\ rtOpts(p).slaveOnly /\ rtOpts(p).do_IGMP_refresh
  /\ \A q \in Slots \ {p} : ~Alive(q)

\* Whatever failed while the interface was gone, a slave that hears nobody hears the
\* masters again once it is back: it refreshes its memberships at every timeout.
HearsAgain == \A p \in Slots : <>[]Calm(p) => []<>Hears(p)
=============================================================================

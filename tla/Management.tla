------------------------------ MODULE Management ------------------------------
(***************************************************************************)
(* Ports of one segment under a manager.  Management messages reach every  *)
(* port, whatever their target, and so do the answers, which the ports     *)
(* handle as they handle requests.  A message is handled in the middle of  *)
(* a pass of the main loop, past toState(), and the pass then goes on with  *)
(* the state it began in.                                                  *)
(*                                                                         *)
(* What PtpPort says about timers and masters is open here: any state       *)
(* decision and any timeout may come in any pass.                          *)
(***************************************************************************)
EXTENDS ManagementHandlers, Sequences

CONSTANTS
  Ports,
  Ids,          \* bound: the ids the manager uses
  SetTo,        \* bound: the values the manager gives to settings
  Announced,    \* bound: the properties of time that masters announce
  MaxRequests   \* bound: messages the manager sends

ASSUME ManagementAssumption ==
  /\ Ids \subseteq AllIds
  /\ SetTo \cup Announced \subseteq {0, 1}
  /\ MaxRequests \in Nat

Manager == "manager"

States == {"INITIALIZING", "FAULTY", "DISABLED", "LISTENING", "PASSIVE", "SLAVE", "MASTER"}
Clients == {"LISTENING", "PASSIVE", "SLAVE"}

VARIABLES
  clock,      \* of each port: see ManagementHandlers
  inbox,      \* its general socket
  running,    \* "running", "ended" by protocol(), or the id that crashed it
  heap,       \* blocks it has allocated and not freed
  requests,   \* history: how many messages the manager has sent
  foreign,    \* history: of each port: foreign TLVs handled
  taken,      \* history: of each port: the requests it has handled since it was initialised
  bidden      \* history: of each port: told to initialise, and has not yet?

history == <<requests, foreign, taken, bidden>>
vars == <<clock, inbox, running, heap, history>>

\* The protocol itself changes some settings, and initData() leaves one alone.
Timekeeping == {"UTC_PROPERTIES", "TRACEABILITY_PROPERTIES"}
Reset == Settings \ (Timekeeping \cup {"USER_DESCRIPTION"})

Configured == [s \in Settings |-> 0]

Init ==
  /\ clock = [p \in Ports |-> [portState |-> "INITIALIZING", setting |-> Configured]]
  /\ inbox = [p \in Ports |-> <<>>]
  /\ running = [p \in Ports |-> "running"]
  /\ heap = [p \in Ports |-> 0]
  /\ requests = 0
  /\ foreign = [p \in Ports |-> 0]
  /\ taken = [p \in Ports |-> <<>>]
  /\ bidden = [p \in Ports |-> FALSE]

-----------------------------------------------------------------------------
(* The segment *)

\* What a message may carry.
DataFields(id, action) ==
  IF action = "GET" \/ id \notin Settings \cup {"INITIALIZE"} THEN {NULL}
  ELSE {Field(id, v) : v \in CASE id = "USER_DESCRIPTION" -> SetTo \cup {TooLong}
                           [] id = "INITIALIZE" -> {INITIALIZE_EVENT, 1}
                           [] OTHER -> SetTo}

\* The manager asks nothing that makes no sense.
Actions(id) ==
  CASE id \in Dataless \cup {"INITIALIZE"} -> {"COMMAND"}
    [] id \in Settings -> {"GET", "SET"}
    [] OTHER -> {"GET"}

\* The manager reaches the ports of one of the domains and versions in use.
Request ==
  /\ requests < MaxRequests
  /\ \E tlvType \in {"MANAGEMENT", "FOREIGN", "NONE"}, id \in Ids,
        reached \in {Address(clock[p]) : p \in Ports} :
     \E action \in Actions(id) : \E dataField \in DataFields(id, action) :
       LET msg == [tlvType |-> tlvType, id |-> id, action |-> action,
                   dataField |-> dataField, address |-> reached,
                   asked |-> reached, depth |-> 0]
       IN /\ tlvType # "MANAGEMENT" => msg.id = CHOOSE i \in Ids : TRUE
          /\ requests' = requests + 1
          /\ inbox' = [p \in Ports |->
                         IF running[p] = "running" THEN Append(inbox[p], msg) ELSE inbox[p]]
  /\ UNCHANGED <<clock, running, heap, foreign, taken, bidden>>

-----------------------------------------------------------------------------
(* A pass of the main loop, around handle() *)

\* m1(), of what management sets.
m1(c) == [c EXCEPT !.portState = "MASTER", !.setting["UTC_PROPERTIES"] = 0]

\* s1(), with any announced properties of time.
SlaveWith(c, utc, trace) ==
  [c EXCEPT !.portState = "SLAVE", !.setting["UTC_PROPERTIES"] = utc,
            !.setting["TRACEABILITY_PROPERTIES"] = trace]
s1(c) == {SlaveWith(c, utc, trace) : utc, trace \in Announced}

\* A state decision, or none.  It looks at the option slaveOnly, which is not given
\* here, and not at what management has set: a slave-only port may become master.
Deciding == Clients \cup {"MASTER"}
Decided(c) ==
  {c} \cup
  IF c.portState \notin Deciding THEN {}
  ELSE {m1(c)} \cup s1(c) \cup {[d EXCEPT !.portState = "PASSIVE"] : d \in s1(c)}

\* Faulty variant: a master does not look whether it may be one.
AfterHandleUnchecked(state, c) ==
  CASE state \in Clients ->
         {c, IF c.setting["SLAVE_ONLY"] = 0 THEN m1(c)
             ELSE [c EXCEPT !.portState = "LISTENING"]}
    [] OTHER -> {c}

\* The rest of the pass, which began in state: the announce receipt timeout may
\* come, and a master that has become slave-only gives up.
AfterHandle(state, c) ==
  CASE state \in Clients ->
         {c, IF c.setting["SLAVE_ONLY"] = 0 THEN m1(c)
             ELSE [c EXCEPT !.portState = "LISTENING"]}
    [] state = "MASTER" ->
         {IF c.setting["SLAVE_ONLY"] = 0 THEN c
          ELSE [c EXCEPT !.portState = "LISTENING"]}
    [] OTHER -> {c}

\* The end of a pass that handled no management message.
Passed(p, state, c) ==
  /\ \E d \in AfterHandle(state, c) : clock' = [clock EXCEPT ![p] = d]
  /\ UNCHANGED <<running, heap, requests, foreign, taken, bidden>>

Passing(p, c) ==
  /\ running[p] = "running"
  /\ clock[p].portState \notin {"INITIALIZING", "FAULTY"}
  /\ c \in Decided(clock[p])

\* Another message, or none; a slave's servo may step the clock, which resets it.
HandleOther(p) ==
  \E c \in Decided(clock[p]) :
    /\ Passing(p, c)
    /\ \/ Passed(p, c.portState, c)
       \/ c.portState = "SLAVE" /\ Passed(p, c.portState, [c EXCEPT !.portState = "FAULTY"])
       \/ c.portState = "SLAVE" /\ \E d \in s1(c) : Passed(p, c.portState, d)
    /\ UNCHANGED inbox

\* A message shorter than a header.
HandleShort(p) ==
  \E c \in Decided(clock[p]) :
    /\ Passing(p, c)
    /\ Passed(p, c.portState, [c EXCEPT !.portState = "FAULTY"])
    /\ UNCHANGED inbox

\* handle() ignores what is not for the port's version and domain.
HandleForeignDomain(p) ==
  \E c \in Decided(clock[p]) :
    /\ Passing(p, c)
    /\ inbox[p] # <<>> /\ Head(inbox[p]).address # Address(c)
    /\ inbox' = [inbox EXCEPT ![p] = Tail(@)]
    /\ Passed(p, c.portState, c)

\* A message without a TLV, with a foreign one, or with an error is not answered.
handleManagementUnanswered(p) ==
  \E c \in Decided(clock[p]) :
    /\ Passing(p, c)
    /\ inbox[p] # <<>>
    /\ LET msg == Head(inbox[p])
       IN /\ msg.address = Address(c)
          /\ ~ Understood(msg)
          /\ heap' = [heap EXCEPT ![p] = @ + IF msg.tlvType = "FOREIGN" THEN Unpacked(msg)
                                             ELSE 0]
          /\ foreign' = [foreign EXCEPT ![p] = @ + IF msg.tlvType = "FOREIGN" THEN 1 ELSE 0]
    /\ inbox' = [inbox EXCEPT ![p] = Tail(@)]
    /\ \E d \in AfterHandle(c.portState, c) : clock' = [clock EXCEPT ![p] = d]
    /\ UNCHANGED <<running, requests, taken, bidden>>

\* Packing an answer that has no data ends the daemon.
Crash(p, id) ==
  /\ running' = [running EXCEPT ![p] = id]
  /\ inbox' = [inbox EXCEPT ![p] = <<>>]
  /\ UNCHANGED <<clock, heap, requests, foreign, taken, bidden>>

\* The answer is multicast.
Issue(p, out) ==
  /\ inbox' = [q \in Ports |->
       CASE q = p -> Tail(inbox[p])
         [] q # p /\ Sent(out) /\ running[q] = "running" -> Append(inbox[q], out)
         [] OTHER -> inbox[q]]

Answered(p, c, msg, outcome) ==
  /\ Issue(p, outcome.out)
  /\ heap' = [heap EXCEPT ![p] = @ + outcome.held - Reached(outcome.out)]
  /\ \E d \in AfterHandle(c.portState, outcome.clock) : clock' = [clock EXCEPT ![p] = d]
  /\ taken' = [taken EXCEPT ![p] = IF msg.depth = 0 THEN Append(@, <<msg.id, msg.action, msg.dataField>>) ELSE @]
  /\ bidden' = [bidden EXCEPT ![p] = @ \/ outcome.clock.portState = "INITIALIZING"]
  /\ UNCHANGED <<running, requests, foreign>>

\* Both messages' TLVs are freed at the end.
handleManagement(p) ==
  \E c \in Decided(clock[p]) :
    /\ Passing(p, c)
    /\ inbox[p] # <<>>
    /\ LET msg == Head(inbox[p])
           outcome == Handler(c, msg)
       IN /\ msg.address = Address(c)
          /\ Understood(msg)
          /\ IF PacksNothing(outcome.out) THEN Crash(p, msg.id) ELSE Answered(p, c, msg, outcome)

-----------------------------------------------------------------------------
(* The states in which nothing is handled *)

\* A state decision that finds no difference makes the port faulty, and the same pass
\* goes on from there.
FaultCleared(p) ==
  /\ running[p] = "running" /\ clock[p].portState \in Deciding \cup {"FAULTY"}
  /\ clock' = [clock EXCEPT ![p].portState = "INITIALIZING"]
  /\ UNCHANGED <<inbox, running, heap, requests, foreign, taken, bidden>>

initData(c) == [c EXCEPT !.setting = [s \in Settings |-> IF s \in Reset THEN 0 ELSE @[s]]]

\* The sockets are opened anew; if that fails, protocol() ends.
doInit(p) ==
  /\ running[p] = "running" /\ clock[p].portState = "INITIALIZING"
  /\ \/ /\ clock' = [clock EXCEPT ![p] = [m1(initData(@)) EXCEPT !.portState = "LISTENING"]]
        /\ taken' = [taken EXCEPT ![p] = <<>>]
        /\ bidden' = [bidden EXCEPT ![p] = FALSE]
        /\ UNCHANGED running
     \/ /\ clock' = [clock EXCEPT ![p].portState = "FAULTY"]
        /\ running' = [running EXCEPT ![p] = "ended"]
        /\ UNCHANGED <<taken, bidden>>
  /\ inbox' = [inbox EXCEPT ![p] = <<>>]
  /\ UNCHANGED <<heap, requests, foreign>>

Next ==
  \/ Request
  \/ \E p \in Ports : HandleOther(p)
  \/ \E p \in Ports : HandleShort(p)
  \/ \E p \in Ports : HandleForeignDomain(p)
  \/ \E p \in Ports : handleManagementUnanswered(p)
  \/ \E p \in Ports : handleManagement(p)
  \/ \E p \in Ports : FaultCleared(p)
  \/ \E p \in Ports : doInit(p)

Spec == Init /\ [][Next]_vars

-----------------------------------------------------------------------------
(* Properties *)

\* Every variable keeps to its type.
TypeOK ==
  /\ clock \in [Ports -> [portState : States, setting : [Settings -> Values]]]
  /\ \A p \in Ports :
       \A i \in DOMAIN inbox[p] : inbox[p][i].tlvType \in
                                 {"MANAGEMENT", "ERROR_STATUS", "FOREIGN", "NONE"}
  /\ running \in [Ports -> {"running", "ended"} \cup AllIds]
  /\ heap \in [Ports -> Nat]
  /\ foreign \in [Ports -> Nat]
  /\ bidden \in [Ports -> BOOLEAN]

\* An answer may be answered by another port, that answer by none: whatever the
\* manager asks, the traffic it causes among the ports ends.
AnswersEnd == \A p \in Ports : \A i \in DOMAIN inbox[p] : inbox[p][i].depth <= 2

\* An answer to the manager bears the domain and version of its request, also
\* where the request has just changed them: otherwise the manager ignored it.
AnsweredWhereAsked ==
  \A p \in Ports : \A i \in DOMAIN inbox[p] :
    LET msg == inbox[p][i] IN msg.depth = 1 => msg.address = msg.asked

\* Ports that have handled the same requests since they were initialised have the
\* same settings, whatever they heard from each other meanwhile.
PortsAgree ==
  \A p, q \in Ports :
    taken[p] = taken[q] => \A s \in Reset : clock[p].setting[s] = clock[q].setting[s]

\* What management messages allocate is freed, but for one block of every message
\* with a TLV of another type.
HeapBalanced == \A p \in Ports : heap[p] = foreign[p]

\* A port that has been made slave-only is not master from one pass to the next: a
\* master gives up in the pass that made it slave-only, and a slave-only port that a
\* state decision makes master is that for the rest of the pass only.
SlaveOnlyObeyed ==
  \A p \in Ports : clock[p].setting["SLAVE_ONLY"] = 1 => clock[p].portState # "MASTER"

-----------------------------------------------------------------------------
(* What a comment in the source says, and the code does not do. *)

\* management.c:366: "cause INITIALIZE event": a port that is told to initialise
\* does so before anything else.
InitializeHappens ==
  \A p \in Ports : bidden[p] => clock[p].portState = "INITIALIZING"
=============================================================================

-------------------------- MODULE ManagementHandlers --------------------------
(***************************************************************************)
(* management.c: what each management message does to a port's data sets    *)
(* and state, and what the port answers.                                   *)
(*                                                                         *)
(* A clock is [portState, setting]: of the data sets, what management can  *)
(* set, named by the message that sets it.  Values are 0 (as configured)   *)
(* and others.  A handler maps a clock and a message to an outcome:        *)
(*   clock  what it makes of the clock,                                    *)
(*   out    the answer it builds, sent or not,                             *)
(*   held   how many blocks it has allocated and not freed.                *)
(***************************************************************************)
EXTENDS Integers, FiniteSets

Settings ==
  {"USER_DESCRIPTION", "PRIORITY1", "PRIORITY2", "DOMAIN", "SLAVE_ONLY",
   "LOG_ANNOUNCE_INTERVAL", "ANNOUNCE_RECEIPT_TIMEOUT", "LOG_SYNC_INTERVAL",
   "VERSION_NUMBER", "CLOCK_ACCURACY", "UTC_PROPERTIES", "TRACEABILITY_PROPERTIES",
   "DELAY_MECHANISM", "LOG_MIN_PDELAY_REQ_INTERVAL"}

\* A user description longer than USER_DESCRIPTION_MAX.
TooLong == 2
Values == {0, 1, TooLong}

\* dataField: the values a message carries, by the name of setting or key; or none.
Field(name, v) == [f \in {name} |-> v]
NULL == Field("NULL", 0)

\* A message is heard by ports of its domain and version.
Filters == {"DOMAIN", "VERSION_NUMBER"}
Address(c) == [f \in Filters |-> c.setting[f]]

\* initOutgoingMsgManagement() and the TLV's fields.  History: where the manager's
\* request was addressed, which the sequenceId stands for, and how far this is from it.
Outgoing(c, msg, tlvType, action, dataField) ==
  [tlvType |-> tlvType, id |-> msg.id, action |-> action, dataField |-> dataField,
   address |-> Address(c), asked |-> msg.asked, depth |-> msg.depth + 1]

\* Nested allocations of a dataField.
Texts(id) ==
  CASE id = "CLOCK_DESCRIPTION" -> 6
    [] id = "USER_DESCRIPTION" -> 1
    [] OTHER -> 0

Outcome(c, out, held) == [clock |-> c, out |-> out, held |-> held]

\* An answer with data, and one that is not sent: its actionField is still 0.
Answer(d, c, msg, action, dataField) ==
  Outcome(d, Outgoing(c, msg, "MANAGEMENT", action, dataField), 2 + Texts(msg.id))
Silent(c, msg) == Outcome(c, Outgoing(c, msg, "MANAGEMENT", "GET", NULL), 1)

ErrorAction(action) ==
  CASE action \in {"GET", "SET"} -> "RESPONSE"
    [] action = "RESPONSE" -> "ACKNOWLEDGE"
    [] OTHER -> "GET"

\* Faulty variant: the TLV that the handler has begun is not freed.
handleErrorManagementMessageLeaking(c, msg) ==
  Outcome(c, Outgoing(c, msg, "ERROR_STATUS", ErrorAction(msg.action), NULL), 3)

handleErrorManagementMessage(c, msg) ==
  Outcome(c, Outgoing(c, msg, "ERROR_STATUS", ErrorAction(msg.action), NULL), 2)

-----------------------------------------------------------------------------
(* The four shapes of handler *)

Held(c, S) == [s \in S |-> c.setting[s]]

\* GET answers with the settings of S.
ReadOnly(c, msg, S) ==
  CASE msg.action = "GET" -> Answer(c, c, msg, "RESPONSE", Held(c, S))
    [] msg.action = "RESPONSE" -> Silent(c, msg)
    [] OTHER -> handleErrorManagementMessage(c, msg)

\* Faulty variant: the header of the answer is made after the assignment.
ReadWriteLate(c, msg) ==
  CASE msg.action = "SET" ->
         LET d == [c EXCEPT !.setting[msg.id] = msg.dataField[msg.id]]
         IN Answer(d, d, msg, "RESPONSE", Held(d, {msg.id}))
    [] OTHER -> ReadOnly(c, msg, {msg.id})

\* Faulty variant: an answer is taken for a request.
ReadWriteAny(c, msg) ==
  CASE msg.action \in {"SET", "RESPONSE"} ->
         LET d == [c EXCEPT !.setting[msg.id] = msg.dataField[msg.id]]
         IN Answer(d, c, msg, IF msg.action = "SET" THEN "RESPONSE" ELSE "GET",
                   Held(d, {msg.id}))
    [] OTHER -> ReadOnly(c, msg, {msg.id})

\* SET assigns and goes on as GET; the header of the answer is older than both.
ReadWrite(c, msg) ==
  CASE msg.action = "SET" ->
         LET d == [c EXCEPT !.setting[msg.id] = msg.dataField[msg.id]]
         IN Answer(d, c, msg, "RESPONSE", Held(d, {msg.id}))
    [] OTHER -> ReadOnly(c, msg, {msg.id})

\* Neither has a case for RESPONSE.
Unresponsive(c, msg) ==
  IF msg.action = "RESPONSE" THEN handleErrorManagementMessage(c, msg)
  ELSE ReadWrite(c, msg)

\* COMMAND moves the port; ACKNOWLEDGE falls through to the error.
Command(c, msg, portState) ==
  CASE msg.action = "COMMAND" ->
         Outcome([c EXCEPT !.portState = portState],
                 Outgoing(c, msg, "MANAGEMENT", "ACKNOWLEDGE", NULL), 1)
    [] OTHER -> handleErrorManagementMessage(c, msg)

-----------------------------------------------------------------------------
(* The handlers *)

handleMMNullManagement(c, msg) ==
  IF msg.action \in {"GET", "SET", "COMMAND"} THEN Silent(c, msg)
  ELSE handleErrorManagementMessage(c, msg)

handleMMClockDescription(c, msg) == ReadOnly(c, msg, {"USER_DESCRIPTION"})

handleMMSlaveOnly(c, msg) == Unresponsive(c, msg)

\* A description that is too long is not taken, and the old one is answered.
handleMMUserDescription(c, msg) ==
  IF msg.action = "SET" /\ msg.dataField["USER_DESCRIPTION"] = TooLong
    THEN Answer(c, c, msg, "RESPONSE", Held(c, {"USER_DESCRIPTION"}))
    ELSE Unresponsive(c, msg)

handleMMSaveInNonVolatileStorage(c, msg) == handleErrorManagementMessage(c, msg)
handleMMResetNonVolatileStorage(c, msg) == handleErrorManagementMessage(c, msg)

INITIALIZE_EVENT == 0

handleMMInitialize(c, msg) ==
  CASE msg.action = "COMMAND" ->
         Answer(IF msg.dataField["INITIALIZE"] = INITIALIZE_EVENT
                  THEN [c EXCEPT !.portState = "INITIALIZING"] ELSE c,
                c, msg, "ACKNOWLEDGE", msg.dataField)
    [] msg.action = "ACKNOWLEDGE" -> Silent(c, msg)
    [] OTHER -> handleErrorManagementMessage(c, msg)

handleMMDefaultDataSet(c, msg) ==
  ReadOnly(c, msg, {"SLAVE_ONLY", "PRIORITY1", "CLOCK_ACCURACY", "PRIORITY2", "DOMAIN"})
\* Of what is not settable here: steps removed, the parent, the grandmaster.
handleMMCurrentDataSet(c, msg) == ReadOnly(c, msg, {})
handleMMParentDataSet(c, msg) == ReadOnly(c, msg, {})
handleMMTimePropertiesDataSet(c, msg) ==
  ReadOnly(c, msg, {"UTC_PROPERTIES", "TRACEABILITY_PROPERTIES"})
handleMMPortDataSet(c, msg) ==
  ReadOnly(c, msg, {"LOG_ANNOUNCE_INTERVAL", "ANNOUNCE_RECEIPT_TIMEOUT",
                    "LOG_SYNC_INTERVAL", "DELAY_MECHANISM",
                    "LOG_MIN_PDELAY_REQ_INTERVAL", "VERSION_NUMBER"})

handleMMPriority1(c, msg) == ReadWrite(c, msg)
handleMMPriority2(c, msg) == ReadWrite(c, msg)
handleMMDomain(c, msg) == ReadWrite(c, msg)
handleMMLogAnnounceInterval(c, msg) == ReadWrite(c, msg)
handleMMAnnounceReceiptTimeout(c, msg) == ReadWrite(c, msg)
handleMMLogSyncInterval(c, msg) == ReadWrite(c, msg)
handleMMVersionNumber(c, msg) == ReadWrite(c, msg)

\* Only a disabled port is initialised.
handleMMEnablePort(c, msg) ==
  Command(c, msg, IF c.portState = "DISABLED" THEN "INITIALIZING" ELSE c.portState)
handleMMDisablePort(c, msg) == Command(c, msg, "DISABLED")

\* The answer is marked as one and has no dataField.
handleMMTime(c, msg) ==
  CASE msg.action \in {"SET", "GET"} ->
         Outcome(c, Outgoing(c, msg, "MANAGEMENT", "RESPONSE", NULL), 1)
    [] msg.action = "RESPONSE" -> Silent(c, msg)
    [] OTHER -> handleErrorManagementMessage(c, msg)

handleMMClockAccuracy(c, msg) == ReadWrite(c, msg)
\* The UTC offset, its validity and the leap second flags, as one value.
handleMMUtcProperties(c, msg) == ReadWrite(c, msg)
handleMMTraceabilityProperties(c, msg) == ReadWrite(c, msg)
handleMMDelayMechanism(c, msg) == ReadWrite(c, msg)
handleMMLogMinPdelayReqInterval(c, msg) == ReadWrite(c, msg)

-----------------------------------------------------------------------------
(* handleManagement() *)

\* Ids whose handler is called, and whose data the call is preceded by unpacking.
Dataless ==
  {"NULL_MANAGEMENT", "SAVE_IN_NON_VOLATILE_STORAGE",
   "RESET_NON_VOLATILE_STORAGE", "ENABLE_PORT", "DISABLE_PORT"}
ReadOnlyIds ==
  {"CLOCK_DESCRIPTION", "DEFAULT_DATA_SET", "CURRENT_DATA_SET", "PARENT_DATA_SET",
   "TIME_PROPERTIES_DATA_SET", "PORT_DATA_SET"}
Handled == Dataless \cup ReadOnlyIds \cup Settings \cup {"INITIALIZE", "TIME"}

\* The ids that are only recognised, and those that are not, give an error each.
AllIds == Handled \cup {"unsupported", "unknown"}

Handler(c, msg) ==
  CASE msg.id = "NULL_MANAGEMENT" -> handleMMNullManagement(c, msg)
    [] msg.id = "CLOCK_DESCRIPTION" -> handleMMClockDescription(c, msg)
    [] msg.id = "USER_DESCRIPTION" -> handleMMUserDescription(c, msg)
    [] msg.id = "SAVE_IN_NON_VOLATILE_STORAGE" -> handleMMSaveInNonVolatileStorage(c, msg)
    [] msg.id = "RESET_NON_VOLATILE_STORAGE" -> handleMMResetNonVolatileStorage(c, msg)
    [] msg.id = "INITIALIZE" -> handleMMInitialize(c, msg)
    [] msg.id = "DEFAULT_DATA_SET" -> handleMMDefaultDataSet(c, msg)
    [] msg.id = "CURRENT_DATA_SET" -> handleMMCurrentDataSet(c, msg)
    [] msg.id = "PARENT_DATA_SET" -> handleMMParentDataSet(c, msg)
    [] msg.id = "TIME_PROPERTIES_DATA_SET" -> handleMMTimePropertiesDataSet(c, msg)
    [] msg.id = "PORT_DATA_SET" -> handleMMPortDataSet(c, msg)
    [] msg.id = "PRIORITY1" -> handleMMPriority1(c, msg)
    [] msg.id = "PRIORITY2" -> handleMMPriority2(c, msg)
    [] msg.id = "DOMAIN" -> handleMMDomain(c, msg)
    [] msg.id = "SLAVE_ONLY" -> handleMMSlaveOnly(c, msg)
    [] msg.id = "LOG_ANNOUNCE_INTERVAL" -> handleMMLogAnnounceInterval(c, msg)
    [] msg.id = "ANNOUNCE_RECEIPT_TIMEOUT" -> handleMMAnnounceReceiptTimeout(c, msg)
    [] msg.id = "LOG_SYNC_INTERVAL" -> handleMMLogSyncInterval(c, msg)
    [] msg.id = "VERSION_NUMBER" -> handleMMVersionNumber(c, msg)
    [] msg.id = "ENABLE_PORT" -> handleMMEnablePort(c, msg)
    [] msg.id = "DISABLE_PORT" -> handleMMDisablePort(c, msg)
    [] msg.id = "TIME" -> handleMMTime(c, msg)
    [] msg.id = "CLOCK_ACCURACY" -> handleMMClockAccuracy(c, msg)
    [] msg.id = "UTC_PROPERTIES" -> handleMMUtcProperties(c, msg)
    [] msg.id = "TRACEABILITY_PROPERTIES" -> handleMMTraceabilityProperties(c, msg)
    [] msg.id = "DELAY_MECHANISM" -> handleMMDelayMechanism(c, msg)
    [] msg.id = "LOG_MIN_PDELAY_REQ_INTERVAL" -> handleMMLogMinPdelayReqInterval(c, msg)
    [] OTHER -> handleErrorManagementMessage(c, msg)

\* Faulty variant: an error is handled like what it is the answer to.
UnderstoodError(msg) == msg.tlvType \in {"MANAGEMENT", "ERROR_STATUS"}

\* The only messages that a handler is called for.
Understood(msg) == msg.tlvType = "MANAGEMENT"

\* msgUnpackManagement() and the unpackMM function: blocks allocated for a message.
\* A foreign TLV is of a type that handleManagement() does not know.
Unpacked(msg) ==
  CASE msg.tlvType = "NONE" -> 0
    [] msg.tlvType = "FOREIGN" -> 1
    [] msg.tlvType = "ERROR_STATUS" -> 2
    [] msg.tlvType = "MANAGEMENT" ->
         IF msg.id \in Handled \ Dataless THEN 2 + Texts(msg.id) ELSE 1

\* Is an answer packed and sent?
Sent(out) ==
  \/ out.tlvType = "ERROR_STATUS"
  \/ out.tlvType = "MANAGEMENT" /\ out.action \in {"RESPONSE", "ACKNOWLEDGE"}

\* msgPackManagementTLV() reads the data of ids that have any through dataField.
PacksNothing(out) ==
  /\ out.tlvType = "MANAGEMENT" /\ Sent(out)
  /\ out.id \in Handled \ Dataless
  /\ out.dataField = NULL

\* freeManagementTLV() of an answer: what can be reached from it.
Reached(out) ==
  CASE out.tlvType = "ERROR_STATUS" -> 2
    [] out.dataField # NULL -> 2 + Texts(out.id)
    [] OTHER -> 1
=============================================================================

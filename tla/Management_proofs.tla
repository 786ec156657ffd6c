-------------------------- MODULE Management_proofs --------------------------
(***************************************************************************)
(* Theorems about management for any number of ports and requests.  The    *)
(* handlers come first: whatever the message, an outcome has one of a few  *)
(* shapes, and each shape answers where it was asked, accounts for what it *)
(* has allocated, and answers an answer with an error only.                *)
(***************************************************************************)
EXTENDS Management, TLAPS

(* Types *)

Clock == [portState : States, setting : [Settings -> Values]]

DataField ==
  UNION {[S -> Values] : S \in SUBSET (Settings \cup {"INITIALIZE", "NULL"})}

Action == {"GET", "SET", "COMMAND", "RESPONSE", "ACKNOWLEDGE"}

TlvType == {"MANAGEMENT", "ERROR_STATUS", "FOREIGN", "NONE"}

Addressing == [Filters -> Values]

Message ==
  [tlvType : TlvType, id : AllIds, action : Action, dataField : DataField,
   address : Addressing, asked : Addressing, depth : Nat]

Taken == AllIds \X Action \X DataField

\* Other values of SLAVE_ONLY than 0 and 1 would be neither obeyed nor ignored.
ClockSound(c) == c \in Clock /\ c.setting["SLAVE_ONLY"] \in {0, 1}

LEMMA FieldTyped ==
  ASSUME NEW name \in Settings \cup {"INITIALIZE", "NULL"}, NEW v \in Values
  PROVE  /\ Field(name, v) \in DataField
         /\ Field(name, v)[name] = v
         /\ name # "NULL" => Field(name, v) # NULL
<1>1. Field(name, v) \in [{name} -> Values] /\ Field(name, v)[name] = v
  BY DEF Field
<1>2. ASSUME name # "NULL" PROVE Field(name, v) # NULL
  <2>1. DOMAIN Field(name, v) = {name} /\ DOMAIN NULL = {"NULL"}
    BY DEF Field, NULL
  <2> QED BY <1>2, <2>1
<1> QED BY <1>1, <1>2 DEF DataField

LEMMA HeldTyped ==
  ASSUME NEW c \in Clock, NEW S \in SUBSET Settings
  PROVE  Held(c, S) \in DataField /\ Held(c, S) # NULL
<1>1. Held(c, S) \in [S -> Values]
  BY DEF Held, Clock
<1>2. DOMAIN Held(c, S) # DOMAIN NULL
  <2>1. DOMAIN NULL = {"NULL"} /\ "NULL" \notin Settings
    BY DEF NULL, Field, Settings
  <2> QED BY <1>1, <2>1
<1> QED BY <1>1, <1>2 DEF DataField

LEMMA NullTyped == NULL \in DataField
BY FieldTyped DEF NULL, Values

LEMMA AddressTyped == \A c \in Clock : Address(c) \in Addressing
BY DEF Address, Addressing, Filters, Clock, Settings

-----------------------------------------------------------------------------
(* What a message can be *)

\* By how far it is from a request of the manager: only a request asks for
\* anything, its answer is a RESPONSE or an ACKNOWLEDGE, and what a port says to
\* that is an error.
Requested(msg) ==
  Understood(msg) => /\ msg.action \in Actions(msg.id)
                     /\ msg.dataField \in DataFields(msg.id, msg.action)
Replied(msg) == Understood(msg) => msg.action \in {"RESPONSE", "ACKNOWLEDGE"}

MessageSound(msg) ==
  \/ msg.depth = 0 /\ msg.address = msg.asked /\ Requested(msg)
  \/ msg.depth = 1 /\ msg.address = msg.asked /\ Replied(msg)
  \/ msg.depth = 2 /\ ~ Understood(msg)

\* What a request of the manager can be.
LEMMA RequestData ==
  ASSUME NEW id \in AllIds, NEW action \in Actions(id),
         NEW dataField \in DataFields(id, action)
  PROVE  /\ action \in {"GET", "SET", "COMMAND"} /\ dataField \in DataField
         /\ action = "SET" => /\ id \in Settings
                              /\ \E v \in Values : /\ dataField = Field(id, v)
                                                   /\ id # "USER_DESCRIPTION" => v \in {0, 1}
         /\ action = "COMMAND" /\ id = "INITIALIZE" =>
              \E v \in Values : dataField = Field(id, v)
<1>1. action \in {"GET", "SET", "COMMAND"} /\ (action = "SET" => id \in Settings)
  BY DEF Actions
<1>2. SetTo \subseteq {0, 1} /\ {0, 1} \subseteq Values /\ TooLong \in Values
  BY ManagementAssumption DEF Values
<1>3. CASE action = "GET" \/ id \notin Settings \cup {"INITIALIZE"}
  BY <1>1, <1>3, NullTyped DEF DataFields
<1>4. CASE ~ (action = "GET" \/ id \notin Settings \cup {"INITIALIZE"})
  <2>1. PICK v \in CASE id = "USER_DESCRIPTION" -> SetTo \cup {TooLong}
                     [] id = "INITIALIZE" -> {INITIALIZE_EVENT, 1}
                     [] OTHER -> SetTo : dataField = Field(id, v)
    BY <1>4 DEF DataFields
  <2>2. v \in Values /\ (id # "USER_DESCRIPTION" => v \in {0, 1})
    BY <1>2, <2>1 DEF INITIALIZE_EVENT
  <2>3. dataField \in DataField
    BY <1>4, <2>1, <2>2, FieldTyped
  <2> QED BY <1>1, <2>1, <2>2, <2>3
<1> QED BY <1>3, <1>4

-----------------------------------------------------------------------------
(* Outcomes *)

\* An answer bears the address of the port as it was when asked; what it has
\* allocated can be freed through it, if it can be packed; and to an answer
\* nothing is sent but an error.
OutSound(c, msg, o) ==
  /\ o.out \in Message
  /\ o.out.address = Address(c) /\ o.out.asked = msg.asked
  /\ o.out.depth = msg.depth + 1
  /\ o.out.tlvType \in {"MANAGEMENT", "ERROR_STATUS"}
  /\ ~ PacksNothing(o.out) => o.held = Reached(o.out)
  /\ msg.action \in {"RESPONSE", "ACKNOWLEDGE"} =>
       ~ (Understood(o.out) /\ Sent(o.out))

\* The clock keeps its types, is not made a master, and of its settings only the
\* one that a SET names is changed, to the value it brings.
ClockChanged(c, msg, d) ==
  /\ ClockSound(d)
  /\ d.portState \in {c.portState, "INITIALIZING", "DISABLED"}
  /\ \A s \in Settings \ {"USER_DESCRIPTION"} :
       d.setting[s] = IF msg.id = s /\ msg.action = "SET" THEN msg.dataField[s]
                      ELSE c.setting[s]

OutcomeSound(c, msg, o) == OutSound(c, msg, o) /\ ClockChanged(c, msg, o.clock)

\* The messages a handler may be given.
Handleable(msg) ==
  msg \in Message /\ Understood(msg) /\ (Requested(msg) \/ Replied(msg))

LEMMA OutTyped ==
  ASSUME NEW c \in Clock, NEW msg \in Message, NEW tlvType \in TlvType,
         NEW action \in Action, NEW dataField \in DataField
  PROVE  Outgoing(c, msg, tlvType, action, dataField) \in Message
<1>1. Address(c) \in Addressing
  BY AddressTyped
<1>2. msg.id \in AllIds /\ msg.asked \in Addressing /\ msg.depth + 1 \in Nat
  BY DEF Message
<1> QED BY <1>1, <1>2 DEF Outgoing, Message

LEMMA ErrorSound ==
  ASSUME NEW c \in Clock, NEW msg \in Message
  PROVE  LET o == handleErrorManagementMessage(c, msg)
         IN  OutSound(c, msg, o) /\ o.clock = c
<1>1. ErrorAction(msg.action) \in Action
  BY DEF ErrorAction, Action
<1>2. Outgoing(c, msg, "ERROR_STATUS", ErrorAction(msg.action), NULL) \in Message
  BY <1>1, NullTyped, OutTyped DEF TlvType
<1> QED BY <1>2 DEF handleErrorManagementMessage, Outcome, OutSound, Outgoing,
                   Reached, Understood

LEMMA SilentSound ==
  ASSUME NEW c \in Clock, NEW msg \in Message
  PROVE  OutSound(c, msg, Silent(c, msg)) /\ Silent(c, msg).clock = c
<1>1. Outgoing(c, msg, "MANAGEMENT", "GET", NULL) \in Message
  BY NullTyped, OutTyped DEF TlvType, Action
<1> QED BY <1>1 DEF Silent, Outcome, OutSound, Outgoing, Reached, Understood, Sent

LEMMA AnswerSound ==
  ASSUME NEW c \in Clock, NEW msg \in Message, NEW d, NEW action \in Action,
         NEW dataField \in DataField, dataField # NULL,
         msg.action \notin {"RESPONSE", "ACKNOWLEDGE"}
  PROVE  LET o == Answer(d, c, msg, action, dataField)
         IN  OutSound(c, msg, o) /\ o.clock = d
<1>1. Outgoing(c, msg, "MANAGEMENT", action, dataField) \in Message
  BY OutTyped DEF TlvType
<1> QED BY <1>1 DEF Answer, Outcome, OutSound, Outgoing, Reached, Understood

LEMMA Unchanged ==
  ASSUME NEW c, ClockSound(c), NEW msg,
         msg.action # "SET" \/ msg.id \notin Settings \ {"USER_DESCRIPTION"}
  PROVE  ClockChanged(c, msg, c)
BY DEF ClockChanged

LEMMA ReadOnlySound ==
  ASSUME NEW c, ClockSound(c), NEW msg \in Message, NEW S \in SUBSET Settings,
         msg.action # "SET" \/ msg.id \notin Settings
  PROVE  OutcomeSound(c, msg, ReadOnly(c, msg, S))
<1>0. c \in Clock /\ ClockChanged(c, msg, c)
  BY Unchanged DEF ClockSound
<1>1. CASE msg.action = "GET"
  <2>1. Held(c, S) \in DataField /\ Held(c, S) # NULL
    BY <1>0, HeldTyped
  <2> QED BY <1>0, <1>1, <2>1, AnswerSound DEF ReadOnly, OutcomeSound, Action
<1>2. CASE msg.action = "RESPONSE"
  BY <1>0, <1>2, SilentSound DEF ReadOnly, OutcomeSound
<1>3. CASE msg.action \notin {"GET", "RESPONSE"}
  BY <1>0, <1>3, ErrorSound DEF ReadOnly, OutcomeSound
<1> QED BY <1>1, <1>2, <1>3

\* A SET of the manager brings a value for the setting it names.
LEMMA SetSound ==
  ASSUME NEW c, ClockSound(c), NEW msg, Handleable(msg), msg.action = "SET"
  PROVE  LET d == [c EXCEPT !.setting[msg.id] = msg.dataField[msg.id]]
         IN  ClockChanged(c, msg, d) /\ d \in Clock
<1> DEFINE v == msg.dataField[msg.id]
           d == [c EXCEPT !.setting[msg.id] = v]
<1>1. /\ msg.id \in Settings
      /\ \E w \in Values : /\ msg.dataField = Field(msg.id, w)
                           /\ msg.id # "USER_DESCRIPTION" => w \in {0, 1}
  <2>1. Requested(msg) /\ msg.id \in AllIds
    BY DEF Handleable, Replied, Message
  <2> QED BY <2>1, RequestData DEF Handleable, Requested
<1>2. v \in Values /\ (msg.id # "USER_DESCRIPTION" => v \in {0, 1})
  BY <1>1, FieldTyped
<1>3. /\ d.portState = c.portState /\ d.setting = [c.setting EXCEPT ![msg.id] = v]
      /\ d \in Clock
  BY <1>1, <1>2 DEF ClockSound, Clock
<1>4. \A s \in Settings : d.setting[s] = IF msg.id = s THEN v ELSE c.setting[s]
  BY <1>3 DEF ClockSound, Clock
<1>5. d.setting["SLAVE_ONLY"] \in {0, 1}
  BY <1>2, <1>4 DEF ClockSound, Settings
<1> HIDE DEF d
<1>6. ClockChanged(c, msg, d)
  BY <1>3, <1>4, <1>5 DEF ClockChanged, ClockSound
<1> QED BY <1>3, <1>6 DEF d

LEMMA ReadWriteSound ==
  ASSUME NEW c, ClockSound(c), NEW msg, Handleable(msg), msg.id \in Settings
  PROVE  OutcomeSound(c, msg, ReadWrite(c, msg))
<1>0. msg \in Message /\ c \in Clock
  BY DEF Handleable, ClockSound
<1>1. CASE msg.action = "SET"
  <2> DEFINE d == [c EXCEPT !.setting[msg.id] = msg.dataField[msg.id]]
  <2>1. ClockChanged(c, msg, d) /\ d \in Clock
    BY <1>1, SetSound
  <2>2. Held(d, {msg.id}) \in DataField /\ Held(d, {msg.id}) # NULL
    <3> HIDE DEF d
    <3> QED BY <2>1, HeldTyped
  <2>3. ReadWrite(c, msg) = Answer(d, c, msg, "RESPONSE", Held(d, {msg.id}))
    BY <1>1 DEF ReadWrite
  <2> HIDE DEF d
  <2> QED BY <1>0, <1>1, <2>1, <2>2, <2>3, AnswerSound DEF OutcomeSound, Action
<1>2. CASE msg.action # "SET"
  <2>1. ReadWrite(c, msg) = ReadOnly(c, msg, {msg.id})
    BY <1>2 DEF ReadWrite
  <2> QED BY <1>0, <1>2, <2>1, ReadOnlySound
<1> QED BY <1>1, <1>2

LEMMA UnresponsiveSound ==
  ASSUME NEW c, ClockSound(c), NEW msg, Handleable(msg), msg.id \in Settings
  PROVE  OutcomeSound(c, msg, Unresponsive(c, msg))
<1>1. CASE msg.action = "RESPONSE"
  BY <1>1, ErrorSound, Unchanged
     DEF Unresponsive, OutcomeSound, Handleable, ClockSound
<1>2. CASE msg.action # "RESPONSE"
  BY <1>2, ReadWriteSound DEF Unresponsive
<1> QED BY <1>1, <1>2

LEMMA UserDescriptionSound ==
  ASSUME NEW c, ClockSound(c), NEW msg, Handleable(msg), msg.id = "USER_DESCRIPTION"
  PROVE  OutcomeSound(c, msg, handleMMUserDescription(c, msg))
<1> DEFINE long == msg.action = "SET" /\ msg.dataField["USER_DESCRIPTION"] = TooLong
<1>0. c \in Clock /\ msg \in Message /\ msg.id \in Settings
  BY DEF ClockSound, Handleable, Settings
<1>1. CASE long
  <2> DEFINE held == Held(c, {"USER_DESCRIPTION"})
  <2>1. held \in DataField /\ held # NULL
    BY <1>0, HeldTyped
  <2>2. handleMMUserDescription(c, msg) = Answer(c, c, msg, "RESPONSE", held)
    BY <1>1 DEF handleMMUserDescription
  <2>3. ClockChanged(c, msg, c)
    BY Unchanged
  <2> HIDE DEF held
  <2> QED BY <1>0, <1>1, <2>1, <2>2, <2>3, AnswerSound DEF OutcomeSound, Action
<1>2. CASE ~ long
  BY <1>0, <1>2, UnresponsiveSound DEF handleMMUserDescription
<1> QED BY <1>1, <1>2

LEMMA CommandSound ==
  ASSUME NEW c, ClockSound(c), NEW msg \in Message, msg.id \notin Settings,
         NEW portState \in {c.portState, "INITIALIZING", "DISABLED"}
  PROVE  OutcomeSound(c, msg, Command(c, msg, portState))
<1> DEFINE d == [c EXCEPT !.portState = portState]
<1>0. c \in Clock
  BY DEF ClockSound
<1>1. d \in Clock /\ d.portState = portState /\ d.setting = c.setting
  BY <1>0 DEF Clock, States
<1>2. ClockChanged(c, msg, d)
  <2> HIDE DEF d
  <2> QED BY <1>1 DEF ClockChanged, ClockSound
<1>3. CASE msg.action = "COMMAND"
  <2>1. Outgoing(c, msg, "MANAGEMENT", "ACKNOWLEDGE", NULL) \in Message
    BY <1>0, NullTyped, OutTyped DEF TlvType, Action
  <2> HIDE DEF d
  <2>2. Command(c, msg, portState)
          = Outcome(d, Outgoing(c, msg, "MANAGEMENT", "ACKNOWLEDGE", NULL), 1)
    BY <1>3 DEF Command, d
  <2> QED BY <1>2, <1>3, <2>1, <2>2
          DEF Outcome, OutcomeSound, OutSound, Outgoing, Reached
<1>4. CASE msg.action # "COMMAND"
  BY <1>0, <1>4, ErrorSound, Unchanged DEF Command, OutcomeSound
<1> QED BY <1>3, <1>4

LEMMA InitializeSound ==
  ASSUME NEW c, ClockSound(c), NEW msg, Handleable(msg), msg.id = "INITIALIZE"
  PROVE  OutcomeSound(c, msg, handleMMInitialize(c, msg))
<1>0. c \in Clock /\ msg \in Message /\ msg.id \in AllIds /\ msg.id \notin Settings
  BY DEF ClockSound, Handleable, Settings, Message
<1>1. CASE msg.action = "COMMAND"
  <2> DEFINE d == IF msg.dataField["INITIALIZE"] = INITIALIZE_EVENT
                  THEN [c EXCEPT !.portState = "INITIALIZING"] ELSE c
  <2>1. msg.dataField \in DataField /\ msg.dataField # NULL
    <3>1. Requested(msg)
      BY <1>1 DEF Handleable, Replied
    <3>2. \E v \in Values : msg.dataField = Field("INITIALIZE", v)
      BY <1>0, <1>1, <3>1, RequestData DEF Handleable, Requested
    <3> QED BY <3>2, FieldTyped
  <2>2. d \in Clock /\ d.setting = c.setting
        /\ d.portState \in {c.portState, "INITIALIZING"}
    BY <1>0 DEF Clock, States
  <2>3. handleMMInitialize(c, msg) = Answer(d, c, msg, "ACKNOWLEDGE", msg.dataField)
    BY <1>1 DEF handleMMInitialize
  <2> HIDE DEF d
  <2>4. ClockChanged(c, msg, d)
    BY <1>0, <2>2 DEF ClockChanged, ClockSound
  <2> QED BY <1>0, <1>1, <2>1, <2>3, <2>4, AnswerSound DEF OutcomeSound, Action
<1>2. CASE msg.action # "COMMAND"
  BY <1>0, <1>2, SilentSound, ErrorSound, Unchanged
     DEF handleMMInitialize, OutcomeSound
<1> QED BY <1>1, <1>2

\* The answer to TIME cannot be packed, so nothing is said of what it holds.
LEMMA TimeSound ==
  ASSUME NEW c, ClockSound(c), NEW msg \in Message, msg.id = "TIME"
  PROVE  OutcomeSound(c, msg, handleMMTime(c, msg))
<1>0. c \in Clock /\ msg.id \notin Settings /\ ClockChanged(c, msg, c)
  BY Unchanged DEF ClockSound, Settings
<1>1. CASE msg.action \in {"SET", "GET"}
  <2>1. Outgoing(c, msg, "MANAGEMENT", "RESPONSE", NULL) \in Message
    BY <1>0, NullTyped, OutTyped DEF TlvType, Action
  <2> QED BY <1>0, <1>1, <2>1
          DEF handleMMTime, Outcome, OutcomeSound, OutSound, Outgoing, Reached
<1>2. CASE msg.action \notin {"SET", "GET"}
  BY <1>0, <1>2, SilentSound, ErrorSound DEF handleMMTime, OutcomeSound
<1> QED BY <1>1, <1>2

\* Every handler has one of these shapes.
LEMMA HandlerShape ==
  ASSUME NEW c, NEW msg
  PROVE  \/ /\ msg.id \in Settings
            /\ \/ Handler(c, msg) = ReadWrite(c, msg)
               \/ Handler(c, msg) = Unresponsive(c, msg)
               \/ /\ msg.id = "USER_DESCRIPTION"
                  /\ Handler(c, msg) = handleMMUserDescription(c, msg)
         \/ /\ msg.id \notin Settings
            /\ \/ \E S \in SUBSET Settings : Handler(c, msg) = ReadOnly(c, msg, S)
               \/ \E portState \in {c.portState, "INITIALIZING", "DISABLED"} :
                    Handler(c, msg) = Command(c, msg, portState)
               \/ msg.id = "INITIALIZE" /\ Handler(c, msg) = handleMMInitialize(c, msg)
               \/ msg.id = "TIME" /\ Handler(c, msg) = handleMMTime(c, msg)
               \/ Handler(c, msg) = handleMMNullManagement(c, msg)
               \/ Handler(c, msg) = handleErrorManagementMessage(c, msg)
<1>1. CASE msg.id \in Settings
  BY <1>1 DEF Settings, Handler, handleMMPriority1, handleMMPriority2,
     handleMMDomain, handleMMSlaveOnly, handleMMLogAnnounceInterval,
     handleMMAnnounceReceiptTimeout, handleMMLogSyncInterval,
     handleMMVersionNumber, handleMMClockAccuracy, handleMMUtcProperties,
     handleMMTraceabilityProperties, handleMMDelayMechanism,
     handleMMLogMinPdelayReqInterval
<1>2. CASE msg.id \in ReadOnlyIds
  <2>1. \E S \in SUBSET Settings : Handler(c, msg) = ReadOnly(c, msg, S)
    BY <1>2 DEF ReadOnlyIds, Settings, Handler, handleMMClockDescription,
       handleMMDefaultDataSet, handleMMCurrentDataSet, handleMMParentDataSet,
       handleMMTimePropertiesDataSet, handleMMPortDataSet
  <2> QED BY <1>2, <2>1 DEF ReadOnlyIds, Settings
<1>3. CASE msg.id \in {"ENABLE_PORT", "DISABLE_PORT"}
  <2>1. \E portState \in {c.portState, "INITIALIZING", "DISABLED"} :
          Handler(c, msg) = Command(c, msg, portState)
    BY <1>3 DEF Handler, handleMMEnablePort, handleMMDisablePort
  <2> QED BY <1>3, <2>1 DEF Settings
<1>4. CASE msg.id \in {"NULL_MANAGEMENT", "SAVE_IN_NON_VOLATILE_STORAGE",
                       "RESET_NON_VOLATILE_STORAGE", "INITIALIZE", "TIME"}
  BY <1>4 DEF Settings, Handler, handleMMSaveInNonVolatileStorage,
              handleMMResetNonVolatileStorage
<1>5. CASE msg.id \notin Handled
  <2>1. Handler(c, msg) = handleErrorManagementMessage(c, msg)
    BY <1>5 DEF Handled, Settings, ReadOnlyIds, Dataless, Handler
  <2> QED BY <1>5, <2>1 DEF Handled
<1> QED BY <1>1, <1>2, <1>3, <1>4, <1>5 DEF Handled, Dataless

\* So whatever handler a message is given to, its outcome is sound.
LEMMA HandlerSound ==
  ASSUME NEW c, ClockSound(c), NEW msg, Handleable(msg)
  PROVE  OutcomeSound(c, msg, Handler(c, msg))
<1>0. c \in Clock /\ msg \in Message
  BY DEF ClockSound, Handleable
<1>1. CASE msg.id \in Settings
  BY <1>1, HandlerShape, ReadWriteSound, UnresponsiveSound, UserDescriptionSound
<1>2. CASE msg.id \notin Settings
  <2>1. ClockChanged(c, msg, c)
    BY <1>2, Unchanged
  <2>2. OutcomeSound(c, msg, handleErrorManagementMessage(c, msg))
    BY <1>0, <2>1, ErrorSound DEF OutcomeSound
  <2>3. OutcomeSound(c, msg, handleMMNullManagement(c, msg))
    BY <1>0, <2>1, <2>2, SilentSound DEF handleMMNullManagement, OutcomeSound
  <2> QED BY <1>0, <1>2, <2>2, <2>3, HandlerShape, ReadOnlySound, CommandSound,
             InitializeSound, TimeSound
<1> QED BY <1>1, <1>2

-----------------------------------------------------------------------------
(* A pass of the main loop *)

SlaveObeyed(c) == c.setting["SLAVE_ONLY"] = 1 => c.portState # "MASTER"

SameSettings(c, d) == \A s \in Reset : d.setting[s] = c.setting[s]

LEMMA MasterSound ==
  ASSUME NEW c, ClockSound(c)
  PROVE  /\ ClockSound(m1(c)) /\ SameSettings(c, m1(c))
         /\ m1(c).portState = "MASTER"
<1>1. /\ c.setting \in [Settings -> Values] /\ "UTC_PROPERTIES" \in Settings
      /\ "SLAVE_ONLY" \in Settings /\ Reset \subseteq Settings
      /\ "UTC_PROPERTIES" \notin Reset
  BY DEF ClockSound, Clock, Settings, Reset, Timekeeping
<1>2. /\ m1(c) \in Clock /\ m1(c).portState = "MASTER"
      /\ m1(c).setting = [c.setting EXCEPT !["UTC_PROPERTIES"] = 0]
  BY <1>1 DEF m1, ClockSound, Clock, States, Values
<1> QED BY <1>1, <1>2 DEF ClockSound, SameSettings

LEMMA SlaveSound ==
  ASSUME NEW c, ClockSound(c), NEW d \in s1(c)
  PROVE  ClockSound(d) /\ SameSettings(c, d) /\ d.portState = "SLAVE"
<1>1. /\ c.setting \in [Settings -> Values] /\ Timekeeping \subseteq Settings
      /\ "SLAVE_ONLY" \in Settings /\ Reset \subseteq Settings
      /\ \A s \in Reset : s \notin Timekeeping
  BY DEF ClockSound, Clock, Settings, Reset, Timekeeping
<1>2. PICK utc, trace \in Announced : d = SlaveWith(c, utc, trace)
  BY DEF s1
<1>3. utc \in Values /\ trace \in Values
  BY ManagementAssumption DEF Values
<1>4. /\ d.portState = "SLAVE"
      /\ d.setting = [c.setting EXCEPT !["UTC_PROPERTIES"] = utc,
                                       !["TRACEABILITY_PROPERTIES"] = trace]
      /\ d \in Clock
  BY <1>1, <1>2, <1>3 DEF SlaveWith, ClockSound, Clock, States
<1> QED BY <1>1, <1>4 DEF ClockSound, SameSettings, Timekeeping

\* A clock that is put into another state.
LEMMA StateSound ==
  ASSUME NEW c, ClockSound(c), NEW portState \in States
  PROVE  LET d == [c EXCEPT !.portState = portState]
         IN  ClockSound(d) /\ SameSettings(c, d) /\ d.portState = portState
<1> DEFINE d == [c EXCEPT !.portState = portState]
<1>1. d \in Clock /\ d.setting = c.setting /\ d.portState = portState
  BY DEF ClockSound, Clock
<1> HIDE DEF d
<1>2. ClockSound(d) /\ SameSettings(c, d) /\ d.portState = portState
  BY <1>1 DEF ClockSound, SameSettings
<1> QED BY <1>2 DEF d

\* A state decision changes nothing that management has set; it may make a master
\* of a slave-only port.
LEMMA DecisionSound ==
  ASSUME NEW c, ClockSound(c), NEW d \in Decided(c)
  PROVE  /\ ClockSound(d) /\ SameSettings(c, d)
         /\ d.portState \in {c.portState, "SLAVE", "MASTER", "PASSIVE"}
<1>1. CASE d = c
  BY <1>1 DEF SameSettings
<1>2. CASE d \in s1(c)
  BY <1>2, SlaveSound
<1>3. CASE d = m1(c)
  BY <1>3, MasterSound
<1>4. ASSUME NEW e \in s1(c), d = [e EXCEPT !.portState = "PASSIVE"]
      PROVE  ClockSound(d) /\ SameSettings(c, d) /\ d.portState = "PASSIVE"
  <2>1. ClockSound(e) /\ SameSettings(c, e)
    BY SlaveSound
  <2>2. ClockSound(d) /\ SameSettings(e, d) /\ d.portState = "PASSIVE"
    BY <1>4, <2>1, StateSound DEF States
  <2> QED BY <2>1, <2>2 DEF SameSettings
<1> QED BY <1>1, <1>2, <1>3, <1>4 DEF Decided

\* The rest of a pass leaves no slave-only port a master, whatever a decision made of
\* it before, and a handler of the clock.
LEMMA RestSound ==
  ASSUME NEW state \in Clients \cup {"MASTER", "DISABLED"}, NEW d, ClockSound(d),
         d.portState = state \/ d.portState # "MASTER",
         NEW e \in AfterHandle(state, d)
  PROVE  ClockSound(e) /\ SameSettings(d, e) /\ SlaveObeyed(e)
<1>0. SameSettings(d, d) /\ "SLAVE_ONLY" \in Reset /\ d.setting["SLAVE_ONLY"] \in {0, 1}
  BY DEF SameSettings, Reset, Settings, Timekeeping, ClockSound
<1>1. ASSUME d.setting["SLAVE_ONLY"] = 0, e = m1(d)
      PROVE  ClockSound(e) /\ SameSettings(d, e) /\ SlaveObeyed(e)
  BY <1>0, <1>1, MasterSound DEF SameSettings, SlaveObeyed
<1>2. ASSUME e = [d EXCEPT !.portState = "LISTENING"]
      PROVE  ClockSound(e) /\ SameSettings(d, e) /\ SlaveObeyed(e)
  <2>1. ClockSound(e) /\ SameSettings(d, e) /\ e.portState = "LISTENING"
    BY <1>2, StateSound DEF States
  <2> QED BY <2>1 DEF SlaveObeyed
<1>3. CASE state \in Clients
  <2>1. d.portState # "MASTER"
    BY <1>3 DEF Clients
  <2> QED BY <1>0, <1>1, <1>2, <1>3, <2>1 DEF AfterHandle, SlaveObeyed
<1>4. CASE state = "MASTER"
  BY <1>0, <1>2, <1>4 DEF AfterHandle, SlaveObeyed, Clients
<1>5. CASE state = "DISABLED"
  BY <1>0, <1>5 DEF AfterHandle, SlaveObeyed, Clients
<1> QED BY <1>3, <1>4, <1>5

-----------------------------------------------------------------------------
(* The inductive invariant *)

StateTyped ==
  /\ inbox \in [Ports -> Seq(Message)]
  /\ running \in [Ports -> {"running", "ended"} \cup AllIds]
  /\ heap \in [Ports -> Nat]
  /\ foreign \in [Ports -> Nat]
  /\ taken \in [Ports -> Seq(Taken)]
  /\ bidden \in [Ports -> BOOLEAN]

ClocksSound ==
  /\ clock \in [Ports -> Clock]
  /\ \A p \in Ports : ClockSound(clock[p]) /\ SlaveObeyed(clock[p])

MessagesSound == \A p \in Ports : \A i \in DOMAIN inbox[p] : MessageSound(inbox[p][i])

\* Request r gave setting s a value.
Sets(r, s) == r[1] = s /\ r[2] = "SET"

\* v is what requests t leave of setting s: the last one's value, or none's.
Left(t, s, v) ==
  \/ v = 0 /\ \A i \in DOMAIN t : ~ Sets(t[i], s)
  \/ \E i \in DOMAIN t : /\ Sets(t[i], s) /\ v = t[i][3][s]
                         /\ \A j \in DOMAIN t : j > i => ~ Sets(t[j], s)

\* No answer, error, decision or timeout has touched what requests set.
SettingsLeft == \A p \in Ports : \A s \in Reset : Left(taken[p], s, clock[p].setting[s])

ManagementInv ==
  StateTyped /\ ClocksSound /\ MessagesSound /\ SettingsLeft /\ HeapBalanced

LEMMA InitManaged == Init => ManagementInv
<1> SUFFICES ASSUME Init PROVE ManagementInv
  OBVIOUS
<1>1. ClocksSound
  <2>1. ASSUME NEW p \in Ports
        PROVE  ClockSound(clock[p]) /\ clock[p].portState = "INITIALIZING"
    BY DEF Init, Configured, ClockSound, Clock, States, Values, Settings
  <2>2. clock \in [Ports -> Clock]
    BY <2>1 DEF Init, ClockSound
  <2> QED BY <2>1, <2>2 DEF ClocksSound, SlaveObeyed
<1>2. StateTyped
  BY DEF Init, StateTyped
<1>3. MessagesSound /\ HeapBalanced
  BY DEF Init, MessagesSound, HeapBalanced
<1>4. SettingsLeft
  BY DEF Init, SettingsLeft, Left, Configured, Reset
<1> QED BY <1>1, <1>2, <1>3, <1>4 DEF ManagementInv

\* Only port p's clock changes, and the settings it keeps are what its requests
\* leave.
LEMMA ClockStep ==
  ASSUME ManagementInv, NEW p \in Ports, NEW e, ClockSound(e), SlaveObeyed(e),
         clock' = [clock EXCEPT ![p] = e],
         \A q \in Ports \ {p} : taken'[q] = taken[q],
         \A s \in Reset : Left(taken'[p], s, e.setting[s])
  PROVE  ClocksSound' /\ SettingsLeft'
<1>1. clock'[p] = e /\ \A q \in Ports \ {p} : clock'[q] = clock[q]
  BY DEF ManagementInv, ClocksSound
<1>2. clock' \in [Ports -> Clock]
  BY DEF ManagementInv, ClocksSound, ClockSound
<1>3. ClocksSound'
  BY <1>1, <1>2 DEF ManagementInv, ClocksSound
<1>4. SettingsLeft'
  BY <1>1 DEF ManagementInv, SettingsLeft
<1> QED BY <1>3, <1>4

\* The end of a pass in which no request changed the settings.
LEMMA PassStep ==
  ASSUME ManagementInv, NEW p \in Ports, NEW c, Passing(p, c),
         NEW d, ClockSound(d), SameSettings(c, d),
         d.portState = c.portState \/ d.portState # "MASTER",
         NEW e \in AfterHandle(c.portState, d), clock' = [clock EXCEPT ![p] = e],
         UNCHANGED taken
  PROVE  ClocksSound' /\ SettingsLeft'
<1>1. /\ ClockSound(clock[p]) /\ c \in Decided(clock[p])
      /\ clock[p].portState \notin {"INITIALIZING", "FAULTY"}
      /\ clock[p].portState \in States
  BY DEF ManagementInv, ClocksSound, Passing, Clock
<1>2. SameSettings(clock[p], c) /\ c.portState \in Clients \cup {"MASTER", "DISABLED"}
  BY <1>1, DecisionSound DEF States, Clients
<1>3. ClockSound(e) /\ SameSettings(d, e) /\ SlaveObeyed(e)
  BY <1>2, RestSound
<1>4. \A s \in Reset : e.setting[s] = clock[p].setting[s]
  BY <1>2, <1>3 DEF SameSettings
<1> QED BY <1>3, <1>4, ClockStep DEF ManagementInv, SettingsLeft

\* The clock a pass begins with, once a state decision has been taken.
LEMMA PassingClock ==
  ASSUME ManagementInv, NEW p \in Ports, NEW c, Passing(p, c)
  PROVE  /\ ClockSound(c) /\ SameSettings(clock[p], c)
         /\ SameSettings(c, c)
         /\ c.portState \in Clients \cup {"MASTER", "DISABLED"}
<1>1. /\ ClockSound(clock[p]) /\ c \in Decided(clock[p])
      /\ clock[p].portState \notin {"INITIALIZING", "FAULTY"}
      /\ clock[p].portState \in States
  BY DEF ManagementInv, ClocksSound, Passing, Clock
<1>2. SameSettings(c, c)
  BY DEF SameSettings
<1> QED BY <1>1, <1>2, DecisionSound DEF States, Clients

-----------------------------------------------------------------------------
(* Messages *)

LEMMA FirstMessage ==
  ASSUME ManagementInv, NEW p \in Ports, inbox[p] # <<>>
  PROVE  Head(inbox[p]) \in Message /\ MessageSound(Head(inbox[p]))
<1>1. inbox[p] \in Seq(Message)
  BY DEF ManagementInv, StateTyped
<1>2. 1 \in DOMAIN inbox[p] /\ Head(inbox[p]) = inbox[p][1]
  BY <1>1
<1> QED BY <1>1, <1>2 DEF ManagementInv, MessagesSound

\* A queue of sound messages stays one when its first is taken, and when a sound
\* one is added.
LEMMA QueueSound ==
  ASSUME NEW q \in Seq(Message), \A i \in DOMAIN q : MessageSound(q[i])
  PROVE  /\ q # <<>> => /\ Tail(q) \in Seq(Message)
                        /\ \A i \in DOMAIN Tail(q) : MessageSound(Tail(q)[i])
         /\ \A msg \in Message : MessageSound(msg) =>
              /\ Append(q, msg) \in Seq(Message)
              /\ \A i \in DOMAIN Append(q, msg) : MessageSound(Append(q, msg)[i])
<1>1. ASSUME q # <<>>
      PROVE  /\ Tail(q) \in Seq(Message)
             /\ \A i \in DOMAIN Tail(q) : MessageSound(Tail(q)[i])
  <2>1. /\ Tail(q) \in Seq(Message)
        /\ \A i \in DOMAIN Tail(q) : i + 1 \in DOMAIN q /\ Tail(q)[i] = q[i + 1]
    BY <1>1
  <2> HIDE DEF MessageSound
  <2> QED BY <2>1
<1>2. ASSUME NEW msg \in Message, MessageSound(msg)
      PROVE  /\ Append(q, msg) \in Seq(Message)
             /\ \A i \in DOMAIN Append(q, msg) : MessageSound(Append(q, msg)[i])
  <2>1. /\ Append(q, msg) \in Seq(Message)
        /\ \A i \in DOMAIN Append(q, msg) :
             \/ i \in DOMAIN q /\ Append(q, msg)[i] = q[i]
             \/ Append(q, msg)[i] = msg
    OBVIOUS
  <2> QED BY <1>2, <2>1
<1> QED BY <1>1, <1>2

LEMMA TakenFromInbox ==
  ASSUME ManagementInv, NEW p \in Ports, inbox[p] # <<>>,
         inbox' = [inbox EXCEPT ![p] = Tail(@)]
  PROVE  inbox' \in [Ports -> Seq(Message)] /\ MessagesSound'
<1>1. \A q \in Ports : /\ inbox[q] \in Seq(Message)
                       /\ \A i \in DOMAIN inbox[q] : MessageSound(inbox[q][i])
  BY DEF ManagementInv, StateTyped, MessagesSound
<1>2. \A q \in Ports : inbox'[q] = IF q = p THEN Tail(inbox[p]) ELSE inbox[q]
  BY DEF ManagementInv, StateTyped
<1>3. ASSUME NEW q \in Ports
      PROVE  /\ inbox'[q] \in Seq(Message)
             /\ \A i \in DOMAIN inbox'[q] : MessageSound(inbox'[q][i])
  BY <1>1, <1>2, QueueSound
<1>4. inbox' \in [Ports -> Seq(Message)]
  BY <1>3 DEF ManagementInv, StateTyped
<1> QED BY <1>3, <1>4 DEF MessagesSound

\* The socket is opened anew, or closed.
LEMMA InboxEmptied ==
  ASSUME ManagementInv, NEW p \in Ports, inbox' = [inbox EXCEPT ![p] = <<>>]
  PROVE  inbox' \in [Ports -> Seq(Message)] /\ MessagesSound'
<1>1. inbox' \in [Ports -> Seq(Message)]
  BY DEF ManagementInv, StateTyped
<1>2. \A q \in Ports : inbox'[q] = IF q = p THEN <<>> ELSE inbox[q]
  BY DEF ManagementInv, StateTyped
<1> QED BY <1>1, <1>2 DEF ManagementInv, MessagesSound

-----------------------------------------------------------------------------
(* Steps *)

LEMMA RequestManaged == ManagementInv /\ Request => ManagementInv'
<1> SUFFICES ASSUME ManagementInv, Request PROVE ManagementInv'
  OBVIOUS
<1> DEFINE Asking(tlvType, id, action, dataField, reached) ==
             [tlvType |-> tlvType, id |-> id, action |-> action,
              dataField |-> dataField, address |-> reached,
              asked |-> reached, depth |-> 0]
           Multicast(msg) ==
             inbox' = [p \in Ports |-> IF running[p] = "running"
                                         THEN Append(inbox[p], msg) ELSE inbox[p]]
<1>1. PICK tlvType \in {"MANAGEMENT", "FOREIGN", "NONE"}, id \in Ids,
           reached \in {Address(clock[p]) : p \in Ports} :
        \E action \in Actions(id) : \E dataField \in DataFields(id, action) :
          Multicast(Asking(tlvType, id, action, dataField, reached))
  BY DEF Request
<1>2. PICK action \in Actions(id) : \E dataField \in DataFields(id, action) :
        Multicast(Asking(tlvType, id, action, dataField, reached))
  BY <1>1
<1>3. PICK dataField \in DataFields(id, action) :
         Multicast(Asking(tlvType, id, action, dataField, reached))
  BY <1>2
<1> DEFINE msg == Asking(tlvType, id, action, dataField, reached)
<1>4. msg \in Message /\ MessageSound(msg)
  <2>1. id \in AllIds
    BY ManagementAssumption
  <2>2. action \in Action /\ dataField \in DataField
    BY <2>1, RequestData DEF Action
  <2>3. reached \in Addressing
    BY AddressTyped DEF ManagementInv, ClocksSound
  <2> QED BY <2>1, <2>2, <2>3 DEF Message, TlvType, MessageSound, Requested
<1> HIDE DEF msg
<1>5. ASSUME NEW p \in Ports
      PROVE  /\ inbox'[p] \in Seq(Message)
             /\ \A i \in DOMAIN inbox'[p] : MessageSound(inbox'[p][i])
  <2>1. /\ inbox[p] \in Seq(Message)
        /\ \A i \in DOMAIN inbox[p] : MessageSound(inbox[p][i])
    BY DEF ManagementInv, StateTyped, MessagesSound
  <2>2. inbox'[p] = inbox[p] \/ inbox'[p] = Append(inbox[p], msg)
    BY <1>3 DEF msg
  <2> QED BY <1>4, <2>1, <2>2, QueueSound
<1>6. inbox' \in [Ports -> Seq(Message)] /\ MessagesSound'
  BY <1>3, <1>5 DEF MessagesSound
<1>7. UNCHANGED <<clock, running, heap, foreign, taken, bidden>>
  BY DEF Request
<1> QED BY <1>6, <1>7 DEF ManagementInv, StateTyped, ClocksSound, SettingsLeft, HeapBalanced

\* A pass that handles no management message, its inbox already seen to.
LEMMA PassedManaged ==
  ASSUME ManagementInv, NEW p \in Ports, NEW c, Passing(p, c),
         NEW d, ClockSound(d), SameSettings(c, d),
         d.portState = c.portState \/ d.portState # "MASTER",
         Passed(p, c.portState, d),
         inbox' \in [Ports -> Seq(Message)], MessagesSound'
  PROVE  ManagementInv'
<1>1. PICK e \in AfterHandle(c.portState, d) : clock' = [clock EXCEPT ![p] = e]
  BY DEF Passed
<1>2. ClocksSound' /\ SettingsLeft'
  BY <1>1, PassStep DEF Passed
<1> QED BY <1>2 DEF Passed, ManagementInv, StateTyped, HeapBalanced

LEMMA OtherManaged ==
  ASSUME ManagementInv, NEW p \in Ports,
         HandleOther(p) \/ HandleShort(p) \/ HandleForeignDomain(p)
  PROVE  ManagementInv'
<1>1. UNCHANGED inbox => inbox' \in [Ports -> Seq(Message)] /\ MessagesSound'
  BY DEF ManagementInv, StateTyped, MessagesSound
<1>2. ASSUME NEW c, Passing(p, c), Passed(p, c.portState, [c EXCEPT !.portState = "FAULTY"]),
             UNCHANGED inbox
      PROVE  ManagementInv'
  <2> DEFINE d == [c EXCEPT !.portState = "FAULTY"]
  <2>1. ClockSound(d) /\ SameSettings(c, d) /\ d.portState = "FAULTY"
    BY <1>2, PassingClock, StateSound DEF States
  <2>2. Passed(p, c.portState, d)
    BY <1>2
  <2> HIDE DEF d
  <2> QED BY <1>1, <1>2, <2>1, <2>2, PassedManaged
<1>3. ASSUME NEW c, Passing(p, c), NEW d \in s1(c), Passed(p, c.portState, d),
             UNCHANGED inbox
      PROVE  ManagementInv'
  BY <1>1, <1>3, PassingClock, SlaveSound, PassedManaged
<1>4. ASSUME NEW c, Passing(p, c), Passed(p, c.portState, c),
             inbox' \in [Ports -> Seq(Message)] /\ MessagesSound'
      PROVE  ManagementInv'
  BY <1>4, PassingClock, PassedManaged
<1>5. CASE HandleOther(p)
  BY <1>1, <1>2, <1>3, <1>4, <1>5 DEF HandleOther
<1>6. CASE HandleShort(p)
  BY <1>2, <1>6 DEF HandleShort
<1>7. CASE HandleForeignDomain(p)
  BY <1>4, <1>7, TakenFromInbox DEF HandleForeignDomain
<1> QED BY <1>5, <1>6, <1>7

LEMMA UnansweredManaged ==
  ASSUME ManagementInv, NEW p \in Ports, handleManagementUnanswered(p)
  PROVE  ManagementInv'
<1>1. PICK c \in Decided(clock[p]) :
        /\ Passing(p, c)
        /\ inbox[p] # <<>>
        /\ LET msg == Head(inbox[p])
           IN /\ ~ Understood(msg)
              /\ heap' = [heap EXCEPT ![p] = @ + IF msg.tlvType = "FOREIGN" THEN Unpacked(msg)
                                                 ELSE 0]
              /\ foreign' = [foreign EXCEPT ![p] = @ + IF msg.tlvType = "FOREIGN" THEN 1 ELSE 0]
        /\ inbox' = [inbox EXCEPT ![p] = Tail(@)]
        /\ \E d \in AfterHandle(c.portState, c) : clock' = [clock EXCEPT ![p] = d]
        /\ UNCHANGED <<running, requests, taken, bidden>>
  BY DEF handleManagementUnanswered
<1>2. ClocksSound' /\ SettingsLeft'
  BY <1>1, PassingClock, PassStep
<1>3. inbox' \in [Ports -> Seq(Message)] /\ MessagesSound'
  BY <1>1, TakenFromInbox
<1>4. PICK n \in {0, 1} : /\ heap' = [heap EXCEPT ![p] = @ + n]
                          /\ foreign' = [foreign EXCEPT ![p] = @ + n]
  <2>1. CASE Head(inbox[p]).tlvType = "FOREIGN"
    <3>1. Unpacked(Head(inbox[p])) = 1
      BY <2>1 DEF Unpacked
    <3> QED BY <1>1, <2>1, <3>1
  <2>2. CASE Head(inbox[p]).tlvType # "FOREIGN"
    BY <1>1, <2>2
  <2> QED BY <2>1, <2>2
<1>5. heap' \in [Ports -> Nat] /\ foreign' \in [Ports -> Nat] /\ HeapBalanced'
  BY <1>4 DEF ManagementInv, StateTyped, HeapBalanced
<1> QED BY <1>1, <1>2, <1>3, <1>5 DEF ManagementInv, StateTyped

\* What a request does to the requests a port has handled and to its settings.
LEMMA RequestRecorded ==
  ASSUME NEW t \in Seq(Taken), NEW r \in Taken, NEW s, NEW v, NEW w, Left(t, s, v),
         w = IF Sets(r, s) THEN r[3][s] ELSE v
  PROVE  Left(Append(t, r), s, w) /\ Append(t, r) \in Seq(Taken)
<1> DEFINE u == Append(t, r)
           n == Len(t) + 1
<1>1. /\ n \in Nat /\ n >= 1 /\ DOMAIN t = 1..(n - 1) /\ DOMAIN u = 1..n /\ u[n] = r
      /\ \A i \in DOMAIN t : u[i] = t[i] /\ i \in DOMAIN u
      /\ u \in Seq(Taken)
  OBVIOUS
<1> SUFFICES Left(u, s, w)
  BY <1>1
<1> HIDE DEF u, n
<1>2. CASE Sets(r, s)
  <2>1. n \in DOMAIN u /\ \A j \in DOMAIN u : ~ (j > n)
    BY <1>1
  <2> QED BY <1>1, <1>2, <2>1 DEF Left
<1>3. CASE ~ Sets(r, s)
  <2>1. \A j \in DOMAIN u : j = n \/ j \in DOMAIN t
    BY <1>1
  <2>2. w = v
    BY <1>3
  <2>3. CASE v = 0 /\ \A i \in DOMAIN t : ~ Sets(t[i], s)
    BY <1>1, <1>3, <2>1, <2>2, <2>3 DEF Left
  <2>4. CASE \E i \in DOMAIN t : /\ Sets(t[i], s) /\ v = t[i][3][s]
                                 /\ \A j \in DOMAIN t : j > i => ~ Sets(t[j], s)
    <3>1. PICK i \in DOMAIN t : /\ Sets(t[i], s) /\ v = t[i][3][s]
                                /\ \A j \in DOMAIN t : j > i => ~ Sets(t[j], s)
      BY <2>4
    <3>2. Sets(u[i], s) /\ w = u[i][3][s] /\ i \in DOMAIN u
      BY <1>1, <2>2, <3>1
    <3>3. \A j \in DOMAIN u : j > i => ~ Sets(u[j], s)
      BY <1>1, <1>3, <2>1, <3>1
    <3> QED BY <3>2, <3>3 DEF Left
  <2> QED BY <2>3, <2>4 DEF Left
<1> QED BY <1>2, <1>3

LEMMA AnsweredManaged ==
  ASSUME ManagementInv, NEW p \in Ports, NEW c, Passing(p, c), inbox[p] # <<>>,
         NEW msg, msg = Head(inbox[p]), msg.address = Address(c), Understood(msg),
         NEW outcome, outcome = Handler(c, msg), ~ PacksNothing(outcome.out),
         Answered(p, c, msg, outcome)
  PROVE  ManagementInv'
<1>1. /\ ClockSound(c) /\ SameSettings(clock[p], c)
      /\ c.portState \in Clients \cup {"MASTER", "DISABLED"}
  BY PassingClock
<1>2. msg \in Message /\ MessageSound(msg) /\ Handleable(msg)
  BY FirstMessage DEF MessageSound, Handleable
<1>3. OutSound(c, msg, outcome) /\ ClockChanged(c, msg, outcome.clock)
  BY <1>1, <1>2, HandlerSound DEF OutcomeSound
<1>4. inbox' \in [Ports -> Seq(Message)] /\ MessagesSound'
  <2>1. outcome.out \in Message
    BY <1>3 DEF OutSound
  <2>2. Sent(outcome.out) => MessageSound(outcome.out)
    <3>1. msg.depth = 0 \/ (msg.depth = 1 /\ msg.action \in {"RESPONSE", "ACKNOWLEDGE"})
      BY <1>2 DEF MessageSound, Replied
    <3>2. CASE msg.depth = 0
      <4>1. outcome.out.depth = 1 /\ outcome.out.address = outcome.out.asked
        BY <1>2, <1>3, <3>2 DEF OutSound, MessageSound
      <4> QED BY <4>1 DEF MessageSound, Replied, Understood, Sent
    <3>3. CASE msg.depth = 1 /\ msg.action \in {"RESPONSE", "ACKNOWLEDGE"}
      BY <1>3, <3>3 DEF OutSound, MessageSound
    <3> QED BY <3>1, <3>2, <3>3
  <2>3. inbox' = [q \in Ports |->
          CASE q = p -> Tail(inbox[p])
            [] Sent(outcome.out) /\ running[q] = "running" -> Append(inbox[q], outcome.out)
            [] OTHER -> inbox[q]]
    BY DEF Answered, Issue
  <2>4. ASSUME NEW q \in Ports
        PROVE  /\ inbox'[q] \in Seq(Message)
               /\ \A i \in DOMAIN inbox'[q] : MessageSound(inbox'[q][i])
    <3>1. /\ inbox[q] \in Seq(Message)
          /\ \A i \in DOMAIN inbox[q] : MessageSound(inbox[q][i])
      BY DEF ManagementInv, StateTyped, MessagesSound
    <3>2. \/ q = p /\ inbox'[q] = Tail(inbox[q])
          \/ Sent(outcome.out) /\ inbox'[q] = Append(inbox[q], outcome.out)
          \/ inbox'[q] = inbox[q]
      BY <2>3
    <3> QED BY <2>1, <2>2, <3>1, <3>2, QueueSound
  <2> QED BY <2>3, <2>4 DEF MessagesSound
<1>5. heap' = heap
  <2>1. outcome.held = Reached(outcome.out) /\ Reached(outcome.out) \in Int
    <3>1. Texts(outcome.out.id) \in Int
      BY DEF Texts
    <3> QED BY <1>3, <3>1 DEF OutSound, Reached
  <2>2. heap[p] + outcome.held - Reached(outcome.out) = heap[p]
    BY <2>1 DEF ManagementInv, StateTyped
  <2>3. heap' = [heap EXCEPT ![p] = heap[p] + outcome.held - Reached(outcome.out)]
    BY DEF Answered
  <2> QED BY <2>2, <2>3 DEF ManagementInv, StateTyped
<1> DEFINE r == <<msg.id, msg.action, msg.dataField>>
<1>6. taken' = [taken EXCEPT ![p] = IF msg.depth = 0 THEN Append(@, r) ELSE @]
  BY DEF Answered
<1>7. r \in Taken /\ taken[p] \in Seq(Taken)
  BY <1>2 DEF Taken, Message, ManagementInv, StateTyped
<1>8. /\ taken' \in [Ports -> Seq(Taken)]
      /\ \A q \in Ports \ {p} : taken'[q] = taken[q]
      /\ msg.depth = 0 => taken'[p] = Append(taken[p], r)
      /\ msg.depth # 0 => taken'[p] = taken[p]
  <2> HIDE DEF r
  <2> QED BY <1>6, <1>7 DEF ManagementInv, StateTyped
<1>9. \A s \in Reset : Left(taken'[p], s, outcome.clock.setting[s])
  <2> SUFFICES ASSUME NEW s \in Reset
               PROVE  Left(taken'[p], s, outcome.clock.setting[s])
    OBVIOUS
  <2>1. /\ outcome.clock.setting[s] = IF msg.id = s /\ msg.action = "SET"
                                        THEN msg.dataField[s] ELSE c.setting[s]
        /\ c.setting[s] = clock[p].setting[s]
    BY <1>1, <1>3 DEF ClockChanged, SameSettings, Reset
  <2>2. Left(taken[p], s, c.setting[s])
    BY <2>1 DEF ManagementInv, SettingsLeft
  <2>3. CASE msg.depth = 0
    <3>1. outcome.clock.setting[s] = IF Sets(r, s) THEN r[3][s] ELSE c.setting[s]
      BY <2>1 DEF Sets
    <3> HIDE DEF r
    <3>2. Left(Append(taken[p], r), s, outcome.clock.setting[s])
      BY <1>7, <2>2, <3>1, RequestRecorded
    <3>3. taken'[p] = Append(taken[p], r)
      BY <1>8, <2>3
    <3> QED BY <3>2, <3>3
  <2>4. CASE msg.depth # 0
    <3>1. msg.action # "SET"
      BY <1>2, <2>4 DEF MessageSound, Replied
    <3>2. outcome.clock.setting[s] = c.setting[s] /\ taken'[p] = taken[p]
      BY <1>8, <2>1, <2>4, <3>1
    <3> QED BY <2>2, <3>2
  <2> QED BY <2>3, <2>4
<1>10. ClocksSound' /\ SettingsLeft'
  <2>1. PICK e \in AfterHandle(c.portState, outcome.clock) : clock' = [clock EXCEPT ![p] = e]
    BY DEF Answered
  <2>2. /\ ClockSound(outcome.clock)
        /\ outcome.clock.portState = c.portState \/ outcome.clock.portState # "MASTER"
    BY <1>3 DEF ClockChanged
  <2>3. ClockSound(e) /\ SameSettings(outcome.clock, e) /\ SlaveObeyed(e)
    BY <1>1, <2>1, <2>2, RestSound
  <2>4. \A s \in Reset : Left(taken'[p], s, e.setting[s])
    BY <1>9, <2>3 DEF SameSettings
  <2> QED BY <1>8, <2>1, <2>3, <2>4, ClockStep
<1>11. bidden' \in [Ports -> BOOLEAN]
  <2>1. bidden' = [bidden EXCEPT ![p] = bidden[p] \/ outcome.clock.portState = "INITIALIZING"]
    BY DEF Answered
  <2> QED BY <2>1 DEF ManagementInv, StateTyped
<1>12. UNCHANGED <<running, foreign>>
  BY DEF Answered
<1> QED BY <1>4, <1>5, <1>8, <1>10, <1>11, <1>12 DEF ManagementInv, StateTyped, HeapBalanced

LEMMA AnswerManaged ==
  ASSUME ManagementInv, NEW p \in Ports, handleManagement(p)
  PROVE  ManagementInv'
<1>1. PICK c \in Decided(clock[p]) :
        /\ Passing(p, c)
        /\ inbox[p] # <<>>
        /\ Head(inbox[p]).address = Address(c)
        /\ Understood(Head(inbox[p]))
        /\ IF PacksNothing(Handler(c, Head(inbox[p])).out) THEN Crash(p, Head(inbox[p]).id)
           ELSE Answered(p, c, Head(inbox[p]), Handler(c, Head(inbox[p])))
  BY DEF handleManagement
<1>2. CASE PacksNothing(Handler(c, Head(inbox[p])).out)
  <2>1. Crash(p, Head(inbox[p]).id) /\ Head(inbox[p]).id \in AllIds
    BY <1>1, <1>2, FirstMessage DEF Message
  <2>2. inbox' \in [Ports -> Seq(Message)] /\ MessagesSound'
    BY <2>1, InboxEmptied DEF Crash
  <2>3. running' \in [Ports -> {"running", "ended"} \cup AllIds]
    BY <2>1 DEF Crash, ManagementInv, StateTyped
  <2> QED BY <2>1, <2>2, <2>3
          DEF Crash, ManagementInv, StateTyped, ClocksSound, SettingsLeft, HeapBalanced
<1>3. CASE ~ PacksNothing(Handler(c, Head(inbox[p])).out)
  BY <1>1, <1>3, AnsweredManaged
<1> QED BY <1>2, <1>3

LEMMA FaultManaged ==
  ASSUME ManagementInv, NEW p \in Ports, FaultCleared(p)
  PROVE  ManagementInv'
<1> DEFINE e == [clock[p] EXCEPT !.portState = "INITIALIZING"]
<1>1. ClockSound(clock[p])
  BY DEF ManagementInv, ClocksSound
<1>2. ClockSound(e) /\ SameSettings(clock[p], e) /\ e.portState = "INITIALIZING"
  BY <1>1, StateSound DEF States
<1>3. clock' = [clock EXCEPT ![p] = e]
  BY DEF FaultCleared, ManagementInv, ClocksSound
<1> HIDE DEF e
<1>4. \A s \in Reset : Left(taken'[p], s, e.setting[s])
  BY <1>2 DEF FaultCleared, SameSettings, ManagementInv, SettingsLeft
<1>5. ClocksSound' /\ SettingsLeft'
  BY <1>2, <1>3, <1>4, ClockStep DEF FaultCleared, SlaveObeyed
<1> QED BY <1>5 DEF FaultCleared, ManagementInv, StateTyped, MessagesSound, HeapBalanced

LEMMA InitDataSound ==
  ASSUME NEW c, ClockSound(c)
  PROVE  LET d == [m1(initData(c)) EXCEPT !.portState = "LISTENING"]
         IN  /\ ClockSound(d) /\ d.portState = "LISTENING"
             /\ \A s \in Reset : d.setting[s] = 0
<1> DEFINE i == initData(c)
           d == [m1(i) EXCEPT !.portState = "LISTENING"]
<1>1. "SLAVE_ONLY" \in Reset /\ Reset \subseteq Settings /\ 0 \in Values
  BY DEF Reset, Settings, Timekeeping, Values
<1>2. i \in Clock /\ \A s \in Reset : i.setting[s] = 0
  BY <1>1 DEF initData, ClockSound, Clock
<1> HIDE DEF i
<1>3. ClockSound(i)
  BY <1>1, <1>2 DEF ClockSound
<1>4. ClockSound(m1(i)) /\ SameSettings(i, m1(i))
  BY <1>3, MasterSound
<1>5. ClockSound(d) /\ SameSettings(m1(i), d) /\ d.portState = "LISTENING"
  BY <1>4, StateSound DEF States
<1> HIDE DEF d
<1>6. \A s \in Reset : d.setting[s] = 0
  BY <1>2, <1>4, <1>5 DEF SameSettings
<1> QED BY <1>5, <1>6 DEF i, d

LEMMA InitManagedAgain ==
  ASSUME ManagementInv, NEW p \in Ports, doInit(p)
  PROVE  ManagementInv'
<1>0. ClockSound(clock[p]) /\ inbox' = [inbox EXCEPT ![p] = <<>>]
      /\ UNCHANGED <<heap, requests, foreign>>
  BY DEF doInit, ManagementInv, ClocksSound
<1>1. inbox' \in [Ports -> Seq(Message)] /\ MessagesSound'
  BY <1>0, InboxEmptied
<1>2. CASE /\ clock' = [clock EXCEPT ![p] = [m1(initData(@)) EXCEPT !.portState = "LISTENING"]]
           /\ taken' = [taken EXCEPT ![p] = <<>>]
           /\ bidden' = [bidden EXCEPT ![p] = FALSE]
           /\ UNCHANGED running
  <2> DEFINE e == [m1(initData(clock[p])) EXCEPT !.portState = "LISTENING"]
  <2>1. /\ ClockSound(e) /\ e.portState = "LISTENING"
        /\ \A s \in Reset : e.setting[s] = 0
    BY <1>0, InitDataSound
  <2>2. clock' = [clock EXCEPT ![p] = e]
    BY <1>2
  <2> HIDE DEF e
  <2>3. /\ taken' \in [Ports -> Seq(Taken)] /\ taken'[p] = <<>>
        /\ \A q \in Ports \ {p} : taken'[q] = taken[q]
        /\ bidden' \in [Ports -> BOOLEAN]
    BY <1>2 DEF ManagementInv, StateTyped
  <2>4. \A s \in Reset : Left(taken'[p], s, e.setting[s])
    BY <2>1, <2>3 DEF Left
  <2>5. ClocksSound' /\ SettingsLeft'
    BY <2>1, <2>2, <2>3, <2>4, ClockStep DEF SlaveObeyed
  <2> QED BY <1>0, <1>1, <1>2, <2>3, <2>5 DEF ManagementInv, StateTyped, HeapBalanced
<1>3. CASE /\ clock' = [clock EXCEPT ![p].portState = "FAULTY"]
           /\ running' = [running EXCEPT ![p] = "ended"]
           /\ UNCHANGED <<taken, bidden>>
  <2> DEFINE e == [clock[p] EXCEPT !.portState = "FAULTY"]
  <2>1. ClockSound(e) /\ SameSettings(clock[p], e) /\ e.portState = "FAULTY"
    BY <1>0, StateSound DEF States
  <2>2. clock' = [clock EXCEPT ![p] = e]
    BY <1>3 DEF ManagementInv, ClocksSound
  <2> HIDE DEF e
  <2>3. \A s \in Reset : Left(taken'[p], s, e.setting[s])
    BY <1>3, <2>1 DEF SameSettings, ManagementInv, SettingsLeft
  <2>4. ClocksSound' /\ SettingsLeft'
    BY <1>3, <2>1, <2>2, <2>3, ClockStep DEF SlaveObeyed
  <2> QED BY <1>0, <1>1, <1>3, <2>4 DEF ManagementInv, StateTyped, HeapBalanced
<1> QED BY <1>2, <1>3 DEF doInit

LEMMA ManagementInductive == Spec => []ManagementInv
<1>1. ManagementInv /\ [Next]_vars => ManagementInv'
  <2> SUFFICES ASSUME ManagementInv, [Next]_vars PROVE ManagementInv'
    OBVIOUS
  <2>1. CASE UNCHANGED vars
    BY <2>1 DEF vars, history, ManagementInv, StateTyped, ClocksSound,
                MessagesSound, SettingsLeft, HeapBalanced
  <2> QED BY <2>1, RequestManaged, OtherManaged, UnansweredManaged, AnswerManaged,
             FaultManaged, InitManagedAgain DEF Next
<1> QED BY <1>1, InitManaged, PTL DEF Spec

-----------------------------------------------------------------------------
(* Theorems *)

\* Every variable keeps to its type, for any number of ports and requests.
THEOREM TypeCorrect == Spec => []TypeOK
<1>1. ManagementInv => TypeOK
  <2> SUFFICES ASSUME ManagementInv PROVE TypeOK
    OBVIOUS
  <2>1. ASSUME NEW p \in Ports, NEW i \in DOMAIN inbox[p] PROVE inbox[p][i] \in Message
    BY DEF ManagementInv, StateTyped
  <2> QED BY <2>1 DEF ManagementInv, StateTyped, ClocksSound, Clock, TypeOK, Message, TlvType
<1> QED BY <1>1, ManagementInductive, PTL

\* However many ports share the segment, a request, what they answer and what
\* they make of each other's answers end after an error: no handler sends an
\* answer of its own to a RESPONSE or an ACKNOWLEDGE.
THEOREM TrafficEnds == Spec => []AnswersEnd
<1>1. ManagementInv => AnswersEnd
  BY DEF ManagementInv, MessagesSound, MessageSound, AnswersEnd
<1> QED BY <1>1, ManagementInductive, PTL

\* The manager hears the answer where it asked, even to a request that changed
\* the port's domain or version.
THEOREM AnswersFindManager == Spec => []AnsweredWhereAsked
<1>1. ManagementInv => AnsweredWhereAsked
  BY DEF ManagementInv, MessagesSound, MessageSound, AnsweredWhereAsked
<1> QED BY <1>1, ManagementInductive, PTL

\* A port's settings are a function of the requests it has handled since it was
\* initialised; the answers of other ports do not set it.
THEOREM PortsAlwaysAgree == Spec => []PortsAgree
<1>1. ASSUME NEW t, NEW s, NEW v, NEW w, DOMAIN t \subseteq Int,
             Left(t, s, v), Left(t, s, w)
      PROVE  v = w
  <2>1. CASE \A i \in DOMAIN t : ~ Sets(t[i], s)
    BY <1>1, <2>1 DEF Left
  <2>2. CASE ~ \A i \in DOMAIN t : ~ Sets(t[i], s)
    <3>1. PICK i \in DOMAIN t : /\ Sets(t[i], s) /\ v = t[i][3][s]
                                /\ \A j \in DOMAIN t : j > i => ~ Sets(t[j], s)
      BY <1>1, <2>2 DEF Left
    <3>2. PICK k \in DOMAIN t : /\ Sets(t[k], s) /\ w = t[k][3][s]
                                /\ \A j \in DOMAIN t : j > k => ~ Sets(t[j], s)
      BY <1>1, <2>2 DEF Left
    <3>3. i = k
      BY <1>1, <3>1, <3>2
    <3> QED BY <3>1, <3>2, <3>3
  <2> QED BY <2>1, <2>2
<1>2. ManagementInv => PortsAgree
  <2> SUFFICES ASSUME ManagementInv, NEW p \in Ports, NEW q \in Ports,
                      taken[p] = taken[q], NEW s \in Reset
               PROVE  clock[p].setting[s] = clock[q].setting[s]
    BY DEF PortsAgree
  <2>1. DOMAIN taken[p] \subseteq Int
    BY DEF ManagementInv, StateTyped
  <2>2. /\ Left(taken[p], s, clock[p].setting[s])
        /\ Left(taken[p], s, clock[q].setting[s])
    BY DEF ManagementInv, SettingsLeft
  <2> QED BY <1>1, <2>1, <2>2
<1> QED BY <1>2, ManagementInductive, PTL

\* What a handler and its error path allocate, freeManagementTLV() reaches; one
\* block is lost for each message with a foreign TLV, and no other.
THEOREM HeapAlwaysBalanced == Spec => []HeapBalanced
<1>1. ManagementInv => HeapBalanced
  BY DEF ManagementInv
<1> QED BY <1>1, ManagementInductive, PTL

\* Whatever a decision, a timeout or a handler makes of a slave-only port, it is not
\* master when the pass is over; and a master that is told to be slave-only gives up
\* in the same pass.
THEOREM SlaveOnlyAlwaysObeyed == Spec => []SlaveOnlyObeyed
<1>1. ManagementInv => SlaveOnlyObeyed
  BY DEF ManagementInv, ClocksSound, SlaveObeyed, SlaveOnlyObeyed
<1> QED BY <1>1, ManagementInductive, PTL

=============================================================================

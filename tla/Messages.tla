------------------------------- MODULE Messages -------------------------------
(***************************************************************************)
(* A clock packs every message it sends into one buffer, msgObuf, which    *)
(* keeps what the message before has left there; a peer receives every      *)
(* message into one buffer, msgIbuf, and unpacks it.                        *)
(***************************************************************************)
EXTENDS MessageLayouts, FiniteSets

CONSTANTS
  ManagementIds,   \* bound: what the clock is asked about
  Texts,           \* bound: lengths of the user description
  MaxMessages      \* bound: messages packed since start-up

PACKET_SIZE == 300

ASSUME MessagesAssumption ==
  /\ Texts \subseteq 0..128   \* USER_DESCRIPTION_MAX
  /\ MaxMessages \in Nat

Plain ==
  {"ANNOUNCE", "SYNC", "FOLLOW_UP", "DELAY_REQ", "DELAY_RESP", "PDELAY_REQ",
   "PDELAY_RESP", "PDELAY_RESP_FOLLOW_UP"}

Descriptions == {"CLOCK_DESCRIPTION", "USER_DESCRIPTION"}

\* id and text are those of management messages.
Messages ==
  [type : Plain, id : {""}, text : {0}]
    \cup [type : {"MANAGEMENT"}, id : ManagementIds, text : {0}]
    \cup [type : {"MANAGEMENT"}, id : ManagementIds \cap Descriptions, text : Texts]

NoMessage == [type |-> "none", id |-> "", text |-> 0]

VARIABLES
  msgObuf,    \* of the clock: position |-> octet
  msgIbuf,    \* of the peer
  sent,       \* the message packed last
  heard,      \* the message the peer received last
  packed      \* history: how many messages have been packed

vars == <<msgObuf, msgIbuf, sent, heard, packed>>

-----------------------------------------------------------------------------

TLVData(m) == Data(m.id, m.text)

\* issueManagementRespOrAck() and issueManagementErrorStatus().
PackManagement(m) ==
  At(0, packMsgManagement) @@ At(48, ManagementTLV) @@ At(54, TLVData(m))

\* What is written for a message.
Pack(m) ==
  CASE m.type = "ANNOUNCE" -> msgPackAnnounce
    [] m.type = "SYNC" -> msgPackSync
    [] m.type = "FOLLOW_UP" -> msgPackFollowUp
    [] m.type = "DELAY_REQ" -> msgPackDelayReq
    [] m.type = "DELAY_RESP" -> msgPackDelayResp
    [] m.type = "PDELAY_REQ" -> msgPackPDelayReq
    [] m.type = "PDELAY_RESP" -> msgPackPDelayResp
    [] m.type = "PDELAY_RESP_FOLLOW_UP" -> msgPackPDelayRespFollowUp
    [] m.type = "MANAGEMENT" -> PackManagement(m)
    [] OTHER -> <<>>

\* ..._LENGTH, or messageLength of a management message.
Length(m) ==
  CASE m.type = "ANNOUNCE" -> 64
    [] m.type \in {"SYNC", "FOLLOW_UP", "DELAY_REQ"} -> 44
    [] m.type \in Plain -> 54
    [] m.type = "MANAGEMENT" -> 48 + 6 + Len(TLVData(m))
    [] OTHER -> 0

\* What a receiver reads: handle() the header, and each handler its fields.
\* The time stamps of both requests are not read.
Readers(m) ==
  {msgUnpackHeader} \cup
  CASE m.type = "ANNOUNCE" -> {msgUnpackAnnounce}
    [] m.type = "SYNC" -> {msgUnpackSync}
    [] m.type = "FOLLOW_UP" -> {msgUnpackFollowUp}
    [] m.type = "DELAY_RESP" -> {msgUnpackDelayResp}
    [] m.type = "PDELAY_RESP" -> {msgUnpackPDelayResp}
    [] m.type = "PDELAY_RESP_FOLLOW_UP" -> {msgUnpackPDelayRespFollowUp}
    [] m.type = "MANAGEMENT" ->
         {At(0, unpackMsgManagement), At(48, ManagementTLV), At(54, TLVData(m))}
    [] OTHER -> {}

\* Computed once for each message.
Written == [m \in Messages |-> Pack(m)]
Reads == [m \in Messages |-> Readers(m)]

Octets == 0..(PACKET_SIZE - 1)

-----------------------------------------------------------------------------

\* Both buffers are cleared at start-up only.
Init ==
  /\ msgObuf = [o \in Octets |-> Zero]
  /\ msgIbuf = [o \in Octets |-> Zero]
  /\ sent = NoMessage
  /\ heard = NoMessage
  /\ packed = 0

\* doInit() prepares the header; nothing is sent.
doInit ==
  /\ sent' = NoMessage
  /\ msgObuf' = msgPackHeader @@ msgObuf
  /\ UNCHANGED <<msgIbuf, heard, packed>>

Issue(m) ==
  /\ packed < MaxMessages
  /\ packed' = packed + 1
  /\ sent' = m
  /\ msgObuf' = Written[m] @@ msgObuf
  /\ UNCHANGED <<msgIbuf, heard>>

\* Not every message arrives, and some do twice.
Receive ==
  /\ sent # NoMessage
  /\ heard' = sent
  /\ msgIbuf' = [o \in 0..(Length(sent) - 1) |-> msgObuf[o]] @@ msgIbuf
  /\ UNCHANGED <<msgObuf, sent, packed>>

Next ==
  \/ doInit
  \/ \E m \in Messages : Issue(m)
  \/ Receive

Spec == Init /\ [][Next]_vars

-----------------------------------------------------------------------------
(* Properties *)

\* Every variable keeps to its type; nothing is written past the buffers.
TypeOK ==
  /\ DOMAIN msgObuf = Octets
  /\ DOMAIN msgIbuf = Octets
  /\ {sent, heard} \subseteq Messages \cup {NoMessage}
  /\ packed \in 0..MaxMessages

\* Every octet that a receiver reads into a field is the octet of that field which
\* this very message's sender has written, or is zero: the positions written out
\* in the functions that pack agree with those in the functions that unpack.
ReadAsPacked ==
  heard # NoMessage =>
    \A reader \in Reads[heard] : \A o \in DOMAIN reader :
      /\ o < Length(heard)
      /\ \/ msgIbuf[o] = Zero
         \/ msgIbuf[o] = reader[o] /\ o \in DOMAIN Written[heard]

\* What a sender does not write is zero all the same, whatever it has sent before:
\* leap second and UTC flags are never set by accident.  Only octet 46 of an
\* Announce, reserved, shows what an earlier message was about.
LeftoversAreZero ==
  sent # NoMessage =>
    \A o \in 0..(Length(sent) - 1) :
      \/ o \in DOMAIN Written[sent]
      \/ msgObuf[o] = Zero
      \/ sent.type = "ANNOUNCE" /\ o = 46

\* Messages are even, fit into the buffers, and nothing is written behind what is sent.
WellSized ==
  sent # NoMessage =>
    /\ Length(sent) % 2 = 0
    /\ Length(sent) <= PACKET_SIZE
    /\ \A o \in DOMAIN Written[sent] : o < Length(sent)
=============================================================================

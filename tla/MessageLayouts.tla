---------------------------- MODULE MessageLayouts ----------------------------
(***************************************************************************)
(* dep/msg.c: which octet of a message is written from which part of which *)
(* field, and read into which.                                             *)
(*                                                                         *)
(* An octet is <<field, rank>>, rank 1 being the most significant octet of *)
(* the field, or Zero.  A part is a sequence of octets; a layout maps the  *)
(* positions a function writes or reads to octets.  An upper nibble is not *)
(* shown: it shares the octet of the field that follows it, and every      *)
(* upper nibble sent is a constant.                                        *)
(***************************************************************************)
EXTENDS Integers, Sequences, TLC

Zero == <<"zero", 0>>

Zeros(n) == [i \in 1..n |-> Zero]

\* The part s, at position o.
At(o, s) == [i \in o..(o + Len(s) - 1) |-> s[i - o + 1]]

-----------------------------------------------------------------------------
(* The types.  PACK_SIMPLE and PACK_ENDIAN(): the network's order. *)

Field(f, n) == [i \in 1..n |-> <<f, i>>]

UInteger8(f) == Field(f, 1)
UInteger16(f) == Field(f, 2)
UInteger32(f) == Field(f, 4)

\* The lower word comes first.
Integer64(f) == SubSeq(Field(f, 8), 5, 8) \o SubSeq(Field(f, 8), 1, 4)

ClockIdentity(f) == Field(f, 8)
PortIdentity(f) == Field(f, 10)
ClockQuality(f) == Field(f, 4)
TimeInterval(f) == Integer64(f)

\* With their lengths; n octets of text or address.
PTPText(f, n) == Field(f, 1 + n)
PhysicalAddress(f, n) == Field(f, 2 + n)
PortAddress(f, n) == Field(f, 4 + n)

\* Faulty variant: the length is left odd.
PaddedNot(s) == s

\* Added after texts, since TLVs must be even.
Padded(s) == s \o Zeros(Len(s) % 2)

-----------------------------------------------------------------------------
(* Written out position by position.  In F @@ G, F is written after G. *)

\* seconds and nanoseconds of a Timestamp; in the network's order.
Stamp(f) == Field(f, 6) \o UInteger32("nanosecondsField")

\* Neither octets 5 and 16 to 19, reserved, nor 7, the flags of leap seconds and UTC.
msgPackHeader ==
     At(0, UInteger8("messageType")) @@ At(1, UInteger8("versionPTP"))
  @@ At(4, UInteger8("domainNumber")) @@ At(6, UInteger8("flagField0"))
  @@ At(8, Zeros(8)) @@ At(20, PortIdentity("sourcePortIdentity"))
  @@ At(33, UInteger8("logMessageInterval"))

Typed ==
     At(0, UInteger8("messageType")) @@ At(2, UInteger16("messageLength"))
  @@ At(30, UInteger16("sequenceId")) @@ At(32, UInteger8("controlField"))
  @@ At(33, UInteger8("logMessageInterval")) @@ msgPackHeader

Requesting == At(44, PortIdentity("requestingPortIdentity"))
CorrectionField == At(8, Field("correctionField", 8))

\* Octet 46 is reserved, and not written.
AnnounceBody ==
     At(44, UInteger16("currentUtcOffset")) @@ At(47, UInteger8("grandmasterPriority1"))
  @@ At(48, ClockQuality("clockQuality")) @@ At(52, UInteger8("grandmasterPriority2"))
  @@ At(53, ClockIdentity("grandmasterIdentity")) @@ At(61, UInteger16("stepsRemoved"))
  @@ At(63, UInteger8("timeSource"))

msgPackAnnounce == AnnounceBody @@ At(34, Zeros(10)) @@ Typed
msgPackSync == At(34, Stamp("originTimestamp")) @@ Typed
msgPackFollowUp == At(34, Stamp("preciseOriginTimestamp")) @@ Typed
msgPackDelayReq == At(34, Stamp("originTimestamp")) @@ Typed
msgPackDelayResp ==
  Requesting @@ At(34, Stamp("receiveTimestamp")) @@ CorrectionField @@ Typed

\* Faulty variant: the octets that make the request as long as its answer are left as they are.
msgPackPDelayReqShort == At(34, Stamp("originTimestamp")) @@ Typed

msgPackPDelayReq == At(44, Zeros(10)) @@ At(34, Stamp("originTimestamp")) @@ Typed
msgPackPDelayResp == Requesting @@ At(34, Stamp("requestReceiptTimestamp")) @@ Typed
msgPackPDelayRespFollowUp ==
  Requesting @@ At(34, Stamp("responseOriginTimestamp")) @@ CorrectionField @@ Typed

msgUnpackHeader ==
     At(0, UInteger8("messageType")) @@ At(1, UInteger8("versionPTP"))
  @@ At(2, UInteger16("messageLength")) @@ At(4, UInteger8("domainNumber"))
  @@ At(6, UInteger8("flagField0")) @@ At(7, UInteger8("flagField1"))
  @@ CorrectionField @@ At(20, PortIdentity("sourcePortIdentity"))
  @@ At(30, UInteger16("sequenceId")) @@ At(32, UInteger8("controlField"))
  @@ At(33, UInteger8("logMessageInterval"))

\* Faulty variant: the reserved octet is taken for the priority that follows it.
msgUnpackAnnounceShifted ==
  At(46, UInteger8("grandmasterPriority1")) @@ AnnounceBody @@ At(34, Stamp("originTimestamp"))

msgUnpackAnnounce == AnnounceBody @@ At(34, Stamp("originTimestamp"))
msgUnpackSync == At(34, Stamp("originTimestamp"))
msgUnpackFollowUp == At(34, Stamp("preciseOriginTimestamp"))
msgUnpackDelayResp == Requesting @@ At(34, Stamp("receiveTimestamp"))
msgUnpackPDelayResp == Requesting @@ At(34, Stamp("requestReceiptTimestamp"))
msgUnpackPDelayRespFollowUp == Requesting @@ At(34, Stamp("responseOriginTimestamp"))

-----------------------------------------------------------------------------
(* The data of management messages.  One list of OPERATEs serves both the   *)
(* function that packs and the one that unpacks.                           *)

Reserved == Zeros(1)

MMSlaveOnly == UInteger8("so") \o Reserved
MMClockDescription(text) ==
  Padded(Field("clockType", 2) \o PTPText("physicalLayerProtocol", 10)
         \o PhysicalAddress("physicalAddress", 6) \o PortAddress("protocolAddress", 4)
         \o Field("manufacturerIdentity", 3) \o Reserved
         \o PTPText("productDescription", 2) \o PTPText("revisionData", 5)
         \o PTPText("userDescription", text) \o Zeros(6))
MMUserDescription(text) == Padded(PTPText("userDescription", text))
MMInitialize == UInteger16("initializeKey")
MMDefaultDataSet ==
  UInteger8("so_tsc") \o Reserved \o UInteger16("numberPorts") \o UInteger8("priority1")
  \o ClockQuality("clockQuality") \o UInteger8("priority2")
  \o ClockIdentity("clockIdentity") \o UInteger8("domainNumber") \o Reserved
MMCurrentDataSet ==
  UInteger16("stepsRemoved") \o TimeInterval("offsetFromMaster") \o TimeInterval("meanPathDelay")
MMParentDataSet ==
  PortIdentity("parentPortIdentity") \o UInteger8("PS") \o Reserved
  \o UInteger16("observedParentOffsetScaledLogVariance")
  \o UInteger32("observedParentClockPhaseChangeRate")
  \o UInteger8("grandmasterPriority1") \o ClockQuality("grandmasterClockQuality")
  \o UInteger8("grandmasterPriority2") \o ClockIdentity("grandmasterIdentity")
MMTimePropertiesDataSet ==
  UInteger16("currentUtcOffset") \o UInteger8("ftra_ttra_ptp_utcv_li59_li61")
  \o UInteger8("timeSource")
MMPortDataSet ==
  PortIdentity("portIdentity") \o UInteger8("portState")
  \o UInteger8("logMinDelayReqInterval") \o TimeInterval("peerMeanPathDelay")
  \o UInteger8("logAnnounceInterval") \o UInteger8("announceReceiptTimeout")
  \o UInteger8("logSyncInterval") \o UInteger8("delayMechanism")
  \o UInteger8("logMinPdelayReqInterval") \o UInteger8("versionNumber")
MMPriority1 == UInteger8("priority1") \o Reserved
MMPriority2 == UInteger8("priority2") \o Reserved
MMDomain == UInteger8("domainNumber") \o Reserved
MMLogAnnounceInterval == UInteger8("logAnnounceInterval") \o Reserved
MMAnnounceReceiptTimeout == UInteger8("announceReceiptTimeout") \o Reserved
MMLogSyncInterval == UInteger8("logSyncInterval") \o Reserved
MMVersionNumber == UInteger8("versionNumber") \o Reserved
MMClockAccuracy == UInteger8("clockAccuracy") \o Reserved
MMUtcProperties ==
  UInteger16("currentUtcOffset") \o UInteger8("utcv_li59_li61") \o Reserved
MMTraceabilityProperties == UInteger8("ftra_ttra") \o Reserved
MMDelayMechanism == UInteger8("delayMechanism") \o Reserved
MMLogMinPdelayReqInterval == UInteger8("logMinPdelayReqInterval") \o Reserved
MMErrorStatus == Padded(UInteger16("managementId") \o Zeros(4) \o PTPText("displayData", 0))

\* The switch over managementId.
Data(id, text) ==
  CASE id = "ERROR_STATUS" -> MMErrorStatus
    [] id = "CLOCK_DESCRIPTION" -> MMClockDescription(text)
    [] id = "USER_DESCRIPTION" -> MMUserDescription(text)
    [] id = "INITIALIZE" -> MMInitialize
    [] id = "DEFAULT_DATA_SET" -> MMDefaultDataSet
    [] id = "CURRENT_DATA_SET" -> MMCurrentDataSet
    [] id = "PARENT_DATA_SET" -> MMParentDataSet
    [] id = "TIME_PROPERTIES_DATA_SET" -> MMTimePropertiesDataSet
    [] id = "PORT_DATA_SET" -> MMPortDataSet
    [] id = "PRIORITY1" -> MMPriority1
    [] id = "PRIORITY2" -> MMPriority2
    [] id = "DOMAIN" -> MMDomain
    [] id = "SLAVE_ONLY" -> MMSlaveOnly
    [] id = "LOG_ANNOUNCE_INTERVAL" -> MMLogAnnounceInterval
    [] id = "ANNOUNCE_RECEIPT_TIMEOUT" -> MMAnnounceReceiptTimeout
    [] id = "LOG_SYNC_INTERVAL" -> MMLogSyncInterval
    [] id = "VERSION_NUMBER" -> MMVersionNumber
    [] id = "CLOCK_ACCURACY" -> MMClockAccuracy
    [] id = "UTC_PROPERTIES" -> MMUtcProperties
    [] id = "TRACEABILITY_PROPERTIES" -> MMTraceabilityProperties
    [] id = "DELAY_MECHANISM" -> MMDelayMechanism
    [] id = "LOG_MIN_PDELAY_REQ_INTERVAL" -> MMLogMinPdelayReqInterval
    [] OTHER -> <<>>

-----------------------------------------------------------------------------
(* Management messages; initOutgoingMsgManagement() sets the flags and the  *)
(* correction to zero.                                                     *)

MsgHeader(flags, correction) ==
  UInteger8("messageType") \o UInteger8("versionPTP") \o UInteger16("messageLength")
  \o UInteger8("domainNumber") \o Zeros(1) \o flags \o correction \o Zeros(4)
  \o PortIdentity("sourcePortIdentity") \o UInteger16("sequenceId")
  \o UInteger8("controlField") \o UInteger8("logMessageInterval")

Management(header) ==
  header \o PortIdentity("targetPortIdentity") \o UInteger8("startingBoundaryHops")
  \o UInteger8("boundaryHops") \o UInteger8("actionField") \o Zeros(1)

ManagementTLV ==
  UInteger16("tlvType") \o UInteger16("lengthField") \o UInteger16("managementId")

packMsgManagement == Management(MsgHeader(Zeros(2), Zeros(8)))
unpackMsgManagement ==
  Management(MsgHeader(UInteger8("flagField0") \o UInteger8("flagField1"),
                       Integer64("correctionField")))
=============================================================================

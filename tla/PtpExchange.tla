----------------------------- MODULE PtpExchange -----------------------------
(***************************************************************************)
(* How a port that measures end to end pairs its time stamps: Sync and     *)
(* FollowUp, DelayReq and DelayResp, between one port and the masters it   *)
(* may follow, over a network that loses, duplicates and reorders.         *)
(*                                                                         *)
(* A time stamp is represented by the transmission it was taken of, so two *)
(* stamps belong together exactly when they are equal.  Transmissions are  *)
(* counted without bound; the messages carry the count modulo SeqSize.     *)
(* When a port follows whom, and when its timers expire, is PtpPort's      *)
(* subject: here both may happen at any time.                              *)
(***************************************************************************)
EXTENDS Integers, Sequences, FiniteSets, Functions

CONSTANTS
  SeqSize,          \* how many sequence numbers there are: 2^16 in the code
  Masters,
  LossyLoopback,    \* may the event socket overflow and lose an own request?
  MaxIssued,        \* bound: Syncs and DelayReqs issued, all ports together
  MaxInFlight       \* bound: messages under way at a time

ASSUME SizesAssumption ==
  /\ {MaxIssued, MaxInFlight} \subseteq Nat
  /\ LossyLoopback \in BOOLEAN

ASSUME SeqSizeAssumption == SeqSize \in Nat \ {0, 1}

\* The sequence numbers (UInteger16 in the code), and that of the k-th transmission.
Seqno == 0..(SeqSize - 1)
Number(k) == k % SeqSize

\* The time stamp of a Sync.  A request's is its transmission, or None when
\* clearTime() has set it to zero.
SyncStamp == [master : Masters, of : Nat]
None == -1

\* What updateOffset() subtracts; and what updateDelay() does, with the master
\* that answered the request.
Offset == [sent : SyncStamp, received : SyncStamp]
Delay == [sent : Nat \cup {None}, received : Nat, master : Masters]

Message ==
  [type : {"Sync", "FollowUp", "DelayReq", "DelayResp"},
   master : Masters, id : Seqno, of : Nat]

VARIABLES
  portState,
  parent,
  waitingForFollow, recvSyncSequenceId,
  sync_receive_time,        \* {} until the first Sync
  requests,                 \* DelayReqs issued; sentDelayReqSequenceId is its Number
  waitingForDelayResp, delay_req_send_time,
  looped,                   \* own DelayReqs in the port's event socket
  offset_first_updated,
  delayMS,                  \* the master delayMS was computed for, {} when cleared
  newest,                   \* history: the last request measured
  offset, delay,            \* the difference the last step computed, else {}
  syncs,                    \* of each master: the Syncs issued, and those of
  ownSyncs,                 \* them in its own event socket
  net                       \* messages under way

following == <<portState, parent>>
syncs_received == <<waitingForFollow, recvSyncSequenceId, sync_receive_time>>
request == <<waitingForDelayResp, delay_req_send_time>>
servo == <<offset_first_updated, delayMS, newest>>
computed == <<offset, delay>>
masters == <<syncs, ownSyncs>>
vars == <<following, syncs_received, requests, request, looped, servo, computed,
          masters, net>>

States == {"LISTENING", "SLAVE", "FAULTY"}      \* LISTENING: any other state

Init ==
  /\ portState = "LISTENING"
  /\ parent \in Masters
  /\ waitingForFollow = FALSE
  /\ recvSyncSequenceId = 0
  /\ sync_receive_time = {}
  /\ requests = 0
  /\ waitingForDelayResp = FALSE
  /\ delay_req_send_time = None
  /\ looped = <<>>
  /\ offset_first_updated = FALSE
  /\ delayMS = {}
  /\ newest = None
  /\ offset = {}
  /\ delay = {}
  /\ syncs = [m \in Masters |-> 0]
  /\ ownSyncs = [m \in Masters |-> <<>>]
  /\ net = {}

-----------------------------------------------------------------------------
(* The network *)

ComputesNothing == offset' = {} /\ delay' = {}

\* The messages of taken have been read, but may arrive again; those of sent
\* leave, and some of them are lost.
Travel(taken, sent) ==
  \E again \in SUBSET taken, lost \in SUBSET sent :
    /\ net' = (net \ (taken \ again)) \cup (sent \ lost)
    /\ Cardinality(net') <= MaxInFlight

\* A message that is lost on its way, or that no handler acts upon.
Vanish ==
  /\ \E msg \in net : net' = net \ {msg}
  /\ ComputesNothing
  /\ UNCHANGED <<following, syncs_received, requests, request, looped, servo,
                 masters>>

\* A sequence number comes round again only when nothing that carries it is
\* left: there are 65536 of them, and at most a few are issued in a second.
RequestNumberFree ==
  \A msg \in net :
    msg.type \in {"DelayReq", "DelayResp"} => msg.id # Number(requests)

SyncNumberFree(m) ==
  /\ \A msg \in net :
       msg.type \in {"Sync", "FollowUp"} /\ msg.master = m =>
         msg.id # Number(syncs[m])
  /\ waitingForFollow /\ (\E t \in sync_receive_time : t.master = m) =>
       recvSyncSequenceId # Number(syncs[m])

-----------------------------------------------------------------------------
(* Changes of the port's state and of its parent *)

\* initClock(), of what is modelled here.
initClock ==
  /\ offset_first_updated' = FALSE
  /\ delayMS' = {}
  /\ UNCHANGED newest

\* s1() on another master's data set, by a decision that leaves the port SLAVE:
\* no toState(), so nothing of the old parent's is cleared.
ChangeParent ==
  /\ portState = "SLAVE"
  /\ \E m \in Masters \ {parent} : parent' = m
  /\ ComputesNothing
  /\ UNCHANGED <<portState, syncs_received, requests, request, looped, servo,
                 masters, net>>

\* s1() and toState(PTP_SLAVE).
EnterSlave ==
  /\ portState = "LISTENING"
  /\ portState' = "SLAVE"
  /\ parent' \in Masters
  /\ initClock
  /\ waitingForFollow' = FALSE
  /\ waitingForDelayResp' = FALSE
  /\ delay_req_send_time' = None
  /\ ComputesNothing
  /\ UNCHANGED <<recvSyncSequenceId, sync_receive_time, requests, looped, masters,
                 net>>

\* The announce receipt timeout, also of a port just declared faulty.
LeaveSlave ==
  /\ portState \in {"SLAVE", "FAULTY"}
  /\ portState' = "LISTENING"
  /\ ComputesNothing
  /\ UNCHANGED <<parent, syncs_received, requests, request, looped, servo, masters,
                 net>>

\* doInit() of a faulty port: new sockets, the counters as they were.
doInit ==
  /\ portState = "FAULTY"
  /\ portState' = "LISTENING"
  /\ initClock
  /\ looped' = <<>>
  /\ ComputesNothing
  /\ UNCHANGED <<parent, syncs_received, requests, request, masters, net>>

-----------------------------------------------------------------------------
(* Sync and FollowUp *)

MayIssue == requests + FoldFunction(+, 0, syncs) < MaxIssued

\* A master drains its event socket between two Syncs.
issueSync(m) ==
  /\ MayIssue
  /\ SyncNumberFree(m)
  /\ ownSyncs[m] = <<>>
  /\ syncs' = [syncs EXCEPT ![m] = @ + 1]
  /\ ownSyncs' = [ownSyncs EXCEPT ![m] = Append(@, syncs[m])]
  /\ Travel({}, {[type |-> "Sync", master |-> m, id |-> Number(syncs[m]),
                  of |-> syncs[m]]})
  /\ ComputesNothing
  /\ UNCHANGED <<following, syncs_received, requests, request, looped, servo>>

\* The master receives its own Sync: the FollowUp has that one's send time, and
\* the number before the next to be used.
issueFollowup(m) ==
  /\ ownSyncs[m] # <<>>
  /\ ownSyncs' = [ownSyncs EXCEPT ![m] = Tail(@)]
  /\ Travel({}, {[type |-> "FollowUp", master |-> m,
                  id |-> Number(syncs[m] - 1), of |-> Head(ownSyncs[m])]})
  /\ ComputesNothing
  /\ UNCHANGED <<following, syncs_received, requests, request, looped, servo,
                 syncs>>

\* A message of the parent's, to a slave.
FromParent(msg) == portState = "SLAVE" /\ msg.master = parent

handleSync(msg) ==
  /\ msg.type = "Sync"
  /\ FromParent(msg)
  /\ sync_receive_time' = {[master |-> msg.master, of |-> msg.of]}
  /\ recvSyncSequenceId' = msg.id
  /\ waitingForFollow' = TRUE
  /\ Travel({msg}, {})
  /\ ComputesNothing
  /\ UNCHANGED <<following, requests, request, looped, servo, masters>>

\* Faulty variant: the general socket is always looked at.
AnySocket == TRUE

\* The general socket is looked at only when the event socket is empty.
GeneralSocket == looped = <<>>

\* updateOffset(), then updateClock(), which may step the clock and leave the
\* port faulty.
updateOffset(send_time) ==
  /\ offset' = {[sent |-> send_time, received |-> t] : t \in sync_receive_time}
  /\ delay' = {}
  /\ delayMS' = {send_time.master}
  /\ offset_first_updated' = TRUE
  /\ portState' \in {"SLAVE", "FAULTY"}
  /\ UNCHANGED <<parent, newest>>

\* Faulty variant: any FollowUp of the parent will do.
handleFollowUpUnnumbered(msg) ==
  /\ msg.type = "FollowUp" /\ GeneralSocket
  /\ FromParent(msg)
  /\ waitingForFollow
  /\ waitingForFollow' = FALSE
  /\ updateOffset([master |-> msg.master, of |-> msg.of])
  /\ Travel({msg}, {})
  /\ UNCHANGED <<recvSyncSequenceId, sync_receive_time, requests, request, looped,
                 masters>>

handleFollowUp(msg) ==
  /\ msg.type = "FollowUp" /\ GeneralSocket
  /\ FromParent(msg)
  /\ waitingForFollow /\ recvSyncSequenceId = msg.id
  /\ waitingForFollow' = FALSE
  /\ updateOffset([master |-> msg.master, of |-> msg.of])
  /\ Travel({msg}, {})
  /\ UNCHANGED <<recvSyncSequenceId, sync_receive_time, requests, request, looped,
                 masters>>

-----------------------------------------------------------------------------
(* DelayReq and DelayResp *)

\* sentDelayReqSequenceId - 1 is an int: -1 when the counter has just wrapped.
Expected == Number(requests) - 1

\* Multicast to every master and, by loopback, to the port's own event socket.
\* An expiration latched earlier makes other states than SLAVE send one as well.
issueDelayReq ==
  /\ MayIssue
  /\ RequestNumberFree
  /\ Travel({}, {[type |-> "DelayReq", master |-> m, id |-> Number(requests),
                  of |-> requests] : m \in Masters})
  /\ requests' = requests + 1
  /\ \/ looped' = Append(looped, requests)
     \/ LossyLoopback /\ UNCHANGED looped
  /\ ComputesNothing
  /\ UNCHANGED <<following, syncs_received, request, servo, masters>>

\* The port receives its own request, with the time it left.
handleDelayReq ==
  /\ portState # "FAULTY"
  /\ looped # <<>>
  /\ looped' = Tail(looped)
  /\ IF portState = "SLAVE" /\ Number(Head(looped)) = Expected
       THEN /\ waitingForDelayResp' = TRUE
            /\ delay_req_send_time' = Head(looped)
       ELSE UNCHANGED request
  /\ ComputesNothing
  /\ UNCHANGED <<following, syncs_received, requests, servo, masters, net>>

\* A master receives a request and answers with its receive time.
issueDelayResp(msg) ==
  /\ msg.type = "DelayReq"
  /\ Travel({msg}, {[type |-> "DelayResp", master |-> msg.master, id |-> msg.id,
                     of |-> msg.of]})
  /\ ComputesNothing
  /\ UNCHANGED <<following, syncs_received, requests, request, looped, servo,
                 masters>>

\* updateDelay() on the answer resp: no delay before the first offset.
updateDelay(resp) ==
  /\ IF offset_first_updated
       THEN /\ delay' = {[sent |-> delay_req_send_time, received |-> resp.of,
                          master |-> resp.master]}
            /\ newest' = resp.of
       ELSE /\ delay' = {}
            /\ UNCHANGED newest
  /\ offset' = {}
  /\ UNCHANGED <<offset_first_updated, delayMS>>

\* Faulty variant: the port goes on waiting.
handleDelayRespWaiting(msg) ==
  /\ msg.type = "DelayResp" /\ GeneralSocket
  /\ FromParent(msg)
  /\ msg.id = Expected
  /\ waitingForDelayResp
  /\ updateDelay(msg)
  /\ Travel({msg}, {})
  /\ UNCHANGED <<following, syncs_received, requests, request, looped, masters>>

handleDelayResp(msg) ==
  /\ msg.type = "DelayResp" /\ GeneralSocket
  /\ FromParent(msg)
  /\ msg.id = Expected
  /\ waitingForDelayResp
  /\ waitingForDelayResp' = FALSE
  /\ updateDelay(msg)
  /\ Travel({msg}, {})
  /\ UNCHANGED <<following, syncs_received, requests, delay_req_send_time, looped,
                 masters>>

-----------------------------------------------------------------------------
Next ==
  \/ Vanish
  \/ ChangeParent
  \/ EnterSlave
  \/ LeaveSlave
  \/ doInit
  \/ \E m \in Masters : issueSync(m)
  \/ \E m \in Masters : issueFollowup(m)
  \/ \E msg \in net : handleSync(msg)
  \/ \E msg \in net : handleFollowUp(msg)
  \/ issueDelayReq
  \/ handleDelayReq
  \/ \E msg \in net : issueDelayResp(msg)
  \/ \E msg \in net : handleDelayResp(msg)

Spec == Init /\ [][Next]_vars

-----------------------------------------------------------------------------
(* Properties *)

\* Every variable keeps to its type.
TypeOK ==
  /\ portState \in States
  /\ parent \in Masters
  /\ waitingForFollow \in BOOLEAN
  /\ recvSyncSequenceId \in Seqno
  /\ sync_receive_time \subseteq SyncStamp
  /\ requests \in Nat
  /\ waitingForDelayResp \in BOOLEAN
  /\ delay_req_send_time \in Nat \cup {None}
  /\ looped \in Seq(Nat)
  /\ offset_first_updated \in BOOLEAN
  /\ delayMS \subseteq Masters
  /\ newest \in Nat \cup {None}
  /\ offset \subseteq Offset
  /\ delay \subseteq Delay
  /\ syncs \in [Masters -> Nat]
  /\ ownSyncs \in [Masters -> Seq(Nat)]
  /\ net \subseteq Message

\* A delay is the difference of two time stamps of one request: neither a late
\* or repeated DelayResp, nor a request overtaken by the next one, nor a change
\* of state or parent in between, nor the counter's wrap pairs the receive time
\* of a request with the send time of another.
DelayPaired == \A d \in delay : d.sent = d.received

\* An offset computed from one master's messages is the difference of two time
\* stamps of one Sync, however Syncs and FollowUps are lost and reordered.
OffsetPaired ==
  \A o \in offset : o.sent.master = o.received.master => o.sent = o.received

\* No request is measured twice, and none after a newer one: an answer repeated
\* by the network, or given by two masters in turn, counts once.
DelaysGoForward == [][\A d \in delay' : d.received > newest]_vars

-----------------------------------------------------------------------------
(* What a comment in the source says of the program, and the code does not do. *)

\* servo.c:440: "Offset must have been computed at least one time before
\* computing end to end delay", which is half the way there and back again:
\* between the port and one master.
DelayOfOneMaster == \A d \in delay : delayMS = {d.master}
=============================================================================

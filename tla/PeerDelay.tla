------------------------------ MODULE PeerDelay ------------------------------
(***************************************************************************)
(* How ports that measure peer to peer pair the four time stamps of an     *)
(* exchange: PDelayReq, PDelayResp and its FollowUp, multicast among the   *)
(* ports of a link that loses and reorders messages.                       *)
(*                                                                         *)
(* As in PtpExchange a time stamp is represented by the transmission it    *)
(* was taken of.  Every port counts its requests and its responses without *)
(* bound; the messages carry the count of requests modulo SeqSize.  All    *)
(* ports are two-step, as TWO_STEP_FLAG makes every port of this program.  *)
(***************************************************************************)
EXTENDS Integers, Sequences, FiniteSets, Functions

CONSTANTS
  SeqSize,          \* how many sequence numbers there are: 2^16 in the code
  Ports,
  MaxRequests,      \* bound: PDelayReqs issued, all ports together
  MaxInFlight,      \* bound: messages under way at a time
  MaxWaiting,       \* bound: event messages waiting at a port for another one to arrive
  MaxChanges        \* bound: changes of state, all ports together

ASSUME PeerDelayAssumption ==
  /\ {MaxRequests, MaxInFlight, MaxWaiting, MaxChanges} \subseteq Nat

ASSUME SeqSizeAssumption == SeqSize \in Nat \ {0, 1}

\* The sequence numbers (UInteger16 in the code), and that of the k-th transmission.
Seqno == 0..(SeqSize - 1)
Number(k) == k % SeqSize

\* DEAF stands for the states that disregard the exchange: INITIALIZING, FAULTY,
\* DISABLED, UNCALIBRATED and LISTENING.
States == {"SLAVE", "MASTER", "PASSIVE", "DEAF"}
Measuring == {"SLAVE", "MASTER"}

\* The of-th request, or response, that a port sends.
Transmission == [port : Ports, of : Nat]

\* A time stamp is the set of the one transmission it is of; {} has been cleared
\* by clearTime(), which sets it to zero.
Cleared == {}
Stamps == SUBSET Transmission

\* request: the one answered; response: the answer, Cleared in a request.
Message ==
  [type : {"PDelayReq", "PDelayResp", "PDelayRespFollowUp"}, from : Ports,
   to : Ports, id : Seqno, request : Transmission, response : Stamps]

\* What updatePeerDelay() subtracts: the send and receive times of a request,
\* and those of a response.
Measurement ==
  [reqSent : Stamps, reqReceived : Stamps, respSent : Stamps, respReceived : Stamps]

VARIABLES
  portState,
  sentPDelayReqSequenceId,  \* the requests issued; the variable is the Number
  responses,                \* history: the responses issued
  pdelay_req_send_time,
  pdelay_resp_receive_time,
  pdelay_req_receive_time,
  recvPDelayRespSequenceId,
  PdelayReqHeader,          \* {} or the request last handled, of which a FollowUp
                            \* takes the number and the port
  eventSock,                \* of each port: the event messages waiting to be read,
                            \* received ones and its own looped back, in one queue
  net,
  measured,                 \* of each port: what its last step subtracted, if anything
  steady,                   \* history: no change of state since the last request
  crowded,                  \* history: the last request arrived behind another one
  changes

stamps == <<pdelay_req_send_time, pdelay_resp_receive_time, pdelay_req_receive_time,
            recvPDelayRespSequenceId>>
counts == <<sentPDelayReqSequenceId, responses>>
history == <<steady, crowded, changes>>
vars == <<portState, counts, stamps, PdelayReqHeader, eventSock, net, measured, history>>

Init ==
  /\ portState = [p \in Ports |-> "DEAF"]
  /\ sentPDelayReqSequenceId = [p \in Ports |-> 0]
  /\ responses = [p \in Ports |-> 0]
  /\ pdelay_req_send_time = [p \in Ports |-> Cleared]
  /\ pdelay_resp_receive_time = [p \in Ports |-> Cleared]
  /\ pdelay_req_receive_time = [p \in Ports |-> Cleared]
  /\ recvPDelayRespSequenceId = [p \in Ports |-> 0]
  /\ PdelayReqHeader = [p \in Ports |-> {}]
  /\ eventSock = [p \in Ports |-> <<>>]
  /\ net = {}
  /\ measured = [p \in Ports |-> {}]
  /\ steady = [p \in Ports |-> FALSE]
  /\ crowded = [p \in Ports |-> FALSE]
  /\ changes = 0

-----------------------------------------------------------------------------
(* The link *)

MeasuresNothing == measured' = [p \in Ports |-> {}]

\* The messages of sent leave, and some of them are lost; taken has been read.
Travel(taken, sent) ==
  \E lost \in SUBSET sent :
    /\ net' = (net \ taken) \cup (sent \ lost)
    /\ Cardinality(net') <= MaxInFlight

Sent(p, q, type, id, request, response) ==
  [type |-> type, from |-> p, to |-> q, id |-> id, request |-> request,
   response |-> response]

\* Multicast to the other ports; general messages reach the sender's own general
\* socket as well.
Multicast(p, receivers, type, id, request, response) ==
  {Sent(p, q, type, id, request, response) : q \in receivers}

\* The copy of a sent event message in the sender's own event socket.
Looped(p, type, id, request, response) == Sent(p, p, type, id, request, response)

Vanish ==
  /\ \E msg \in net : net' = net \ {msg}
  /\ MeasuresNothing
  /\ UNCHANGED <<portState, counts, stamps, PdelayReqHeader, eventSock, history>>

\* What waits at p of a type: of other ports, and looped back.
Received(p, type) ==
  {i \in DOMAIN eventSock[p] : eventSock[p][i].type = type /\ eventSock[p][i].from # p}
Own(p, type) ==
  {i \in DOMAIN eventSock[p] : eventSock[p][i].type = type /\ eventSock[p][i].from = p}

\* The last request issued.
LastRequest(p) == [port |-> p, of |-> sentPDelayReqSequenceId[p] - 1]

\* An event message reaches the socket of its receiver, behind what waits there.
Arrive(msg) ==
  /\ msg.type # "PDelayRespFollowUp"
  /\ Len(eventSock[msg.to]) < MaxWaiting
  /\ net' = net \ {msg}
  /\ eventSock' = [eventSock EXCEPT ![msg.to] = Append(@, msg)]
  /\ crowded' =
       IF msg.request = LastRequest(msg.from) /\ Received(msg.to, "PDelayReq") # {}
         THEN [crowded EXCEPT ![msg.from] = TRUE]
         ELSE crowded
  /\ MeasuresNothing
  /\ UNCHANGED <<portState, counts, stamps, PdelayReqHeader, steady, changes>>

\* A sequence number comes round again only when nothing that carries it, or is
\* going to, is left, and not every response of a whole round has been lost.
NumberFree(p) ==
  LET next == Number(sentPDelayReqSequenceId[p])
  IN /\ \A msg \in net : msg.request.port = p => msg.id # next
     /\ \A q \in Ports :
          /\ \A i \in Received(q, "PDelayReq") \cup Received(q, "PDelayResp") :
               eventSock[q][i].request.port = p => eventSock[q][i].id # next
          /\ Own(q, "PDelayResp") # {} =>
               \A header \in PdelayReqHeader[q] :
                 header.port = p => Number(header.of) # next
     /\ sentPDelayReqSequenceId[p] > 0 => recvPDelayRespSequenceId[p] # next

\* Each pass reads one message: the first of the event socket, or one of the
\* general socket when the event socket is empty.
Reads(p, type) == eventSock[p] # <<>> /\ Head(eventSock[p]).type = type
SocketEmpty(p) == eventSock[p] = <<>>

\* The first is taken, and what handling it loops back goes to the end.
ReadEvent(p, own) == eventSock' = [eventSock EXCEPT ![p] = Tail(@) \o own]

-----------------------------------------------------------------------------
(* Changes of state: PtpPort says when *)

Clear(stamp, p) == stamp' = [stamp EXCEPT ![p] = Cleared]

\* toState(), of what is modelled here: only entering SLAVE clears the stamps,
\* and nothing clears the number of the last response.  A socket closed and opened
\* again on the way loses what waits there: Disregard, while the port is DEAF.
toState(p) ==
  /\ changes < MaxChanges
  /\ changes' = changes + 1
  /\ \E s \in States \ {portState[p]} : portState' = [portState EXCEPT ![p] = s]
  /\ steady' = [steady EXCEPT ![p] = FALSE]
  /\ IF portState'[p] = "SLAVE"
       THEN /\ Clear(pdelay_req_send_time, p)
            /\ Clear(pdelay_req_receive_time, p)
            /\ Clear(pdelay_resp_receive_time, p)
       ELSE UNCHANGED <<pdelay_req_send_time, pdelay_req_receive_time,
                        pdelay_resp_receive_time>>
  /\ MeasuresNothing
  /\ UNCHANGED <<counts, recvPDelayRespSequenceId, PdelayReqHeader, eventSock, net,
                 crowded>>

\* Is the response for the request that will be sent next, and for this port?
Unmatched(p, msg) ==
  ~ (msg.id = Number(sentPDelayReqSequenceId[p]) /\ msg.request.port = p)

\* handle() of an event message that the state, or the match, says to leave alone.
Disregard(p) ==
  /\ eventSock[p] # <<>>
  /\ \/ portState[p] = "DEAF"
     \/ Head(eventSock[p]).type = "PDelayResp" /\ portState[p] \notin Measuring
     \/ /\ Head(eventSock[p]).type = "PDelayResp" /\ Head(eventSock[p]).from # p
        /\ ~Unmatched(p, Head(eventSock[p]))
  /\ ReadEvent(p, <<>>)
  /\ MeasuresNothing
  /\ UNCHANGED <<portState, counts, stamps, PdelayReqHeader, net, history>>

-----------------------------------------------------------------------------
(* The requester *)

\* PDELAYREQ_INTERVAL_TIMER, which an expiration latched before lets other states
\* report as well: the request is multicast and looped back.
issuePDelayReq(p) ==
  /\ FoldFunction(+, 0, sentPDelayReqSequenceId) < MaxRequests
  /\ NumberFree(p)
  /\ LET this == [port |-> p, of |-> sentPDelayReqSequenceId[p]]
     IN /\ Travel({}, Multicast(p, Ports \ {p}, "PDelayReq", Number(this.of), this,
                                Cleared))
        /\ eventSock' = [eventSock EXCEPT ![p] =
             Append(@, Looped(p, "PDelayReq", Number(this.of), this, Cleared))]
  /\ sentPDelayReqSequenceId' = [sentPDelayReqSequenceId EXCEPT ![p] = @ + 1]
  /\ steady' = [steady EXCEPT ![p] = TRUE]
  /\ crowded' = [crowded EXCEPT ![p] = FALSE]
  /\ MeasuresNothing
  /\ UNCHANGED <<portState, responses, stamps, PdelayReqHeader, changes>>

\* handlePDelayReq() of an own request: the time it left.
OwnPDelayReq(p) ==
  /\ Reads(p, "PDelayReq") /\ Head(eventSock[p]).from = p
  /\ portState[p] # "DEAF"
  /\ pdelay_req_send_time' =
       [pdelay_req_send_time EXCEPT ![p] = {Head(eventSock[p]).request}]
  /\ ReadEvent(p, <<>>)
  /\ MeasuresNothing
  /\ UNCHANGED <<portState, counts, pdelay_resp_receive_time,
                 pdelay_req_receive_time, recvPDelayRespSequenceId,
                 PdelayReqHeader, net, history>>

\* handlePDelayResp() of another port's response.
handlePDelayResp(p) ==
  /\ Reads(p, "PDelayResp") /\ Head(eventSock[p]).from # p
  /\ portState[p] \in Measuring
  /\ LET msg == Head(eventSock[p])
     IN /\ Unmatched(p, msg)
        /\ pdelay_resp_receive_time' = [pdelay_resp_receive_time EXCEPT ![p] = msg.response]
        /\ pdelay_req_receive_time' = [pdelay_req_receive_time EXCEPT ![p] = {msg.request}]
        /\ recvPDelayRespSequenceId' = [recvPDelayRespSequenceId EXCEPT ![p] = msg.id]
  /\ ReadEvent(p, <<>>)
  /\ MeasuresNothing
  /\ UNCHANGED <<portState, counts, pdelay_req_send_time, PdelayReqHeader, net, history>>

\* updatePeerDelay() with the send time of the FollowUp's response.
updatePeerDelay(p, msg) ==
  measured' = [q \in Ports |->
    IF q = p THEN {[reqSent |-> pdelay_req_send_time[p],
                    reqReceived |-> pdelay_req_receive_time[p],
                    respSent |-> msg.response,
                    respReceived |-> pdelay_resp_receive_time[p]]}
    ELSE {}]

\* Faulty variant: the number of the response is not compared.
AnswersLastUnchecked(p, msg) == msg.id = Number(sentPDelayReqSequenceId[p]) - 1

\* Does the FollowUp carry the number of the last request and that of the last
\* response?  sentPDelayReqSequenceId - 1 is an int: -1 when it has just wrapped.
AnswersLast(p, msg) ==
  /\ msg.id = Number(sentPDelayReqSequenceId[p]) - 1
  /\ msg.id = recvPDelayRespSequenceId[p]

\* From whichever port, the own one included.
handlePDelayRespFollowUp(p, msg) ==
  /\ msg.type = "PDelayRespFollowUp" /\ msg.to = p /\ SocketEmpty(p)
  /\ portState[p] \in Measuring
  /\ AnswersLast(p, msg)
  /\ updatePeerDelay(p, msg)
  /\ Travel({msg}, {})
  /\ UNCHANGED <<portState, counts, stamps, PdelayReqHeader, eventSock, history>>

-----------------------------------------------------------------------------
(* The responder *)

\* handlePDelayReq() of another port's request, and issuePDelayResp(): the header
\* kept is overwritten, whether or not the last response has been looped back.
handlePDelayReq(p) ==
  /\ Reads(p, "PDelayReq") /\ Head(eventSock[p]).from # p
  /\ portState[p] # "DEAF"
  /\ LET msg == Head(eventSock[p])
         this == [port |-> p, of |-> responses[p]]
     IN /\ PdelayReqHeader' = [PdelayReqHeader EXCEPT ![p] = {msg.request}]
        /\ Travel({}, Multicast(p, Ports \ {p}, "PDelayResp", msg.id, msg.request, {this}))
        /\ ReadEvent(p, <<Looped(p, "PDelayResp", msg.id, msg.request, {this})>>)
  /\ responses' = [responses EXCEPT ![p] = @ + 1]
  /\ MeasuresNothing
  /\ UNCHANGED <<portState, sentPDelayReqSequenceId, stamps, history>>

\* handlePDelayResp() of an own response, and issuePDelayRespFollowUp(): its send
\* time, for the request last handled.
OwnPDelayResp(p) ==
  /\ Reads(p, "PDelayResp") /\ Head(eventSock[p]).from = p
  /\ portState[p] \in Measuring
  /\ \E header \in PdelayReqHeader[p] :
       Travel({}, Multicast(p, Ports, "PDelayRespFollowUp", Number(header.of), header,
                            Head(eventSock[p]).response))
  /\ ReadEvent(p, <<>>)
  /\ MeasuresNothing
  /\ UNCHANGED <<portState, counts, stamps, PdelayReqHeader, history>>

-----------------------------------------------------------------------------
Next ==
  \/ Vanish
  \/ \E msg \in net : Arrive(msg)
  \/ \E p \in Ports : toState(p)
  \/ \E p \in Ports : Disregard(p)
  \/ \E p \in Ports : issuePDelayReq(p)
  \/ \E p \in Ports : OwnPDelayReq(p)
  \/ \E p \in Ports : handlePDelayReq(p)
  \/ \E p \in Ports : OwnPDelayResp(p)
  \/ \E p \in Ports : handlePDelayResp(p)
  \/ \E p \in Ports, msg \in net : handlePDelayRespFollowUp(p, msg)

Spec == Init /\ [][Next]_vars

-----------------------------------------------------------------------------
(* Properties *)

\* Every variable keeps to its type.
TypeOK ==
  /\ portState \in [Ports -> States]
  /\ sentPDelayReqSequenceId \in [Ports -> Nat]
  /\ responses \in [Ports -> Nat]
  /\ pdelay_req_send_time \in [Ports -> Stamps]
  /\ pdelay_resp_receive_time \in [Ports -> Stamps]
  /\ pdelay_req_receive_time \in [Ports -> Stamps]
  /\ recvPDelayRespSequenceId \in [Ports -> Seqno]
  /\ PdelayReqHeader \in [Ports -> Stamps]
  /\ eventSock \in [Ports -> Seq(Message)]
  /\ net \subseteq Message
  /\ measured \in [Ports -> SUBSET Measurement]
  /\ steady \in [Ports -> BOOLEAN]
  /\ crowded \in [Ports -> BOOLEAN]
  /\ changes \in Nat

\* On a link of two ports a measurement that is taken of the peer's FollowUp, by
\* a port that has not changed its state since its request and has had a response
\* since it last became slave, is of that request, and the stamps of the response
\* are of one response, whatever is lost, late or overtaken.  Only where the request
\* reached the peer's socket behind one that the peer had not read yet, so that the
\* header kept is not of the response looped back, the send time is that of an
\* earlier response: never of a later one.
PeerDelayPaired ==
  \A p \in Ports : \A d \in measured[p] :
    /\ steady[p]
    /\ \A s \in d.respSent : s.port # p
    /\ d.reqReceived # Cleared
    => /\ d.reqSent = d.reqReceived
       /\ \/ d.respSent = d.respReceived
          \/ /\ crowded[p]
             /\ \A s \in d.respSent, t \in d.respReceived : s.of < t.of

-----------------------------------------------------------------------------
(* What a message in the source says of the program, and the code does not do. *)

\* protocol.c:1433: "Pdelayresp doesn't match with the PdelayReq", after which the
\* response is left alone: a port measures its own requests.
MeasuresOwnRequest ==
  \A p \in Ports : \A d \in measured[p] :
    \A t \in d.reqReceived : t.port = p
=============================================================================

-------------------------- MODULE PeerDelay_proofs --------------------------
(***************************************************************************)
(* Proofs about PeerDelay, for two ports and any number of sequence        *)
(* numbers and bounds.  The argument: what is under way, waits or is       *)
(* stored of an exchange is of the last SeqSize requests of its port, for  *)
(* a number comes round again only when nothing carries it any more        *)
(* (ExchangeInv), so equal numbers mean equal requests; a request waits in *)
(* one place and is answered once (WaitingInv, AnswersInv), its FollowUp   *)
(* is of no later response, and of its own if no other request waited      *)
(* before it where it arrived (AloneInv); and by the time a port reads its *)
(* general socket it has the send time of its last request, as the event   *)
(* socket comes first (RequestsInv).                                       *)
(***************************************************************************)
EXTENDS PeerDelay, TLAPS

-----------------------------------------------------------------------------
(* Sequence numbers: what equal ones say of the transmissions that carry them. *)

\* Only zero is a multiple of SeqSize nearer to zero than SeqSize.
LEMMA SmallMultiple ==
  ASSUME NEW d \in Int, -SeqSize < SeqSize * d, SeqSize * d < SeqSize
  PROVE  d = 0
<1>0. SeqSize \in Nat \ {0}
  BY SeqSizeAssumption
<1>1. CASE d >= 1
  <2>1. SeqSize * d >= SeqSize
    BY <1>0, <1>1, SMTT(30)
  <2>2. QED BY <1>0, <2>1, SMT
<1>2. CASE d <= -1
  <2>1. SeqSize * d <= -SeqSize
    BY <1>0, <1>2, SMTT(30)
  <2>2. QED BY <1>0, <2>1, SMT
<1>3. QED BY <1>1, <1>2, SMT

\* A transmission is a whole number of rounds and its sequence number.
LEMMA Rounds ==
  ASSUME NEW k \in Nat
  PROVE  /\ k = SeqSize * (k \div SeqSize) + (k % SeqSize)
         /\ k % SeqSize \in Seqno
         /\ k \div SeqSize \in Nat
<1>1. SeqSize \in Nat \ {0}
  BY SeqSizeAssumption
<1>2. QED BY <1>1, SMTT(30) DEF Seqno

LEMMA NumberType == \A k \in Int : Number(k) \in Seqno
<1>1. SeqSize \in Nat \ {0}
  BY SeqSizeAssumption
<1>2. QED BY <1>1, SMTT(30) DEF Number, Seqno

\* Two transmissions less than SeqSize apart that have the same number are one.
LEMMA SameNumber ==
  ASSUME NEW a \in Nat, NEW b \in Nat,
         a - b < SeqSize, b - a < SeqSize, Number(a) = Number(b)
  PROVE  a = b
<1> DEFINE d == (a \div SeqSize) - (b \div SeqSize)
<1>0. SeqSize \in Nat
  BY SeqSizeAssumption
<1>1. d \in Int
  BY Rounds
<1>2. a - b = SeqSize * d
  BY <1>0, Rounds, SMTT(30) DEF Number, Seqno
<1>3. -SeqSize < SeqSize * d /\ SeqSize * d < SeqSize
  BY <1>0, <1>2
<1>4. d = 0
  BY <1>1, <1>3, SmallMultiple
<1>5. SeqSize * d = 0
  BY <1>0, <1>4
<1>6. QED BY <1>2, <1>5

\* The number comes round again after SeqSize transmissions.
LEMMA NumberRecurs ==
  ASSUME NEW k \in Nat, k - SeqSize \in Nat
  PROVE  Number(k - SeqSize) = Number(k)
<1> DEFINE j == k - SeqSize
           r == (k % SeqSize) - (j % SeqSize)
           d == (k \div SeqSize) - (j \div SeqSize) - 1
<1>0. SeqSize \in Nat \ {0}
  BY SeqSizeAssumption
<1>1. d \in Int
  BY Rounds
<1>2. SeqSize * d = 0 - r
  BY <1>0, Rounds, SMTT(30) DEF Seqno
<1>3. -SeqSize < r /\ r < SeqSize /\ r \in Int
  BY <1>0, Rounds, SMT DEF Seqno
<1>4. d = 0
  BY <1>0, <1>1, <1>2, <1>3, SmallMultiple
<1>5. SeqSize * d = 0
  BY <1>0, <1>4
<1>6. r = 0
  BY <1>2, <1>3, <1>5
<1>7. k % SeqSize = j % SeqSize
  BY <1>0, <1>6, Rounds DEF Seqno
<1>8. QED BY <1>7 DEF Number

\* The number before the next one to be used is the last one's, unless the
\* counter has just wrapped.
LEMMA NumberBefore ==
  ASSUME NEW k \in Nat, Number(k) # 0, k # 0
  PROVE  Number(k - 1) = Number(k) - 1
<1> DEFINE j == k - 1
           r == (k % SeqSize) - (j % SeqSize) - 1
           d == (k \div SeqSize) - (j \div SeqSize)
<1>0. SeqSize \in Nat \ {0}
  BY SeqSizeAssumption
<1>1. d \in Int
  BY Rounds
<1>2. SeqSize * d = 0 - r
  BY <1>0, Rounds, SMTT(30) DEF Seqno
<1>3. -SeqSize < r /\ r < SeqSize /\ r \in Int
  BY <1>0, Rounds, SMT DEF Seqno, Number
<1>4. d = 0
  BY <1>0, <1>1, <1>2, <1>3, SmallMultiple
<1>5. SeqSize * d = 0
  BY <1>0, <1>4
<1>6. QED BY <1>2, <1>3, <1>5, Rounds DEF Number, Seqno

\* A number one below the next, of one of the last SeqSize transmissions, is
\* the last one's.
LEMMA ExpectedIsLast ==
  ASSUME NEW k \in Nat, NEW a \in Nat, a < k, k - a <= SeqSize,
         Number(a) = Number(k) - 1
  PROVE  /\ a = k - 1
         /\ Number(k) # 0
<1>0. SeqSize \in Nat \ {0}
  BY SeqSizeAssumption
<1>1. Number(a) >= 0 /\ Number(k) # 0
  BY <1>0, NumberType DEF Seqno
<1>2. Number(k - 1) = Number(a)
  BY <1>0, <1>1, NumberBefore
<1>3. k - 1 \in Nat /\ k - 1 - a < SeqSize /\ a - (k - 1) < SeqSize
  BY <1>0
<1>4. QED BY <1>1, <1>2, <1>3, SameNumber

-----------------------------------------------------------------------------
(* The invariant *)

\* The link of two ports.
TwoPorts == \E a, b : Ports = {a, b}

\* Is r one of the last SeqSize requests of its port?
Issued(r) == r.of < sentPDelayReqSequenceId[r.port]
InWindow(r) == Issued(r) /\ sentPDelayReqSequenceId[r.port] - r.of <= SeqSize

\* A request is on its way to the other port, or waits there; an answer is the
\* other port's and carries a stamp of it.
MessageInv(msg) ==
  /\ msg.id = Number(msg.request.of)
  /\ InWindow(msg.request)
  /\ msg.type = "PDelayReq" =>
       msg.from = msg.request.port /\ msg.to # msg.from /\ msg.response = Cleared
  /\ msg.type # "PDelayReq" =>
       /\ msg.from # msg.request.port
       /\ \E t \in Transmission : msg.response = {t} /\ t.port = msg.from
  /\ msg.type = "PDelayResp" => msg.to # msg.from

\* What port q has received, its own responses, and the header a FollowUp will be
\* made of while one of these waits.
SocketInv(q) ==
  /\ \A i \in Received(q, "PDelayReq") \cup Received(q, "PDelayResp") :
       MessageInv(eventSock[q][i])
  /\ \A i \in Own(q, "PDelayResp") :
       /\ Issued(eventSock[q][i].request)
       /\ \E t \in Transmission : /\ eventSock[q][i].response = {t}
                                  /\ t.port = q /\ t.of < responses[q]
  /\ \A h \in PdelayReqHeader[q] :
       h.port # q /\ (Own(q, "PDelayResp") # {} => InWindow(h))

\* The request whose receive time a port has been told is its own.
ToldInv(p) ==
  \A r \in pdelay_req_receive_time[p] :
    /\ pdelay_req_receive_time[p] = {r}
    /\ r.port = p /\ InWindow(r)
    /\ recvPDelayRespSequenceId[p] = Number(r.of)
    /\ \E t \in Transmission : pdelay_resp_receive_time[p] = {t} /\ t.port # p

ExchangeInv ==
  /\ \A msg \in net : MessageInv(msg)
  /\ \A p \in Ports : SocketInv(p) /\ ToldInv(p)

\* A request waits once.
WaitingInv ==
  \A q \in Ports : \A i \in Received(q, "PDelayReq") :
    /\ \A msg \in net :
         msg.type = "PDelayReq" => msg.request # eventSock[q][i].request
    /\ \A j \in Received(q, "PDelayReq") :
         eventSock[q][j].request = eventSock[q][i].request => i = j

\* Has r still to be handled by the other port?
Waits(r) ==
  \/ \E msg \in net : msg.type = "PDelayReq" /\ msg.request = r
  \/ \E q \in Ports : \E i \in Received(q, "PDelayReq") : eventSock[q][i].request = r

\* Is s the response to r, under way, waiting or read?
Responds(r, s) ==
  \/ \E msg \in net : msg.type = "PDelayResp" /\ msg.request = r /\ msg.response = s
  \/ \E q \in Ports : \E i \in Received(q, "PDelayResp") \cup Own(q, "PDelayResp") :
       eventSock[q][i].request = r /\ eventSock[q][i].response = s
  \/ \E p \in Ports :
       r \in pdelay_req_receive_time[p] /\ s = pdelay_resp_receive_time[p]

\* Does a FollowUp say of r that s was sent, or will one?
FollowsUp(r, s) ==
  \/ \E msg \in net :
       msg.type = "PDelayRespFollowUp" /\ msg.request = r /\ msg.response = s
  \/ \E q \in Ports : \E i \in Own(q, "PDelayResp") :
       r \in PdelayReqHeader[q] /\ s = eventSock[q][i].response

NotLater(s, t) == \A x \in s, y \in t : x.of <= y.of

\* The last request of its port, unless it arrived behind another.
Alone(r) == r = LastRequest(r.port) /\ ~crowded[r.port]

\* One response to a request, and a FollowUp of none after it.
AnswersInv ==
  /\ \A r, s, t : Responds(r, s) /\ Responds(r, t) => s = t
  /\ \A r, s : Waits(r) => ~Responds(r, s) /\ ~FollowsUp(r, s)
  /\ \A r, s, t : Responds(r, t) /\ FollowsUp(r, s) =>
       NotLater(s, t) /\ (Alone(r) => s = t)

\* Before such a request nothing waits that has still to be answered, and behind
\* it no response.
AloneInv ==
  \A q \in Ports : \A i \in Received(q, "PDelayReq") :
    Alone(eventSock[q][i].request) =>
      /\ \A j \in Received(q, "PDelayReq") : i <= j
      /\ \A j \in Own(q, "PDelayResp") : j < i

\* The last request looped back is the last one issued.
LastKnown(p) ==
  /\ \A i \in Own(p, "PDelayReq") :
       (\A j \in Own(p, "PDelayReq") : j <= i) =>
         eventSock[p][i].request = LastRequest(p)
  /\ Own(p, "PDelayReq") = {} => pdelay_req_send_time[p] = {LastRequest(p)}

\* A port that has been deaf may have missed it.
RequestsInv ==
  \A p \in Ports : steady[p] /\ portState[p] # "DEAF" => LastKnown(p)

Pairing == ExchangeInv /\ WaitingInv /\ AnswersInv /\ AloneInv
IInv == TypeOK /\ Pairing /\ RequestsInv /\ PeerDelayPaired

-----------------------------------------------------------------------------
(* Types *)

LEMMA SocketTyped ==
  ASSUME NEW q \in Seq(Message)
  PROVE  /\ q # <<>> => Head(q) \in Message /\ Tail(q) \in Seq(Message)
         /\ \A x \in Message : Append(q, x) \in Seq(Message)
         /\ q # <<>> => Tail(q) \o <<>> \in Seq(Message)
         /\ q # <<>> => \A x \in Message : Tail(q) \o <<x>> \in Seq(Message)
OBVIOUS

LEMMA SentTyped ==
  ASSUME NEW p \in Ports, NEW receivers \in SUBSET Ports,
         NEW type \in {"PDelayReq", "PDelayResp", "PDelayRespFollowUp"},
         NEW id \in Seqno, NEW request \in Transmission, NEW response \in Stamps
  PROVE  /\ Multicast(p, receivers, type, id, request, response) \subseteq Message
         /\ Looped(p, type, id, request, response) \in Message
BY DEF Multicast, Looped, Sent, Message

\* What is under way after a step was before it or is sent by it.
LEMMA TravelBounded ==
  ASSUME NEW taken, NEW sent, Travel(taken, sent)
  PROVE  net' \subseteq net \cup sent
BY DEF Travel

LEMMA InitTyped == Init => TypeOK
<1>1. SeqSize \in Nat \ {0}
  BY SeqSizeAssumption
<1>2. 0 \in Seqno
  BY <1>1 DEF Seqno
<1>3. <<>> \in Seq(Message)
  OBVIOUS
<1> QED BY <1>2, <1>3 DEF Init, TypeOK, States, Stamps, Cleared

\* The first event message is one of this type.
LEMMA HeadTyped ==
  ASSUME TypeOK, NEW p \in Ports, eventSock[p] # <<>>
  PROVE  /\ eventSock[p] \in Seq(Message) /\ Head(eventSock[p]) \in Message
         /\ Head(eventSock[p]).id \in Seqno
         /\ Head(eventSock[p]).request \in Transmission
         /\ Head(eventSock[p]).response \in Stamps
         /\ Head(eventSock[p]).from \in Ports
<1>1. eventSock[p] \in Seq(Message)
  BY DEF TypeOK
<1>2. Head(eventSock[p]) \in Message
  BY <1>1, SocketTyped
<1> QED BY <1>1, <1>2 DEF Message

LEMMA ReadTyped ==
  ASSUME TypeOK, NEW p \in Ports, eventSock[p] # <<>>, ReadEvent(p, <<>>)
  PROVE  eventSock' \in [Ports -> Seq(Message)]
BY SocketTyped DEF TypeOK, ReadEvent

LEMMA NextTyped == TypeOK /\ [Next]_vars => TypeOK'
<1> SUFFICES ASSUME TypeOK, [Next]_vars PROVE TypeOK'
  OBVIOUS
<1> USE DEF TypeOK
<1>1. CASE Vanish
  BY <1>1 DEF Vanish, MeasuresNothing, counts, stamps, history
<1>2. ASSUME NEW msg \in net, Arrive(msg) PROVE TypeOK'
  <2>1. msg \in Message /\ msg.to \in Ports /\ msg.from \in Ports
    BY DEF Message
  <2>2. eventSock' \in [Ports -> Seq(Message)]
    BY <1>2, <2>1, SocketTyped DEF Arrive
  <2>3. crowded' \in [Ports -> BOOLEAN] /\ net' \subseteq Message
    BY <1>2 DEF Arrive
  <2> QED BY <1>2, <2>2, <2>3 DEF Arrive, MeasuresNothing, counts, stamps
<1>3. ASSUME NEW p \in Ports, toState(p) PROVE TypeOK'
  <2>1. changes' \in Nat
    BY <1>3 DEF toState
  <2>2. portState' \in [Ports -> States] /\ steady' \in [Ports -> BOOLEAN]
    BY <1>3 DEF toState
  <2>3. /\ pdelay_req_send_time' \in [Ports -> Stamps]
        /\ pdelay_resp_receive_time' \in [Ports -> Stamps]
        /\ pdelay_req_receive_time' \in [Ports -> Stamps]
    BY <1>3 DEF toState, Clear, Cleared, Stamps
  <2> QED BY <1>3, <2>1, <2>2, <2>3 DEF toState, MeasuresNothing, counts
<1>4. ASSUME NEW p \in Ports, Disregard(p) PROVE TypeOK'
  <2>1. eventSock' \in [Ports -> Seq(Message)]
    BY <1>4, ReadTyped DEF Disregard
  <2> QED BY <1>4, <2>1 DEF Disregard, MeasuresNothing, counts, stamps, history
<1>5. ASSUME NEW p \in Ports, issuePDelayReq(p) PROVE TypeOK'
  <2> DEFINE this == [port |-> p, of |-> sentPDelayReqSequenceId[p]]
             sent == Multicast(p, Ports \ {p}, "PDelayReq", Number(this.of), this, Cleared)
             own == Looped(p, "PDelayReq", Number(this.of), this, Cleared)
  <2>1. this \in Transmission /\ Number(this.of) \in Seqno
    BY NumberType DEF Transmission
  <2>2. sent \subseteq Message /\ own \in Message
    BY <2>1, SentTyped DEF Cleared, Stamps
  <2>3. /\ Travel({}, sent)
        /\ eventSock' = [eventSock EXCEPT ![p] = Append(@, own)]
        /\ sentPDelayReqSequenceId' = [sentPDelayReqSequenceId EXCEPT ![p] = @ + 1]
        /\ steady' = [steady EXCEPT ![p] = TRUE]
        /\ crowded' = [crowded EXCEPT ![p] = FALSE]
    BY <1>5 DEF issuePDelayReq
  <2> HIDE DEF sent, own
  <2>4. net' \subseteq Message /\ eventSock' \in [Ports -> Seq(Message)]
    BY <2>2, <2>3, TravelBounded, SocketTyped
  <2>5. /\ sentPDelayReqSequenceId' \in [Ports -> Nat]
        /\ steady' \in [Ports -> BOOLEAN] /\ crowded' \in [Ports -> BOOLEAN]
    BY <2>3
  <2> QED BY <1>5, <2>4, <2>5 DEF issuePDelayReq, MeasuresNothing, stamps
<1>6. ASSUME NEW p \in Ports, OwnPDelayReq(p) PROVE TypeOK'
  <2>1. eventSock[p] # <<>>
    BY <1>6 DEF OwnPDelayReq, Reads
  <2>2. eventSock' \in [Ports -> Seq(Message)]
    BY <1>6, <2>1, ReadTyped DEF OwnPDelayReq
  <2>3. pdelay_req_send_time' \in [Ports -> Stamps]
    BY <1>6, <2>1, HeadTyped DEF OwnPDelayReq, Stamps
  <2> QED BY <1>6, <2>2, <2>3 DEF OwnPDelayReq, MeasuresNothing, counts, history
<1>7. ASSUME NEW p \in Ports, handlePDelayReq(p) PROVE TypeOK'
  <2> DEFINE msg == Head(eventSock[p])
             this == [port |-> p, of |-> responses[p]]
             sent == Multicast(p, Ports \ {p}, "PDelayResp", msg.id, msg.request, {this})
             own == Looped(p, "PDelayResp", msg.id, msg.request, {this})
  <2>1. eventSock[p] # <<>>
    BY <1>7 DEF handlePDelayReq, Reads
  <2>2. this \in Transmission /\ {this} \in Stamps
    BY DEF Transmission, Stamps
  <2>3. msg.id \in Seqno /\ msg.request \in Transmission
    BY <2>1, HeadTyped
  <2>4. sent \subseteq Message /\ own \in Message
    <3> HIDE DEF msg, this
    <3> QED BY <2>2, <2>3, SentTyped
  <2>5. /\ Travel({}, sent) /\ ReadEvent(p, <<own>>)
        /\ PdelayReqHeader' = [PdelayReqHeader EXCEPT ![p] = {msg.request}]
        /\ responses' = [responses EXCEPT ![p] = @ + 1]
    BY <1>7 DEF handlePDelayReq
  <2> HIDE DEF sent, own, msg
  <2>6. net' \subseteq Message
    BY <2>4, <2>5, TravelBounded
  <2>7. eventSock' \in [Ports -> Seq(Message)]
    BY <2>1, <2>4, <2>5, SocketTyped DEF ReadEvent
  <2>8. responses' \in [Ports -> Nat] /\ PdelayReqHeader' \in [Ports -> Stamps]
    BY <2>3, <2>5 DEF Stamps
  <2> QED BY <1>7, <2>6, <2>7, <2>8 DEF handlePDelayReq, MeasuresNothing, stamps, history
<1>8. ASSUME NEW p \in Ports, OwnPDelayResp(p) PROVE TypeOK'
  <2>1. eventSock[p] # <<>>
    BY <1>8 DEF OwnPDelayResp, Reads
  <2>2. eventSock' \in [Ports -> Seq(Message)]
    BY <1>8, <2>1, ReadTyped DEF OwnPDelayResp
  <2>3. net' \subseteq Message
    <3>1. PICK header \in PdelayReqHeader[p] :
            Travel({}, Multicast(p, Ports, "PDelayRespFollowUp", Number(header.of),
                                 header, Head(eventSock[p]).response))
      BY <1>8 DEF OwnPDelayResp
    <3>2. header \in Transmission /\ Number(header.of) \in Seqno
      BY NumberType DEF Stamps, Transmission
    <3>3. Multicast(p, Ports, "PDelayRespFollowUp", Number(header.of), header,
                    Head(eventSock[p]).response) \subseteq Message
      BY <2>1, <3>2, HeadTyped, SentTyped
    <3> QED BY <3>1, <3>3, TravelBounded
  <2> QED BY <1>8, <2>2, <2>3 DEF OwnPDelayResp, MeasuresNothing, counts, stamps, history
<1>9. ASSUME NEW p \in Ports, handlePDelayResp(p) PROVE TypeOK'
  <2>1. eventSock[p] # <<>>
    BY <1>9 DEF handlePDelayResp, Reads
  <2>2. eventSock' \in [Ports -> Seq(Message)]
    BY <1>9, <2>1, ReadTyped DEF handlePDelayResp
  <2>3. /\ pdelay_resp_receive_time' \in [Ports -> Stamps]
        /\ pdelay_req_receive_time' \in [Ports -> Stamps]
        /\ recvPDelayRespSequenceId' \in [Ports -> Seqno]
    BY <1>9, <2>1, HeadTyped DEF handlePDelayResp, Stamps
  <2> QED BY <1>9, <2>2, <2>3 DEF handlePDelayResp, MeasuresNothing, counts, history
<1>10. ASSUME NEW p \in Ports, NEW msg \in net, handlePDelayRespFollowUp(p, msg)
      PROVE  TypeOK'
  <2>1. msg.response \in Stamps
    BY DEF Message
  <2>2. net' \subseteq Message
    BY <1>10, TravelBounded DEF handlePDelayRespFollowUp
  <2>3. measured' \in [Ports -> SUBSET Measurement]
    BY <1>10, <2>1 DEF handlePDelayRespFollowUp, updatePeerDelay, Measurement
  <2> QED BY <1>10, <2>2, <2>3 DEF handlePDelayRespFollowUp, counts, stamps, history
<1>11. CASE UNCHANGED vars
  BY <1>11 DEF vars, counts, stamps, history
<1> QED BY <1>1, <1>2, <1>3, <1>4, <1>5, <1>6, <1>7, <1>8, <1>9, <1>10, <1>11 DEF Next

-----------------------------------------------------------------------------
(* The event socket *)

LEMMA TailOf ==
  ASSUME NEW q \in Seq(Message), q # <<>>
  PROVE  /\ 1 \in DOMAIN q /\ Head(q) = q[1]
         /\ \A i \in DOMAIN q : i \in Nat \ {0}
         /\ \A i \in DOMAIN Tail(q) : /\ i \in Nat \ {0} /\ i + 1 \in DOMAIN q
                                      /\ Tail(q)[i] = q[i + 1]
         /\ \A i \in DOMAIN q \ {1} : i - 1 \in DOMAIN Tail(q) /\ Tail(q)[i - 1] = q[i]
<1>1. /\ DOMAIN q = 1..Len(q) /\ Len(q) \in Nat \ {0}
      /\ DOMAIN Tail(q) = 1..(Len(q) - 1)
      /\ \A i \in 1..(Len(q) - 1) : Tail(q)[i] = q[i + 1]
  OBVIOUS
<1> QED BY <1>1

LEMMA AppendOf ==
  ASSUME NEW q \in Seq(Message), NEW x \in Message
  PROVE  /\ DOMAIN Append(q, x) = DOMAIN q \cup {Len(q) + 1}
         /\ \A i \in DOMAIN q : i \in Nat \ {0} /\ i <= Len(q) /\ Append(q, x)[i] = q[i]
         /\ Append(q, x)[Len(q) + 1] = x
         /\ Len(q) \in Nat
         /\ Len(q) + 1 \notin DOMAIN q
<1>1. /\ DOMAIN q = 1..Len(q) /\ Len(q) \in Nat
      /\ DOMAIN Append(q, x) = 1..(Len(q) + 1)
      /\ \A i \in 1..Len(q) : Append(q, x)[i] = q[i]
      /\ Append(q, x)[Len(q) + 1] = x
  OBVIOUS
<1> QED BY <1>1

\* What is taken from the front and added at the end.
LEMMA TailAppendOf ==
  ASSUME NEW q \in Seq(Message), q # <<>>, NEW x \in Message
  PROVE  /\ Tail(q) \in Seq(Message)
         /\ Tail(q) \o <<>> = Tail(q)
         /\ Tail(q) \o <<x>> = Append(Tail(q), x)
OBVIOUS

\* What waits at q has moved up by k.
Shifted(q, k) ==
  \A i \in DOMAIN eventSock'[q] :
    i \in Nat \ {0} /\ i + k \in DOMAIN eventSock[q] /\ eventSock'[q][i] = eventSock[q][i + k]

LEMMA SocketRead ==
  ASSUME TypeOK, NEW p \in Ports, eventSock[p] # <<>>, ReadEvent(p, <<>>), NEW q \in Ports
  PROVE  \E k \in {0, 1} : Shifted(q, k)
<1>1. eventSock[p] \in Seq(Message) /\ eventSock[q] \in Seq(Message)
  BY DEF TypeOK
<1>2. CASE q = p
  <2>1. eventSock'[p] = Tail(eventSock[p])
    <3>1. eventSock'[p] = Tail(eventSock[p]) \o <<>>
      BY DEF ReadEvent, TypeOK
    <3>2. Head(eventSock[p]) \in Message
      BY <1>1, SocketTyped
    <3> QED BY <1>1, <3>1, <3>2, TailAppendOf
  <2> QED BY <1>1, <1>2, <2>1, TailOf DEF Shifted
<1>3. CASE q # p
  <2>1. eventSock'[q] = eventSock[q]
    BY <1>3 DEF ReadEvent, TypeOK
  <2>2. \A i \in DOMAIN eventSock[q] : i \in Nat \ {0} /\ i + 0 = i
    BY <1>1
  <2> QED BY <2>1, <2>2 DEF Shifted
<1> QED BY <1>2, <1>3

LEMMA SocketKept ==
  ASSUME TypeOK, NEW q \in Ports, eventSock' = eventSock
  PROVE  \E k \in {0, 1} : Shifted(q, k)
<1>1. eventSock[q] \in Seq(Message)
  BY DEF TypeOK
<1>2. \A i \in DOMAIN eventSock[q] : i \in Nat \ {0} /\ i + 0 = i
  BY <1>1
<1> QED BY <1>2 DEF Shifted

LEMMA ShiftedSets ==
  ASSUME NEW q, NEW k, Shifted(q, k), NEW type
  PROVE  /\ \A i \in Received(q, type)' : /\ i \in Nat \ {0} /\ i + k \in Received(q, type)
                                          /\ eventSock'[q][i] = eventSock[q][i + k]
         /\ \A i \in Own(q, type)' : /\ i \in Nat \ {0} /\ i + k \in Own(q, type)
                                     /\ eventSock'[q][i] = eventSock[q][i + k]
BY DEF Shifted, Received, Own

-----------------------------------------------------------------------------
(* Requests and answers *)

LEMMA TwoPortsOnly ==
  ASSUME TwoPorts, NEW p \in Ports, NEW q \in Ports, NEW r \in Ports, p # q, r # q
  PROVE  r = p
BY DEF TwoPorts

\* What waits is a message.
LEMMA WaitingTyped ==
  ASSUME TypeOK, NEW q \in Ports, NEW i \in DOMAIN eventSock[q]
  PROVE  /\ eventSock[q][i] \in Message
         /\ eventSock[q][i].request \in Transmission
         /\ eventSock[q][i].response \in Stamps
         /\ eventSock[q][i].from \in Ports
<1>1. eventSock[q] \in Seq(Message)
  BY DEF TypeOK
<1>2. eventSock[q][i] \in Message
  BY <1>1
<1> QED BY <1>2 DEF Message

\* What is answered is a request.
LEMMA AnsweredTyped ==
  ASSUME TypeOK, NEW r, NEW s, Responds(r, s)
  PROVE  r \in Transmission
<1>1. \A msg \in net : msg.request \in Transmission
  BY DEF TypeOK, Message
<1>2. \A q \in Ports : \A i \in Received(q, "PDelayResp") \cup Own(q, "PDelayResp") :
        eventSock[q][i].request \in Transmission
  BY WaitingTyped DEF Received, Own
<1>3. \A p \in Ports : pdelay_req_receive_time[p] \subseteq Transmission
  BY DEF TypeOK, Stamps
<1> QED BY <1>1, <1>2, <1>3 DEF Responds

\* What is answered has been requested.
LEMMA AnsweredWasIssued ==
  ASSUME ExchangeInv, NEW r, NEW s, Responds(r, s) \/ FollowsUp(r, s)
  PROVE  Issued(r)
<1>1. ASSUME NEW msg \in net, msg.request = r PROVE Issued(r)
  BY <1>1 DEF ExchangeInv, MessageInv, InWindow
<1>2. ASSUME NEW q \in Ports, NEW i \in Received(q, "PDelayResp") \cup Own(q, "PDelayResp"),
             eventSock[q][i].request = r
      PROVE  Issued(r)
  BY <1>2 DEF ExchangeInv, SocketInv, MessageInv, InWindow
<1>3. ASSUME NEW p \in Ports, r \in pdelay_req_receive_time[p] PROVE Issued(r)
  BY <1>3 DEF ExchangeInv, ToldInv, InWindow
<1>4. ASSUME NEW q \in Ports, NEW i \in Own(q, "PDelayResp"), r \in PdelayReqHeader[q]
      PROVE  Issued(r)
  BY <1>4 DEF ExchangeInv, SocketInv, InWindow
<1> QED BY <1>1, <1>2, <1>3, <1>4 DEF Responds, FollowsUp

\* Without a new request, what is known of a message stays so.
LEMMA MessagesKept ==
  ASSUME UNCHANGED sentPDelayReqSequenceId
  PROVE  /\ \A r : (Issued(r)' <=> Issued(r)) /\ (InWindow(r)' <=> InWindow(r))
         /\ \A msg : MessageInv(msg)' <=> MessageInv(msg)
         /\ \A p : LastRequest(p)' = LastRequest(p)
<1>1. \A r : (Issued(r)' <=> Issued(r)) /\ (InWindow(r)' <=> InWindow(r))
  BY DEF InWindow, Issued
<1> QED BY <1>1 DEF MessageInv, LastRequest

\* A step that sends no request and no response, and only takes from the sockets.
LEMMA TakesAway ==
  ASSUME ExchangeInv, WaitingInv, AnswersInv, AloneInv,
         \A q \in Ports : \E k \in {0, 1} : Shifted(q, k),
         UNCHANGED <<sentPDelayReqSequenceId, responses, PdelayReqHeader, crowded>>,
         \A msg \in net' :
           \/ msg \in net
           \/ /\ msg.type = "PDelayRespFollowUp" /\ MessageInv(msg)
              /\ FollowsUp(msg.request, msg.response),
         \A p \in Ports :
           /\ ToldInv(p)'
           /\ \A r \in pdelay_req_receive_time'[p] :
                Responds(r, pdelay_resp_receive_time'[p])
  PROVE  Pairing'
<1>1. /\ \A r : (Issued(r)' <=> Issued(r)) /\ (InWindow(r)' <=> InWindow(r))
      /\ \A msg : MessageInv(msg)' <=> MessageInv(msg)
      /\ \A r : Alone(r)' <=> Alone(r)
  BY MessagesKept DEF Alone
<1>2. ASSUME NEW q \in Ports
      PROVE  \E k \in {0, 1} : \A type :
        /\ \A i \in Received(q, type)' : /\ i \in Nat \ {0} /\ i + k \in Received(q, type)
                                         /\ eventSock'[q][i] = eventSock[q][i + k]
        /\ \A i \in Own(q, type)' : /\ i \in Nat \ {0} /\ i + k \in Own(q, type)
                                    /\ eventSock'[q][i] = eventSock[q][i + k]
  <2>1. PICK k \in {0, 1} : Shifted(q, k)
    OBVIOUS
  <2> QED BY <2>1, ShiftedSets
<1>3. ASSUME NEW q \in Ports PROVE SocketInv(q)'
  <2>1. SocketInv(q)
    BY DEF ExchangeInv
  <2>2. PICK k \in {0, 1} : \A type :
        /\ \A i \in Received(q, type)' : /\ i \in Nat \ {0} /\ i + k \in Received(q, type)
                                         /\ eventSock'[q][i] = eventSock[q][i + k]
        /\ \A i \in Own(q, type)' : /\ i \in Nat \ {0} /\ i + k \in Own(q, type)
                                    /\ eventSock'[q][i] = eventSock[q][i + k]
    BY <1>2
  <2>3. \A i \in Received(q, "PDelayReq")' \cup Received(q, "PDelayResp")' :
          MessageInv(eventSock'[q][i])
    BY <2>1, <2>2 DEF SocketInv
  <2>4. \A i \in Own(q, "PDelayResp")' :
          /\ Issued(eventSock'[q][i].request)
          /\ \E t \in Transmission : /\ eventSock'[q][i].response = {t}
                                     /\ t.port = q /\ t.of < responses'[q]
    BY <2>1, <2>2 DEF SocketInv
  <2>5. Own(q, "PDelayResp")' # {} => Own(q, "PDelayResp") # {}
    BY <2>2
  <2>6. \A h \in PdelayReqHeader'[q] :
          h.port # q /\ (Own(q, "PDelayResp")' # {} => InWindow(h))
    BY <2>1, <2>5 DEF SocketInv
  <2> QED BY <2>3, <2>4, <2>6 DEF SocketInv, MessageInv, InWindow, Issued
<1>4. ExchangeInv'
  BY <1>1, <1>3 DEF ExchangeInv
<1>5. \A msg \in net' : msg.type # "PDelayRespFollowUp" => msg \in net
  OBVIOUS
<1>6. ASSUME NEW q \in Ports, NEW i \in Received(q, "PDelayReq")'
      PROVE  /\ \A msg \in net' :
                  msg.type = "PDelayReq" => msg.request # eventSock'[q][i].request
             /\ \A j \in Received(q, "PDelayReq")' :
                  eventSock'[q][j].request = eventSock'[q][i].request => i = j
             /\ Alone(eventSock'[q][i].request) =>
                  /\ \A j \in Received(q, "PDelayReq")' : i <= j
                  /\ \A j \in Own(q, "PDelayResp")' : j < i
  <2>1. PICK k \in {0, 1} : \A type :
        /\ \A j \in Received(q, type)' : /\ j \in Nat \ {0} /\ j + k \in Received(q, type)
                                         /\ eventSock'[q][j] = eventSock[q][j + k]
        /\ \A j \in Own(q, type)' : /\ j \in Nat \ {0} /\ j + k \in Own(q, type)
                                    /\ eventSock'[q][j] = eventSock[q][j + k]
    BY <1>2
  <2>2. i \in Nat /\ i + k \in Received(q, "PDelayReq")
        /\ eventSock'[q][i] = eventSock[q][i + k]
    BY <2>1
  <2>3. \A msg \in net' :
          msg.type = "PDelayReq" => msg.request # eventSock'[q][i].request
    BY <1>5, <2>2 DEF WaitingInv
  <2>4. ASSUME NEW j \in Received(q, "PDelayReq")',
               eventSock'[q][j].request = eventSock'[q][i].request
        PROVE  i = j
    <3>1. j \in Nat /\ j + k \in Received(q, "PDelayReq")
          /\ eventSock'[q][j] = eventSock[q][j + k]
      BY <2>1
    <3>2. i + k = j + k
      BY <2>2, <2>4, <3>1 DEF WaitingInv
    <3> QED BY <2>2, <3>1, <3>2
  <2>5. ASSUME Alone(eventSock'[q][i].request), NEW j \in Received(q, "PDelayReq")'
        PROVE  i <= j
    <3>1. j \in Nat /\ j + k \in Received(q, "PDelayReq")
      BY <2>1
    <3>2. i + k <= j + k
      BY <2>2, <2>5, <3>1 DEF AloneInv
    <3> QED BY <2>2, <3>1, <3>2
  <2>6. ASSUME Alone(eventSock'[q][i].request), NEW j \in Own(q, "PDelayResp")'
        PROVE  j < i
    <3>1. j \in Nat /\ j + k \in Own(q, "PDelayResp")
      BY <2>1
    <3>2. j + k < i + k
      BY <2>2, <2>6, <3>1 DEF AloneInv
    <3> QED BY <2>2, <3>1, <3>2
  <2> QED BY <2>3, <2>4, <2>5, <2>6
<1>7. WaitingInv' /\ AloneInv'
  BY <1>6 DEF WaitingInv, AloneInv, Alone, LastRequest
<1>8. ASSUME NEW r, Waits(r)' PROVE Waits(r)
  <2>1. CASE \E msg \in net' : msg.type = "PDelayReq" /\ msg.request = r
    BY <1>5, <2>1 DEF Waits
  <2>2. ASSUME NEW q \in Ports, NEW i \in Received(q, "PDelayReq")',
               eventSock'[q][i].request = r
        PROVE  Waits(r)
    BY <1>2, <2>2 DEF Waits
  <2> QED BY <1>8, <2>1, <2>2 DEF Waits
<1>9. ASSUME NEW r, NEW s, Responds(r, s)' PROVE Responds(r, s)
  <2>1. CASE \E msg \in net' :
               msg.type = "PDelayResp" /\ msg.request = r /\ msg.response = s
    BY <1>5, <2>1 DEF Responds
  <2>2. ASSUME NEW q \in Ports,
               NEW i \in Received(q, "PDelayResp")' \cup Own(q, "PDelayResp")',
               eventSock'[q][i].request = r, eventSock'[q][i].response = s
        PROVE  Responds(r, s)
    BY <1>2, <2>2 DEF Responds
  <2>3. CASE \E p \in Ports :
               r \in pdelay_req_receive_time'[p] /\ s = pdelay_resp_receive_time'[p]
    BY <2>3
  <2> QED BY <1>9, <2>1, <2>2, <2>3 DEF Responds
<1>10. ASSUME NEW r, NEW s, FollowsUp(r, s)' PROVE FollowsUp(r, s)
  <2>1. CASE \E msg \in net' :
               msg.type = "PDelayRespFollowUp" /\ msg.request = r /\ msg.response = s
    BY <2>1 DEF FollowsUp
  <2>2. ASSUME NEW q \in Ports, NEW i \in Own(q, "PDelayResp")',
               r \in PdelayReqHeader'[q], s = eventSock'[q][i].response
        PROVE  FollowsUp(r, s)
    BY <1>2, <2>2 DEF FollowsUp
  <2> QED BY <1>10, <2>1, <2>2 DEF FollowsUp
<1>11. AnswersInv'
  <2>1. \A r, s, t : Responds(r, s)' /\ Responds(r, t)' => s = t
    BY <1>9 DEF AnswersInv
  <2>2. \A r, s : Waits(r)' => ~Responds(r, s)' /\ ~FollowsUp(r, s)'
    BY <1>8, <1>9, <1>10 DEF AnswersInv
  <2>3. \A r, s, t : Responds(r, t)' /\ FollowsUp(r, s)' =>
          NotLater(s, t) /\ (Alone(r)' => s = t)
    BY <1>1, <1>9, <1>10 DEF AnswersInv
  <2> QED BY <2>1, <2>2, <2>3 DEF AnswersInv, NotLater
<1> QED BY <1>4, <1>7, <1>11 DEF Pairing

-----------------------------------------------------------------------------
(* One lemma per action: what is under way, waits or is stored *)

\* What a port has been told stays as it is, or is cleared.
LEMMA ToldKept ==
  ASSUME ExchangeInv, NEW p \in Ports,
         UNCHANGED <<sentPDelayReqSequenceId, recvPDelayRespSequenceId>>,
         \/ pdelay_req_receive_time'[p] = {}
         \/ /\ pdelay_req_receive_time'[p] = pdelay_req_receive_time[p]
            /\ pdelay_resp_receive_time'[p] = pdelay_resp_receive_time[p]
  PROVE  /\ ToldInv(p)'
         /\ \A r \in pdelay_req_receive_time'[p] : Responds(r, pdelay_resp_receive_time'[p])
<1>1. \A r : InWindow(r)' <=> InWindow(r)
  BY MessagesKept
<1>2. ToldInv(p)'
  BY <1>1 DEF ExchangeInv, ToldInv
<1> QED BY <1>2 DEF Responds

LEMMA VanishPairing ==
  ASSUME TypeOK, Pairing, Vanish
  PROVE  Pairing'
<1>1. /\ UNCHANGED <<sentPDelayReqSequenceId, responses, PdelayReqHeader, crowded>>
      /\ UNCHANGED <<eventSock, recvPDelayRespSequenceId, pdelay_req_receive_time,
                     pdelay_resp_receive_time>>
      /\ net' \subseteq net
  BY DEF Vanish, counts, stamps, history
<1> QED BY <1>1, TakesAway, ToldKept, SocketKept DEF Pairing

LEMMA ToStatePairing ==
  ASSUME TypeOK, Pairing, NEW p \in Ports, toState(p)
  PROVE  Pairing'
<1>1. ASSUME NEW q \in Ports
      PROVE  \/ pdelay_req_receive_time'[q] = {}
             \/ /\ pdelay_req_receive_time'[q] = pdelay_req_receive_time[q]
                /\ pdelay_resp_receive_time'[q] = pdelay_resp_receive_time[q]
  <2>1. CASE portState'[p] = "SLAVE"
    BY <2>1 DEF toState, Clear, Cleared, TypeOK
  <2>2. CASE portState'[p] # "SLAVE"
    BY <2>2 DEF toState
  <2> QED BY <2>1, <2>2
<1>2. UNCHANGED <<sentPDelayReqSequenceId, responses, PdelayReqHeader, crowded, net,
                  eventSock, recvPDelayRespSequenceId>>
  BY DEF toState, counts
<1> QED BY <1>1, <1>2, TakesAway, ToldKept, SocketKept DEF Pairing

LEMMA FollowUpPairing ==
  ASSUME TypeOK, Pairing, NEW p \in Ports, NEW msg \in net, handlePDelayRespFollowUp(p, msg)
  PROVE  Pairing'
<1>1. net' \subseteq net
  BY TravelBounded DEF handlePDelayRespFollowUp
<1>2. UNCHANGED <<sentPDelayReqSequenceId, responses, PdelayReqHeader, crowded, eventSock,
                  recvPDelayRespSequenceId, pdelay_req_receive_time,
                  pdelay_resp_receive_time>>
  BY DEF handlePDelayRespFollowUp, counts, stamps, history
<1> QED BY <1>1, <1>2, TakesAway, ToldKept, SocketKept DEF Pairing

\* Reading without an effect on the exchange: what is disregarded, and the send time
\* of an own request.
LEMMA ReadPairing ==
  ASSUME TypeOK, Pairing, NEW p \in Ports, Disregard(p) \/ OwnPDelayReq(p)
  PROVE  Pairing'
<1>1. /\ eventSock[p] # <<>> /\ ReadEvent(p, <<>>)
      /\ UNCHANGED <<sentPDelayReqSequenceId, responses, PdelayReqHeader, crowded, net,
                     recvPDelayRespSequenceId, pdelay_req_receive_time,
                     pdelay_resp_receive_time>>
  BY DEF Disregard, OwnPDelayReq, Reads, counts, stamps, history
<1>2. \A q \in Ports : \E k \in {0, 1} : Shifted(q, k)
  BY <1>1, SocketRead
<1> QED BY <1>1, <1>2, TakesAway, ToldKept DEF Pairing

\* The first of the event socket.
LEMMA HeadWaits ==
  ASSUME TypeOK, NEW p \in Ports, NEW type, Reads(p, type)
  PROVE  /\ eventSock[p] # <<>> /\ Head(eventSock[p]) = eventSock[p][1]
         /\ Head(eventSock[p]).type = type /\ 1 \in DOMAIN eventSock[p]
         /\ Head(eventSock[p]).from # p => 1 \in Received(p, type)
         /\ Head(eventSock[p]).from = p => 1 \in Own(p, type)
<1>1. eventSock[p] \in Seq(Message)
  BY DEF TypeOK
<1> QED BY <1>1, TailOf DEF Reads, Received, Own

LEMMA OwnResponsePairing ==
  ASSUME TypeOK, Pairing, NEW p \in Ports, OwnPDelayResp(p)
  PROVE  Pairing'
<1>0. PICK msg \in Message : msg = Head(eventSock[p])
  BY HeadTyped DEF OwnPDelayResp, Reads
<1> DEFINE sent(header) == Multicast(p, Ports, "PDelayRespFollowUp", Number(header.of),
                                     header, msg.response)
<1>1. /\ eventSock[p] # <<>> /\ ReadEvent(p, <<>>)
      /\ UNCHANGED <<sentPDelayReqSequenceId, responses, PdelayReqHeader, crowded,
                     recvPDelayRespSequenceId, pdelay_req_receive_time,
                     pdelay_resp_receive_time>>
  BY DEF OwnPDelayResp, Reads, counts, stamps, history
<1>2. 1 \in Own(p, "PDelayResp") /\ msg = eventSock[p][1]
  BY <1>0, HeadWaits DEF OwnPDelayResp
<1>3. PICK header \in PdelayReqHeader[p] : Travel({}, sent(header))
  BY <1>0 DEF OwnPDelayResp
<1>4. /\ header.port # p /\ InWindow(header)
      /\ \E t \in Transmission : msg.response = {t} /\ t.port = p
  BY <1>2 DEF Pairing, ExchangeInv, SocketInv
<1>5. FollowsUp(header, msg.response)
  BY <1>2 DEF FollowsUp
<1>6. ASSUME NEW m \in net', m \notin net
      PROVE  /\ m.type = "PDelayRespFollowUp" /\ MessageInv(m)
             /\ FollowsUp(m.request, m.response)
  <2>1. m \in sent(header)
    <3> HIDE DEF sent
    <3> QED BY <1>3, <1>6, TravelBounded
  <2>2. /\ m.type = "PDelayRespFollowUp" /\ m.from = p
        /\ m.id = Number(header.of) /\ m.request = header /\ m.response = msg.response
    BY <2>1 DEF Multicast, Sent
  <2> QED BY <1>4, <1>5, <2>2 DEF MessageInv
<1>7. \A q \in Ports : \E k \in {0, 1} : Shifted(q, k)
  BY <1>1, SocketRead
<1> QED BY <1>1, <1>6, <1>7, TakesAway, ToldKept DEF Pairing

LEMMA ResponsePairing ==
  ASSUME TwoPorts, TypeOK, Pairing, NEW p \in Ports, handlePDelayResp(p)
  PROVE  Pairing'
<1>0. PICK msg \in Message : msg = Head(eventSock[p])
  BY HeadTyped DEF handlePDelayResp, Reads
<1>1. /\ eventSock[p] # <<>> /\ ReadEvent(p, <<>>)
      /\ UNCHANGED <<sentPDelayReqSequenceId, responses, PdelayReqHeader, crowded, net>>
  BY DEF handlePDelayResp, Reads, counts, history
<1>2. /\ pdelay_resp_receive_time'[p] = msg.response
      /\ pdelay_req_receive_time'[p] = {msg.request}
      /\ recvPDelayRespSequenceId'[p] = msg.id
      /\ \A q \in Ports \ {p} :
           /\ pdelay_resp_receive_time'[q] = pdelay_resp_receive_time[q]
           /\ pdelay_req_receive_time'[q] = pdelay_req_receive_time[q]
           /\ recvPDelayRespSequenceId'[q] = recvPDelayRespSequenceId[q]
  BY <1>0 DEF handlePDelayResp, TypeOK
<1>3. /\ 1 \in Received(p, "PDelayResp") /\ msg = eventSock[p][1]
      /\ msg.type = "PDelayResp" /\ msg.from # p
  BY <1>0, HeadWaits DEF handlePDelayResp
<1>4. MessageInv(msg)
  BY <1>3 DEF Pairing, ExchangeInv, SocketInv
<1>5. msg.request.port = p
  <2>1. /\ msg.from \in Ports /\ msg.request.port \in Ports
        /\ msg.from # p /\ msg.request.port # msg.from
    BY <1>3, <1>4 DEF MessageInv, Message, Transmission
  <2> QED BY <2>1, TwoPortsOnly
<1>6. \A r : InWindow(r)' <=> InWindow(r)
  BY <1>1, MessagesKept
<1>7. ASSUME NEW q \in Ports
      PROVE  /\ ToldInv(q)'
             /\ \A r \in pdelay_req_receive_time'[q] :
                  Responds(r, pdelay_resp_receive_time'[q])
  <2>1. CASE q = p
    <3>1. Responds(msg.request, msg.response)
      BY <1>3 DEF Responds
    <3>2. /\ msg.id = Number(msg.request.of) /\ InWindow(msg.request)'
          /\ \E t \in Transmission : msg.response = {t} /\ t.port # p
      BY <1>3, <1>4, <1>6 DEF MessageInv
    <3>3. ToldInv(p)'
      BY <1>2, <1>5, <3>2 DEF ToldInv
    <3> QED BY <1>2, <2>1, <3>1, <3>3
  <2>2. CASE q # p
    <3>1. ToldInv(q)'
      BY <1>2, <1>6, <2>2 DEF Pairing, ExchangeInv, ToldInv
    <3>2. \A r \in pdelay_req_receive_time'[q] :
            Responds(r, pdelay_resp_receive_time'[q])
      BY <1>2, <2>2 DEF Responds
    <3> QED BY <3>1, <3>2
  <2> QED BY <2>1, <2>2
<1>8. \A q \in Ports : \E k \in {0, 1} : Shifted(q, k)
  BY <1>1, SocketRead
<1> QED BY <1>1, <1>7, <1>8, TakesAway DEF Pairing

\* What comes to the end of a socket changes nothing before it.
LEMMA Appended ==
  ASSUME TypeOK, NEW p \in Ports, NEW x \in Message,
         eventSock' = [eventSock EXCEPT ![p] = Append(@, x)]
  PROVE  \E last \in Nat :
    /\ eventSock'[p][last] = x /\ last \notin DOMAIN eventSock[p]
    /\ \A i \in DOMAIN eventSock[p] :
         i \in Nat \ {0} /\ i < last /\ eventSock'[p][i] = eventSock[p][i]
    /\ \A type :
         /\ Received(p, type)' =
              Received(p, type) \cup {i \in {last} : x.type = type /\ x.from # p}
         /\ Own(p, type)' = Own(p, type) \cup {i \in {last} : x.type = type /\ x.from = p}
    /\ \A q \in Ports \ {p} :
         /\ eventSock'[q] = eventSock[q]
         /\ \A type : Received(q, type)' = Received(q, type) /\ Own(q, type)' = Own(q, type)
<1> DEFINE last == Len(eventSock[p]) + 1
<1>1. eventSock[p] \in Seq(Message) /\ eventSock'[p] = Append(eventSock[p], x)
  BY DEF TypeOK
<1>2. /\ DOMAIN eventSock'[p] = DOMAIN eventSock[p] \cup {last}
      /\ \A i \in DOMAIN eventSock[p] :
           i \in Nat \ {0} /\ i < last /\ eventSock'[p][i] = eventSock[p][i]
      /\ eventSock'[p][last] = x
      /\ last \in Nat /\ last \notin DOMAIN eventSock[p]
  BY <1>1, AppendOf
<1> HIDE DEF last
<1>3. ASSUME NEW type
      PROVE  /\ Received(p, type)' =
                  Received(p, type) \cup {i \in {last} : x.type = type /\ x.from # p}
             /\ Own(p, type)' = Own(p, type) \cup {i \in {last} : x.type = type /\ x.from = p}
  BY <1>2 DEF Received, Own
<1>4. ASSUME NEW q \in Ports \ {p}
      PROVE  /\ eventSock'[q] = eventSock[q]
             /\ \A type : Received(q, type)' = Received(q, type) /\ Own(q, type)' = Own(q, type)
  <2>1. eventSock'[q] = eventSock[q]
    BY DEF TypeOK
  <2> QED BY <2>1 DEF Received, Own
<1> QED BY <1>2, <1>3, <1>4

\* A request under way is one message.
LEMMA OneRequest ==
  ASSUME TwoPorts, TypeOK, ExchangeInv, NEW m \in net, NEW msg \in net,
         m.type = "PDelayReq", msg.type = "PDelayReq", m.request = msg.request
  PROVE  m = msg
<1>1. m \in Message /\ msg \in Message /\ MessageInv(m) /\ MessageInv(msg)
  BY DEF ExchangeInv, TypeOK
<1>2. /\ m.from = msg.from /\ m.id = msg.id /\ m.response = msg.response
      /\ m.to # msg.from /\ msg.to # msg.from
  BY <1>1 DEF MessageInv
<1>3. m.to = msg.to
  BY <1>1, <1>2, TwoPortsOnly DEF Message
<1> QED BY <1>1, <1>2, <1>3 DEF Message

LEMMA ArrivePairing ==
  ASSUME TwoPorts, TypeOK, Pairing, NEW msg \in net, Arrive(msg)
  PROVE  Pairing'
<1>0. PICK p \in Ports : p = msg.to
  BY DEF TypeOK, Message
<1>1. /\ msg \in Message /\ msg.type \in {"PDelayReq", "PDelayResp"} /\ MessageInv(msg)
      /\ msg.from # p /\ msg.from \in Ports
  BY <1>0 DEF Arrive, TypeOK, Message, Pairing, ExchangeInv, MessageInv
<1>2. /\ net' = net \ {msg}
      /\ eventSock' = [eventSock EXCEPT ![p] = Append(@, msg)]
      /\ UNCHANGED <<sentPDelayReqSequenceId, responses, PdelayReqHeader,
                     recvPDelayRespSequenceId, pdelay_req_receive_time,
                     pdelay_resp_receive_time>>
  BY <1>0 DEF Arrive, counts, stamps
<1>3. PICK last \in Nat :
    /\ eventSock'[p][last] = msg /\ last \notin DOMAIN eventSock[p]
    /\ \A i \in DOMAIN eventSock[p] :
         i \in Nat \ {0} /\ i < last /\ eventSock'[p][i] = eventSock[p][i]
    /\ \A type :
         /\ Received(p, type)' =
              Received(p, type) \cup {i \in {last} : msg.type = type /\ msg.from # p}
         /\ Own(p, type)' = Own(p, type) \cup {i \in {last} : msg.type = type /\ msg.from = p}
    /\ \A q \in Ports \ {p} :
         /\ eventSock'[q] = eventSock[q]
         /\ \A type : Received(q, type)' = Received(q, type) /\ Own(q, type)' = Own(q, type)
  BY <1>1, <1>2, Appended
<1>4. /\ \A type : Received(p, type) \subseteq DOMAIN eventSock[p]
      /\ \A type : Own(p, type) \subseteq DOMAIN eventSock[p]
      /\ \A q \in Ports : \A type : Own(q, type)' = Own(q, type)
      /\ \A q \in Ports : \A i \in Own(q, "PDelayResp") : eventSock'[q][i] = eventSock[q][i]
  <2>1. \A type : Own(p, type)' = Own(p, type)
    BY <1>1, <1>3
  <2>2. \A q, type : /\ Received(q, type) \subseteq DOMAIN eventSock[q]
                     /\ Own(q, type) \subseteq DOMAIN eventSock[q]
    BY DEF Received, Own
  <2> QED BY <1>3, <2>1, <2>2
<1>5. ASSUME NEW q \in Ports, NEW type, NEW i \in Received(q, type)'
      PROVE  \/ i \in Received(q, type) /\ eventSock'[q][i] = eventSock[q][i]
             \/ q = p /\ i = last /\ msg.type = type /\ eventSock'[q][i] = msg
  BY <1>3, <1>4
<1>6. /\ \A r : (Issued(r)' <=> Issued(r)) /\ (InWindow(r)' <=> InWindow(r))
      /\ \A m : MessageInv(m)' <=> MessageInv(m)
      /\ \A q : LastRequest(q)' = LastRequest(q)
  BY <1>2, MessagesKept
<1>7. ASSUME NEW r \in Transmission, Alone(r)' PROVE Alone(r)
  <2>1. ~crowded'[r.port] /\ r = LastRequest(r.port)
    BY <1>6, <1>7 DEF Alone
  <2>2. ~crowded[r.port]
    BY <2>1 DEF Arrive, TypeOK, Transmission
  <2> QED BY <2>1, <2>2 DEF Alone
<1>8. ASSUME NEW q \in Ports PROVE SocketInv(q)'
  <2>1. SocketInv(q)
    BY DEF Pairing, ExchangeInv
  <2>2. \A i \in Received(q, "PDelayReq")' \cup Received(q, "PDelayResp")' :
          MessageInv(eventSock'[q][i])
    BY <1>1, <1>5, <2>1 DEF SocketInv
  <2>3. \A i \in Own(q, "PDelayResp")' :
          /\ Issued(eventSock'[q][i].request)
          /\ \E t \in Transmission : /\ eventSock'[q][i].response = {t}
                                     /\ t.port = q /\ t.of < responses'[q]
    BY <1>2, <1>4, <2>1 DEF SocketInv
  <2>4. \A h \in PdelayReqHeader'[q] :
          h.port # q /\ (Own(q, "PDelayResp")' # {} => InWindow(h))
    BY <1>2, <1>4, <2>1 DEF SocketInv
  <2> QED BY <1>2, <2>2, <2>3, <2>4 DEF SocketInv, MessageInv, InWindow, Issued
<1>9. ExchangeInv'
  <2>1. \A q \in Ports : ToldInv(q)'
    BY <1>2, ToldKept DEF Pairing
  <2> QED BY <1>2, <1>6, <1>8, <2>1 DEF Pairing, ExchangeInv
<1>10. ASSUME NEW m \in net', m.type = "PDelayReq", msg.type = "PDelayReq"
       PROVE  m.request # msg.request
  BY <1>2, <1>10, OneRequest DEF Pairing
<1>11. ASSUME NEW q \in Ports, NEW i \in Received(q, "PDelayReq")'
       PROVE  /\ \A m \in net' :
                   m.type = "PDelayReq" => m.request # eventSock'[q][i].request
              /\ \A j \in Received(q, "PDelayReq")' :
                   eventSock'[q][j].request = eventSock'[q][i].request => i = j
  <2>1. ASSUME NEW m \in net', m.type = "PDelayReq"
        PROVE  m.request # eventSock'[q][i].request
    <3>1. CASE i \in Received(q, "PDelayReq") /\ eventSock'[q][i] = eventSock[q][i]
      BY <1>2, <2>1, <3>1 DEF Pairing, WaitingInv
    <3>2. CASE msg.type = "PDelayReq" /\ eventSock'[q][i] = msg
      BY <1>10, <2>1, <3>2
    <3> QED BY <1>5, <3>1, <3>2
  <2>2. ASSUME NEW j \in Received(q, "PDelayReq")',
               eventSock'[q][j].request = eventSock'[q][i].request
        PROVE  i = j
    <3>1. \A k \in Received(q, "PDelayReq") :
            msg.type = "PDelayReq" => msg.request # eventSock[q][k].request
      BY DEF Pairing, WaitingInv
    <3>2. CASE i \in Received(q, "PDelayReq") /\ eventSock'[q][i] = eventSock[q][i]
      BY <1>5, <2>2, <3>1, <3>2 DEF Pairing, WaitingInv
    <3>3. CASE i = last /\ msg.type = "PDelayReq" /\ eventSock'[q][i] = msg
      BY <1>5, <2>2, <3>1, <3>3
    <3> QED BY <1>5, <3>2, <3>3
  <2> QED BY <2>1, <2>2
<1>12. WaitingInv'
  BY <1>11 DEF WaitingInv
<1>13. ASSUME NEW q \in Ports, NEW i \in Received(q, "PDelayReq")',
              NEW r, r = eventSock'[q][i].request, Alone(r)'
       PROVE  /\ \A j \in Received(q, "PDelayReq")' : i <= j
              /\ \A j \in Own(q, "PDelayResp")' : j < i
  <2>1. CASE i \in Received(q, "PDelayReq") /\ eventSock'[q][i] = eventSock[q][i]
    <3>1. i \in DOMAIN eventSock[q]
      BY <2>1 DEF Received
    <3>2. Alone(eventSock[q][i].request)
      BY <1>7, <1>13, <2>1, <3>1, WaitingTyped
    <3>3. /\ \A j \in Received(q, "PDelayReq") : i <= j
          /\ \A j \in Own(q, "PDelayResp") : j < i
      BY <2>1, <3>2 DEF Pairing, AloneInv
    <3>4. \A j \in Received(q, "PDelayReq")' : i <= j
      BY <1>3, <1>5, <3>1, <3>3
    <3> QED BY <1>4, <3>3, <3>4
  <2>2. CASE q = p /\ i = last /\ msg.type = "PDelayReq" /\ eventSock'[q][i] = msg
    <3>1. /\ r = LastRequest(r.port) /\ ~crowded'[r.port] /\ r = msg.request
          /\ msg.from = r.port
      BY <1>1, <1>6, <1>13, <2>2 DEF Alone, MessageInv
    <3>2. Received(p, "PDelayReq") = {}
      BY <1>0, <1>1, <3>1 DEF Arrive, TypeOK
    <3>3. \A j \in Received(p, "PDelayReq")' : j = last
      BY <1>3, <3>2
    <3>4. \A j \in Own(p, "PDelayResp")' : j < last
      BY <1>3, <1>4
    <3> QED BY <2>2, <3>3, <3>4
  <2> QED BY <1>5, <2>1, <2>2
<1>14. AloneInv'
  BY <1>13 DEF AloneInv
<1>15. ASSUME NEW r, Waits(r)' PROVE Waits(r)
  <2>1. CASE \E m \in net' : m.type = "PDelayReq" /\ m.request = r
    BY <1>2, <2>1 DEF Waits
  <2>2. ASSUME NEW q \in Ports, NEW i \in Received(q, "PDelayReq")',
               eventSock'[q][i].request = r
        PROVE  Waits(r)
    BY <1>5, <2>2 DEF Waits
  <2> QED BY <1>15, <2>1, <2>2 DEF Waits
<1>16. ASSUME NEW r, NEW s, Responds(r, s)' PROVE Responds(r, s)
  <2>1. CASE \E m \in net' : m.type = "PDelayResp" /\ m.request = r /\ m.response = s
    BY <1>2, <2>1 DEF Responds
  <2>2. ASSUME NEW q \in Ports, NEW i \in Received(q, "PDelayResp")',
               eventSock'[q][i].request = r, eventSock'[q][i].response = s
        PROVE  Responds(r, s)
    BY <1>5, <2>2 DEF Responds
  <2>3. ASSUME NEW q \in Ports, NEW i \in Own(q, "PDelayResp")',
               eventSock'[q][i].request = r, eventSock'[q][i].response = s
        PROVE  Responds(r, s)
    BY <1>4, <2>3 DEF Responds
  <2>4. CASE \E q \in Ports :
               r \in pdelay_req_receive_time'[q] /\ s = pdelay_resp_receive_time'[q]
    BY <1>2, <2>4 DEF Responds
  <2> QED BY <1>16, <2>1, <2>2, <2>3, <2>4 DEF Responds
<1>17. ASSUME NEW r, NEW s, FollowsUp(r, s)' PROVE FollowsUp(r, s)
  <2>1. CASE \E m \in net' :
               m.type = "PDelayRespFollowUp" /\ m.request = r /\ m.response = s
    BY <1>2, <2>1 DEF FollowsUp
  <2>2. ASSUME NEW q \in Ports, NEW i \in Own(q, "PDelayResp")',
               r \in PdelayReqHeader'[q], s = eventSock'[q][i].response
        PROVE  FollowsUp(r, s)
    BY <1>2, <1>4, <2>2 DEF FollowsUp
  <2> QED BY <1>17, <2>1, <2>2 DEF FollowsUp
<1>18. AnswersInv'
  <2>1. \A r, s, t : Responds(r, s)' /\ Responds(r, t)' => s = t
    BY <1>16 DEF Pairing, AnswersInv
  <2>2. \A r, s : Waits(r)' => ~Responds(r, s)' /\ ~FollowsUp(r, s)'
    BY <1>15, <1>16, <1>17 DEF Pairing, AnswersInv
  <2>3. ASSUME NEW r, NEW s, NEW t, Responds(r, t)', FollowsUp(r, s)'
        PROVE  NotLater(s, t) /\ (Alone(r)' => s = t)
    <3>1. Responds(r, t) /\ FollowsUp(r, s)
      BY <1>16, <1>17, <2>3
    <3>2. r \in Transmission
      BY <3>1, AnsweredTyped DEF Pairing
    <3> QED BY <1>7, <3>1, <3>2 DEF Pairing, AnswersInv
  <2> QED BY <2>1, <2>2, <2>3 DEF AnswersInv, NotLater
<1> QED BY <1>9, <1>12, <1>14, <1>18 DEF Pairing

\* The number of the request a step issues has been given up by all that is left.
LEMMA StillInWindow ==
  ASSUME NEW k \in Nat, NEW a \in Nat, a < k, k - a <= SeqSize, Number(a) # Number(k)
  PROVE  a < k + 1 /\ k + 1 - a <= SeqSize
<1>1. SeqSize \in Nat
  BY SeqSizeAssumption
<1>2. CASE k - a = SeqSize
  <2>1. a = k - SeqSize
    BY <1>1, <1>2
  <2> QED BY <2>1, NumberRecurs
<1>3. CASE k - a # SeqSize
  BY <1>1, <1>3
<1> QED BY <1>2, <1>3

LEMMA IssuePairing ==
  ASSUME TypeOK, Pairing, NEW p \in Ports, issuePDelayReq(p)
  PROVE  Pairing'
<1>0. PICK n \in Nat : n = sentPDelayReqSequenceId[p]
  BY DEF TypeOK
<1> DEFINE this == [port |-> p, of |-> n]
           sent == Multicast(p, Ports \ {p}, "PDelayReq", Number(this.of), this, Cleared)
           own == Looped(p, "PDelayReq", Number(this.of), this, Cleared)
<1>1. /\ NumberFree(p) /\ Travel({}, sent)
      /\ eventSock' = [eventSock EXCEPT ![p] = Append(@, own)]
      /\ sentPDelayReqSequenceId' = [sentPDelayReqSequenceId EXCEPT ![p] = @ + 1]
      /\ crowded' = [crowded EXCEPT ![p] = FALSE]
      /\ UNCHANGED <<responses, stamps, PdelayReqHeader>>
  BY <1>0 DEF issuePDelayReq
<1>2. /\ this \in Transmission /\ this.port = p /\ this.of = n
      /\ own \in Message /\ own.type = "PDelayReq" /\ own.from = p
  <2>1. this \in Transmission /\ Number(this.of) \in Seqno
    BY NumberType DEF Transmission
  <2>2. own \in Message
    BY <2>1, SentTyped DEF Cleared, Stamps
  <2> QED BY <2>1, <2>2 DEF Looped, Sent
<1>3. /\ sentPDelayReqSequenceId'[p] = n + 1
      /\ \A q \in Ports \ {p} : sentPDelayReqSequenceId'[q] = sentPDelayReqSequenceId[q]
  BY <1>0, <1>1 DEF TypeOK
<1>4. \A m \in sent : /\ m.type = "PDelayReq" /\ m.from = p /\ m.to # p
                      /\ m.id = Number(n) /\ m.request = this /\ m.response = Cleared
  BY DEF Multicast, Sent
<1>5. net' \subseteq net \cup sent
  <2> HIDE DEF sent
  <2> QED BY <1>1, TravelBounded
<1> HIDE DEF sent, own
<1>6. ASSUME NEW q \in Ports, NEW type
      PROVE  /\ Received(q, type)' = Received(q, type)
             /\ \A i \in Received(q, type) : eventSock'[q][i] = eventSock[q][i]
             /\ type # "PDelayReq" => Own(q, type)' = Own(q, type)
             /\ \A i \in Own(q, type) : eventSock'[q][i] = eventSock[q][i]
  <2>1. /\ Received(q, type) \subseteq DOMAIN eventSock[q]
        /\ Own(q, type) \subseteq DOMAIN eventSock[q]
    BY DEF Received, Own
  <2>2. PICK last \in Nat :
    /\ eventSock'[p][last] = own /\ last \notin DOMAIN eventSock[p]
    /\ \A i \in DOMAIN eventSock[p] :
         i \in Nat \ {0} /\ i < last /\ eventSock'[p][i] = eventSock[p][i]
    /\ \A t :
         /\ Received(p, t)' = Received(p, t) \cup {i \in {last} : own.type = t /\ own.from # p}
         /\ Own(p, t)' = Own(p, t) \cup {i \in {last} : own.type = t /\ own.from = p}
    /\ \A r \in Ports \ {p} :
         /\ eventSock'[r] = eventSock[r]
         /\ \A t : Received(r, t)' = Received(r, t) /\ Own(r, t)' = Own(r, t)
    BY <1>1, <1>2, Appended
  <2>3. CASE q = p
    BY <1>2, <2>1, <2>2, <2>3
  <2>4. CASE q # p
    BY <2>2, <2>4
  <2> QED BY <2>3, <2>4
<1>7. ASSUME NEW r \in Transmission, InWindow(r), r.port = p => Number(r.of) # Number(n)
      PROVE  InWindow(r)'
  <2>1. r.of \in Nat /\ r.port \in Ports
    BY DEF Transmission
  <2>2. CASE r.port = p
    BY <1>0, <1>3, <1>7, <2>1, <2>2, StillInWindow DEF InWindow, Issued
  <2>3. CASE r.port # p
    BY <1>3, <1>7, <2>1, <2>3 DEF InWindow, Issued
  <2> QED BY <2>2, <2>3
<1>8. InWindow(this)'
  <2>1. SeqSize \in Nat /\ 1 <= SeqSize
    BY SeqSizeAssumption
  <2> QED BY <1>2, <1>3, <2>1 DEF InWindow, Issued
<1>9. \A r \in Transmission : Issued(r) => Issued(r)'
  BY <1>0, <1>3 DEF Issued, Transmission
<1>10. ASSUME NEW msg \in Message, MessageInv(msg),
              msg.request.port = p => msg.id # Number(n)
       PROVE  MessageInv(msg)'
  <2>1. msg.request \in Transmission
    BY DEF Message
  <2>2. InWindow(msg.request)'
    BY <1>7, <1>10, <2>1 DEF MessageInv
  <2> QED BY <1>10, <2>2 DEF MessageInv
<1>11. ASSUME NEW msg \in net' PROVE MessageInv(msg)'
  <2>1. CASE msg \in net
    BY <1>0, <1>1, <1>10, <2>1 DEF TypeOK, Pairing, ExchangeInv, NumberFree
  <2>2. CASE msg \in sent
    <3>1. /\ msg.type = "PDelayReq" /\ msg.from = p /\ msg.to # p
          /\ msg.id = Number(n) /\ msg.request = this /\ msg.response = Cleared
      BY <1>4, <2>2
    <3>2. InWindow(msg.request)'
      <4> HIDE DEF this
      <4> QED BY <1>8, <3>1
    <3> QED BY <1>2, <3>1, <3>2 DEF MessageInv
  <2> QED BY <1>5, <2>1, <2>2
<1>12. ASSUME NEW q \in Ports PROVE SocketInv(q)'
  <2>1. SocketInv(q)
    BY DEF Pairing, ExchangeInv
  <2>2. ASSUME NEW i \in Received(q, "PDelayReq") \cup Received(q, "PDelayResp"),
               NEW m, m = eventSock[q][i]
        PROVE  MessageInv(m)'
    <3>1. m \in Message /\ MessageInv(m)
      BY <2>1, <2>2, WaitingTyped DEF SocketInv, Received
    <3>2. m.request.port = p => m.id # Number(n)
      BY <1>0, <1>1, <2>2 DEF NumberFree
    <3> QED BY <1>10, <3>1, <3>2
  <2>3. ASSUME NEW i \in Own(q, "PDelayResp")
        PROVE  /\ \A r : r = eventSock[q][i].request => Issued(r)'
               /\ \E t \in Transmission : /\ eventSock[q][i].response = {t}
                                          /\ t.port = q /\ t.of < responses[q]
    <3>1. eventSock[q][i].request \in Transmission
      BY WaitingTyped DEF Own
    <3> QED BY <1>9, <2>1, <3>1 DEF SocketInv
  <2>4. ASSUME NEW h \in PdelayReqHeader[q]
        PROVE  h.port # q /\ (Own(q, "PDelayResp") # {} => InWindow(h)')
    <3>1. h.port # q /\ h \in Transmission
      BY <2>1 DEF SocketInv, TypeOK, Stamps
    <3>2. ASSUME Own(q, "PDelayResp") # {} PROVE InWindow(h)'
      <4>1. InWindow(h)
        BY <2>1, <3>2 DEF SocketInv
      <4>2. h.port = p => Number(h.of) # Number(n)
        BY <1>0, <1>1, <3>2 DEF NumberFree
      <4> QED BY <1>7, <3>1, <4>1, <4>2
    <3> QED BY <3>1, <3>2
  <2>5. \A i \in Received(q, "PDelayReq")' \cup Received(q, "PDelayResp")' :
          /\ i \in Received(q, "PDelayReq") \cup Received(q, "PDelayResp")
          /\ eventSock'[q][i] = eventSock[q][i]
    BY <1>6
  <2>6. /\ \A i \in Own(q, "PDelayResp")' :
             i \in Own(q, "PDelayResp") /\ eventSock'[q][i] = eventSock[q][i]
        /\ Own(q, "PDelayResp")' # {} => Own(q, "PDelayResp") # {}
    BY <1>6
  <2>7. (\A i \in Received(q, "PDelayReq") \cup Received(q, "PDelayResp") :
           MessageInv(eventSock[q][i]))'
    BY <2>2, <2>5 DEF MessageInv, InWindow, Issued
  <2>8. (\A i \in Own(q, "PDelayResp") :
           /\ Issued(eventSock[q][i].request)
           /\ \E t \in Transmission : /\ eventSock[q][i].response = {t}
                                      /\ t.port = q /\ t.of < responses[q])'
    BY <1>1, <2>3, <2>6 DEF Issued
  <2>9. (\A h \in PdelayReqHeader[q] :
           h.port # q /\ (Own(q, "PDelayResp") # {} => InWindow(h)))'
    BY <1>1, <2>4, <2>6
  <2> QED BY <2>7, <2>8, <2>9 DEF SocketInv
<1>13. ASSUME NEW q \in Ports PROVE ToldInv(q)'
  <2>1. ASSUME NEW r \in pdelay_req_receive_time[q] PROVE InWindow(r)'
    <3>1. r \in Transmission /\ InWindow(r) /\ r.port = q
          /\ recvPDelayRespSequenceId[q] = Number(r.of)
      BY <2>1 DEF TypeOK, Stamps, Pairing, ExchangeInv, ToldInv
    <3>2. r.of \in Nat /\ r.of < sentPDelayReqSequenceId[q]
      BY <3>1 DEF Transmission, InWindow, Issued
    <3>3. r.port = p => Number(r.of) # Number(n)
      BY <1>0, <1>1, <3>1, <3>2 DEF NumberFree
    <3> QED BY <1>7, <3>1, <3>3
  <2> QED BY <1>1, <2>1 DEF stamps, Pairing, ExchangeInv, ToldInv
<1>14. ExchangeInv'
  BY <1>11, <1>12, <1>13 DEF ExchangeInv
<1>15. ASSUME NEW q \in Ports, NEW i \in Received(q, "PDelayReq")
       PROVE  /\ eventSock[q][i].request \in Transmission
              /\ eventSock[q][i].request # this
  <2>1. eventSock[q][i].request \in Transmission
    BY WaitingTyped DEF Received
  <2>2. Issued(eventSock[q][i].request)
    BY DEF Pairing, ExchangeInv, SocketInv, MessageInv, InWindow
  <2> QED BY <1>0, <1>2, <2>1, <2>2 DEF Issued
<1>16. WaitingInv'
  <2>1. ASSUME NEW q \in Ports, NEW i \in Received(q, "PDelayReq"), NEW msg \in net',
               msg.type = "PDelayReq"
        PROVE  msg.request # eventSock[q][i].request
    BY <1>4, <1>5, <1>15, <2>1 DEF Pairing, WaitingInv
  <2> QED BY <1>6, <2>1 DEF Pairing, WaitingInv
<1>17. ASSUME NEW r \in Transmission, r # this, Alone(r)' PROVE Alone(r)
  <2>1. r = [port |-> r.port, of |-> sentPDelayReqSequenceId'[r.port] - 1]
        /\ ~crowded'[r.port] /\ r.port \in Ports
    BY <1>17 DEF Alone, LastRequest, Transmission
  <2>2. r.port # p
    BY <1>0, <1>3, <1>17, <2>1
  <2> QED BY <1>1, <1>3, <2>1, <2>2 DEF Alone, LastRequest, TypeOK
<1>18. AloneInv'
  <2>1. ASSUME NEW q \in Ports, NEW i \in Received(q, "PDelayReq"), NEW r,
               r = eventSock[q][i].request, Alone(r)'
        PROVE  /\ \A j \in Received(q, "PDelayReq") : i <= j
               /\ \A j \in Own(q, "PDelayResp") : j < i
    <3>1. Alone(eventSock[q][i].request)
      BY <1>15, <1>17, <2>1
    <3> QED BY <3>1 DEF Pairing, AloneInv
  <2> QED BY <1>6, <2>1 DEF AloneInv
<1>19. ASSUME NEW r, Waits(r)' PROVE Waits(r) \/ r = this
  <2>1. CASE \E m \in net' : m.type = "PDelayReq" /\ m.request = r
    BY <1>4, <1>5, <2>1 DEF Waits
  <2>2. ASSUME NEW q \in Ports, NEW i \in Received(q, "PDelayReq")',
               eventSock'[q][i].request = r
        PROVE  Waits(r)
    BY <1>6, <2>2 DEF Waits
  <2> QED BY <1>19, <2>1, <2>2 DEF Waits
<1>20. ASSUME NEW r, NEW s, Responds(r, s)' PROVE Responds(r, s)
  <2>1. CASE \E m \in net' : m.type = "PDelayResp" /\ m.request = r /\ m.response = s
    BY <1>4, <1>5, <2>1 DEF Responds
  <2>2. ASSUME NEW q \in Ports,
               NEW i \in Received(q, "PDelayResp")' \cup Own(q, "PDelayResp")',
               eventSock'[q][i].request = r, eventSock'[q][i].response = s
        PROVE  Responds(r, s)
    BY <1>6, <2>2 DEF Responds
  <2>3. CASE \E q \in Ports :
               r \in pdelay_req_receive_time'[q] /\ s = pdelay_resp_receive_time'[q]
    BY <1>1, <2>3 DEF Responds, stamps
  <2> QED BY <1>20, <2>1, <2>2, <2>3 DEF Responds
<1>21. ASSUME NEW r, NEW s, FollowsUp(r, s)' PROVE FollowsUp(r, s)
  <2>1. CASE \E m \in net' :
               m.type = "PDelayRespFollowUp" /\ m.request = r /\ m.response = s
    BY <1>4, <1>5, <2>1 DEF FollowsUp
  <2>2. ASSUME NEW q \in Ports, NEW i \in Own(q, "PDelayResp")',
               r \in PdelayReqHeader'[q], s = eventSock'[q][i].response
        PROVE  FollowsUp(r, s)
    <3>1. /\ i \in Own(q, "PDelayResp") /\ r \in PdelayReqHeader[q]
          /\ s = eventSock[q][i].response
      <4>1. /\ Own(q, "PDelayResp")' = Own(q, "PDelayResp")
            /\ \A j \in Own(q, "PDelayResp") : eventSock'[q][j] = eventSock[q][j]
        BY <1>6
      <4>2. PdelayReqHeader'[q] = PdelayReqHeader[q]
        BY <1>1
      <4> QED BY <2>2, <4>1, <4>2
    <3> QED BY <3>1 DEF FollowsUp
  <2> QED BY <1>21, <2>1, <2>2 DEF FollowsUp
<1>22. \A s : ~Responds(this, s) /\ ~FollowsUp(this, s)
  <2>1. ~Issued(this)
    BY <1>0, <1>2 DEF Issued
  <2> HIDE DEF this
  <2> QED BY <2>1, AnsweredWasIssued DEF Pairing
<1> HIDE DEF this
<1>23. AnswersInv'
  <2>1. \A r, s, t : Responds(r, s)' /\ Responds(r, t)' => s = t
    BY <1>20 DEF Pairing, AnswersInv
  <2>2. \A r, s : Waits(r)' => ~Responds(r, s)' /\ ~FollowsUp(r, s)'
    BY <1>19, <1>20, <1>21, <1>22 DEF Pairing, AnswersInv
  <2>3. ASSUME NEW r, NEW s, NEW t, Responds(r, t)', FollowsUp(r, s)'
        PROVE  NotLater(s, t) /\ (Alone(r)' => s = t)
    <3>1. Responds(r, t) /\ FollowsUp(r, s) /\ r # this
      BY <1>20, <1>21, <1>22, <2>3
    <3>2. r \in Transmission
      BY <3>1, AnsweredTyped
    <3> QED BY <1>17, <3>1, <3>2 DEF Pairing, AnswersInv
  <2> QED BY <2>1, <2>2, <2>3 DEF AnswersInv, NotLater
<1> QED BY <1>14, <1>16, <1>18, <1>23 DEF Pairing

\* The first is taken and a response added at the end.
LEMMA Handled ==
  ASSUME TypeOK, NEW p \in Ports, eventSock[p] # <<>>, NEW x \in Message,
         x.type = "PDelayResp", x.from = p, ReadEvent(p, <<x>>)
  PROVE  \E last :
    /\ eventSock'[p][last] = x
    /\ \A type : \A i \in Received(p, type)' :
         /\ i \in Nat \ {0} /\ i + 1 \in Received(p, type)
         /\ eventSock'[p][i] = eventSock[p][i + 1]
    /\ \A type : \A i \in Own(p, type)' :
         \/ /\ i \in Nat \ {0} /\ i + 1 \in Own(p, type)
            /\ eventSock'[p][i] = eventSock[p][i + 1]
         \/ type = "PDelayResp" /\ i = last
    /\ last \in Own(p, "PDelayResp")'
    /\ \A q \in Ports \ {p} :
         /\ eventSock'[q] = eventSock[q]
         /\ \A type : Received(q, type)' = Received(q, type) /\ Own(q, type)' = Own(q, type)
<1> DEFINE rest == Tail(eventSock[p])
           last == Len(rest) + 1
<1>1. eventSock[p] \in Seq(Message) /\ rest \in Seq(Message)
  BY SocketTyped DEF TypeOK
<1>2. eventSock'[p] = Append(rest, x)
  BY <1>1, TailAppendOf DEF ReadEvent, TypeOK
<1>3. \A i \in DOMAIN rest : /\ i \in Nat \ {0} /\ i + 1 \in DOMAIN eventSock[p]
                            /\ rest[i] = eventSock[p][i + 1]
  BY <1>1, TailOf
<1>4. /\ DOMAIN eventSock'[p] = DOMAIN rest \cup {last}
      /\ \A i \in DOMAIN rest : eventSock'[p][i] = rest[i]
      /\ eventSock'[p][last] = x
  BY <1>1, <1>2, AppendOf
<1> HIDE DEF last, rest
<1>5. ASSUME NEW type, NEW i \in Received(p, type)'
      PROVE  /\ i \in Nat \ {0} /\ i + 1 \in Received(p, type)
             /\ eventSock'[p][i] = eventSock[p][i + 1]
  BY <1>3, <1>4 DEF Received
<1>6. ASSUME NEW type, NEW i \in Own(p, type)'
      PROVE  \/ /\ i \in Nat \ {0} /\ i + 1 \in Own(p, type)
                /\ eventSock'[p][i] = eventSock[p][i + 1]
             \/ type = "PDelayResp" /\ i = last
  BY <1>3, <1>4 DEF Own
<1>7. last \in Own(p, "PDelayResp")'
  BY <1>4 DEF Own
<1>8. ASSUME NEW q \in Ports \ {p}
      PROVE  /\ eventSock'[q] = eventSock[q]
             /\ \A type : Received(q, type)' = Received(q, type) /\ Own(q, type)' = Own(q, type)
  <2>1. eventSock'[q] = eventSock[q]
    BY DEF ReadEvent, TypeOK
  <2> QED BY <2>1 DEF Received, Own
<1> QED BY <1>4, <1>5, <1>6, <1>7, <1>8

LEMMA RequestPairing ==
  ASSUME TwoPorts, TypeOK, Pairing, NEW p \in Ports, handlePDelayReq(p)
  PROVE  Pairing'
<1>0. PICK msg \in Message : msg = Head(eventSock[p])
  BY HeadTyped DEF handlePDelayReq, Reads
<1>1. PICK this \in Transmission : this = [port |-> p, of |-> responses[p]]
  BY DEF TypeOK, Transmission
<1> DEFINE sent == Multicast(p, Ports \ {p}, "PDelayResp", msg.id, msg.request, {this})
           own == Looped(p, "PDelayResp", msg.id, msg.request, {this})
<1>2. /\ eventSock[p] # <<>> /\ ReadEvent(p, <<own>>) /\ Travel({}, sent)
      /\ PdelayReqHeader' = [PdelayReqHeader EXCEPT ![p] = {msg.request}]
      /\ responses' = [responses EXCEPT ![p] = @ + 1]
      /\ UNCHANGED <<sentPDelayReqSequenceId, crowded, recvPDelayRespSequenceId,
                     pdelay_req_receive_time, pdelay_resp_receive_time>>
  BY <1>0, <1>1 DEF handlePDelayReq, Reads, stamps, history
<1>3. /\ 1 \in Received(p, "PDelayReq") /\ msg = eventSock[p][1]
      /\ msg.type = "PDelayReq" /\ msg.from # p /\ MessageInv(msg)
  <2>1. /\ 1 \in Received(p, "PDelayReq") /\ msg = eventSock[p][1]
        /\ msg.type = "PDelayReq" /\ msg.from # p
    BY <1>0, HeadWaits DEF handlePDelayReq
  <2> QED BY <2>1 DEF Pairing, ExchangeInv, SocketInv
<1>4. PICK r \in Transmission :
        r = msg.request /\ r.port = msg.from /\ InWindow(r) /\ msg.id = Number(r.of)
  BY <1>3 DEF Message, MessageInv
<1>5. /\ own \in Message /\ own.type = "PDelayResp" /\ own.from = p
      /\ own.request = r /\ own.response = {this}
  <2>1. msg.id \in Seqno /\ msg.request \in Transmission /\ {this} \in Stamps
    BY DEF Message, Stamps
  <2>2. own \in Message
    BY <2>1, SentTyped DEF Looped
  <2> QED BY <1>4, <2>2 DEF Looped, Sent
<1>6. \A m \in sent : /\ m.type = "PDelayResp" /\ m.from = p /\ m.to # p
                      /\ m.id = msg.id /\ m.request = r /\ m.response = {this}
  BY <1>4 DEF Multicast, Sent
<1>7. net' \subseteq net \cup sent
  <2> HIDE DEF sent
  <2> QED BY <1>2, TravelBounded
<1> HIDE DEF sent, own
<1>8. PICK last :
    /\ eventSock'[p][last] = own
    /\ \A type : \A i \in Received(p, type)' :
         /\ i \in Nat \ {0} /\ i + 1 \in Received(p, type)
         /\ eventSock'[p][i] = eventSock[p][i + 1]
    /\ \A type : \A i \in Own(p, type)' :
         \/ /\ i \in Nat \ {0} /\ i + 1 \in Own(p, type)
            /\ eventSock'[p][i] = eventSock[p][i + 1]
         \/ type = "PDelayResp" /\ i = last
    /\ last \in Own(p, "PDelayResp")'
    /\ \A q \in Ports \ {p} :
         /\ eventSock'[q] = eventSock[q]
         /\ \A type : Received(q, type)' = Received(q, type) /\ Own(q, type)' = Own(q, type)
  BY <1>2, <1>5, Handled
<1>9. /\ PdelayReqHeader'[p] = {r} /\ responses[p] \in Nat
      /\ responses'[p] = responses[p] + 1
      /\ \A q \in Ports \ {p} :
           PdelayReqHeader'[q] = PdelayReqHeader[q] /\ responses'[q] = responses[q]
      /\ this.port = p /\ this.of = responses[p]
  BY <1>1, <1>2, <1>4 DEF TypeOK
<1>10. /\ \A x : (Issued(x)' <=> Issued(x)) /\ (InWindow(x)' <=> InWindow(x))
       /\ \A m : MessageInv(m)' <=> MessageInv(m)
       /\ \A x : Alone(x)' <=> Alone(x)
  BY <1>2, MessagesKept DEF Alone
<1>11. ASSUME NEW q \in Ports, NEW type, NEW i \in Received(q, type)'
       PROVE  \E j \in Received(q, type) : eventSock'[q][i] = eventSock[q][j]
  BY <1>8
<1>12. ASSUME NEW q \in Ports, NEW i \in Own(q, "PDelayResp")'
       PROVE  \/ \E j \in Own(q, "PDelayResp") : eventSock'[q][i] = eventSock[q][j]
              \/ q = p /\ eventSock'[q][i] = own
  BY <1>8
<1>13. ASSUME NEW q \in Ports PROVE SocketInv(q)'
  <2>1. SocketInv(q) /\ SocketInv(p)
    BY DEF Pairing, ExchangeInv
  <2>2. \A i \in Received(q, "PDelayReq")' \cup Received(q, "PDelayResp")' :
          MessageInv(eventSock'[q][i])
    BY <1>11, <2>1 DEF SocketInv
  <2>3. ASSUME NEW i \in Own(q, "PDelayResp")'
        PROVE  /\ Issued(eventSock'[q][i].request)
               /\ \E t \in Transmission : /\ eventSock'[q][i].response = {t}
                                          /\ t.port = q /\ t.of < responses'[q]
    <3>1. CASE q = p /\ eventSock'[q][i] = own
      <4>1. Issued(r) /\ this.of < responses'[p]
        BY <1>4, <1>9 DEF InWindow
      <4> QED BY <1>5, <1>9, <3>1, <4>1
    <3>2. ASSUME NEW j \in Own(q, "PDelayResp"), eventSock'[q][i] = eventSock[q][j]
          PROVE  /\ Issued(eventSock'[q][i].request)
                 /\ \E t \in Transmission : /\ eventSock'[q][i].response = {t}
                                            /\ t.port = q /\ t.of < responses'[q]
      <4>1. Issued(eventSock[q][j].request)
        BY <2>1 DEF SocketInv
      <4>2. PICK t \in Transmission : /\ eventSock[q][j].response = {t}
                                      /\ t.port = q /\ t.of < responses[q]
        BY <2>1 DEF SocketInv
      <4>3. t.of < responses'[q]
        BY <1>9, <4>2 DEF Transmission
      <4> QED BY <3>2, <4>1, <4>2, <4>3
    <3> QED BY <1>12, <3>1, <3>2
  <2>4. \A h \in PdelayReqHeader'[q] :
          h.port # q /\ (Own(q, "PDelayResp")' # {} => InWindow(h))
    <3>1. CASE q = p
      BY <1>3, <1>4, <1>9, <3>1
    <3>2. CASE q # p
      BY <1>8, <1>9, <2>1, <3>2 DEF SocketInv
    <3> QED BY <3>1, <3>2
  <2> QED BY <1>2, <2>2, <2>3, <2>4 DEF SocketInv, MessageInv, InWindow, Issued
<1>14. ASSUME NEW m \in net' PROVE MessageInv(m)'
  <2>1. CASE m \in net
    BY <1>10, <2>1 DEF Pairing, ExchangeInv
  <2>2. CASE m \in sent
    <3>1. MessageInv(m)
      BY <1>3, <1>4, <1>6, <1>9, <2>2 DEF MessageInv
    <3> QED BY <1>10, <3>1
  <2> QED BY <1>7, <2>1, <2>2
<1>15. ExchangeInv'
  <2>1. \A q \in Ports : ToldInv(q)'
    BY <1>2, ToldKept DEF Pairing
  <2> QED BY <1>13, <1>14, <2>1 DEF ExchangeInv
<1>16. \A m \in net' : m.type # "PDelayResp" => m \in net
  BY <1>6, <1>7
<1>17. ASSUME NEW q \in Ports, NEW i \in Received(q, "PDelayReq")'
       PROVE  /\ eventSock'[q][i].request # r
              /\ \A m \in net' :
                   m.type = "PDelayReq" => m.request # eventSock'[q][i].request
              /\ \A j \in Received(q, "PDelayReq")' :
                   eventSock'[q][j].request = eventSock'[q][i].request => i = j
  <2>1. CASE q = p
    <3>1. /\ i \in Nat \ {0} /\ i + 1 \in Received(p, "PDelayReq")
          /\ eventSock'[p][i] = eventSock[p][i + 1]
      BY <1>8, <2>1
    <3>2. eventSock[p][i + 1].request # r
      <4>1. i + 1 # 1
        BY <3>1
      <4> QED BY <1>3, <1>4, <3>1, <4>1 DEF Pairing, WaitingInv
    <3>3. ASSUME NEW m \in net', m.type = "PDelayReq"
          PROVE  m.request # eventSock[p][i + 1].request
      BY <1>16, <3>1, <3>3 DEF Pairing, WaitingInv
    <3>4. ASSUME NEW j \in Received(p, "PDelayReq")',
                 eventSock'[p][j].request = eventSock'[p][i].request
          PROVE  i = j
      <4>1. /\ j \in Nat \ {0} /\ j + 1 \in Received(p, "PDelayReq")
            /\ eventSock'[p][j] = eventSock[p][j + 1]
        BY <1>8
      <4>2. i + 1 = j + 1
        BY <3>1, <3>4, <4>1 DEF Pairing, WaitingInv
      <4> QED BY <3>1, <4>1, <4>2
    <3> QED BY <2>1, <3>1, <3>2, <3>3, <3>4
  <2>2. CASE q # p
    <3>1. /\ eventSock'[q] = eventSock[q]
          /\ Received(q, "PDelayReq")' = Received(q, "PDelayReq")
      BY <1>8, <2>2
    <3>2. eventSock[q][i].request # r
      <4>1. /\ eventSock[q][i].type = "PDelayReq" /\ eventSock[q][i].from # q
            /\ MessageInv(eventSock[q][i])
        BY <3>1 DEF Received, Pairing, ExchangeInv, SocketInv
      <4>2. eventSock[q][i].from = eventSock[q][i].request.port
        BY <4>1 DEF MessageInv
      <4>3. r.port = q
        BY <1>3, <1>4, <2>2, TwoPortsOnly DEF Transmission
      <4> QED BY <4>1, <4>2, <4>3
    <3>3. ASSUME NEW m \in net', m.type = "PDelayReq"
          PROVE  m.request # eventSock[q][i].request
      BY <1>16, <3>1, <3>3 DEF Pairing, WaitingInv
    <3> QED BY <3>1, <3>2, <3>3 DEF Pairing, WaitingInv
  <2> QED BY <2>1, <2>2
<1>18. WaitingInv'
  BY <1>17 DEF WaitingInv
<1>19. AloneInv'
  <2>1. ASSUME NEW q \in Ports, NEW i \in Received(q, "PDelayReq")',
               Alone(eventSock'[q][i].request)
        PROVE  /\ \A j \in Received(q, "PDelayReq")' : i <= j
               /\ \A j \in Own(q, "PDelayResp")' : j < i
    <3>1. CASE q = p
      <4>1. /\ i \in Nat \ {0} /\ i + 1 \in Received(p, "PDelayReq")
            /\ Alone(eventSock[p][i + 1].request)
        BY <1>8, <2>1, <3>1
      <4>2. i + 1 <= 1
        BY <1>3, <4>1 DEF Pairing, AloneInv
      <4> QED BY <4>1, <4>2
    <3>2. CASE q # p
      BY <1>8, <2>1, <3>2 DEF Pairing, AloneInv
    <3> QED BY <3>1, <3>2
  <2> QED BY <1>2, <2>1 DEF AloneInv, Alone, LastRequest
<1>20. ASSUME NEW x, Waits(x)' PROVE Waits(x) /\ x # r
  <2>1. ASSUME NEW m \in net', m.type = "PDelayReq", m.request = x
        PROVE  Waits(x) /\ x # r
    BY <1>3, <1>4, <1>16, <2>1 DEF Waits, Pairing, WaitingInv
  <2>2. ASSUME NEW q \in Ports, NEW i \in Received(q, "PDelayReq")',
               eventSock'[q][i].request = x
        PROVE  Waits(x) /\ x # r
    BY <1>11, <1>17, <2>2 DEF Waits
  <2> QED BY <1>20, <2>1, <2>2 DEF Waits
<1>21. ASSUME NEW x, NEW s, Responds(x, s)'
       PROVE  Responds(x, s) \/ (x = r /\ s = {this})
  <2>1. CASE \E m \in net' : m.type = "PDelayResp" /\ m.request = x /\ m.response = s
    BY <1>6, <1>7, <2>1 DEF Responds
  <2>2. ASSUME NEW q \in Ports, NEW i \in Received(q, "PDelayResp")',
               eventSock'[q][i].request = x, eventSock'[q][i].response = s
        PROVE  Responds(x, s)
    BY <1>11, <2>2 DEF Responds
  <2>3. ASSUME NEW q \in Ports, NEW i \in Own(q, "PDelayResp")',
               eventSock'[q][i].request = x, eventSock'[q][i].response = s
        PROVE  Responds(x, s) \/ (x = r /\ s = {this})
    <3>1. CASE \E j \in Own(q, "PDelayResp") : eventSock'[q][i] = eventSock[q][j]
      BY <2>3, <3>1 DEF Responds
    <3>2. CASE eventSock'[q][i] = own
      BY <1>5, <2>3, <3>2
    <3> QED BY <1>12, <3>1, <3>2
  <2>4. CASE \E q \in Ports :
               x \in pdelay_req_receive_time'[q] /\ s = pdelay_resp_receive_time'[q]
    BY <1>2, <2>4 DEF Responds
  <2> QED BY <1>21, <2>1, <2>2, <2>3, <2>4 DEF Responds
<1>22. ASSUME NEW x, NEW s, FollowsUp(x, s)'
       PROVE  \/ FollowsUp(x, s)
              \/ x = r /\ s = {this}
              \/ x = r /\ \E j \in Own(p, "PDelayResp") : s = eventSock[p][j].response
  <2>1. CASE \E m \in net' :
               m.type = "PDelayRespFollowUp" /\ m.request = x /\ m.response = s
    BY <1>16, <2>1 DEF FollowsUp
  <2>2. ASSUME NEW q \in Ports, NEW i \in Own(q, "PDelayResp")',
               x \in PdelayReqHeader'[q], s = eventSock'[q][i].response
        PROVE  \/ FollowsUp(x, s)
               \/ x = r /\ s = {this}
               \/ x = r /\ \E j \in Own(p, "PDelayResp") : s = eventSock[p][j].response
    <3>1. CASE q = p
      BY <1>5, <1>9, <1>12, <2>2, <3>1
    <3>2. CASE q # p
      BY <1>9, <1>12, <2>2, <3>2 DEF FollowsUp
    <3> QED BY <3>1, <3>2
  <2> QED BY <1>22, <2>1, <2>2 DEF FollowsUp
<1>23. \A s : ~Responds(r, s) /\ ~FollowsUp(r, s)
  <2>1. Waits(r)
    BY <1>3, <1>4 DEF Waits
  <2> QED BY <2>1 DEF Pairing, AnswersInv
<1>24. ASSUME NEW s, FollowsUp(r, s)'
       PROVE  NotLater(s, {this}) /\ (Alone(r) => s = {this})
  <2>1. CASE s = {this}
    BY <1>9, <2>1 DEF NotLater
  <2>2. ASSUME NEW j \in Own(p, "PDelayResp"), s = eventSock[p][j].response
        PROVE  NotLater(s, {this}) /\ ~Alone(r)
    <3>1. PICK t \in Transmission : s = {t} /\ t.of < responses[p]
      BY <2>2 DEF Pairing, ExchangeInv, SocketInv
    <3>2. NotLater(s, {this})
      BY <1>9, <3>1 DEF NotLater, Transmission
    <3>3. ASSUME Alone(r) PROVE FALSE
      <4>1. j < 1
        BY <1>3, <1>4, <3>3 DEF Pairing, AloneInv
      <4>2. j \in Nat \ {0}
        BY TailOf DEF Own, TypeOK
      <4> QED BY <4>1, <4>2
    <3> QED BY <3>2, <3>3
  <2> QED BY <1>22, <1>23, <1>24, <2>1, <2>2
<1>25. AnswersInv'
  <2>1. \A x, s, t : Responds(x, s)' /\ Responds(x, t)' => s = t
    BY <1>21, <1>23 DEF Pairing, AnswersInv
  <2>2. \A x, s : Waits(x)' => ~Responds(x, s)' /\ ~FollowsUp(x, s)'
    BY <1>20, <1>21, <1>22 DEF Pairing, AnswersInv
  <2>3. ASSUME NEW x, NEW s, NEW t, Responds(x, t)', FollowsUp(x, s)'
        PROVE  NotLater(s, t) /\ (Alone(x)' => s = t)
    <3>1. CASE x = r
      <4>1. t = {this}
        BY <1>21, <1>23, <2>3, <3>1
      <4> QED BY <1>10, <1>24, <2>3, <3>1, <4>1
    <3>2. CASE x # r
      BY <1>10, <1>21, <1>22, <2>3, <3>2 DEF Pairing, AnswersInv
    <3> QED BY <3>1, <3>2
  <2> QED BY <2>1, <2>2, <2>3 DEF AnswersInv, NotLater
<1> QED BY <1>15, <1>18, <1>19, <1>25 DEF Pairing

LEMMA NextPairing ==
  TwoPorts /\ TypeOK /\ Pairing /\ [Next]_vars => Pairing'
<1> SUFFICES ASSUME TwoPorts, TypeOK, Pairing, [Next]_vars PROVE Pairing'
  OBVIOUS
<1>1. CASE UNCHANGED vars
  BY <1>1, TakesAway, ToldKept, SocketKept DEF vars, counts, stamps, history, Pairing
<1>2. CASE Next
  BY <1>2, VanishPairing, ArrivePairing, ToStatePairing, ReadPairing, IssuePairing,
     RequestPairing, OwnResponsePairing, ResponsePairing, FollowUpPairing DEF Next
<1> QED BY <1>1, <1>2


-----------------------------------------------------------------------------
(* The send time of the last request *)

LEMMA SameRequests ==
  ASSUME NEW p \in Ports, LastKnown(p),
         Own(p, "PDelayReq")' = Own(p, "PDelayReq"),
         \A i \in Own(p, "PDelayReq") : eventSock'[p][i] = eventSock[p][i],
         sentPDelayReqSequenceId'[p] = sentPDelayReqSequenceId[p],
         pdelay_req_send_time'[p] = pdelay_req_send_time[p]
  PROVE  LastKnown(p)'
<1>1. LastRequest(p)' = LastRequest(p)
  BY DEF LastRequest
<1> QED BY <1>1 DEF LastKnown

\* Nothing happens to the socket.
LEMMA SocketSame ==
  ASSUME NEW p \in Ports, LastKnown(p), eventSock'[p] = eventSock[p],
         sentPDelayReqSequenceId'[p] = sentPDelayReqSequenceId[p],
         pdelay_req_send_time'[p] = pdelay_req_send_time[p]
  PROVE  LastKnown(p)'
<1>1. Own(p, "PDelayReq")' = Own(p, "PDelayReq")
  BY DEF Own
<1> QED BY <1>1, SameRequests

\* The own requests that wait move up when the first message is read, whether a
\* response of the port's goes behind them or not.
LEMMA OwnMoveUp ==
  ASSUME TypeOK, NEW p \in Ports, eventSock[p] # <<>>, NEW own, ReadEvent(p, own),
         \/ own = <<>>
         \/ \E x \in Message : own = <<x>> /\ x.type = "PDelayResp"
  PROVE  /\ \A i \in Own(p, "PDelayReq")' :
              /\ i \in Nat \ {0} /\ i + 1 \in Own(p, "PDelayReq")
              /\ eventSock'[p][i] = eventSock[p][i + 1]
         /\ \A j \in Own(p, "PDelayReq") :
              j \in Nat \ {0} /\ (j # 1 => j - 1 \in Own(p, "PDelayReq")')
<1> DEFINE rest == Tail(eventSock[p])
<1>1. eventSock[p] \in Seq(Message) /\ rest \in Seq(Message)
  BY SocketTyped DEF TypeOK
<1>2. eventSock'[p] = rest \o own
  BY DEF ReadEvent, TypeOK
<1>3. /\ \A i \in DOMAIN rest : i \in DOMAIN eventSock'[p] /\ eventSock'[p][i] = rest[i]
      /\ \A i \in DOMAIN eventSock'[p] \ DOMAIN rest : eventSock'[p][i].type = "PDelayResp"
  <2>1. CASE own = <<>>
    BY <1>1, <1>2, <2>1, TailAppendOf, HeadTyped
  <2>2. ASSUME NEW x \in Message, own = <<x>>, x.type = "PDelayResp"
        PROVE  /\ \A i \in DOMAIN rest :
                    i \in DOMAIN eventSock'[p] /\ eventSock'[p][i] = rest[i]
               /\ \A i \in DOMAIN eventSock'[p] \ DOMAIN rest :
                    eventSock'[p][i].type = "PDelayResp"
    <3>1. eventSock'[p] = Append(rest, x)
      BY <1>1, <1>2, <2>2, TailAppendOf
    <3> HIDE DEF rest
    <3> QED BY <1>1, <2>2, <3>1, AppendOf
  <2> QED BY <2>1, <2>2
<1>4. \A i \in DOMAIN rest : /\ i \in Nat \ {0} /\ i + 1 \in DOMAIN eventSock[p]
                            /\ rest[i] = eventSock[p][i + 1]
  BY <1>1, TailOf
<1>5. \A j \in DOMAIN eventSock[p] :
        /\ j \in Nat \ {0}
        /\ j # 1 => j - 1 \in DOMAIN rest /\ rest[j - 1] = eventSock[p][j]
  BY <1>1, TailOf
<1> HIDE DEF rest
<1>6. ASSUME NEW i \in Own(p, "PDelayReq")'
      PROVE  /\ i \in Nat \ {0} /\ i + 1 \in Own(p, "PDelayReq")
             /\ eventSock'[p][i] = eventSock[p][i + 1]
  BY <1>3, <1>4 DEF Own
<1>7. ASSUME NEW j \in Own(p, "PDelayReq")
      PROVE  j \in Nat \ {0} /\ (j # 1 => j - 1 \in Own(p, "PDelayReq")')
  <2>1. /\ j \in DOMAIN eventSock[p] /\ eventSock[p][j].type = "PDelayReq"
        /\ eventSock[p][j].from = p
    BY DEF Own
  <2>2. j # 1 => /\ j - 1 \in DOMAIN eventSock'[p]
                 /\ eventSock'[p][j - 1] = eventSock[p][j]
    BY <1>3, <1>5, <2>1
  <2> QED BY <1>5, <2>1, <2>2 DEF Own
<1> QED BY <1>6, <1>7

\* Reading an own request takes its send time; reading anything else keeps the own
\* requests that wait.
LEMMA RequestRead ==
  ASSUME TypeOK, NEW p \in Ports, LastKnown(p), eventSock[p] # <<>>,
         NEW own, ReadEvent(p, own),
         \/ own = <<>>
         \/ \E x \in Message : own = <<x>> /\ x.type = "PDelayResp",
         UNCHANGED sentPDelayReqSequenceId,
         pdelay_req_send_time'[p] = IF 1 \in Own(p, "PDelayReq")
                                      THEN {eventSock[p][1].request}
                                      ELSE pdelay_req_send_time[p]
  PROVE  LastKnown(p)'
<1>1. LastRequest(p)' = LastRequest(p)
  BY DEF LastRequest
<1>2. /\ \A i \in Own(p, "PDelayReq")' :
           /\ i \in Nat \ {0} /\ i + 1 \in Own(p, "PDelayReq")
           /\ eventSock'[p][i] = eventSock[p][i + 1]
      /\ \A j \in Own(p, "PDelayReq") :
           j \in Nat \ {0} /\ (j # 1 => j - 1 \in Own(p, "PDelayReq")')
  BY OwnMoveUp
<1>3. ASSUME NEW i \in Own(p, "PDelayReq")', \A j \in Own(p, "PDelayReq")' : j <= i
      PROVE  eventSock'[p][i].request = LastRequest(p)
  <2>1. /\ i \in Nat \ {0} /\ i + 1 \in Own(p, "PDelayReq")
        /\ eventSock'[p][i] = eventSock[p][i + 1]
    BY <1>2
  <2>2. ASSUME NEW j \in Own(p, "PDelayReq") PROVE j <= i + 1
    <3>1. j \in Nat \ {0}
      BY <1>2
    <3>2. CASE j = 1
      BY <2>1, <3>2
    <3>3. CASE j # 1
      <4>1. j - 1 <= i
        BY <1>2, <1>3, <3>3
      <4> QED BY <2>1, <3>1, <4>1
    <3> QED BY <3>2, <3>3
  <2> QED BY <2>1, <2>2 DEF LastKnown
<1>4. ASSUME Own(p, "PDelayReq")' = {} PROVE pdelay_req_send_time'[p] = {LastRequest(p)}
  <2>1. \A j \in Own(p, "PDelayReq") : j = 1
    BY <1>2, <1>4
  <2>2. CASE 1 \in Own(p, "PDelayReq")
    <3>1. eventSock[p][1].request = LastRequest(p)
      BY <2>1, <2>2 DEF LastKnown
    <3> QED BY <2>2, <3>1
  <2>3. CASE 1 \notin Own(p, "PDelayReq")
    <3>1. Own(p, "PDelayReq") = {}
      BY <2>1, <2>3
    <3> QED BY <2>3, <3>1 DEF LastKnown
  <2> QED BY <2>2, <2>3
<1> QED BY <1>1, <1>3, <1>4 DEF LastKnown

\* A request waits where it was issued, behind all others.
LEMMA RequestWaits ==
  ASSUME TypeOK, NEW p \in Ports, issuePDelayReq(p)
  PROVE  LastKnown(p)'
<1>0. PICK n \in Nat : n = sentPDelayReqSequenceId[p]
  BY DEF TypeOK
<1> DEFINE this == [port |-> p, of |-> n]
           own == Looped(p, "PDelayReq", Number(n), this, Cleared)
<1>1. /\ eventSock' = [eventSock EXCEPT ![p] = Append(@, own)]
      /\ sentPDelayReqSequenceId' = [sentPDelayReqSequenceId EXCEPT ![p] = @ + 1]
  BY <1>0 DEF issuePDelayReq
<1>2. this \in Transmission /\ Number(n) \in Seqno /\ Cleared \in Stamps
  BY NumberType DEF Transmission, Cleared, Stamps
<1>3. own \in Message /\ own.type = "PDelayReq" /\ own.from = p /\ own.request = this
  <2>1. own \in Message
    <3> HIDE DEF this
    <3> QED BY <1>2, SentTyped
  <2> QED BY <2>1 DEF Looped, Sent
<1>4. LastRequest(p)' = this
  <2>1. sentPDelayReqSequenceId'[p] = n + 1
    BY <1>0, <1>1 DEF TypeOK
  <2> QED BY <2>1 DEF LastRequest
<1> HIDE DEF own
<1>5. PICK last \in Nat :
    /\ eventSock'[p][last] = own /\ last \notin DOMAIN eventSock[p]
    /\ \A i \in DOMAIN eventSock[p] :
         i \in Nat \ {0} /\ i < last /\ eventSock'[p][i] = eventSock[p][i]
    /\ \A type :
         /\ Received(p, type)' =
              Received(p, type) \cup {i \in {last} : own.type = type /\ own.from # p}
         /\ Own(p, type)' =
              Own(p, type) \cup {i \in {last} : own.type = type /\ own.from = p}
    /\ \A r \in Ports \ {p} :
         /\ eventSock'[r] = eventSock[r]
         /\ \A type : Received(r, type)' = Received(r, type) /\ Own(r, type)' = Own(r, type)
  BY <1>1, <1>3, Appended
<1>6. /\ last \in Own(p, "PDelayReq")'
      /\ \A j \in Own(p, "PDelayReq")' : j # last => j \in Nat /\ j < last
  <2>1. Own(p, "PDelayReq")' = Own(p, "PDelayReq") \cup {last}
    BY <1>3, <1>5
  <2> QED BY <1>5, <2>1 DEF Own
<1>7. ASSUME NEW i \in Own(p, "PDelayReq")', \A j \in Own(p, "PDelayReq")' : j <= i
      PROVE  eventSock'[p][i].request = LastRequest(p)'
  <2>1. i = last
    BY <1>6, <1>7
  <2> QED BY <1>3, <1>4, <1>5, <2>1
<1> QED BY <1>6, <1>7 DEF LastKnown

\* Nothing of another port's socket and counts is touched.
LEMMA NextRequests == TypeOK /\ Pairing /\ RequestsInv /\ [Next]_vars => RequestsInv'
<1> SUFFICES ASSUME TypeOK, Pairing, RequestsInv, [Next]_vars,
                    NEW q \in Ports, steady'[q], portState'[q] # "DEAF"
             PROVE  LastKnown(q)'
  BY DEF RequestsInv
<1>0. steady[q] /\ portState[q] # "DEAF" => LastKnown(q)
  BY DEF RequestsInv
<1>1. CASE Vanish
  BY <1>0, <1>1, SocketSame DEF Vanish, counts, stamps, history
<1>2. ASSUME NEW msg \in net, Arrive(msg) PROVE LastKnown(q)'
  <2>1. msg \in Message /\ msg.to \in Ports /\ MessageInv(msg)
    BY DEF TypeOK, Message, Pairing, ExchangeInv
  <2>2. /\ eventSock' = [eventSock EXCEPT ![msg.to] = Append(@, msg)]
        /\ UNCHANGED <<portState, sentPDelayReqSequenceId, steady, pdelay_req_send_time>>
    BY <1>2 DEF Arrive, counts, stamps
  <2>3. LastKnown(q)
    BY <1>0, <2>2
  <2>4. CASE q = msg.to
    <3>1. PICK last \in Nat :
            /\ \A i \in DOMAIN eventSock[q] : eventSock'[q][i] = eventSock[q][i]
            /\ \A type : Own(q, type)' =
                 Own(q, type) \cup {i \in {last} : msg.type = type /\ msg.from = q}
      <4>0. eventSock' = [eventSock EXCEPT ![q] = Append(@, msg)]
        BY <2>2, <2>4
      <4>1. PICK last \in Nat :
          /\ eventSock'[q][last] = msg /\ last \notin DOMAIN eventSock[q]
          /\ \A i \in DOMAIN eventSock[q] :
               i \in Nat \ {0} /\ i < last /\ eventSock'[q][i] = eventSock[q][i]
          /\ \A type :
               /\ Received(q, type)' =
                    Received(q, type) \cup {i \in {last} : msg.type = type /\ msg.from # q}
               /\ Own(q, type)' =
                    Own(q, type) \cup {i \in {last} : msg.type = type /\ msg.from = q}
          /\ \A r \in Ports \ {q} :
               /\ eventSock'[r] = eventSock[r]
               /\ \A type : Received(r, type)' = Received(r, type) /\ Own(r, type)' = Own(r, type)
        BY <2>1, <4>0, Appended
      <4> QED BY <4>1
    <3>2. ~(msg.type = "PDelayReq" /\ msg.from = q)
      BY <2>1, <2>4 DEF MessageInv
    <3>3. Own(q, "PDelayReq")' = Own(q, "PDelayReq")
      BY <3>1, <3>2
    <3>4. \A i \in Own(q, "PDelayReq") : eventSock'[q][i] = eventSock[q][i]
      BY <3>1 DEF Own
    <3> QED BY <2>2, <2>3, <3>3, <3>4, SameRequests
  <2>5. CASE q # msg.to
    <3>1. eventSock'[q] = eventSock[q]
      BY <2>2, <2>5 DEF TypeOK
    <3> QED BY <2>2, <2>3, <3>1, SocketSame
  <2> QED BY <2>4, <2>5
<1>3. ASSUME NEW p \in Ports, toState(p) PROVE LastKnown(q)'
  <2>1. q # p
    BY <1>3 DEF toState, TypeOK
  <2>2. portState'[q] = portState[q] /\ steady'[q] = steady[q]
    BY <1>3, <2>1 DEF toState, TypeOK
  <2>3. pdelay_req_send_time'[q] = pdelay_req_send_time[q]
    BY <1>3, <2>1 DEF toState, Clear, TypeOK
  <2>4. UNCHANGED <<eventSock, sentPDelayReqSequenceId>>
    BY <1>3 DEF toState, counts
  <2> QED BY <1>0, <2>2, <2>3, <2>4, SocketSame
<1>4. ASSUME NEW p \in Ports, issuePDelayReq(p) PROVE LastKnown(q)'
  <2>1. CASE q = p
    BY <1>4, <2>1, RequestWaits
  <2>2. CASE q # p
    <3>1. /\ \E x : eventSock' = [eventSock EXCEPT ![p] = Append(@, x)]
          /\ sentPDelayReqSequenceId' = [sentPDelayReqSequenceId EXCEPT ![p] = @ + 1]
          /\ steady' = [steady EXCEPT ![p] = TRUE]
          /\ UNCHANGED <<portState, stamps>>
      BY <1>4 DEF issuePDelayReq
    <3>2. /\ eventSock'[q] = eventSock[q] /\ steady'[q] = steady[q]
          /\ sentPDelayReqSequenceId'[q] = sentPDelayReqSequenceId[q]
      BY <2>2, <3>1 DEF TypeOK
    <3> QED BY <1>0, <3>1, <3>2, SocketSame DEF stamps
  <2> QED BY <2>1, <2>2
<1>5. ASSUME NEW p \in Ports, NEW own,
             q # p, ReadEvent(p, own),
             pdelay_req_send_time'[q] = pdelay_req_send_time[q],
             UNCHANGED <<portState, sentPDelayReqSequenceId, steady>>
      PROVE  LastKnown(q)'
  <2>1. eventSock'[q] = eventSock[q]
    BY <1>5 DEF ReadEvent, TypeOK
  <2> QED BY <1>0, <1>5, <2>1, SocketSame
<1>6. ASSUME NEW p \in Ports, Disregard(p) PROVE LastKnown(q)'
  <2>1. /\ ReadEvent(p, <<>>) /\ eventSock[p] # <<>>
        /\ UNCHANGED <<portState, sentPDelayReqSequenceId, steady, pdelay_req_send_time>>
    BY <1>6 DEF Disregard, counts, stamps, history
  <2>2. CASE q = p
    <3>1. Head(eventSock[p]).type = "PDelayResp"
      BY <1>6, <2>1, <2>2 DEF Disregard
    <3>2. 1 \notin Own(p, "PDelayReq")
      BY <2>1, <3>1, HeadTyped, TailOf DEF Own
    <3> QED BY <1>0, <2>1, <2>2, <3>2, RequestRead
  <2>3. CASE q # p
    BY <1>5, <2>1, <2>3
  <2> QED BY <2>2, <2>3
<1>7. ASSUME NEW p \in Ports, OwnPDelayReq(p) PROVE LastKnown(q)'
  <2>1. /\ ReadEvent(p, <<>>) /\ Reads(p, "PDelayReq") /\ Head(eventSock[p]).from = p
        /\ UNCHANGED <<portState, sentPDelayReqSequenceId, steady>>
    BY <1>7 DEF OwnPDelayReq, counts, history
  <2>2. /\ 1 \in Own(p, "PDelayReq") /\ Head(eventSock[p]) = eventSock[p][1]
        /\ eventSock[p] # <<>>
    BY <2>1, HeadWaits
  <2>3. CASE q = p
    <3>1. pdelay_req_send_time'[p] = {eventSock[p][1].request}
      BY <1>7, <2>2 DEF OwnPDelayReq, TypeOK
    <3> QED BY <1>0, <2>1, <2>2, <2>3, <3>1, RequestRead
  <2>4. CASE q # p
    <3>1. pdelay_req_send_time'[q] = pdelay_req_send_time[q]
      BY <1>7, <2>4 DEF OwnPDelayReq, TypeOK
    <3> QED BY <1>5, <2>1, <2>4, <3>1
  <2> QED BY <2>3, <2>4
<1>8. ASSUME NEW p \in Ports, handlePDelayReq(p) PROVE LastKnown(q)'
  <2>1. PICK own :
          /\ ReadEvent(p, own) /\ \E x \in Message : own = <<x>> /\ x.type = "PDelayResp"
          /\ eventSock[p] # <<>> /\ Reads(p, "PDelayReq") /\ Head(eventSock[p]).from # p
          /\ UNCHANGED <<portState, sentPDelayReqSequenceId, steady, pdelay_req_send_time>>
    <3>1. PICK msg \in Message : msg = Head(eventSock[p])
      BY <1>8, HeadTyped DEF handlePDelayReq, Reads
    <3>2. PICK this \in Transmission : this = [port |-> p, of |-> responses[p]]
      BY DEF TypeOK, Transmission
    <3>3. msg.id \in Seqno /\ msg.request \in Transmission /\ {this} \in Stamps
      BY DEF Message, Stamps
    <3>4. PICK x \in Message : x = Looped(p, "PDelayResp", msg.id, msg.request, {this})
      BY <3>3, SentTyped
    <3>5. x.type = "PDelayResp"
      BY <3>4 DEF Looped, Sent
    <3>6. ReadEvent(p, <<x>>)
      BY <1>8, <3>1, <3>2, <3>4 DEF handlePDelayReq
    <3> QED BY <1>8, <3>5, <3>6 DEF handlePDelayReq, Reads, stamps, history
  <2>2. 1 \notin Own(p, "PDelayReq")
    BY <2>1, HeadWaits DEF Own
  <2>3. CASE q = p
    BY <1>0, <2>1, <2>2, <2>3, RequestRead
  <2>4. CASE q # p
    BY <1>5, <2>1, <2>4
  <2> QED BY <2>3, <2>4
<1>9. ASSUME NEW p \in Ports, OwnPDelayResp(p) \/ handlePDelayResp(p) PROVE LastKnown(q)'
  <2>1. /\ ReadEvent(p, <<>>) /\ eventSock[p] # <<>> /\ Reads(p, "PDelayResp")
        /\ UNCHANGED <<portState, sentPDelayReqSequenceId, steady, pdelay_req_send_time>>
    BY <1>9 DEF OwnPDelayResp, handlePDelayResp, Reads, counts, stamps, history
  <2>2. 1 \notin Own(p, "PDelayReq")
    BY <2>1, HeadWaits DEF Own
  <2>3. CASE q = p
    BY <1>0, <2>1, <2>2, <2>3, RequestRead
  <2>4. CASE q # p
    BY <1>5, <2>1, <2>4
  <2> QED BY <2>3, <2>4
<1>10. CASE \E p \in Ports, msg \in net : handlePDelayRespFollowUp(p, msg)
  BY <1>0, <1>10, SocketSame DEF handlePDelayRespFollowUp, counts, stamps, history
<1>11. CASE UNCHANGED vars
  BY <1>0, <1>11, SocketSame DEF vars, counts, stamps, history
<1> QED BY <1>1, <1>2, <1>3, <1>4, <1>6, <1>7, <1>8, <1>9, <1>10, <1>11 DEF Next

-----------------------------------------------------------------------------
(* The measurement *)

\* What is measured of the peer's FollowUp is of the last request issued; the send
\* time it bears is of no response after the one received, and of an earlier one
\* only if the request arrived behind another.
LEMMA LastIsMeasured ==
  ASSUME TwoPorts, IInv, NEW p \in Ports, NEW msg \in net,
         handlePDelayRespFollowUp(p, msg), steady[p],
         \A t \in msg.response : t.port # p,
         pdelay_req_receive_time[p] # Cleared
  PROVE  /\ pdelay_req_send_time[p] = pdelay_req_receive_time[p]
         /\ \/ msg.response = pdelay_resp_receive_time[p]
            \/ /\ crowded[p]
               /\ \A s \in msg.response, t \in pdelay_resp_receive_time[p] : s.of < t.of
<1>0. /\ TypeOK /\ ExchangeInv /\ AnswersInv /\ RequestsInv
      /\ MessageInv(msg) /\ ToldInv(p)
  BY DEF IInv, Pairing, ExchangeInv
<1>1. /\ eventSock[p] = <<>> /\ portState[p] \in Measuring
      /\ msg.id = Number(sentPDelayReqSequenceId[p]) - 1
      /\ msg.id = recvPDelayRespSequenceId[p]
      /\ msg.type = "PDelayRespFollowUp"
  BY DEF handlePDelayRespFollowUp, SocketEmpty, AnswersLast
<1>2. sentPDelayReqSequenceId[p] \in Nat /\ msg \in Message
  BY <1>0 DEF TypeOK
<1>3. ASSUME NEW r \in Transmission, r.port = p, InWindow(r), msg.id = Number(r.of)
      PROVE  r = LastRequest(p)
  <2>1. r.of \in Nat /\ r = [port |-> p, of |-> r.of]
    BY <1>3 DEF Transmission
  <2>2. r.of = sentPDelayReqSequenceId[p] - 1
    BY <1>1, <1>2, <1>3, <2>1, ExpectedIsLast DEF InWindow, Issued
  <2> QED BY <2>1, <2>2 DEF LastRequest
<1>4. /\ pdelay_req_receive_time[p] = {LastRequest(p)}
      /\ \E t \in Transmission : pdelay_resp_receive_time[p] = {t} /\ t.port # p
  <2>1. PICK r : r \in pdelay_req_receive_time[p]
    BY DEF Cleared
  <2>2. /\ r \in Transmission /\ r.port = p /\ InWindow(r) /\ msg.id = Number(r.of)
        /\ pdelay_req_receive_time[p] = {r}
        /\ \E t \in Transmission : pdelay_resp_receive_time[p] = {t} /\ t.port # p
    BY <1>0, <1>1, <2>1 DEF TypeOK, Stamps, ToldInv
  <2>3. r = LastRequest(p)
    BY <1>3, <2>2
  <2> QED BY <2>2, <2>3
<1>5. pdelay_req_send_time[p] = {LastRequest(p)}
  <2>1. Own(p, "PDelayReq") = {}
    BY <1>1 DEF Own
  <2>2. portState[p] # "DEAF"
    BY <1>1 DEF Measuring
  <2> QED BY <1>0, <2>1, <2>2 DEF RequestsInv, LastKnown
<1>6. PICK s \in Transmission : msg.response = {s} /\ s.port = msg.from
  BY <1>0, <1>1 DEF MessageInv
<1>7. msg.request = LastRequest(p)
  <2>1. msg.request \in Transmission /\ msg.from \in Ports
    BY <1>2 DEF Message
  <2>2. msg.from # p /\ msg.from # msg.request.port
    BY <1>0, <1>1, <1>6 DEF MessageInv
  <2>3. msg.request.port = p
    BY <2>1, <2>2, TwoPortsOnly DEF Transmission
  <2> QED BY <1>0, <1>3, <2>1, <2>3 DEF MessageInv
<1>8. FollowsUp(LastRequest(p), {s})
  BY <1>1, <1>6, <1>7 DEF FollowsUp
<1>9. PICK t \in Transmission : pdelay_resp_receive_time[p] = {t} /\ t.port # p
  BY <1>4
<1>10. Responds(LastRequest(p), {t})
  BY <1>4, <1>9 DEF Responds
<1>11. s.of <= t.of /\ (Alone(LastRequest(p)) => {s} = {t})
  <2>1. NotLater({s}, {t}) /\ (Alone(LastRequest(p)) => {s} = {t})
    BY <1>0, <1>8, <1>10 DEF AnswersInv
  <2> QED BY <2>1 DEF NotLater
<1>12. Alone(LastRequest(p)) <=> ~crowded[p]
  BY DEF Alone, LastRequest
<1>13. s.of = t.of => s = t
  <2>1. s.port = t.port
    <3>1. s.port \in Ports /\ t.port \in Ports /\ s.port # p
      BY <1>6, <1>9 DEF Transmission
    <3> QED BY <1>9, <3>1, TwoPortsOnly
  <2> QED BY <2>1 DEF Transmission
<1>14. crowded[p] /\ s # t => s.of < t.of
  BY <1>11, <1>13 DEF Transmission
<1>15. {s} = {t} \/ (crowded[p] /\ s.of < t.of)
  BY <1>0, <1>11, <1>12, <1>14 DEF TypeOK
<1> QED BY <1>4, <1>5, <1>6, <1>9, <1>15

LEMMA NextPaired == TwoPorts /\ IInv /\ [Next]_vars => PeerDelayPaired'
<1> SUFFICES ASSUME TwoPorts, IInv, [Next]_vars PROVE PeerDelayPaired'
  OBVIOUS
<1>1. ASSUME MeasuresNothing PROVE PeerDelayPaired'
  BY <1>1 DEF MeasuresNothing, PeerDelayPaired
<1>2. ASSUME NEW p \in Ports, NEW msg \in net, handlePDelayRespFollowUp(p, msg)
      PROVE  PeerDelayPaired'
  <2> DEFINE d == [reqSent |-> pdelay_req_send_time[p],
                   reqReceived |-> pdelay_req_receive_time[p],
                   respSent |-> msg.response,
                   respReceived |-> pdelay_resp_receive_time[p]]
  <2>1. /\ \A q \in Ports : measured'[q] = IF q = p THEN {d} ELSE {}
        /\ steady' = steady /\ crowded' = crowded
    BY <1>2 DEF handlePDelayRespFollowUp, updatePeerDelay, history
  <2>2. steady[p] /\ (\A t \in d.respSent : t.port # p) /\ d.reqReceived # Cleared
        => /\ d.reqSent = d.reqReceived
           /\ \/ d.respSent = d.respReceived
              \/ /\ crowded[p]
                 /\ \A s \in d.respSent, t \in d.respReceived : s.of < t.of
    BY <1>2, LastIsMeasured
  <2> HIDE DEF d
  <2> QED BY <2>1, <2>2 DEF PeerDelayPaired
<1>3. CASE UNCHANGED vars
  BY <1>3 DEF vars, history, IInv, PeerDelayPaired
<1>4. CASE Next
  BY <1>1, <1>2, <1>4
     DEF Next, Vanish, Arrive, toState, Disregard, issuePDelayReq, OwnPDelayReq,
         handlePDelayReq, OwnPDelayResp, handlePDelayResp
<1> QED BY <1>3, <1>4

LEMMA InitIInv == Init => IInv
<1> SUFFICES ASSUME Init PROVE IInv
  OBVIOUS
<1>1. \A p \in Ports : \A type : Received(p, type) = {} /\ Own(p, type) = {}
  BY DEF Init, Received, Own
<1>2. \A r, s : ~Responds(r, s) /\ ~FollowsUp(r, s) /\ ~Waits(r)
  BY <1>1 DEF Init, Responds, FollowsUp, Waits, Cleared
<1>3. ExchangeInv
  BY <1>1 DEF Init, ExchangeInv, SocketInv, ToldInv, Cleared
<1>4. WaitingInv /\ AloneInv
  BY <1>1 DEF WaitingInv, AloneInv
<1>5. AnswersInv
  BY <1>2 DEF AnswersInv
<1>6. RequestsInv
  BY DEF Init, RequestsInv
<1>7. PeerDelayPaired
  BY DEF Init, PeerDelayPaired
<1> QED BY <1>3, <1>4, <1>5, <1>6, <1>7, InitTyped DEF IInv, Pairing

\* Every variable keeps to its type, for any number of ports.
THEOREM TypeCorrect == Spec => []TypeOK
BY InitTyped, NextTyped, PTL DEF Spec

\* On a link of two ports a measurement of the peer's answer to a request after
\* which the port has not changed state is of that request, and of one response,
\* unless the request arrived behind one not read yet: then it may be of the send
\* time of an earlier response.  For any number of sequence numbers, requests,
\* messages under way or waiting and changes of state.
THEOREM PeersPairExchanges == ASSUME TwoPorts PROVE Spec => []PeerDelayPaired
<1>1. Init => IInv
  BY InitIInv
<1>2. IInv /\ [Next]_vars => IInv'
  BY NextTyped, NextPairing, NextRequests, NextPaired DEF IInv
<1>3. IInv => PeerDelayPaired
  BY DEF IInv
<1> QED BY <1>1, <1>2, <1>3, PTL DEF Spec
=============================================================================

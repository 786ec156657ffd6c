------------------------- MODULE PtpExchange_proofs -------------------------
(***************************************************************************)
(* Proofs about PtpExchange for any masters, number of sequence numbers    *)
(* and bounds.  The argument: the messages under way, and the Sync the     *)
(* port has kept, are of the last SeqSize transmissions of their kind      *)
(* (ExchangeInv), because a number comes round again only when nothing     *)
(* carries it any more; so equal numbers mean equal transmissions.  The    *)
(* last request looped back is the last one issued, and the general socket *)
(* is read only when the event socket is empty, so by then the port has    *)
(* that one's send time (RequestsInv).                                     *)
(***************************************************************************)
EXTENDS PtpExchange, TLAPS

-----------------------------------------------------------------------------
(* Sequence numbers: what equal ones say of the transmissions that carry them. *)

\* Only zero is a multiple of SeqSize nearer to zero than SeqSize.
LEMMA SmallMultiple ==
  ASSUME NEW d \in Int, -SeqSize < SeqSize * d, SeqSize * d < SeqSize
  PROVE  d = 0
<1>0. SeqSize \in Nat \ {0}
  BY SeqSizeAssumption
<1>1. CASE d >= 1
  <2>1. SeqSize * d >= SeqSize
    BY <1>0, <1>1, SMTT(30)
  <2>2. QED BY <1>0, <2>1, SMT
<1>2. CASE d <= -1
  <2>1. SeqSize * d <= -SeqSize
    BY <1>0, <1>2, SMTT(30)
  <2>2. QED BY <1>0, <2>1, SMT
<1>3. QED BY <1>1, <1>2, SMT

\* A transmission is a whole number of rounds and its sequence number.
LEMMA Rounds ==
  ASSUME NEW k \in Nat
  PROVE  /\ k = SeqSize * (k \div SeqSize) + (k % SeqSize)
         /\ k % SeqSize \in Seqno
         /\ k \div SeqSize \in Nat
<1>1. SeqSize \in Nat \ {0}
  BY SeqSizeAssumption
<1>2. QED BY <1>1, SMTT(30) DEF Seqno

LEMMA NumberType == \A k \in Int : Number(k) \in Seqno
<1>1. SeqSize \in Nat \ {0}
  BY SeqSizeAssumption
<1>2. QED BY <1>1, SMTT(30) DEF Number, Seqno

\* Two transmissions less than SeqSize apart that have the same number are one.
LEMMA SameNumber ==
  ASSUME NEW a \in Nat, NEW b \in Nat,
         a - b < SeqSize, b - a < SeqSize, Number(a) = Number(b)
  PROVE  a = b
<1> DEFINE d == (a \div SeqSize) - (b \div SeqSize)
<1>0. SeqSize \in Nat
  BY SeqSizeAssumption
<1>1. d \in Int
  BY Rounds
<1>2. a - b = SeqSize * d
  BY <1>0, Rounds, SMTT(30) DEF Number, Seqno
<1>3. -SeqSize < SeqSize * d /\ SeqSize * d < SeqSize
  BY <1>0, <1>2
<1>4. d = 0
  BY <1>1, <1>3, SmallMultiple
<1>5. SeqSize * d = 0
  BY <1>0, <1>4
<1>6. QED BY <1>2, <1>5

\* The number comes round again after SeqSize transmissions.
LEMMA NumberRecurs ==
  ASSUME NEW k \in Nat, k - SeqSize \in Nat
  PROVE  Number(k - SeqSize) = Number(k)
<1> DEFINE j == k - SeqSize
           r == (k % SeqSize) - (j % SeqSize)
           d == (k \div SeqSize) - (j \div SeqSize) - 1
<1>0. SeqSize \in Nat \ {0}
  BY SeqSizeAssumption
<1>1. d \in Int
  BY Rounds
<1>2. SeqSize * d = 0 - r
  BY <1>0, Rounds, SMTT(30) DEF Seqno
<1>3. -SeqSize < r /\ r < SeqSize /\ r \in Int
  BY <1>0, Rounds, SMT DEF Seqno
<1>4. d = 0
  BY <1>0, <1>1, <1>2, <1>3, SmallMultiple
<1>5. SeqSize * d = 0
  BY <1>0, <1>4
<1>6. r = 0
  BY <1>2, <1>3, <1>5
<1>7. k % SeqSize = j % SeqSize
  BY <1>0, <1>6, Rounds DEF Seqno
<1>8. QED BY <1>7 DEF Number

\* The number before the next one to be used is the last one's, unless the
\* counter has just wrapped.
LEMMA NumberBefore ==
  ASSUME NEW k \in Nat, Number(k) # 0, k # 0
  PROVE  Number(k - 1) = Number(k) - 1
<1> DEFINE j == k - 1
           r == (k % SeqSize) - (j % SeqSize) - 1
           d == (k \div SeqSize) - (j \div SeqSize)
<1>0. SeqSize \in Nat \ {0}
  BY SeqSizeAssumption
<1>1. d \in Int
  BY Rounds
<1>2. SeqSize * d = 0 - r
  BY <1>0, Rounds, SMTT(30) DEF Seqno
<1>3. -SeqSize < r /\ r < SeqSize /\ r \in Int
  BY <1>0, Rounds, SMT DEF Seqno, Number
<1>4. d = 0
  BY <1>0, <1>1, <1>2, <1>3, SmallMultiple
<1>5. SeqSize * d = 0
  BY <1>0, <1>4
<1>6. QED BY <1>2, <1>3, <1>5, Rounds DEF Number, Seqno

\* A number one below the next, of one of the last SeqSize transmissions, is
\* the last one's.
LEMMA ExpectedIsLast ==
  ASSUME NEW k \in Nat, NEW a \in Nat, a < k, k - a <= SeqSize,
         Number(a) = Number(k) - 1
  PROVE  /\ a = k - 1
         /\ Number(k) # 0
<1>0. SeqSize \in Nat \ {0}
  BY SeqSizeAssumption
<1>1. Number(a) >= 0 /\ Number(k) # 0
  BY <1>0, NumberType DEF Seqno
<1>2. Number(k - 1) = Number(a)
  BY <1>0, <1>1, NumberBefore
<1>3. k - 1 \in Nat /\ k - 1 - a < SeqSize /\ a - (k - 1) < SeqSize
  BY <1>0
<1>4. QED BY <1>1, <1>2, <1>3, SameNumber

-----------------------------------------------------------------------------
(* Types *)

\* What is under way after messages were read and sent.
LEMMA TravelAdds ==
  ASSUME NEW taken, NEW sent, Travel(taken, sent)
  PROVE  net' \subseteq net \cup sent
BY DEF Travel

LEMMA TypeInit == Init => TypeOK
<1> SUFFICES ASSUME Init PROVE TypeOK
  OBVIOUS
<1>1. 0 \in Seqno
  BY SeqSizeAssumption DEF Seqno
<1>2. ownSyncs \in [Masters -> Seq(Nat)] /\ looped \in Seq(Nat)
  BY DEF Init
<1>3. QED BY <1>1, <1>2 DEF Init, TypeOK, States

\* Every action keeps to the types.
LEMMA TypeStep == TypeOK /\ [Next]_vars => TypeOK'
<1> SUFFICES ASSUME TypeOK, [Next]_vars PROVE TypeOK'
  OBVIOUS
<1> USE DEF TypeOK
<1>1. CASE Vanish
  BY <1>1 DEF Vanish, ComputesNothing, following, syncs_received, request, servo,
              masters
<1>2. CASE ChangeParent
  BY <1>2 DEF ChangeParent, ComputesNothing, syncs_received, request, servo, masters
<1>3. CASE EnterSlave
  BY <1>3 DEF EnterSlave, initClock, ComputesNothing, masters, States
<1>4. CASE LeaveSlave
  BY <1>4 DEF LeaveSlave, ComputesNothing, syncs_received, request, servo, masters,
              States
<1>5. CASE doInit
  <2>1. looped' \in Seq(Nat)
    BY <1>5 DEF doInit
  <2>2. QED
    BY <1>5, <2>1 DEF doInit, initClock, ComputesNothing, syncs_received, request,
                      masters, States
<1>6. ASSUME NEW m \in Masters, issueSync(m) PROVE TypeOK'
  <2>1. Number(syncs[m]) \in Seqno
    BY NumberType
  <2>2. net' \subseteq Message
    BY <1>6, <2>1, TravelAdds DEF issueSync, Message
  <2>3. QED
    BY <1>6, <2>2 DEF issueSync, ComputesNothing, following, syncs_received, request,
                      servo
<1>7. ASSUME NEW m \in Masters, issueFollowup(m) PROVE TypeOK'
  <2>1. PICK k \in Nat : k = Head(ownSyncs[m])
    BY <1>7 DEF issueFollowup
  <2>2. Number(syncs[m] - 1) \in Seqno
    BY NumberType
  <2>3. net' \subseteq Message
    BY <1>7, <2>1, <2>2, TravelAdds DEF issueFollowup, Message
  <2>4. QED
    BY <1>7, <2>3 DEF issueFollowup, ComputesNothing, following, syncs_received,
                      request, servo
<1>8. ASSUME NEW msg \in net, handleSync(msg) PROVE TypeOK'
  <2>1. net' \subseteq Message
    BY <1>8, TravelAdds DEF handleSync
  <2>2. QED
    BY <1>8, <2>1 DEF handleSync, ComputesNothing, following, request, servo, masters,
                      Message, SyncStamp
<1>9. ASSUME NEW msg \in net, handleFollowUp(msg) PROVE TypeOK'
  <2> DEFINE stamp == [master |-> msg.master, of |-> msg.of]
  <2>1. net' \subseteq Message
    BY <1>9, TravelAdds DEF handleFollowUp
  <2>2. stamp \in SyncStamp /\ stamp.master \in Masters
    BY DEF Message, SyncStamp
  <2>3. updateOffset(stamp)
    BY <1>9 DEF handleFollowUp
  <2>4. offset' \subseteq Offset /\ delayMS' \subseteq Masters /\ delay' = {}
    BY <2>2, <2>3 DEF updateOffset, Offset
  <2>5. portState' \in States /\ offset_first_updated' = TRUE
        /\ UNCHANGED <<parent, newest>>
    BY <2>3 DEF updateOffset, States
  <2>6. QED
    BY <1>9, <2>1, <2>4, <2>5 DEF handleFollowUp, request, masters
<1>10. CASE issueDelayReq
  <2>1. Number(requests) \in Seqno
    BY NumberType
  <2>2. net' \subseteq Message
    BY <1>10, <2>1, TravelAdds DEF issueDelayReq, Message
  <2>3. looped' \in Seq(Nat)
    <3>1. looped' = Append(looped, requests) \/ looped' = looped
      BY <1>10 DEF issueDelayReq
    <3>2. Append(looped, requests) \in Seq(Nat)
      OBVIOUS
    <3>3. QED BY <3>1, <3>2
  <2>4. QED
    BY <1>10, <2>2, <2>3 DEF issueDelayReq, ComputesNothing, following,
                             syncs_received, request, servo, masters
<1>11. CASE handleDelayReq
  <2>1. looped' \in Seq(Nat) /\ Head(looped) \in Nat
    BY <1>11 DEF handleDelayReq
  <2>2. QED
    BY <1>11, <2>1 DEF handleDelayReq, ComputesNothing, following, syncs_received,
                       request, servo, masters
<1>12. ASSUME NEW msg \in net, issueDelayResp(msg) PROVE TypeOK'
  <2>1. net' \subseteq Message
    BY <1>12, TravelAdds DEF issueDelayResp, Message
  <2>2. QED
    BY <1>12, <2>1 DEF issueDelayResp, ComputesNothing, following, syncs_received,
                       request, servo, masters
<1>13. ASSUME NEW msg \in net, handleDelayResp(msg) PROVE TypeOK'
  <2>1. net' \subseteq Message
    BY <1>13, TravelAdds DEF handleDelayResp
  <2>2. msg.of \in Nat /\ msg.master \in Masters
    BY DEF Message
  <2>3. delay' \subseteq Delay /\ newest' \in Nat \cup {None} /\ offset' = {}
    BY <1>13, <2>2 DEF handleDelayResp, updateDelay, Delay
  <2>4. UNCHANGED <<offset_first_updated, delayMS>> /\ waitingForDelayResp' = FALSE
    BY <1>13 DEF handleDelayResp, updateDelay
  <2>5. QED
    BY <1>13, <2>1, <2>3, <2>4 DEF handleDelayResp, following, syncs_received, masters
<1>14. CASE UNCHANGED vars
  BY <1>14 DEF vars, following, syncs_received, request, servo, computed, masters
<1>15. QED
  BY <1>1, <1>2, <1>3, <1>4, <1>5, <1>6, <1>7, <1>8, <1>9, <1>10, <1>11, <1>12,
     <1>13, <1>14 DEF Next

\* The exchanges keep to their types.
THEOREM TypeCorrect == Spec => []TypeOK
BY TypeInit, TypeStep, PTL DEF Spec

-----------------------------------------------------------------------------
(* What is under way is recent *)

\* How many messages of msg's kind have been issued.
Issued(msg) ==
  IF msg.type \in {"DelayReq", "DelayResp"} THEN requests ELSE syncs[msg.master]

\* One of the last SeqSize of them, and numbered accordingly.
RecentMessage(msg) ==
  /\ msg.id = Number(msg.of)
  /\ msg.of < Issued(msg)
  /\ Issued(msg) - msg.of <= SeqSize

Recent == \A msg \in net : RecentMessage(msg)

\* A step that sends and issues nothing leaves what is under way recent.
LEMMA RecentQuiet ==
  ASSUME Recent, net' \subseteq net, UNCHANGED <<requests, syncs>>
  PROVE  Recent'
BY DEF Recent, RecentMessage, Issued

\* The oldest transmission of a kind is not under way when its number is free.
LEMMA StaysRecent ==
  ASSUME NEW k \in Nat, NEW a \in Nat, a < k, k - a <= SeqSize,
         Number(a) # Number(k)
  PROVE  k + 1 - a <= SeqSize
<1>1. SeqSize \in Nat
  BY SeqSizeAssumption
<1>2. CASE k - a = SeqSize
  <2>1. a = k - SeqSize
    BY <1>1, <1>2
  <2>2. QED BY <2>1, NumberRecurs
<1>3. QED BY <1>1, <1>2

\* A master's event socket holds no Sync but its last; the Sync whose FollowUp
\* the port waits for is numbered as it says, and recent.
OwnSyncLast ==
  \A m \in Masters : ownSyncs[m] # <<>> =>
    syncs[m] > 0 /\ ownSyncs[m] = <<syncs[m] - 1>>

AwaitedSync(t) ==
  /\ sync_receive_time = {t}
  /\ recvSyncSequenceId = Number(t.of)
  /\ t.of < syncs[t.master]
  /\ syncs[t.master] - t.of <= SeqSize

AwaitedRecent == waitingForFollow => \E t \in SyncStamp : AwaitedSync(t)

ExchangeInv == TypeOK /\ Recent /\ OwnSyncLast /\ AwaitedRecent

LEMMA ExchangeInit == Init => ExchangeInv
<1> SUFFICES ASSUME Init PROVE ExchangeInv
  OBVIOUS
<1>1. TypeOK
  BY TypeInit
<1>2. Recent /\ OwnSyncLast /\ AwaitedRecent
  BY DEF Init, Recent, OwnSyncLast, AwaitedRecent
<1>3. QED BY <1>1, <1>2 DEF ExchangeInv

\* What an action that leaves the Syncs alone keeps.
LEMMA SyncsAlone ==
  ASSUME OwnSyncLast, AwaitedRecent, UNCHANGED <<syncs_received, masters>>
  PROVE  OwnSyncLast' /\ AwaitedRecent'
BY DEF OwnSyncLast, AwaitedRecent, AwaitedSync, syncs_received, masters

\* Issuing a Sync.
LEMMA RecentIssueSync ==
  ASSUME TypeOK, Recent, OwnSyncLast, AwaitedRecent,
         NEW m \in Masters, issueSync(m)
  PROVE  Recent' /\ OwnSyncLast' /\ AwaitedRecent'
<1> USE DEF TypeOK
<1> DEFINE new == [type |-> "Sync", master |-> m, id |-> Number(syncs[m]),
                   of |-> syncs[m]]
<1>1. /\ syncs' = [syncs EXCEPT ![m] = @ + 1]
      /\ ownSyncs' = [ownSyncs EXCEPT ![m] = Append(@, syncs[m])]
      /\ ownSyncs[m] = <<>>
      /\ requests' = requests
      /\ UNCHANGED syncs_received
  BY DEF issueSync
<1>2. net' \subseteq net \cup {new}
  BY TravelAdds DEF issueSync
<1>3. SeqSize \in Nat \ {0, 1}
  BY SeqSizeAssumption
<1>4. ASSUME NEW msg \in net' PROVE RecentMessage(msg)'
  <2>1. CASE msg = new
    BY <1>1, <1>3, <2>1 DEF RecentMessage, Issued
  <2>2. CASE msg \in net
    <3>1. RecentMessage(msg) /\ msg \in Message
      BY <2>2 DEF Recent
    <3>2. CASE Issued(msg)' = Issued(msg)
      BY <3>1, <3>2 DEF RecentMessage
    <3>3. CASE Issued(msg)' # Issued(msg)
      <4>1. msg.type \in {"Sync", "FollowUp"} /\ msg.master = m
        BY <1>1, <3>1, <3>3 DEF Issued, Message
      <4>2. Issued(msg) = syncs[m] /\ Issued(msg)' = syncs[m] + 1
        BY <1>1, <4>1 DEF Issued
      <4>3. msg.id # Number(syncs[m])
        BY <2>2, <4>1 DEF issueSync, SyncNumberFree
      <4>4. msg.of \in Nat /\ syncs[m] \in Nat
        BY <3>1 DEF Message
      <4>5. syncs[m] + 1 - msg.of <= SeqSize
        BY <3>1, <4>2, <4>3, <4>4, StaysRecent DEF RecentMessage
      <4>6. QED BY <3>1, <4>2, <4>4, <4>5 DEF RecentMessage
    <3>4. QED BY <3>2, <3>3
  <2>3. QED BY <1>2, <2>1, <2>2
<1>5. OwnSyncLast'
  <2> SUFFICES ASSUME NEW q \in Masters, ownSyncs'[q] # <<>>
               PROVE  syncs'[q] > 0 /\ ownSyncs'[q] = <<syncs'[q] - 1>>
    BY DEF OwnSyncLast
  <2>1. CASE q = m
    <3>1. ownSyncs'[m] = <<syncs[m]>> /\ syncs'[m] = syncs[m] + 1
      BY <1>1
    <3>2. syncs'[m] - 1 = syncs[m] /\ syncs'[m] > 0
      BY <3>1
    <3>3. QED BY <2>1, <3>1, <3>2
  <2>2. CASE q # m
    BY <1>1, <2>2 DEF OwnSyncLast
  <2>3. QED BY <2>1, <2>2
<1>6. AwaitedRecent'
  <2> SUFFICES ASSUME waitingForFollow PROVE \E t \in SyncStamp : AwaitedSync(t)'
    BY <1>1 DEF AwaitedRecent, syncs_received
  <2>1. PICK t \in SyncStamp : AwaitedSync(t)
    BY DEF AwaitedRecent
  <2>2. t.of \in Nat /\ t.master \in Masters
    BY DEF SyncStamp
  <2>3. CASE t.master = m
    <3>1. Number(t.of) # Number(syncs[m])
      BY <2>1, <2>3 DEF AwaitedSync, issueSync, SyncNumberFree
    <3>2. syncs[m] + 1 - t.of <= SeqSize
      BY <2>1, <2>2, <2>3, <3>1, StaysRecent DEF AwaitedSync
    <3>3. AwaitedSync(t)'
      BY <1>1, <2>1, <2>2, <2>3, <3>2 DEF AwaitedSync, syncs_received
    <3>4. QED BY <3>3
  <2>4. CASE t.master # m
    <3>1. AwaitedSync(t)'
      BY <1>1, <2>1, <2>2, <2>4 DEF AwaitedSync, syncs_received
    <3>2. QED BY <3>1
  <2>5. QED BY <2>3, <2>4
<1>7. Recent'
  BY <1>4 DEF Recent
<1>8. QED BY <1>5, <1>6, <1>7

\* Issuing a FollowUp.
LEMMA RecentIssueFollowup ==
  ASSUME TypeOK, Recent, OwnSyncLast, AwaitedRecent,
         NEW m \in Masters, issueFollowup(m)
  PROVE  Recent' /\ OwnSyncLast' /\ AwaitedRecent'
<1> USE DEF TypeOK
<1> DEFINE last == syncs[m] - 1
           new == [type |-> "FollowUp", master |-> m, id |-> Number(last),
                   of |-> last]
<1>1. syncs[m] > 0 /\ ownSyncs[m] = <<last>> /\ last \in Nat
  BY DEF issueFollowup, OwnSyncLast
<1>2. Head(ownSyncs[m]) = last /\ Tail(ownSyncs[m]) = <<>>
  BY <1>1
<1>3. net' \subseteq net \cup {new}
  BY <1>2, TravelAdds DEF issueFollowup
<1>4. /\ ownSyncs' = [ownSyncs EXCEPT ![m] = <<>>]
      /\ UNCHANGED <<requests, syncs, syncs_received>>
  BY <1>2 DEF issueFollowup
<1>5. SeqSize \in Nat \ {0, 1}
  BY SeqSizeAssumption
<1>6. RecentMessage(new)
  BY <1>1, <1>5 DEF RecentMessage, Issued
<1>7. Recent'
  BY <1>3, <1>4, <1>6 DEF Recent, RecentMessage, Issued
<1>8. OwnSyncLast'
  BY <1>4 DEF OwnSyncLast
<1>9. AwaitedRecent'
  BY <1>4 DEF AwaitedRecent, AwaitedSync, syncs_received
<1>10. QED BY <1>7, <1>8, <1>9

\* Issuing a request.
LEMMA RecentIssueDelayReq ==
  ASSUME TypeOK, Recent, issueDelayReq
  PROVE  Recent'
<1> USE DEF TypeOK
<1> DEFINE new(m) == [type |-> "DelayReq", master |-> m, id |-> Number(requests),
                      of |-> requests]
<1>1. requests' = requests + 1 /\ UNCHANGED syncs
  BY DEF issueDelayReq, masters
<1>2. net' \subseteq net \cup {new(m) : m \in Masters}
  BY TravelAdds DEF issueDelayReq
<1>3. SeqSize \in Nat \ {0, 1}
  BY SeqSizeAssumption
<1>4. ASSUME NEW m \in Masters, NEW msg, msg = new(m) PROVE RecentMessage(msg)'
  BY <1>1, <1>3, <1>4 DEF RecentMessage, Issued
<1>5. ASSUME NEW msg \in net PROVE RecentMessage(msg)'
  <2>1. RecentMessage(msg) /\ msg.of \in Nat
    BY DEF Recent, Message
  <2>2. CASE msg.type \in {"DelayReq", "DelayResp"}
    <3>1. Issued(msg) = requests /\ Issued(msg)' = requests + 1
      BY <1>1, <2>2 DEF Issued
    <3>2. msg.id # Number(requests)
      BY <2>2 DEF issueDelayReq, RequestNumberFree
    <3>3. requests + 1 - msg.of <= SeqSize
      BY <2>1, <3>1, <3>2, StaysRecent DEF RecentMessage
    <3>4. QED BY <2>1, <3>1, <3>3 DEF RecentMessage
  <2>3. CASE msg.type \notin {"DelayReq", "DelayResp"}
    BY <1>1, <2>1, <2>3 DEF RecentMessage, Issued
  <2>4. QED BY <2>2, <2>3
<1>6. ASSUME NEW msg \in net' PROVE RecentMessage(msg)'
  BY <1>2, <1>4, <1>5
<1>7. QED BY <1>6 DEF Recent

\* Answering a request: the answer is of a request that was under way.
LEMMA RecentIssueDelayResp ==
  ASSUME TypeOK, Recent, NEW msg \in net, issueDelayResp(msg)
  PROVE  Recent'
<1> DEFINE new == [type |-> "DelayResp", master |-> msg.master, id |-> msg.id,
                   of |-> msg.of]
<1>1. net' \subseteq net \cup {new}
  BY TravelAdds DEF issueDelayResp
<1>2. msg.type = "DelayReq" /\ UNCHANGED <<requests, syncs>>
  BY DEF issueDelayResp, masters
<1>3. RecentMessage(new)
  BY <1>2 DEF Recent, RecentMessage, Issued
<1>4. ASSUME NEW q \in net' PROVE RecentMessage(q)'
  <2>1. RecentMessage(q)
    BY <1>1, <1>3 DEF Recent
  <2>2. QED BY <1>2, <2>1 DEF RecentMessage, Issued
<1>5. QED BY <1>4 DEF Recent

\* Every action keeps what is under way, and what the port and the masters know
\* of the Syncs, recent.
LEMMA ExchangeStep == ExchangeInv /\ [Next]_vars => ExchangeInv'
<1> SUFFICES ASSUME ExchangeInv, [Next]_vars PROVE ExchangeInv'
  OBVIOUS
<1>0. TypeOK /\ Recent /\ OwnSyncLast /\ AwaitedRecent /\ TypeOK'
  BY TypeStep DEF ExchangeInv
<1> DEFINE Kept == Recent' /\ OwnSyncLast' /\ AwaitedRecent'
<1>1. CASE Vanish
  BY <1>0, <1>1, RecentQuiet, SyncsAlone DEF Vanish, masters, ExchangeInv
<1>2. CASE ChangeParent
  BY <1>0, <1>2, RecentQuiet, SyncsAlone DEF ChangeParent, masters, ExchangeInv
<1>3. CASE EnterSlave
  <2>1. Recent'
    BY <1>0, <1>3, RecentQuiet DEF EnterSlave, masters
  <2>2. OwnSyncLast' /\ AwaitedRecent'
    BY <1>0, <1>3 DEF EnterSlave, masters, OwnSyncLast, AwaitedRecent
  <2>3. QED BY <1>0, <2>1, <2>2 DEF ExchangeInv
<1>4. CASE LeaveSlave
  BY <1>0, <1>4, RecentQuiet, SyncsAlone DEF LeaveSlave, masters, ExchangeInv
<1>5. CASE doInit
  BY <1>0, <1>5, RecentQuiet, SyncsAlone DEF doInit, masters, ExchangeInv
<1>6. ASSUME NEW m \in Masters, issueSync(m) PROVE ExchangeInv'
  BY <1>0, <1>6, RecentIssueSync DEF ExchangeInv
<1>7. ASSUME NEW m \in Masters, issueFollowup(m) PROVE ExchangeInv'
  BY <1>0, <1>7, RecentIssueFollowup DEF ExchangeInv
<1>8. ASSUME NEW msg \in net, handleSync(msg) PROVE ExchangeInv'
  <2> DEFINE t == [master |-> msg.master, of |-> msg.of]
  <2>1. /\ sync_receive_time' = {t}
        /\ recvSyncSequenceId' = msg.id
        /\ UNCHANGED <<requests, syncs, ownSyncs>>
        /\ msg.type = "Sync"
    BY <1>8 DEF handleSync, masters
  <2>2. Recent'
    BY <1>0, <1>8, <2>1, RecentQuiet, TravelAdds DEF handleSync
  <2>3. OwnSyncLast'
    BY <1>0, <2>1 DEF OwnSyncLast
  <2>4. t \in SyncStamp
    BY <1>0 DEF TypeOK, Message, SyncStamp
  <2>5. RecentMessage(msg) /\ Issued(msg) = syncs[msg.master]
    BY <1>0, <2>1 DEF Recent, Issued
  <2>6. AwaitedSync(t)'
    BY <2>1, <2>5 DEF AwaitedSync, RecentMessage
  <2>7. QED BY <1>0, <2>2, <2>3, <2>4, <2>6 DEF ExchangeInv, AwaitedRecent
<1>9. ASSUME NEW msg \in net, handleFollowUp(msg) PROVE ExchangeInv'
  <2>1. Recent'
    BY <1>0, <1>9, RecentQuiet, TravelAdds DEF handleFollowUp, masters
  <2>2. OwnSyncLast' /\ AwaitedRecent'
    BY <1>0, <1>9 DEF handleFollowUp, masters, OwnSyncLast, AwaitedRecent
  <2>3. QED BY <1>0, <2>1, <2>2 DEF ExchangeInv
<1>10. CASE issueDelayReq
  <2>1. OwnSyncLast' /\ AwaitedRecent'
    BY <1>0, <1>10, SyncsAlone DEF issueDelayReq
  <2>2. Recent'
    BY <1>0, <1>10, RecentIssueDelayReq
  <2>3. QED BY <1>0, <2>1, <2>2 DEF ExchangeInv
<1>11. CASE handleDelayReq
  BY <1>0, <1>11, RecentQuiet, SyncsAlone DEF handleDelayReq, masters, ExchangeInv
<1>12. ASSUME NEW msg \in net, issueDelayResp(msg) PROVE ExchangeInv'
  <2>1. OwnSyncLast' /\ AwaitedRecent'
    BY <1>0, <1>12, SyncsAlone DEF issueDelayResp
  <2>2. Recent'
    BY <1>0, <1>12, RecentIssueDelayResp
  <2>3. QED BY <1>0, <2>1, <2>2 DEF ExchangeInv
<1>13. ASSUME NEW msg \in net, handleDelayResp(msg) PROVE ExchangeInv'
  BY <1>0, <1>13, RecentQuiet, SyncsAlone, TravelAdds
  DEF handleDelayResp, masters, ExchangeInv
<1>14. CASE UNCHANGED vars
  BY <1>0, <1>14, RecentQuiet, SyncsAlone DEF vars, masters, ExchangeInv
<1>15. QED
  BY <1>1, <1>2, <1>3, <1>4, <1>5, <1>6, <1>7, <1>8, <1>9, <1>10, <1>11, <1>12,
     <1>13, <1>14 DEF Next

-----------------------------------------------------------------------------
(* Offsets *)

\* An offset is computed only of the Sync whose FollowUp is awaited.
LEMMA OffsetStep == ExchangeInv /\ OffsetPaired /\ [Next]_vars => OffsetPaired'
<1> SUFFICES ASSUME ExchangeInv, OffsetPaired, [Next]_vars PROVE OffsetPaired'
  OBVIOUS
<1> USE DEF OffsetPaired
<1>1. CASE offset' = {}
  BY <1>1
<1>2. CASE UNCHANGED vars
  BY <1>2 DEF vars, computed
<1>3. ASSUME NEW msg \in net, handleFollowUp(msg) PROVE OffsetPaired'
  <2> DEFINE send_time == [master |-> msg.master, of |-> msg.of]
  <2>1. waitingForFollow /\ recvSyncSequenceId = msg.id /\ msg.type = "FollowUp"
    BY <1>3 DEF handleFollowUp
  <2>2. PICK t \in SyncStamp : AwaitedSync(t)
    BY <2>1 DEF ExchangeInv, AwaitedRecent
  <2>3. offset' = {[sent |-> send_time, received |-> t]}
    BY <1>3, <2>2 DEF handleFollowUp, updateOffset, AwaitedSync
  <2>4. ASSUME msg.master = t.master PROVE send_time = t
    <3>1. RecentMessage(msg) /\ Issued(msg) = syncs[t.master]
      BY <2>1, <2>4 DEF ExchangeInv, Recent, Issued
    <3>2. t.of \in Nat /\ msg.of \in Nat /\ syncs[t.master] \in Nat /\ SeqSize \in Nat
      BY SeqSizeAssumption DEF ExchangeInv, TypeOK, Message, SyncStamp
    <3>3. Number(msg.of) = Number(t.of)
      BY <2>1, <2>2, <3>1 DEF RecentMessage, AwaitedSync
    <3>4. msg.of - t.of < SeqSize /\ t.of - msg.of < SeqSize
      BY <2>2, <3>1, <3>2 DEF RecentMessage, AwaitedSync
    <3>5. msg.of = t.of
      BY <3>2, <3>3, <3>4, SameNumber
    <3>6. QED BY <2>4, <3>5 DEF SyncStamp
  <2>5. QED BY <2>3, <2>4
<1>4. ASSUME NEW msg \in net, handleDelayResp(msg) PROVE offset' = {}
  BY <1>4 DEF handleDelayResp, updateDelay
<1>5. QED
  BY <1>1, <1>2, <1>3, <1>4
  DEF Next, Vanish, ChangeParent, EnterSlave, LeaveSlave, doInit, issueSync,
      issueFollowup, handleSync, issueDelayReq, handleDelayReq, issueDelayResp,
      ComputesNothing

\* An offset computed from one master's messages is of one Sync.
THEOREM OffsetsArePaired == Spec => []OffsetPaired
<1>1. Init => ExchangeInv /\ OffsetPaired
  BY ExchangeInit DEF Init, OffsetPaired
<1>2. ExchangeInv /\ OffsetPaired /\ [Next]_vars => ExchangeInv' /\ OffsetPaired'
  BY ExchangeStep, OffsetStep
<1>3. QED BY <1>1, <1>2, PTL DEF Spec

-----------------------------------------------------------------------------
(* Delays *)

\* The last request in the event socket is the last one issued.
LoopedLast == looped # <<>> => looped[Len(looped)] = requests - 1

\* What was measured is older than all that is still to be measured.
NewestIsOld ==
  /\ newest < requests
  /\ \A i \in 1..Len(looped) : looped[i] > newest
  /\ waitingForDelayResp => delay_req_send_time > newest

\* With the event socket empty, a slave that waits has the send time of the last
\* request, unless the counter has just wrapped.
LastRequestKnown ==
  /\ portState = "SLAVE" /\ waitingForDelayResp
  /\ looped = <<>> /\ Number(requests) # 0
  => delay_req_send_time = requests - 1

RequestsInv == LoopedLast /\ NewestIsOld /\ LastRequestKnown

LEMMA RequestsInit == Init => RequestsInv
BY DEF Init, RequestsInv, LoopedLast, NewestIsOld, LastRequestKnown, None

\* A step that leaves the requests alone, and makes no port a slave.
LEMMA RequestsAlone ==
  ASSUME RequestsInv, UNCHANGED <<requests, request, looped, newest>>,
         portState' = "SLAVE" => portState = "SLAVE"
  PROVE  RequestsInv'
BY DEF RequestsInv, LoopedLast, NewestIsOld, LastRequestKnown, request

\* Issuing a request that is looped back.
LEMMA RequestsIssue ==
  ASSUME TypeOK, RequestsInv, looped' = Append(looped, requests),
         requests' = requests + 1, UNCHANGED <<request, newest, portState>>
  PROVE  RequestsInv'
<1> USE DEF TypeOK, None
<1>1. Len(looped') = Len(looped) + 1 /\ Len(looped) \in Nat
  OBVIOUS
<1>2. looped'[Len(looped) + 1] = requests
  OBVIOUS
<1>3. \A i \in 1..Len(looped) : looped'[i] = looped[i]
  OBVIOUS
<1>4. LoopedLast'
  BY <1>1, <1>2 DEF LoopedLast
<1>5. NewestIsOld'
  <2>1. requests > newest
    BY DEF RequestsInv, NewestIsOld
  <2>2. ASSUME NEW i \in 1..Len(looped') PROVE looped'[i] > newest
    <3>1. CASE i \in 1..Len(looped)
      BY <1>3, <3>1 DEF RequestsInv, NewestIsOld
    <3>2. CASE i = Len(looped) + 1
      BY <1>2, <2>1, <3>2
    <3>3. QED BY <1>1, <3>1, <3>2
  <2>3. waitingForDelayResp' => delay_req_send_time' > newest'
    BY DEF RequestsInv, NewestIsOld, request
  <2>4. newest' < requests'
    BY <2>1
  <2>5. QED BY <2>2, <2>3, <2>4 DEF NewestIsOld
<1>6. LastRequestKnown'
  <2>1. looped' # <<>>
    BY <1>1
  <2>2. QED BY <2>1 DEF LastRequestKnown
<1>7. QED BY <1>4, <1>5, <1>6 DEF RequestsInv

\* Receiving an own request.
LEMMA RequestsLooped ==
  ASSUME TypeOK, RequestsInv, handleDelayReq
  PROVE  RequestsInv'
<1> USE DEF TypeOK, None
<1>1. /\ looped # <<>>
      /\ looped' = Tail(looped)
      /\ UNCHANGED <<requests, newest, portState>>
  BY DEF handleDelayReq, following, servo
<1>2. Len(looped') = Len(looped) - 1 /\ Len(looped) \in Nat \ {0}
  BY <1>1
<1>3. \A i \in 1..Len(looped') : looped'[i] = looped[i + 1]
  BY <1>1
<1>4. Head(looped) = looped[1] /\ looped[1] \in Nat /\ looped[1] > newest
  BY <1>1, <1>2 DEF RequestsInv, NewestIsOld
<1>5. LoopedLast'
  <2>1. ASSUME looped' # <<>> PROVE looped'[Len(looped')] = looped[Len(looped)]
    <3>1. Len(looped') # 0
      BY <1>1, <2>1
    <3>2. Len(looped') \in 1..Len(looped')
      BY <1>2, <3>1
    <3>3. QED BY <1>2, <1>3, <3>2
  <2>2. QED BY <1>1, <2>1 DEF RequestsInv, LoopedLast
<1>6. \/ waitingForDelayResp' /\ delay_req_send_time' = looped[1]
      \/ UNCHANGED request
  BY <1>4 DEF handleDelayReq
<1>7. NewestIsOld'
  <2>1. \A i \in 1..Len(looped') : looped'[i] > newest
    <3>1. \A i \in 1..Len(looped') : i + 1 \in 1..Len(looped)
      BY <1>2
    <3>2. QED BY <1>3, <3>1 DEF RequestsInv, NewestIsOld
  <2>2. waitingForDelayResp' => delay_req_send_time' > newest
    BY <1>4, <1>6 DEF RequestsInv, NewestIsOld, request
  <2>3. QED BY <1>1, <2>1, <2>2 DEF RequestsInv, NewestIsOld
<1>8. LastRequestKnown'
  <2> SUFFICES ASSUME portState = "SLAVE", looped' = <<>>, Number(requests) # 0
               PROVE  delay_req_send_time' = requests - 1
    BY <1>1 DEF LastRequestKnown
  <2>1. Len(looped) = 1
    BY <1>2
  <2>2. looped[1] = requests - 1
    BY <1>1, <2>1 DEF RequestsInv, LoopedLast
  <2>3. requests # 0
    BY <1>4, <2>2
  <2>4. Number(looped[1]) = Expected
    BY <2>2, <2>3, NumberBefore DEF Expected
  <2>5. QED BY <1>4, <2>2, <2>4 DEF handleDelayReq
<1>9. QED BY <1>5, <1>7, <1>8 DEF RequestsInv

\* What the port knows when it accepts an answer: it is to the last request.
LEMMA AnswerIsLast ==
  ASSUME ExchangeInv, RequestsInv, NEW msg \in net, handleDelayResp(msg)
  PROVE  msg.of = delay_req_send_time /\ msg.of > newest /\ msg.of < requests
<1>1. /\ msg.type = "DelayResp" /\ looped = <<>> /\ portState = "SLAVE"
      /\ msg.id = Number(requests) - 1 /\ waitingForDelayResp
  BY DEF handleDelayResp, GeneralSocket, FromParent, Expected
<1>2. /\ msg.id = Number(msg.of) /\ msg.of < requests
      /\ requests - msg.of <= SeqSize
  BY <1>1 DEF ExchangeInv, Recent, RecentMessage, Issued
<1>3. msg.of \in Nat /\ requests \in Nat
  BY DEF ExchangeInv, TypeOK, Message
<1>4. msg.of = requests - 1 /\ Number(requests) # 0
  BY <1>1, <1>2, <1>3, ExpectedIsLast
<1>5. QED
  BY <1>1, <1>2, <1>4 DEF RequestsInv, LastRequestKnown, NewestIsOld

\* Accepting an answer.
LEMMA RequestsAnswered ==
  ASSUME ExchangeInv, RequestsInv, NEW msg \in net, handleDelayResp(msg)
  PROVE  RequestsInv'
<1>1. /\ looped' = <<>> /\ waitingForDelayResp' = FALSE
      /\ UNCHANGED requests
      /\ newest' = msg.of \/ newest' = newest
  BY DEF handleDelayResp, GeneralSocket, updateDelay
<1>2. newest' < requests
  BY <1>1, AnswerIsLast DEF RequestsInv, NewestIsOld
<1>3. QED
  BY <1>1, <1>2 DEF RequestsInv, LoopedLast, NewestIsOld, LastRequestKnown

\* Every action keeps what the port knows of its requests, when the event socket
\* loses none.
LEMMA RequestsStep ==
  ASSUME LossyLoopback = FALSE, ExchangeInv, RequestsInv, [Next]_vars
  PROVE  RequestsInv'
<1>0. TypeOK
  BY DEF ExchangeInv
<1>1. CASE EnterSlave
  BY <1>1 DEF EnterSlave, initClock, RequestsInv, LoopedLast, NewestIsOld,
              LastRequestKnown
<1>2. CASE doInit
  BY <1>2 DEF doInit, initClock, request, RequestsInv, LoopedLast, NewestIsOld,
              LastRequestKnown
<1>3. CASE issueDelayReq
  <2>1. looped' = Append(looped, requests)
    BY <1>3 DEF issueDelayReq
  <2>2. requests' = requests + 1 /\ UNCHANGED <<request, newest, portState>>
    BY <1>3 DEF issueDelayReq, following, servo
  <2>3. QED BY <1>0, <2>1, <2>2, RequestsIssue
<1>4. CASE handleDelayReq
  BY <1>0, <1>4, RequestsLooped
<1>5. ASSUME NEW msg \in net, handleDelayResp(msg) PROVE RequestsInv'
  BY <1>5, RequestsAnswered
<1>6. CASE Vanish
  BY <1>6, RequestsAlone DEF Vanish, following, servo
<1>7. CASE ChangeParent
  BY <1>7, RequestsAlone DEF ChangeParent, servo
<1>8. CASE LeaveSlave
  BY <1>8, RequestsAlone DEF LeaveSlave, servo
<1>9. ASSUME NEW m \in Masters, issueSync(m) PROVE RequestsInv'
  BY <1>9, RequestsAlone DEF issueSync, following, servo
<1>10. ASSUME NEW m \in Masters, issueFollowup(m) PROVE RequestsInv'
  BY <1>10, RequestsAlone DEF issueFollowup, following, servo
<1>11. ASSUME NEW msg \in net, handleSync(msg) PROVE RequestsInv'
  BY <1>11, RequestsAlone DEF handleSync, following, servo
<1>12. ASSUME NEW msg \in net, handleFollowUp(msg) PROVE RequestsInv'
  BY <1>12, RequestsAlone DEF handleFollowUp, updateOffset, FromParent
<1>13. ASSUME NEW msg \in net, issueDelayResp(msg) PROVE RequestsInv'
  BY <1>13, RequestsAlone DEF issueDelayResp, following, servo
<1>14. CASE UNCHANGED vars
  BY <1>14, RequestsAlone DEF vars, following, servo
<1>15. QED
  BY <1>1, <1>2, <1>3, <1>4, <1>5, <1>6, <1>7, <1>8, <1>9, <1>10, <1>11, <1>12,
     <1>13, <1>14 DEF Next

\* A delay is computed only when an answer is accepted.
LEMMA DelayStep ==
  ASSUME ExchangeInv, RequestsInv, Next
  PROVE  \A d \in delay' : d.sent = d.received /\ d.received > newest
<1>1. ASSUME NEW msg \in net, handleDelayResp(msg)
      PROVE  \A d \in delay' : d.sent = d.received /\ d.received > newest
  <2>1. ASSUME NEW d \in delay'
        PROVE  d.sent = delay_req_send_time /\ d.received = msg.of
    BY <1>1, <2>1 DEF handleDelayResp, updateDelay
  <2>2. msg.of = delay_req_send_time /\ msg.of > newest
    BY <1>1, AnswerIsLast
  <2>3. QED BY <2>1, <2>2
<1>2. ASSUME NEW msg \in net, handleFollowUp(msg) PROVE delay' = {}
  BY <1>2 DEF handleFollowUp, updateOffset
<1>3. CASE delay' = {}
  BY <1>3
<1>4. QED
  BY <1>1, <1>2, <1>3
  DEF Next, Vanish, ChangeParent, EnterSlave, LeaveSlave, doInit, issueSync,
      issueFollowup, handleSync, issueDelayReq, handleDelayReq, issueDelayResp,
      ComputesNothing

\* A delay is the difference of two time stamps of one request, unless the port's
\* event socket lost a request of its own.
THEOREM DelaysArePaired ==
  ASSUME LossyLoopback = FALSE
  PROVE  Spec => []DelayPaired
<1> DEFINE Inv == ExchangeInv /\ RequestsInv /\ DelayPaired
<1>1. Init => Inv
  BY ExchangeInit, RequestsInit DEF Init, DelayPaired
<1>2. Inv /\ [Next]_vars => Inv'
  <2> SUFFICES ASSUME Inv, [Next]_vars PROVE Inv'
    OBVIOUS
  <2>1. ExchangeInv' /\ RequestsInv'
    BY ExchangeStep, RequestsStep
  <2>2. CASE Next
    BY <2>1, <2>2, DelayStep DEF DelayPaired
  <2>3. CASE UNCHANGED vars
    BY <2>1, <2>3 DEF DelayPaired, vars, computed
  <2>4. QED BY <2>2, <2>3
<1>3. Inv => DelayPaired
  OBVIOUS
<1>4. QED BY <1>1, <1>2, <1>3, PTL DEF Spec

\* No request is measured twice, and none after a newer one, unless the port's
\* event socket lost a request of its own.
THEOREM DelaysAlwaysGoForward ==
  ASSUME LossyLoopback = FALSE
  PROVE  Spec => DelaysGoForward
<1> DEFINE Inv == ExchangeInv /\ RequestsInv
<1>1. Init => Inv
  BY ExchangeInit, RequestsInit
<1>2. Inv /\ [Next]_vars => Inv'
  BY ExchangeStep, RequestsStep
<1>3. Inv /\ [Next]_vars => [\A d \in delay' : d.received > newest]_vars
  BY DelayStep
<1>4. QED BY <1>1, <1>2, <1>3, PTL DEF Spec, DelaysGoForward
=============================================================================

---------------------------- MODULE Daemon_proofs ----------------------------
(***************************************************************************)
(* Theorems about Daemon, for any number of places and any commands whose  *)
(* options are consistent: the types, who may be refused, who may run      *)
(* beside whom, and what stays open.                                       *)
(***************************************************************************)
EXTENDS Daemon, FiniteSetTheorems, TLAPS

\* How many times a daemon has LOCKFILE open.
Depth(p) ==
  IF pc[p] \in {"off", "open"} THEN 0
  ELSE IF pc[p] \in {"lock", "reopen"} THEN 1
  ELSE IF pc[p] = "relock" THEN 2
  ELSE IF rtOpts(p).ignore_daemon_lock THEN 0
  ELSE IF pc[p] \in Starting THEN 1
  ELSE 2

\* The lock file is opened before the fork and after it, unless it is ignored.
LockFilesOpen ==
  \A p \in Slots :
    /\ Len(opened[p]) = Depth(p)
    /\ pc[p] \in {"open", "lock", "reopen", "relock"} => ~rtOpts(p).ignore_daemon_lock

\* A lock is held by a process that is there.
HoldersAlive ==
  \A i \in Inodes : \A p \in Slots :
    /\ holder[i] = <<p, "first">> => Alive(p) /\ family[p] # "child"
    /\ holder[i] = <<p, "child">> => Alive(p) /\ family[p] # "first"

\* A daemon that starts has met all that are alive.
StartersMeet ==
  \A p, q \in Slots : p # q /\ pc[p] \in Starting /\ Alive(q) => met[p]

\* Past the look at the processes.
Looked(p) == pc[p] \in {"files", "fork", "reopen", "relock"} \cup Running \cup Ending

Strict(p) == rtOpts(p).ptp_daemons_strict /\ ~rtOpts(p).ignore_daemon_lock

\* Whoever is strict was alone when it looked, and who looks later sees it.
StrictAlone == \A p, q \in Slots : Looked(p) /\ Strict(p) /\ Looked(q) /\ Strict(q) => p = q

\* A port that works has come through netInit().
SocketsOpen ==
  \A p \in Slots :
    /\ pc[p] \in {"reset", "joining"} => sockets[p] = 2
    /\ pc[p] = "run" /\ portState[p] \in Working => sockets[p] = 2
    /\ pc[p] \in Starting \cup {"off"} => portState[p] = "INITIALIZING"

IInv ==
  /\ TypeOK
  /\ LockFilesOpen
  /\ HoldersAlive
  /\ StartersMeet
  /\ StrictAlone
  /\ SocketsOpen
  /\ RefusedForAReason

-----------------------------------------------------------------------------
(* Initially, and helpers *)

LEMMA OptionsConsistent ==
  ASSUME IInv, NEW p \in Slots
  PROVE  /\ command[p] \in Commands
         /\ rtOpts(p).ntp_daemons_strict => rtOpts(p).ntp_daemons_expected = 0
         /\ rtOpts(p).slaveOnly => rtOpts(p).ptp_daemons_strict
<1>1. command[p] \in Commands
  BY DEF IInv, TypeOK
<1>2. rtOpts(p) = Parsed(command[p])
  BY <1>1 DEF rtOpts, Options
<1>3. QED
  BY <1>1, <1>2, CommandsAssumption

LEMMA AnyCommand == (CHOOSE c \in Commands : TRUE) \in Commands
BY CommandsAssumption

LEMMA InodesNat == Inodes \subseteq Nat \ {0} /\ NoInode \notin Inodes
<1>1. Cardinality(Slots) \in Nat
  BY CommandsAssumption, FS_CardinalityType
<1>2. QED
  BY <1>1 DEF Inodes, NoInode

LEMMA DepthBounded ==
  ASSUME IInv, NEW p \in Slots
  PROVE  opened[p] \in Seq(Inodes) /\ Len(opened[p]) = Depth(p) /\ Len(opened[p]) <= 2
<1>1. opened[p] \in Seq(Inodes)
  BY DEF IInv, TypeOK
<1>2. Len(opened[p]) = Depth(p)
  BY DEF IInv, LockFilesOpen
<1>3. Depth(p) <= 2
  BY DEF Depth
<1>4. QED
  BY <1>1, <1>2, <1>3

LEMMA TwoElements == IsFiniteSet(1..2) /\ Cardinality(1..2) = 2
<1>1. 1 \in Int /\ 2 \in Int
  OBVIOUS
<1>2. IsFiniteSet(1..2) /\ Cardinality(1..2) = IF 1 > 2 THEN 0 ELSE 2 - 1 + 1
  BY <1>1, FS_Interval, Zenon
<1>3. QED
  BY <1>2

LEMMA SomebodyIsNotNobody == ASSUME NEW p, NEW process PROVE <<p, process>> # Nobody
BY DEF Nobody

\* There are more inodes than daemons can have open.
LEMMA SomeInodeFree ==
  ASSUME IInv, path = NoInode
  PROVE  FreeInode \in Inodes
<1> DEFINE places == Slots \X (1..2)
           at == [x \in places |-> IF x[2] <= Len(opened[x[1]])
                                     THEN opened[x[1]][x[2]] ELSE 0]
           used == {at[x] : x \in places}
<1>1. Cardinality(Slots) \in Nat
  BY CommandsAssumption, FS_CardinalityType
<1>2. IsFiniteSet(1..2) /\ Cardinality(1..2) = 2
  BY TwoElements
<1>3. IsFiniteSet(places) /\ Cardinality(places) = Cardinality(Slots) * 2
  BY <1>2, CommandsAssumption, FS_Product
<1>4. at \in Surjection(places, used)
  <2>1. at \in [places -> used]
    OBVIOUS
  <2>2. \A y \in used : \E x \in places : at[x] = y
    OBVIOUS
  <2>3. QED
    BY <2>1, <2>2 DEF Surjection
<1>5. IsFiniteSet(used) /\ Cardinality(used) <= Cardinality(Slots) * 2
  <2> HIDE DEF places, at, used
  <2> QED  BY <1>3, <1>4, FS_Surjection
<1>6. Cardinality(Inodes) = 2 * Cardinality(Slots) + 1
  BY <1>1, FS_Interval DEF Inodes
<1>7. ~(Inodes \subseteq used)
  <2> HIDE DEF used
  <2>1. SUFFICES ASSUME Inodes \subseteq used PROVE FALSE
    OBVIOUS
  <2>2. Cardinality(Inodes) <= Cardinality(used) /\ Cardinality(used) \in Nat
    BY <1>5, <2>1, FS_Subset, FS_CardinalityType
  <2>3. QED
    BY <1>1, <1>5, <1>6, <2>2
<1>8. PICK i \in Inodes : i \notin used
  BY <1>7
<1>9. \A p \in Slots : i \notin Range(opened[p])
  <2>1. SUFFICES ASSUME NEW p \in Slots, NEW k \in DOMAIN opened[p], i = opened[p][k]
                 PROVE  FALSE
    BY DEF Range
  <2>2. opened[p] \in Seq(Inodes) /\ Len(opened[p]) <= 2
    BY DepthBounded
  <2>3. k \in 1..2 /\ k <= Len(opened[p])
    BY <2>2
  <2>4. <<p, k>> \in places
    BY <2>3
  <2> DEFINE x == <<p, k>>
  <2>a. x[1] = p /\ x[2] = k
    OBVIOUS
  <2>7. at[x] = IF x[2] <= Len(opened[x[1]]) THEN opened[x[1]][x[2]] ELSE 0
    BY <2>4
  <2>8. at[<<p, k>>] = i
    <3> HIDE DEF at
    <3> QED BY <2>1, <2>3, <2>7, <2>a
  <2>5. at[<<p, k>>] \in used
    BY <2>4
  <2>6. QED
    BY <1>8, <2>8, <2>5
<1>10. i # path
  BY InodesNat
<1>11. QED
  BY <1>9, <1>10 DEF FreeInode

LEMMA InitIInv == Init => IInv
<1> SUFFICES ASSUME Init PROVE IInv
  OBVIOUS
<1>1. TypeOK
  <2>1. NetworkTypeOK
    <3>1. forwarded \in BOOLEAN
      BY Zenon DEF Init, NetworkInit
    <3>2. QED
      BY <3>1 DEF Init, NetworkInit, NetworkTypeOK
  <2>2. command \in [Slots -> Commands]
    BY AnyCommand DEF Init
  <2>3. /\ opened \in [Slots -> Seq(Inodes)]
        /\ holder \in [Inodes -> (Slots \X {"first", "child"}) \cup {Nobody}]
    BY DEF Init
  <2>4. met \in [Slots -> BOOLEAN] /\ unexplained \in BOOLEAN
    BY Zenon DEF Init
  <2>5. QED
    BY <2>1, <2>2, <2>3, <2>4 DEF Init, TypeOK
<1>2. LockFilesOpen
  BY DEF Init, LockFilesOpen, Depth
<1>3. HoldersAlive
  BY DEF Init, HoldersAlive, Nobody
<1>4. StartersMeet /\ StrictAlone
  BY DEF Init, StartersMeet, Starting, StrictAlone, Looked, Running, Ending
<1>5. SocketsOpen /\ RefusedForAReason
  BY DEF Init, SocketsOpen, RefusedForAReason
<1>6. QED
  BY <1>1, <1>2, <1>3, <1>4, <1>5 DEF IInv

-----------------------------------------------------------------------------
(* Steps of one daemon *)

Places == {"off"} \cup Starting \cup Running \cup Ending

\* Whoever starts has met those alive, unless somebody begins to start.
LEMMA GoesOn ==
  ASSUME IInv, NEW p \in Slots, NEW to \in Places, Goes(p, to),
         pc[p] \in Starting \/ (Alive(p) /\ to \notin Starting) \/ to = "off"
  PROVE  /\ pc' \in [Slots -> Places] /\ met' \in [Slots -> BOOLEAN]
         /\ pc'[p] = to /\ \A q \in Slots \ {p} : pc'[q] = pc[q]
         /\ StartersMeet'
<1>1. pc \in [Slots -> Places] /\ met \in [Slots -> BOOLEAN]
  BY DEF IInv, TypeOK, Places
<1>2. pc' \in [Slots -> Places] /\ pc'[p] = to /\ \A q \in Slots \ {p} : pc'[q] = pc[q]
  BY <1>1 DEF Goes
<1>3. met' \in [Slots -> BOOLEAN]
  BY <1>1 DEF Goes
<1>4. /\ \A q \in Slots \ {p} : met'[q] = met[q]
      /\ to \in Starting => met'[p] = met[p]
  BY <1>1 DEF Goes
<1>5. ASSUME NEW q \in Slots, NEW r \in Slots, q # r, pc'[q] \in Starting, Alive(r)'
      PROVE  met'[q]
  <2>1. Alive(r)
    BY <1>2, <1>5 DEF Alive, Starting
  <2>2. pc[q] \in Starting /\ met'[q] = met[q]
    BY <1>2, <1>4, <1>5 DEF Starting
  <2>3. QED
    BY <1>5, <2>1, <2>2 DEF IInv, StartersMeet
<1>6. QED
  BY <1>2, <1>3, <1>5 DEF StartersMeet

LEMMA ShutdownTypes ==
  ASSUME NetworkTypeOK, NEW p \in Slots, netShutdown(p)
  PROVE  NetworkTypeOK' /\ \A q \in Slots \ {p} : sockets'[q] = sockets[q]
<1>1. sockets' \in [Slots -> 0..2] /\ \A q \in Slots \ {p} : sockets'[q] = sockets[q]
  BY DEF NetworkTypeOK, netShutdown
<1>2. member' \subseteq Slots /\ netPath' \subseteq Slots /\ link' \in {"up", "gone"}
  BY DEF NetworkTypeOK, netShutdown, Leaves
<1>3. forwarded' \in BOOLEAN
  BY DEF NetworkTypeOK, netShutdown, Leaves, Told
<1>4. QED
  BY <1>1, <1>2, <1>3 DEF NetworkTypeOK

\* The end of a process leaves nothing behind.
LEMMA DiesIInv ==
  ASSUME IInv, NEW p \in Slots, Dies(p), path' \in Inodes \cup {NoInode}, unexplained' = FALSE
  PROVE  IInv'
<1> DEFINE c == CHOOSE c \in Commands : TRUE
<1> HIDE DEF c
<1>1. /\ pc' \in [Slots -> Places] /\ met' \in [Slots -> BOOLEAN]
      /\ pc'[p] = "off" /\ \A q \in Slots \ {p} : pc'[q] = pc[q]
      /\ StartersMeet'
  BY GoesOn DEF Dies, Places
<1>2. NetworkTypeOK' /\ \A q \in Slots \ {p} : sockets'[q] = sockets[q]
  BY ShutdownTypes DEF Dies, IInv, TypeOK
<1>3. /\ family' \in [Slots -> {"first", "both", "child"}]
      /\ command' \in [Slots -> Commands]
      /\ opened' \in [Slots -> Seq(Inodes)]
      /\ files' \in [Slots -> 0..1]
      /\ portState' \in [Slots -> {"INITIALIZING", "LISTENING", "SLAVE", "MASTER", "FAULTY"}]
  BY AnyCommand DEF Dies, IInv, TypeOK
<1>4. holder' \in [Inodes -> (Slots \X {"first", "child"}) \cup {Nobody}]
  BY DEF Dies, IInv, TypeOK
<1>5. TypeOK'
  BY <1>1, <1>2, <1>3, <1>4 DEF TypeOK, Places
<1>6. \A q \in Slots \ {p} :
        /\ family'[q] = family[q] /\ command'[q] = command[q]
        /\ opened'[q] = opened[q] /\ portState'[q] = portState[q]
  BY DEF Dies, IInv, TypeOK
<1>7. opened'[p] = <<>> /\ portState'[p] = "INITIALIZING"
  BY DEF Dies, IInv, TypeOK
<1>8. LockFilesOpen'
  BY <1>1, <1>6, <1>7 DEF IInv, LockFilesOpen, Depth, rtOpts
<1>9. HoldersAlive'
  <2>1. SUFFICES ASSUME NEW i \in Inodes, NEW q \in Slots
                 PROVE  /\ holder'[i] = <<q, "first">> => Alive(q)' /\ family'[q] # "child"
                        /\ holder'[i] = <<q, "child">> => Alive(q)' /\ family'[q] # "first"
    BY DEF HoldersAlive
  <2>2. holder'[i] = IF holder[i] \in {<<p, "first">>, <<p, "child">>} THEN Nobody ELSE holder[i]
    BY DEF Dies
  <2>3. CASE q = p
    <3>1. holder'[i] # <<p, "first">> /\ holder'[i] # <<p, "child">>
      BY <2>2, SomebodyIsNotNobody
    <3>2. QED
      BY <2>3, <3>1
  <2>4. CASE q # p
    <3>1. /\ holder'[i] = <<q, "first">> => holder[i] = <<q, "first">>
          /\ holder'[i] = <<q, "child">> => holder[i] = <<q, "child">>
      BY <2>2, SomebodyIsNotNobody
    <3>2. QED
      BY <1>1, <1>6, <2>4, <3>1 DEF IInv, HoldersAlive, Alive
  <2>5. QED
    BY <2>3, <2>4
<1>10. StrictAlone'
  BY <1>1, <1>6 DEF IInv, StrictAlone, Looked, Strict, rtOpts, Starting, Running, Ending
<1>11. SocketsOpen'
  BY <1>1, <1>2, <1>6, <1>7 DEF IInv, SocketsOpen, Starting, Working
<1>12. QED
  BY <1>1, <1>5, <1>8, <1>9, <1>10, <1>11 DEF IInv, RefusedForAReason

-----------------------------------------------------------------------------
(* Steps of the protocol engine *)

PortStates == Working \cup {"INITIALIZING", "FAULTY"}

\* What the steps of the protocol engine have in common.
LEMMA RunStepIInv ==
  ASSUME IInv, NEW p \in Slots, pc[p] \in Running, NEW to \in Running \cup {"closing"},
         pc' = [pc EXCEPT ![p] = to],
         met' \in [Slots -> BOOLEAN], \A q \in Slots \ {p} : met'[q] = met[q],
         UNCHANGED Standing, NetworkTypeOK', portState' \in [Slots -> PortStates],
         \A q \in Slots \ {p} : portState'[q] = portState[q] /\ sockets'[q] = sockets[q],
         to \in {"reset", "joining"} \/ (to = "run" /\ portState'[p] \in Working)
           => sockets'[p] = 2
  PROVE  IInv'
<1>1. pc \in [Slots -> Places]
  BY DEF IInv, TypeOK, Places
<1>2. /\ pc' \in [Slots -> Places]
      /\ pc'[p] = to /\ \A q \in Slots \ {p} : pc'[q] = pc[q]
  BY <1>1 DEF Places, Running, Ending
<1>3. TypeOK'
  BY <1>2 DEF IInv, TypeOK, Standing, locks, Places, PortStates, Working
<1>4. LockFilesOpen'
  BY <1>2 DEF IInv, LockFilesOpen, Depth, rtOpts, Standing, locks, Starting, Running, Ending
<1>5. HoldersAlive'
  BY <1>2 DEF IInv, HoldersAlive, Alive, Standing, locks, Running
<1>6. StartersMeet'
  BY <1>2 DEF IInv, StartersMeet, Alive, Starting, Running
<1>7. StrictAlone'
  BY <1>2 DEF IInv, StrictAlone, Looked, Strict, rtOpts, Standing, Starting, Running, Ending
<1>8. SocketsOpen'
  BY <1>2 DEF IInv, SocketsOpen, Starting, Running
<1>9. RefusedForAReason'
  BY DEF IInv, RefusedForAReason, Standing
<1>10. QED
  BY <1>3, <1>4, <1>5, <1>6, <1>7, <1>8, <1>9 DEF IInv

LEMMA GoesNotStarting ==
  ASSUME IInv, NEW p \in Slots, NEW to \in Places, Goes(p, to)
  PROVE  /\ pc' = [pc EXCEPT ![p] = to]
         /\ met' \in [Slots -> BOOLEAN] /\ \A q \in Slots \ {p} : met'[q] = met[q]
BY DEF IInv, TypeOK, Goes

LEMMA StaysThere ==
  ASSUME IInv, NEW p \in Slots, UNCHANGED <<pc, met>>
  PROVE  /\ pc' = [pc EXCEPT ![p] = pc[p]]
         /\ met' \in [Slots -> BOOLEAN] /\ \A q \in Slots \ {p} : met'[q] = met[q]
BY DEF IInv, TypeOK

LEMMA BecomesState ==
  ASSUME IInv, NEW p \in Slots, NEW state \in PortStates, Becomes(p, state)
  PROVE  /\ portState' \in [Slots -> PortStates] /\ portState'[p] = state
         /\ \A q \in Slots \ {p} : portState'[q] = portState[q]
BY DEF IInv, TypeOK, Becomes, PortStates, Working

LEMMA ToldTypes ==
  ASSUME NEW f \in BOOLEAN, NEW before, NEW after
  PROVE  Told(f, before, after) \in BOOLEAN
BY DEF Told

LEMMA InitTypes ==
  ASSUME NetworkTypeOK, NEW p \in Slots, NEW success \in BOOLEAN, netInit(p, success)
  PROVE  /\ NetworkTypeOK' /\ \A q \in Slots \ {p} : sockets'[q] = sockets[q]
         /\ success => sockets'[p] = 2
<1>1. /\ sockets' \in [Slots -> 0..2] /\ \A q \in Slots \ {p} : sockets'[q] = sockets[q]
      /\ success => sockets'[p] = 2
  <2>1. PICK many \in IF success THEN {2} ELSE 0..2 :
          sockets' = [sockets EXCEPT ![p] = (IF TRUE THEN 0 ELSE @) + many]
    BY DEF netInit, Anew
  <2>2. many \in 0..2 /\ (success => many = 2)
    BY <2>1
  <2>3. QED
    BY <2>1, <2>2 DEF NetworkTypeOK
<1>2. member' \subseteq Slots /\ netPath' \subseteq Slots /\ link' \in {"up", "gone"}
  BY DEF NetworkTypeOK, netInit, Anew, Joins, Leaves
<1>3. forwarded' \in BOOLEAN
  <2>1. \/ forwarded' = Told(Told(forwarded, member, member \ {p}), member \ {p}, member')
        \/ forwarded' = Told(forwarded, member, member')
    BY DEF netInit, Anew, Joins, Leaves
  <2>2. QED
    BY <2>1, ToldTypes DEF NetworkTypeOK
<1>4. QED
  BY <1>1, <1>2, <1>3 DEF NetworkTypeOK

LEMMA MulticastTypes ==
  ASSUME NetworkTypeOK, NEW p \in Slots, netShutdownMulticast(p) \/ netInitMulticast(p)
  PROVE  NetworkTypeOK' /\ UNCHANGED sockets
<1>1. UNCHANGED <<sockets, link>>
  BY DEF netShutdownMulticast, netInitMulticast
<1>2. member' \subseteq Slots /\ netPath' \subseteq Slots
  BY DEF NetworkTypeOK, netShutdownMulticast, netInitMulticast, Joins, Leaves
<1>3. forwarded' \in BOOLEAN
  <2>1. \/ forwarded' = Told(Told(forwarded, member, member \ {p}), member \ {p}, member')
        \/ forwarded' = Told(forwarded, member, member')
        \/ forwarded' = forwarded
    BY DEF netShutdownMulticast, netInitMulticast, Joins, Leaves
  <2>2. QED
    BY <2>1, ToldTypes DEF NetworkTypeOK
<1>4. QED
  BY <1>1, <1>2, <1>3 DEF NetworkTypeOK

LEMMA doInitIInv ==
  ASSUME IInv, NEW p \in Slots, doInit(p)
  PROVE  IInv'
<1>1. PICK success \in BOOLEAN :
        /\ netInit(p, success)
        /\ Goes(p, IF success THEN "reset" ELSE "closing")
        /\ IF success THEN UNCHANGED portState ELSE Becomes(p, "FAULTY")
  BY DEF doInit
<1> DEFINE to == IF success THEN "reset" ELSE "closing"
<1>2. NetworkTypeOK' /\ (\A q \in Slots \ {p} : sockets'[q] = sockets[q]) /\ (success => sockets'[p] = 2)
  BY <1>1, InitTypes DEF IInv, TypeOK
<1>3. to \in Places /\ to \in Running \cup {"closing"} /\ (to # "closing" => success) /\ to # "run" /\ to # "joining"
  BY DEF Places, Running, Ending
<1> HIDE DEF to
<1>4. /\ pc' = [pc EXCEPT ![p] = to]
      /\ met' \in [Slots -> BOOLEAN] /\ \A q \in Slots \ {p} : met'[q] = met[q]
  BY <1>1, <1>3, GoesNotStarting DEF to
<1>5. portState' \in [Slots -> PortStates] /\ \A q \in Slots \ {p} : portState'[q] = portState[q]
  <2>1. CASE success
    BY <1>1, <2>1 DEF IInv, TypeOK, PortStates, Working
  <2>2. CASE ~success
    BY <1>1, <2>2, BecomesState DEF PortStates
  <2>3. QED
    BY <2>1, <2>2
<1>6. pc[p] \in Running /\ UNCHANGED Standing
  BY DEF doInit, Pass, Running
<1>7. QED
  BY <1>2, <1>3, <1>4, <1>5, <1>6, RunStepIInv

LEMMA ToListeningIInv ==
  ASSUME IInv, NEW p \in Slots, pc[p] \in Running, sockets[p] = 2, ToListening(p)
  PROVE  IInv'
<1>1. /\ portState' \in [Slots -> PortStates] /\ portState'[p] = "LISTENING"
      /\ \A q \in Slots \ {p} : portState'[q] = portState[q]
  BY BecomesState DEF ToListening, PortStates, Working
<1>2. UNCHANGED Standing
  BY DEF ToListening
<1>3. NetworkTypeOK' /\ UNCHANGED sockets
  BY MulticastTypes DEF ToListening, IInv, TypeOK, network, NetworkTypeOK
<1>4. PICK to \in {"joining", "run"} : Goes(p, to)
  BY DEF ToListening
<1>5. /\ pc' = [pc EXCEPT ![p] = to]
      /\ met' \in [Slots -> BOOLEAN] /\ \A q \in Slots \ {p} : met'[q] = met[q]
  BY <1>4, GoesNotStarting DEF Places, Running
<1>6. QED
  BY <1>1, <1>2, <1>3, <1>5, RunStepIInv DEF Running

LEMMA ResetIInv ==
  ASSUME IInv, NEW p \in Slots, Reset(p)
  PROVE  IInv'
BY ToListeningIInv DEF Reset, Running, IInv, SocketsOpen

LEMMA JoinIInv ==
  ASSUME IInv, NEW p \in Slots, Join(p)
  PROVE  IInv'
<1>1. NetworkTypeOK' /\ UNCHANGED sockets
  BY MulticastTypes DEF Join, IInv, TypeOK
<1>2. /\ pc' = [pc EXCEPT ![p] = "run"]
      /\ met' \in [Slots -> BOOLEAN] /\ \A q \in Slots \ {p} : met'[q] = met[q]
  BY GoesNotStarting DEF Join, Places, Running
<1>3. /\ UNCHANGED <<Standing, portState>> /\ pc[p] = "joining"
      /\ portState \in [Slots -> PortStates]
  BY DEF Join, IInv, TypeOK, PortStates, Working
<1>4. sockets[p] = 2
  BY <1>3 DEF IInv, SocketsOpen
<1>5. QED
  BY <1>1, <1>2, <1>3, <1>4, RunStepIInv DEF Running

LEMMA AnnounceTimeoutIInv ==
  ASSUME IInv, NEW p \in Slots, AnnounceTimeout(p)
  PROVE  IInv'
<1>1. pc[p] = "run" /\ portState[p] \in Working /\ sockets[p] = 2
  BY DEF AnnounceTimeout, Pass, IInv, SocketsOpen, Working
<1>2. CASE rtOpts(p).slaveOnly
  BY <1>1, <1>2, ToListeningIInv DEF AnnounceTimeout, Running
<1>3. CASE ~rtOpts(p).slaveOnly
  <2>1. Becomes(p, "MASTER") /\ UNCHANGED <<Standing, pc, met, network>>
    BY <1>3 DEF AnnounceTimeout
  <2>2. portState' \in [Slots -> PortStates] /\ \A q \in Slots \ {p} : portState'[q] = portState[q]
    BY <2>1, BecomesState DEF PortStates, Working
  <2>3. NetworkTypeOK' /\ UNCHANGED sockets
    BY <2>1 DEF IInv, TypeOK, network, NetworkTypeOK
  <2>4. QED
    BY <1>1, <2>1, <2>2, <2>3, StaysThere, RunStepIInv DEF Running
<1>4. QED
  BY <1>2, <1>3

LEMMA AnnouncedIInv ==
  ASSUME IInv, NEW p \in Slots, Announced(p)
  PROVE  IInv'
<1>1. pc[p] = "run" /\ sockets[p] = 2
  BY DEF Announced, Pass, IInv, SocketsOpen
<1>2. PICK state \in {"SLAVE", "MASTER"} : Becomes(p, state)
  BY DEF Announced
<1>3. portState' \in [Slots -> PortStates] /\ \A q \in Slots \ {p} : portState'[q] = portState[q]
  BY <1>2, BecomesState DEF PortStates, Working
<1>4. UNCHANGED <<Standing, pc, met, network>>
  BY DEF Announced
<1>5. NetworkTypeOK' /\ UNCHANGED sockets
  BY <1>4 DEF IInv, TypeOK, network, NetworkTypeOK
<1>6. QED
  BY <1>1, <1>3, <1>4, <1>5, StaysThere, RunStepIInv DEF Running

LEMMA FaultIInv ==
  ASSUME IInv, NEW p \in Slots, Fault(p)
  PROVE  IInv'
<1>1. PICK state \in {"FAULTY", "INITIALIZING"} : Becomes(p, state)
  BY DEF Fault
<1>2. /\ portState' \in [Slots -> PortStates] /\ portState'[p] \notin Working
      /\ \A q \in Slots \ {p} : portState'[q] = portState[q]
  BY <1>1, BecomesState DEF PortStates, Working
<1>3. pc[p] = "run" /\ UNCHANGED <<Standing, pc, met, network>>
  BY DEF Fault, Pass
<1>4. NetworkTypeOK' /\ UNCHANGED sockets
  BY <1>3 DEF IInv, TypeOK, network, NetworkTypeOK
<1>5. QED
  BY <1>2, <1>3, <1>4, StaysThere, RunStepIInv DEF Running

LEMMA do_signal_closeIInv ==
  ASSUME IInv, NEW p \in Slots, do_signal_close(p)
  PROVE  IInv'
<1>1. pc[p] = "run" /\ Goes(p, "closing") /\ UNCHANGED <<Standing, portState, network>>
  BY DEF do_signal_close
<1>2. /\ pc' = [pc EXCEPT ![p] = "closing"]
      /\ met' \in [Slots -> BOOLEAN] /\ \A q \in Slots \ {p} : met'[q] = met[q]
  BY <1>1, GoesNotStarting DEF Places, Ending
<1>3. NetworkTypeOK' /\ UNCHANGED sockets /\ portState' \in [Slots -> PortStates]
  BY <1>1 DEF IInv, TypeOK, network, NetworkTypeOK, PortStates, Working
<1>4. QED
  BY <1>1, <1>2, <1>3, RunStepIInv DEF Running

-----------------------------------------------------------------------------
(* Steps of the start, and the end *)

\* What the steps of the start have in common: of the slot nothing but its place,
\* what it has opened and locked, and its family and files.
LEMMA StartupStepIInv ==
  ASSUME IInv, NEW p \in Slots, pc[p] \in Starting,
         NEW to \in Starting \cup {"run"}, Goes(p, to),
         path' \in Inodes \cup {NoInode},
         opened' \in [Slots -> Seq(Inodes)],
         \A q \in Slots \ {p} : opened'[q] = opened[q],
         Len(opened'[p]) = Depth(p)',
         to \in {"open", "lock", "reopen", "relock"} => ~rtOpts(p).ignore_daemon_lock,
         holder' \in [Inodes -> (Slots \X {"first", "child"}) \cup {Nobody}],
         \A i \in Inodes : holder'[i] \in {holder[i], Self(p)},
         family' \in [Slots -> {"first", "both", "child"}],
         \A q \in Slots \ {p} : family'[q] = family[q],
         family'[p] \in {family[p], "both"},
         files' \in [Slots -> 0..1],
         Looked(p) \/ ~Looked(p)' \/ \A q \in Slots \ {p} : ~(Strict(p) /\ Looked(q) /\ Strict(q)),
         UNCHANGED <<command, portState, unexplained, network>>
  PROVE  IInv'
<1>1. /\ pc' \in [Slots -> Places] /\ met' \in [Slots -> BOOLEAN]
      /\ pc'[p] = to /\ \A q \in Slots \ {p} : pc'[q] = pc[q]
      /\ StartersMeet'
  BY GoesOn DEF Places, Running
<1>2. TypeOK'
  <2>1. NetworkTypeOK'
    BY DEF IInv, TypeOK, NetworkTypeOK, network
  <2>2. QED
    BY <1>1, <2>1 DEF IInv, TypeOK, Places
<1>3. LockFilesOpen'
  <2>1. SUFFICES ASSUME NEW q \in Slots
                 PROVE  /\ Len(opened'[q]) = Depth(q)'
                        /\ pc'[q] \in {"open", "lock", "reopen", "relock"}
                             => ~rtOpts(q)'.ignore_daemon_lock
    BY DEF LockFilesOpen
  <2>2. CASE q = p
    BY <1>1, <2>2 DEF rtOpts
  <2>3. CASE q # p
    BY <1>1, <2>3 DEF IInv, LockFilesOpen, Depth, rtOpts
  <2>4. QED
    BY <2>2, <2>3
<1>4. HoldersAlive'
  <2>1. SUFFICES ASSUME NEW i \in Inodes, NEW q \in Slots
                 PROVE  /\ holder'[i] = <<q, "first">> => Alive(q)' /\ family'[q] # "child"
                        /\ holder'[i] = <<q, "child">> => Alive(q)' /\ family'[q] # "first"
    BY DEF HoldersAlive
  <2>2. CASE q = p
    <3>1. Alive(q)'
      BY <1>1, <2>2 DEF Alive, Starting
    <3>2. holder'[i] = holder[i] =>
            /\ holder'[i] = <<q, "first">> => family[q] # "child"
            /\ holder'[i] = <<q, "child">> => family[q] # "first"
      BY DEF IInv, HoldersAlive
    <3>3. holder'[i] = Self(p) =>
            /\ holder'[i] = <<p, "first">> => family[p] = "first"
            /\ holder'[i] = <<p, "child">> => family[p] # "first"
      BY DEF Self
    <3>4. QED
      BY <2>2, <3>1, <3>2, <3>3
  <2>3. CASE q # p
    <3>1. /\ holder'[i] = <<q, "first">> => holder[i] = <<q, "first">>
          /\ holder'[i] = <<q, "child">> => holder[i] = <<q, "child">>
      BY <2>3 DEF Self
    <3>2. QED
      BY <1>1, <2>3, <3>1 DEF IInv, HoldersAlive, Alive
  <2>4. QED
    BY <2>2, <2>3
<1>5. StrictAlone'
  <2>1. SUFFICES ASSUME NEW q \in Slots, NEW r \in Slots, q # r,
                        Looked(q)', Strict(q)', Looked(r)', Strict(r)'
                 PROVE  FALSE
    BY DEF StrictAlone
  <2>2. Strict(q) /\ Strict(r)
    BY <2>1 DEF Strict, rtOpts
  <2>3. \A s \in Slots \ {p} : Looked(s)' => Looked(s)
    BY <1>1 DEF Looked
  <2>4. QED
    BY <2>1, <2>2, <2>3 DEF IInv, StrictAlone
<1>6. SocketsOpen'
  BY <1>1 DEF IInv, SocketsOpen, Starting, Running, Working, network
<1>7. QED
  BY <1>1, <1>2, <1>3, <1>4, <1>5, <1>6 DEF IInv, RefusedForAReason

LEMMA NoFalseRefusal ==
  ASSUME IInv, NEW p \in Slots, NEW reason, Refuses(p, reason), met[p] \/ reason
  PROVE  IInv'
<1>1. unexplained' = FALSE
  BY DEF Refuses, IInv, RefusedForAReason, TypeOK
<1>2. path' \in Inodes \cup {NoInode}
  BY DEF Refuses, IInv, TypeOK
<1>3. QED
  BY <1>1, <1>2, DiesIInv DEF Refuses

\* Whoever is met while starting was met before it can refuse the start.
LEMMA MetWhoLives ==
  ASSUME IInv, NEW p \in Slots, pc[p] \in Starting, NEW q \in Slots \ {p}, Alive(q)
  PROVE  met[p]
BY DEF IInv, StartersMeet

LEMMA StartIInv ==
  ASSUME IInv, NEW p \in Slots, Start(p)
  PROVE  IInv'
<1>1. PICK c \in Commands :
        /\ command' = [command EXCEPT ![p] = c]
        /\ pc' = [pc EXCEPT ![p] = IF Options[c].ignore_daemon_lock THEN "look" ELSE "open"]
  BY DEF Start
<1>2. /\ command' \in [Slots -> Commands] /\ command'[p] = c
      /\ \A q \in Slots \ {p} : command'[q] = command[q]
  BY <1>1 DEF IInv, TypeOK
<1>3. /\ pc' \in [Slots -> Places]
      /\ pc'[p] = IF Options[c].ignore_daemon_lock THEN "look" ELSE "open"
      /\ \A q \in Slots \ {p} : pc'[q] = pc[q]
  BY <1>1 DEF IInv, TypeOK, Places, Starting
<1>4. pc[p] = "off" /\ UNCHANGED <<family, locks, files, portState, unexplained, network>>
  BY DEF Start, Alive
<1>5. met' = [q \in Slots |-> IF q = p THEN \E r \in Slots \ {p} : Alive(r)
                                ELSE met[q] \/ pc[q] \in Starting]
  BY DEF Start, Meeting
<1>6. met' \in [Slots -> BOOLEAN]
  BY <1>5 DEF IInv, TypeOK
<1>7. TypeOK'
  <2>1. NetworkTypeOK'
    BY <1>4 DEF IInv, TypeOK, NetworkTypeOK, network
  <2>2. QED
    BY <1>2, <1>3, <1>4, <1>6, <2>1 DEF IInv, TypeOK, Places, locks
<1>8. LockFilesOpen'
  BY <1>2, <1>3, <1>4 DEF IInv, LockFilesOpen, Depth, rtOpts, locks
<1>9. HoldersAlive'
  BY <1>3, <1>4 DEF IInv, HoldersAlive, Alive, locks
<1>10. StartersMeet'
  <2>1. SUFFICES ASSUME NEW q \in Slots, NEW r \in Slots, q # r, pc'[q] \in Starting, Alive(r)'
                 PROVE  met'[q]
    BY DEF StartersMeet
  <2>2. CASE q = p
    BY <1>3, <1>5, <2>1, <2>2 DEF Alive
  <2>3. CASE q # p
    <3>1. pc[q] \in Starting
      BY <1>3, <2>1, <2>3
    <3>2. QED
      BY <1>5, <2>3, <3>1
  <2>4. QED
    BY <2>2, <2>3
<1>11. StrictAlone'
  <2>1. SUFFICES ASSUME NEW q \in Slots, NEW r \in Slots, q # r,
                        Looked(q)', Strict(q)', Looked(r)', Strict(r)'
                 PROVE  FALSE
    BY DEF StrictAlone
  <2>2. ~Looked(p)'
    BY <1>3 DEF Looked, Running, Ending
  <2>3. QED
    BY <1>2, <1>3, <2>1, <2>2 DEF IInv, StrictAlone, Looked, Strict, rtOpts
<1>12. SocketsOpen'
  BY <1>3, <1>4 DEF IInv, SocketsOpen, network
<1>13. QED
  BY <1>4, <1>7, <1>8, <1>9, <1>10, <1>11, <1>12 DEF IInv, RefusedForAReason

LEMMA OpenIInv ==
  ASSUME IInv, NEW p \in Slots, Open(p)
  PROVE  IInv'
<1> DEFINE i == IF path = NoInode THEN FreeInode ELSE path
           to == IF pc[p] = "open" THEN "lock" ELSE "relock"
<1>1. i \in Inodes
  BY SomeInodeFree DEF IInv, TypeOK
<1>2. /\ pc[p] \in {"open", "reopen"} /\ path' = i
      /\ opened' = [opened EXCEPT ![p] = Append(@, i)] /\ Goes(p, to)
      /\ UNCHANGED <<family, command, holder, files, portState, unexplained, network>>
  BY DEF Open
<1>3. /\ opened' \in [Slots -> Seq(Inodes)] /\ \A q \in Slots \ {p} : opened'[q] = opened[q]
      /\ Len(opened'[p]) = Len(opened[p]) + 1
  <2> HIDE DEF i
  <2> QED  BY <1>1, <1>2 DEF IInv, TypeOK
<1>4. pc'[p] = to
  BY <1>2 DEF Goes, IInv, TypeOK
<1>5. Len(opened[p]) = Depth(p) /\ ~rtOpts(p).ignore_daemon_lock
  BY <1>2 DEF IInv, LockFilesOpen
<1>6. Len(opened'[p]) = Depth(p)'
  BY <1>2, <1>3, <1>4, <1>5 DEF Depth
<1>7. /\ family' \in [Slots -> {"first", "both", "child"}] /\ files' \in [Slots -> 0..1]
      /\ holder' \in [Inodes -> (Slots \X {"first", "child"}) \cup {Nobody}]
  BY <1>2 DEF IInv, TypeOK
<1>8. Looked(p) \/ ~Looked(p)'
  BY <1>2, <1>4 DEF Looked, Running, Ending
<1>9. pc[p] \in Starting /\ to \in Starting \cup {"run"}
  BY <1>2 DEF Starting
<1>10. QED
  <2> HIDE DEF i, to
  <2> QED
    BY <1>1, <1>2, <1>3, <1>5, <1>6, <1>7, <1>8, <1>9, StartupStepIInv

LEMMA LockIInv ==
  ASSUME IInv, NEW p \in Slots, Lock(p)
  PROVE  IInv'
<1> DEFINE i == Last(opened[p])
           to == IF pc[p] = "lock" THEN "look" ELSE "run"
<1>1. pc[p] \in {"lock", "relock"} /\ pc[p] \in Starting
  BY DEF Lock, Starting
<1>2. Len(opened[p]) = Depth(p) /\ ~rtOpts(p).ignore_daemon_lock /\ opened[p] \in Seq(Inodes)
  BY <1>1 DEF IInv, LockFilesOpen, TypeOK
<1>3. i \in Inodes
  BY <1>1, <1>2 DEF Depth, Last
<1>4. CASE MayLock(p, i)
  <2>1. /\ holder' = [holder EXCEPT ![i] = Self(p)] /\ Goes(p, to)
        /\ UNCHANGED <<family, command, path, opened, files, portState, unexplained, network>>
    BY <1>4 DEF Lock
  <2>2. Self(p) \in Slots \X {"first", "child"}
    BY DEF Self
  <2>3. /\ holder' \in [Inodes -> (Slots \X {"first", "child"}) \cup {Nobody}]
        /\ \A j \in Inodes : holder'[j] \in {holder[j], Self(p)}
    <3> HIDE DEF i
    <3> QED  BY <1>3, <2>1, <2>2 DEF IInv, TypeOK
  <2>4. pc'[p] = to
    BY <2>1 DEF Goes, IInv, TypeOK
  <2>5. Len(opened'[p]) = Depth(p)'
    BY <1>1, <1>2, <2>1, <2>4 DEF Depth, rtOpts, Starting
  <2>6. /\ family' \in [Slots -> {"first", "both", "child"}] /\ files' \in [Slots -> 0..1]
        /\ opened' \in [Slots -> Seq(Inodes)] /\ path' \in Inodes \cup {NoInode}
    BY <2>1 DEF IInv, TypeOK
  <2>7. Looked(p) \/ ~Looked(p)'
    BY <1>1, <2>4 DEF Looked, Running, Ending
  <2>8. to \in Starting \cup {"run"}
    BY DEF Starting
  <2>9. QED
    <3> HIDE DEF i, to
    <3> QED
      BY <1>1, <1>2, <2>1, <2>3, <2>5, <2>6, <2>7, <2>8, StartupStepIInv
<1>5. CASE ~MayLock(p, i)
  <2>1. Refuses(p, family[p] = "both")
    BY <1>5 DEF Lock
  <2>2. SUFFICES ASSUME family[p] # "both" PROVE met[p]
    BY <2>1, NoFalseRefusal
  <2>3. holder[i] \in Slots \X {"first", "child"} /\ holder[i] # Self(p)
    <3> HIDE DEF i
    <3> QED  BY <1>3, <1>5 DEF MayLock, IInv, TypeOK
  <2>4. PICK q \in Slots, process \in {"first", "child"} : holder[i] = <<q, process>>
    BY <2>3
  <2>5. Alive(q) /\ (process = "first" => family[q] # "child") /\ (process = "child" => family[q] # "first")
    <3> HIDE DEF i
    <3> QED  BY <1>3, <2>4 DEF IInv, HoldersAlive
  <2>6. family[p] \in {"first", "child"}
    BY <2>2 DEF IInv, TypeOK
  <2>7. q # p
    BY <2>3, <2>4, <2>5, <2>6 DEF Self
  <2>8. QED
    BY <1>1, <2>5, <2>7, MetWhoLives
<1>6. QED
  BY <1>4, <1>5

\* pgrep counts nobody exactly if no other daemon is there.
LEMMA CountsOthers ==
  ASSUME NEW p \in Slots
  PROVE  pgrep_matches(p) = 0 <=> \A q \in Slots \ {p} : ~Alive(q)
<1> DEFINE others == {q \in Slots \ {p} : Alive(q)}
           both == {q \in others : family[q] = "both"}
<1>1. IsFiniteSet(others) /\ IsFiniteSet(both)
  <2>1. others \in SUBSET Slots /\ both \in SUBSET Slots
    OBVIOUS
  <2>2. QED
    BY <2>1, CommandsAssumption, FS_Subset
<1>2. Cardinality(others) \in Nat /\ Cardinality(both) \in Nat
  BY <1>1, FS_CardinalityType
<1>3. /\ Cardinality(others) = 0 <=> others = {}
      /\ others = {} => Cardinality(both) = 0
  BY <1>1, FS_EmptySet
<1>4. pgrep_matches(p) = Cardinality(others) + Cardinality(both)
  BY DEF pgrep_matches
<1>5. pgrep_matches(p) = 0 <=> others = {}
  <2> HIDE DEF others, both
  <2> QED  BY <1>2, <1>3, <1>4
<1>6. QED
  BY <1>5

LEMMA LookIInv ==
  ASSUME IInv, NEW p \in Slots, Look(p)
  PROVE  IInv'
<1>1. pc[p] = "look" /\ pc[p] \in Starting
  BY DEF Look, Starting
<1>2. PICK answers \in BOOLEAN, ntpd \in BOOLEAN :
        LET ptp == IF answers THEN pgrep_matches(p) ELSE -1
            ntp == IF ~answers THEN -1 ELSE IF ntpd THEN 1 ELSE 0
        IN IF /\ Passes(ptp, 0, rtOpts(p).ptp_daemons_strict, p)
              /\ Passes(ntp, rtOpts(p).ntp_daemons_expected, rtOpts(p).ntp_daemons_strict, p)
             THEN /\ Goes(p, "files")
                  /\ UNCHANGED <<family, command, locks, files, portState, unexplained, network>>
             ELSE Refuses(p, ~answers \/ ntpd)
  BY DEF Look
<1> DEFINE ptp == IF answers THEN pgrep_matches(p) ELSE -1
           ntp == IF ~answers THEN -1 ELSE IF ntpd THEN 1 ELSE 0
           pass == /\ Passes(ptp, 0, rtOpts(p).ptp_daemons_strict, p)
                   /\ Passes(ntp, rtOpts(p).ntp_daemons_expected, rtOpts(p).ntp_daemons_strict, p)
<1>3. CASE pass
  <2>1. /\ Goes(p, "files")
        /\ UNCHANGED <<family, command, locks, files, portState, unexplained, network>>
    BY <1>2, <1>3
  <2>2. pc'[p] = "files"
    BY <2>1 DEF Goes, IInv, TypeOK
  <2>3. Strict(p) => \A q \in Slots \ {p} : ~Looked(q)
    <3>1. SUFFICES ASSUME Strict(p) PROVE ptp = 0
      BY CountsOthers DEF Looked, Alive, Running, Ending
    <3>2. QED
      BY <1>3, <3>1 DEF Passes, Strict
  <2>4. Len(opened'[p]) = Depth(p)'
    <3>1. Len(opened[p]) = Depth(p)
      BY DEF IInv, LockFilesOpen
    <3>2. QED
      BY <1>1, <2>1, <2>2, <3>1 DEF Depth, rtOpts, locks, Starting
  <2>5. /\ family' \in [Slots -> {"first", "both", "child"}] /\ files' \in [Slots -> 0..1]
        /\ opened' \in [Slots -> Seq(Inodes)] /\ path' \in Inodes \cup {NoInode}
        /\ holder' \in [Inodes -> (Slots \X {"first", "child"}) \cup {Nobody}]
    BY <2>1 DEF IInv, TypeOK, locks
  <2>6. "files" \in Starting
    BY DEF Starting
  <2>7. QED
    BY <1>1, <2>1, <2>3, <2>4, <2>5, <2>6, StartupStepIInv DEF locks
<1>4. CASE ~pass
  <2>1. Refuses(p, ~answers \/ ntpd)
    BY <1>2, <1>4
  <2>2. SUFFICES ASSUME answers, ~ntpd PROVE met[p]
    BY <2>1, NoFalseRefusal
  <2>3. Passes(ntp, rtOpts(p).ntp_daemons_expected, rtOpts(p).ntp_daemons_strict, p)
    BY <2>2, OptionsConsistent DEF Passes
  <2>4. pgrep_matches(p) # 0
    BY <1>4, <2>2, <2>3 DEF Passes
  <2>5. PICK q \in Slots \ {p} : Alive(q)
    BY <2>4, CountsOthers
  <2>6. QED
    BY <1>1, <2>5, MetWhoLives
<1>5. QED
  BY <1>3, <1>4

LEMMA OpenFilesTypes ==
  ASSUME IInv, NEW p \in Slots, OpenFiles(p)
  PROVE  files' \in [Slots -> 0..1]
<1>1. PICK success \in BOOLEAN :
        files' = [files EXCEPT ![p] =
          IF rtOpts(p).do_record_quality_file THEN recordToFile(@, success) ELSE @]
  BY DEF OpenFiles
<1>2. QED
  BY <1>1 DEF recordToFile, IInv, TypeOK

\* The steps that lead to the loop, or back to the lock file.
LEMMA SettledIInv ==
  ASSUME IInv, NEW p \in Slots, pc[p] \in {"files", "fork"},
         NEW to \in {"fork", Settled(p)}, Goes(p, to),
         family' \in [Slots -> {"first", "both", "child"}],
         \A q \in Slots \ {p} : family'[q] = family[q],
         family'[p] \in {family[p], "both"},
         files' \in [Slots -> 0..1],
         UNCHANGED <<command, locks, portState, unexplained, network>>
  PROVE  IInv'
<1>1. to \in {"fork", "run", "reopen"} /\ to \in Starting \cup {"run"}
  BY DEF Settled, Starting
<1>2. pc'[p] = to
  BY DEF Goes, IInv, TypeOK
<1>3. /\ to = "run" => rtOpts(p).ignore_daemon_lock
      /\ to = "reopen" => ~rtOpts(p).ignore_daemon_lock
  BY DEF Settled
<1>4. Len(opened'[p]) = Depth(p)'
  <2>1. Len(opened[p]) = Depth(p)
    BY DEF IInv, LockFilesOpen
  <2>2. QED
    BY <1>1, <1>2, <1>3, <2>1 DEF Depth, rtOpts, locks, Starting
<1>5. /\ opened' \in [Slots -> Seq(Inodes)] /\ path' \in Inodes \cup {NoInode}
      /\ holder' \in [Inodes -> (Slots \X {"first", "child"}) \cup {Nobody}]
  BY DEF IInv, TypeOK, locks
<1>6. pc[p] \in Starting /\ Looked(p)
  BY DEF Starting, Looked
<1>7. QED
  BY <1>1, <1>3, <1>4, <1>5, <1>6, StartupStepIInv DEF locks

LEMMA FilesIInv ==
  ASSUME IInv, NEW p \in Slots, Files(p)
  PROVE  IInv'
<1>1. /\ pc[p] = "files" /\ OpenFiles(p)
      /\ UNCHANGED <<family, command, locks, portState, unexplained, network>>
  BY DEF Files
<1>2. PICK to \in {"fork", Settled(p)} : Goes(p, to)
  BY DEF Files
<1>3. files' \in [Slots -> 0..1] /\ family' \in [Slots -> {"first", "both", "child"}]
  BY <1>1, OpenFilesTypes DEF IInv, TypeOK
<1>4. QED
  BY <1>1, <1>2, <1>3, SettledIInv

LEMMA ForkIInv ==
  ASSUME IInv, NEW p \in Slots, Fork(p)
  PROVE  IInv'
<1>1. CASE /\ family' = [family EXCEPT ![p] = "both"]
           /\ Goes(p, Settled(p))
           /\ UNCHANGED <<command, locks, files, portState, unexplained, network>>
  <2>1. /\ family' \in [Slots -> {"first", "both", "child"}]
        /\ family'[p] = "both" /\ \A q \in Slots \ {p} : family'[q] = family[q]
        /\ files' \in [Slots -> 0..1]
    BY <1>1 DEF IInv, TypeOK
  <2>2. QED
    BY <1>1, <2>1, SettledIInv DEF Fork
<1>2. CASE Dies(p) /\ UNCHANGED <<path, unexplained>>
  BY <1>2, DiesIInv DEF IInv, TypeOK, RefusedForAReason
<1>3. QED
  BY <1>1, <1>2 DEF Fork

LEMMA KillIInv ==
  ASSUME IInv, NEW p \in Slots, Kill(p)
  PROVE  IInv'
BY DiesIInv DEF Kill, IInv, TypeOK, RefusedForAReason

LEMMA UnlinkIInv ==
  ASSUME IInv, NEW p \in Slots, Unlink(p)
  PROVE  IInv'
BY DiesIInv DEF Unlink, IInv, TypeOK, RefusedForAReason

\* The first process leaves its locks and its child.
LEMMA FirstExitsIInv ==
  ASSUME IInv, NEW p \in Slots, FirstExits(p)
  PROVE  IInv'
<1>1. /\ family[p] = "both" /\ family' = [family EXCEPT ![p] = "child"]
      /\ holder' = [i \in Inodes |-> IF holder[i] = <<p, "first">> THEN Nobody ELSE holder[i]]
      /\ UNCHANGED <<pc, met, command, path, opened, files, portState, unexplained, network>>
  BY DEF FirstExits
<1>2. TypeOK'
  <2>1. NetworkTypeOK'
    BY <1>1 DEF IInv, TypeOK, NetworkTypeOK, network
  <2>2. QED
    BY <1>1, <2>1 DEF IInv, TypeOK
<1>3. HoldersAlive'
  <2>1. SUFFICES ASSUME NEW i \in Inodes, NEW q \in Slots
                 PROVE  /\ holder'[i] = <<q, "first">> => Alive(q)' /\ family'[q] # "child"
                        /\ holder'[i] = <<q, "child">> => Alive(q)' /\ family'[q] # "first"
    BY DEF HoldersAlive
  <2>2. /\ holder'[i] = <<q, "first">> => holder[i] = <<q, "first">> /\ q # p
        /\ holder'[i] = <<q, "child">> => holder[i] = <<q, "child">>
    BY <1>1, SomebodyIsNotNobody
  <2>3. QED
    BY <1>1, <2>2 DEF IInv, HoldersAlive, Alive, TypeOK
<1>4. LockFilesOpen' /\ StartersMeet' /\ StrictAlone' /\ RefusedForAReason'
  BY <1>1 DEF IInv, LockFilesOpen, Depth, StartersMeet, Alive, StrictAlone, Looked, Strict,
              rtOpts, RefusedForAReason
<1>5. SocketsOpen'
  BY <1>1 DEF IInv, SocketsOpen, network
<1>6. QED
  BY <1>2, <1>3, <1>4, <1>5 DEF IInv

LEMMA do_signal_sighupIInv ==
  ASSUME IInv, NEW p \in Slots, do_signal_sighup(p)
  PROVE  IInv'
<1>1. UNCHANGED <<pc, met, family, command, locks, portState, unexplained, network>>
  BY DEF do_signal_sighup
<1>2. files' \in [Slots -> 0..1]
  BY OpenFilesTypes DEF do_signal_sighup
<1>3. TypeOK'
  BY <1>1, <1>2 DEF IInv, TypeOK, NetworkTypeOK, network, locks
<1>4. LockFilesOpen' /\ HoldersAlive' /\ StartersMeet' /\ StrictAlone' /\ RefusedForAReason'
  BY <1>1 DEF IInv, LockFilesOpen, Depth, HoldersAlive, StartersMeet, Alive, StrictAlone,
              Looked, Strict, rtOpts, RefusedForAReason, locks
<1>5. SocketsOpen'
  BY <1>1 DEF IInv, SocketsOpen, network
<1>6. QED
  BY <1>3, <1>4, <1>5 DEF IInv

LEMMA CloseIInv ==
  ASSUME IInv, NEW p \in Slots, Close(p)
  PROVE  IInv'
<1>1. /\ pc[p] = "closing" /\ netShutdown(p) /\ Goes(p, "unlinking")
      /\ UNCHANGED <<family, command, path, opened, files, portState, unexplained>>
  BY DEF Close
<1>2. \A i \in Inodes : holder'[i] \in {holder[i], Nobody}
  BY DEF Close
<1>3. /\ pc' \in [Slots -> Places] /\ met' \in [Slots -> BOOLEAN]
      /\ pc'[p] = "unlinking" /\ \A q \in Slots \ {p} : pc'[q] = pc[q]
      /\ StartersMeet'
  <2>1. Alive(p) /\ "unlinking" \in Places /\ "unlinking" \notin Starting
    BY <1>1 DEF Alive, Places, Ending, Starting
  <2>2. QED
    BY <1>1, <2>1, GoesOn
<1>4. NetworkTypeOK' /\ \A q \in Slots \ {p} : sockets'[q] = sockets[q]
  BY <1>1, ShutdownTypes DEF IInv, TypeOK
<1>5. holder' \in [Inodes -> (Slots \X {"first", "child"}) \cup {Nobody}]
  BY DEF Close, IInv, TypeOK
<1>6. TypeOK'
  BY <1>1, <1>3, <1>4, <1>5 DEF IInv, TypeOK, Places
<1>7. LockFilesOpen'
  BY <1>1, <1>3 DEF IInv, LockFilesOpen, Depth, rtOpts, Starting
<1>8. HoldersAlive'
  <2>1. SUFFICES ASSUME NEW i \in Inodes, NEW q \in Slots
                 PROVE  /\ holder'[i] = <<q, "first">> => Alive(q)' /\ family'[q] # "child"
                        /\ holder'[i] = <<q, "child">> => Alive(q)' /\ family'[q] # "first"
    BY DEF HoldersAlive
  <2>2. /\ holder'[i] = <<q, "first">> => holder[i] = <<q, "first">>
        /\ holder'[i] = <<q, "child">> => holder[i] = <<q, "child">>
    BY <1>2, SomebodyIsNotNobody
  <2>3. QED
    BY <1>1, <1>3, <2>2 DEF IInv, HoldersAlive, Alive
<1>9. StrictAlone'
  BY <1>1, <1>3 DEF IInv, StrictAlone, Looked, Strict, rtOpts, Running, Ending
<1>10. SocketsOpen'
  BY <1>1, <1>3, <1>4 DEF IInv, SocketsOpen, Starting
<1>11. QED
  BY <1>1, <1>3, <1>6, <1>7, <1>8, <1>9, <1>10 DEF IInv, RefusedForAReason

LEMMA StationIInv ==
  ASSUME IInv, Station
  PROVE  IInv'
<1>1. UNCHANGED <<pc, met, family, command, locks, files, portState, unexplained>>
  BY DEF Station
<1>2. UNCHANGED <<sockets, member, netPath>> /\ link' \in {"up", "gone"} /\ forwarded' \in {FALSE, forwarded}
  BY DEF Station, LinkGoes, LinkComes
<1>3. NetworkTypeOK'
  <2>1. forwarded' \in BOOLEAN
    BY <1>2, Zenon DEF IInv, TypeOK, NetworkTypeOK
  <2>2. QED
    BY <1>2, <2>1 DEF IInv, TypeOK, NetworkTypeOK
<1>4. TypeOK'
  BY <1>1, <1>3 DEF IInv, TypeOK, locks
<1>5. LockFilesOpen' /\ HoldersAlive' /\ StartersMeet' /\ StrictAlone' /\ RefusedForAReason'
  BY <1>1 DEF IInv, LockFilesOpen, Depth, HoldersAlive, StartersMeet, Alive, StrictAlone,
              Looked, Strict, rtOpts, RefusedForAReason, locks
<1>6. SocketsOpen'
  BY <1>1, <1>2 DEF IInv, SocketsOpen
<1>7. QED
  BY <1>4, <1>5, <1>6 DEF IInv

LEMMA StutterIInv == IInv /\ UNCHANGED vars => IInv'
<1> SUFFICES ASSUME IInv, UNCHANGED vars PROVE IInv'
  OBVIOUS
<1>1. UNCHANGED <<pc, met, family, command, locks, files, portState, unexplained, network>>
  BY DEF vars
<1>2. TypeOK'
  BY <1>1 DEF IInv, TypeOK, NetworkTypeOK, network, locks
<1>3. LockFilesOpen' /\ HoldersAlive' /\ StartersMeet' /\ StrictAlone' /\ RefusedForAReason'
  BY <1>1 DEF IInv, LockFilesOpen, Depth, HoldersAlive, StartersMeet, Alive, StrictAlone,
              Looked, Strict, rtOpts, RefusedForAReason, locks
<1>4. SocketsOpen'
  BY <1>1 DEF IInv, SocketsOpen, network
<1>5. QED
  BY <1>2, <1>3, <1>4 DEF IInv

LEMMA NextIInv == IInv /\ [Next]_vars => IInv'
<1> SUFFICES ASSUME IInv, [Next]_vars PROVE IInv'
  OBVIOUS
<1>1. ASSUME NEW p \in Slots, Start(p) \/ Kill(p) \/ FirstExits(p)
      PROVE  IInv'
  BY <1>1, StartIInv, KillIInv, FirstExitsIInv
<1>2. ASSUME NEW p \in Slots, Startup(p)
      PROVE  IInv'
  BY <1>2, OpenIInv, LockIInv, LookIInv, FilesIInv, ForkIInv DEF Startup
<1>3. ASSUME NEW p \in Slots, Loop(p) \/ Shutdown(p)
      PROVE  IInv'
  BY <1>3, doInitIInv, ResetIInv, JoinIInv, CloseIInv, UnlinkIInv DEF Loop, Shutdown
<1>4. ASSUME NEW p \in Slots, AnnounceTimeout(p) \/ Announced(p) \/ Fault(p)
      PROVE  IInv'
  BY <1>4, AnnounceTimeoutIInv, AnnouncedIInv, FaultIInv
<1>5. ASSUME NEW p \in Slots, do_signal_sighup(p) \/ do_signal_close(p)
      PROVE  IInv'
  BY <1>5, do_signal_sighupIInv, do_signal_closeIInv
<1>6. QED
  BY <1>1, <1>2, <1>3, <1>4, <1>5, StationIInv, StutterIInv DEF Next

-----------------------------------------------------------------------------

LEMMA InvariantHolds == Spec => []IInv
<1>1. Init => IInv
  BY InitIInv
<1>2. IInv /\ [Next]_vars => IInv'
  BY NextIInv
<1>3. QED
  BY <1>1, <1>2, PTL DEF Spec

\* The daemons, their lock files and their network keep to their types, for any
\* number of places and any commands.
THEOREM TypeCorrect == Spec => []TypeOK
<1>1. IInv => TypeOK
  BY DEF IInv
<1>2. QED
  BY <1>1, InvariantHolds, PTL

\* A daemon is refused only if it has met a living one, ntpd, or its own parent, or
\* could not look (daemon_already_running() and check_parallel_daemons()).
THEOREM NobodyRefusedByTheDead == Spec => []RefusedForAReason
<1>1. IInv => RefusedForAReason
  BY DEF IInv
<1>2. QED
  BY <1>1, InvariantHolds, PTL

\* Two slaves that respect the lock never run at the same time, though ptpdShutdown()
\* removes a lock file that may be another's.
THEOREM SlavesAlwaysAlone == Spec => []SlavesRunAlone
<1>1. IInv => SlavesRunAlone
  <2>1. SUFFICES ASSUME IInv, NEW p \in Slots, NEW q \in Slots,
                        Runs(p), rtOpts(p).slaveOnly, ~rtOpts(p).ignore_daemon_lock,
                        Runs(q), rtOpts(q).slaveOnly, ~rtOpts(q).ignore_daemon_lock
                 PROVE  p = q
    BY DEF SlavesRunAlone
  <2>2. Looked(p) /\ Strict(p) /\ Looked(q) /\ Strict(q)
    BY <2>1, OptionsConsistent DEF Runs, Looked, Strict
  <2>3. QED
    BY <2>1, <2>2 DEF IInv, StrictAlone
<1>2. QED
  BY <1>1, InvariantHolds, PTL

\* A working port has its two sockets, and descriptors do not pile up, however often
\* netInit() and daemon_already_running() are called.
THEOREM DescriptorsNeverPileUp == Spec => []DescriptorsAccounted
<1>1. IInv => DescriptorsAccounted
  <2>1. SUFFICES ASSUME IInv, NEW p \in Slots
                 PROVE  /\ pc[p] = "run" /\ portState[p] \in Working => sockets[p] = 2
                        /\ sockets[p] <= 2
                        /\ files[p] <= 1
                        /\ Len(opened[p]) <= IF Runs(p) THEN 2
                                             ELSE 1 + Cardinality({pc[p]} \cap {"relock"})
    BY DEF DescriptorsAccounted
  <2>2. pc[p] = "run" /\ portState[p] \in Working => sockets[p] = 2
    BY <2>1 DEF IInv, SocketsOpen
  <2>3. sockets[p] \in 0..2 /\ files[p] \in 0..1
    BY <2>1 DEF IInv, TypeOK, NetworkTypeOK
  <2>4. Len(opened[p]) <= IF Runs(p) THEN 2 ELSE 1 + Cardinality({pc[p]} \cap {"relock"})
    <3>1. Len(opened[p]) = Depth(p) /\ Len(opened[p]) <= 2
      BY <2>1, DepthBounded
    <3>2. CASE Runs(p)
      BY <3>1, <3>2
    <3>3. CASE ~Runs(p) /\ pc[p] = "relock"
      <4>1. {pc[p]} \cap {"relock"} = {"relock"}
        BY <3>3
      <4>2. Cardinality({"relock"}) = 1
        BY FS_Singleton
      <4>3. QED
        BY <3>1, <3>3, <4>1, <4>2
    <3>4. CASE ~Runs(p) /\ pc[p] # "relock"
      <4>1. {pc[p]} \cap {"relock"} = {}
        BY <3>4
      <4>2. Cardinality({}) = 0
        BY FS_EmptySet
      <4>3. Depth(p) <= 1
        BY <2>1, <3>4 DEF Depth, Runs, Starting, Running, Ending, IInv, TypeOK
      <4>4. QED
        BY <3>1, <3>4, <4>1, <4>2, <4>3
    <3>5. QED
      BY <3>2, <3>3, <3>4
  <2>5. QED
    BY <2>2, <2>3, <2>4
<1>2. QED
  BY <1>1, InvariantHolds, PTL
=============================================================================

---------------------------- MODULE DaemonNetwork ----------------------------
(***************************************************************************)
(* dep/net.c: the two sockets of each daemon, their multicast memberships, *)
(* and the station's network as far as it decides what a daemon hears.     *)
(*                                                                         *)
(* The event and the general socket join and leave together and are one    *)
(* here, and so are the group chosen with -I and that of the peers, which  *)
(* is joined and left right after it.  A switch between the stations       *)
(* forwards the group to this one while it remembers a report of it; the   *)
(* kernel reports it when the first daemon of the station joins it, and    *)
(* leaves it with the last.                                                *)
(***************************************************************************)
EXTENDS Integers

CONSTANTS
  Slots   \* places for daemons on the station

VARIABLES
  sockets,   \* how many sockets a daemon has open
  member,    \* the daemons whose sockets are members of the group
  netPath,   \* the daemons that have stored its address, to send to
  link,      \* the interface: has it its address
  forwarded  \* does the switch forward the group

network == <<sockets, member, netPath, link, forwarded>>

NetworkInit ==
  /\ sockets = [p \in Slots |-> 0]
  /\ member = {}
  /\ netPath = {}
  /\ link = "up"
  /\ forwarded = FALSE

NetworkTypeOK ==
  /\ sockets \in [Slots -> 0..2]
  /\ member \subseteq Slots /\ netPath \subseteq Slots
  /\ link \in {"up", "gone"}
  /\ forwarded \in BOOLEAN

\* Does the switch forward, having forwarded f, when memberships change.
Told(f, before, after) ==
  IF link = "gone" \/ (before = {}) = (after = {}) THEN f ELSE after # {}

\* p is a member now, and has left the group first.
Joins(p) ==
  /\ member' = member \cup {p}
  /\ forwarded' = Told(Told(forwarded, member, member \ {p}), member \ {p}, member')

Leaves(p) ==
  /\ member' = member \ {p}
  /\ forwarded' = Told(forwarded, member, member')

\* p receives what the masters send.
Hears(p) == p \in member /\ forwarded /\ link = "up"

-----------------------------------------------------------------------------
(* The functions of net.c *)

\* Sockets closed without leaving their groups leave them.
netShutdown(p) ==
  /\ sockets' = [sockets EXCEPT ![p] = 0]
  /\ Leaves(p)
  /\ netPath' = netPath \ {p}
  /\ UNCHANGED link

\* An interface with an address, of the name that is asked for.
findIface == link = "up"

\* The sockets p had are closed or not; the new ones, opened many, join.
Anew(p, success, closed) ==
  /\ success => findIface
  /\ \E opened \in IF success THEN {2} ELSE 0..2 :
       sockets' = [sockets EXCEPT ![p] = (IF closed THEN 0 ELSE @) + opened]
  /\ IF success THEN Joins(p) /\ netPath' = netPath \cup {p}
               ELSE Leaves(p) /\ netPath' = netPath \ {p}
  /\ UNCHANGED link

\* Faulty variant: nothing is closed first, so that the new sockets are more.
netInitAgain(p, success) == Anew(p, success, FALSE)

\* netShutdown() and netInit(), which fails halfway with what it has opened left
\* open.  It finds no interface while there is none.
netInit(p, success) == Anew(p, success, TRUE)

\* Faulty variant: a refresh does not leave the group first.
netShutdownMulticastNot(p) ==
  /\ netPath' = netPath \ {p}
  /\ UNCHANGED <<sockets, member, forwarded, link>>

\* The group whose address is stored.  The kernel may find no interface to leave
\* it on; the result is not looked at.
netShutdownMulticast(p) ==
  /\ \/ p \in netPath /\ Leaves(p)
     \/ (p \in netPath => link = "gone") /\ UNCHANGED <<member, forwarded>>
  /\ netPath' = netPath \ {p}
  /\ UNCHANGED <<sockets, link>>

\* The address is stored, then the group joined: without an interface that fails,
\* and for sockets that are members already.
netInitMulticast(p) ==
  /\ IF link = "gone" \/ p \in member
       THEN UNCHANGED <<member, forwarded>>
       ELSE Joins(p)
  /\ netPath' = netPath \cup {p}
  /\ UNCHANGED <<sockets, link>>

-----------------------------------------------------------------------------
(* The station *)

\* The interface loses its address, and the switch forgets the station.
LinkGoes ==
  /\ link = "up"
  /\ link' = "gone"
  /\ forwarded' = FALSE
  /\ UNCHANGED <<sockets, member, netPath>>

LinkComes ==
  /\ link = "gone"
  /\ link' = "up"
  /\ UNCHANGED <<sockets, member, netPath, forwarded>>
=============================================================================

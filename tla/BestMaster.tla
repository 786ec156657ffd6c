----------------------------- MODULE BestMaster -----------------------------
(***************************************************************************)
(* The data the best master clock algorithm works on and its pure parts:   *)
(* the data set comparison and the scan of bmc.c, and the foreign master   *)
(* table of protocol.c's addForeign().  Clock identities are integers, in  *)
(* memcmp() order.                                                         *)
(***************************************************************************)
EXTENDS Integers

CONSTANT MaxForeign             \* ptpClock->max_foreign_records

ASSUME MaxForeignAssumption == MaxForeign \in Nat \ {0}

\* Who sent a message: a clock identity and a port number.
PortIdentity == [clock : Nat, port : Nat]

\* What is kept of a received Announce message: its header's source and leap
\* second flags, and the data set of its grandmaster.
Announce ==
  [src : PortIdentity, leap59 : BOOLEAN, leap61 : BOOLEAN, gm : Nat,
   priority1 : Nat, clockClass : Nat, clockAccuracy : Nat, variance : Nat,
   priority2 : Nat, stepsRemoved : Nat]

-----------------------------------------------------------------------------
(* Data set comparison: negative when the first data set is the better. *)

\* The attributes of a grandmaster in the order in which they decide.
Attributes(a) == <<a.priority1, a.clockClass, a.clockAccuracy, a.variance,
                   a.priority2, a.gm>>

Precedes(x, y) ==
  \E k \in 1..6 : x[k] < y[k] /\ \A l \in 1..6 : l < k => x[l] = y[l]

\* Different grandmasters: the first attribute that differs decides.
CompareGrandmasters(a, b) ==
  IF Precedes(Attributes(a), Attributes(b)) THEN -1
  ELSE IF Precedes(Attributes(b), Attributes(a)) THEN 1 ELSE 0

\* The same grandmaster: the shorter path, then the sender's identity.  Zero,
\* an error to the caller, if the longer path by one step leads through the
\* current parent, or if the two data sets come from one clock.
ComparePaths(a, b, parent) ==
  CASE a.stepsRemoved > b.stepsRemoved + 1 -> 1
    [] b.stepsRemoved > a.stepsRemoved + 1 -> -1
    [] a.stepsRemoved = b.stepsRemoved + 1 ->
         IF a.src.clock = parent.clock THEN 0 ELSE 1
    [] b.stepsRemoved = a.stepsRemoved + 1 ->
         IF b.src.clock = parent.clock THEN 0 ELSE -1
    [] OTHER -> IF a.src.clock < b.src.clock THEN -1
                ELSE IF a.src.clock > b.src.clock THEN 1 ELSE 0

bmcDataSetComparison(a, b, parent) ==
  IF a.gm = b.gm THEN ComparePaths(a, b, parent) ELSE CompareGrandmasters(a, b)

-----------------------------------------------------------------------------
(* The foreign master table: slots, the number of records in use, the slot *)
(* the next new master goes to, and the slot of the best master.  A slot   *)
(* holds the identity addForeign() filed it under and the last Announce    *)
(* stored in it.                                                           *)

Slots == 0..(MaxForeign - 1)

Record == [id : PortIdentity, ann : Announce]

\* A slot of the calloc'ed array that nothing has been written to.
Blank ==
  LET nobody == [clock |-> 0, port |-> 0] IN
  [id  |-> nobody,
   ann |-> [src |-> nobody, leap59 |-> FALSE, leap61 |-> FALSE, gm |-> 0,
            priority1 |-> 0, clockClass |-> 0, clockAccuracy |-> 0,
            variance |-> 0, priority2 |-> 0, stepsRemoved |-> 0]]

ForeignTable ==
  [slot : [Slots -> Record], n : 0..MaxForeign, i : Slots, best : Slots]

EmptyTable == [slot |-> [j \in Slots |-> Blank], n |-> 0, i |-> 0, best |-> 0]

\* The k-th slot addForeign() looks at: it starts at the best record and wraps
\* around the number of records in use.
Probe(t, k) == IF k = 0 THEN t.best ELSE (t.best + k) % t.n

Hits(t, id) == {k \in 0..(t.n - 1) : t.slot[Probe(t, k)].id = id}

FirstHit(t, id) == CHOOSE k \in Hits(t, id) : \A l \in Hits(t, id) : k <= l

Refresh(t, j, a) == [t EXCEPT !.slot[j].ann = a]

\* Faulty variant: the slot to use next is moved on before it is used.
InsertShifted(t, a) ==
  LET i == (t.i + 1) % MaxForeign IN
  [slot |-> [t.slot EXCEPT ![i] = [id |-> a.src, ann |-> a]],
   n    |-> IF t.n < MaxForeign THEN t.n + 1 ELSE t.n,
   i    |-> i,
   best |-> t.best]

\* A new master takes slot i, even when that evicts a record.
Insert(t, a) ==
  [slot |-> [t.slot EXCEPT ![t.i] = [id |-> a.src, ann |-> a]],
   n    |-> IF t.n < MaxForeign THEN t.n + 1 ELSE t.n,
   i    |-> (t.i + 1) % MaxForeign,
   best |-> t.best]

addForeign(t, a) ==
  IF Hits(t, a.src) # {} THEN Refresh(t, Probe(t, FirstHit(t, a.src)), a)
  ELSE Insert(t, a)

\* bmc()'s scan of the slots: s[k] is its best after the first k + 1 of them.
\* There is exactly one such function.
Scans(t, parent) ==
  {s \in [Slots -> Slots] :
     /\ s[0] = 0
     /\ \A k \in Slots \ {0} :
          s[k] = IF bmcDataSetComparison(t.slot[k].ann, t.slot[s[k - 1]].ann,
                                         parent) < 0
                 THEN k ELSE s[k - 1]}

\* Faulty variant: the last record is not looked at.
BestSlotsShort(t, parent) ==
  IF t.n <= 1 THEN {0} ELSE {s[t.n - 2] : s \in Scans(t, parent)}

\* The slot bmc() settles on: slot 0 even if no record is in use.
BestSlots(t, parent) ==
  IF t.n = 0 THEN {0} ELSE {s[t.n - 1] : s \in Scans(t, parent)}

\* The announce receipt timeout forgets the records; the best slot stays.
DiscardRecords(t) == [t EXCEPT !.n = 0, !.i = 0]

\* initData() forgets how many records there are, and nothing else.
ResetRecords(t) == [t EXCEPT !.n = 0]
=============================================================================

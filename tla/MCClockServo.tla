---------------------------- MODULE MCClockServo ----------------------------
(* Small instances of ClockServo: clocks, networks and options. *)
EXTENDS ClockServo

\* The default options with a clock half a second ahead on a fast network.
Plain ==
  [offset |-> Time(0, 500000000), skew |-> 50000, delay |-> 100000, mechanism |-> "E2E",
   late |-> {30000000}, maxDelay |-> 0, maxReset |-> 0, noResetClock |-> FALSE,
   maxDelayAutoTune |-> FALSE, discardedPacketThreshold |-> 60]

MCPlants ==
  { Plain,
    [Plain EXCEPT !.offset = Time(0, -900000000), !.mechanism = "P2P", !.skew = -100000],
    [Plain EXCEPT !.offset = Time(-3, -200000000), !.late = {900000000}],
    [Plain EXCEPT !.offset = Time(1, 500000000), !.mechanism = "P2P", !.skew = 0],
    [Plain EXCEPT !.offset = Time(1, 1300000), !.noResetClock = TRUE],
    [Plain EXCEPT !.offset = Time(0, 5000), !.delay = 300000000],
    [Plain EXCEPT !.offset = Time(0, 2000), !.maxDelay = 500000,
                  !.maxDelayAutoTune = TRUE, !.discardedPacketThreshold = 2],
    [Plain EXCEPT !.offset = Time(0, -800000000), !.maxReset = 500000000, !.skew = 3000] }
=============================================================================

---------------------------- MODULE DaemonOptions ----------------------------
(***************************************************************************)
(* The command line of the daemon: the loop of ptpdStartup() in            *)
(* dep/startup.c over the defaults of main() in ptpd.c.                    *)
(*                                                                         *)
(* A command is a sequence of options.  An option overrides fields of      *)
(* rtOpts, so that of two options that set one field the later one counts. *)
(* Only the fields that the life cycle depends on are kept.                *)
(***************************************************************************)
EXTENDS Integers, Sequences, SequencesExt, TLC

\* rtOpts as main() leaves it, and the locals of ptpdStartup().  ends: what the
\* exit status may be, once the command line has ended the process.
Defaults ==
  [mode_selected |-> 0,
   slaveOnly |-> TRUE,
   ntp_daemons_expected |-> 0,
   ntp_daemons_strict |-> TRUE,
   ptp_daemons_strict |-> TRUE,
   ignore_daemon_lock |-> FALSE,
   do_IGMP_refresh |-> TRUE,
   do_record_quality_file |-> FALSE,
   nonDaemon |-> FALSE,
   do_unicast_mode |-> FALSE,
   do_hybrid_mode |-> FALSE,
   ends |-> {}]

\* A slave, a master beside ntpd, a master alone.
ModeOptions ==
  "g" :> [mode_selected |-> 1, slaveOnly |-> TRUE, ntp_daemons_expected |-> 0,
          ntp_daemons_strict |-> TRUE, ptp_daemons_strict |-> TRUE]
  @@ "G" :> [mode_selected |-> 2, slaveOnly |-> FALSE, ntp_daemons_expected |-> 1,
             ntp_daemons_strict |-> FALSE, ptp_daemons_strict |-> FALSE]
  @@ "W" :> [mode_selected |-> 3, slaveOnly |-> FALSE, ntp_daemons_expected |-> 0,
             ntp_daemons_strict |-> TRUE, ptp_daemons_strict |-> FALSE]

\* In the foreground, and the quality file.  The log file of -f, which -C undoes, is
\* left out.
OutputOptions ==
  "c" :> [nonDaemon |-> TRUE]
  @@ "C" :> [nonDaemon |-> TRUE]
  @@ "f" :> [ends |-> {}]
  @@ "R" :> [do_record_quality_file |-> TRUE]

NetworkOptions ==
  "u" :> [do_unicast_mode |-> TRUE]
  @@ "U" :> [do_hybrid_mode |-> TRUE]
  @@ "L" :> [ignore_daemon_lock |-> TRUE]
  @@ "j" :> [do_IGMP_refresh |-> FALSE]

\* What the protocol engine, the servo, the network or the display work with.
OtherOptions ==
  [o \in {"S", "T", "B", "D", "P", "x", "A", "t", "a", "w", "b", "l", "o", "i", "I", "y",
          "n", "N", "m", "v", "r", "s", "p", "q", "h", "V", "z", "Y"} |-> [ends |-> {}]]

\* Help or a mistake; -e leaves *ret as it was, which main() has not set.
EndingOptions ==
  [o \in {"?", "H", "unknown"} |-> [ends |-> {1}]] @@ "e" :> [ends |-> {0, 1, 2, 3}]

\* -O and -M by more than a second.
TooLarge == [o \in {"O", "M"} |-> [ends |-> {1}]]

Meaning == ModeOptions @@ OutputOptions @@ NetworkOptions @@ OtherOptions
             @@ EndingOptions @@ TooLarge

\* Nothing is read after the option that ends the process.
Parsed(command) ==
  FoldLeft(LAMBDA r, o : IF r.ends # {} THEN r ELSE Meaning[o] @@ r,
           Defaults, command)

\* What is checked when all has been read: a mode, and one way to send.
Checked(r) ==
  IF r.ends # {} THEN r.ends
  ELSE IF r.mode_selected = 0 THEN {1}
  ELSE IF r.do_unicast_mode /\ r.do_hybrid_mode THEN {3}
  ELSE {}
=============================================================================

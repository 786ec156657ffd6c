------------------------------ MODULE MCDaemon ------------------------------
(* A small instance of Daemon: two places, and the commands tried. *)
EXTENDS Daemon

\* A slave, and a master beside any other daemon that stays in the foreground and
\* keeps a quality file.
CommandSet == {<<"g">>, <<"W", "L", "R", "c">>}
=============================================================================

------------------------------ MODULE MCDaemon ------------------------------
(* One thread with up to two given-up requests still on their way: three    *)
(* requests may be in the daemon at once.                                   *)
EXTENDS Daemon, TLC
CONSTANT c1
=============================================================================

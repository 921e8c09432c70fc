---------------------------- MODULE MCStaleSweep ----------------------------
(* StaleSweep for TLC.  The sweep treats every agent alike and on its own,   *)
(* so one agent is raced by every actor that writes its record.              *)
EXTENDS StaleSweep
=============================================================================

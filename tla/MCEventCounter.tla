---------------------------- MODULE MCEventCounter ----------------------------
(***************************************************************************)
(* Instances of EventCounter for TLC.                                      *)
(***************************************************************************)
EXTENDS EventCounter

CONSTANTS content, client   \* the two consumer threads

=============================================================================

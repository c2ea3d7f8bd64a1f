---------------------------- MODULE MCCConsumer ----------------------------
(***************************************************************************)
(* Instances of CConsumer for TLC.                                         *)
(***************************************************************************)
EXTENDS CConsumer

CONSTANTS v1, v2   \* two contents

=============================================================================

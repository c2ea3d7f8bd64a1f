--------------------------- MODULE MCClientService ---------------------------
(***************************************************************************)
(* Instances of ClientService for TLC.                                     *)
(***************************************************************************)
EXTENDS ClientService

CONSTANTS g1, g2,   \* requests to the Go service
          s1,       \* a request to the Spring service
          i1, i2, a   \* ids and a name of clients

=============================================================================

--------------------------- MODULE MCPageviewEvents ---------------------------
(***************************************************************************)
(* Instances of PageviewEvents for TLC.                                    *)
(***************************************************************************)
EXTENDS PageviewEvents

CONSTANTS g1,       \* a requester of the Go service
          s1,       \* a requester of the Spring service
          k, u,     \* a known and an unknown content
          content   \* the statistic

=============================================================================

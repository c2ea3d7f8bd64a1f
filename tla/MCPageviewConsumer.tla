------------------------- MODULE MCPageviewConsumer -------------------------
(***************************************************************************)
(* Instances of PageviewConsumer for TLC.  Two contents of one client on   *)
(* one day: the content consumer keeps a counter for each, the client      *)
(* consumer one for both.                                                  *)
(***************************************************************************)
EXTENDS PageviewConsumer

CONSTANTS content, client,   \* the two consumer threads
          v1, v2             \* the two views, also the content counters' keys

\* The counter of each consumer: by content, or by the content's client
MCKeyOf ==
    [c \in Consumers |-> [v \in Views |-> IF c = client THEN v1 ELSE v]]

=============================================================================

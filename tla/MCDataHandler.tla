---------------------------- MODULE MCDataHandler ----------------------------
(***************************************************************************)
(* The instance of DataHandler for TLC: a table of up to two rows, pages   *)
(* of one row, and the sizes that give no page: a limit of 0, and one that *)
(* overflows.                                                              *)
(***************************************************************************)
EXTENDS DataHandler

CONSTANTS a, b   \* two names

\* Nothing, a key, a key and a name, a list for the key with and without a name,
\* and values that make an operation panic
MCCriteria ==
    {<<>>, [id |-> 1], [id |-> 2, name |-> a], [id |-> Slice],
     [id |-> Slice, name |-> a], [name |-> a],
     [id |-> Nil], [id |-> 1, name |-> BadSlice]}

MCReplacements == {<<>>, [name |-> b], [id |-> 2], [name |-> Slice], [name |-> Nil]}

MCRecords == {<<>>, [name |-> a], [id |-> 1, name |-> b], [id |-> 2]}

Sizes == {0, -1, 2}

OneColumn == <<"id">>

=============================================================================

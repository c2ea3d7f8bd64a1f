---------------------------- MODULE PageviewLedger ----------------------------
(***************************************************************************)
(* What the consumer promises to a reader of the database, with no threads,*)
(* transactions, crashes or fetches in sight: each statistic is a ledger   *)
(* posted up to some offset of the log.  A posting takes effect at once,   *)
(* moves the statistic forward, and leaves exactly the counts of the       *)
(* messages posted so far; a restore puts every statistic back to the same *)
(* earlier moment.                                                         *)
(***************************************************************************)
EXTENDS Integers, Sequences, FiniteSets

CONSTANTS Consumers, Views, Known, Other, Keys, KeyOf

VARIABLES log, db, backup

vars == <<log, db, backup>>

\* The offsets up to r that count towards k, as a statistic of kind c
Posted(c, k, r) ==
    {o \in 0 .. r : log[o + 1] \in Known /\ KeyOf[c][log[o + 1]] = k}

\* A statistic with nothing posted
Blank == [ref |-> -1, counts |-> [k \in Keys |-> 0]]

Init ==
    /\ log = <<>>
    /\ db = [c \in Consumers |-> Blank]
    /\ backup = db

Publish(m) ==
    /\ log' = Append(log, m)
    /\ UNCHANGED <<db, backup>>

\* Statistic c is posted up to offset r, the messages up to r all being good
Post(c, r) ==
    /\ \A o \in 0 .. r : log[o + 1] \in Known \cup {Other}
    /\ db' = [db EXCEPT ![c] =
                [ref |-> r,
                 counts |-> [k \in Keys |-> Cardinality(Posted(c, k, r))]]]
    /\ UNCHANGED <<log, backup>>

TakeBackup ==
    /\ backup' = db
    /\ UNCHANGED <<log, db>>

Restore ==
    /\ db' = backup
    /\ UNCHANGED <<log, backup>>

Next ==
    \/ \E m \in Views \cup {Other} : Publish(m)
    \/ \E c \in Consumers : \E r \in db[c].ref + 1 .. Len(log) - 1 : Post(c, r)
    \/ TakeBackup
    \/ Restore

Spec == Init /\ [][Next]_vars

=============================================================================

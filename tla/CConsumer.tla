------------------------------- MODULE CConsumer -------------------------------
(***************************************************************************)
(* The C pageview consumer (src/c/consumer.c), the predecessor of the C++  *)
(* one: a single loop that counts views by content.  It searches the topic *)
(* for its reference before it runs, opens a transaction at the first view *)
(* of a batch, and only logs a statement that fails, while Postgres has    *)
(* aborted the transaction and turns its COMMIT into a rollback.           *)
(*                                                                         *)
(* A message is the content whose view it reports, or Other: a message     *)
(* that the loop skips, because it is no JSON, of another type or without  *)
(* a content_id.  content_pageview(uuid) counts by content and by the day  *)
(* of processing; a counter here is the total of a content over its days.  *)
(***************************************************************************)
EXTENDS Integers, Sequences, FiniteSets

CONSTANTS
    Views,         \* the contents that messages report a view of
    Known,         \* those that are in the content table
    Other,         \* a message that the loop skips
    BatchSize,     \* batch_commit_size, which parse_config keeps positive
    PartitionEof,  \* librdkafka reports the end of the partition as an event
                   \* (its default before version 1.0), with a text
    MaxLog,        \* bound: messages published
    MaxStops,      \* bound: interrupts, kills and lost connections
    MaxErrors,     \* bound: error events that librdkafka delivers
    MaxFaults,     \* bound: statements that fail though the view is known
    MaxRestores,   \* bound: restores of the database
    MaxTrims       \* bound: messages that retention deletes

ASSUME CConstantsAssumption ==
    /\ Known \subseteq Views
    /\ Other \notin Views
    /\ BatchSize \in Nat \ {0}
    /\ PartitionEof \in BOOLEAN
    /\ MaxLog \in Nat
    /\ MaxStops \in Nat
    /\ MaxErrors \in Nat
    /\ MaxFaults \in Nat
    /\ MaxRestores \in Nat
    /\ MaxTrims \in Nat

VARIABLES
    log,                \* Kafka: the partition; offset o is log[o + 1]
    logStart,           \* Kafka: the first offset that is retained
    db,                 \* Postgres, committed: source reference and counters
    backup,             \* Postgres: the last dump
    pc,                 \* where main is; "down" when there is no process
    proc_running,       \* the flag that graceful_shutdown clears
    source_ref,         \* what get_last_source_ref returned
    pos,                \* librdkafka: the next offset to be fetched
    lastoffset,         \* the offset of the last event that had a length
    uncommitted_count,  \* views in the batch
    txn,                \* the transaction as Postgres has it
    work,               \* the counters as the transaction sees them
    total_committed,    \* views reported as committed
    stops, errors, faults, restores

kafkaVars == <<log, logStart>>
dbVars == <<db, backup>>
batchVars == <<uncommitted_count, txn, work, total_committed>>
boundVars == <<stops, errors, faults, restores>>
vars == <<kafkaVars, dbVars, pc, proc_running, source_ref, pos, lastoffset,
          batchVars, boundVars>>

-----------------------------------------------------------------------------
Messages == Views \cup {Other}

\* RD_KAFKA_OFFSET_BEGINNING, which get_last_source_ref returns for null
OFFSET_BEGINNING == -2

\* get_message_ref returned null: there is no row in source_ref
NoRow == -1

ZeroCounts == [v \in Views |-> 0]

\* auto.offset.reset sends an offset that is out of range to the beginning
Resolve(o) == IF o \in logStart .. Len(log) THEN o ELSE logStart

\* The offset that rd_kafka_consume is served from next
Fetch == Resolve(pos)

\* The offsets up to r at which the log l has a message of the set S
OffsetsOf(l, S, r) == {o \in 0 .. r : o < Len(l) /\ l[o + 1] \in S}

\* The offsets that an error event may carry: librdkafka reports an error of a
\* message or of a fetch with the offset that it is fetching, and one of the
\* topic or of the broker with whatever offset the event was made with
ErrorOffsets == 0 .. Fetch

\* The views of known content v that the log l holds up to offset r
Tally(l, v, r) == Cardinality(OffsetsOf(l, {v} \cap Known, r))

Init ==
    /\ log = <<>>
    /\ logStart = 0
    /\ db = [ref |-> NoRow, counts |-> ZeroCounts]
    /\ backup = db
    /\ pc = "down"
    /\ proc_running = FALSE
    /\ source_ref = OFFSET_BEGINNING
    /\ pos = 0
    /\ lastoffset = 0
    /\ uncommitted_count = 0
    /\ txn = "none"
    /\ work = ZeroCounts
    /\ total_committed = 0
    /\ stops = 0
    /\ errors = 0
    /\ faults = 0
    /\ restores = 0

-----------------------------------------------------------------------------
(* Kafka and Postgres around the process                                   *)

processVars == <<pc, proc_running, source_ref, pos, lastoffset, batchVars>>

Publish(m) ==
    /\ Len(log) < MaxLog
    /\ log' = Append(log, m)
    /\ UNCHANGED <<logStart, dbVars, processVars, boundVars>>

\* Retention deletes the oldest message, read or not
Trim ==
    /\ logStart < Len(log)
    /\ logStart < MaxTrims
    /\ logStart' = logStart + 1
    /\ UNCHANGED <<log, dbVars, processVars, boundVars>>

Backup ==
    /\ backup # db
    /\ backup' = db
    /\ UNCHANGED <<kafkaVars, db, processVars, boundVars>>

\* The database is restored from the dump while no process is connected
Restore ==
    /\ pc = "down"
    /\ restores < MaxRestores
    /\ db' = backup
    /\ restores' = restores + 1
    /\ UNCHANGED <<kafkaVars, backup, processVars, stops, errors, faults>>

-----------------------------------------------------------------------------
(* main: starting and stopping                                             *)

\* init_postgres and get_last_source_ref, then rd_kafka_consume_start
Launch ==
    /\ pc = "down"
    /\ pc' = "init"
    /\ source_ref' = IF db.ref = NoRow THEN OFFSET_BEGINNING ELSE db.ref
    /\ pos' = IF db.ref = NoRow THEN 0 ELSE db.ref
    /\ UNCHANGED <<kafkaVars, dbVars, proc_running, lastoffset, batchVars,
                   boundVars>>

\* The process ends, and Postgres rolls an open transaction back
ProcessExit ==
    /\ pc' = "down"
    /\ proc_running' = FALSE
    /\ source_ref' = OFFSET_BEGINNING
    /\ pos' = 0
    /\ lastoffset' = 0
    /\ uncommitted_count' = 0
    /\ txn' = "none"
    /\ work' = ZeroCounts
    /\ total_committed' = 0

\* A kill, a power loss, an interrupt before the handler is installed, or a
\* connection that is lost inside a transaction: the statements after it fail
\* and so does COMMIT, which ends the loop
Kill ==
    /\ pc # "down"
    /\ stops < MaxStops
    /\ stops' = stops + 1
    /\ ProcessExit
    /\ UNCHANGED <<kafkaVars, dbVars, errors, faults, restores>>

\* graceful_shutdown, the SIGINT handler; before the loop it has no effect,
\* because main sets proc_running afterwards
Interrupt ==
    /\ pc \in {"armed", "loop", "check"}
    /\ stops < MaxStops
    /\ stops' = stops + 1
    /\ proc_running' = FALSE
    /\ UNCHANGED <<kafkaVars, dbVars, pc, source_ref, pos, lastoffset,
                   batchVars, errors, faults, restores>>

\* The loop has ended: PQfinish and the join of the statistics thread
Exit ==
    /\ pc = "loop"
    /\ ~proc_running
    /\ ProcessExit
    /\ UNCHANGED <<kafkaVars, dbVars, boundVars>>

-----------------------------------------------------------------------------
(* init_kafka: searching for the reference                                 *)

\* No reference: the loop starts at the beginning of the log
SearchNothing ==
    /\ pc = "init"
    /\ source_ref = OFFSET_BEGINNING
    /\ pc' = "armed"
    /\ UNCHANGED <<kafkaVars, dbVars, proc_running, source_ref, pos,
                   lastoffset, batchVars, boundVars>>

\* Mutation: the message of the reference is left to be read again
SearchStepUnread ==
    /\ pc = "init"
    /\ source_ref # OFFSET_BEGINNING
    /\ Fetch < Len(log)
    /\ pos' = IF Fetch = source_ref THEN Fetch ELSE Fetch + 1
    /\ pc' = IF Fetch = source_ref THEN "armed" ELSE "init"
    /\ UNCHANGED <<kafkaVars, dbVars, proc_running, source_ref, lastoffset,
                   batchVars, boundVars>>

\* One message of the search: it is the one of the reference, or is passed over
SearchStep ==
    /\ pc = "init"
    /\ source_ref # OFFSET_BEGINNING
    /\ Fetch < Len(log)
    /\ pos' = Fetch + 1
    /\ pc' = IF Fetch = source_ref THEN "armed" ELSE "init"
    /\ UNCHANGED <<kafkaVars, dbVars, proc_running, source_ref, lastoffset,
                   batchVars, boundVars>>

\* An error event is a text with a length, and its error is not looked at: if it
\* has the offset of the reference, it is taken for the message, which has not
\* been read.  With another offset it is passed over.
SearchError ==
    /\ pc = "init"
    /\ source_ref \in ErrorOffsets
    /\ errors < MaxErrors
    /\ errors' = errors + 1
    /\ pc' = "armed"
    /\ UNCHANGED <<kafkaVars, dbVars, proc_running, source_ref, pos, lastoffset,
                   batchVars, stops, faults, restores>>

\* The search reaches the end: "Could not find message with source ref".
\* Without the event it goes on waiting.
SearchFails ==
    /\ pc = "init"
    /\ source_ref # OFFSET_BEGINNING
    /\ PartitionEof
    /\ Fetch = Len(log)
    /\ ProcessExit
    /\ UNCHANGED <<kafkaVars, dbVars, boundVars>>

\* The handler is installed and the statistics thread started before the flag
\* is set
EnterLoop ==
    /\ pc = "armed"
    /\ pc' = "loop"
    /\ proc_running' = TRUE
    /\ UNCHANGED <<kafkaVars, dbVars, source_ref, pos, lastoffset, batchVars,
                   boundVars>>

-----------------------------------------------------------------------------
(* main: the loop                                                          *)

\* The transaction that the statement of the next view runs in
InTransaction ==
    IF uncommitted_count = 0
    THEN [state |-> "open", counts |-> db.counts]
    ELSE [state |-> txn, counts |-> work]

\* Transaction t after content_pageview(v): it counts a known content, and an
\* unknown one violates a foreign key, which aborts the transaction
AfterUpdate(t, v) ==
    IF t.state = "open" /\ v \in Known
    THEN [t EXCEPT !.counts[v] = @ + 1]
    ELSE [t EXCEPT !.state = "aborted"]

\* The message that the loop is handed next is consumed, with a length.  A message
\* that librdkafka finds corrupt, and replaces by an error with its offset, is Other.
TakeMessage ==
    /\ pc = "loop"
    /\ proc_running
    /\ Fetch < Len(log)
    /\ pos' = Fetch + 1
    /\ lastoffset' = Fetch

\* The view joins the batch with transaction t as the outcome of its statement
JoinBatch(t) ==
    /\ uncommitted_count' = uncommitted_count + 1
    /\ txn' = t.state
    /\ work' = t.counts
    /\ pc' = "check"
    /\ UNCHANGED <<kafkaVars, dbVars, source_ref, total_committed, errors, restores>>

\* A view: start_transaction at the first of a batch, then
\* update_pageview_count, whose failure is logged
ReadView ==
    /\ TakeMessage
    /\ log[Fetch + 1] \in Views
    /\ JoinBatch(AfterUpdate(InTransaction, log[Fetch + 1]))
    /\ UNCHANGED <<proc_running, stops, faults>>

\* The statement fails for a reason that is not the view's, and aborts the
\* transaction
ReadViewFault ==
    /\ TakeMessage
    /\ log[Fetch + 1] \in Views
    /\ faults < MaxFaults
    /\ faults' = faults + 1
    /\ JoinBatch([InTransaction EXCEPT !.state = "aborted"])
    /\ UNCHANGED <<proc_running, stops>>

\* BEGIN fails, the connection being lost: the loop is to end, and the rest of
\* this pass is without effect on the database
BeginFails ==
    /\ TakeMessage
    /\ log[Fetch + 1] \in Views
    /\ uncommitted_count = 0
    /\ stops < MaxStops
    /\ stops' = stops + 1
    /\ proc_running' = FALSE
    /\ JoinBatch([state |-> "aborted", counts |-> work])
    /\ UNCHANGED faults

\* Another message: `continue', past the check for a commit
ReadOther ==
    /\ TakeMessage
    /\ log[Fetch + 1] = Other
    /\ UNCHANGED <<kafkaVars, dbVars, pc, proc_running, source_ref, batchVars,
                   boundVars>>

\* The end of the partition: an event whose length is that of its text, so
\* that lastoffset becomes the offset of the end; the text is no JSON
ReadEnd ==
    /\ pc = "loop"
    /\ proc_running
    /\ PartitionEof
    /\ Fetch = Len(log)
    /\ lastoffset' = Len(log)
    /\ UNCHANGED <<kafkaVars, dbVars, pc, proc_running, source_ref, pos,
                   batchVars, boundVars>>

\* Another error event is printed, and then goes the way of a message: its text has
\* a length, so that lastoffset becomes its offset, and is no JSON
ReadError(o) ==
    /\ pc = "loop"
    /\ proc_running
    /\ o \in ErrorOffsets
    /\ errors < MaxErrors
    /\ errors' = errors + 1
    /\ lastoffset' = o
    /\ UNCHANGED <<kafkaVars, dbVars, pc, proc_running, source_ref, pos,
                   batchVars, stops, faults, restores>>

\* rd_kafka_consume returns nothing within 10 ms, or an event without a length
ReadNothing ==
    /\ pc = "loop"
    /\ proc_running
    /\ pc' = "check"
    /\ UNCHANGED <<kafkaVars, dbVars, proc_running, source_ref, pos,
                   lastoffset, batchVars, boundVars>>

\* Mutation: the batch is committed one view late
CommitDueOneLate(late) ==
    /\ uncommitted_count > 0
    /\ uncommitted_count > BatchSize \/ late

\* Mutation: the batch is committed by size only
CommitDueBySize(late) ==
    uncommitted_count > 0 /\ uncommitted_count % BatchSize = 0

\* do_commit, where late says that the first view of the batch is older than
\* uncommitted_timeout_sec
CommitDue(late) ==
    /\ uncommitted_count > 0
    /\ uncommitted_count % BatchSize = 0 \/ late

\* No commit in this pass
NotDue(late) ==
    /\ pc = "check"
    /\ ~CommitDue(late)
    /\ pc' = "loop"
    /\ UNCHANGED <<kafkaVars, dbVars, proc_running, source_ref, pos,
                   lastoffset, batchVars, boundVars>>

\* Mutation: the reference is set after COMMIT, outside the transaction
CommittedWithoutRef ==
    IF txn = "open" THEN [db EXCEPT !.counts = work] ELSE db

\* Postgres after COMMIT: an aborted transaction is rolled back, and the
\* answer is the same
Committed ==
    IF txn = "open" THEN [ref |-> lastoffset, counts |-> work] ELSE db

\* After the commit, whatever became of it
BatchDone ==
    /\ total_committed' = total_committed + uncommitted_count
    /\ uncommitted_count' = 0
    /\ txn' = "none"
    /\ work' = ZeroCounts
    /\ pc' = "loop"
    /\ UNCHANGED <<kafkaVars, backup, source_ref, pos, lastoffset, errors,
                   restores>>

\* set_last_source_ref and commit_transaction
CommitBatch(late) ==
    /\ pc = "check"
    /\ CommitDue(late)
    /\ db' = Committed
    /\ BatchDone
    /\ UNCHANGED <<proc_running, stops, faults>>

\* set_last_source_ref fails, which is logged, and aborts the transaction
SetRefFault(late) ==
    /\ pc = "check"
    /\ CommitDue(late)
    /\ faults < MaxFaults
    /\ faults' = faults + 1
    /\ BatchDone
    /\ UNCHANGED <<db, proc_running, stops>>

\* COMMIT fails with the connection, before or after it took effect
CommitFails(late) ==
    /\ pc = "check"
    /\ CommitDue(late)
    /\ stops < MaxStops
    /\ stops' = stops + 1
    /\ proc_running' = FALSE
    /\ db' \in {db, Committed}
    /\ BatchDone
    /\ UNCHANGED faults

-----------------------------------------------------------------------------
\* What the process does by itself
Step ==
    \/ SearchNothing
    \/ SearchStep
    \/ SearchFails
    \/ EnterLoop
    \/ ReadView
    \/ ReadOther
    \/ ReadEnd
    \/ ReadNothing
    \/ \E late \in BOOLEAN : NotDue(late) \/ CommitBatch(late)
    \/ Exit

Next ==
    \/ \E m \in Messages : Publish(m)
    \/ Trim
    \/ Backup
    \/ Restore
    \/ Launch
    \/ Kill
    \/ Interrupt
    \/ Step
    \/ SearchError
    \/ \E o \in ErrorOffsets : ReadError(o)
    \/ ReadViewFault
    \/ BeginFails
    \/ \E late \in BOOLEAN : SetRefFault(late) \/ CommitFails(late)

Spec == Init /\ [][Next]_vars

\* The process is relaunched and scheduled, librdkafka hands over what the
\* broker has, and the clock goes on
Fairness ==
    /\ WF_vars(Launch)
    /\ WF_vars(Step)
    /\ SF_vars(ReadView \/ ReadOther)
    /\ SF_vars(CommitBatch(TRUE))

LiveSpec == Spec /\ Fairness

-----------------------------------------------------------------------------
(* What the consumer promises                                              *)

\* Every variable has its type.
TypeOK ==
    /\ log \in Seq(Messages)
    /\ logStart \in Nat
    /\ {db, backup} \subseteq
         [ref : Nat \cup {NoRow}, counts : [Views -> Nat]]
    /\ pc \in {"down", "init", "armed", "loop", "check"}
    /\ proc_running \in BOOLEAN
    /\ source_ref \in Nat \cup {OFFSET_BEGINNING}
    /\ pos \in Nat
    /\ lastoffset \in Nat
    /\ uncommitted_count \in 0 .. BatchSize
    /\ txn \in {"none", "open", "aborted"}
    /\ work \in [Views -> Nat]
    /\ total_committed \in Nat
    /\ {stops, errors, faults, restores} \subseteq Nat

\* Without error events no view is counted twice, whatever fails and whatever is
\* deleted.  An error event that init_kafka takes for the message of the reference,
\* or whose offset is committed as the reference, makes a part of the log be read
\* again: each of them may count every view once more, and no view more often.
OvercountBounded ==
    \A v \in Views :
        db.counts[v] <= Tally(log, v, db.ref) + errors * Tally(log, v, Len(log) - 1)

\* The views that fail
Unknown == {o \in DOMAIN log : log[o] \in Views \ Known}

\* A statement that fails takes its whole batch with it and never more: while
\* nothing is deleted, a view of unknown content costs at most the other views
\* of a batch, and any other failure at most a batch.  An error event may make the
\* unknown contents be read again, with the views around them.  Where end-of-partition
\* or error events are delivered, the reference may be that of a message still to be
\* read, and a process that starts with it skips one.  Said between two batches, of
\* a process that has read as far as its reference.
LossBounded ==
    logStart = 0 /\ uncommitted_count = 0 /\ pos > db.ref =>
        \A v \in Views :
            Tally(log, v, db.ref) <= db.counts[v]
                + (BatchSize - 1) * ((1 + errors) * Cardinality(Unknown))
                + BatchSize * faults
                + (IF PartitionEof \/ errors > 0 THEN stops ELSE 0)

Content == "content"

Ledger ==
    INSTANCE PageviewLedger WITH
        Consumers <- {Content},
        Keys <- Views,
        KeyOf <- [c \in {Content} |-> [v \in Views |-> v]],
        db <- [c \in {Content} |-> db],
        backup <- [c \in {Content} |-> backup]

\* Seen from the database, the C consumer keeps the same ledger as the C++
\* one, for its one statistic, as long as no statement fails and librdkafka
\* delivers neither error nor end-of-partition events.
Refinement == Ledger!Spec

\* Where no statement fails and librdkafka delivers no events, every view in the log
\* is counted once producers, stops and restores have ceased, the last batch by time.
AllCounted ==
    <>[](\A v \in Views : db.counts[v] = Tally(log, v, Len(log) - 1))

=============================================================================

--------------------------- MODULE PageviewConsumer ---------------------------
(***************************************************************************)
(* The C++ pageview consumer (src/cpp): one process, one thread per        *)
(* statistic, each thread copying the views of the Kafka topic into        *)
(* counters of its own and keeping, in the same database transaction, its  *)
(* own reference to the last message it has counted.                       *)
(*                                                                         *)
(* What is kept: every step of RunProcess, Start, Read and the main        *)
(* function, the exits of the whole process that any thread's exception    *)
(* causes, SIGINT, relaunch, and what the code relies on from outside      *)
(* (Kafka's log and its retention, Postgres transactions, a database       *)
(* restored from a backup).                                                *)
(*                                                                         *)
(* What is abstracted: a message is the view it reports (content and day)  *)
(* or Other, which stands for every message that is counted towards the    *)
(* batch and changes no counter (another type, or a document that is not   *)
(* an object); the clock is the Boolean `due', the comparison the code     *)
(* makes with it.                                                          *)
(***************************************************************************)
EXTENDS Integers, Sequences, FiniteSets

CONSTANTS
    Consumers,      \* the statistics, one thread each: content and client
    Views,          \* what a content_pageview message reports: content and day
    Known,          \* the views whose content is in the content table
    Other,          \* a message that no consumer counts
    Keys,           \* the primary keys of the counter tables
    KeyOf,          \* KeyOf[c][v]: the counter that consumer c increments for v
    BatchSize,      \* batch_commit_size of the configuration
    MaxLog,         \* bound: messages published
    MaxStops,       \* bound: errors, kills and interrupts of the process
    MaxRestores,    \* bound: restores of the database
    MaxSlowStarts,  \* bound: first fetches that take longer than one second
    MaxTrims        \* bound: messages that retention deletes

ASSUME ConstantsAssumption ==
    /\ Known \subseteq Views
    /\ Other \notin Views
    /\ KeyOf \in [Consumers -> [Views -> Keys]]
    /\ BatchSize \in Nat \ {0}
    /\ MaxLog \in Nat
    /\ MaxStops \in Nat
    /\ MaxRestores \in Nat
    /\ MaxSlowStarts \in Nat
    /\ MaxTrims \in Nat

VARIABLES
    log,         \* Kafka: the messages of the partition; offset o is log[o + 1]
    logStart,    \* Kafka: the first offset that retention has not deleted
    db,          \* Postgres, committed: db[c].ref and db[c].counts
    backup,      \* Postgres: the last dump of the committed state
    running,     \* the flag that SIGINT clears
    pc,          \* where each thread is; "down" when there is no process
    kcRef,       \* KafkaClient::sourceReference of each thread
    pos,         \* librdkafka: the next offset that each thread fetches
    msgCounter,  \* messages in each thread's open transaction
    due,         \* n - lastCommitTime >= commitTimeSeconds in the current pass
    work,        \* the counters as each thread's open transaction sees them
    stops,       \* errors, kills and interrupts so far
    restores,    \* restores so far
    slowStarts   \* first fetches that timed out so far

kafkaVars == <<log, logStart>>
dbVars == <<db, backup>>
threadVars == <<kcRef, pos, msgCounter, due, work>>
boundVars == <<stops, restores, slowStarts>>
vars == <<kafkaVars, dbVars, running, pc, threadVars, boundVars>>

-----------------------------------------------------------------------------
Messages == Views \cup {Other}

\* RdKafka::Topic::OFFSET_BEGINNING
OFFSET_BEGINNING == -2

\* get_source_ref returned null: the consumer has no row in source_ref
NoRow == -1

\* _ProcessMessage counts messages of type content_pageview and no other
IsPageview(m) == m \in Views

\* The statement that counts the view fails: its content is not in the content
\* table, so it has no client, and neither a client's counter table nor a
\* client_id for client_counter
Poison(m) == IsPageview(m) /\ m \notin Known

\* The offset that a fetch at offset o is served from: auto.offset.reset sends
\* an offset that is out of range to the beginning of the log
Resolve(o) == IF o \in logStart .. Len(log) THEN o ELSE logStart

\* The offsets of log l up to r whose view increments counter k of consumer c
ViewsUpTo(l, c, k, r) ==
    {o \in 0 .. r : l[o + 1] \in Known /\ KeyOf[c][l[o + 1]] = k}

Tally(l, c, k, r) == Cardinality(ViewsUpTo(l, c, k, r))

ZeroCounts == [k \in Keys |-> 0]

Attached == {"loop", "read", "batch", "timed"}

Places == {"down", "construct", "start", "done"} \cup Attached

Up == \E c \in Consumers : pc[c] # "down"

-----------------------------------------------------------------------------
Init ==
    /\ log = <<>>
    /\ logStart = 0
    /\ db = [c \in Consumers |-> [ref |-> NoRow, counts |-> ZeroCounts]]
    /\ backup = db
    /\ running = FALSE
    /\ pc = [c \in Consumers |-> "down"]
    /\ kcRef = [c \in Consumers |-> OFFSET_BEGINNING]
    /\ pos = [c \in Consumers |-> 0]
    /\ msgCounter = [c \in Consumers |-> 0]
    /\ due = [c \in Consumers |-> FALSE]
    /\ work = [c \in Consumers |-> ZeroCounts]
    /\ stops = 0
    /\ restores = 0
    /\ slowStarts = 0

-----------------------------------------------------------------------------
(* Kafka and Postgres around the process                                   *)

\* A producer's message is accepted by the broker
Publish(m) ==
    /\ Len(log) < MaxLog
    /\ log' = Append(log, m)
    /\ UNCHANGED <<logStart, dbVars, running, pc, threadVars, boundVars>>

\* Retention deletes the oldest message, read or not
Trim ==
    /\ logStart < Len(log)
    /\ logStart < MaxTrims
    /\ logStart' = logStart + 1
    /\ UNCHANGED <<log, dbVars, running, pc, threadVars, boundVars>>

\* A consistent dump of the database
Backup ==
    /\ backup # db
    /\ backup' = db
    /\ UNCHANGED <<kafkaVars, db, running, pc, threadVars, boundVars>>

\* The database is restored from the dump; the process is not connected
Restore ==
    /\ ~Up
    /\ restores < MaxRestores
    /\ db' = backup
    /\ restores' = restores + 1
    /\ UNCHANGED <<kafkaVars, backup, running, pc, threadVars, stops,
                   slowStarts>>

-----------------------------------------------------------------------------
(* The process                                                             *)

\* main: a fresh process starts one thread per statistic
Launch ==
    /\ ~Up
    /\ running' = TRUE
    /\ pc' = [c \in Consumers |-> "construct"]
    /\ UNCHANGED <<kafkaVars, dbVars, threadVars, boundVars>>

\* The process ends: memory is lost, and Postgres rolls open transactions back
ProcessExit ==
    /\ running' = FALSE
    /\ pc' = [c \in Consumers |-> "down"]
    /\ kcRef' = [c \in Consumers |-> OFFSET_BEGINNING]
    /\ pos' = [c \in Consumers |-> 0]
    /\ msgCounter' = [c \in Consumers |-> 0]
    /\ due' = [c \in Consumers |-> FALSE]
    /\ work' = [c \in Consumers |-> ZeroCounts]

\* main: every thread has been joined
Exit ==
    /\ Up
    /\ \A c \in Consumers : pc[c] = "done"
    /\ ProcessExit
    /\ UNCHANGED <<kafkaVars, dbVars, boundVars>>

\* GracefulShutdown, the SIGINT handler
GracefulShutdown ==
    /\ Up
    /\ running
    /\ stops < MaxStops
    /\ running' = FALSE
    /\ stops' = stops + 1
    /\ UNCHANGED <<kafkaVars, dbVars, pc, threadVars, restores, slowStarts>>

\* An exception in thread c (a broker error, a failed statement, a lost
\* connection) exits the whole process; so does a kill or a power loss
ThreadError(c) ==
    /\ pc[c] \notin {"down", "done"}
    /\ stops < MaxStops
    /\ stops' = stops + 1
    /\ ProcessExit
    /\ UNCHANGED <<kafkaVars, dbVars, restores, slowStarts>>

-----------------------------------------------------------------------------
(* A consumer thread                                                       *)

\* What RefreshFromDatabase finds, as KafkaClient::Start takes it
SourceRef(c) == IF db[c].ref = NoRow THEN OFFSET_BEGINNING ELSE db[c].ref

\* Mutation: RunProcess forgets SetSourceReference
ConstructWithoutRef(c) ==
    /\ pc[c] = "construct"
    /\ kcRef' = [kcRef EXCEPT ![c] = OFFSET_BEGINNING]
    /\ pc' = [pc EXCEPT ![c] = "start"]
    /\ UNCHANGED <<kafkaVars, dbVars, running, pos, msgCounter, due, work,
                   boundVars>>

\* The constructor connects and reads the source reference; RunProcess hands
\* it to a new KafkaClient
Construct(c) ==
    /\ pc[c] = "construct"
    /\ kcRef' = [kcRef EXCEPT ![c] = SourceRef(c)]
    /\ pc' = [pc EXCEPT ![c] = "start"]
    /\ UNCHANGED <<kafkaVars, dbVars, running, pos, msgCounter, due, work,
                   boundVars>>

\* Start has returned: the transaction of the first batch begins
EnterLoop(c, p) ==
    /\ pc' = [pc EXCEPT ![c] = "loop"]
    /\ pos' = [pos EXCEPT ![c] = p]
    /\ msgCounter' = [msgCounter EXCEPT ![c] = 0]
    /\ work' = [work EXCEPT ![c] = db[c].counts]
    /\ UNCHANGED <<kafkaVars, dbVars, running, kcRef, due, stops, restores>>

\* Start without a reference: nothing is fetched yet
StartAtBeginning(c) ==
    /\ pc[c] = "start"
    /\ kcRef[c] = OFFSET_BEGINNING
    /\ EnterLoop(c, 0)
    /\ UNCHANGED slowStarts

\* Mutation: the message that Start fetches is left to be read again
StartFoundUnread(c) ==
    /\ pc[c] = "start"
    /\ kcRef[c] # OFFSET_BEGINNING
    /\ Resolve(kcRef[c]) = kcRef[c]
    /\ kcRef[c] < Len(log)
    /\ EnterLoop(c, kcRef[c])
    /\ UNCHANGED slowStarts

\* Start fetches the message of the reference, which was counted before
StartFound(c) ==
    /\ pc[c] = "start"
    /\ kcRef[c] # OFFSET_BEGINNING
    /\ Resolve(kcRef[c]) = kcRef[c]
    /\ kcRef[c] < Len(log)
    /\ EnterLoop(c, kcRef[c] + 1)
    /\ UNCHANGED slowStarts

\* Start reaches the end of the partition: no message, so no comparison fails
StartAtEnd(c) ==
    /\ pc[c] = "start"
    /\ kcRef[c] # OFFSET_BEGINNING
    /\ Resolve(kcRef[c]) = Len(log)
    /\ EnterLoop(c, Len(log))
    /\ UNCHANGED slowStarts

\* The fetch of Start times out after one second: the message of the
\* reference has not been consumed, and no comparison fails
StartTimesOut(c) ==
    /\ pc[c] = "start"
    /\ kcRef[c] # OFFSET_BEGINNING
    /\ slowStarts < MaxSlowStarts
    /\ slowStarts' = slowStarts + 1
    /\ EnterLoop(c, kcRef[c])

\* Start fetches another message than the one of the reference: "Starting
\* message ... could not be found"
StartRefused(c) ==
    /\ pc[c] = "start"
    /\ kcRef[c] # OFFSET_BEGINNING
    /\ Resolve(kcRef[c]) # kcRef[c]
    /\ Resolve(kcRef[c]) < Len(log)
    /\ ProcessExit
    /\ UNCHANGED <<kafkaVars, dbVars, boundVars>>

\* Mutation: the outer loop does not look at the flag
PassRegardless(c, d) ==
    /\ pc[c] = "loop"
    /\ due' = [due EXCEPT ![c] = d]
    /\ pc' = [pc EXCEPT ![c] = "read"]
    /\ UNCHANGED <<kafkaVars, dbVars, running, kcRef, pos, msgCounter, work,
                   boundVars>>

\* One more pass of the outer loop; d is what the clock says in this pass
Pass(c, d) ==
    /\ pc[c] = "loop"
    /\ running
    /\ due' = [due EXCEPT ![c] = d]
    /\ pc' = [pc EXCEPT ![c] = "read"]
    /\ UNCHANGED <<kafkaVars, dbVars, running, kcRef, pos, msgCounter, work,
                   boundVars>>

\* The outer loop ends: the open transaction is rolled back
Finish(c) ==
    /\ pc[c] = "loop"
    /\ ~running
    /\ pc' = [pc EXCEPT ![c] = "done"]
    /\ kcRef' = [kcRef EXCEPT ![c] = OFFSET_BEGINNING]
    /\ pos' = [pos EXCEPT ![c] = 0]
    /\ msgCounter' = [msgCounter EXCEPT ![c] = 0]
    /\ work' = [work EXCEPT ![c] = ZeroCounts]
    /\ UNCHANGED <<kafkaVars, dbVars, running, due, boundVars>>

\* Mutation: on conflict the counter is set, not incremented
CountedAsFirst(c, w, m) ==
    IF m \in Known THEN [w EXCEPT ![KeyOf[c][m]] = 1] ELSE w

\* Counters w of consumer c after message m: a new row starts at 1, and on
\* conflict pageview_count + 1
Counted(c, w, m) ==
    IF m \in Known THEN [w EXCEPT ![KeyOf[c][m]] = @ + 1] ELSE w

\* Mutation: the batch is committed one message late
AfterMessageLate(n) == IF n > BatchSize THEN "batch" ELSE "read"

\* What follows msgCounter++: a commit at every BatchSize-th message
AfterMessage(n) == IF n % BatchSize = 0 THEN "batch" ELSE "read"

\* The offset that Read is served from next; there may be no message there yet
Fetch(c) == Resolve(pos[c])

\* Read returns a message and _ProcessMessage succeeds
ReadMessage(c) ==
    LET o == Fetch(c) IN
    /\ pc[c] = "read"
    /\ o < Len(log)
    /\ ~Poison(log[o + 1])
    /\ kcRef' = [kcRef EXCEPT ![c] = o]
    /\ pos' = [pos EXCEPT ![c] = o + 1]
    /\ work' = [work EXCEPT ![c] = Counted(c, work[c], log[o + 1])]
    /\ msgCounter' = [msgCounter EXCEPT ![c] = @ + 1]
    /\ pc' = [pc EXCEPT ![c] = AfterMessage(msgCounter[c] + 1)]
    /\ UNCHANGED <<kafkaVars, dbVars, running, due, boundVars>>

\* Mutation: the failed statement is only logged
ReadPoisonLogged(c) ==
    LET o == Fetch(c) IN
    /\ pc[c] = "read"
    /\ o < Len(log)
    /\ Poison(log[o + 1])
    /\ kcRef' = [kcRef EXCEPT ![c] = o]
    /\ pos' = [pos EXCEPT ![c] = o + 1]
    /\ msgCounter' = [msgCounter EXCEPT ![c] = @ + 1]
    /\ pc' = [pc EXCEPT ![c] = AfterMessage(msgCounter[c] + 1)]
    /\ UNCHANGED <<kafkaVars, dbVars, running, due, work, boundVars>>

\* Read returns a view of unknown content: the statement raises an error
\* and the process exits
ReadPoison(c) ==
    LET o == Fetch(c) IN
    /\ pc[c] = "read"
    /\ o < Len(log)
    /\ Poison(log[o + 1])
    /\ ProcessExit
    /\ UNCHANGED <<kafkaVars, dbVars, boundVars>>

\* Mutation: a pass that is due commits even if it has read nothing
ReadNothingDue(c) ==
    /\ pc[c] = "read"
    /\ pc' = [pc EXCEPT ![c] = IF due[c] THEN "timed" ELSE "loop"]
    /\ due' = [due EXCEPT ![c] = FALSE]
    /\ UNCHANGED <<kafkaVars, dbVars, running, kcRef, pos, msgCounter, work,
                   boundVars>>

\* Mutation: there is no commit by time
ReadNothingUntimed(c) ==
    /\ pc[c] = "read"
    /\ pc' = [pc EXCEPT ![c] = "loop"]
    /\ due' = [due EXCEPT ![c] = FALSE]
    /\ UNCHANGED <<kafkaVars, dbVars, running, kcRef, pos, msgCounter, work,
                   boundVars>>

\* Read returns nothing: consume with timeout 0 finds no fetched message, even
\* if the broker has one
ReadNothing(c) ==
    /\ pc[c] = "read"
    /\ pc' = [pc EXCEPT ![c] = IF msgCounter[c] > 0 /\ due[c]
                               THEN "timed" ELSE "loop"]
    /\ due' = [due EXCEPT ![c] = FALSE]
    /\ UNCHANGED <<kafkaVars, dbVars, running, kcRef, pos, msgCounter, work,
                   boundVars>>

\* Mutation: UpdateSourceRef after CommitTxn, in the next transaction
CommittedWithoutRef(c) == [db EXCEPT ![c].counts = work[c]]

\* What COMMIT makes durable: the counters of the transaction, and the
\* reference that UpdateSourceRef wrote in the same transaction
Committed(c) == [db EXCEPT ![c] = [ref |-> kcRef[c], counts |-> work[c]]]

\* UpdateSourceRef, CommitTxn and StartTxn, by batch size or by time
Commit(c) ==
    /\ pc[c] \in {"batch", "timed"}
    /\ db' = Committed(c)
    /\ msgCounter' = [msgCounter EXCEPT ![c] = 0]
    /\ due' = [due EXCEPT ![c] = FALSE]
    /\ pc' = [pc EXCEPT ![c] = IF pc[c] = "batch" THEN "read" ELSE "loop"]
    /\ UNCHANGED <<kafkaVars, backup, running, kcRef, pos, work, boundVars>>

\* COMMIT takes effect, but the answer is lost: CommitTxn throws and the
\* process exits
CommitUnacknowledged(c) ==
    /\ pc[c] \in {"batch", "timed"}
    /\ stops < MaxStops
    /\ stops' = stops + 1
    /\ db' = Committed(c)
    /\ ProcessExit
    /\ UNCHANGED <<kafkaVars, backup, restores, slowStarts>>

-----------------------------------------------------------------------------
Start(c) ==
    \/ StartAtBeginning(c)
    \/ StartFound(c)
    \/ StartAtEnd(c)
    \/ StartTimesOut(c)
    \/ StartRefused(c)

Thread(c) ==
    \/ Construct(c)
    \/ Start(c)
    \/ \E d \in BOOLEAN : Pass(c, d)
    \/ Finish(c)
    \/ ReadMessage(c)
    \/ ReadPoison(c)
    \/ ReadNothing(c)
    \/ Commit(c)

Next ==
    \/ \E m \in Messages : Publish(m)
    \/ Trim
    \/ Backup
    \/ Restore
    \/ Launch
    \/ Exit
    \/ GracefulShutdown
    \/ \E c \in Consumers :
         Thread(c) \/ ThreadError(c) \/ CommitUnacknowledged(c)

Spec == Init /\ [][Next]_vars

\* An operator relaunches the process, threads are scheduled, the clock passes
\* commitTimeSeconds, and librdkafka sooner or later hands over what the
\* broker has.  Nothing is assumed of producers, errors or interrupts.
Fairness ==
    /\ WF_vars(Launch)
    /\ WF_vars(Exit)
    /\ \A c \in Consumers :
         /\ WF_vars(Thread(c))
         /\ SF_vars(Pass(c, TRUE))
         /\ SF_vars(ReadMessage(c))

LiveSpec == Spec /\ Fairness

-----------------------------------------------------------------------------
(* What the consumer promises                                              *)

\* Every variable has its type.
TypeOK ==
    /\ log \in Seq(Messages)
    /\ logStart \in Nat
    /\ db \in [Consumers -> [ref : Nat \cup {NoRow}, counts : [Keys -> Nat]]]
    /\ backup \in
         [Consumers -> [ref : Nat \cup {NoRow}, counts : [Keys -> Nat]]]
    /\ running \in BOOLEAN
    /\ pc \in [Consumers -> Places]
    /\ kcRef \in [Consumers -> Nat \cup {OFFSET_BEGINNING}]
    /\ pos \in [Consumers -> Nat]
    /\ msgCounter \in [Consumers -> Nat]
    /\ due \in [Consumers -> BOOLEAN]
    /\ work \in [Consumers -> [Keys -> Nat]]
    /\ stops \in Nat
    /\ restores \in Nat
    /\ slowStarts \in Nat

\* Whatever crashes, commits of unknown outcome, interrupts, relaunches and
\* restores happen, each committed counter is the number of views that the
\* log holds up to the committed reference: no view is counted twice and none
\* is left out, because RunProcess commits the counters and the reference in
\* one transaction and Start resumes just after the reference.
ExactlyOnce ==
    \A c \in Consumers, k \in Keys :
        db[c].counts[k] = Tally(log, c, k, db[c].ref)

\* A view is counted too often only by a Start whose first fetch timed out,
\* and each of those adds at most one to a counter; retention, crashes and
\* restores never make a counter too large.
NoOvercount ==
    \A c \in Consumers, k \in Keys :
        db[c].counts[k] <= Tally(log, c, k, db[c].ref) + slowStarts

\* As long as retention has deleted nothing, no view up to the committed
\* reference is missing from the counters, however Start went.
NoUndercount ==
    logStart = 0 =>
        \A c \in Consumers, k \in Keys :
            db[c].counts[k] >= Tally(log, c, k, db[c].ref)

\* No consumer commits a reference past a retained message that it could not
\* count: a view of unknown content stops the process, and nothing after it
\* is ever marked as done.
PoisonNeverPassed ==
    \A c \in Consumers : \A o \in logStart .. db[c].ref : ~Poison(log[o + 1])

\* What a crash would undo is bounded by the batch: the offsets that a thread
\* has read and not committed are exactly the messages of its open
\* transaction, and there are never more than BatchSize of them.
ReplayBounded ==
    \A c \in Consumers : pc[c] \in Attached =>
        /\ pos[c] - (db[c].ref + 1) = msgCounter[c]
        /\ msgCounter[c] <= BatchSize

\* A committed reference moves back only when the database is restored.
RefNeverBack ==
    [][restores' = restores =>
         \A c \in Consumers : db'[c].ref >= db[c].ref]_vars

Ledger == INSTANCE PageviewLedger

\* Seen from the database, threads, batches, crashes and relaunches vanish:
\* every step of the process posts one statistic forward, to exactly the counts
\* of the log up to its new reference, or changes nothing.
Refinement == Ledger!Spec

\* Once producers, errors and restores have ceased, every consumer commits
\* everything in the log: the last, incomplete batch is committed by time.
AllCounted ==
    \A c \in Consumers : <>[](db[c].ref = Len(log) - 1)

\* An interrupted process ends, although the inner loop does not look at the
\* flag: it gets there when it has drained the topic.
ShutdownCompletes == (Up /\ ~running) ~> ~Up

=============================================================================

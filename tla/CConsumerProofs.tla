---------------------------- MODULE CConsumerProofs ----------------------------
(***************************************************************************)
(* Proofs about the C consumer, for any contents, any batch size, with or  *)
(* without end-of-partition events, and any number of messages, stops,     *)
(* error events, failing statements, restores and deletions.               *)
(***************************************************************************)
EXTENDS CConsumer, FiniteSetTheorems, TLAPS

-----------------------------------------------------------------------------
(* The inductive invariant                                                 *)

Reading == {"armed", "loop", "check"}

\* The counters w hold no more than the log l up to offset r, and n times the
\* whole log
NotOver(l, w, r, n) ==
    \A v \in Views : w[v] <= Tally(l, v, r) + n * Tally(l, v, Len(l) - 1)

\* The counters w lack no more than n of the log l up to offset r
Within(l, w, r, n) == \A v \in Views : Tally(l, v, r) <= w[v] + n

\* The views of unknown content in the log l up to offset r
Bad(l, r) == Cardinality(OffsetsOf(l, Views \ Known, r))

\* What failures may have cost in the log l up to offset r, with f faults, s messages
\* that were skipped, and n times that the log was read again
Allowance(l, r, f, s, n) ==
    (BatchSize - 1) * (Bad(l, r) + n * Bad(l, Len(l) - 1)) + BatchSize * f + s

\* An event may have given the reference the offset of a message still to be read
Ahead == PartitionEof \/ errors > 0

\* The messages that processes may have skipped: one with every stop
Skipped == IF Ahead THEN stops ELSE 0

\* Those that a row of the running process, or one that it has left, may count on:
\* the last stop excuses the message that its reference may skip
Excused ==
    IF ~Ahead THEN 0 ELSE IF proc_running THEN stops ELSE stops - 1

\* An error event has taken the offset that is going to be committed back into what
\* has been read
Rewound == uncommitted_count > 0 /\ lastoffset < pos - 1

\* How often the log may have been read again so far: the event that has taken the
\* offset back makes that happen only if the offset is committed
Slack == IF Rewound THEN errors - 1 ELSE errors

\* The log, the fetch position and the batch fit together: a full batch is about to
\* be committed, and only a process that reads has one
BatchInv ==
    /\ logStart <= Len(log)
    /\ pos <= Len(log)
    /\ lastoffset <= Len(log)
    /\ uncommitted_count = 0 <=> txn = "none"
    /\ uncommitted_count > 0 => pc \in {"loop", "check"} /\ pos > 0
    /\ Rewound => errors > 0
    /\ pc = "loop" => uncommitted_count < BatchSize
    /\ pc \in {"down", "init", "armed"} => ~proc_running

\* init_kafka looks for the committed reference, and has not gone past the log
\* before it, nor past the reference itself if it is retained
SearchInv ==
    pc = "init" =>
        IF db.ref = NoRow
        THEN source_ref = OFFSET_BEGINNING /\ pos = 0
        ELSE /\ source_ref = db.ref
             /\ pos >= db.ref
             /\ logStart = 0 => pos = db.ref

\* Neither the committed counters nor those of the transaction hold a message
\* that is still to be fetched more often than the log has been read again
ReadInv ==
    pc \in Reading =>
        /\ NotOver(log, db.counts, pos - 1, Slack)
        /\ txn = "open" =>
              /\ NotOver(log, work, pos - 1, Slack)
              /\ \A v \in Views : work[v] <= db.counts[v] + uncommitted_count
        /\ ~Ahead =>
              /\ db.ref < pos
              /\ uncommitted_count > 0 => lastoffset = pos - 1 /\ db.ref < lastoffset

RowInv(row) == row.ref <= Len(log) /\ NotOver(log, row.counts, row.ref, errors)

\* A row lacks no more than the failures explain.  If its reference is that of an
\* event, the message that has or gets this offset is not in the row, and is not read
\* if the process stops
RowLoss(row) ==
    \/ /\ row.ref < Len(log)
       /\ Within(log, row.counts, row.ref,
                 Allowance(log, row.ref, faults, Skipped, errors))
    \/ /\ Ahead
       /\ Within(log, row.counts, row.ref - 1,
                 Allowance(log, row.ref - 1, faults, Excused, errors))

\* The same of a process that reads, up to its position.  An aborted batch has been
\* paid for as a whole, and has used up uncommitted_count of it
ReadLoss ==
    pc \in Reading =>
        /\ uncommitted_count > 0 => lastoffset < pos \/ (Ahead /\ lastoffset = pos)
        /\ txn = "none" /\ (proc_running \/ pc = "armed") =>
              Within(log, db.counts, pos - 1,
                     Allowance(log, pos - 1, faults, Skipped, Slack))
        /\ txn = "open" =>
              Within(log, work, pos - 1,
                     Allowance(log, pos - 1, faults, Excused, Slack))
        /\ txn = "aborted" /\ proc_running =>
              Within(log, db.counts, pos - 1,
                     Allowance(log, pos - 1, faults, Skipped, Slack)
                         + (uncommitted_count - BatchSize))

LossInv ==
    logStart = 0 => RowLoss(db) /\ RowLoss(backup) /\ ReadLoss

IInv ==
    /\ TypeOK
    /\ BatchInv
    /\ SearchInv
    /\ ReadInv
    /\ RowInv(db)
    /\ RowInv(backup)
    /\ LossInv

-----------------------------------------------------------------------------
(* Offsets                                                                 *)

\* There are finitely many offsets up to one.
LEMMA OffsetsType ==
    ASSUME NEW l, NEW S, NEW r \in Int
    PROVE  /\ IsFiniteSet(OffsetsOf(l, S, r))
           /\ Cardinality(OffsetsOf(l, S, r)) \in Nat
<1>1. IsFiniteSet(0 .. r)
  BY FS_Interval
<1>2. OffsetsOf(l, S, r) \subseteq 0 .. r
  BY DEF OffsetsOf
<1>3. IsFiniteSet(OffsetsOf(l, S, r))
  BY <1>1, <1>2, FS_Subset
<1> QED
  BY <1>3, FS_CardinalityType

\* There is none before the first.
LEMMA OffsetsNone ==
    ASSUME NEW l, NEW S, NEW r \in Int, r < 0
    PROVE  Cardinality(OffsetsOf(l, S, r)) = 0
<1>1. OffsetsOf(l, S, r) = {}
  BY DEF OffsetsOf
<1> QED
  BY <1>1, FS_EmptySet

\* Going forward loses none.
LEMMA OffsetsForward ==
    ASSUME NEW l, NEW S, NEW r \in Int, NEW q \in Int, r <= q
    PROVE  Cardinality(OffsetsOf(l, S, r)) <= Cardinality(OffsetsOf(l, S, q))
<1>1. OffsetsOf(l, S, r) \subseteq OffsetsOf(l, S, q)
  BY DEF OffsetsOf
<1> QED
  BY <1>1, OffsetsType, FS_Subset

\* The next message is gained if it is one of the set.
LEMMA OffsetsNext ==
    ASSUME NEW l, NEW S, NEW o \in Nat, o < Len(l), Len(l) \in Nat
    PROVE  Cardinality(OffsetsOf(l, S, o)) =
             Cardinality(OffsetsOf(l, S, o - 1)) + (IF l[o + 1] \in S THEN 1 ELSE 0)
<1> DEFINE R == OffsetsOf(l, S, o - 1)
<1>1. IsFiniteSet(R) /\ Cardinality(R) \in Nat
  BY OffsetsType
<1>2. o \notin R
  BY DEF OffsetsOf
<1>3. CASE l[o + 1] \in S
  <2>1. OffsetsOf(l, S, o) = R \cup {o}
    BY <1>3 DEF OffsetsOf
  <2> QED
    BY <1>1, <1>2, <1>3, <2>1, FS_AddElement
<1>4. CASE l[o + 1] \notin S
  <2>1. OffsetsOf(l, S, o) = R
    BY <1>4 DEF OffsetsOf
  <2> QED
    BY <1>1, <1>4, <2>1
<1> QED
  BY <1>3, <1>4

\* One more offset is at most one more message, whether it is there or not.
LEMMA OffsetsSkip ==
    ASSUME NEW l, NEW S, NEW o \in Int
    PROVE  Cardinality(OffsetsOf(l, S, o)) <= Cardinality(OffsetsOf(l, S, o - 1)) + 1
<1> DEFINE R == OffsetsOf(l, S, o - 1)
<1>1. IsFiniteSet(R) /\ Cardinality(R) \in Nat
  BY OffsetsType
<1>2. o \notin R
  BY DEF OffsetsOf
<1>3. IsFiniteSet(R \cup {o}) /\ Cardinality(R \cup {o}) = Cardinality(R) + 1
  BY <1>1, <1>2, FS_AddElement
<1>4. OffsetsOf(l, S, o) \subseteq R \cup {o}
  BY DEF OffsetsOf
<1> QED
  BY <1>3, <1>4, FS_Subset

\* Publishing loses none, and gains none among the offsets that were in the log.
LEMMA OffsetsAppend ==
    ASSUME NEW l \in Seq(Messages), NEW m \in Messages, NEW S, NEW r \in Int
    PROVE  /\ Cardinality(OffsetsOf(l, S, r)) <=
                Cardinality(OffsetsOf(Append(l, m), S, r))
           /\ r < Len(l) => Cardinality(OffsetsOf(Append(l, m), S, r)) =
                              Cardinality(OffsetsOf(l, S, r))
<1>1. Len(l) \in Nat /\ Len(Append(l, m)) = Len(l) + 1
  OBVIOUS
<1>2. \A o \in 0 .. r : o < Len(l) => Append(l, m)[o + 1] = l[o + 1]
  OBVIOUS
<1>3. OffsetsOf(l, S, r) \subseteq OffsetsOf(Append(l, m), S, r)
  BY <1>1, <1>2 DEF OffsetsOf
<1>4. Cardinality(OffsetsOf(l, S, r)) <= Cardinality(OffsetsOf(Append(l, m), S, r))
  BY <1>3, OffsetsType, FS_Subset
<1>5. ASSUME r < Len(l)
      PROVE  OffsetsOf(Append(l, m), S, r) = OffsetsOf(l, S, r)
  BY <1>1, <1>2, <1>5 DEF OffsetsOf
<1> QED
  BY <1>4, <1>5

\* None is behind the end of the log.
LEMMA OffsetsAll ==
    ASSUME NEW l, NEW S, NEW r \in Int, Len(l) \in Nat
    PROVE  Cardinality(OffsetsOf(l, S, r)) <= Cardinality(OffsetsOf(l, S, Len(l) - 1))
<1>1. OffsetsOf(l, S, r) \subseteq OffsetsOf(l, S, Len(l) - 1)
  BY DEF OffsetsOf
<1> QED
  BY <1>1, OffsetsType, FS_Subset

\* What the provers need to be told of products.
LEMMA Products ==
    /\ \A k, i \in Nat : k * i \in Nat
    /\ \A k, i, j \in Nat : i <= j => k * i <= k * j /\ i * k <= j * k
    /\ \A k, i \in Nat : (k + 1) * i = k * i + i /\ k * (i + 1) = k * i + k
OBVIOUS

-----------------------------------------------------------------------------
(* Counters against the log                                                *)

Accounts == [Views -> Nat]

\* The counters are not over more of the log, nor if it has been read more often.
LEMMA NotOverForward ==
    ASSUME NEW l, Len(l) \in Nat, NEW w \in Accounts, NEW r \in Int, NEW q \in Int, r <= q,
           NEW n \in Nat, NEW n2 \in Nat, n <= n2, NotOver(l, w, r, n)
    PROVE  NotOver(l, w, q, n2)
<1> DEFINE all(v) == Tally(l, v, Len(l) - 1)
<1>1. \A v \in Views : Tally(l, v, r) <= Tally(l, v, q)
  BY OffsetsForward DEF Tally
<1>2. \A v \in Views : /\ Tally(l, v, r) \in Nat /\ Tally(l, v, q) \in Nat
                        /\ all(v) \in Nat
  BY OffsetsType DEF Tally
<1>3. \A v \in Views : n * all(v) <= n2 * all(v) /\ n * all(v) \in Nat /\ n2 * all(v) \in Nat
  BY <1>2, Products
<1>4. \A v \in Views : w[v] <= Tally(l, v, r) + n * all(v) /\ w[v] \in Nat
  BY DEF NotOver, Accounts
<1> HIDE DEF all
<1>5. \A v \in Views : w[v] <= Tally(l, v, q) + n2 * all(v)
  BY <1>1, <1>2, <1>3, <1>4
<1> QED
  BY <1>5 DEF NotOver, all

\* To read the log once more pays for going back anywhere.
LEMMA NotOverAgain ==
    ASSUME NEW l, Len(l) \in Nat, NEW w \in Accounts, NEW r \in Int, NEW q \in Int,
           NEW n \in Nat, NotOver(l, w, r, n)
    PROVE  NotOver(l, w, q, n + 1)
<1> DEFINE all(v) == Tally(l, v, Len(l) - 1)
<1>1. \A v \in Views : Tally(l, v, r) <= all(v)
  BY OffsetsAll DEF Tally
<1>2. \A v \in Views : /\ Tally(l, v, r) \in Nat /\ Tally(l, v, q) \in Nat
                        /\ all(v) \in Nat
  BY OffsetsType DEF Tally
<1>3. \A v \in Views : (n + 1) * all(v) = n * all(v) + all(v) /\ n * all(v) \in Nat
  BY <1>2, Products
<1>4. \A v \in Views : w[v] <= Tally(l, v, r) + n * all(v) /\ w[v] \in Nat
  BY DEF NotOver, Accounts
<1> HIDE DEF all
<1>5. \A v \in Views : w[v] <= Tally(l, v, q) + (n + 1) * all(v)
  BY <1>1, <1>2, <1>3, <1>4
<1> QED
  BY <1>5 DEF NotOver, all

LEMMA NotOverAppend ==
    ASSUME NEW l \in Seq(Messages), NEW m \in Messages, NEW w \in Accounts,
           NEW r \in Int, NEW n \in Nat, NotOver(l, w, r, n)
    PROVE  NotOver(Append(l, m), w, r, n)
<1> DEFINE l2 == Append(l, m)
           all(v) == Tally(l, v, Len(l) - 1)
           all2(v) == Tally(l2, v, Len(l2) - 1)
<1>1. Len(l) \in Nat /\ Len(l2) = Len(l) + 1
  OBVIOUS
<1>2. \A v \in Views : Tally(l, v, r) <= Tally(l2, v, r)
  BY OffsetsAppend DEF Tally
<1>3. \A v \in Views : /\ Tally(l, v, r) \in Nat /\ Tally(l2, v, r) \in Nat
                        /\ all(v) \in Nat /\ all2(v) \in Nat
  BY <1>1, OffsetsType DEF Tally
<1>4. \A v \in Views : all(v) <= all2(v)
  <2>1. \A v \in Views : all(v) <= Tally(l2, v, Len(l) - 1)
    BY <1>1, OffsetsAppend DEF Tally
  <2>2. \A v \in Views : Tally(l2, v, Len(l) - 1) <= all2(v)
    BY <1>1, OffsetsForward DEF Tally
  <2>3. \A v \in Views : Tally(l2, v, Len(l) - 1) \in Nat
    BY <1>1, OffsetsType DEF Tally
  <2> HIDE DEF all, all2, l2
  <2> QED
    BY <1>3, <2>1, <2>2, <2>3
<1>5. \A v \in Views : n * all(v) <= n * all2(v) /\ n * all(v) \in Nat /\ n * all2(v) \in Nat
  BY <1>3, <1>4, Products
<1>6. \A v \in Views : w[v] <= Tally(l, v, r) + n * all(v) /\ w[v] \in Nat
  BY DEF NotOver, Accounts
<1> HIDE DEF all, all2
<1>7. \A v \in Views : w[v] <= Tally(l2, v, r) + n * all2(v)
  BY <1>2, <1>3, <1>5, <1>6
<1> QED
  BY <1>7 DEF NotOver, all2

\* Counting the next message keeps them not over.
LEMMA NotOverCount ==
    ASSUME NEW l \in Seq(Messages), NEW w \in Accounts, NEW r \in Int, NEW o \in Nat,
           NEW n \in Nat, r < o, o < Len(l), l[o + 1] \in Known, NotOver(l, w, r, n)
    PROVE  NotOver(l, [w EXCEPT ![l[o + 1]] = @ + 1], o, n)
<1> DEFINE x == l[o + 1]
<1>1. NotOver(l, w, o - 1, n)
  BY NotOverForward
<1>2. ASSUME NEW v \in Views
      PROVE  [w EXCEPT ![x] = @ + 1][v] <= Tally(l, v, o) + n * Tally(l, v, Len(l) - 1)
  <2> DEFINE z == n * Tally(l, v, Len(l) - 1)
  <2>1. Tally(l, v, o) = Tally(l, v, o - 1) + (IF x \in {v} \cap Known THEN 1 ELSE 0)
    BY OffsetsNext DEF Tally
  <2>2. Tally(l, v, o - 1) \in Nat /\ z \in Nat
    BY OffsetsType, Products DEF Tally
  <2>3. w[v] <= Tally(l, v, o - 1) + z /\ w[v] \in Nat
    BY <1>1 DEF NotOver, Accounts
  <2>4. [w EXCEPT ![x] = @ + 1][v] = IF v = x THEN w[v] + 1 ELSE w[v]
    BY DEF Accounts
  <2> HIDE DEF z
  <2>5. [w EXCEPT ![x] = @ + 1][v] <= Tally(l, v, o) + z
    BY <2>1, <2>2, <2>3, <2>4
  <2> QED
    BY <2>5 DEF z
<1> QED
  BY <1>2 DEF NotOver

\* A bound on what is missing holds for more, for a shorter part of the log, and
\* when the log grows behind it.
LEMMA WithinMore ==
    ASSUME NEW l, NEW w \in Accounts, NEW r \in Int, NEW q \in Int, r <= q,
           NEW n \in Int, NEW n2 \in Int, n <= n2, Within(l, w, q, n)
    PROVE  Within(l, w, r, n2)
<1>1. \A v \in Views : Tally(l, v, r) <= Tally(l, v, q)
  BY OffsetsForward DEF Tally
<1>2. \A v \in Views : Tally(l, v, r) \in Nat /\ Tally(l, v, q) \in Nat
  BY OffsetsType DEF Tally
<1> QED
  BY <1>1, <1>2 DEF Within, Accounts

LEMMA WithinAppend ==
    ASSUME NEW l \in Seq(Messages), NEW m \in Messages, NEW w, NEW n,
           NEW r \in Int, r < Len(l), Within(l, w, r, n)
    PROVE  Within(Append(l, m), w, r, n)
<1>1. \A v \in Views : Tally(Append(l, m), v, r) = Tally(l, v, r)
  BY OffsetsAppend DEF Tally
<1> QED
  BY <1>1 DEF Within

\* Nothing is missing before the first message.
LEMMA WithinNone ==
    ASSUME NEW l, NEW w \in Accounts, NEW r \in Int, r < 0, NEW n \in Nat
    PROVE  Within(l, w, r, n)
<1>1. \A v \in Views : Tally(l, v, r) = 0
  BY OffsetsNone DEF Tally
<1> QED
  BY <1>1 DEF Within, Accounts

\* The next message misses nothing more if it is counted, or is no view of a known
\* content, and at most one view otherwise.
LEMMA WithinCount ==
    ASSUME NEW l \in Seq(Messages), NEW w \in Accounts, NEW o \in Nat, o < Len(l),
           NEW n \in Int, l[o + 1] \in Known, Within(l, w, o - 1, n)
    PROVE  Within(l, [w EXCEPT ![l[o + 1]] = @ + 1], o, n)
<1> DEFINE x == l[o + 1]
<1>1. ASSUME NEW v \in Views
      PROVE  Tally(l, v, o) <= [w EXCEPT ![x] = @ + 1][v] + n
  <2>1. Tally(l, v, o) = Tally(l, v, o - 1) + (IF x \in {v} \cap Known THEN 1 ELSE 0)
    BY OffsetsNext DEF Tally
  <2>2. Tally(l, v, o - 1) \in Nat
    BY OffsetsType DEF Tally
  <2>3. Tally(l, v, o - 1) <= w[v] + n /\ w[v] \in Nat
    BY DEF Within, Accounts
  <2>4. [w EXCEPT ![x] = @ + 1][v] = IF v = x THEN w[v] + 1 ELSE w[v]
    BY DEF Accounts
  <2> QED
    BY <2>1, <2>2, <2>3, <2>4
<1> QED
  BY <1>1 DEF Within

LEMMA WithinPass ==
    ASSUME NEW l \in Seq(Messages), NEW w \in Accounts, NEW o \in Nat, o < Len(l),
           NEW n \in Int, l[o + 1] \notin Known, Within(l, w, o - 1, n)
    PROVE  Within(l, w, o, n)
<1>1. \A v \in Views : Tally(l, v, o) = Tally(l, v, o - 1) + 0
  BY OffsetsNext DEF Tally
<1>2. \A v \in Views : Tally(l, v, o - 1) \in Nat
  BY OffsetsType DEF Tally
<1> QED
  BY <1>1, <1>2 DEF Within

LEMMA WithinSkip ==
    ASSUME NEW l, NEW w \in Accounts, NEW o \in Int, NEW n \in Int,
           Within(l, w, o - 1, n)
    PROVE  Within(l, w, o, n + 1)
<1>1. \A v \in Views : Tally(l, v, o) <= Tally(l, v, o - 1) + 1
  BY OffsetsSkip DEF Tally
<1>2. \A v \in Views : Tally(l, v, o) \in Nat /\ Tally(l, v, o - 1) \in Nat
  BY OffsetsType DEF Tally
<1> QED
  BY <1>1, <1>2 DEF Within, Accounts

-----------------------------------------------------------------------------
(* Allowances                                                              *)

\* The part of an allowance that is for the views of unknown content.
Owed(l, r, n) == (BatchSize - 1) * (Bad(l, r) + n * Bad(l, Len(l) - 1))

LEMMA BadType ==
    ASSUME NEW l, NEW r \in Int
    PROVE  Bad(l, r) \in Nat
BY OffsetsType DEF Bad

LEMMA OwedType ==
    ASSUME NEW l, Len(l) \in Nat, NEW r \in Int, NEW n \in Nat
    PROVE  Owed(l, r, n) \in Nat /\ Bad(l, r) + n * Bad(l, Len(l) - 1) \in Nat
<1>1. Bad(l, r) \in Nat /\ Bad(l, Len(l) - 1) \in Nat
  BY BadType
<1>2. Bad(l, r) + n * Bad(l, Len(l) - 1) \in Nat
  BY <1>1, Products
<1> QED
  BY <1>2, Products, CConstantsAssumption DEF Owed

\* More is owed for more unknown contents, and for more readings of them.
LEMMA OwedMore ==
    ASSUME NEW l, NEW l2, Len(l) \in Nat, Len(l2) \in Nat, NEW r \in Int, NEW q \in Int,
           NEW n \in Nat, NEW n2 \in Nat,
           Bad(l, r) + n * Bad(l, Len(l) - 1) <= Bad(l2, q) + n2 * Bad(l2, Len(l2) - 1)
    PROVE  Owed(l, r, n) <= Owed(l2, q, n2)
<1> DEFINE i == Bad(l, r) + n * Bad(l, Len(l) - 1)
           j == Bad(l2, q) + n2 * Bad(l2, Len(l2) - 1)
<1>1. i \in Nat /\ j \in Nat /\ BatchSize - 1 \in Nat
  <2>1. i \in Nat
    BY OwedType
  <2>2. j \in Nat
    BY OwedType
  <2> QED
    BY <2>1, <2>2, CConstantsAssumption
<1> HIDE DEF i, j
<1>2. i <= j
  BY DEF i, j
<1>3. (BatchSize - 1) * i <= (BatchSize - 1) * j
  BY <1>1, <1>2, Products
<1> QED
  BY <1>3 DEF i, j, Owed

LEMMA AllowanceType ==
    ASSUME NEW l, Len(l) \in Nat, NEW r \in Int, NEW f \in Nat, NEW s \in Int, NEW n \in Nat
    PROVE  /\ Allowance(l, r, f, s, n) \in Int
           /\ s >= 0 => Allowance(l, r, f, s, n) \in Nat
           /\ Allowance(l, r, f, s, n) = Owed(l, r, n) + BatchSize * f + s
           /\ Owed(l, r, n) \in Nat /\ BatchSize * f \in Nat
<1>1. Owed(l, r, n) \in Nat /\ BatchSize * f \in Nat
  BY OwedType, Products, CConstantsAssumption
<1>2. Allowance(l, r, f, s, n) = Owed(l, r, n) + BatchSize * f + s
  BY DEF Allowance, Owed
<1> QED
  BY <1>1, <1>2

\* A fault is worth a batch, and a stop that skips a message one.
LEMMA AllowanceFault ==
    ASSUME NEW l, Len(l) \in Nat, NEW r \in Int, NEW f \in Nat, NEW s \in Int, NEW n \in Nat
    PROVE  Allowance(l, r, f + 1, s, n) = Allowance(l, r, f, s, n) + BatchSize
<1>1. BatchSize * (f + 1) = BatchSize * f + BatchSize
  BY CConstantsAssumption
<1> QED
  BY <1>1, AllowanceType, CConstantsAssumption

LEMMA AllowanceStop ==
    ASSUME NEW l, Len(l) \in Nat, NEW r \in Int, NEW f \in Nat, NEW n \in Nat,
           NEW s \in Int, NEW s2 \in Int, s <= s2
    PROVE  /\ Allowance(l, r, f, s, n) <= Allowance(l, r, f, s2, n)
           /\ Allowance(l, r, f, s + 1, n) = Allowance(l, r, f, s, n) + 1
BY AllowanceType

\* It grows along the log, by a batch but one with every view of unknown content, and
\* with the readings of the log.
LEMMA AllowanceForward ==
    ASSUME NEW l, Len(l) \in Nat, NEW r \in Int, NEW q \in Int, r <= q,
           NEW f \in Nat, NEW s \in Int, NEW n \in Nat, NEW n2 \in Nat, n <= n2
    PROVE  Allowance(l, r, f, s, n) <= Allowance(l, q, f, s, n2)
<1> DEFINE a == Bad(l, Len(l) - 1)
<1>1. Bad(l, r) \in Nat /\ Bad(l, q) \in Nat /\ a \in Nat /\ Bad(l, r) <= Bad(l, q)
  <2>1. Bad(l, r) <= Bad(l, q)
    BY OffsetsForward DEF Bad
  <2> QED
    BY <2>1, BadType
<1>2. n * a <= n2 * a /\ n * a \in Nat /\ n2 * a \in Nat
  BY <1>1, Products
<1> HIDE DEF a
<1>3. Bad(l, r) + n * a <= Bad(l, q) + n2 * a
  BY <1>1, <1>2
<1>4. Owed(l, r, n) <= Owed(l, q, n2)
  BY <1>3, OwedMore DEF a
<1> QED
  BY <1>4, AllowanceType

\* Another reading of the log pays for any part of it.
LEMMA AllowanceAgain ==
    ASSUME NEW l, Len(l) \in Nat, NEW r \in Int, NEW q \in Int,
           NEW f \in Nat, NEW s \in Int, NEW n \in Nat
    PROVE  Allowance(l, r, f, s, n) <= Allowance(l, q, f, s, n + 1)
<1> DEFINE a == Bad(l, Len(l) - 1)
<1>1. Bad(l, r) \in Nat /\ Bad(l, q) \in Nat /\ a \in Nat /\ Bad(l, r) <= a
  <2>1. Bad(l, r) <= a
    BY OffsetsAll DEF Bad
  <2> QED
    BY <2>1, BadType
<1>2. (n + 1) * a = n * a + a /\ n * a \in Nat
  BY <1>1, Products
<1> HIDE DEF a
<1>3. Bad(l, r) + n * a <= Bad(l, q) + (n + 1) * a
  BY <1>1, <1>2
<1>4. Owed(l, r, n) <= Owed(l, q, n + 1)
  BY <1>3, OwedMore DEF a
<1> QED
  BY <1>4, AllowanceType

LEMMA AllowanceNext ==
    ASSUME NEW l \in Seq(Messages), NEW o \in Nat, o < Len(l), NEW f \in Nat, NEW s \in Int,
           NEW n \in Nat
    PROVE  Allowance(l, o, f, s, n) =
             Allowance(l, o - 1, f, s, n)
               + (IF l[o + 1] \in Views \ Known THEN BatchSize - 1 ELSE 0)
<1> DEFINE a == Bad(l, o - 1) + n * Bad(l, Len(l) - 1)
           b == Bad(l, o) + n * Bad(l, Len(l) - 1)
           k == BatchSize - 1
           bad == l[o + 1] \in Views \ Known
<1>1. a \in Nat /\ k \in Nat /\ Len(l) \in Nat
  <2>1. Len(l) \in Nat /\ o - 1 \in Int
    OBVIOUS
  <2>2. a \in Nat
    BY <2>1, OwedType
  <2> QED
    BY <2>1, <2>2, CConstantsAssumption
<1>2. b = a + (IF bad THEN 1 ELSE 0)
  <2>1. Bad(l, o) = Bad(l, o - 1) + (IF bad THEN 1 ELSE 0)
    BY OffsetsNext DEF Bad
  <2>2. Bad(l, o - 1) \in Nat /\ n * Bad(l, Len(l) - 1) \in Nat
    BY BadType, Products
  <2> QED
    BY <2>1, <2>2
<1>3. Owed(l, o - 1, n) = k * a /\ Owed(l, o, n) = k * b
  BY DEF Owed
<1> HIDE DEF a, b, k, bad
<1>4. k * b = k * a + (IF bad THEN k ELSE 0) /\ k * a \in Nat
  <2>1. k * (a + 1) = k * a + k /\ k * a \in Nat
    BY <1>1, Products
  <2>2. CASE bad
    BY <1>2, <2>1, <2>2
  <2>3. CASE ~bad
    <3>1. b = a
      BY <1>1, <1>2, <2>3
    <3> QED
      BY <2>1, <2>3, <3>1
  <2> QED
    BY <2>2, <2>3
<1>5. Owed(l, o, n) = Owed(l, o - 1, n) + (IF bad THEN BatchSize - 1 ELSE 0)
  BY <1>3, <1>4 DEF k
<1>6. /\ Allowance(l, o, f, s, n) = Owed(l, o, n) + BatchSize * f + s
      /\ Allowance(l, o - 1, f, s, n) = Owed(l, o - 1, n) + BatchSize * f + s
      /\ Owed(l, o - 1, n) \in Nat /\ BatchSize * f \in Nat
  <2>1. o - 1 \in Int /\ o \in Int /\ Len(l) \in Nat
    BY <1>1
  <2>2. /\ Allowance(l, o - 1, f, s, n) = Owed(l, o - 1, n) + BatchSize * f + s
        /\ Allowance(l, o, f, s, n) = Owed(l, o, n) + BatchSize * f + s
    BY Zenon DEF Allowance, Owed
  <2>3. Owed(l, o - 1, n) \in Nat /\ BatchSize * f \in Nat
    BY <2>1, OwedType, Products, CConstantsAssumption
  <2> QED
    BY <2>2, <2>3
<1> QED
  BY <1>5, <1>6, CConstantsAssumption DEF bad

LEMMA AllowanceAppend ==
    ASSUME NEW l \in Seq(Messages), NEW m \in Messages, NEW r \in Int,
           NEW f \in Nat, NEW s \in Int, NEW n \in Nat
    PROVE  Allowance(l, r, f, s, n) <= Allowance(Append(l, m), r, f, s, n)
<1> DEFINE l2 == Append(l, m)
           a == Bad(l, Len(l) - 1)
           a2 == Bad(l2, Len(l2) - 1)
<1>1. Len(l) \in Nat /\ Len(l2) = Len(l) + 1 /\ Len(l2) \in Nat
  OBVIOUS
<1>2. /\ Bad(l, r) \in Nat /\ Bad(l2, r) \in Nat /\ a \in Nat /\ a2 \in Nat
      /\ Bad(l2, Len(l) - 1) \in Nat
  BY <1>1, BadType
<1>3. Bad(l, r) <= Bad(l2, r) /\ a <= Bad(l2, Len(l) - 1) /\ Bad(l2, Len(l) - 1) <= a2
  BY <1>1, OffsetsAppend, OffsetsForward DEF Bad
<1> HIDE DEF l2, a, a2
<1>4. n * a <= n * a2 /\ n * a \in Nat /\ n * a2 \in Nat
  BY <1>2, <1>3, Products
<1>5. Bad(l, r) + n * a <= Bad(l2, r) + n * a2
  BY <1>2, <1>3, <1>4
<1>6. Owed(l, r, n) <= Owed(l2, r, n)
  BY <1>1, <1>5, OwedMore DEF a, a2
<1>7. Allowance(l, r, f, s, n) <= Allowance(l2, r, f, s, n)
  BY <1>1, <1>6, AllowanceType
<1> QED
  BY <1>7 DEF l2

\* Counters that are short of others by at most u lack at most u more.
LEMMA WithinShift ==
    ASSUME NEW l, NEW w \in Accounts, NEW w2 \in Accounts, NEW r \in Int,
           NEW n \in Int, NEW u \in Nat, \A v \in Views : w[v] <= w2[v] + u,
           Within(l, w, r, n)
    PROVE  Within(l, w2, r, n + u)
<1>1. \A v \in Views : Tally(l, v, r) \in Nat
  BY OffsetsType DEF Tally
<1> QED
  BY <1>1 DEF Within, Accounts

\* What failures explain, they explain when the log has grown and more has failed.
LEMMA WithinKept ==
    ASSUME NEW l \in Seq(Messages), NEW l2 \in Seq(Messages),
           l2 = l \/ \E m \in Messages : l2 = Append(l, m),
           NEW w \in Accounts, NEW r \in Int, r < Len(l),
           NEW f \in Nat, NEW f2 \in Nat, f2 = f \/ f2 = f + 1,
           NEW s \in Int, NEW s2 \in Int, s <= s2,
           NEW n \in Nat, NEW n2 \in Nat, n <= n2,
           NEW d \in Int, Within(l, w, r, Allowance(l, r, f, s, n) + d)
    PROVE  Within(l2, w, r, Allowance(l2, r, f2, s2, n2) + d)
<1> DEFINE a == Allowance(l, r, f, s, n)
           a2 == Allowance(l, r, f2, s2, n2)
           a3 == Allowance(l2, r, f2, s2, n2)
<1>0. Len(l) \in Nat /\ Len(l2) \in Nat
  OBVIOUS
<1>1. a \in Int /\ a2 \in Int /\ a3 \in Int
  BY <1>0, AllowanceType
<1>2. a <= a2
  <2>1. a <= Allowance(l, r, f, s2, n) /\ Allowance(l, r, f, s2, n) \in Int
    BY <1>0, AllowanceStop, AllowanceType
  <2>2. /\ Allowance(l, r, f, s2, n) <= Allowance(l, r, f, s2, n2)
        /\ Allowance(l, r, f, s2, n2) \in Int
    <3>1. r <= r
      OBVIOUS
    <3> QED
      BY <1>0, <3>1, AllowanceForward, AllowanceType
  <2>3. Allowance(l, r, f + 1, s2, n2) = Allowance(l, r, f, s2, n2) + BatchSize
    BY <1>0, AllowanceFault
  <2> HIDE DEF a
  <2>4. CASE f2 = f
    BY <1>1, <2>1, <2>2, <2>4
  <2>5. CASE f2 = f + 1
    BY <1>1, <2>1, <2>2, <2>3, <2>5, CConstantsAssumption
  <2> QED
    BY <2>4, <2>5
<1>3. Within(l, w, r, a2 + d)
  <2> HIDE DEF a, a2
  <2>1. a + d \in Int /\ a2 + d \in Int /\ a + d <= a2 + d
    BY <1>1, <1>2
  <2>2. Within(l, w, r, a + d)
    BY DEF a
  <2> QED
    BY <2>1, <2>2, WithinMore
<1>4. CASE l2 = l
  BY <1>3, <1>4
<1>5. ASSUME NEW m \in Messages, l2 = Append(l, m)
      PROVE  Within(l2, w, r, a3 + d)
  <2>1. a2 <= a3
    BY <1>5, AllowanceAppend
  <2> HIDE DEF a2, a3
  <2>2. Within(l2, w, r, a2 + d)
    BY <1>3, <1>5, WithinAppend
  <2>3. a2 + d \in Int /\ a3 + d \in Int /\ a2 + d <= a3 + d
    BY <1>1, <2>1
  <2> QED
    BY <2>2, <2>3, WithinMore
<1> QED
  BY <1>4, <1>5

LEMMA WithinStable ==
    ASSUME NEW l \in Seq(Messages), NEW l2 \in Seq(Messages),
           l2 = l \/ \E m \in Messages : l2 = Append(l, m),
           NEW w \in Accounts, NEW r \in Int, r < Len(l),
           NEW f \in Nat, NEW f2 \in Nat, f2 = f \/ f2 = f + 1,
           NEW s \in Int, NEW s2 \in Int, s <= s2,
           NEW n \in Nat, NEW n2 \in Nat, n <= n2,
           Within(l, w, r, Allowance(l, r, f, s, n))
    PROVE  Within(l2, w, r, Allowance(l2, r, f2, s2, n2))
<1>1. Allowance(l, r, f, s, n) \in Int /\ Allowance(l2, r, f2, s2, n2) \in Int
  BY AllowanceType
<1>2. /\ Allowance(l, r, f, s, n) + 0 = Allowance(l, r, f, s, n)
      /\ Allowance(l2, r, f2, s2, n2) + 0 = Allowance(l2, r, f2, s2, n2)
  BY <1>1
<1>3. Within(l2, w, r, Allowance(l2, r, f2, s2, n2) + 0)
  <2>1. Within(l, w, r, Allowance(l, r, f, s, n) + 0) /\ 0 \in Int
    BY <1>2
  <2> HIDE <1>2
  <2> QED
    BY <2>1, WithinKept, Zenon
<1> QED
  BY <1>2, <1>3

-----------------------------------------------------------------------------
(* What every step has in common                                           *)

Rows == [ref : Nat \cup {NoRow}, counts : Accounts]

\* The fetch goes on from the position, or from where retention has got to.
LEMMA FetchType ==
    ASSUME TypeOK, BatchInv
    PROVE  /\ Fetch \in Nat /\ pos <= Fetch /\ Fetch <= Len(log)
           /\ logStart = 0 => Fetch = pos
BY DEF TypeOK, BatchInv, Fetch, Resolve

LEMMA Typed ==
    ASSUME TypeOK
    PROVE  /\ log \in Seq(Messages) /\ Len(log) \in Nat /\ logStart \in Nat
           /\ db \in Rows /\ backup \in Rows /\ work \in Accounts
           /\ db.ref \in Int /\ backup.ref \in Int
           /\ db.counts \in Accounts /\ backup.counts \in Accounts
           /\ pos \in Nat /\ lastoffset \in Nat /\ uncommitted_count \in Nat
           /\ stops \in Nat /\ errors \in Nat /\ faults \in Nat
           /\ Skipped \in Nat /\ Excused \in Int /\ Excused <= Skipped
<1>1. Skipped \in Nat /\ Excused \in Int /\ Excused <= Skipped
  BY DEF TypeOK, Skipped, Excused
<1> QED
  BY <1>1, CConstantsAssumption DEF TypeOK, Rows, Accounts, NoRow

LEMMA SlackType ==
    ASSUME TypeOK, BatchInv
    PROVE  Slack \in Nat /\ Slack <= errors /\ (~Rewound => Slack = errors)
BY Typed DEF Slack, BatchInv

\* A step that takes nothing back of what pays for failures.
OnlyMore ==
    /\ faults' = faults \/ faults' = faults + 1
    /\ errors <= errors'
    /\ Skipped <= Skipped'
    /\ Ahead => Ahead' /\ Excused <= Excused'

LEMMA SameCosts ==
    ASSUME TypeOK, UNCHANGED <<proc_running, stops, errors, faults>>
    PROVE  OnlyMore /\ Skipped' = Skipped /\ Excused' = Excused /\ (Ahead' <=> Ahead)
<1>1. Ahead' <=> Ahead
  BY DEF Ahead
<1>2. Skipped' = Skipped /\ Excused' = Excused
  BY <1>1 DEF Skipped, Excused
<1> QED
  BY <1>1, <1>2, Typed DEF OnlyMore

LEMMA MoreStops ==
    ASSUME TypeOK, UNCHANGED errors, faults' = faults, stops' = stops + 1, ~proc_running'
    PROVE  OnlyMore /\ (Ahead' <=> Ahead) /\ Excused <= Excused'
<1>1. Ahead' <=> Ahead
  BY DEF Ahead
<1>2. Skipped <= Skipped' /\ Excused <= Excused'
  BY <1>1, Typed DEF Skipped, Excused
<1> QED
  BY <1>1, <1>2, Typed DEF OnlyMore

LEMMA MoreErrors ==
    ASSUME TypeOK, UNCHANGED <<proc_running, stops, faults>>, errors' = errors + 1
    PROVE  OnlyMore /\ Ahead' /\ (proc_running => Excused <= Excused')
<1>1. Ahead'
  BY Typed DEF Ahead
<1>2. Skipped <= Skipped' /\ (Ahead => Excused <= Excused')
      /\ (proc_running => Excused <= Excused')
  BY <1>1, Typed DEF Skipped, Excused
<1> QED
  BY <1>1, <1>2, Typed DEF OnlyMore

\* A row keeps its invariant while the log grows and things fail.
LEMMA RowStep ==
    ASSUME TypeOK, TypeOK', NEW row \in Rows,
           log' = log \/ \E m \in Messages : log' = Append(log, m), OnlyMore
    PROVE  /\ RowInv(row) =>
                row.ref <= Len(log') /\ NotOver(log', row.counts, row.ref, errors')
           /\ RowLoss(row) /\ RowInv(row) =>
                \/ /\ row.ref < Len(log')
                   /\ Within(log', row.counts, row.ref,
                             Allowance(log', row.ref, faults', Skipped', errors'))
                \/ /\ Ahead'
                   /\ Within(log', row.counts, row.ref - 1,
                             Allowance(log', row.ref - 1, faults', Excused', errors'))
<1>1. /\ log \in Seq(Messages) /\ log' \in Seq(Messages)
      /\ row.ref \in Int /\ row.counts \in Accounts
      /\ faults \in Nat /\ faults' \in Nat /\ errors \in Nat /\ errors' \in Nat
      /\ errors <= errors' /\ (faults' = faults \/ faults' = faults + 1)
  BY DEF TypeOK, Rows, NoRow, OnlyMore
<1>2. /\ Skipped \in Int /\ Skipped' \in Int /\ Excused \in Int /\ Excused' \in Int
      /\ Skipped <= Skipped' /\ (Ahead => Ahead' /\ Excused <= Excused')
  <2>1. Skipped \in Int /\ Excused \in Int
    BY Typed
  <2>2. Skipped' \in Int /\ Excused' \in Int
    BY DEF TypeOK, Skipped, Excused
  <2> QED
    BY <2>1, <2>2 DEF OnlyMore
<1>3. Len(log) <= Len(log') /\ Len(log) \in Nat /\ Len(log') \in Nat
  BY <1>1
<1>4. ASSUME RowInv(row)
      PROVE  row.ref <= Len(log') /\ NotOver(log', row.counts, row.ref, errors')
  <2>1. NotOver(log, row.counts, row.ref, errors) /\ row.ref <= Len(log)
    BY <1>4 DEF RowInv
  <2>2. NotOver(log, row.counts, row.ref, errors')
    <3>1. row.ref <= row.ref
      BY <1>1
    <3> QED
      BY <1>1, <1>3, <2>1, <3>1, NotOverForward
  <2>3. CASE log' = log
    BY <2>1, <2>2, <2>3
  <2>4. ASSUME NEW m \in Messages, log' = Append(log, m)
        PROVE  NotOver(log', row.counts, row.ref, errors')
    BY <1>1, <2>2, <2>4, NotOverAppend
  <2> QED
    BY <1>1, <1>3, <2>1, <2>3, <2>4
<1>5. ASSUME row.ref < Len(log),
             Within(log, row.counts, row.ref,
                    Allowance(log, row.ref, faults, Skipped, errors))
      PROVE  Within(log', row.counts, row.ref,
                    Allowance(log', row.ref, faults', Skipped', errors'))
  BY <1>1, <1>2, <1>5, WithinStable
<1>6. ASSUME RowInv(row), Ahead,
             Within(log, row.counts, row.ref - 1,
                    Allowance(log, row.ref - 1, faults, Excused, errors))
      PROVE  Within(log', row.counts, row.ref - 1,
                    Allowance(log', row.ref - 1, faults', Excused', errors'))
  <2> DEFINE r == row.ref - 1
  <2>1. r \in Int /\ r < Len(log) /\ Excused <= Excused'
    BY <1>1, <1>2, <1>3, <1>6 DEF RowInv
  <2>2. Within(log, row.counts, r, Allowance(log, r, faults, Excused, errors))
    BY <1>6
  <2> HIDE DEF r
  <2>3. Within(log', row.counts, r, Allowance(log', r, faults', Excused', errors'))
    BY <1>1, <1>2, <2>1, <2>2, WithinStable
  <2> QED
    BY <2>3 DEF r
<1> QED
  BY <1>1, <1>2, <1>3, <1>4, <1>5, <1>6 DEF RowLoss

\* So both rows keep theirs in a step that leaves them alone.
LEMMA RowsStep ==
    ASSUME IInv, TypeOK', UNCHANGED <<db, backup>>, logStart <= logStart',
           log' = log \/ \E m \in Messages : log' = Append(log, m), OnlyMore
    PROVE  /\ RowInv(db)' /\ RowInv(backup)'
           /\ logStart' = 0 => RowLoss(db)' /\ RowLoss(backup)'
<1>1. TypeOK /\ db \in Rows /\ backup \in Rows /\ RowInv(db) /\ RowInv(backup)
  BY Typed DEF IInv
<1>2. RowInv(db)' /\ RowInv(backup)'
  BY <1>1, RowStep DEF RowInv
<1>3. ASSUME logStart' = 0
      PROVE  RowLoss(db)' /\ RowLoss(backup)'
  <2>1. logStart = 0
    BY <1>1, <1>3 DEF TypeOK
  <2>2. RowLoss(db) /\ RowLoss(backup)
    BY <2>1 DEF IInv, LossInv
  <2> QED
    BY <1>1, <2>2, RowStep DEF RowLoss
<1> QED
  BY <1>2, <1>3

\* A process that reads keeps its invariants in a step that leaves its position and its
\* batch alone.
LEMMA ReadInvKept ==
    ASSUME IInv, TypeOK', BatchInv', pc \in Reading,
           log' = log \/ \E m \in Messages : log' = Append(log, m),
           UNCHANGED <<db, work, txn, uncommitted_count, pos>>,
           Slack <= Slack', Ahead => Ahead', ~Ahead' => lastoffset' = lastoffset
    PROVE  ReadInv'
<1>1. /\ log \in Seq(Messages) /\ Len(log) \in Nat /\ pos - 1 \in Int /\ pos - 1 <= pos - 1
      /\ db.counts \in Accounts /\ work \in Accounts /\ Slack \in Nat /\ ReadInv
  BY Typed, SlackType DEF IInv
<1>2. Slack' \in Nat
  BY DEF TypeOK, BatchInv, Slack
<1>3. ASSUME NEW w \in Accounts, NotOver(log, w, pos - 1, Slack)
      PROVE  NotOver(log', w, pos - 1, Slack')
  <2>1. NotOver(log, w, pos - 1, Slack')
    BY <1>1, <1>2, <1>3, NotOverForward
  <2>2. CASE log' = log
    BY <2>1, <2>2
  <2>3. ASSUME NEW m \in Messages, log' = Append(log, m)
        PROVE  NotOver(log', w, pos - 1, Slack')
    BY <1>1, <1>2, <2>1, <2>3, NotOverAppend
  <2> QED
    BY <2>2, <2>3
<1>4. NotOver(log', db.counts, pos - 1, Slack')
  BY <1>1, <1>3 DEF ReadInv
<1>5. txn = "open" => NotOver(log', work, pos - 1, Slack')
  BY <1>1, <1>3 DEF ReadInv
<1> QED
  BY <1>1, <1>4, <1>5 DEF ReadInv

LEMMA ReadLossKept ==
    ASSUME IInv, TypeOK', BatchInv', logStart = 0, pc \in Reading,
           log' = log \/ \E m \in Messages : log' = Append(log, m),
           UNCHANGED <<db, work, txn, uncommitted_count, pos>>,
           OnlyMore, Excused <= Excused', Slack <= Slack',
           proc_running' => proc_running, pc' = "armed" => pc = "armed",
           uncommitted_count > 0 => lastoffset' < pos \/ (Ahead' /\ lastoffset' = pos)
    PROVE  ReadLoss'
<1>1. /\ log \in Seq(Messages) /\ log' \in Seq(Messages)
      /\ pos - 1 \in Int /\ pos - 1 < Len(log)
      /\ db.counts \in Accounts /\ work \in Accounts
      /\ faults \in Nat /\ faults' \in Nat /\ (faults' = faults \/ faults' = faults + 1)
      /\ Slack \in Nat /\ uncommitted_count - BatchSize \in Int
  <2>1. log' \in Seq(Messages) /\ faults' \in Nat
    BY DEF TypeOK
  <2>2. Slack \in Nat
    BY SlackType DEF IInv
  <2>3. pos - 1 \in Int /\ pos - 1 < Len(log) /\ uncommitted_count - BatchSize \in Int
    BY Typed, CConstantsAssumption DEF IInv, BatchInv
  <2> QED
    BY <2>1, <2>2, <2>3, Typed DEF IInv, OnlyMore
<1>2. /\ Slack' \in Nat /\ Skipped \in Int /\ Skipped' \in Int /\ Skipped <= Skipped'
      /\ Excused \in Int /\ Excused' \in Int
  <2>1. Slack' \in Nat
    BY DEF TypeOK, BatchInv, Slack
  <2>2. Skipped' \in Int /\ Excused' \in Int
    BY DEF TypeOK, Skipped, Excused
  <2> QED
    BY <2>1, <2>2, Typed DEF OnlyMore, IInv
<1>3. ReadLoss
  BY DEF IInv, LossInv
<1>4. ASSUME txn = "none", proc_running \/ pc = "armed"
      PROVE  Within(log', db.counts, pos - 1,
                    Allowance(log', pos - 1, faults', Skipped', Slack'))
  <2>1. Within(log, db.counts, pos - 1, Allowance(log, pos - 1, faults, Skipped, Slack))
    BY <1>3, <1>4 DEF ReadLoss
  <2> QED
    BY <1>1, <1>2, <2>1, WithinStable
<1>5. ASSUME txn = "open"
      PROVE  Within(log', work, pos - 1,
                    Allowance(log', pos - 1, faults', Excused', Slack'))
  <2>1. Within(log, work, pos - 1, Allowance(log, pos - 1, faults, Excused, Slack))
    BY <1>3, <1>5 DEF ReadLoss
  <2> QED
    BY <1>1, <1>2, <2>1, WithinStable
<1>6. ASSUME txn = "aborted", proc_running
      PROVE  Within(log', db.counts, pos - 1,
                    Allowance(log', pos - 1, faults', Skipped', Slack')
                      + (uncommitted_count - BatchSize))
  <2> DEFINE d == uncommitted_count - BatchSize
             r == pos - 1
  <2>1. Within(log, db.counts, r, Allowance(log, r, faults, Skipped, Slack) + d)
    BY <1>3, <1>6 DEF ReadLoss
  <2>2. d \in Int /\ r \in Int /\ r < Len(log) /\ Slack <= Slack'
    BY <1>1
  <2> HIDE DEF d, r
  <2>3. Within(log', db.counts, r, Allowance(log', r, faults', Skipped', Slack') + d)
    BY <1>1, <1>2, <2>1, <2>2, WithinKept
  <2> QED
    BY <2>3 DEF d, r
<1> QED
  BY <1>4, <1>5, <1>6 DEF ReadLoss

\* The statement of a view runs in a transaction, counts in an open one if the content
\* is known, and aborts it otherwise.
LEMMA UpdateResult ==
    ASSUME TypeOK, BatchInv, NEW v \in Views
    PROVE  LET t == InTransaction
               u == AfterUpdate(t, v)
               counted == t.state = "open" /\ v \in Known
           IN  /\ t.state \in {"open", "aborted"} /\ t.counts \in Accounts
               /\ u.state = IF counted THEN "open" ELSE "aborted"
               /\ u.counts = IF counted THEN [t.counts EXCEPT ![v] = @ + 1] ELSE t.counts
               /\ u.counts \in Accounts
               /\ [t EXCEPT !.state = "aborted"].state = "aborted"
               /\ [t EXCEPT !.state = "aborted"].counts = t.counts
<1> DEFINE t == InTransaction
<1>1. /\ t \in [state : {"open", "aborted"}, counts : Accounts]
      /\ t.state \in {"open", "aborted"} /\ t.counts \in Accounts
  BY DEF TypeOK, BatchInv, InTransaction, Accounts
<1> HIDE DEF t
<1>2. /\ [t EXCEPT !.state = "aborted"].state = "aborted"
      /\ [t EXCEPT !.state = "aborted"].counts = t.counts
  BY <1>1
<1>3. CASE t.state = "open" /\ v \in Known
  <2>1. AfterUpdate(t, v) = [t EXCEPT !.counts[v] = @ + 1]
    BY <1>3 DEF AfterUpdate
  <2>2. /\ AfterUpdate(t, v).state = "open"
        /\ AfterUpdate(t, v).counts = [t.counts EXCEPT ![v] = @ + 1]
    BY <1>1, <1>3, <2>1
  <2>3. [t.counts EXCEPT ![v] = @ + 1] \in Accounts
    BY <1>1 DEF Accounts
  <2> QED
    BY <1>1, <1>2, <1>3, <2>2, <2>3 DEF t
<1>4. CASE ~(t.state = "open" /\ v \in Known)
  <2>1. AfterUpdate(t, v) = [t EXCEPT !.state = "aborted"]
    BY <1>4 DEF AfterUpdate
  <2> QED
    BY <1>1, <1>2, <1>4, <2>1 DEF t
<1> QED
  BY <1>3, <1>4

\* What the batch gains has its type.
LEMMA JoinType ==
    ASSUME TypeOK, BatchInv, TakeMessage, NEW t, JoinBatch(t),
           t.state \in {"open", "aborted"}, t.counts \in Accounts,
           {stops', faults'} \subseteq Nat, proc_running' \in BOOLEAN
    PROVE  TypeOK'
<1>1. Fetch \in Nat
  BY FetchType
<1> QED
  BY <1>1, CConstantsAssumption
  DEF TypeOK, BatchInv, TakeMessage, JoinBatch, Accounts, kafkaVars, dbVars

\* Committed is a row.
LEMMA CommittedType ==
    ASSUME TypeOK
    PROVE  Committed \in Rows
BY DEF TypeOK, Committed, Rows, Accounts

LEMMA DoneType ==
    ASSUME TypeOK, BatchDone, db' \in Rows, {stops', faults'} \subseteq Nat,
           proc_running' \in BOOLEAN
    PROVE  TypeOK'
BY CConstantsAssumption DEF TypeOK, BatchDone, Rows, Accounts, ZeroCounts, kafkaVars

\* Every step keeps the types.
LEMMA TypeStep ==
    ASSUME IInv, [Next]_vars
    PROVE  TypeOK'
<1> USE DEF kafkaVars, dbVars, batchVars, boundVars, processVars
<1>1. /\ TypeOK /\ BatchInv
      /\ stops \in Nat /\ faults \in Nat /\ stops + 1 \in Nat /\ faults + 1 \in Nat
      /\ errors + 1 \in Nat
      /\ FALSE \in BOOLEAN /\ proc_running \in BOOLEAN /\ db \in Rows
  BY Typed DEF IInv, TypeOK
<1>2. ASSUME NEW m \in Messages, Publish(m) PROVE TypeOK'
  BY <1>1, <1>2 DEF TypeOK, Publish
<1>3. CASE Trim
  BY <1>1, <1>3 DEF TypeOK, Trim
<1>4. CASE Backup
  BY <1>1, <1>4 DEF TypeOK, Backup
<1>5. CASE Restore
  BY <1>1, <1>5 DEF TypeOK, Restore
<1>6. CASE Launch
  BY <1>1, <1>6 DEF TypeOK, Launch, NoRow
<1>7. ASSUME ProcessExit, UNCHANGED <<kafkaVars, dbVars, errors, faults, restores>>,
             stops' \in Nat
      PROVE  TypeOK'
  <2>1. proc_running' \in BOOLEAN /\ ZeroCounts \in [Views -> Nat]
    BY <1>7 DEF ProcessExit, ZeroCounts
  <2>2. 0 \in 0 .. BatchSize
    BY CConstantsAssumption
  <2> QED
    BY <1>1, <1>7, <2>1, <2>2 DEF TypeOK, ProcessExit
<1>8. CASE Kill
  BY <1>1, <1>7, <1>8 DEF TypeOK, Kill
<1>9. CASE Interrupt
  <2>1. proc_running' = FALSE /\ stops' = stops + 1
    BY <1>9 DEF Interrupt
  <2> QED
    BY <1>1, <1>9, <2>1 DEF TypeOK, Interrupt
<1>10. CASE Exit
  BY <1>1, <1>7, <1>10 DEF TypeOK, Exit
<1>11. CASE SearchNothing
  BY <1>1, <1>11 DEF TypeOK, SearchNothing
<1>12. CASE SearchStep
  BY <1>1, <1>12, FetchType DEF TypeOK, SearchStep
<1>13. CASE SearchFails
  BY <1>1, <1>7, <1>13 DEF TypeOK, SearchFails
<1>14. CASE EnterLoop
  BY <1>1, <1>14 DEF TypeOK, EnterLoop
<1>15. CASE ReadView
  <2> DEFINE t == AfterUpdate(InTransaction, log[Fetch + 1])
  <2>1. t.state \in {"open", "aborted"} /\ t.counts \in Accounts
    BY <1>1, <1>15, UpdateResult DEF ReadView
  <2>2. TakeMessage /\ JoinBatch(t) /\ UNCHANGED <<proc_running, stops, faults>>
    BY <1>15 DEF ReadView
  <2> HIDE DEF t
  <2> QED
    BY <1>1, <2>1, <2>2, JoinType DEF TypeOK
<1>16. CASE ReadViewFault
  <2> DEFINE t == [InTransaction EXCEPT !.state = "aborted"]
  <2>1. t.state \in {"open", "aborted"} /\ t.counts \in Accounts
    BY <1>1, <1>16, UpdateResult DEF ReadViewFault
  <2>2. TakeMessage /\ JoinBatch(t) /\ UNCHANGED <<proc_running, stops>>
        /\ faults' = faults + 1
    BY <1>16 DEF ReadViewFault
  <2> HIDE DEF t
  <2> QED
    BY <1>1, <2>1, <2>2, JoinType DEF TypeOK
<1>17. CASE BeginFails
  <2> DEFINE t == [state |-> "aborted", counts |-> work]
  <2>1. t.state \in {"open", "aborted"} /\ t.counts \in Accounts
    BY <1>1 DEF TypeOK, Accounts
  <2>2. TakeMessage /\ JoinBatch(t) /\ stops' = stops + 1 /\ faults' = faults
        /\ proc_running' = FALSE
    BY <1>17 DEF BeginFails
  <2> HIDE DEF t
  <2> QED
    BY <1>1, <2>1, <2>2, JoinType DEF TypeOK
<1>18. CASE ReadOther
  BY <1>1, <1>18, FetchType DEF TypeOK, ReadOther, TakeMessage
<1>19. CASE ReadEnd
  BY <1>1, <1>19 DEF TypeOK, ReadEnd
<1>20. CASE ReadNothing
  BY <1>1, <1>20 DEF TypeOK, ReadNothing
<1>21. ASSUME NEW late \in BOOLEAN, NotDue(late) PROVE TypeOK'
  BY <1>1, <1>21 DEF TypeOK, NotDue
<1>22. ASSUME NEW late \in BOOLEAN, CommitBatch(late) PROVE TypeOK'
  BY <1>1, <1>22, CommittedType, DoneType DEF TypeOK, CommitBatch
<1>23. ASSUME NEW late \in BOOLEAN, SetRefFault(late) PROVE TypeOK'
  <2>1. {stops', faults'} \subseteq Nat /\ db' \in Rows /\ proc_running' \in BOOLEAN
    BY <1>1, <1>23 DEF SetRefFault
  <2> QED
    BY <1>1, <1>23, <2>1, DoneType DEF SetRefFault
<1>24. ASSUME NEW late \in BOOLEAN, CommitFails(late) PROVE TypeOK'
  <2>1. {stops', faults'} \subseteq Nat /\ db' \in Rows
    BY <1>1, <1>24, CommittedType DEF CommitFails
  <2>2. proc_running' \in BOOLEAN
    BY <1>24 DEF CommitFails
  <2> QED
    BY <1>1, <1>24, <2>1, <2>2, DoneType DEF CommitFails
<1>25. CASE UNCHANGED vars
  BY <1>1, <1>25 DEF TypeOK, vars
<1>26. CASE SearchError
  BY <1>1, <1>26 DEF TypeOK, SearchError
<1>27. ASSUME NEW o \in ErrorOffsets, ReadError(o) PROVE TypeOK'
  <2>1. o \in Nat
    BY DEF ErrorOffsets
  <2> QED
    BY <1>1, <1>27, <2>1 DEF TypeOK, ReadError
<1> QED
  BY <1>2, <1>3, <1>4, <1>5, <1>6, <1>8, <1>9, <1>10, <1>11, <1>12, <1>13, <1>14,
     <1>15, <1>16, <1>17, <1>18, <1>19, <1>20, <1>21, <1>22, <1>23, <1>24, <1>25, <1>26,
     <1>27
  DEF Next, Step

-----------------------------------------------------------------------------
(* Kafka, Postgres and the ends of the process                             *)

\* A process that ends leaves the rows as they are; a stop pays for the reference of
\* one that was running.
LEMMA ExitStep ==
    ASSUME IInv, TypeOK', ProcessExit, UNCHANGED <<kafkaVars, dbVars, errors, faults>>,
           stops' = stops + 1 \/ (stops' = stops /\ ~proc_running)
    PROVE  IInv'
<1>1. OnlyMore
  <2>1. ~proc_running' /\ (~proc_running => proc_running' = proc_running)
    BY DEF IInv, TypeOK, ProcessExit
  <2>2. CASE stops' = stops + 1
    BY <2>1, <2>2, MoreStops DEF IInv
  <2>3. CASE stops' = stops /\ ~proc_running
    BY <2>1, <2>3, SameCosts DEF IInv
  <2> QED
    BY <2>2, <2>3
<1>2. /\ RowInv(db)' /\ RowInv(backup)'
      /\ logStart' = 0 => RowLoss(db)' /\ RowLoss(backup)'
  BY <1>1, RowsStep DEF IInv, TypeOK, kafkaVars, dbVars
<1>3. BatchInv'
  BY Typed DEF IInv, BatchInv, Rewound, ProcessExit, kafkaVars
<1>4. SearchInv' /\ ReadInv' /\ ReadLoss'
  BY DEF ProcessExit, SearchInv, ReadInv, ReadLoss, Reading
<1> QED
  BY <1>2, <1>3, <1>4 DEF IInv, LossInv

LEMMA PublishStep ==
    ASSUME IInv, TypeOK', NEW m \in Messages, Publish(m)
    PROVE  IInv'
<1> USE DEF kafkaVars, dbVars, batchVars, boundVars, processVars
<1>1. /\ log' = Append(log, m) /\ Len(log') = Len(log) + 1
      /\ UNCHANGED <<logStart, dbVars, processVars, boundVars>>
  BY Typed DEF Publish, IInv
<1>2. OnlyMore /\ Excused' = Excused /\ (Ahead' <=> Ahead)
  BY <1>1, SameCosts DEF IInv
<1>3. /\ RowInv(db)' /\ RowInv(backup)'
      /\ logStart' = 0 => RowLoss(db)' /\ RowLoss(backup)'
  BY <1>1, <1>2, RowsStep DEF IInv, TypeOK
<1>4. BatchInv' /\ SearchInv'
  BY <1>1, Typed DEF IInv, BatchInv, SearchInv, Rewound
<1>5. Slack' = Slack /\ Slack \in Nat /\ Excused \in Int
  BY <1>1, SlackType, Typed DEF Slack, Rewound, IInv
<1>6. ReadInv'
  <2>1. CASE pc \in Reading
    BY <1>1, <1>2, <1>4, <1>5, <2>1, ReadInvKept
  <2>2. CASE pc \notin Reading
    BY <1>1, <2>2 DEF ReadInv
  <2> QED
    BY <2>1, <2>2
<1>7. ASSUME logStart' = 0
      PROVE  ReadLoss'
  <2>1. CASE pc \in Reading
    <3>1. ReadLoss /\ logStart = 0
      BY <1>1, <1>7 DEF IInv, LossInv
    <3>2. uncommitted_count > 0 => lastoffset' < pos \/ (Ahead' /\ lastoffset' = pos)
      BY <1>1, <1>2, <2>1, <3>1 DEF ReadLoss
    <3> QED
      BY <1>1, <1>2, <1>4, <1>5, <2>1, <3>1, <3>2, ReadLossKept
  <2>2. CASE pc \notin Reading
    BY <1>1, <2>2 DEF ReadLoss
  <2> QED
    BY <2>1, <2>2
<1> QED
  BY <1>3, <1>4, <1>6, <1>7 DEF IInv, LossInv

LEMMA TrimStep ==
    ASSUME IInv, TypeOK', Trim
    PROVE  IInv'
<1>1. /\ logStart' = logStart + 1 /\ logStart < Len(log)
      /\ UNCHANGED <<log, dbVars, processVars, boundVars>>
  BY DEF Trim
<1>2. logStart' # 0 /\ logStart' <= Len(log)
  BY <1>1, Typed DEF IInv
<1> QED
  BY <1>1, <1>2
  DEF IInv, BatchInv, SearchInv, ReadInv, RowInv, LossInv, Slack, Rewound, Ahead,
      dbVars, batchVars, processVars, boundVars

LEMMA BackupStep ==
    ASSUME IInv, TypeOK', Backup
    PROVE  IInv'
<1> USE DEF kafkaVars, dbVars, batchVars, boundVars, processVars
<1>1. backup' = db /\ UNCHANGED <<kafkaVars, db, processVars, boundVars>>
  BY DEF Backup
<1>2. BatchInv' /\ SearchInv' /\ ReadInv' /\ RowInv(db)' /\ RowInv(backup)'
  BY <1>1 DEF IInv, BatchInv, SearchInv, ReadInv, RowInv, Slack, Rewound, Ahead
<1>3. LossInv'
  BY <1>1 DEF IInv, LossInv, RowLoss, ReadLoss, Excused, Skipped, Slack, Rewound, Ahead
<1> QED
  BY <1>2, <1>3 DEF IInv

LEMMA RestoreStep ==
    ASSUME IInv, TypeOK', Restore
    PROVE  IInv'
<1> USE DEF kafkaVars, dbVars, batchVars, boundVars, processVars
<1>1. /\ pc = "down" /\ db' = backup
      /\ UNCHANGED <<kafkaVars, backup, processVars, stops, errors, faults>>
  BY DEF Restore
<1>2. BatchInv' /\ SearchInv' /\ ReadInv' /\ RowInv(db)' /\ RowInv(backup)'
  BY <1>1 DEF IInv, BatchInv, SearchInv, ReadInv, RowInv, Reading, Rewound
<1>3. LossInv'
  BY <1>1 DEF IInv, LossInv, RowLoss, ReadLoss, Excused, Skipped, Ahead, Reading
<1> QED
  BY <1>2, <1>3 DEF IInv

LEMMA LaunchStep ==
    ASSUME IInv, TypeOK', Launch
    PROVE  IInv'
<1> USE DEF kafkaVars, dbVars, batchVars, boundVars
<1>1. /\ pc = "down" /\ pc' = "init"
      /\ UNCHANGED <<kafkaVars, dbVars, proc_running, lastoffset, batchVars, boundVars>>
      /\ source_ref' = IF db.ref = NoRow THEN OFFSET_BEGINNING ELSE db.ref
      /\ pos' = IF db.ref = NoRow THEN 0 ELSE db.ref
  BY DEF Launch
<1>2. OnlyMore
  BY <1>1, SameCosts DEF IInv
<1>3. /\ RowInv(db)' /\ RowInv(backup)'
      /\ logStart' = 0 => RowLoss(db)' /\ RowLoss(backup)'
  BY <1>1, <1>2, RowsStep DEF IInv, TypeOK
<1>4. BatchInv' /\ SearchInv'
  BY <1>1, Typed DEF IInv, BatchInv, SearchInv, RowInv, Rewound
<1>5. ReadInv' /\ ReadLoss'
  BY <1>1 DEF ReadInv, ReadLoss, Reading
<1> QED
  BY <1>3, <1>4, <1>5 DEF IInv, LossInv

\* The end of the loop is announced: the stop that does it may be counted on by the
\* rows, and by the transaction if it is still committed.
LEMMA InterruptStep ==
    ASSUME IInv, TypeOK', Interrupt
    PROVE  IInv'
<1> USE DEF kafkaVars, dbVars, batchVars
<1>1. /\ pc \in Reading /\ stops' = stops + 1 /\ proc_running' = FALSE
      /\ UNCHANGED <<kafkaVars, dbVars, pc, source_ref, pos, lastoffset, batchVars,
                     errors, faults, restores>>
  BY DEF Interrupt, Reading
<1>2. OnlyMore /\ (Ahead' <=> Ahead) /\ Excused <= Excused'
  BY <1>1, MoreStops DEF IInv
<1>3. /\ RowInv(db)' /\ RowInv(backup)'
      /\ logStart' = 0 => RowLoss(db)' /\ RowLoss(backup)'
  BY <1>1, <1>2, RowsStep DEF IInv, TypeOK
<1>4. BatchInv' /\ SearchInv'
  BY <1>1 DEF IInv, BatchInv, SearchInv, Rewound, Reading
<1>5. Slack <= Slack'
  BY <1>1, SlackType, Typed DEF Slack, Rewound, IInv
<1>6. ReadInv'
  BY <1>1, <1>2, <1>4, <1>5, ReadInvKept
<1>7. ASSUME logStart' = 0
      PROVE  ReadLoss'
  <2>1. ReadLoss /\ logStart = 0
    BY <1>1, <1>7 DEF IInv, LossInv
  <2>2. uncommitted_count > 0 => lastoffset' < pos \/ (Ahead' /\ lastoffset' = pos)
    BY <1>1, <1>2, <2>1 DEF ReadLoss
  <2> QED
    BY <1>1, <1>2, <1>4, <1>5, <2>1, <2>2, ReadLossKept
<1> QED
  BY <1>3, <1>4, <1>6, <1>7 DEF IInv, LossInv

-----------------------------------------------------------------------------
(* The search                                                              *)

LEMMA SearchNothingStep ==
    ASSUME IInv, TypeOK', SearchNothing
    PROVE  IInv'
<1> USE DEF kafkaVars, dbVars, batchVars, boundVars
<1>1. /\ pc = "init" /\ pc' = "armed" /\ source_ref = OFFSET_BEGINNING
      /\ UNCHANGED <<kafkaVars, dbVars, proc_running, source_ref, pos, lastoffset,
                     batchVars, boundVars>>
  BY DEF SearchNothing
<1>2. db.ref = NoRow /\ pos = 0 /\ uncommitted_count = 0 /\ txn = "none"
  BY <1>1 DEF IInv, TypeOK, BatchInv, SearchInv, OFFSET_BEGINNING, NoRow
<1>3. OnlyMore /\ Skipped' = Skipped
  BY <1>1, SameCosts DEF IInv
<1>4. /\ RowInv(db)' /\ RowInv(backup)'
      /\ logStart' = 0 => RowLoss(db)' /\ RowLoss(backup)'
  BY <1>1, <1>3, RowsStep DEF IInv, TypeOK
<1>5. BatchInv' /\ SearchInv' /\ Slack' = errors
  BY <1>1, <1>2 DEF IInv, BatchInv, SearchInv, Slack, Rewound
<1>6. ReadInv'
  BY <1>1, <1>2, <1>5 DEF IInv, RowInv, ReadInv, NoRow
<1>7. ReadLoss'
  <2>1. Allowance(log, pos - 1, faults, Skipped, errors) \in Nat
    BY <1>2, Typed, AllowanceType DEF IInv
  <2>2. Within(log, db.counts, pos - 1, Allowance(log, pos - 1, faults, Skipped, errors))
    BY <1>2, <2>1, Typed, WithinNone DEF IInv
  <2> QED
    BY <1>1, <1>2, <1>3, <1>5, <2>2 DEF ReadLoss
<1> QED
  BY <1>4, <1>5, <1>6, <1>7 DEF IInv, LossInv

\* Without a running process the last stop has paid for a message that the reference
\* skips.
LEMMA RowLossDown ==
    ASSUME IInv, logStart = 0, ~proc_running
    PROVE  Within(log, db.counts, db.ref, Allowance(log, db.ref, faults, Skipped, errors))
<1> DEFINE n == Allowance(log, db.ref, faults, Skipped, errors)
           k == Allowance(log, db.ref - 1, faults, Excused, errors)
<1>1. /\ db.ref \in Int /\ db.ref - 1 \in Int /\ faults \in Nat /\ errors \in Nat
      /\ Skipped \in Int /\ Excused \in Int /\ db.counts \in Accounts
      /\ db.ref - 1 <= db.ref /\ Len(log) \in Nat /\ errors <= errors
  BY Typed DEF IInv
<1>2. k \in Int /\ n \in Int
  BY <1>1, AllowanceType
<1>3. CASE Within(log, db.counts, db.ref, n)
  BY <1>3
<1>4. CASE Ahead /\ Within(log, db.counts, db.ref - 1, k)
  <2>0. Skipped = Excused + 1 /\ Excused <= Excused
    BY <1>4, <1>1, Typed DEF Skipped, Excused, IInv
  <2>1. k + 1 = Allowance(log, db.ref - 1, faults, Skipped, errors)
    BY <1>1, <2>0, AllowanceStop
  <2>2. Allowance(log, db.ref - 1, faults, Skipped, errors) <= n
    BY <1>1, AllowanceForward
  <2> HIDE DEF k, n
  <2>3. Within(log, db.counts, db.ref, k + 1)
    BY <1>1, <1>2, <1>4, WithinSkip
  <2>4. Within(log, db.counts, db.ref, n)
    <3>1. db.ref <= db.ref /\ k + 1 \in Int /\ k + 1 <= n
      BY <1>1, <1>2, <2>1, <2>2
    <3> QED
      BY <1>1, <1>2, <2>3, <3>1, WithinMore
  <2> QED
    BY <2>4 DEF n
<1> QED
  BY <1>3, <1>4 DEF IInv, LossInv, RowLoss

\* A process that has found its reference has skipped at most the message that an event
\* stood for, at the cost of the stop before it.
LEMMA SearchStepStep ==
    ASSUME IInv, TypeOK', SearchStep
    PROVE  IInv'
<1> USE DEF kafkaVars, dbVars, batchVars, boundVars
<1>1. /\ pc = "init" /\ source_ref # OFFSET_BEGINNING /\ Fetch < Len(log)
      /\ pos' = Fetch + 1
      /\ pc' = IF Fetch = source_ref THEN "armed" ELSE "init"
      /\ UNCHANGED <<kafkaVars, dbVars, proc_running, source_ref, lastoffset,
                     batchVars, boundVars>>
  BY DEF SearchStep
<1>2. /\ db.ref # NoRow /\ source_ref = db.ref /\ pos >= db.ref
      /\ logStart = 0 => pos = db.ref
      /\ uncommitted_count = 0 /\ txn = "none" /\ ~proc_running
  BY <1>1 DEF IInv, TypeOK, BatchInv, SearchInv
<1>3. OnlyMore /\ Skipped' = Skipped
  BY <1>1, SameCosts DEF IInv
<1>4. /\ RowInv(db)' /\ RowInv(backup)'
      /\ logStart' = 0 => RowLoss(db)' /\ RowLoss(backup)'
  BY <1>1, <1>3, RowsStep DEF IInv, TypeOK
<1>5. Fetch \in Nat /\ pos <= Fetch /\ (logStart = 0 => Fetch = pos)
  BY FetchType DEF IInv
<1>6. BatchInv' /\ SearchInv' /\ Slack' = errors
  BY <1>1, <1>2, <1>5, Typed DEF IInv, BatchInv, SearchInv, Slack, Rewound
<1>7. CASE pc' = "init"
  BY <1>4, <1>6, <1>7 DEF IInv, LossInv, ReadInv, ReadLoss, Reading
<1>8. CASE pc' = "armed"
  <2>1. db.ref \in Nat /\ pos' - 1 = db.ref /\ db.ref < Len(log) /\ db.ref < pos'
    BY <1>1, <1>2, <1>5, <1>8
  <2>2. ReadInv'
    BY <1>1, <1>2, <1>6, <1>8, <2>1 DEF IInv, RowInv, ReadInv
  <2>3. ASSUME logStart' = 0
        PROVE  ReadLoss'
    <3>1. Within(log, db.counts, db.ref,
                 Allowance(log, db.ref, faults, Skipped, errors))
      BY <1>1, <1>2, <2>3, RowLossDown
    <3> QED
      BY <1>1, <1>2, <1>3, <1>6, <1>8, <2>1, <3>1 DEF ReadLoss
  <2> QED
    BY <1>4, <1>6, <2>2, <2>3 DEF IInv, LossInv
<1> QED
  BY <1>1, <1>7, <1>8

\* An error event that is taken for the message of the reference pays for reading it,
\* and whatever else is counted already, again.
LEMMA SearchErrorStep ==
    ASSUME IInv, TypeOK', SearchError
    PROVE  IInv'
<1> USE DEF kafkaVars, dbVars, batchVars
<1>1. /\ pc = "init" /\ source_ref \in ErrorOffsets /\ errors' = errors + 1 /\ pc' = "armed"
      /\ UNCHANGED <<kafkaVars, dbVars, proc_running, source_ref, pos, lastoffset,
                     batchVars, stops, faults, restores>>
  BY DEF SearchError
<1>2. /\ source_ref = db.ref
      /\ logStart = 0 => pos = db.ref
      /\ uncommitted_count = 0 /\ txn = "none" /\ ~proc_running
  BY <1>1 DEF IInv, TypeOK, BatchInv, SearchInv, ErrorOffsets, OFFSET_BEGINNING
<1>3. OnlyMore /\ Ahead'
  BY <1>1, MoreErrors DEF IInv
<1>4. /\ RowInv(db)' /\ RowInv(backup)'
      /\ logStart' = 0 => RowLoss(db)' /\ RowLoss(backup)'
  BY <1>1, <1>3, RowsStep DEF IInv, TypeOK
<1>5. BatchInv' /\ SearchInv' /\ Slack' = errors + 1
  BY <1>1, <1>2 DEF IInv, BatchInv, SearchInv, Slack, Rewound
<1>6. /\ db.ref \in Int /\ pos \in Int /\ pos - 1 \in Int /\ db.counts \in Accounts
      /\ errors \in Nat /\ errors + 1 \in Nat /\ faults \in Nat /\ Len(log) \in Nat
      /\ Skipped \in Int /\ Skipped' \in Int /\ Skipped <= Skipped'
  <2>1. Skipped' \in Int
    BY <1>1, Typed DEF Skipped, IInv
  <2> QED
    BY <1>3, <2>1, Typed DEF IInv, OnlyMore
<1>7. ReadInv'
  <2>1. NotOver(log, db.counts, pos - 1, errors + 1)
    BY <1>6, NotOverAgain DEF IInv, RowInv
  <2> QED
    BY <1>1, <1>2, <1>3, <1>5, <2>1 DEF ReadInv
<1>8. ASSUME logStart' = 0
      PROVE  ReadLoss'
  <2> DEFINE n == Allowance(log, db.ref, faults, Skipped, errors)
             k == Allowance(log, db.ref, faults, Skipped', errors)
             m == Allowance(log, pos - 1, faults, Skipped', errors + 1)
  <2>0. logStart = 0
    BY <1>1, <1>8
  <2>1. Within(log, db.counts, db.ref, n) /\ pos = db.ref
    BY <1>2, <2>0, RowLossDown
  <2>2. n \in Int /\ k \in Int /\ m \in Int
    BY <1>6, AllowanceType
  <2>3. n <= k
    BY <1>6, AllowanceStop
  <2>4. k <= m
    BY <1>6, AllowanceAgain
  <2> HIDE DEF n, k, m
  <2>5. n <= m /\ pos - 1 <= db.ref
    BY <1>6, <2>1, <2>2, <2>3, <2>4
  <2>6. Within(log, db.counts, pos - 1, m)
    BY <1>6, <2>1, <2>2, <2>5, WithinMore
  <2>7. Within(log, db.counts, pos - 1,
               Allowance(log, pos - 1, faults, Skipped', errors + 1))
    BY <2>6 DEF m
  <2> QED
    BY <1>1, <1>2, <1>5, <2>7 DEF ReadLoss
<1> QED
  BY <1>4, <1>5, <1>7, <1>8 DEF IInv, LossInv

LEMMA EnterLoopStep ==
    ASSUME IInv, TypeOK', EnterLoop
    PROVE  IInv'
<1> USE DEF kafkaVars, dbVars, batchVars, boundVars
<1>1. /\ pc = "armed" /\ pc' = "loop" /\ proc_running' = TRUE
      /\ UNCHANGED <<kafkaVars, dbVars, source_ref, pos, lastoffset, batchVars,
                     boundVars>>
  BY DEF EnterLoop
<1>2. uncommitted_count = 0 /\ txn = "none"
  BY <1>1 DEF IInv, TypeOK, BatchInv
<1>3. OnlyMore /\ Skipped' = Skipped /\ (Ahead' <=> Ahead)
  <2>1. (Ahead' <=> Ahead) /\ Skipped' = Skipped
    BY <1>1 DEF Ahead, Skipped
  <2>2. Excused <= Excused'
    BY <1>1, <2>1, Typed DEF Excused, IInv
  <2> QED
    BY <1>1, <2>1, <2>2, Typed DEF OnlyMore, IInv
<1>4. /\ RowInv(db)' /\ RowInv(backup)'
      /\ logStart' = 0 => RowLoss(db)' /\ RowLoss(backup)'
  BY <1>1, <1>3, RowsStep DEF IInv, TypeOK
<1>5. BatchInv' /\ SearchInv' /\ Slack' = Slack
  BY <1>1, <1>2, CConstantsAssumption DEF IInv, BatchInv, SearchInv, Slack, Rewound
<1>6. ReadInv'
  BY <1>1, <1>2, <1>3, <1>5 DEF IInv, ReadInv, Reading
<1>7. logStart' = 0 => ReadLoss'
  BY <1>1, <1>2, <1>3, <1>5 DEF IInv, LossInv, ReadLoss, Reading
<1> QED
  BY <1>4, <1>5, <1>6, <1>7 DEF IInv, LossInv

-----------------------------------------------------------------------------
(* The loop                                                                *)

\* A pass of the loop without effect on the batch.
LEMMA PassStep ==
    ASSUME IInv, TypeOK', {pc, pc'} \subseteq {"loop", "check"},
           pc' = "loop" => uncommitted_count < BatchSize,
           UNCHANGED <<kafkaVars, dbVars, proc_running, source_ref, pos, batchVars,
                       boundVars>>,
           \/ lastoffset' = lastoffset
           \/ PartitionEof /\ Fetch = Len(log) /\ lastoffset' = Len(log)
    PROVE  IInv'
<1> USE DEF kafkaVars, dbVars, batchVars, boundVars
<1>1. OnlyMore /\ Excused' = Excused /\ (Ahead' <=> Ahead) /\ Excused \in Int
  BY SameCosts, Typed DEF IInv
<1>2. /\ RowInv(db)' /\ RowInv(backup)'
      /\ logStart' = 0 => RowLoss(db)' /\ RowLoss(backup)'
  BY <1>1, RowsStep DEF IInv, TypeOK
<1>3. Rewound' => Rewound
  BY Typed DEF IInv, BatchInv, Rewound
<1>4. BatchInv' /\ SearchInv'
  BY <1>3, Typed DEF IInv, BatchInv, SearchInv
<1>5. Slack <= Slack' /\ pc \in Reading
  BY <1>3, Typed DEF Slack, IInv, Reading
<1>6. ReadInv'
  BY <1>1, <1>4, <1>5, ReadInvKept DEF Ahead
<1>7. ASSUME logStart' = 0
      PROVE  ReadLoss'
  <2>1. ReadLoss /\ logStart = 0 /\ Fetch = pos
    BY <1>7, FetchType DEF IInv, LossInv
  <2>2. uncommitted_count > 0 => lastoffset' < pos \/ (Ahead' /\ lastoffset' = pos)
    BY <1>1, <1>5, <2>1 DEF ReadLoss, Ahead
  <2> QED
    BY <1>1, <1>4, <1>5, <2>1, <2>2, ReadLossKept
<1> QED
  BY <1>2, <1>4, <1>6, <1>7 DEF IInv, LossInv

LEMMA NotDueStep ==
    ASSUME IInv, TypeOK', NEW late \in BOOLEAN, NotDue(late)
    PROVE  IInv'
<1>1. /\ pc = "check" /\ ~CommitDue(late) /\ pc' = "loop"
      /\ UNCHANGED <<kafkaVars, dbVars, proc_running, source_ref, pos, lastoffset,
                     batchVars, boundVars>>
  BY DEF NotDue
<1>2. uncommitted_count \in 0 .. BatchSize
  BY DEF IInv, TypeOK
<1>3. BatchSize % BatchSize = 0
  BY CConstantsAssumption
<1>4. uncommitted_count < BatchSize
  BY <1>1, <1>2, <1>3, CConstantsAssumption DEF CommitDue
<1> QED
  BY <1>1, <1>4, PassStep

LEMMA ReadNothingStep ==
    ASSUME IInv, TypeOK', ReadNothing
    PROVE  IInv'
BY PassStep DEF ReadNothing

LEMMA ReadEndStep ==
    ASSUME IInv, TypeOK', ReadEnd
    PROVE  IInv'
BY PassStep DEF ReadEnd, IInv, BatchInv

\* An error event may take the offset of the batch anywhere into what has been read, or
\* to the message that is read next.
LEMMA ReadErrorStep ==
    ASSUME IInv, TypeOK', NEW o \in ErrorOffsets, ReadError(o)
    PROVE  IInv'
<1> USE DEF kafkaVars, dbVars, batchVars
<1>1. /\ pc = "loop" /\ proc_running /\ errors' = errors + 1 /\ lastoffset' = o
      /\ UNCHANGED <<kafkaVars, dbVars, pc, proc_running, source_ref, pos, batchVars,
                     stops, faults, restores>>
  BY DEF ReadError
<1>2. OnlyMore /\ Ahead' /\ Excused <= Excused'
  BY <1>1, MoreErrors DEF IInv
<1>3. /\ RowInv(db)' /\ RowInv(backup)'
      /\ logStart' = 0 => RowLoss(db)' /\ RowLoss(backup)'
  BY <1>1, <1>2, RowsStep DEF IInv, TypeOK
<1>4. o \in Nat /\ o <= Fetch /\ Fetch <= Len(log) /\ (logStart = 0 => Fetch = pos)
      /\ errors \in Nat /\ Len(log) \in Nat /\ Fetch \in Nat
  BY FetchType, Typed DEF ErrorOffsets, IInv
<1>5. BatchInv' /\ SearchInv'
  BY <1>1, <1>4 DEF IInv, BatchInv, SearchInv
<1>6. Slack <= Slack' /\ pc \in Reading
  <2>1. Slack <= errors /\ Slack \in Nat
    BY SlackType DEF IInv
  <2>2. Slack' = errors \/ Slack' = errors + 1
    BY <1>1, <1>4 DEF Slack
  <2> QED
    BY <1>1, <1>4, <2>1, <2>2 DEF Reading
<1>7. ReadInv'
  BY <1>1, <1>2, <1>5, <1>6, ReadInvKept
<1>8. ASSUME logStart' = 0
      PROVE  ReadLoss'
  <2>1. logStart = 0
    BY <1>1, <1>8
  <2>2. lastoffset' < pos \/ (Ahead' /\ lastoffset' = pos)
    BY <1>1, <1>2, <1>4, <2>1, Typed DEF IInv
  <2> QED
    BY <1>1, <1>2, <1>5, <1>6, <2>1, <2>2, ReadLossKept
<1> QED
  BY <1>3, <1>5, <1>7, <1>8 DEF IInv, LossInv

\* Whatever error events did to the offset, the counters are not over the log more
\* often than there were such events.
LEMMA ReadNotOver ==
    ASSUME IInv, pc \in Reading, NEW q \in Int, pos - 1 <= q
    PROVE  /\ NotOver(log, db.counts, q, errors)
           /\ txn = "open" => NotOver(log, work, q, errors)
<1>1. /\ pos - 1 \in Int /\ db.counts \in Accounts /\ work \in Accounts /\ Len(log) \in Nat
      /\ errors \in Nat /\ Slack \in Nat /\ Slack <= errors
  BY Typed, SlackType DEF IInv
<1>2. /\ NotOver(log, db.counts, pos - 1, Slack)
      /\ txn = "open" => NotOver(log, work, pos - 1, Slack)
  BY DEF IInv, ReadInv
<1> QED
  BY <1>1, <1>2, NotOverForward

\* While nothing is deleted the committed counters of a running process lack no more
\* than failures explain and the batch; an aborted batch is among what they explain.
LEMMA LoopLoss ==
    ASSUME IInv, pc \in {"loop", "check"}, proc_running, logStart = 0
    PROVE  LET n == Allowance(log, pos - 1, faults, Skipped, errors)
           IN  /\ txn = "none" => Within(log, db.counts, pos - 1, n)
               /\ txn = "open" => Within(log, work, pos - 1, n)
               /\ txn = "aborted" =>
                    Within(log, db.counts, pos - 1, n + (uncommitted_count - BatchSize))
               /\ Within(log, db.counts, pos - 1, n + uncommitted_count)
<1> DEFINE r == pos - 1
           n == Allowance(log, r, faults, Skipped, errors)
           u == uncommitted_count
           d == u - BatchSize
<1>1. /\ n \in Int /\ u \in Nat /\ r \in Int /\ db.counts \in Accounts
      /\ work \in Accounts /\ BatchSize \in Nat /\ d \in Int /\ r < Len(log)
      /\ faults \in Nat /\ Skipped \in Int /\ errors \in Nat /\ log \in Seq(Messages)
  <2>1. n \in Int
    BY Typed, AllowanceType DEF IInv
  <2> QED
    BY <2>1, Typed, CConstantsAssumption DEF IInv, BatchInv
<1>2. Slack \in Nat /\ Slack <= errors /\ Excused = Skipped
  BY SlackType DEF IInv, Excused, Skipped
<1>3. /\ txn = "none" =>
           Within(log, db.counts, r, Allowance(log, r, faults, Skipped, Slack))
      /\ txn = "open" => Within(log, work, r, Allowance(log, r, faults, Skipped, Slack))
      /\ txn = "aborted" =>
           Within(log, db.counts, r, Allowance(log, r, faults, Skipped, Slack) + d)
  BY <1>2 DEF IInv, LossInv, ReadLoss, Reading
<1> HIDE DEF r, n, u, d
<1>4. /\ txn = "none" => Within(log, db.counts, r, n)
      /\ txn = "open" => Within(log, work, r, n)
  BY <1>1, <1>2, <1>3, WithinStable DEF n
<1>5. txn = "aborted" => Within(log, db.counts, r, n + d)
  BY <1>1, <1>2, <1>3, WithinKept DEF n
<1>6. Within(log, db.counts, r, n + u)
  <2>1. CASE txn = "none"
    <3>1. n + u \in Int /\ n <= n + u /\ r <= r
      BY <1>1
    <3> QED
      BY <1>1, <1>4, <2>1, <3>1, WithinMore
  <2>2. CASE txn = "open"
    <3>1. \A v \in Views : work[v] <= db.counts[v] + u
      BY <2>2 DEF IInv, ReadInv, Reading, u
    <3> QED
      BY <1>1, <1>4, <2>2, <3>1, WithinShift
  <2>3. CASE txn = "aborted"
    <3>1. n + d \in Int /\ n + u \in Int /\ n + d <= n + u /\ r <= r
      BY <1>1 DEF d
    <3> QED
      BY <1>1, <1>5, <2>3, <3>1, WithinMore
  <2> QED
    BY <2>1, <2>2, <2>3 DEF IInv, TypeOK
<1> QED
  BY <1>4, <1>5, <1>6 DEF n, r, u, d

\* Taking a message into the batch, whatever became of its statement.
LEMMA JoinStep ==
    ASSUME IInv, TypeOK', TakeMessage, NEW t, JoinBatch(t),
           t.state \in {"open", "aborted"}, OnlyMore,
           t.state = "open" =>
              /\ NotOver(log, t.counts, Fetch, errors)
              /\ \A v \in Views : t.counts[v] <= db.counts[v] + uncommitted_count + 1
              /\ logStart = 0 =>
                    Within(log, t.counts, Fetch,
                           Allowance(log, Fetch, faults', Excused', errors)),
           t.state = "aborted" /\ logStart = 0 /\ proc_running' =>
              Within(log, db.counts, Fetch,
                     Allowance(log, Fetch, faults', Skipped', errors)
                         + (uncommitted_count + 1 - BatchSize))
    PROVE  IInv'
<1> USE DEF kafkaVars, dbVars
<1>1. /\ pc = "loop" /\ proc_running /\ Fetch < Len(log)
      /\ pos' = Fetch + 1 /\ lastoffset' = Fetch
  BY DEF TakeMessage
<1>2. /\ uncommitted_count' = uncommitted_count + 1 /\ txn' = t.state
      /\ work' = t.counts /\ pc' = "check"
      /\ UNCHANGED <<kafkaVars, dbVars, source_ref, total_committed, errors, restores>>
  BY DEF JoinBatch
<1>3. /\ Fetch \in Nat /\ pos <= Fetch /\ pos \in Nat /\ uncommitted_count \in Nat
      /\ Len(log) \in Nat /\ uncommitted_count' > 0 /\ pos' - 1 = Fetch
      /\ db.ref \in Int /\ logStart \in Nat /\ pos - 1 <= Fetch /\ pc \in Reading
  BY <1>1, <1>2, FetchType, Typed DEF IInv, Reading
<1>4. /\ RowInv(db)' /\ RowInv(backup)'
      /\ logStart' = 0 => RowLoss(db)' /\ RowLoss(backup)'
  BY <1>2, <1>3, RowsStep
<1>5. ~Rewound' /\ Slack' = errors
  <2>1. ~Rewound'
    BY <1>1, <1>3 DEF Rewound
  <2> QED
    BY <1>2, <2>1 DEF Slack
<1>6. BatchInv' /\ SearchInv'
  BY <1>1, <1>2, <1>3, <1>5 DEF IInv, BatchInv, SearchInv
<1>7. NotOver(log, db.counts, Fetch, errors)
  BY <1>3, ReadNotOver
<1>8. ~Ahead' => db.ref < Fetch
  BY <1>2, <1>3 DEF IInv, ReadInv, Ahead
<1>9. ReadInv'
  <2>1. \A v \in Views : db.counts[v] + uncommitted_count'
                          = db.counts[v] + uncommitted_count + 1
    <3>1. \A v \in Views : db.counts[v] \in Nat
      BY Typed DEF IInv, Accounts
    <3> QED
      BY <1>2, <1>3, <3>1
  <2>2. txn' = "open" =>
          /\ NotOver(log', work', pos' - 1, Slack')
          /\ \A v \in Views : work'[v] <= db'.counts[v] + uncommitted_count'
    <3>1. db' = db /\ log' = log /\ work' = t.counts /\ txn' = t.state
          /\ pos' - 1 = Fetch /\ Slack' = errors
      BY <1>2, <1>3, <1>5
    <3> HIDE DEF kafkaVars, dbVars
    <3>2. SUFFICES ASSUME txn' = "open"
                   PROVE  /\ NotOver(log, t.counts, Fetch, errors)
                          /\ \A v \in Views :
                               t.counts[v] <= db.counts[v] + uncommitted_count'
      BY <3>1
    <3> QED
      BY <2>1, <3>1, <3>2
  <2>3. lastoffset' = pos' - 1
    BY <1>1, <1>3
  <2>4. ~Ahead' => db'.ref < pos' /\ db'.ref < lastoffset'
    BY <1>1, <1>2, <1>3, <1>8
  <2>5. NotOver(log', db'.counts, pos' - 1, Slack')
    BY <1>2, <1>3, <1>5, <1>7
  <2> QED
    BY <2>2, <2>3, <2>4, <2>5 DEF ReadInv
<1>10. logStart' = 0 => ReadLoss'
  <2>1. uncommitted_count' - BatchSize = uncommitted_count + 1 - BatchSize
    BY <1>2, <1>3, CConstantsAssumption
  <2>2. lastoffset' < pos'
    BY <1>1, <1>3
  <2> QED
    BY <1>1, <1>2, <1>3, <1>5, <2>1, <2>2 DEF ReadLoss
<1> QED
  BY <1>4, <1>6, <1>9, <1>10 DEF IInv, LossInv

LEMMA ReadViewStep ==
    ASSUME IInv, TypeOK', ReadView
    PROVE  IInv'
<1> DEFINE o == Fetch
           x == log[o + 1]
           b == InTransaction
           t == AfterUpdate(b, x)
           n == Allowance(log, o - 1, faults, Skipped, errors)
           m == Allowance(log, o, faults, Skipped, errors)
           u == uncommitted_count
<1>1. /\ TakeMessage /\ x \in Views /\ JoinBatch(t)
      /\ UNCHANGED <<proc_running, stops, errors, faults>>
  BY DEF ReadView, JoinBatch
<1>2. /\ pc = "loop" /\ proc_running /\ o < Len(log) /\ OnlyMore
      /\ Skipped' = Skipped /\ Excused' = Skipped
  <2>1. pc = "loop" /\ proc_running /\ o < Len(log)
    BY <1>1 DEF TakeMessage
  <2>2. Excused = Skipped
    BY <2>1 DEF Excused, Skipped
  <2> QED
    BY <1>1, <2>1, <2>2, SameCosts DEF IInv
<1>3. /\ o \in Nat /\ pos <= o /\ pos \in Nat /\ u \in Nat /\ log \in Seq(Messages)
      /\ db.counts \in Accounts /\ work \in Accounts /\ Skipped \in Int /\ faults \in Nat
      /\ errors \in Nat /\ Len(log) \in Nat
      /\ logStart = 0 => o = pos
  BY FetchType, Typed DEF IInv
<1>4. /\ b.state \in {"open", "aborted"} /\ b.counts \in Accounts
      /\ t.state = IF b.state = "open" /\ x \in Known THEN "open" ELSE "aborted"
      /\ t.state = "open" => t.counts = [b.counts EXCEPT ![x] = @ + 1]
  BY <1>1, UpdateResult DEF IInv
<1>5. /\ u = 0 => b.state = "open" /\ b.counts = db.counts /\ txn = "none"
      /\ u # 0 => b.state = txn /\ b.counts = work
  BY DEF InTransaction, IInv, TypeOK, BatchInv
<1>6. /\ NotOver(log, db.counts, pos - 1, errors)
      /\ txn = "open" => NotOver(log, work, pos - 1, errors)
                         /\ \A v \in Views : work[v] <= db.counts[v] + u
  <2>1. pc \in Reading /\ pos - 1 \in Int /\ pos - 1 <= pos - 1
    BY <1>2, <1>3 DEF Reading
  <2>2. txn = "open" => \A v \in Views : work[v] <= db.counts[v] + u
    BY <2>1 DEF IInv, ReadInv
  <2> QED
    BY <2>1, <2>2, ReadNotOver
<1>7. /\ n \in Int /\ m = n + (IF x \in Views \ Known THEN BatchSize - 1 ELSE 0)
      /\ BatchSize \in Nat
  <2>1. n \in Int
    BY <1>3, AllowanceType
  <2>2. m = n + (IF x \in Views \ Known THEN BatchSize - 1 ELSE 0)
    BY <1>2, <1>3, AllowanceNext
  <2> QED
    BY <2>1, <2>2, CConstantsAssumption
<1>8. logStart = 0 =>
        /\ txn = "none" => Within(log, db.counts, o - 1, n)
        /\ txn = "open" => Within(log, work, o - 1, n)
        /\ Within(log, db.counts, o - 1, n + u)
        /\ txn = "aborted" => Within(log, db.counts, o - 1, n + (u - BatchSize))
  BY <1>2, <1>3, LoopLoss
<1>9. o - 1 \in Int /\ pos - 1 \in Int /\ pos - 1 < o
  BY <1>3
<1> HIDE DEF o, x, b, t, n, m, u
<1>10. ASSUME t.state = "open"
       PROVE  /\ NotOver(log, t.counts, o, errors)
              /\ \A v \in Views : t.counts[v] <= db.counts[v] + u + 1
              /\ logStart = 0 => Within(log, t.counts, o, m)
  <2>1. b.state = "open" /\ x \in Known /\ t.counts = [b.counts EXCEPT ![x] = @ + 1]
    BY <1>4, <1>10
  <2>2. NotOver(log, b.counts, pos - 1, errors)
        /\ \A v \in Views : b.counts[v] <= db.counts[v] + u
    BY <1>3, <1>5, <1>6, <2>1 DEF Accounts
  <2>3. NotOver(log, t.counts, o, errors)
    BY <1>2, <1>3, <1>4, <1>9, <2>1, <2>2, NotOverCount DEF x
  <2>4. \A v \in Views : t.counts[v] <= db.counts[v] + u + 1
    BY <1>3, <1>4, <2>1, <2>2 DEF Accounts
  <2>5. ASSUME logStart = 0
        PROVE  Within(log, t.counts, o, m)
    <3>1. Within(log, b.counts, o - 1, n) /\ m = n
      BY <1>5, <1>7, <1>8, <2>1, <2>5
    <3> QED
      BY <1>2, <1>3, <1>4, <1>7, <2>1, <3>1, WithinCount DEF x
  <2> QED
    BY <2>3, <2>4, <2>5
<1>11. ASSUME t.state = "aborted", logStart = 0
       PROVE  Within(log, db.counts, o, m + (u + 1 - BatchSize))
  <2>1. CASE x \in Known
    <3>1. txn = "aborted" /\ m = n
      BY <1>4, <1>5, <1>7, <1>11, <2>1
    <3>2. n + (u - BatchSize) \in Int
          /\ m + (u + 1 - BatchSize) = n + (u - BatchSize) + 1
      BY <1>3, <1>7, <3>1
    <3>3. Within(log, db.counts, o - 1, n + (u - BatchSize))
      BY <1>8, <1>11, <3>1
    <3>4. Within(log, db.counts, o, n + (u - BatchSize) + 1)
      BY <1>3, <3>2, <3>3, WithinSkip
    <3> QED
      BY <3>2, <3>4
  <2>2. CASE x \notin Known
    <3>1. m = n + (BatchSize - 1)
      BY <1>1, <1>7, <2>2
    <3>2. m + (u + 1 - BatchSize) = n + u /\ n + u \in Int
      BY <1>3, <1>7, <3>1
    <3>3. Within(log, db.counts, o - 1, n + u)
      BY <1>8, <1>11
    <3>4. Within(log, db.counts, o, n + u)
      BY <1>2, <1>3, <2>2, <3>2, <3>3, WithinPass DEF x
    <3> QED
      BY <3>2, <3>4
  <2> QED
    BY <2>1, <2>2
<1>12. t.state \in {"open", "aborted"}
  BY <1>4
<1> QED
  BY <1>1, <1>2, <1>10, <1>11, <1>12, JoinStep DEF o, m, u

LEMMA ReadViewFaultStep ==
    ASSUME IInv, TypeOK', ReadViewFault
    PROVE  IInv'
<1> DEFINE o == Fetch
           t == [InTransaction EXCEPT !.state = "aborted"]
           n == Allowance(log, o - 1, faults, Skipped, errors)
           m == Allowance(log, o, faults', Skipped, errors)
           u == uncommitted_count
<1>1. /\ TakeMessage /\ log[o + 1] \in Views /\ JoinBatch(t)
      /\ faults' = faults + 1 /\ UNCHANGED <<proc_running, stops, errors>>
  BY DEF ReadViewFault, JoinBatch
<1>2. pc = "loop" /\ proc_running /\ o < Len(log)
  BY <1>1 DEF TakeMessage
<1>3. /\ o \in Nat /\ u \in Nat /\ log \in Seq(Messages) /\ BatchSize \in Nat
      /\ db.counts \in Accounts /\ Skipped \in Int /\ faults \in Nat /\ errors \in Nat
      /\ Excused \in Int /\ o - 1 \in Int /\ o - 1 <= o /\ Len(log) \in Nat
      /\ logStart = 0 => o = pos
  BY FetchType, Typed, CConstantsAssumption DEF IInv
<1>4. t.state = "aborted"
  BY <1>1, UpdateResult DEF IInv
<1>5. n \in Int /\ m \in Int /\ n + BatchSize <= m
  <2> DEFINE k == Allowance(log, o, faults, Skipped, errors)
  <2>1. n \in Int /\ k \in Int
    BY <1>3, AllowanceType
  <2>2. m = k + BatchSize
    BY <1>1, <1>3, AllowanceFault
  <2>3. n <= k
    BY <1>3, AllowanceForward
  <2> HIDE DEF n, m, k
  <2> QED
    BY <1>3, <2>1, <2>2, <2>3
<1>6. logStart = 0 => Within(log, db.counts, o - 1, n + u)
  BY <1>2, <1>3, LoopLoss
<1>7. OnlyMore /\ Skipped' = Skipped
  <2>1. (Ahead' <=> Ahead) /\ Skipped' = Skipped /\ Excused' = Excused
    BY <1>1 DEF Ahead, Skipped, Excused
  <2> QED
    BY <1>1, <1>3, <2>1 DEF OnlyMore
<1> HIDE DEF o, t, n, m, u
<1>8. ASSUME logStart = 0
      PROVE  Within(log, db.counts, o, m + (u + 1 - BatchSize))
  <2>1. /\ n + u \in Int /\ n + u + 1 \in Int /\ m + (u + 1 - BatchSize) \in Int
        /\ n + u + 1 <= m + (u + 1 - BatchSize) /\ o <= o
    BY <1>3, <1>5
  <2>2. Within(log, db.counts, o, n + u + 1)
    BY <1>3, <1>6, <1>8, <2>1, WithinSkip
  <2> QED
    BY <1>3, <2>1, <2>2, WithinMore
<1> QED
  BY <1>1, <1>2, <1>4, <1>7, <1>8, JoinStep DEF o, m, u

LEMMA BeginFailsStep ==
    ASSUME IInv, TypeOK', BeginFails
    PROVE  IInv'
<1> DEFINE t == [state |-> "aborted", counts |-> work]
<1>1. /\ TakeMessage /\ JoinBatch(t) /\ faults' = faults /\ stops' = stops + 1
      /\ proc_running' = FALSE /\ errors' = errors
  BY DEF BeginFails, JoinBatch
<1>2. t.state = "aborted"
  OBVIOUS
<1>3. OnlyMore
  BY <1>1, MoreStops DEF IInv
<1> HIDE DEF t
<1> QED
  BY <1>1, <1>2, <1>3, JoinStep

LEMMA ReadOtherStep ==
    ASSUME IInv, TypeOK', ReadOther
    PROVE  IInv'
<1> USE DEF kafkaVars, dbVars, batchVars, boundVars
<1> DEFINE o == Fetch
           u == uncommitted_count
<1>1. /\ pc = "loop" /\ proc_running /\ o < Len(log) /\ log[o + 1] = Other
      /\ pos' = o + 1 /\ lastoffset' = o
      /\ UNCHANGED <<kafkaVars, dbVars, pc, proc_running, source_ref, batchVars,
                     boundVars>>
  BY DEF ReadOther, TakeMessage
<1>2. /\ o \in Nat /\ pos <= o /\ pos \in Nat /\ u \in Nat
      /\ log \in Seq(Messages) /\ Len(log) \in Nat /\ db.ref \in Int
      /\ db.counts \in Accounts /\ work \in Accounts
      /\ faults \in Nat /\ Skipped \in Int /\ errors \in Nat
      /\ logStart = 0 => o = pos
  BY FetchType, Typed DEF IInv
<1>3. OnlyMore /\ Skipped' = Skipped /\ Excused' = Skipped /\ (Ahead' <=> Ahead)
  <2>1. Excused = Skipped
    BY <1>1 DEF Excused, Skipped
  <2> QED
    BY <1>1, <2>1, SameCosts DEF IInv
<1>4. /\ RowInv(db)' /\ RowInv(backup)'
      /\ logStart' = 0 => RowLoss(db)' /\ RowLoss(backup)'
  BY <1>1, <1>3, RowsStep DEF IInv, TypeOK
<1>5. Other \notin Views /\ Other \notin Known
  BY CConstantsAssumption
<1>6. pos' - 1 = o /\ pos - 1 <= o /\ o \in Int /\ pc \in Reading
  BY <1>1, <1>2 DEF Reading
<1> HIDE DEF o, u
<1>7. Slack' = errors /\ ~Rewound'
  <2>1. ~Rewound'
    BY <1>1, <1>2 DEF Rewound
  <2> QED
    BY <1>1, <2>1 DEF Slack
<1>8. BatchInv' /\ SearchInv'
  BY <1>1, <1>2, <1>7 DEF IInv, BatchInv, SearchInv
<1>9. ReadInv'
  <2>1. ReadInv
    BY DEF IInv
  <2>2. NotOver(log, db.counts, o, errors) /\ (txn = "open" => NotOver(log, work, o, errors))
    BY <1>6, ReadNotOver
  <2>3. ~Ahead => db.ref < o /\ db.ref < pos'
    BY <1>1, <1>2, <1>6, <2>1 DEF ReadInv
  <2> QED
    BY <1>1, <1>2, <1>3, <1>6, <1>7, <2>1, <2>2, <2>3 DEF ReadInv
<1>10. ASSUME logStart' = 0
       PROVE  ReadLoss'
  <2> DEFINE n == Allowance(log, o - 1, faults, Skipped, errors)
             m == Allowance(log, o, faults, Skipped, errors)
             d == u - BatchSize
  <2>1. logStart = 0 /\ o = pos
    BY <1>1, <1>2, <1>10
  <2>2. m = n
    <3>1. n \in Int
      BY <1>2, AllowanceType
    <3>2. m = n + (IF log[o + 1] \in Views \ Known THEN BatchSize - 1 ELSE 0)
      BY <1>1, <1>2, AllowanceNext
    <3> HIDE DEF n, m
    <3> QED
      BY <1>1, <1>5, <3>1, <3>2
  <2>3. n \in Int /\ n + d \in Int
    <3>1. n \in Int
      BY <1>2, AllowanceType
    <3> QED
      BY <1>2, <3>1, CConstantsAssumption
  <2>4. /\ txn = "none" => Within(log, db.counts, o - 1, n)
        /\ txn = "open" => Within(log, work, o - 1, n)
        /\ txn = "aborted" => Within(log, db.counts, o - 1, n + d)
    BY <1>1, <2>1, LoopLoss DEF u
  <2> HIDE DEF n, m, d
  <2>5. /\ txn = "none" => Within(log, db.counts, o, m)
        /\ txn = "open" => Within(log, work, o, m)
        /\ txn = "aborted" => Within(log, db.counts, o, m + d)
    BY <1>1, <1>2, <1>5, <2>2, <2>3, <2>4, WithinPass
  <2>6. lastoffset' < pos'
    BY <1>1, <1>2
  <2> QED
    BY <1>1, <1>3, <1>6, <1>7, <2>5, <2>6 DEF ReadLoss, m, d, u
<1> QED
  BY <1>4, <1>8, <1>9, <1>10 DEF IInv, LossInv

-----------------------------------------------------------------------------
(* The commit                                                              *)

\* The row that an open transaction commits: its reference is that of the last
\* message read, or of an event that stands for the message behind it or for an
\* earlier one.
LEMMA CommittedRow ==
    ASSUME IInv, pc = "check", uncommitted_count > 0
    PROVE  /\ Committed \in Rows
           /\ RowInv(Committed)
           /\ logStart = 0 => RowLoss(Committed)
           /\ NotOver(log, Committed.counts, pos - 1, errors)
           /\ ~Ahead => Committed.ref < pos
           /\ logStart = 0 /\ proc_running =>
                Within(log, Committed.counts, pos - 1,
                       Allowance(log, pos - 1, faults, Skipped, errors))
<1> DEFINE r == pos - 1
<1>1. /\ pos \in Nat /\ lastoffset \in Nat /\ Len(log) \in Nat /\ r \in Int
      /\ db.ref \in Int /\ db.counts \in Accounts /\ work \in Accounts
      /\ faults \in Nat /\ Skipped \in Int /\ Excused \in Int /\ Excused <= Skipped
      /\ uncommitted_count \in 0 .. BatchSize /\ BatchSize \in Nat
      /\ errors \in Nat /\ log \in Seq(Messages) /\ r <= r
  BY Typed, CConstantsAssumption DEF IInv, TypeOK
<1>2. Committed \in Rows
  BY CommittedType DEF IInv
<1>3. /\ ReadInv /\ BatchInv /\ pc \in Reading /\ RowInv(db) /\ r < Len(log)
      /\ logStart = 0 => ReadLoss /\ RowLoss(db)
  BY <1>1 DEF IInv, LossInv, Reading, BatchInv
<1>4. Slack \in Nat /\ Slack <= errors /\ (Rewound => errors = Slack + 1)
  BY <1>1, SlackType DEF IInv, Slack
<1>5. NotOver(log, db.counts, r, errors) /\ (txn = "open" => NotOver(log, work, r, errors))
  BY <1>1, <1>3, ReadNotOver
<1>6. CASE txn = "open"
  <2>1. Committed.ref = lastoffset /\ Committed.counts = work
    BY <1>6 DEF Committed
  <2>2. NotOver(log, work, lastoffset, errors)
    <3>1. CASE Rewound
      <4>1. NotOver(log, work, r, Slack)
        BY <1>3, <1>6 DEF ReadInv
      <4> QED
        BY <1>1, <1>4, <3>1, <4>1, NotOverAgain
    <3>2. CASE ~Rewound
      <4>1. r <= lastoffset /\ errors <= errors
        BY <1>1, <3>2 DEF Rewound
      <4> HIDE DEF r
      <4> QED
        BY <1>1, <1>5, <1>6, <4>1, NotOverForward
    <3> QED
      BY <3>1, <3>2
  <2>3. RowInv(Committed)
    BY <1>3, <2>1, <2>2 DEF RowInv, BatchInv
  <2>4. ~Ahead => lastoffset < pos
    BY <1>1, <1>3 DEF ReadInv
  <2>5. ASSUME logStart = 0
        PROVE  /\ Within(log, work, r, Allowance(log, r, faults, Skipped, errors))
               /\ RowLoss(Committed)
    <3>1. /\ Within(log, work, r, Allowance(log, r, faults, Excused, Slack))
          /\ lastoffset < pos \/ (Ahead /\ lastoffset = pos)
      BY <1>3, <1>6, <2>5 DEF ReadLoss
    <3> HIDE DEF r
    <3>2. /\ Within(log, work, r, Allowance(log, r, faults, Skipped, errors))
          /\ Within(log, work, r, Allowance(log, r, faults, Excused, errors))
      <4>1. Excused <= Excused
        BY <1>1
      <4> QED
        BY <1>1, <1>3, <1>4, <3>1, <4>1, WithinStable
    <3>3. CASE Ahead /\ lastoffset = pos
      <4>1. lastoffset - 1 = r
        BY <3>3 DEF r
      <4> QED
        BY <2>1, <3>2, <3>3, <4>1 DEF RowLoss
    <3>4. CASE lastoffset = r
      BY <1>3, <2>1, <3>2, <3>4 DEF RowLoss
    <3>5. CASE lastoffset < r
      <4> DEFINE n == Allowance(log, r, faults, Skipped, Slack)
                 m == Allowance(log, lastoffset, faults, Skipped, errors)
      <4>1. Rewound /\ lastoffset <= r /\ lastoffset < Len(log)
        BY <1>1, <1>3, <3>5 DEF Rewound, r
      <4>2. n \in Int /\ m \in Int
        BY <1>1, <1>4, AllowanceType
      <4>3. n <= m
        BY <1>1, <1>4, <4>1, AllowanceAgain
      <4>4. Within(log, work, r, n)
        <5>1. Slack <= Slack
          BY <1>4
        <5> QED
          BY <1>1, <1>3, <1>4, <3>1, <5>1, WithinStable
      <4> HIDE DEF n, m
      <4>5. Within(log, work, lastoffset, m)
        BY <1>1, <4>1, <4>2, <4>3, <4>4, WithinMore
      <4> QED
        BY <2>1, <3>2, <4>1, <4>5 DEF RowLoss, m
    <3> QED
      BY <1>1, <3>1, <3>2, <3>3, <3>4, <3>5 DEF r
  <2> QED
    BY <1>2, <1>5, <1>6, <2>1, <2>3, <2>4, <2>5
<1>7. CASE txn # "open"
  <2>1. Committed = db
    BY <1>7 DEF Committed
  <2>2. ~Ahead => db.ref < pos
    BY <1>3 DEF ReadInv
  <2>3. ASSUME logStart = 0, proc_running
        PROVE  Within(log, db.counts, r, Allowance(log, r, faults, Skipped, errors))
    <3> DEFINE n == Allowance(log, r, faults, Skipped, errors)
               d == uncommitted_count - BatchSize
    <3>1. n \in Int
      BY <1>1, AllowanceType
    <3>2. txn = "aborted"
      BY <1>3, <1>7 DEF BatchInv, IInv, TypeOK
    <3>3. Within(log, db.counts, r, n + d)
      BY <2>3, <3>2, LoopLoss
    <3> HIDE DEF n, r
    <3>4. n + d \in Int /\ n + d <= n
      BY <1>1, <3>1
    <3> HIDE DEF d
    <3>5. Within(log, db.counts, r, n)
      BY <1>1, <3>1, <3>3, <3>4, WithinMore
    <3> QED
      BY <3>5 DEF n
  <2> QED
    BY <1>2, <1>3, <1>5, <2>1, <2>2, <2>3
<1> QED
  BY <1>6, <1>7

\* The batch is over, and a row is in the database that was there or is committed.
LEMMA DoneStep ==
    ASSUME IInv, TypeOK', pc = "check", uncommitted_count > 0, BatchDone,
           db' \in {db, Committed}, OnlyMore, Ahead' <=> Ahead,
           proc_running' => proc_running,
           logStart = 0 /\ proc_running' =>
              Within(log, db'.counts, pos - 1,
                     Allowance(log, pos - 1, faults', Skipped', errors))
    PROVE  IInv'
<1> USE DEF kafkaVars
<1>1. /\ uncommitted_count' = 0 /\ txn' = "none" /\ work' = ZeroCounts /\ pc' = "loop"
      /\ UNCHANGED <<kafkaVars, backup, source_ref, pos, lastoffset, errors, restores>>
  BY DEF BatchDone
<1>2. /\ db' \in Rows /\ backup \in Rows /\ RowInv(db') /\ RowInv(backup)
      /\ logStart = 0 => RowLoss(db') /\ RowLoss(backup)
      /\ NotOver(log, db'.counts, pos - 1, errors)
      /\ ~Ahead => db'.ref < pos
  <2>1. CASE db' = Committed
    BY <2>1, CommittedRow, Typed DEF IInv, LossInv
  <2>2. CASE db' = db
    <3>1. pc \in Reading /\ pos - 1 \in Int /\ pos - 1 <= pos - 1
      BY Typed DEF IInv, Reading
    <3>2. NotOver(log, db.counts, pos - 1, errors)
      BY <3>1, ReadNotOver
    <3> QED
      BY <2>2, <3>1, <3>2, Typed DEF IInv, LossInv, ReadInv
  <2> QED
    BY <2>1, <2>2
<1>3. RowInv(db)' /\ RowInv(backup)'
  <2>1. \A row \in Rows : RowInv(row) =>
          row.ref <= Len(log') /\ NotOver(log', row.counts, row.ref, errors')
    BY <1>1 DEF RowInv
  <2> QED
    BY <1>1, <1>2, <2>1 DEF RowInv
<1>4. ASSUME logStart' = 0
      PROVE  RowLoss(db)' /\ RowLoss(backup)'
  <2>1. \A row \in Rows : RowLoss(row) /\ RowInv(row) =>
          \/ /\ row.ref < Len(log')
             /\ Within(log', row.counts, row.ref,
                       Allowance(log', row.ref, faults', Skipped', errors'))
          \/ /\ Ahead'
             /\ Within(log', row.counts, row.ref - 1,
                       Allowance(log', row.ref - 1, faults', Excused', errors'))
    BY <1>1, RowStep DEF IInv
  <2>2. backup' = backup /\ logStart = 0
    BY <1>1, <1>4
  <2> QED
    BY <1>2, <2>1, <2>2 DEF RowLoss
<1>5. BatchInv' /\ SearchInv' /\ Slack' = errors
  BY <1>1, CConstantsAssumption DEF IInv, BatchInv, SearchInv, Slack, Rewound
<1>6. ReadInv'
  BY <1>1, <1>2, <1>5 DEF ReadInv
<1>7. logStart' = 0 => ReadLoss'
  BY <1>1, <1>5 DEF ReadLoss
<1> QED
  BY <1>3, <1>4, <1>5, <1>6, <1>7 DEF IInv, LossInv

LEMMA CommitBatchStep ==
    ASSUME IInv, TypeOK', NEW late \in BOOLEAN, CommitBatch(late)
    PROVE  IInv'
<1>1. /\ pc = "check" /\ uncommitted_count > 0 /\ db' = Committed /\ BatchDone
      /\ UNCHANGED <<proc_running, stops, errors, faults>>
  BY DEF CommitBatch, CommitDue, BatchDone
<1>2. OnlyMore /\ Skipped' = Skipped /\ (Ahead' <=> Ahead)
  BY <1>1, SameCosts DEF IInv
<1> QED
  BY <1>1, <1>2, CommittedRow, DoneStep

LEMMA SetRefFaultStep ==
    ASSUME IInv, TypeOK', NEW late \in BOOLEAN, SetRefFault(late)
    PROVE  IInv'
<1> DEFINE n == Allowance(log, pos - 1, faults, Skipped, errors)
<1>1. /\ pc = "check" /\ uncommitted_count > 0 /\ db' = db /\ BatchDone
      /\ faults' = faults + 1 /\ UNCHANGED <<proc_running, stops, errors>>
  BY DEF SetRefFault, CommitDue, BatchDone
<1>2. OnlyMore /\ Skipped' = Skipped /\ (Ahead' <=> Ahead)
  <2>1. (Ahead' <=> Ahead) /\ Skipped' = Skipped /\ Excused' = Excused
    BY <1>1 DEF Ahead, Skipped, Excused
  <2> QED
    BY <1>1, <2>1, Typed DEF OnlyMore, IInv
<1>3. ASSUME logStart = 0, proc_running
      PROVE  Within(log, db.counts, pos - 1,
                    Allowance(log, pos - 1, faults', Skipped', errors))
  <2>1. Within(log, db.counts, pos - 1, n + uncommitted_count)
    BY <1>1, <1>3, LoopLoss
  <2>2. /\ pos - 1 \in Int /\ n \in Int /\ db.counts \in Accounts
        /\ uncommitted_count \in 0 .. BatchSize /\ BatchSize \in Nat
    BY Typed, AllowanceType, CConstantsAssumption DEF IInv, TypeOK
  <2>3. Allowance(log, pos - 1, faults', Skipped', errors) = n + BatchSize
    BY <1>1, <1>2, Typed, AllowanceFault DEF IInv
  <2> HIDE DEF n
  <2>4. n + uncommitted_count \in Int /\ n + BatchSize \in Int
        /\ n + uncommitted_count <= n + BatchSize
    BY <2>2
  <2>5. Within(log, db.counts, pos - 1, n + BatchSize)
    BY <2>1, <2>2, <2>4, WithinMore
  <2> QED
    BY <2>3, <2>5
<1> HIDE DEF n
<1> QED
  BY <1>1, <1>2, <1>3, DoneStep

LEMMA CommitFailsStep ==
    ASSUME IInv, TypeOK', NEW late \in BOOLEAN, CommitFails(late)
    PROVE  IInv'
<1>1. /\ pc = "check" /\ uncommitted_count > 0 /\ db' \in {db, Committed} /\ BatchDone
      /\ stops' = stops + 1 /\ proc_running' = FALSE /\ faults' = faults /\ errors' = errors
  BY DEF CommitFails, CommitDue, BatchDone
<1>2. OnlyMore /\ (Ahead' <=> Ahead)
  BY <1>1, MoreStops DEF IInv
<1> QED
  BY <1>1, <1>2, DoneStep

-----------------------------------------------------------------------------
(* The theorems                                                            *)

LEMMA InitIInv ==
    ASSUME Init
    PROVE  IInv
<1> USE DEF Init
<1>1. /\ log = <<>> /\ log \in Seq(Messages) /\ Len(log) = 0
      /\ ZeroCounts \in Accounts /\ 0 \in 0 .. BatchSize
  BY CConstantsAssumption DEF ZeroCounts, Accounts
<1>2. TypeOK
  <2>1. proc_running \in BOOLEAN
    OBVIOUS
  <2>2. {db, backup} \subseteq [ref : Nat \cup {NoRow}, counts : [Views -> Nat]]
    BY <1>1 DEF Accounts
  <2> QED
    BY <1>1, <2>1, <2>2 DEF TypeOK, Accounts
<1>3. BatchInv /\ SearchInv /\ ReadInv /\ ReadLoss
  BY <1>1, CConstantsAssumption
  DEF BatchInv, SearchInv, ReadInv, ReadLoss, Reading, Rewound
<1>4. NotOver(log, ZeroCounts, -1, errors)
  <2>1. \A v \in Views : /\ Tally(log, v, -1) \in Nat /\ ZeroCounts[v] = 0
                          /\ 0 * Tally(log, v, Len(log) - 1) = 0
    BY <1>1, OffsetsType DEF Tally, ZeroCounts
  <2> QED
    BY <2>1 DEF NotOver
<1>5. Within(log, ZeroCounts, -1, Allowance(log, -1, faults, Skipped, errors))
  <2>1. Skipped = 0
    BY DEF Skipped
  <2>2. Allowance(log, -1, faults, Skipped, errors) \in Nat
    <3>1. /\ Len(log) \in Nat /\ -1 \in Int /\ faults \in Nat /\ errors \in Nat
          /\ Skipped \in Nat
      BY <1>1, <2>1
    <3> QED
      BY ONLY <3>1, AllowanceType
  <2> QED
    BY <1>1, <2>2, WithinNone
<1> QED
  BY <1>1, <1>2, <1>3, <1>4, <1>5 DEF IInv, RowInv, LossInv, RowLoss, NoRow

LEMMA NextIInv ==
    ASSUME IInv, [Next]_vars
    PROVE  IInv'
<1>0. TypeOK'
  BY TypeStep
<1>1. ASSUME NEW m \in Messages, Publish(m) PROVE IInv'
  BY <1>0, <1>1, PublishStep
<1>2. CASE Trim
  BY <1>0, <1>2, TrimStep
<1>3. CASE Backup
  BY <1>0, <1>3, BackupStep
<1>4. CASE Restore
  BY <1>0, <1>4, RestoreStep
<1>5. CASE Launch
  BY <1>0, <1>5, LaunchStep
<1>6. CASE Kill
  BY <1>0, <1>6, ExitStep DEF Kill
<1>7. CASE Interrupt
  BY <1>0, <1>7, InterruptStep
<1>8. CASE SearchNothing
  BY <1>0, <1>8, SearchNothingStep
<1>9. CASE SearchStep
  BY <1>0, <1>9, SearchStepStep
<1>10. CASE SearchFails
  <2>1. ~proc_running /\ stops' = stops
    BY <1>10 DEF SearchFails, IInv, BatchInv, boundVars
  <2> QED
    BY <1>0, <1>10, <2>1, ExitStep DEF SearchFails, boundVars
<1>11. CASE EnterLoop
  BY <1>0, <1>11, EnterLoopStep
<1>12. CASE ReadView
  BY <1>0, <1>12, ReadViewStep
<1>13. CASE ReadOther
  BY <1>0, <1>13, ReadOtherStep
<1>14. CASE ReadEnd
  BY <1>0, <1>14, ReadEndStep
<1>15. CASE ReadNothing
  BY <1>0, <1>15, ReadNothingStep
<1>16. ASSUME NEW late \in BOOLEAN, NotDue(late) PROVE IInv'
  BY <1>0, <1>16, NotDueStep
<1>17. ASSUME NEW late \in BOOLEAN, CommitBatch(late) PROVE IInv'
  BY <1>0, <1>17, CommitBatchStep
<1>18. CASE Exit
  <2>1. ~proc_running /\ stops' = stops
    BY <1>18 DEF Exit, boundVars
  <2> QED
    BY <1>0, <1>18, <2>1, ExitStep DEF Exit, boundVars
<1>19. CASE ReadViewFault
  BY <1>0, <1>19, ReadViewFaultStep
<1>20. CASE BeginFails
  BY <1>0, <1>20, BeginFailsStep
<1>21. ASSUME NEW late \in BOOLEAN, SetRefFault(late) PROVE IInv'
  BY <1>0, <1>21, SetRefFaultStep
<1>22. ASSUME NEW late \in BOOLEAN, CommitFails(late) PROVE IInv'
  BY <1>0, <1>22, CommitFailsStep
<1>23. CASE UNCHANGED vars
  <2> USE <1>23 DEF vars, kafkaVars, dbVars, batchVars, boundVars
  <2>1. BatchInv' /\ SearchInv' /\ ReadInv' /\ RowInv(db)' /\ RowInv(backup)'
    BY DEF IInv, BatchInv, SearchInv, ReadInv, RowInv, Slack, Rewound, Ahead
  <2>2. LossInv'
    BY DEF IInv, LossInv, RowLoss, ReadLoss, Excused, Skipped, Slack, Rewound, Ahead
  <2> QED
    BY <1>0, <2>1, <2>2 DEF IInv
<1>24. CASE SearchError
  BY <1>0, <1>24, SearchErrorStep
<1>25. ASSUME NEW o \in ErrorOffsets, ReadError(o) PROVE IInv'
  BY <1>0, <1>25, ReadErrorStep
<1> QED
  BY <1>1, <1>2, <1>3, <1>4, <1>5, <1>6, <1>7, <1>8, <1>9, <1>10, <1>11, <1>12, <1>13,
     <1>14, <1>15, <1>16, <1>17, <1>18, <1>19, <1>20, <1>21, <1>22, <1>23, <1>24, <1>25
  DEF Next, Step

\* The inductive invariant holds throughout.
THEOREM Invariance == Spec => []IInv
<1>1. Init => IInv
  BY InitIInv
<1>2. IInv /\ [Next]_vars => IInv'
  BY NextIInv
<1> QED
  BY <1>1, <1>2, PTL DEF Spec

\* Every variable keeps its type; in particular a batch never outgrows
\* batch_commit_size, after which do_commit would miss its multiple.
THEOREM TypeCorrect == Spec => []TypeOK
<1>1. IInv => TypeOK
  BY DEF IInv
<1> QED
  BY <1>1, Invariance, PTL

\* Whatever fails, is killed, is deleted or is restored, with or without
\* end-of-partition events, a view is counted at most once more than there were error
\* events: without any, no view is counted twice.
THEOREM OvercountIsBounded == Spec => []OvercountBounded
<1>1. IInv => OvercountBounded
  BY DEF IInv, RowInv, NotOver, OvercountBounded
<1> QED
  BY <1>1, Invariance, PTL

\* The views of unknown content up to an offset are among all those of the log.
LEMMA UnknownUpTo ==
    ASSUME log \in Seq(Messages), NEW r \in Int
    PROVE  /\ Cardinality(OffsetsOf(log, Views \ Known, r)) <= Cardinality(Unknown)
           /\ Cardinality(Unknown) \in Nat
<1> DEFINE S == OffsetsOf(log, Views \ Known, r)
           f == [o \in S |-> o + 1]
<1>1. IsFiniteSet(Unknown)
  <2>1. IsFiniteSet(1 .. Len(log))
    BY FS_Interval
  <2>2. Unknown \subseteq 1 .. Len(log)
    BY DEF Unknown
  <2> QED
    BY <2>1, <2>2, FS_Subset
<1>2. \A o \in S : o \in Nat /\ o + 1 \in Unknown
  BY DEF OffsetsOf, Unknown
<1>3. f \in Injection(S, Unknown)
  <2>1. f \in [S -> Unknown] /\ \A o \in S : f[o] = o + 1
    BY <1>2
  <2>2. \A o, p \in S : f[o] = f[p] => o = p
    BY <1>2, <2>1
  <2> HIDE DEF f, S
  <2> QED
    BY <2>1, <2>2 DEF Injection, IsInjective
<1>4. Cardinality(S) <= Cardinality(Unknown)
  BY <1>1, <1>3, FS_Injection
<1> QED
  BY <1>1, <1>4, FS_CardinalityType

\* While nothing is deleted, what is missing between two batches is explained: a view
\* of unknown content costs at most the rest of a batch, once more with every error
\* event, a failing statement at most a batch, and a stop at most one message where
\* end-of-partition or error events are delivered.
THEOREM LossIsBounded == Spec => []LossBounded
<1>1. ASSUME IInv
      PROVE  LossBounded
  <2> DEFINE c == Cardinality(Unknown)
             n == (BatchSize - 1) * ((1 + errors) * c) + BatchSize * faults
                    + (IF PartitionEof \/ errors > 0 THEN stops ELSE 0)
  <2>1. /\ db.ref \in Int /\ pos \in Int /\ pos - 1 \in Int /\ db.counts \in Accounts
        /\ faults \in Nat /\ stops \in Nat /\ errors \in Nat /\ Skipped \in Nat
        /\ log \in Seq(Messages) /\ Len(log) \in Nat /\ BatchSize - 1 \in Nat
        /\ Skipped = IF PartitionEof \/ errors > 0 THEN stops ELSE 0
    BY <1>1, Typed, CConstantsAssumption DEF IInv, Skipped, Ahead
  <2>2. c \in Nat /\ (1 + errors) * c = c + errors * c /\ errors * c \in Nat
    BY <2>1, UnknownUpTo, Products
  <2>3. /\ (BatchSize - 1) * (c + errors * c) \in Nat /\ BatchSize * faults \in Nat
        /\ n = (BatchSize - 1) * (c + errors * c) + BatchSize * faults + Skipped
        /\ n \in Nat
    <3>1. (BatchSize - 1) * (c + errors * c) \in Nat /\ BatchSize * faults \in Nat
      <4> HIDE DEF c, n
      <4>1. c + errors * c \in Nat /\ BatchSize \in Nat
        BY <2>2, CConstantsAssumption
      <4> QED
        BY <2>1, <4>1, Products
    <3>2. n = (BatchSize - 1) * (c + errors * c) + BatchSize * faults + Skipped
      BY <2>1, <2>2
    <3> HIDE DEF n
    <3> QED
      BY <2>1, <3>1, <3>2
  <2>4. SUFFICES ASSUME logStart = 0, uncommitted_count = 0, pos > db.ref
                 PROVE  Within(log, db.counts, db.ref, n)
    <3>1. \A v \in Views : db.counts[v] \in Nat /\ Tally(log, v, db.ref) \in Nat
      BY <2>1, OffsetsType DEF Tally, Accounts
    <3>2. \A k \in Nat :
            k + n = k + (BatchSize - 1) * ((1 + errors) * c) + BatchSize * faults
                      + (IF PartitionEof \/ errors > 0 THEN stops ELSE 0)
      <4> DEFINE x == (BatchSize - 1) * ((1 + errors) * c)
                 y == BatchSize * faults
                 z == IF PartitionEof \/ errors > 0 THEN stops ELSE 0
      <4>1. x \in Nat /\ y \in Nat /\ z \in Nat /\ n = x + y + z
        BY <2>1, <2>2, <2>3
      <4> HIDE DEF x, y, z, n
      <4>2. \A k \in Nat : k + n = k + x + y + z
        BY <4>1
      <4> QED
        BY <4>2 DEF x, y, z
    <3> HIDE DEF n, c
    <3> QED
      BY <3>1, <3>2 DEF LossBounded, Within, c
  <2> HIDE DEF c
  <2>5. ASSUME NEW r \in Int
        PROVE  /\ Allowance(log, r, faults, Skipped, errors) <= n
               /\ Allowance(log, r, faults, Skipped, errors) \in Int
    <3> DEFINE a == Bad(log, r) + errors * Bad(log, Len(log) - 1)
    <3>1. /\ Bad(log, r) \in Nat /\ Bad(log, Len(log) - 1) \in Nat /\ a \in Nat
          /\ Bad(log, r) <= c /\ Bad(log, Len(log) - 1) <= c
      <4>1. Bad(log, r) <= c /\ Bad(log, Len(log) - 1) <= c
        <5>1. Len(log) - 1 \in Int
          BY <2>1
        <5>2. \A q \in Int : Bad(log, q) <= c
          BY <2>1, UnknownUpTo DEF Bad, c
        <5> QED
          BY <5>1, <5>2
      <4> QED
        BY <2>1, <4>1, BadType, OwedType
    <3>2. errors * Bad(log, Len(log) - 1) <= errors * c
          /\ errors * Bad(log, Len(log) - 1) \in Nat
      BY <2>1, <2>2, <3>1, Products
    <3>3. a <= c + errors * c /\ c + errors * c \in Nat
      BY <2>2, <3>1, <3>2
    <3>4. Owed(log, r, errors) = (BatchSize - 1) * a
      BY DEF Owed
    <3> HIDE DEF a
    <3>5. (BatchSize - 1) * a <= (BatchSize - 1) * (c + errors * c)
          /\ (BatchSize - 1) * a \in Nat
      BY <2>1, <3>1, <3>3, Products
    <3>6. /\ Allowance(log, r, faults, Skipped, errors)
                = Owed(log, r, errors) + BatchSize * faults + Skipped
          /\ Allowance(log, r, faults, Skipped, errors) \in Int
      BY <2>1, AllowanceType
    <3> HIDE DEF n
    <3> QED
      BY <2>1, <2>3, <3>4, <3>5, <3>6
  <2> HIDE DEF n
  <2>6. ASSUME NEW r \in Int, db.ref <= r,
               Within(log, db.counts, r, Allowance(log, r, faults, Skipped, errors))
        PROVE  Within(log, db.counts, db.ref, n)
    <3>1. /\ Allowance(log, r, faults, Skipped, errors) <= n
          /\ Allowance(log, r, faults, Skipped, errors) \in Int
      BY <2>5
    <3>2. n \in Int
      BY <2>3
    <3> QED
      BY <2>1, <2>6, <3>1, <3>2, WithinMore
  <2>7. CASE ~proc_running
    <3>1. db.ref <= db.ref
      BY <2>1
    <3> QED
      BY <1>1, <2>1, <2>4, <2>6, <2>7, <3>1, RowLossDown
  <2>8. CASE proc_running
    <3>1. pc \in {"loop", "check"} /\ txn = "none"
      BY <1>1, <2>4, <2>8 DEF IInv, TypeOK, BatchInv
    <3>2. Within(log, db.counts, pos - 1,
                 Allowance(log, pos - 1, faults, Skipped, errors))
      BY <1>1, <2>4, <2>8, <3>1, LoopLoss
    <3>3. db.ref <= pos - 1
      BY <2>1, <2>4
    <3> QED
      BY <2>1, <2>6, <3>2, <3>3
  <2> QED
    BY <2>7, <2>8
<1> QED
  BY <1>1, Invariance, PTL

\* Statements that fail, error events and messages that are deleted stay within their
\* bounds.
WithinBounds == logStart <= MaxTrims /\ faults <= MaxFaults /\ errors <= MaxErrors

LEMMA Bounds == Spec => []WithinBounds
<1>1. Init => WithinBounds
  BY CConstantsAssumption DEF Init, WithinBounds
<1>2. ASSUME IInv, WithinBounds, [Next]_vars
      PROVE  WithinBounds'
  <2> USE <1>2 DEF WithinBounds
  <2>1. /\ logStart \in Nat /\ faults \in Nat /\ errors \in Nat
        /\ MaxTrims \in Nat /\ MaxFaults \in Nat /\ MaxErrors \in Nat
    BY Typed, CConstantsAssumption DEF IInv
  <2>2. CASE Trim
    BY <2>1, <2>2 DEF Trim, boundVars
  <2>3. CASE ReadViewFault
    BY <2>1, <2>3 DEF ReadViewFault, JoinBatch, kafkaVars
  <2>4. ASSUME NEW late \in BOOLEAN, SetRefFault(late) PROVE WithinBounds'
    BY <2>1, <2>4 DEF SetRefFault, BatchDone, kafkaVars
  <2>5. CASE UNCHANGED <<logStart, faults, errors>>
    BY <2>5
  <2>6. CASE SearchError
    BY <2>1, <2>6 DEF SearchError, kafkaVars
  <2>7. ASSUME NEW o \in ErrorOffsets, ReadError(o) PROVE WithinBounds'
    BY <2>1, <2>7 DEF ReadError, kafkaVars
  <2>8. \/ UNCHANGED <<logStart, faults, errors>>
        \/ Trim \/ ReadViewFault \/ SearchError
        \/ \E late \in BOOLEAN : SetRefFault(late)
        \/ \E o \in ErrorOffsets : ReadError(o)
    BY Zenon
    DEF Next, Step, vars, kafkaVars, boundVars, Publish, Backup, Restore, Launch, Kill,
        Interrupt, Exit, SearchNothing, SearchStep, SearchFails, EnterLoop, ReadView,
        BeginFails, JoinBatch, ReadOther, ReadEnd, ReadNothing, NotDue, CommitBatch,
        CommitFails, BatchDone
  <2> QED
    BY <2>2, <2>3, <2>4, <2>5, <2>6, <2>7, <2>8
<1> QED
  BY <1>1, <1>2, Invariance, PTL DEF Spec

\* Where nothing can fail but the process, an open transaction holds exactly the views
\* that have been read, all of them behind the reference.
LEMMA ExactWork ==
    ASSUME IInv, pc = "check", uncommitted_count > 0, txn = "open",
           logStart = 0, faults = 0, errors = 0, ~PartitionEof, Known = Views
    PROVE  /\ lastoffset \in Nat /\ lastoffset < Len(log) /\ db.ref < lastoffset
           /\ \A v \in Views : work[v] = Tally(log, v, lastoffset)
<1>1. /\ pos \in Nat /\ lastoffset \in Nat /\ Len(log) \in Nat /\ work \in Accounts
      /\ pc \in Reading /\ lastoffset <= lastoffset
  BY Typed DEF IInv, Reading
<1>2. ~Ahead /\ Excused = 0 /\ Slack = 0
  <2>1. ~Ahead
    BY DEF Ahead
  <2> QED
    BY <2>1, SlackType DEF Excused, IInv
<1>3. lastoffset = pos - 1 /\ db.ref < lastoffset
  BY <1>1, <1>2 DEF IInv, ReadInv
<1>4. Within(log, work, lastoffset, Allowance(log, lastoffset, 0, 0, 0))
  BY <1>1, <1>2, <1>3 DEF IInv, LossInv, ReadLoss
<1>5. Allowance(log, lastoffset, 0, 0, 0) = 0
  <2>1. \A r : OffsetsOf(log, Views \ Known, r) = {}
    BY DEF OffsetsOf
  <2>2. \A r : Bad(log, r) = 0
    BY <2>1, FS_EmptySet DEF Bad
  <2>3. (BatchSize - 1) * (0 + 0 * 0) + BatchSize * 0 + 0 = 0
    BY CConstantsAssumption
  <2> QED
    BY <2>2, <2>3 DEF Allowance
<1>6. \A v \in Views : /\ Tally(log, v, lastoffset) \in Nat
                        /\ 0 * Tally(log, v, Len(log) - 1) = 0
  BY <1>1, OffsetsType DEF Tally
<1>7. lastoffset < Len(log)
  BY <1>1, <1>3 DEF IInv, BatchInv
<1>8. NotOver(log, work, lastoffset, 0)
  BY <1>1, <1>2, <1>3 DEF IInv, ReadInv
<1> QED
  BY <1>1, <1>3, <1>4, <1>5, <1>6, <1>7, <1>8 DEF NotOver, Within, Accounts

\* Only a commit, and a restore, change the row.
LEMMA RowChange ==
    ASSUME IInv, [Next]_vars
    PROVE  \/ \E m \in Messages : Publish(m)
           \/ Backup
           \/ Restore
           \/ UNCHANGED <<log, db, backup>>
           \/ /\ pc = "check" /\ uncommitted_count > 0 /\ txn = "open"
              /\ db' = [ref |-> lastoffset, counts |-> work] /\ UNCHANGED <<log, backup>>
<1>1. ASSUME NEW late \in BOOLEAN, CommitBatch(late) \/ CommitFails(late)
      PROVE  \/ UNCHANGED <<log, db, backup>>
             \/ /\ pc = "check" /\ uncommitted_count > 0 /\ txn = "open"
                /\ db' = [ref |-> lastoffset, counts |-> work] /\ UNCHANGED <<log, backup>>
  <2>1. /\ pc = "check" /\ uncommitted_count > 0 /\ UNCHANGED <<log, backup>>
        /\ db' = db \/ db' = Committed
    BY <1>1 DEF CommitBatch, CommitFails, CommitDue, BatchDone, kafkaVars
  <2> QED
    BY <2>1 DEF Committed
<1>2. CASE ~\E late \in BOOLEAN : CommitBatch(late) \/ CommitFails(late)
  BY <1>2, Zenon
  DEF Next, Step, vars, kafkaVars, dbVars, Trim, Launch, Kill, Interrupt, Exit,
      SearchNothing, SearchStep, SearchError, SearchFails, EnterLoop, ReadView,
      ReadViewFault, ReadError, BeginFails, JoinBatch, ReadOther, ReadEnd, ReadNothing, NotDue, SetRefFault,
      BatchDone
<1> QED
  BY <1>1, <1>2

\* Where no statement can fail, librdkafka delivers neither error nor end-of-partition
\* events, every content is known and retention deletes nothing, the consumer implements the ledger for any number of stops, commits
\* that fail before or after they took effect, and restores: what a reader of the
\* database sees are counters posted forward over a prefix of the log.
THEOREM ImplementsLedger ==
    ASSUME MaxTrims = 0, MaxFaults = 0, MaxErrors = 0, ~PartitionEof, Known = Views
    PROVE  Spec => Refinement
<1>1. Init => Ledger!Init
  BY DEF Init, Ledger!Init, Ledger!Blank, ZeroCounts, NoRow
<1>2. ASSUME IInv, WithinBounds, [Next]_vars
      PROVE  [Ledger!Next]_(Ledger!vars)
  <2>0. logStart = 0 /\ faults = 0 /\ errors = 0
    BY <1>2, Typed DEF IInv, WithinBounds
  <2>1. CASE \E m \in Messages : Publish(m)
    BY <2>1 DEF Publish, dbVars, Messages, Ledger!Next, Ledger!Publish
  <2>2. CASE Backup
    BY <2>2 DEF Backup, kafkaVars, Ledger!Next, Ledger!TakeBackup
  <2>3. CASE Restore
    BY <2>3 DEF Restore, kafkaVars, Ledger!Next, Ledger!Restore
  <2>4. CASE UNCHANGED <<log, db, backup>>
    BY <2>4 DEF Ledger!vars
  <2>5. ASSUME pc = "check", uncommitted_count > 0, txn = "open",
               db' = [ref |-> lastoffset, counts |-> work], UNCHANGED <<log, backup>>
        PROVE  Ledger!Next
    <3> DEFINE r == lastoffset
    <3>1. /\ r \in Nat /\ r < Len(log) /\ db.ref < r /\ Len(log) \in Nat
          /\ \A v \in Views : work[v] = Tally(log, v, r)
          /\ log \in Seq(Messages) /\ work \in Accounts /\ db.ref \in Int
      BY <1>2, <2>0, <2>5, ExactWork, Typed DEF IInv
    <3>2. r \in [c \in {Content} |-> db][Content].ref + 1 .. Len(log) - 1
      BY <3>1
    <3>3. \A o \in 0 .. r : log[o + 1] \in Known \cup {Other}
      BY <3>1 DEF Messages
    <3>4. ASSUME NEW v \in Views
          PROVE  work[v] = Ledger!Cardinality(Ledger!Posted(Content, v, r))
      <4>1. OffsetsOf(log, {v} \cap Known, r) = Ledger!Posted(Content, v, r)
        BY <3>1 DEF OffsetsOf, Ledger!Posted
      <4> QED
        <5>1. Tally(log, v, r) = Ledger!Cardinality(Ledger!Posted(Content, v, r))
          BY <4>1, Zenon DEF Tally, Cardinality, Ledger!Cardinality
        <5> QED
          BY <3>1, <5>1, Zenon
    <3>5. work = [v \in Views |-> Ledger!Cardinality(Ledger!Posted(Content, v, r))]
      BY <3>1, <3>4 DEF Accounts
    <3>6. Ledger!Post(Content, r)
      <4>1. [c \in {Content} |-> db'] = [[c \in {Content} |-> db] EXCEPT ![Content] =
               [ref |-> r,
                counts |-> [v \in Views |->
                              Ledger!Cardinality(Ledger!Posted(Content, v, r))]]]
        <5>1. db' = [ref |-> r,
                     counts |-> [v \in Views |->
                                   Ledger!Cardinality(Ledger!Posted(Content, v, r))]]
          BY <2>5, <3>5, Zenon
        <5> QED
          BY <5>1
      <4> QED
        BY <2>5, <3>3, <4>1, Zenon DEF Ledger!Post
    <3> QED
      BY <3>2, <3>6 DEF Ledger!Next
  <2> QED
    BY <1>2, <2>1, <2>2, <2>3, <2>4, <2>5, RowChange
<1> QED
  BY <1>1, <1>2, Invariance, Bounds, PTL DEF Spec, Refinement, Ledger!Spec

=============================================================================

------------------------ MODULE PageviewConsumerProofs ------------------------
(***************************************************************************)
(* Proofs about the C++ consumer, for any number of statistics, any batch  *)
(* size and any number of messages, errors, restores, timeouts and         *)
(* deletions.                                                              *)
(***************************************************************************)
EXTENDS PageviewConsumer, FiniteSetTheorems, TLAPS

-----------------------------------------------------------------------------
(* The inductive invariant                                                 *)

\* Counters w, with reference r, account for log l of which offsets below s are
\* deleted: they are short of no view while nothing is deleted, exceed the views
\* by at most n, and pass no retained message that could not be counted.
Accounted(l, s, n, c, r, w) ==
    /\ r < Len(l)
    /\ \A k \in Keys : w[k] <= Tally(l, c, k, r) + n
    /\ s = 0 => \A k \in Keys : w[k] >= Tally(l, c, k, r)
    /\ \A o \in s .. r : ~Poison(l[o + 1])

\* The fetch of Start timed out and its message is still to be read again
Replaying(c) == pos[c] <= kcRef[c]

\* What a thread knows between two messages: its open transaction accounts for
\* the log up to its own reference, which is not behind the committed one, and
\* it fetches next what follows, the message itself if Start timed out, or what
\* retention has left.
ThreadInv(c) ==
    pc[c] \in Attached =>
        /\ Accounted(log, logStart,
                     IF Replaying(c) THEN slowStarts - 1 ELSE slowStarts,
                     c, kcRef[c], work[c])
        /\ kcRef[c] <= pos[c]
        /\ pos[c] <= Len(log)
        /\ pos[c] <= kcRef[c] + 1 \/ pos[c] <= logStart
        /\ db[c].ref <= kcRef[c] \/ db[c].ref = NoRow
        /\ msgCounter[c] > 0 => kcRef[c] # OFFSET_BEGINNING
        /\ pc[c] \in {"batch", "timed"} => msgCounter[c] > 0

\* What holds of one statistic: its row and its row in the dump account for the
\* log, and so does the open transaction of its thread.
ConsumerInv(c) ==
    /\ Accounted(log, logStart, slowStarts, c, db[c].ref, db[c].counts)
    /\ Accounted(log, logStart, slowStarts, c, backup[c].ref, backup[c].counts)
    /\ pc[c] = "start" => kcRef[c] = SourceRef(c)
    /\ ThreadInv(c)

IInv ==
    /\ TypeOK
    /\ logStart <= Len(log)
    /\ \A c \in Consumers : ConsumerInv(c)

-----------------------------------------------------------------------------
(* Tallies                                                                 *)

\* The views up to an offset are finitely many, so a tally is a number.
LEMMA TallyType ==
    ASSUME NEW l, NEW c, NEW k, NEW r \in Int
    PROVE  /\ IsFiniteSet(ViewsUpTo(l, c, k, r))
           /\ Tally(l, c, k, r) \in Nat
<1>1. IsFiniteSet(0 .. r)
  BY FS_Interval
<1>2. ViewsUpTo(l, c, k, r) \subseteq 0 .. r
  BY DEF ViewsUpTo
<1>3. IsFiniteSet(ViewsUpTo(l, c, k, r))
  BY <1>1, <1>2, FS_Subset
<1> QED
  BY <1>3, FS_CardinalityType DEF Tally

\* Before the first message there is nothing to count.
LEMMA TallyEmpty ==
    ASSUME NEW l, NEW c, NEW k, NEW r \in Int, r < 0
    PROVE  Tally(l, c, k, r) = 0
<1>1. ViewsUpTo(l, c, k, r) = {}
  BY DEF ViewsUpTo
<1> QED
  BY <1>1, FS_EmptySet DEF Tally

\* Whether the message at offset o increments counter k of consumer c
Matches(l, c, k, o) == l[o + 1] \in Known /\ KeyOf[c][l[o + 1]] = k

\* Going forward to a message gains it, and loses nothing.
LEMMA TallyForward ==
    ASSUME NEW l, NEW c, NEW k, NEW r \in Int, NEW o \in Nat, r < o
    PROVE  Tally(l, c, k, o) >=
             Tally(l, c, k, r) + (IF Matches(l, c, k, o) THEN 1 ELSE 0)
<1> DEFINE R == ViewsUpTo(l, c, k, r)
           O == ViewsUpTo(l, c, k, o)
<1>1. IsFiniteSet(R) /\ IsFiniteSet(O)
  BY TallyType
<1>2. Cardinality(R) \in Nat /\ Cardinality(O) \in Nat
  BY <1>1, FS_CardinalityType
<1>3. R \subseteq O
  BY DEF ViewsUpTo
<1>4. CASE Matches(l, c, k, o)
  <2>1. o \notin R
    BY DEF ViewsUpTo
  <2>2. R \cup {o} \subseteq O
    BY <1>3, <1>4 DEF ViewsUpTo, Matches
  <2>3. Cardinality(R \cup {o}) = Cardinality(R) + 1
    BY <1>1, <2>1, FS_AddElement
  <2>4. Cardinality(R \cup {o}) <= Cardinality(O)
    BY <1>1, <2>2, FS_Subset
  <2> QED
    BY <1>2, <1>4, <2>3, <2>4 DEF Tally
<1>5. CASE ~Matches(l, c, k, o)
  <2>1. Cardinality(R) <= Cardinality(O)
    BY <1>1, <1>3, FS_Subset
  <2> QED
    BY <1>2, <1>5, <2>1 DEF Tally
<1> QED
  BY <1>4, <1>5

\* The next message, or the first one, is the only gain there can be.
LEMMA TallyNext ==
    ASSUME NEW l, NEW c, NEW k, NEW r \in Int, NEW o \in Nat,
           o <= r + 1 \/ o = 0
    PROVE  Tally(l, c, k, o) <=
             Tally(l, c, k, r) + (IF Matches(l, c, k, o) THEN 1 ELSE 0)
<1> DEFINE R == ViewsUpTo(l, c, k, r)
           O == ViewsUpTo(l, c, k, o)
<1>1. IsFiniteSet(R) /\ IsFiniteSet(O)
  BY TallyType
<1>2. Cardinality(R) \in Nat /\ Cardinality(O) \in Nat
  BY <1>1, FS_CardinalityType
<1>3. CASE Matches(l, c, k, o) /\ o \notin R
  <2>1. O \subseteq R \cup {o}
    BY DEF ViewsUpTo
  <2>2. IsFiniteSet(R \cup {o}) /\ Cardinality(R \cup {o}) = Cardinality(R) + 1
    BY <1>1, <1>3, FS_AddElement
  <2>3. Cardinality(O) <= Cardinality(R \cup {o})
    BY <2>1, <2>2, FS_Subset
  <2> QED
    BY <1>2, <1>3, <2>2, <2>3 DEF Tally
<1>4. CASE ~Matches(l, c, k, o) \/ o \in R
  <2>1. O \subseteq R
    BY <1>4 DEF ViewsUpTo, Matches
  <2>2. Cardinality(O) <= Cardinality(R)
    BY <1>1, <2>1, FS_Subset
  <2> QED
    BY <1>2, <2>2 DEF Tally
<1> QED
  BY <1>3, <1>4

\* Publishing changes no tally of what was there.
LEMMA TallyAppend ==
    ASSUME NEW S, NEW l \in Seq(S), NEW m \in S, NEW c, NEW k,
           NEW r \in Int, r < Len(l)
    PROVE  Tally(Append(l, m), c, k, r) = Tally(l, c, k, r)
<1>1. \A o \in 0 .. r : Append(l, m)[o + 1] = l[o + 1]
  OBVIOUS
<1>2. ViewsUpTo(Append(l, m), c, k, r) = ViewsUpTo(l, c, k, r)
  BY <1>1 DEF ViewsUpTo
<1> QED
  BY <1>2 DEF Tally

-----------------------------------------------------------------------------
(* Accounts                                                                *)

Accounts == [Keys -> Nat]

\* Counting a message keeps counters numbers, and adds one to its own key.
LEMMA CountedType ==
    ASSUME NEW c \in Consumers, NEW w \in Accounts, NEW m \in Messages
    PROVE  /\ Counted(c, w, m) \in Accounts
           /\ \A k \in Keys : Counted(c, w, m)[k] =
                w[k] + (IF m \in Known /\ KeyOf[c][m] = k THEN 1 ELSE 0)
BY ConstantsAssumption DEF Counted, Accounts

\* An account stays one when the log grows, when retention deletes more, and
\* when more timeouts are allowed for.
LEMMA AccountedStable ==
    ASSUME NEW l \in Seq(Messages), NEW l2 \in Seq(Messages),
           l2 = l \/ \E m \in Messages : l2 = Append(l, m),
           NEW s \in Nat, NEW s2 \in Nat, s <= s2,
           NEW n \in Int, NEW n2 \in Int, n <= n2,
           NEW c, NEW r \in Int, NEW w \in Accounts,
           Accounted(l, s, n, c, r, w)
    PROVE  Accounted(l2, s2, n2, c, r, w)
<1>1. r < Len(l) /\ r < Len(l2)
  BY DEF Accounted
<1>2. ASSUME NEW k \in Keys
      PROVE  Tally(l2, c, k, r) = Tally(l, c, k, r)
  <2>1. CASE l2 = l
    BY <2>1
  <2>2. ASSUME NEW m \in Messages, l2 = Append(l, m)
        PROVE  Tally(l2, c, k, r) = Tally(l, c, k, r)
    BY <1>1, <2>2, TallyAppend
  <2> QED
    BY <2>1, <2>2
<1>3. \A k \in Keys : Tally(l, c, k, r) \in Nat
  BY TallyType
<1>4. \A k \in Keys : w[k] <= Tally(l2, c, k, r) + n2
  BY <1>2, <1>3 DEF Accounted, Accounts
<1>5. s2 = 0 => \A k \in Keys : w[k] >= Tally(l2, c, k, r)
  BY <1>2 DEF Accounted
<1>6. \A o \in s2 .. r : l2[o + 1] = l[o + 1]
  BY <1>1
<1>7. \A o \in s2 .. r : ~Poison(l2[o + 1])
  BY <1>6 DEF Accounted
<1> QED
  BY <1>1, <1>4, <1>5, <1>7 DEF Accounted

\* Reading a message beyond the reference keeps the account: the message
\* follows the reference, or nothing between the two is retained.
LEMMA AccountedForward ==
    ASSUME NEW l \in Seq(Messages), NEW s \in Nat, NEW n \in Int,
           NEW c \in Consumers, NEW r \in Int, NEW w \in Accounts,
           Accounted(l, s, n, c, r, w),
           NEW o \in Nat, r < o, s <= o, o < Len(l), o <= r + 1 \/ o <= s,
           ~Poison(l[o + 1])
    PROVE  Accounted(l, s, n, c, o, Counted(c, w, l[o + 1]))
<1> DEFINE m == l[o + 1]
           v == Counted(c, w, m)
<1>1. m \in Messages
  OBVIOUS
<1>2. \A k \in Keys : v[k] = w[k] + (IF Matches(l, c, k, o) THEN 1 ELSE 0)
  BY <1>1, CountedType DEF Matches
<1>3. \A k \in Keys : w[k] \in Nat
  BY DEF Accounts
<1>4. \A k \in Keys : Tally(l, c, k, r) \in Nat /\ Tally(l, c, k, o) \in Nat
  BY TallyType
<1>5. ASSUME NEW k \in Keys
      PROVE  v[k] <= Tally(l, c, k, o) + n
  <2>1. w[k] <= Tally(l, c, k, r) + n
    BY DEF Accounted
  <2>2. Tally(l, c, k, o) >=
          Tally(l, c, k, r) + (IF Matches(l, c, k, o) THEN 1 ELSE 0)
    BY TallyForward
  <2> HIDE DEF v
  <2> QED
    BY <1>2, <1>3, <1>4, <2>1, <2>2
<1>6. ASSUME s = 0, NEW k \in Keys
      PROVE  v[k] >= Tally(l, c, k, o)
  <2>1. w[k] >= Tally(l, c, k, r)
    BY <1>6 DEF Accounted
  <2>2. Tally(l, c, k, o) <=
          Tally(l, c, k, r) + (IF Matches(l, c, k, o) THEN 1 ELSE 0)
    BY <1>6, TallyNext
  <2> HIDE DEF v
  <2> QED
    BY <1>2, <1>3, <1>4, <2>1, <2>2
<1>7. \A p \in s .. o : ~Poison(l[p + 1])
  BY DEF Accounted
<1> QED
  BY <1>5, <1>6, <1>7 DEF Accounted

\* Reading the message of the reference itself once more costs one.
LEMMA AccountedAgain ==
    ASSUME NEW l \in Seq(Messages), NEW s \in Nat, NEW n \in Int,
           NEW c \in Consumers, NEW o \in Nat, NEW w \in Accounts,
           Accounted(l, s, n - 1, c, o, w)
    PROVE  Accounted(l, s, n, c, o, Counted(c, w, l[o + 1]))
<1> DEFINE v == Counted(c, w, l[o + 1])
<1>1. l[o + 1] \in Messages
  BY DEF Accounted
<1>2. \A k \in Keys : w[k] \in Nat /\ v[k] \in Nat
                       /\ w[k] <= v[k] /\ v[k] <= w[k] + 1
  BY <1>1, CountedType DEF Accounts
<1>3. \A k \in Keys : Tally(l, c, k, o) \in Nat
  BY TallyType
<1> HIDE DEF v
<1>4. \A k \in Keys : v[k] <= Tally(l, c, k, o) + n
  BY <1>2, <1>3 DEF Accounted
<1>5. s = 0 => \A k \in Keys : v[k] >= Tally(l, c, k, o)
  BY <1>2, <1>3 DEF Accounted
<1> QED
  BY <1>4, <1>5 DEF Accounted, v

\* An account at no row is one at the beginning of the log.
LEMMA AccountedAtBeginning ==
    ASSUME NEW l \in Seq(Messages), NEW s \in Nat, NEW n \in Int, NEW c,
           NEW w, Accounted(l, s, n, c, NoRow, w)
    PROVE  Accounted(l, s, n, c, OFFSET_BEGINNING, w)
<1>1. \A k \in Keys : Tally(l, c, k, NoRow) = Tally(l, c, k, OFFSET_BEGINNING)
  BY TallyEmpty DEF NoRow, OFFSET_BEGINNING
<1> QED
  BY <1>1 DEF Accounted, NoRow, OFFSET_BEGINNING

-----------------------------------------------------------------------------
(* The inductive invariant                                                 *)

Rows == [ref : Nat \cup {NoRow}, counts : [Keys -> Nat]]

\* A statistic that a step leaves alone keeps its invariant while the log
\* grows, retention deletes and another thread's Start times out.
LEMMA Undisturbed ==
    ASSUME TypeOK, TypeOK', NEW c \in Consumers, ConsumerInv(c),
           log' = log \/ \E m \in Messages : log' = Append(log, m),
           logStart <= logStart', slowStarts <= slowStarts',
           db'[c] = db[c], backup'[c] = backup[c], pc'[c] = pc[c],
           kcRef'[c] = kcRef[c], pos'[c] = pos[c],
           msgCounter'[c] = msgCounter[c], work'[c] = work[c]
    PROVE  ConsumerInv(c)'
<1>1. /\ log \in Seq(Messages) /\ log' \in Seq(Messages)
      /\ logStart \in Nat /\ logStart' \in Nat
      /\ slowStarts \in Nat /\ slowStarts' \in Nat
      /\ db[c].ref \in Int /\ db[c].counts \in Accounts
      /\ backup[c].ref \in Int /\ backup[c].counts \in Accounts
      /\ kcRef[c] \in Int /\ work[c] \in Accounts /\ pos[c] \in Nat
  BY DEF TypeOK, Accounts, NoRow, OFFSET_BEGINNING
<1>2. Accounted(log', logStart', slowStarts', c, db[c].ref, db[c].counts)
  <2>1. Accounted(log, logStart, slowStarts, c, db[c].ref, db[c].counts)
    BY DEF ConsumerInv
  <2> QED
    BY <1>1, <2>1, AccountedStable, SMTT(30)
<1>3. Accounted(log', logStart', slowStarts', c,
                backup[c].ref, backup[c].counts)
  <2>1. Accounted(log, logStart, slowStarts, c, backup[c].ref, backup[c].counts)
    BY DEF ConsumerInv
  <2> QED
    BY <1>1, <2>1, AccountedStable, SMTT(30)
<1>4. ThreadInv(c)'
  <2>1. SUFFICES ASSUME pc[c] \in Attached PROVE ThreadInv(c)'
    BY DEF ThreadInv
  <2> DEFINE n == IF Replaying(c) THEN slowStarts - 1 ELSE slowStarts
             n2 == IF Replaying(c) THEN slowStarts' - 1 ELSE slowStarts'
  <2>2. n \in Int /\ n2 \in Int /\ n <= n2
    BY <1>1
  <2>3. Accounted(log, logStart, n, c, kcRef[c], work[c])
    BY <2>1 DEF ConsumerInv, ThreadInv
  <2>4. Accounted(log', logStart', n2, c, kcRef[c], work[c])
    <3> HIDE DEF n, n2
    <3> QED
      BY <1>1, <2>2, <2>3, AccountedStable, SMTT(30)
  <2>5. Len(log) <= Len(log')
    BY <1>1
  <2>6. /\ pos'[c] <= Len(log')
        /\ pos'[c] <= kcRef'[c] + 1 \/ pos'[c] <= logStart'
    BY <1>1, <2>1, <2>5 DEF ConsumerInv, ThreadInv, Accounted
  <2> QED
    BY <2>1, <2>4, <2>6 DEF ConsumerInv, ThreadInv, Replaying
<1> QED
  BY <1>2, <1>3, <1>4 DEF SourceRef, ConsumerInv

\* When the process is gone, only the database has to account for the log.
LEMMA ExitInv ==
    ASSUME TypeOK', ProcessExit, UNCHANGED kafkaVars,
           slowStarts' = slowStarts, backup' = backup,
           NEW c \in Consumers, ConsumerInv(c),
           Accounted(log, logStart, slowStarts, c, db'[c].ref, db'[c].counts)
    PROVE  ConsumerInv(c)'
<1>1. pc'[c] = "down"
  BY DEF ProcessExit
<1> QED
  BY <1>1 DEF ConsumerInv, ThreadInv, Attached, kafkaVars

\* Every step keeps the types.  A commit needs more than the types before it:
\* its reference is an offset because its transaction holds a message.
LEMMA TypeStep ==
    ASSUME IInv, [Next]_vars
    PROVE  TypeOK'
<1> USE DEF kafkaVars, dbVars, threadVars, boundVars
<1>0. TypeOK
  BY DEF IInv
<1>1. CASE UNCHANGED vars
  BY <1>0, <1>1 DEF TypeOK, vars
<1>2. ASSUME NEW m \in Messages, Publish(m) PROVE TypeOK'
  BY <1>0, <1>2 DEF TypeOK, Publish
<1>3. CASE Trim
  BY <1>0, <1>3 DEF TypeOK, Trim
<1>4. CASE Backup
  BY <1>0, <1>4 DEF TypeOK, Backup
<1>5. CASE Restore
  BY <1>0, <1>5 DEF TypeOK, Restore
<1>6. CASE Launch
  BY <1>0, <1>6 DEF TypeOK, Launch, Places
<1>7. ASSUME ProcessExit
      PROVE  /\ running' \in BOOLEAN
             /\ pc' \in [Consumers -> Places]
             /\ kcRef' \in [Consumers -> Nat \cup {OFFSET_BEGINNING}]
             /\ pos' \in [Consumers -> Nat]
             /\ msgCounter' \in [Consumers -> Nat]
             /\ due' \in [Consumers -> BOOLEAN]
             /\ work' \in [Consumers -> [Keys -> Nat]]
  BY <1>7 DEF ProcessExit, Places, ZeroCounts
<1>8. CASE Exit
  BY <1>0, <1>7, <1>8 DEF TypeOK, Exit
<1>9. CASE GracefulShutdown
  <2>1. /\ running' \in BOOLEAN /\ stops' = stops + 1
        /\ UNCHANGED <<kafkaVars, dbVars, pc, threadVars, restores, slowStarts>>
    BY <1>9, Zenon DEF GracefulShutdown
  <2> QED
    BY <1>0, <2>1 DEF TypeOK
<1>10. ASSUME NEW c \in Consumers,
              Thread(c) \/ ThreadError(c) \/ CommitUnacknowledged(c)
       PROVE  TypeOK'
  <2>1. ASSUME pc[c] \in {"batch", "timed"}
        PROVE  Committed(c) \in [Consumers -> Rows]
    <3>1. kcRef[c] \in Nat
      BY <1>0, <2>1 DEF TypeOK, IInv, ConsumerInv, ThreadInv, Attached
    <3> QED
      BY <1>0, <3>1 DEF TypeOK, Committed, Rows
  <2>2. CASE Construct(c)
    BY <1>0, <2>2 DEF SourceRef, TypeOK, Construct, Places
  <2>3. ASSUME NEW p \in Nat, EnterLoop(c, p), slowStarts' \in Nat
        PROVE  TypeOK'
    BY <1>0, <2>3 DEF TypeOK, EnterLoop, Places, Attached
  <2>0. /\ kcRef[c] # OFFSET_BEGINNING => kcRef[c] \in Nat
        /\ slowStarts \in Nat /\ Len(log) \in Nat
    BY <1>0 DEF TypeOK
  <2>4. CASE StartAtBeginning(c)
    BY <2>3, <2>4, <2>0 DEF StartAtBeginning
  <2>5. CASE StartFound(c)
    BY <2>3, <2>5, <2>0 DEF StartFound
  <2>6. CASE StartAtEnd(c)
    BY <2>3, <2>6, <2>0 DEF StartAtEnd
  <2>7. CASE StartTimesOut(c)
    BY <2>3, <2>7, <2>0 DEF StartTimesOut
  <2>8. CASE StartRefused(c)
    BY <1>0, <1>7, <2>8 DEF TypeOK, StartRefused
  <2>9. ASSUME NEW d \in BOOLEAN, Pass(c, d) PROVE TypeOK'
    BY <1>0, <2>9 DEF TypeOK, Pass, Places, Attached
  <2>10. CASE Finish(c)
    BY <1>0, <2>10 DEF TypeOK, Finish, Places, ZeroCounts
  <2>11. CASE ReadMessage(c)
    <3> DEFINE o == Fetch(c)
    <3>1. o \in Nat
      BY <1>0 DEF TypeOK, Fetch, Resolve
    <3>2. log[o + 1] \in Messages
      BY <1>0, <2>11, <3>1 DEF TypeOK, ReadMessage
    <3>3. Counted(c, work[c], log[o + 1]) \in [Keys -> Nat]
      BY <1>0, <3>2, CountedType DEF TypeOK, Accounts
    <3>4. AfterMessage(msgCounter[c] + 1) \in Places
      BY DEF AfterMessage, Places, Attached
    <3> QED
      BY <1>0, <2>11, <3>1, <3>3, <3>4 DEF TypeOK, ReadMessage
  <2>12. CASE ReadPoison(c)
    BY <1>0, <1>7, <2>12 DEF TypeOK, ReadPoison
  <2>13. CASE ReadNothing(c)
    BY <1>0, <2>13 DEF TypeOK, ReadNothing, Places, Attached
  <2>14. CASE Commit(c)
    BY <1>0, <2>1, <2>14 DEF TypeOK, Commit, Places, Attached, Rows
  <2>15. CASE ThreadError(c)
    BY <1>0, <1>7, <2>15 DEF TypeOK, ThreadError
  <2>16. CASE CommitUnacknowledged(c)
    BY <1>0, <1>7, <2>1, <2>16 DEF TypeOK, CommitUnacknowledged, Rows
  <2> QED
    BY <1>10, <2>2, <2>4, <2>5, <2>6, <2>7, <2>8, <2>9, <2>10, <2>11, <2>12,
       <2>13, <2>14, <2>15, <2>16 DEF Thread, Start
<1> QED
  BY <1>1, <1>2, <1>3, <1>4, <1>5, <1>6, <1>8, <1>9, <1>10 DEF Next

\* What a thread is about to commit accounts for the log.
LEMMA OpenTransaction ==
    ASSUME TypeOK, NEW c \in Consumers, ThreadInv(c), pc[c] \in Attached
    PROVE  Accounted(log, logStart, slowStarts, c, kcRef[c], work[c])
<1> DEFINE n == IF Replaying(c) THEN slowStarts - 1 ELSE slowStarts
<1>1. /\ log \in Seq(Messages) /\ logStart \in Nat /\ slowStarts \in Nat
      /\ kcRef[c] \in Int /\ work[c] \in Accounts
  BY DEF TypeOK, Accounts, OFFSET_BEGINNING
<1>2. n \in Int /\ n <= slowStarts
  BY <1>1
<1>3. Accounted(log, logStart, n, c, kcRef[c], work[c])
  BY DEF ThreadInv
<1> HIDE DEF n
<1>4. \A k \in Keys : Tally(log, c, k, kcRef[c]) \in Nat /\ work[c][k] \in Nat
  BY <1>1, TallyType DEF Accounts
<1>5. \A k \in Keys : work[c][k] <= Tally(log, c, k, kcRef[c]) + slowStarts
  BY <1>1, <1>2, <1>3, <1>4 DEF Accounted
<1> QED
  BY <1>3, <1>5 DEF Accounted

\* The thread that starts: wherever Start leaves it, its first transaction
\* accounts for the log up to the reference it was given.
LEMMA StartInv ==
    ASSUME IInv, TypeOK', NEW c \in Consumers,
           StartAtBeginning(c) \/ StartFound(c) \/ StartAtEnd(c)
             \/ StartTimesOut(c)
    PROVE  ConsumerInv(c)'
<1> USE DEF kafkaVars, dbVars
<1>0. TypeOK /\ ConsumerInv(c) /\ logStart <= Len(log)
  BY DEF IInv
<1>1. /\ log \in Seq(Messages) /\ logStart \in Nat /\ slowStarts \in Nat
      /\ slowStarts' \in Nat /\ kcRef[c] \in Nat \cup {OFFSET_BEGINNING}
      /\ db[c].ref \in Nat \cup {NoRow} /\ db[c].counts \in Accounts
      /\ backup[c].ref \in Nat \cup {NoRow} /\ backup[c].counts \in Accounts
  BY <1>0 DEF TypeOK, Accounts
<1>2. pc[c] = "start" /\ kcRef[c] = IF db[c].ref = NoRow
                                   THEN OFFSET_BEGINNING ELSE db[c].ref
  BY <1>0 DEF SourceRef, ConsumerInv, StartAtBeginning, StartFound, StartAtEnd,
              StartTimesOut
<1>3. PICK p \in Nat :
        /\ EnterLoop(c, p)
        /\ \/ /\ slowStarts' = slowStarts
              /\ kcRef[c] < p /\ p <= Len(log)
              /\ p <= kcRef[c] + 1 \/ p <= logStart
           \/ /\ slowStarts' = slowStarts + 1
              /\ p = kcRef[c]
  <2>1. CASE StartAtBeginning(c)
    BY <1>1, <2>1 DEF StartAtBeginning, OFFSET_BEGINNING
  <2>2. CASE StartFound(c)
    BY <1>1, <2>2 DEF StartFound, OFFSET_BEGINNING
  <2>3. CASE StartAtEnd(c)
    <3>1. kcRef[c] \in Nat /\ EnterLoop(c, Len(log)) /\ slowStarts' = slowStarts
      BY <1>1, <2>3 DEF StartAtEnd
    <3>2. kcRef[c] < Len(log)
      BY <1>0, <1>1, <1>2, <3>1 DEF ConsumerInv, Accounted, OFFSET_BEGINNING
    <3>3. Len(log) = logStart
      BY <1>0, <1>1, <2>3, <3>1, <3>2 DEF StartAtEnd, Resolve
    <3> QED
      BY <1>1, <3>1, <3>2, <3>3
  <2>4. CASE StartTimesOut(c)
    BY <1>1, <2>4 DEF StartTimesOut
  <2> QED
    BY <2>1, <2>2, <2>3, <2>4
<1>4. /\ log' = log /\ logStart' = logStart /\ db' = db /\ backup' = backup
      /\ kcRef' = kcRef
      /\ pc'[c] = "loop" /\ pos'[c] = p /\ msgCounter'[c] = 0
      /\ work'[c] = db[c].counts
  BY <1>0, <1>3 DEF EnterLoop, TypeOK
<1>5. slowStarts <= slowStarts'
  BY <1>1, <1>3
<1>6. Accounted(log, logStart, slowStarts', c, db[c].ref, db[c].counts)
  BY <1>0, <1>1, <1>5, AccountedStable DEF ConsumerInv, NoRow
<1>7. Accounted(log, logStart, slowStarts', c, backup[c].ref, backup[c].counts)
  BY <1>0, <1>1, <1>5, AccountedStable DEF ConsumerInv, NoRow
<1>8. Accounted(log, logStart, slowStarts, c, kcRef[c], db[c].counts)
  BY <1>0, <1>1, <1>2, AccountedAtBeginning DEF ConsumerInv
<1>9. slowStarts = IF p <= kcRef[c] THEN slowStarts' - 1 ELSE slowStarts'
  BY <1>1, <1>3 DEF OFFSET_BEGINNING
<1>10. p <= Len(log) /\ kcRef[c] <= p /\ (p <= kcRef[c] + 1 \/ p <= logStart)
  BY <1>1, <1>3, <1>8 DEF Accounted, OFFSET_BEGINNING
<1>11. db[c].ref <= kcRef[c] \/ db[c].ref = NoRow
  BY <1>1, <1>2
<1>12. ThreadInv(c)'
  BY <1>4, <1>8, <1>9, <1>10, <1>11 DEF ThreadInv, Replaying
<1> QED
  BY <1>4, <1>6, <1>7, <1>12 DEF ConsumerInv

\* The thread that reads a message: the message follows its reference, is the
\* message of its reference after a timeout, or is the oldest one left.
LEMMA ReadInv ==
    ASSUME IInv, TypeOK', NEW c \in Consumers, ReadMessage(c)
    PROVE  ConsumerInv(c)'
<1> USE DEF kafkaVars, dbVars, boundVars
<1> DEFINE o == Fetch(c)
           v == Counted(c, work[c], log[o + 1])
<1>0. TypeOK /\ ConsumerInv(c) /\ ThreadInv(c) /\ logStart <= Len(log)
  BY DEF IInv, ConsumerInv
<1>1. /\ log \in Seq(Messages) /\ logStart \in Nat /\ slowStarts \in Nat
      /\ kcRef[c] \in Nat \cup {OFFSET_BEGINNING} /\ kcRef[c] \in Int
      /\ pos[c] \in Nat /\ msgCounter[c] \in Nat
      /\ db[c].ref \in Nat \cup {NoRow} /\ work[c] \in Accounts
  BY <1>0 DEF TypeOK, Accounts, OFFSET_BEGINNING
<1>2. /\ pc[c] = "read" /\ o < Len(log) /\ ~Poison(log[o + 1])
      /\ log' = log /\ logStart' = logStart /\ db' = db /\ backup' = backup
      /\ slowStarts' = slowStarts
      /\ kcRef'[c] = o /\ pos'[c] = o + 1 /\ work'[c] = v
      /\ msgCounter'[c] = msgCounter[c] + 1
      /\ pc'[c] = AfterMessage(msgCounter[c] + 1)
  BY <1>0 DEF ReadMessage, TypeOK
<1>3. /\ kcRef[c] <= pos[c] /\ pos[c] <= Len(log)
      /\ pos[c] <= kcRef[c] + 1 \/ pos[c] <= logStart
      /\ db[c].ref <= kcRef[c] \/ db[c].ref = NoRow
      /\ Accounted(log, logStart,
                   IF Replaying(c) THEN slowStarts - 1 ELSE slowStarts,
                   c, kcRef[c], work[c])
  BY <1>0, <1>2 DEF ThreadInv, Attached
<1>4. /\ o \in Nat /\ logStart <= o
      /\ pos[c] \in logStart .. Len(log) => o = pos[c]
      /\ pos[c] < logStart => o = logStart
  BY <1>0, <1>1, <1>3 DEF Fetch, Resolve
<1> HIDE DEF o
<1>5. kcRef[c] <= o
  BY <1>1, <1>3, <1>4
<1>6. Accounted(log, logStart, slowStarts, c, o, v)
  <2>1. CASE kcRef[c] < o
    <3>1. Accounted(log, logStart, slowStarts, c, kcRef[c], work[c])
      BY <1>0, <1>2, OpenTransaction DEF Attached
    <3>2. o <= kcRef[c] + 1 \/ o <= logStart
      BY <1>1, <1>3, <1>4
    <3>3. o < Len(log) /\ ~Poison(log[o + 1]) /\ logStart <= o
      BY <1>2, <1>4
    <3> HIDE DEF v
    <3>4. Accounted(log, logStart, slowStarts, c, o,
                    Counted(c, work[c], log[o + 1]))
      BY <1>1, <1>4, <2>1, <3>1, <3>2, <3>3, AccountedForward
    <3> QED
      BY <3>4 DEF v
  <2>2. CASE kcRef[c] = o
    <3>1. pos[c] = o /\ Replaying(c)
      BY <1>1, <1>3, <1>4, <2>2 DEF Replaying
    <3>2. Accounted(log, logStart, slowStarts - 1, c, o, work[c])
      BY <1>3, <2>2, <3>1
    <3> HIDE DEF v
    <3>3. Accounted(log, logStart, slowStarts, c, o,
                    Counted(c, work[c], log[o + 1]))
      <4>1. slowStarts \in Int
        BY <1>1
      <4> QED
        BY <1>1, <1>4, <3>2, <4>1, AccountedAgain
    <3> QED
      BY <3>3 DEF v
  <2> QED
    BY <1>1, <1>4, <1>5, <2>1, <2>2
<1>7. ThreadInv(c)'
  <2>1. ~Replaying(c)'
    BY <1>2, <1>4 DEF Replaying
  <2>2. msgCounter'[c] > 0 /\ o # OFFSET_BEGINNING
    BY <1>1, <1>2, <1>4 DEF OFFSET_BEGINNING
  <2>3. db[c].ref <= o \/ db[c].ref = NoRow
    BY <1>1, <1>3, <1>4, <1>5 DEF NoRow
  <2>4. o <= o + 1 /\ o + 1 <= Len(log)
    BY <1>1, <1>2, <1>4
  <2>5. Accounted(log', logStart',
                  IF Replaying(c)' THEN slowStarts' - 1 ELSE slowStarts',
                  c, kcRef'[c], work'[c])
    <3> HIDE DEF v
    <3> QED
      BY <1>2, <1>6, <2>1
  <2>6. /\ kcRef'[c] <= pos'[c] /\ pos'[c] <= Len(log')
        /\ pos'[c] <= kcRef'[c] + 1
        /\ db'[c].ref <= kcRef'[c] \/ db'[c].ref = NoRow
        /\ msgCounter'[c] > 0 /\ kcRef'[c] # OFFSET_BEGINNING
    BY <1>2, <1>4, <2>2, <2>3, <2>4
  <2> QED
    BY <2>5, <2>6 DEF ThreadInv
<1>8. pc'[c] # "start"
  BY <1>2 DEF AfterMessage
<1> QED
  BY <1>0, <1>2, <1>7, <1>8 DEF ConsumerInv

\* Committing, with or without an answer, stores an account.
LEMMA CommittedRow ==
    ASSUME IInv, NEW c \in Consumers, pc[c] \in {"batch", "timed"},
           NEW d \in Consumers
    PROVE  /\ Accounted(log, logStart, slowStarts, d,
                        Committed(c)[d].ref, Committed(c)[d].counts)
           /\ Committed(c)[c].ref = kcRef[c]
           /\ d # c => Committed(c)[d] = db[d]
<1>1. Accounted(log, logStart, slowStarts, c, kcRef[c], work[c])
  BY OpenTransaction DEF IInv, ConsumerInv, Attached
<1>2. Committed(c)[c] = [ref |-> kcRef[c], counts |-> work[c]]
  BY DEF Committed, IInv, TypeOK
<1>3. d # c => Committed(c)[d] = db[d]
  BY DEF Committed, IInv, TypeOK
<1>4. Accounted(log, logStart, slowStarts, d, db[d].ref, db[d].counts)
  BY DEF IInv, ConsumerInv
<1> QED
  BY <1>1, <1>2, <1>3, <1>4

\* A step of thread c keeps the invariant of its own statistic.
LEMMA OwnStep ==
    ASSUME IInv, TypeOK', NEW c \in Consumers, Thread(c)
    PROVE  ConsumerInv(c)'
<1> USE DEF kafkaVars, dbVars, boundVars
<1>0. TypeOK /\ ConsumerInv(c) /\ ThreadInv(c)
  BY DEF IInv, ConsumerInv
<1>1. CASE Construct(c)
  <2>1. /\ pc'[c] = "start"
        /\ kcRef'[c] = SourceRef(c)
        /\ UNCHANGED <<log, logStart, db, backup, slowStarts>>
    BY <1>0, <1>1 DEF Construct, TypeOK
  <2> QED
    BY <1>0, <2>1 DEF SourceRef, ConsumerInv, ThreadInv, Attached
<1>2. CASE Start(c)
  <2>1. CASE StartRefused(c)
    BY <1>0, <2>1, ExitInv DEF StartRefused, ConsumerInv
  <2> QED
    BY <1>2, <2>1, StartInv DEF Start
<1>3. ASSUME NEW d \in BOOLEAN, Pass(c, d) PROVE ConsumerInv(c)'
  <2>1. /\ pc[c] = "loop" /\ pc'[c] = "read"
        /\ UNCHANGED <<log, logStart, db, backup, slowStarts, kcRef, pos,
                       msgCounter, work>>
    BY <1>0, <1>3 DEF Pass, TypeOK
  <2> QED
    BY <1>0, <2>1 DEF ConsumerInv, ThreadInv, Attached, Replaying
<1>4. CASE Finish(c)
  <2>1. /\ pc'[c] = "done"
        /\ UNCHANGED <<log, logStart, db, backup, slowStarts>>
    BY <1>0, <1>4 DEF Finish, TypeOK
  <2> QED
    BY <1>0, <2>1 DEF ConsumerInv, ThreadInv, Attached
<1>5. CASE ReadMessage(c)
  BY <1>5, ReadInv
<1>6. CASE ReadPoison(c)
  BY <1>0, <1>6, ExitInv DEF ReadPoison, ConsumerInv
<1>7. CASE ReadNothing(c)
  <2>1. /\ pc[c] = "read"
        /\ pc'[c] \in {"loop", "timed"}
        /\ pc'[c] = "timed" => msgCounter[c] > 0
        /\ UNCHANGED <<log, logStart, db, backup, slowStarts, kcRef, pos,
                       msgCounter, work>>
    BY <1>0, <1>7 DEF ReadNothing, TypeOK
  <2> QED
    BY <1>0, <2>1 DEF ConsumerInv, ThreadInv, Attached, Replaying
<1>8. CASE Commit(c)
  <2>1. /\ pc[c] \in {"batch", "timed"} /\ pc'[c] \in {"read", "loop"}
        /\ db' = Committed(c) /\ msgCounter'[c] = 0
        /\ UNCHANGED <<log, logStart, backup, slowStarts, kcRef, pos, work>>
    BY <1>0, <1>8 DEF Commit, TypeOK
  <2>2. /\ Accounted(log, logStart, slowStarts, c, db'[c].ref, db'[c].counts)
        /\ db'[c].ref = kcRef[c]
    BY <2>1, CommittedRow
  <2>3. kcRef[c] \in Int
    BY <1>0 DEF TypeOK, OFFSET_BEGINNING
  <2>4. ThreadInv(c)'
    BY <1>0, <2>1, <2>2, <2>3 DEF ThreadInv, Attached, Replaying
  <2> QED
    BY <1>0, <2>1, <2>2, <2>4 DEF ConsumerInv
<1> QED
  BY <1>1, <1>2, <1>3, <1>4, <1>5, <1>6, <1>7, <1>8 DEF Thread

\* A step of thread c leaves the other statistics alone, unless it ends the
\* process, which leaves their rows as they were.
LEMMA OtherStep ==
    ASSUME IInv, TypeOK', NEW c \in Consumers, Thread(c),
           NEW d \in Consumers, d # c
    PROVE  ConsumerInv(d)'
<1> USE DEF kafkaVars, dbVars, boundVars
<1>0. TypeOK /\ ConsumerInv(d)
  BY DEF IInv
<1>1. CASE StartRefused(c) \/ ReadPoison(c)
  BY <1>0, <1>1, ExitInv DEF StartRefused, ReadPoison, ConsumerInv
<1>2. CASE ~(StartRefused(c) \/ ReadPoison(c))
  <2>1. /\ UNCHANGED <<log, logStart, backup>>
        /\ slowStarts <= slowStarts'
        /\ pc'[d] = pc[d] /\ kcRef'[d] = kcRef[d] /\ pos'[d] = pos[d]
        /\ msgCounter'[d] = msgCounter[d] /\ work'[d] = work[d]
        /\ db'[d] = db[d]
    <3>1. slowStarts \in Nat
      BY <1>0 DEF TypeOK
    <3>2. CASE Construct(c)
      BY <1>0, <3>1, <3>2 DEF Construct, TypeOK
    <3>3. CASE Start(c)
      <4>1. \E p : EnterLoop(c, p)
        BY <1>2, <3>3, Zenon DEF Start, StartAtBeginning, StartFound,
           StartAtEnd, StartTimesOut
      <4>2. slowStarts' = slowStarts \/ slowStarts' = slowStarts + 1
        BY <1>2, <3>3, Zenon DEF Start, StartAtBeginning, StartFound,
           StartAtEnd, StartTimesOut
      <4> QED
        BY <1>0, <3>1, <4>1, <4>2 DEF EnterLoop, TypeOK
    <3>4. ASSUME NEW b \in BOOLEAN, Pass(c, b)
          PROVE  /\ UNCHANGED <<log, logStart, db, backup, slowStarts, kcRef,
                                pos, msgCounter, work>>
                 /\ pc'[d] = pc[d]
      BY <1>0, <3>4 DEF Pass, TypeOK
    <3>5. CASE Finish(c)
      BY <1>0, <3>1, <3>5 DEF Finish, TypeOK
    <3>6. CASE ReadMessage(c)
      BY <1>0, <3>1, <3>6 DEF ReadMessage, TypeOK
    <3>7. CASE ReadNothing(c)
      BY <1>0, <3>1, <3>7 DEF ReadNothing, TypeOK
    <3>8. CASE Commit(c)
      BY <1>0, <3>1, <3>8 DEF Commit, Committed, TypeOK
    <3> QED
      BY <1>2, <3>1, <3>2, <3>3, <3>4, <3>5, <3>6, <3>7, <3>8 DEF Thread
  <2>2. logStart \in Nat /\ logStart <= logStart'
    BY <1>0, <2>1 DEF TypeOK
  <2> QED
    BY <1>0, <2>1, <2>2, Undisturbed
<1> QED
  BY <1>1, <1>2

\* The invariant is inductive.
LEMMA InvStep ==
    ASSUME IInv, [Next]_vars
    PROVE  IInv'
<1> USE DEF kafkaVars, dbVars, threadVars, boundVars
<1>0. TypeOK /\ logStart <= Len(log)
  BY DEF IInv
<1>1. TypeOK'
  BY TypeStep
<1>2. /\ logStart' <= Len(log') /\ logStart <= logStart'
      /\ log' = log \/ \E m \in Messages : log' = Append(log, m)
  <2>1. logStart \in Nat /\ log \in Seq(Messages)
    BY <1>0 DEF TypeOK
  <2>2. CASE \E m \in Messages : Publish(m)
    BY <1>0, <2>1, <2>2 DEF Publish
  <2>3. CASE Trim
    BY <1>0, <2>1, <2>3 DEF Trim
  <2>4. CASE ~Trim /\ ~\E m \in Messages : Publish(m)
    <3>1. UNCHANGED <<log, logStart>>
      BY <2>4, Zenon DEF Next, vars, Backup, Restore, Launch, Exit,
         GracefulShutdown, Thread, Construct, Start, StartAtBeginning,
         StartFound, StartAtEnd, StartTimesOut, StartRefused, EnterLoop, Pass,
         Finish, ReadMessage, ReadPoison, ReadNothing, Commit, ThreadError,
         CommitUnacknowledged
    <3> QED
      BY <1>0, <2>1, <3>1
  <2> QED
    BY <2>2, <2>3, <2>4
<1>3. ASSUME NEW d \in Consumers
      PROVE  ConsumerInv(d)'
  <2>0. ConsumerInv(d)
    BY DEF IInv
  <2>1. CASE UNCHANGED vars
    BY <1>0, <1>1, <1>2, <2>0, <2>1, Undisturbed DEF vars, TypeOK
  <2>2. ASSUME NEW m \in Messages, Publish(m) PROVE ConsumerInv(d)'
    BY <1>0, <1>1, <1>2, <2>0, <2>2, Undisturbed DEF Publish, TypeOK
  <2>3. CASE Trim
    BY <1>0, <1>1, <1>2, <2>0, <2>3, Undisturbed DEF Trim, TypeOK
  <2>4. CASE Backup
    BY <2>0, <2>4 DEF SourceRef, Backup, ConsumerInv, ThreadInv, Replaying
  <2>5. CASE Restore
    <3>1. pc'[d] = "down"
      BY <2>5 DEF Restore, Up
    <3> QED
      BY <2>0, <2>5, <3>1 DEF Restore, ConsumerInv, ThreadInv, Attached
  <2>6. CASE Launch
    <3>1. pc'[d] = "construct"
      BY <2>6 DEF Launch
    <3> QED
      BY <2>0, <2>6, <3>1 DEF Launch, ConsumerInv, ThreadInv, Attached
  <2>7. CASE Exit
    BY <1>1, <2>0, <2>7, ExitInv DEF Exit, ConsumerInv
  <2>8. CASE GracefulShutdown
    <3>1. UNCHANGED <<kafkaVars, dbVars, pc, threadVars, slowStarts>>
      BY <2>8 DEF GracefulShutdown
    <3> QED
      BY <1>0, <1>1, <1>2, <2>0, <3>1, Undisturbed DEF TypeOK
  <2>9. ASSUME NEW c \in Consumers, Thread(c) PROVE ConsumerInv(d)'
    <3>1. CASE d = c
      BY <1>1, <2>9, <3>1, OwnStep
    <3>2. CASE d # c
      BY <1>1, <2>9, <3>2, OtherStep
    <3> QED
      BY <3>1, <3>2
  <2>10. ASSUME NEW c \in Consumers, ThreadError(c) PROVE ConsumerInv(d)'
    BY <1>1, <2>0, <2>10, ExitInv DEF ThreadError, ConsumerInv
  <2>11. ASSUME NEW c \in Consumers, CommitUnacknowledged(c)
         PROVE  ConsumerInv(d)'
    <3>1. /\ ProcessExit /\ UNCHANGED <<kafkaVars, backup, slowStarts>>
          /\ pc[c] \in {"batch", "timed"} /\ db' = Committed(c)
      BY <2>11 DEF CommitUnacknowledged
    <3>2. Accounted(log, logStart, slowStarts, d, db'[d].ref, db'[d].counts)
      BY <3>1, CommittedRow
    <3> QED
      BY <1>1, <2>0, <3>1, <3>2, ExitInv
  <2> QED
    BY <2>1, <2>2, <2>3, <2>4, <2>5, <2>6, <2>7, <2>8, <2>9, <2>10, <2>11
       DEF Next
<1> QED
  BY <1>1, <1>2, <1>3 DEF IInv

\* It holds initially: an empty log is accounted for by empty counters.
LEMMA InvInit == Init => IInv
<1> SUFFICES ASSUME Init PROVE IInv
  OBVIOUS
<1>1. TypeOK
  <2>0. running \in BOOLEAN
    BY Zenon DEF Init
  <2>1. log \in Seq(Messages)
    BY DEF Init
  <2>2. ZeroCounts \in [Keys -> Nat]
    BY DEF ZeroCounts
  <2>3. db \in [Consumers -> Rows] /\ backup \in [Consumers -> Rows]
    BY <2>2 DEF Init, Rows
  <2>4. /\ pc \in [Consumers -> Places]
        /\ kcRef \in [Consumers -> Nat \cup {OFFSET_BEGINNING}]
        /\ pos \in [Consumers -> Nat] /\ msgCounter \in [Consumers -> Nat]
        /\ due \in [Consumers -> BOOLEAN]
        /\ work \in [Consumers -> [Keys -> Nat]]
    BY <2>2 DEF Init, Places
  <2>5. /\ logStart \in Nat /\ stops \in Nat /\ restores \in Nat
        /\ slowStarts \in Nat
    BY DEF Init
  <2> QED
    BY <2>0, <2>1, <2>3, <2>4, <2>5 DEF TypeOK, Rows
<1>2. ASSUME NEW c \in Consumers
      PROVE  Accounted(log, logStart, slowStarts, c, db[c].ref, db[c].counts)
  <2>1. \A k \in Keys : Tally(log, c, k, NoRow) = 0
    BY TallyEmpty DEF NoRow
  <2> QED
    BY <2>1 DEF Init, Accounted, ZeroCounts, NoRow
<1>3. logStart <= Len(log)
  BY DEF Init
<1>4. ASSUME NEW c \in Consumers PROVE ConsumerInv(c)
  BY <1>2 DEF Init, ConsumerInv, ThreadInv, Attached
<1> QED
  BY <1>1, <1>3, <1>4 DEF IInv

\* Every reachable state of the consumer satisfies the inductive invariant.
THEOREM Invariance == Spec => []IInv
<1>1. Init => IInv
  BY InvInit
<1>2. IInv /\ [Next]_vars => IInv'
  BY InvStep
<1> QED
  BY <1>1, <1>2, PTL DEF Spec

-----------------------------------------------------------------------------
(* What it implies                                                         *)

\* Every variable keeps its type; in particular a committed source reference
\* is always an offset, never Kafka's OFFSET_BEGINNING.
THEOREM TypeCorrect == Spec => []TypeOK
<1>1. IInv => TypeOK
  BY DEF IInv
<1> QED
  BY <1>1, Invariance, PTL

\* A committed counter exceeds the views up to the committed reference by at
\* most the number of Starts whose first fetch timed out.
THEOREM OvercountBounded == Spec => []NoOvercount
<1>1. IInv => NoOvercount
  BY DEF IInv, ConsumerInv, Accounted, NoOvercount
<1> QED
  BY <1>1, Invariance, PTL

\* While retention has deleted nothing, no view up to a committed reference is
\* missing from the counters.
THEOREM NothingLost == Spec => []NoUndercount
<1>1. IInv => NoUndercount
  BY DEF IInv, ConsumerInv, Accounted, NoUndercount
<1> QED
  BY <1>1, Invariance, PTL

\* No committed reference passes a retained message that could not be counted.
THEOREM PoisonStops == Spec => []PoisonNeverPassed
<1>1. IInv => PoisonNeverPassed
  BY DEF IInv, ConsumerInv, Accounted, PoisonNeverPassed
<1> QED
  BY <1>1, Invariance, PTL

\* Timeouts and deletions stay within the bounds that the constants give them.
WithinBounds == slowStarts <= MaxSlowStarts /\ logStart <= MaxTrims

\* Each action that counts towards a bound is guarded by it.
LEMMA BoundsStep ==
    ASSUME TypeOK, WithinBounds, [Next]_vars
    PROVE  WithinBounds'
<1> USE DEF kafkaVars, boundVars
<1>1. logStart \in Nat /\ slowStarts \in Nat
  BY DEF TypeOK
<1>2. CASE Trim
  BY <1>1, <1>2, ConstantsAssumption DEF Trim, WithinBounds
<1>3. ASSUME NEW c \in Consumers, StartTimesOut(c) PROVE WithinBounds'
  BY <1>1, <1>3, ConstantsAssumption
     DEF StartTimesOut, EnterLoop, WithinBounds
<1>4. CASE ~Trim /\ ~\E c \in Consumers : StartTimesOut(c)
  <2>1. UNCHANGED <<logStart, slowStarts>>
    BY <1>4, Zenon DEF Next, vars, Publish, Backup, Restore, Launch, Exit,
       GracefulShutdown, Thread, Construct, Start, StartAtBeginning,
       StartFound, StartAtEnd, StartRefused, EnterLoop, Pass, Finish,
       ReadMessage, ReadPoison, ReadNothing, Commit, ThreadError,
       CommitUnacknowledged
  <2> QED
    BY <2>1 DEF WithinBounds
<1> QED
  BY <1>2, <1>3, <1>4

\* The bounds hold throughout.
LEMMA Bounds == Spec => []WithinBounds
<1>1. Init => WithinBounds
  BY ConstantsAssumption DEF Init, WithinBounds
<1>2. TypeOK /\ WithinBounds /\ [Next]_vars => WithinBounds'
  BY BoundsStep
<1> QED
  BY <1>1, <1>2, TypeCorrect, PTL DEF Spec

\* If every first fetch answers within its second and retention never deletes
\* a message, every view is counted exactly once: a committed counter is the
\* number of views up to the committed reference, whatever crashes, lost
\* commit answers, interrupts, relaunches and restores there are.
THEOREM CountedExactlyOnce ==
    ASSUME MaxSlowStarts = 0, MaxTrims = 0
    PROVE  Spec => []ExactlyOnce
<1>1. IInv /\ WithinBounds => ExactlyOnce
  <2> SUFFICES ASSUME IInv, WithinBounds,
                      NEW c \in Consumers, NEW k \in Keys
               PROVE  db[c].counts[k] = Tally(log, c, k, db[c].ref)
    BY DEF ExactlyOnce
  <2>1. logStart = 0 /\ slowStarts = 0
    BY DEF IInv, TypeOK, WithinBounds
  <2>2. db[c].ref \in Int /\ db[c].counts[k] \in Nat
    BY DEF IInv, TypeOK, NoRow
  <2>3. Tally(log, c, k, db[c].ref) \in Nat
    BY <2>2, TallyType
  <2>4. /\ db[c].counts[k] <= Tally(log, c, k, db[c].ref) + 0
        /\ db[c].counts[k] >= Tally(log, c, k, db[c].ref)
    BY <2>1 DEF IInv, ConsumerInv, Accounted
  <2> QED
    BY <2>2, <2>3, <2>4
<1> QED
  BY <1>1, Invariance, Bounds, PTL

-----------------------------------------------------------------------------
(* Steps                                                                   *)

\* The steps that write the database: a commit and a restore.
LEMMA RowsChange ==
    ASSUME [Next]_vars
    PROVE  \/ db' = db
           \/ Restore
           \/ \E c \in Consumers :
                /\ pc[c] \in {"batch", "timed"} /\ db' = Committed(c)
                /\ UNCHANGED <<log, backup>>
BY Zenon DEF Next, vars, kafkaVars, dbVars, Publish, Trim, Backup, Launch, Exit,
   GracefulShutdown, Thread, Construct, Start, StartAtBeginning, StartFound,
   StartAtEnd, StartTimesOut, StartRefused, EnterLoop, Pass, Finish,
   ReadMessage, ReadPoison, ReadNothing, Commit, ThreadError,
   CommitUnacknowledged

\* What is about to be committed is an offset not behind the committed one.
LEMMA CommitForward ==
    ASSUME IInv, NEW c \in Consumers, pc[c] \in {"batch", "timed"}
    PROVE  kcRef[c] \in Nat /\ kcRef[c] < Len(log) /\ db[c].ref <= kcRef[c]
<1>1. /\ kcRef[c] \in Nat \cup {OFFSET_BEGINNING}
      /\ db[c].ref \in Nat \cup {NoRow}
  BY DEF IInv, TypeOK
<1>2. /\ kcRef[c] # OFFSET_BEGINNING /\ kcRef[c] < Len(log)
      /\ db[c].ref <= kcRef[c] \/ db[c].ref = NoRow
  BY DEF IInv, ConsumerInv, ThreadInv, Attached, Accounted
<1> QED
  BY <1>1, <1>2 DEF NoRow

\* A committed reference moves back in a restore and in no other step.
THEOREM ReferenceForward == Spec => RefNeverBack
<1> DEFINE A == restores' = restores =>
                  \A c \in Consumers : db'[c].ref >= db[c].ref
<1>1. ASSUME IInv, [Next]_vars PROVE [A]_vars
  <2> SUFFICES ASSUME restores' = restores, NEW d \in Consumers
               PROVE  db'[d].ref >= db[d].ref
    OBVIOUS
  <2>1. db[d].ref \in Int
    BY <1>1 DEF IInv, TypeOK, NoRow
  <2>2. CASE db' = db
    BY <2>1, <2>2
  <2>3. CASE Restore
    BY <1>1, <2>3 DEF Restore, IInv, TypeOK
  <2>4. ASSUME NEW c \in Consumers, pc[c] \in {"batch", "timed"},
               db' = Committed(c)
        PROVE  db'[d].ref >= db[d].ref
    BY <1>1, <2>1, <2>4, CommittedRow, CommitForward
  <2> QED
    BY <1>1, <2>2, <2>3, <2>4, RowsChange
<1> HIDE DEF A
<1>2. Spec => [][A]_vars
  BY <1>1, Invariance, PTL DEF Spec
<1> QED
  BY <1>2 DEF RefNeverBack, A

-----------------------------------------------------------------------------
(* Without timeouts and deletions                                          *)

\* The batch is the stretch of the log between the committed reference and the
\* next fetch, and it is full only when it is about to be committed.
BatchInv(c) ==
    pc[c] \in Attached =>
        /\ pos[c] - (db[c].ref + 1) = msgCounter[c]
        /\ msgCounter[c] > 0 => kcRef[c] = pos[c] - 1
        /\ msgCounter[c] <= BatchSize
        /\ pc[c] # "batch" => msgCounter[c] < BatchSize

\* A batch that has grown to BatchSize messages is committed next.
LEMMA FullBatch ==
    ASSUME NEW n \in Nat, n < BatchSize
    PROVE  /\ n + 1 <= BatchSize
           /\ AfterMessage(n + 1) # "batch" => n + 1 < BatchSize
<1>1. BatchSize \in Nat /\ BatchSize > 0
  BY ConstantsAssumption
<1>2. BatchSize % BatchSize = 0
  BY <1>1
<1>3. n + 1 = BatchSize => AfterMessage(n + 1) = "batch"
  BY <1>2 DEF AfterMessage
<1> QED
  BY <1>1, <1>3

\* The state in which nothing has timed out and nothing has been deleted
Prompt == slowStarts = 0 /\ logStart = 0

\* The thread that takes a step keeps its batch in order.
LEMMA BatchOwnStep ==
    ASSUME IInv, IInv', Prompt, Prompt', NEW c \in Consumers, BatchInv(c),
           Thread(c)
    PROVE  BatchInv(c)'
<1> USE DEF kafkaVars, dbVars, boundVars
<1>0. TypeOK /\ ConsumerInv(c) /\ ThreadInv(c) /\ Prompt
  BY DEF IInv, ConsumerInv
<1>1. /\ log \in Seq(Messages) /\ BatchSize \in Nat /\ BatchSize > 0
      /\ kcRef[c] \in Nat \cup {OFFSET_BEGINNING} /\ pos[c] \in Nat
      /\ msgCounter[c] \in Nat /\ db[c].ref \in Nat \cup {NoRow}
  BY <1>0, ConstantsAssumption DEF TypeOK
<1>2. CASE Construct(c) \/ StartRefused(c) \/ Finish(c) \/ ReadPoison(c)
  <2>1. pc'[c] \in {"start", "done", "down"}
    BY <1>0, <1>2 DEF TypeOK, Construct, StartRefused, Finish, ReadPoison,
       ProcessExit
  <2> QED
    BY <2>1 DEF BatchInv, Attached
<1>3. CASE StartAtBeginning(c) \/ StartFound(c) \/ StartAtEnd(c)
             \/ StartTimesOut(c)
  <2>1. pc[c] = "start" /\ kcRef[c] = IF db[c].ref = NoRow
                                     THEN OFFSET_BEGINNING ELSE db[c].ref
    BY <1>0, <1>3 DEF SourceRef, ConsumerInv, StartAtBeginning, StartFound, StartAtEnd,
                      StartTimesOut
  <2>2. /\ pos'[c] = db[c].ref + 1 /\ msgCounter'[c] = 0 /\ db' = db
        /\ pc'[c] = "loop"
    <3>1. CASE StartAtBeginning(c)
      BY <1>0, <1>1, <2>1, <3>1
         DEF TypeOK, StartAtBeginning, EnterLoop, NoRow, OFFSET_BEGINNING
    <3>2. CASE StartFound(c)
      BY <1>0, <1>1, <2>1, <3>2 DEF TypeOK, StartFound, EnterLoop
    <3>3. CASE StartAtEnd(c)
      <4>1. kcRef[c] \in Nat /\ kcRef[c] = db[c].ref /\ db[c].ref < Len(log)
        BY <1>0, <1>1, <2>1, <3>3 DEF StartAtEnd, ConsumerInv, Accounted
      <4>2. Resolve(kcRef[c]) = kcRef[c]
        BY <1>0, <1>1, <4>1 DEF Resolve, Prompt
      <4> QED
        BY <1>1, <3>3, <4>1, <4>2 DEF StartAtEnd
    <3>4. ~StartTimesOut(c)
      BY DEF StartTimesOut, Prompt
    <3> QED
      BY <1>3, <3>1, <3>2, <3>3, <3>4
  <2> QED
    BY <1>1, <2>2 DEF BatchInv, Attached, NoRow
<1>4. ASSUME NEW d \in BOOLEAN, Pass(c, d) PROVE BatchInv(c)'
  <2>1. /\ pc[c] = "loop" /\ pc'[c] = "read"
        /\ UNCHANGED <<db, pos, kcRef, msgCounter>>
    BY <1>0, <1>4 DEF Pass, TypeOK
  <2> QED
    BY <2>1 DEF BatchInv, Attached
<1>5. CASE ReadMessage(c)
  <2> DEFINE o == Fetch(c)
  <2>1. /\ pc[c] = "read" /\ db' = db /\ kcRef'[c] = o /\ pos'[c] = o + 1
        /\ msgCounter'[c] = msgCounter[c] + 1
        /\ pc'[c] = AfterMessage(msgCounter[c] + 1)
    BY <1>0, <1>5 DEF ReadMessage, TypeOK
  <2>2. o = pos[c]
    BY <1>0, <1>1, <2>1 DEF Fetch, Resolve, Prompt, ThreadInv, Attached
  <2>3. msgCounter[c] < BatchSize /\ pos[c] - (db[c].ref + 1) = msgCounter[c]
    BY <2>1 DEF BatchInv, Attached
  <2>4. /\ msgCounter[c] + 1 <= BatchSize
        /\ pc'[c] # "batch" => msgCounter[c] + 1 < BatchSize
    BY <1>1, <2>1, <2>3, FullBatch
  <2>5. /\ pos'[c] = pos[c] + 1 /\ db'[c].ref = db[c].ref
        /\ msgCounter'[c] = msgCounter[c] + 1
    BY <2>1, <2>2
  <2>6. pos'[c] - (db'[c].ref + 1) = msgCounter'[c]
    <3>1. db[c].ref \in Int
      BY <1>1 DEF NoRow
    <3>2. (pos[c] + 1) - (db[c].ref + 1) = msgCounter[c] + 1
      BY <1>1, <2>3, <3>1, SMTT(30)
    <3> QED
      BY <1>1, <2>5, <3>1, <3>2
  <2>7. kcRef'[c] = pos'[c] - 1
    BY <1>1, <2>1, <2>2
  <2>8. /\ msgCounter'[c] <= BatchSize
        /\ pc'[c] # "batch" => msgCounter'[c] < BatchSize
    BY <2>1, <2>4
  <2> QED
    BY <2>6, <2>7, <2>8 DEF BatchInv
<1>6. CASE ReadNothing(c)
  <2>1. /\ pc[c] = "read" /\ pc'[c] \in {"loop", "timed"}
        /\ UNCHANGED <<db, pos, kcRef, msgCounter>>
    BY <1>0, <1>6 DEF ReadNothing, TypeOK
  <2> QED
    BY <2>1 DEF BatchInv, Attached
<1>7. CASE Commit(c)
  <2>1. /\ pc[c] \in {"batch", "timed"} /\ pc'[c] \in {"read", "loop"}
        /\ db' = Committed(c) /\ msgCounter'[c] = 0
        /\ UNCHANGED <<kcRef, pos>>
    BY <1>0, <1>7 DEF Commit, TypeOK
  <2>2. db'[c].ref = kcRef[c]
    BY <2>1, CommittedRow
  <2>3. kcRef[c] = pos[c] - 1
    BY <1>0, <2>1 DEF BatchInv, ThreadInv, Attached
  <2> QED
    BY <1>1, <2>1, <2>2, <2>3 DEF BatchInv
<1> QED
  BY <1>2, <1>3, <1>4, <1>5, <1>6, <1>7 DEF Thread, Start

\* Without timeouts and deletions every thread keeps its batch in order.
LEMMA BatchStep ==
    ASSUME IInv, IInv', Prompt, Prompt', [Next]_vars,
           \A c \in Consumers : BatchInv(c)
    PROVE  \A c \in Consumers : BatchInv(c)'
<1> USE DEF kafkaVars, dbVars, threadVars, boundVars
<1> SUFFICES ASSUME NEW d \in Consumers PROVE BatchInv(d)'
  OBVIOUS
<1>0. TypeOK
  BY DEF IInv
<1>1. ASSUME pc'[d] = pc[d], db'[d] = db[d], pos'[d] = pos[d],
             kcRef'[d] = kcRef[d], msgCounter'[d] = msgCounter[d]
      PROVE  BatchInv(d)'
  BY <1>1 DEF BatchInv
<1>2. ASSUME pc'[d] \in {"down", "construct"} PROVE BatchInv(d)'
  BY <1>2 DEF BatchInv, Attached
<1>3. CASE UNCHANGED vars \/ Trim \/ Backup \/ GracefulShutdown
             \/ \E m \in Messages : Publish(m)
  <2>1. UNCHANGED <<pc, db, pos, kcRef, msgCounter>>
    BY <1>3, Zenon DEF vars, Trim, Backup, GracefulShutdown, Publish
  <2> QED
    BY <1>1, <2>1
<1>4. CASE Restore
  BY <1>2, <1>4 DEF Restore, Up
<1>5. CASE Launch \/ Exit
  BY <1>2, <1>5 DEF Launch, Exit, ProcessExit
<1>6. ASSUME NEW c \in Consumers, ThreadError(c) \/ CommitUnacknowledged(c)
      PROVE  BatchInv(d)'
  BY <1>2, <1>6 DEF ThreadError, CommitUnacknowledged, ProcessExit
<1>7. ASSUME NEW c \in Consumers, Thread(c) PROVE BatchInv(d)'
  <2>1. CASE d = c
    BY <1>7, <2>1, BatchOwnStep
  <2>2. CASE d # c /\ (StartRefused(c) \/ ReadPoison(c))
    BY <1>2, <2>2 DEF StartRefused, ReadPoison, ProcessExit
  <2>3. CASE d # c /\ ~(StartRefused(c) \/ ReadPoison(c))
    <3>1. CASE Construct(c)
      BY <1>0, <1>1, <2>3, <3>1 DEF Construct, TypeOK
    <3>2. CASE Start(c)
      <4>1. \E p : EnterLoop(c, p)
        BY <2>3, <3>2, Zenon DEF Start, StartAtBeginning, StartFound,
           StartAtEnd, StartTimesOut
      <4> QED
        BY <1>0, <1>1, <2>3, <4>1 DEF EnterLoop, TypeOK
    <3>3. ASSUME NEW b \in BOOLEAN, Pass(c, b) PROVE BatchInv(d)'
      BY <1>0, <1>1, <2>3, <3>3 DEF Pass, TypeOK
    <3>4. CASE Finish(c)
      BY <1>0, <1>1, <2>3, <3>4 DEF Finish, TypeOK
    <3>5. CASE ReadMessage(c)
      BY <1>0, <1>1, <2>3, <3>5 DEF ReadMessage, TypeOK
    <3>6. CASE ReadNothing(c)
      BY <1>0, <1>1, <2>3, <3>6 DEF ReadNothing, TypeOK
    <3>7. CASE Commit(c)
      BY <1>0, <1>1, <2>3, <3>7 DEF Commit, Committed, TypeOK
    <3> QED
      BY <1>7, <2>3, <3>1, <3>2, <3>3, <3>4, <3>5, <3>6, <3>7 DEF Thread
  <2> QED
    BY <2>1, <2>2, <2>3
<1> QED
  BY <1>3, <1>4, <1>5, <1>6, <1>7 DEF Next

\* If every first fetch answers within its second and retention deletes
\* nothing, the offsets read and not committed are exactly the messages of the
\* open transaction, and a crash undoes at most BatchSize of them.
THEOREM ReplayIsBounded ==
    ASSUME MaxSlowStarts = 0, MaxTrims = 0
    PROVE  Spec => []ReplayBounded
<1> DEFINE BInv == \A c \in Consumers : BatchInv(c)
<1>1. IInv /\ WithinBounds => Prompt
  BY DEF IInv, TypeOK, WithinBounds, Prompt
<1>2. Init => BInv
  BY DEF Init, BatchInv, Attached
<1>3. ASSUME BInv, IInv, IInv', Prompt, Prompt', [Next]_vars PROVE BInv'
  BY <1>3, BatchStep
<1>4. BInv => ReplayBounded
  BY DEF BatchInv, ReplayBounded
<1> HIDE DEF BInv
<1> QED
  BY <1>1, <1>2, <1>3, <1>4, Invariance, Bounds, PTL DEF Spec

\* Under the same conditions the consumer implements the ledger: what a reader
\* of the database sees are statistics posted forward over a prefix of the log.
THEOREM ImplementsLedger ==
    ASSUME MaxSlowStarts = 0, MaxTrims = 0
    PROVE  Spec => Refinement
<1> DEFINE BInv == \A c \in Consumers : BatchInv(c)
<1>1. IInv /\ WithinBounds => Prompt
  BY DEF IInv, TypeOK, WithinBounds, Prompt
<1>2. Init => BInv
  BY DEF Init, BatchInv, Attached
<1>3. ASSUME BInv, IInv, IInv', Prompt, Prompt', [Next]_vars PROVE BInv'
  BY <1>3, BatchStep
<1>4. Init => Ledger!Init
  BY DEF Init, Ledger!Init, Ledger!Blank, ZeroCounts, NoRow
<1>5. ASSUME BInv, IInv, Prompt, [Next]_vars
      PROVE  [Ledger!Next]_(Ledger!vars)
  <2>1. CASE \E m \in Messages : Publish(m)
    BY <2>1 DEF Publish, dbVars, Ledger!Next, Ledger!Publish, Messages
  <2>2. CASE Backup
    BY <2>2 DEF Backup, kafkaVars, Ledger!Next, Ledger!TakeBackup
  <2>3. CASE Restore
    BY <2>3 DEF Restore, kafkaVars, Ledger!Next, Ledger!Restore
  <2>4. ASSUME NEW c \in Consumers, pc[c] \in {"batch", "timed"},
               db' = Committed(c), UNCHANGED <<log, backup>>
        PROVE  Ledger!Next
    <3> DEFINE r == kcRef[c]
    <3>1. /\ r \in Nat /\ r < Len(log) /\ log \in Seq(Messages)
          /\ db[c].ref \in Nat \cup {NoRow} /\ work[c] \in Accounts
      BY <1>5, <2>4, CommitForward DEF IInv, TypeOK, Accounts
    <3>2. Accounted(log, 0, 0, c, r, work[c])
      BY <1>5, <2>4, OpenTransaction
         DEF IInv, ConsumerInv, Attached, Prompt
    <3>3. r \in db[c].ref + 1 .. Len(log) - 1
      <4>1. /\ msgCounter[c] > 0 /\ kcRef[c] = pos[c] - 1
            /\ pos[c] - (db[c].ref + 1) = msgCounter[c]
            /\ pos[c] \in Nat /\ msgCounter[c] \in Nat
        BY <1>5, <2>4 DEF BatchInv, IInv, TypeOK, ConsumerInv, ThreadInv,
           Attached
      <4> QED
        BY <3>1, <4>1 DEF NoRow
    <3>4. \A o \in 0 .. r : log[o + 1] \in Known \cup {Other}
      BY <3>1, <3>2 DEF Accounted, Poison, IsPageview, Messages
    <3>5. ASSUME NEW k \in Keys
          PROVE  work[c][k] = Ledger!Cardinality(Ledger!Posted(c, k, r))
      <4>0. ViewsUpTo(log, c, k, r) = Ledger!Posted(c, k, r)
        BY Zenon DEF ViewsUpTo, Ledger!Posted
      <4>1. Tally(log, c, k, r) = Ledger!Cardinality(Ledger!Posted(c, k, r))
        BY <4>0, Zenon DEF Tally, Cardinality, Ledger!Cardinality
      <4>2. work[c][k] <= Tally(log, c, k, r) + 0
            /\ work[c][k] >= Tally(log, c, k, r)
        BY <3>2 DEF Accounted
      <4>3. Tally(log, c, k, r) \in Nat /\ work[c][k] \in Nat
        BY <3>1, TallyType DEF Accounts
      <4> QED
        BY <4>1, <4>2, <4>3
    <3>6. work[c] = [k \in Keys |-> Ledger!Cardinality(Ledger!Posted(c, k, r))]
      BY <3>1, <3>5 DEF Accounts
    <3>7. Ledger!Post(c, r)
      <4>1. db' = [db EXCEPT ![c] =
                     [ref |-> r,
                      counts |-> [k \in Keys |->
                                    Ledger!Cardinality(Ledger!Posted(c, k, r))]]]
        BY <2>4, <3>6, Zenon DEF Committed
      <4> QED
        BY <2>4, <3>4, <4>1, Zenon DEF Ledger!Post
    <3> QED
      BY <3>3, <3>7 DEF Ledger!Next
  <2>5. CASE ~Backup /\ ~Restore /\ ~(\E m \in Messages : Publish(m))
               /\ db' = db
    BY <1>5, <2>5, Zenon DEF Next, vars, kafkaVars, dbVars, Ledger!vars, Trim,
       Launch, Exit, GracefulShutdown, Thread, Construct, Start,
       StartAtBeginning, StartFound, StartAtEnd, StartTimesOut, StartRefused,
       EnterLoop, Pass, Finish, ReadMessage, ReadPoison, ReadNothing, Commit,
       ThreadError, CommitUnacknowledged
  <2> QED
    BY <1>5, <2>1, <2>2, <2>3, <2>4, <2>5, RowsChange
<1> HIDE DEF BInv
<1> QED
  BY <1>1, <1>2, <1>3, <1>4, <1>5, Invariance, Bounds, PTL
     DEF Spec, Refinement, Ledger!Spec

=============================================================================

-------------------------- MODULE EventCounterProofs --------------------------
(***************************************************************************)
(* Proofs about the counter of events, for any number of consumer threads  *)
(* and of messages.                                                        *)
(***************************************************************************)
EXTENDS EventCounter, FiniteSetTheorems, TLAPS

-----------------------------------------------------------------------------
(* The inductive invariant *)

\* The threads that have processed a message and have still to count it
Pending == {t \in Threads : pc[t] \in {"count", "read", "add"}}

\* Every processed message is displayed, counted or pending; and what a thread
\* has read under the lock is still the value of the counter.
IInv ==
    /\ TypeOK
    /\ processed = displayed + eventCounter + Cardinality(Pending)
    /\ \A t \in Threads \cup {Main} :
          pc[t] \in {"add", "print"} => reg[t] = eventCounter

-----------------------------------------------------------------------------
\* Pending threads are finitely many.
LEMMA PendingFinite ==
    IsFiniteSet(Pending) /\ Cardinality(Pending) \in Nat
<1>1. Pending \subseteq Threads
  BY DEF Pending
<1>2. IsFiniteSet(Pending)
  BY <1>1, FS_Subset, EventCounterAssumption
<1> QED
  BY <1>2, FS_CardinalityType

\* Only one thread at a time is between lock and unlock.
LEMMA OneHolder ==
    ASSUME IInv, NEW t \in Threads \cup {Main}, NEW u \in Threads \cup {Main},
           pc[t] \in {"read", "add", "show", "print"},
           pc[u] \in {"read", "add", "show", "print"}
    PROVE  t = u
BY DEF IInv, TypeOK

\* A step that neither processes nor counts a message, nor touches the counter,
\* keeps the invariant, if its thread u goes on to a place to which its hold on
\* the lock, and what it has read, entitle it.
LEMMA QuietStep ==
    ASSUME IInv, NEW u \in Threads \cup {Main}, NEW to,
           pc' = [pc EXCEPT ![u] = to],
           u \in Threads => to \in ThreadPlaces,
           u = Main => to \in MainPlaces,
           UNCHANGED <<eventCounter, running, processed, displayed>>,
           reg' = reg \/ reg' = [reg EXCEPT ![u] = eventCounter],
           counterLock' \in Threads \cup {Main, Nobody},
           u \in Threads => (pc[u] \in {"count", "read", "add"} <=>
                             to \in {"count", "read", "add"}),
           to \in {"read", "add", "show", "print"} <=> counterLock' = u,
           \A t \in Threads \cup {Main} : t # u =>
               (counterLock' = t <=> counterLock = t),
           to \in {"add", "print"} => reg'[u] = eventCounter
    PROVE  IInv'
<1> USE EventCounterAssumption DEF IInv, ThreadPlaces, MainPlaces
<1>1. TypeOK'
  BY DEF TypeOK
<1>2. Pending' = Pending
  BY DEF Pending, TypeOK
<1>3. \A t \in Threads \cup {Main} :
         pc'[t] \in {"add", "print"} => reg'[t] = eventCounter'
  BY DEF TypeOK
<1> QED
  BY <1>1, <1>2, <1>3

\* Every step keeps the invariant.
LEMMA InvariantStep ==
    ASSUME IInv, [Next]_vars
    PROVE  IInv'
<1> USE EventCounterAssumption DEF IInv
<1>1. /\ eventCounter \in Nat /\ processed \in Nat /\ displayed \in Nat
      /\ Cardinality(Pending) \in Nat
  BY PendingFinite DEF TypeOK
<1>2. CASE UNCHANGED vars
  BY <1>2 DEF vars, TypeOK, Pending
<1>3. ASSUME NEW t \in Threads, Process(t) PROVE IInv'
  <2>1. Pending' = Pending \cup {t} /\ t \notin Pending
    BY <1>3 DEF Process, Pending, TypeOK
  <2>2. Cardinality(Pending)' = Cardinality(Pending) + 1
    BY <2>1, PendingFinite, FS_AddElement
  <2>3. TypeOK'
    BY <1>3 DEF Process, TypeOK, ThreadPlaces, MainPlaces
  <2>4. processed' = displayed' + eventCounter' + Cardinality(Pending)'
    BY <1>1, <1>3, <2>2 DEF Process
  <2>5. \A u \in Threads \cup {Main} :
           pc'[u] \in {"add", "print"} => reg'[u] = eventCounter'
    BY <1>3 DEF Process, TypeOK
  <2> QED
    BY <2>3, <2>4, <2>5
<1>4. ASSUME NEW t \in Threads, Finish(t) PROVE IInv'
  BY <1>4, QuietStep DEF Finish, TypeOK, ThreadPlaces
<1>5. ASSUME NEW t \in Threads, Lock(t, "count", "read") PROVE IInv'
  BY <1>5, QuietStep DEF Lock, TypeOK, ThreadPlaces
<1>6. ASSUME NEW t \in Threads, Read(t, "read", "add") PROVE IInv'
  BY <1>6, QuietStep DEF Read, TypeOK, ThreadPlaces
<1>7. ASSUME NEW t \in Threads, _IncrementCounter(t) PROVE IInv'
  <2>1. Pending' = Pending \ {t} /\ t \in Pending
    BY <1>7 DEF _IncrementCounter, Pending, TypeOK
  <2>2. Cardinality(Pending)' = Cardinality(Pending) - 1
    BY <2>1, PendingFinite, FS_RemoveElement
  <2>3. eventCounter' = eventCounter + 1
    BY <1>7 DEF _IncrementCounter, TypeOK
  <2>4. processed' = displayed' + eventCounter' + Cardinality(Pending)'
    BY <1>1, <1>7, <2>2, <2>3 DEF _IncrementCounter
  <2>5. Cardinality(Pending)' \in Nat
    BY <2>1, PendingFinite, FS_RemoveElement, FS_CardinalityType
  <2>6. eventCounter' \in 0 .. MaxEvents
    BY <1>1, <1>7, <2>3, <2>4, <2>5 DEF _IncrementCounter, TypeOK
  <2>7. \A u \in Threads \cup {Main} : u # t =>
           pc[u] \notin {"read", "add", "show", "print"}
    BY <1>7, OneHolder DEF _IncrementCounter
  <2>8. TypeOK'
    BY <1>7, <2>6, <2>7 DEF _IncrementCounter, Unlock, TypeOK, ThreadPlaces, MainPlaces
  <2>9. \A u \in Threads \cup {Main} :
           pc'[u] \in {"add", "print"} => reg'[u] = eventCounter'
    BY <1>7, <2>7 DEF _IncrementCounter, TypeOK
  <2> QED
    BY <2>4, <2>8, <2>9
<1>8. CASE Lock(Main, "display", "show")
  BY <1>8, QuietStep DEF Lock, TypeOK, MainPlaces
<1>9. CASE Read(Main, "show", "print")
  BY <1>9, QuietStep DEF Read, TypeOK, MainPlaces
<1>10. CASE DisplayEventsProcessed
  <2>1. Pending' = Pending
    BY <1>10 DEF DisplayEventsProcessed, Pending, TypeOK
  <2>2. displayed' = displayed + eventCounter /\ eventCounter' = 0
    BY <1>10 DEF DisplayEventsProcessed, TypeOK
  <2>3. processed' = displayed' + eventCounter' + Cardinality(Pending)'
    BY <1>1, <1>10, <2>1, <2>2 DEF DisplayEventsProcessed
  <2>4. displayed' \in 0 .. MaxEvents
    BY <1>1, <1>10, <2>1, <2>2, <2>3 DEF DisplayEventsProcessed, TypeOK
  <2>5. \A u \in Threads \cup {Main} : u # Main =>
           pc[u] \notin {"read", "add", "show", "print"}
    BY <1>10, OneHolder DEF DisplayEventsProcessed
  <2>6. TypeOK'
    BY <1>10, <2>2, <2>4, <2>5
       DEF DisplayEventsProcessed, Unlock, TypeOK, ThreadPlaces, MainPlaces
  <2>7. \A u \in Threads \cup {Main} :
           pc'[u] \in {"add", "print"} => reg'[u] = eventCounter'
    BY <1>10, <2>5 DEF DisplayEventsProcessed, TypeOK
  <2> QED
    BY <2>3, <2>6, <2>7
<1>11. CASE Wake
  BY <1>11, QuietStep DEF Wake, TypeOK, MainPlaces
<1>12. CASE Join
  BY <1>12, QuietStep DEF Join, TypeOK, MainPlaces
<1>13. CASE GracefulShutdown
  BY <1>13 DEF GracefulShutdown, TypeOK, Pending
<1> QED
  BY <1>2, <1>3, <1>4, <1>5, <1>6, <1>7, <1>8, <1>9, <1>10, <1>11, <1>12, <1>13
     DEF Next, Counting, Displaying

-----------------------------------------------------------------------------
(* Theorems                                                                *)

\* The inductive invariant holds: counterLock makes reading and storing the
\* counter one step, so that every processed message is accounted for.
THEOREM Invariance == Spec => []IInv
<1>1. Init => IInv
  <2> SUFFICES ASSUME Init PROVE IInv
    OBVIOUS
  <2>1. TypeOK
    BY EventCounterAssumption DEF Init, TypeOK, ThreadPlaces, MainPlaces
  <2>2. Pending = {}
    BY EventCounterAssumption DEF Init, Pending
  <2>3. Cardinality(Pending) = 0
    BY <2>2, FS_EmptySet
  <2> QED
    BY <2>1, <2>3, EventCounterAssumption DEF Init, IInv
<1>2. IInv /\ [Next]_vars => IInv'
  BY InvariantStep
<1> QED
  BY <1>1, <1>2, PTL DEF Spec

\* Exactly the thread between lock and unlock holds the lock, and all counters
\* keep within the messages processed.
THEOREM TypeCorrect == Spec => []TypeOK
<1>1. IInv => TypeOK
  BY DEF IInv
<1> QED
  BY <1>1, Invariance, PTL

\* The display of main never runs ahead of the consumer threads, and no event
\* is lost between _IncrementCounter and DisplayEventsProcessed.
THEOREM EventsAccounted == Spec => []NothingLost
<1>1. IInv => NothingLost
  <2> SUFFICES ASSUME IInv PROVE NothingLost
    OBVIOUS
  <2>1. /\ processed = displayed + eventCounter + Cardinality(Pending)
        /\ displayed \in Nat /\ eventCounter \in Nat
        /\ Cardinality(Pending) \in Nat
    BY PendingFinite DEF IInv, TypeOK
  <2>2. displayed + eventCounter <= processed
    BY <2>1
  <2>3. ASSUME \A t \in Threads : pc[t] \notin {"count", "read", "add"}
        PROVE  displayed + eventCounter = processed
    <3>1. Pending = {}
      BY <2>3 DEF Pending
    <3> QED
      BY <2>1, <3>1, FS_EmptySet
  <2> QED
    BY <2>2, <2>3 DEF NothingLost
<1> QED
  BY <1>1, Invariance, PTL

=============================================================================

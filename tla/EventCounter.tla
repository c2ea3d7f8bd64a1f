------------------------------ MODULE EventCounter ------------------------------
(***************************************************************************)
(* The counter of events that the C++ consumer displays: the consumer      *)
(* threads add to it, the main thread prints and clears it every few       *)
(* seconds, all of them under counterLock.  What the threads do with the   *)
(* messages is in PageviewConsumer.                                        *)
(***************************************************************************)
EXTENDS Integers, FiniteSets

CONSTANTS
    Threads,     \* the consumer threads
    Main,        \* the main thread
    MaxEvents    \* bound: messages that are processed

\* Who holds the lock when nobody does
Nobody == ""

ASSUME EventCounterAssumption ==
    /\ IsFiniteSet(Threads)
    /\ Main \notin Threads
    /\ Nobody \notin Threads \cup {Main}
    /\ MaxEvents \in Nat

VARIABLES
    eventCounter,
    counterLock,   \* who holds it
    running,       \* the flag that SIGINT clears
    pc,            \* where each thread is
    reg,           \* *eventCounter as each thread has read it
    processed,     \* history: messages processed
    displayed      \* history: the sum of what was printed

vars == <<eventCounter, counterLock, running, pc, reg, processed, displayed>>

Init ==
    /\ eventCounter = 0
    /\ counterLock = Nobody
    /\ running = TRUE
    /\ pc = [t \in Threads \cup {Main} |-> IF t = Main THEN "display" ELSE "loop"]
    /\ reg = [t \in Threads \cup {Main} |-> 0]
    /\ processed = 0
    /\ displayed = 0

-----------------------------------------------------------------------------
\* A consumer thread has processed a message
Process(t) ==
    /\ pc[t] = "loop"
    /\ processed < MaxEvents
    /\ processed' = processed + 1
    /\ pc' = [pc EXCEPT ![t] = "count"]
    /\ UNCHANGED <<eventCounter, counterLock, running, reg, displayed>>

\* The thread leaves RunProcess
Finish(t) ==
    /\ pc[t] = "loop"
    /\ ~running
    /\ pc' = [pc EXCEPT ![t] = "done"]
    /\ UNCHANGED <<eventCounter, counterLock, running, reg, processed, displayed>>

\* Mutation: the lock is not taken
LockNothing(t, from, to) ==
    /\ pc[t] = from
    /\ pc' = [pc EXCEPT ![t] = to]
    /\ UNCHANGED <<counterLock, eventCounter, running, reg, processed, displayed>>

Lock(t, from, to) ==
    /\ pc[t] = from
    /\ counterLock = Nobody
    /\ counterLock' = t
    /\ pc' = [pc EXCEPT ![t] = to]
    /\ UNCHANGED <<eventCounter, running, reg, processed, displayed>>

\* *eventCounter is read, by += 1 or for the rate and the output
Read(t, from, to) ==
    /\ pc[t] = from
    /\ reg' = [reg EXCEPT ![t] = eventCounter]
    /\ pc' = [pc EXCEPT ![t] = to]
    /\ UNCHANGED <<eventCounter, counterLock, running, processed, displayed>>

Unlock(t) == counterLock' = Nobody

\* *eventCounter += 1 is stored
_IncrementCounter(t) ==
    /\ pc[t] = "add"
    /\ eventCounter' = reg[t] + 1
    /\ Unlock(t)
    /\ pc' = [pc EXCEPT ![t] = "loop"]
    /\ UNCHANGED <<running, reg, processed, displayed>>

\* Mutation: it is not cleared
DisplayKeeps ==
    /\ pc[Main] = "print"
    /\ displayed' = displayed + reg[Main]
    /\ Unlock(Main)
    /\ pc' = [pc EXCEPT ![Main] = "sleep"]
    /\ UNCHANGED <<eventCounter, running, reg, processed>>

\* It is printed and cleared; main sleeps
DisplayEventsProcessed ==
    /\ pc[Main] = "print"
    /\ displayed' = displayed + reg[Main]
    /\ eventCounter' = 0
    /\ Unlock(Main)
    /\ pc' = [pc EXCEPT ![Main] = "sleep"]
    /\ UNCHANGED <<running, reg, processed>>

\* Mutation: main displays once
WakeOnce ==
    /\ pc[Main] = "sleep"
    /\ pc' = [pc EXCEPT ![Main] = "join"]
    /\ UNCHANGED <<eventCounter, counterLock, running, reg, processed, displayed>>

\* sleep is over, or interrupted by the signal
Wake ==
    /\ pc[Main] = "sleep"
    /\ pc' = [pc EXCEPT ![Main] = IF running THEN "display" ELSE "join"]
    /\ UNCHANGED <<eventCounter, counterLock, running, reg, processed, displayed>>

Join ==
    /\ pc[Main] = "join"
    /\ \A t \in Threads : pc[t] = "done"
    /\ pc' = [pc EXCEPT ![Main] = "done"]
    /\ UNCHANGED <<eventCounter, counterLock, running, reg, processed, displayed>>

GracefulShutdown ==
    /\ running
    /\ running' = FALSE
    /\ UNCHANGED <<eventCounter, counterLock, pc, reg, processed, displayed>>

Counting(t) ==
    \/ Lock(t, "count", "read")
    \/ Read(t, "read", "add")
    \/ _IncrementCounter(t)

Displaying ==
    \/ Lock(Main, "display", "show")
    \/ Read(Main, "show", "print")
    \/ DisplayEventsProcessed
    \/ Wake

Next ==
    \/ \E t \in Threads : Process(t) \/ Finish(t) \/ Counting(t)
    \/ Displaying
    \/ Join
    \/ GracefulShutdown

Spec == Init /\ [][Next]_vars

\* Threads run on, and the mutex is granted in the end to a thread that waits for
\* it: its holder never blocks, and the others come back only with a new message or
\* after a sleep.
LiveSpec ==
    /\ Spec
    /\ \A t \in Threads : WF_vars(Finish(t)) /\ WF_vars(Counting(t))
                          /\ SF_vars(Lock(t, "count", "read"))
    /\ WF_vars(Displaying)
    /\ SF_vars(Lock(Main, "display", "show"))

-----------------------------------------------------------------------------
(* Properties *)

ThreadPlaces == {"loop", "count", "read", "add", "done"}

MainPlaces == {"display", "show", "print", "sleep", "join", "done"}

\* Every thread is at a step of its loop, and the one between lock and unlock
\* holds the lock.
TypeOK ==
    /\ eventCounter \in 0 .. MaxEvents
    /\ counterLock \in Threads \cup {Main, Nobody}
    /\ running \in BOOLEAN
    /\ pc \in [Threads \cup {Main} -> ThreadPlaces \cup MainPlaces]
    /\ \A t \in Threads : pc[t] \in ThreadPlaces
    /\ pc[Main] \in MainPlaces
    /\ reg \in [Threads \cup {Main} -> 0 .. MaxEvents]
    /\ processed \in 0 .. MaxEvents
    /\ displayed \in 0 .. MaxEvents
    /\ \A t \in Threads \cup {Main} :
          pc[t] \in {"read", "add", "show", "print"} <=> counterLock = t

\* The display never runs ahead of the threads and loses nothing: what is neither
\* displayed nor in the counter is in the hands of a thread that has still to count
\* it.
NothingLost ==
    /\ displayed + eventCounter <= processed
    /\ (\A t \in Threads : pc[t] \notin {"count", "read", "add"})
          => displayed + eventCounter = processed

\* An event is displayed in the end, unless the process is interrupted.  What was
\* counted since the last display is then never shown.
EventDisplayed ==
    \A n \in 1 .. MaxEvents : processed >= n ~> displayed >= n \/ ~running

=============================================================================

---------------------------- MODULE PageviewEvents ----------------------------
(***************************************************************************)
(* A page view on its way from the requester to the counters.  Requests    *)
(* are made by the threads of the Java load client and by anybody else;    *)
(* the Go service sends the view to Kafka and waits, the Spring service    *)
(* hands it to a sender of its own and does not; the consumer is taken     *)
(* as what it is shown to implement, the ledger of PageviewLedger.         *)
(*                                                                         *)
(* A message is the content it reports; its type is always                 *)
(* content_pageview and its day is the day of its making.                  *)
(***************************************************************************)
EXTENDS Integers, Sequences, FiniteSets

CONSTANTS
    GoRequesters, SpringRequesters,  \* who asks which of the two services
    Load,          \* those of them that are threads of the load client
    Contents,      \* well-formed ids of contents
    Known,         \* the ids that are in the table of contents
    Malformed,     \* an id that is no uuid
    Statistics,    \* the threads of the consumer
    RetryMax,      \* sarama: Producer.Retry.Max, 3 by default
    MaxViews,      \* bound: requests of each requester; numberOfViews of a thread
    MaxFaults,     \* bound: lost answers, failed attempts and given-up sends
    MaxCrashes,    \* bound: crashes of the two services
    MaxRestores    \* bound: restores of the database

ASSUME PageviewEventsAssumption ==
    /\ GoRequesters \cap SpringRequesters = {}
    /\ IsFiniteSet(GoRequesters)
    /\ Load \subseteq GoRequesters \cup SpringRequesters
    /\ IsFiniteSet(Contents)
    /\ Known \subseteq Contents
    /\ Malformed \notin Contents
    /\ "other" \notin Contents
    /\ RetryMax \in Nat
    /\ MaxViews \in Nat
    /\ MaxFaults \in Nat
    /\ MaxCrashes \in Nat
    /\ MaxRestores \in Nat

VARIABLES
    log, db, backup,  \* Kafka and Postgres, as in PageviewLedger
    req,        \* each requester's request, on its way through a service
    todo,       \* requests that each requester has still to make
    exited,     \* the load client has called System.exit
    stray,      \* sarama's abandoned attempts that the broker may yet append
    buffer,     \* the Spring service: messages that its sender has still to send
    tally,      \* history: per service and content, the requests taken on, the
                \* answers 204 and the messages appended
    faults, crashes, restores

ledgerVars == <<log, db, backup>>
boundVars == <<faults, crashes, restores>>
vars == <<ledgerVars, req, todo, exited, stray, buffer, tally, boundVars>>

-----------------------------------------------------------------------------
Requesters == GoRequesters \cup SpringRequesters

Ledger == INSTANCE PageviewLedger WITH
    Consumers <- Statistics,
    Views <- Contents,
    Other <- "other",
    Keys <- Contents,
    KeyOf <- [c \in Statistics |-> [m \in Contents |-> m]]

NoRequest == [pc |-> "idle", content |-> Malformed, tries |-> 0, status |-> "none"]

Init ==
    /\ Ledger!Init
    /\ req = [r \in Requesters |-> NoRequest]
    /\ todo = [r \in Requesters |-> MaxViews]
    /\ exited = FALSE
    /\ stray = [m \in Contents |-> 0]
    /\ buffer = <<>>
    /\ tally = [s \in {"go", "spring"} |-> [m \in Contents |->
                   [accepted |-> 0, confirmed |-> 0, copies |-> 0]]]
    /\ faults = 0
    /\ crashes = 0
    /\ restores = 0

Fault ==
    /\ faults < MaxFaults
    /\ faults' = faults + 1
    /\ UNCHANGED <<crashes, restores>>

\* The broker appends the message to the only partition of the topic
AppendToLog(m) ==
    /\ log' = Append(log, m)
    /\ UNCHANGED <<db, backup>>

\* What becomes of a request: it is taken on, its message is sent, it is answered
Taken(q, id) == [q EXCEPT !.pc = "send", !.content = id]

Sent(q) == [q EXCEPT !.pc = "sent", !.tries = @ + 1]

Answered(status) ==
    [pc |-> "answered", content |-> Malformed, tries |-> 0, status |-> status]

\* A requester makes its next request; the load client that has exited does not
Takes(r) ==
    /\ req[r].pc = "idle"
    /\ todo[r] > 0
    /\ r \in Load => ~exited
    /\ todo' = [todo EXCEPT ![r] = @ - 1]
    /\ UNCHANGED <<ledgerVars, exited, stray>>

-----------------------------------------------------------------------------
(* The Go service *)

\* combineInput: a document that cannot be parsed is refused, and so is null,
\* which makes the map nil to which the id of the path is to be added
combineInput(body) == body \in {"none", "object"}

\* The route admits only lower-case uuids, so that uuid.FromString succeeds
ProcessPageviewHandler(r, method, id, body) ==
    /\ Takes(r)
    /\ IF id = Malformed \/ method # "GET" \/ ~combineInput(body)
       THEN /\ req' = [req EXCEPT ![r] = Answered(
                          IF id = Malformed THEN "404"
                          ELSE IF method # "GET" THEN "405" ELSE "400")]
            /\ UNCHANGED tally
       ELSE /\ req' = [req EXCEPT ![r] = Taken(@, id)]
            /\ tally' = [tally EXCEPT !["go"][id].accepted = @ + 1]
    /\ UNCHANGED <<buffer, boundVars>>

\* Mutation: what is to be sent again is forgotten
sendMessageOnce(r) ==
    /\ req[r].pc = "send"
    /\ req[r].tries = 0
    /\ req' = [req EXCEPT ![r] = Sent(@)]
    /\ UNCHANGED <<ledgerVars, todo, exited, stray, buffer, tally, boundVars>>

\* SendMessage sends the message, for the first time or again
sendMessage(r) ==
    /\ req[r].pc = "send"
    /\ req' = [req EXCEPT ![r] = Sent(@)]
    /\ UNCHANGED <<ledgerVars, todo, exited, stray, buffer, tally, boundVars>>

\* The leader appends it: WaitForLocal
BrokerAppends(r) ==
    /\ req[r].pc = "sent"
    /\ AppendToLog(req[r].content)
    /\ tally' = [tally EXCEPT !["go"][req[r].content].copies = @ + 1]
    /\ req' = [req EXCEPT ![r] = [@ EXCEPT !.pc = "appended"]]
    /\ UNCHANGED <<todo, exited, stray, buffer, boundVars>>

Confirm(r) ==
    /\ req' = [req EXCEPT ![r] = Answered("204")]
    /\ tally' = [tally EXCEPT !["go"][req[r].content].confirmed = @ + 1]

\* Mutation: 204 is answered without waiting for the broker
MakeNoContentEarly(r) ==
    /\ req[r].pc \in {"sent", "appended"}
    /\ Confirm(r)
    /\ UNCHANGED <<ledgerVars, todo, exited, stray, buffer, boundVars>>

\* The acknowledgement arrives
MakeNoContent(r) ==
    /\ req[r].pc = "appended"
    /\ Confirm(r)
    /\ UNCHANGED <<ledgerVars, todo, exited, stray, buffer, boundVars>>

\* Mutation: a failed attempt is repeated without end
MayRetryAlways(r) == TRUE

MayRetry(r) == req[r].tries <= RetryMax

\* A timeout, a lost connection or an error of the broker ends the attempt; what
\* was sent may be appended later.  The attempt is repeated or its error returned
AttemptFails(r) ==
    /\ req[r].pc \in {"sent", "appended"}
    /\ Fault
    /\ stray' = IF req[r].pc = "sent"
                THEN [stray EXCEPT ![req[r].content] = @ + 1] ELSE stray
    /\ req' = [req EXCEPT ![r] = IF MayRetry(r) THEN [@ EXCEPT !.pc = "send"]
                                                ELSE Answered("500")]
    /\ UNCHANGED <<ledgerVars, todo, exited, buffer, tally>>

StrayArrives(m) ==
    /\ stray[m] > 0
    /\ stray' = [stray EXCEPT ![m] = @ - 1]
    /\ AppendToLog(m)
    /\ tally' = [tally EXCEPT !["go"][m].copies = @ + 1]
    /\ UNCHANGED <<req, todo, exited, buffer, boundVars>>

-----------------------------------------------------------------------------
(* The Spring service *)

\* Mutation: a view of a content that is in the buffer is taken for the same view
contentViewOnce(r, method, id) ==
    /\ Takes(r)
    /\ id # Malformed /\ method = "GET"
    /\ req' = [req EXCEPT ![r] = Answered("204")]
    /\ tally' = [tally EXCEPT !["spring"][id].accepted = @ + 1,
                              !["spring"][id].confirmed = @ + 1]
    /\ buffer' = IF \E o \in DOMAIN buffer : buffer[o] = id THEN buffer
                                                          ELSE Append(buffer, id)
    /\ UNCHANGED boundVars

\* contentView: sendMessage hands the view to the sender and drops the future.  The
\* send throws if it has failed already, without metadata or with a full buffer
contentView(r, method, id) ==
    /\ Takes(r)
    /\ UNCHANGED <<crashes, restores>>
    /\ IF id = Malformed \/ method # "GET"
       THEN /\ req' = [req EXCEPT ![r] = Answered(IF method # "GET" THEN "405" ELSE "400")]
            /\ UNCHANGED <<buffer, tally, faults>>
       ELSE \/ /\ req' = [req EXCEPT ![r] = Answered("204")]
               /\ tally' = [tally EXCEPT !["spring"][id].accepted = @ + 1,
                                         !["spring"][id].confirmed = @ + 1]
               /\ buffer' = Append(buffer, id)
               /\ UNCHANGED faults
            \/ /\ faults < MaxFaults
               /\ faults' = faults + 1
               /\ req' = [req EXCEPT ![r] = Answered("500")]
               /\ UNCHANGED <<buffer, tally>>

\* Mutation: a message stays in the buffer when it has been sent
SenderRepeats ==
    /\ buffer # <<>>
    /\ AppendToLog(Head(buffer))
    /\ tally' = [tally EXCEPT !["spring"][Head(buffer)].copies = @ + 1]
    /\ UNCHANGED <<buffer, req, todo, exited, stray, boundVars>>

\* The sender's messages are numbered, so that one that is repeated is appended once
SenderSends ==
    /\ buffer # <<>>
    /\ buffer' = Tail(buffer)
    /\ AppendToLog(Head(buffer))
    /\ tally' = [tally EXCEPT !["spring"][Head(buffer)].copies = @ + 1]
    /\ UNCHANGED <<req, todo, exited, stray, boundVars>>

\* delivery.timeout.ms is over
SenderGivesUp ==
    /\ buffer # <<>>
    /\ Fault
    /\ buffer' = Tail(buffer)
    /\ UNCHANGED <<ledgerVars, req, todo, exited, stray, tally>>

-----------------------------------------------------------------------------
(* Requesters and failures *)

\* Main.run: anything but 204 ends the whole load client
Receive(r) ==
    /\ req[r].pc = "answered"
    /\ exited' = (exited \/ (r \in Load /\ req[r].status # "204"))
    /\ req' = [req EXCEPT ![r] = NoRequest]
    /\ UNCHANGED <<ledgerVars, todo, stray, buffer, tally, boundVars>>

\* Main.run: an IOException ends it as well
LoseAnswer(r) ==
    /\ req[r].pc = "answered"
    /\ Fault
    /\ exited' = (exited \/ r \in Load)
    /\ req' = [req EXCEPT ![r] = NoRequest]
    /\ UNCHANGED <<ledgerVars, todo, stray, buffer, tally>>

\* The requests of a service that crashes end without an answer
Crash(served) ==
    LET open == {r \in served : req[r].pc # "idle"} IN
    /\ crashes < MaxCrashes
    /\ crashes' = crashes + 1
    /\ req' = [r \in Requesters |-> IF r \in served THEN NoRequest ELSE req[r]]
    /\ exited' = (exited \/ open \cap Load # {})
    /\ UNCHANGED <<ledgerVars, todo, tally, faults, restores>>

CrashGo ==
    /\ Crash(GoRequesters)
    /\ stray' = [m \in Contents |-> stray[m] +
                    Cardinality({r \in GoRequesters :
                                   req[r].pc = "sent" /\ req[r].content = m})]
    /\ UNCHANGED buffer

CrashSpring ==
    /\ Crash(SpringRequesters)
    /\ buffer' = <<>>
    /\ UNCHANGED stray

\* Mutation: the reference is committed and the counters are not
PostReference(c, r) ==
    /\ \A o \in 0 .. r : log[o + 1] \in Known
    /\ db' = [db EXCEPT ![c].ref = r]
    /\ UNCHANGED <<log, backup, req, todo, exited, stray, buffer, tally, boundVars>>

\* A consumer thread commits a batch
Post(c, r) ==
    /\ Ledger!Post(c, r)
    /\ UNCHANGED <<req, todo, exited, stray, buffer, tally, boundVars>>

TakeBackup ==
    /\ backup # db
    /\ restores < MaxRestores
    /\ Ledger!TakeBackup
    /\ UNCHANGED <<req, todo, exited, stray, buffer, tally, boundVars>>

\* Mutation: the references are not in the dump
RestoreCounts ==
    /\ restores < MaxRestores
    /\ restores' = restores + 1
    /\ db' = [c \in Statistics |-> [db[c] EXCEPT !.counts = backup[c].counts]]
    /\ UNCHANGED <<log, backup, req, todo, exited, stray, buffer, tally, faults, crashes>>

Restore ==
    /\ restores < MaxRestores
    /\ restores' = restores + 1
    /\ Ledger!Restore
    /\ UNCHANGED <<req, todo, exited, stray, buffer, tally, faults, crashes>>

-----------------------------------------------------------------------------
Methods == {"GET", "POST"}

Bodies == {"none", "object", "null", "broken"}

\* Anybody asks anything; a thread of the load client views a content of the list
Request(r) ==
    \/ \E method \in Methods, id \in Contents \cup {Malformed}, body \in Bodies :
          /\ r \in Load => method = "GET" /\ id \in Known /\ body = "none"
          /\ r \in GoRequesters /\ ProcessPageviewHandler(r, method, id, body)
    \/ \E method \in Methods, id \in Contents \cup {Malformed} :
          /\ r \in Load => method = "GET" /\ id \in Known
          /\ r \in SpringRequesters /\ contentView(r, method, id)

\* What ends a request that the Go service has taken on
GoStep(r) ==
    sendMessage(r) \/ BrokerAppends(r) \/ MakeNoContent(r) \/ AttemptFails(r)

PostSome(c) == \E r \in db[c].ref + 1 .. Len(log) - 1 : Post(c, r)

Next ==
    \/ \E r \in Requesters : Request(r) \/ Receive(r) \/ LoseAnswer(r)
    \/ \E r \in GoRequesters : GoStep(r)
    \/ \E m \in Contents : StrayArrives(m)
    \/ SenderSends
    \/ SenderGivesUp
    \/ CrashGo
    \/ CrashSpring
    \/ \E c \in Statistics : PostSome(c)
    \/ TakeBackup
    \/ Restore

Spec == Init /\ [][Next]_vars

\* A request that was taken on is sent, and answered or timed out; the consumer
\* counts what it can.  Nothing makes a requester go on, nor an abandoned attempt
\* arrive.
LiveSpec ==
    /\ Spec
    /\ \A r \in GoRequesters : WF_vars(GoStep(r))
    /\ \A c \in Statistics : WF_vars(PostSome(c))

-----------------------------------------------------------------------------
(* Properties *)

\* For every x of S as many pairs as g[x] says
Numbered(S, g) == UNION {{x} \X (1 .. g[x]) : x \in S}

\* The sum of g over S
Sum(S, g) == Cardinality(Numbered(S, g))

Total(s, f) == Sum(Contents, [m \in Contents |-> tally[s][m][f]])

\* A request is at one place of its way, and has not been sent more often than
\* the producer may try.
TypeOK ==
    /\ log \in Seq(Contents)
    /\ {db, backup} \subseteq
          [Statistics -> [ref : -1 .. Len(log) - 1, counts : [Contents -> Nat]]]
    /\ req \in [Requesters ->
          [pc : {"idle", "send", "sent", "appended", "answered"},
           content : Contents \cup {Malformed},
           tries : 0 .. RetryMax + 1,
           status : {"none", "204", "400", "404", "405", "500"}]]
    /\ \A r \in Requesters : req[r].pc \in {"send", "sent", "appended"}
          <=> req[r].content # Malformed
    /\ todo \in [Requesters -> 0 .. MaxViews]
    /\ exited \in BOOLEAN
    /\ stray \in [Contents -> Nat]
    /\ buffer \in Seq(Contents)
    /\ tally \in [{"go", "spring"} ->
          [Contents -> [accepted : Nat, confirmed : Nat, copies : Nat]]]
    /\ faults \in 0 .. MaxFaults
    /\ crashes \in 0 .. MaxCrashes
    /\ restores \in 0 .. MaxRestores

\* A view that the Go service has answered with 204 is in the topic, whatever
\* was repeated, came late or crashed on the way.
ConfirmedIsPublished ==
    \A m \in Contents : tally["go"][m].confirmed <= tally["go"][m].copies

\* The topic has no message without a request for that content; a request has more
\* than one only for attempts that failed, and no more than the producer may make.
\* The Spring service sends a view at most once.
CopiesBounded ==
    /\ \A m \in Contents :
          /\ tally["go"][m].copies <= (1 + RetryMax) * tally["go"][m].accepted
          /\ tally["spring"][m].copies <= tally["spring"][m].accepted
    /\ Len(log) <= Total("go", "accepted") + Total("spring", "accepted") + faults

\* A statistic that has reached the end of the topic has counted every confirmed
\* view of the Go service, and no content more often than it was asked for and
\* attempts failed; a restore in between changes nothing.
CaughtUpCounts ==
    \A c \in Statistics, m \in Contents :
        db[c].ref = Len(log) - 1 =>
            /\ db[c].counts[m] >= tally["go"][m].confirmed
            /\ db[c].counts[m] <= tally["go"][m].accepted
                                     + tally["spring"][m].accepted + faults

\* The messages of a content that Spring's sender has still to send
Waiting(m) == Cardinality({o \in 0 .. Len(buffer) - 1 : buffer[o + 1] = m})

\* While no service crashes, a view that the Spring service has answered with 204 is in
\* the topic or on its way there, unless the sender has given it up: what the dropped
\* future of sendMessage hides is no more than the failures.
SpringLossExplained ==
    crashes = 0 =>
        \A m \in Contents :
            tally["spring"][m].confirmed <= tally["spring"][m].copies + Waiting(m) + faults

\* The consumer cannot pass a view of an unknown content, which neither service
\* refuses
Poisoned == \E o \in DOMAIN log : log[o] \notin Known

\* A confirmed view is counted in the end, and stays counted, unless a view of an
\* unknown content gets into the topic.
ConfirmedIsCounted ==
    \A m \in Contents, n \in 1 .. MaxViews * Cardinality(GoRequesters) :
        tally["go"][m].confirmed >= n ~>
            [](Poisoned \/ \A c \in Statistics : db[c].counts[m] >= n)

\* Every request to the Go service is answered: the attempts of the producer end.
EveryViewAnswered ==
    \A r \in GoRequesters : req[r].pc # "idle" ~> req[r].pc \in {"idle", "answered"}

=============================================================================

----------------------------- MODULE ClientService -----------------------------
(***************************************************************************)
(* Clients and contents: the handlers of the Go service, those of the      *)
(* Spring service, and the tables that both use.  Every request runs by    *)
(* itself; they meet in Postgres, in the unique index on the names of      *)
(* clients and in the number of connections that the server allows.        *)
(*                                                                         *)
(* create_client is one statement and so one transaction, but not one      *)
(* step: it looks for the name, inserts the client, creates the table of   *)
(* its counters and commits.  A name that another open transaction has     *)
(* inserted makes an insert wait until that transaction has ended.         *)
(***************************************************************************)
EXTENDS Integers, FiniteSets

CONSTANTS
    GoRequests, SpringRequests,  \* requests that are served at the same time
    Ids,              \* ids of clients, as uuid_generate_v1 makes them
    Names,            \* names of clients
    Unparsable,       \* a body or a query string that is no JSON
    Invalid,          \* a document that the validation refuses, such as a blank name
    None,             \* no name, no id, no answer
    MaxConnections,   \* max_connections of the Postgres server
    MaxFaults,        \* bound: connections that are lost
    MaxRestarts       \* bound: restarts of the Go service

ASSUME ClientServiceAssumption ==
    /\ IsFiniteSet(GoRequests)
    /\ GoRequests \cap SpringRequests = {}
    /\ {Unparsable, Invalid, None} \cap Names = {}
    /\ None \notin Ids
    /\ MaxConnections \in Nat \ {0}
    /\ MaxFaults \in Nat
    /\ MaxRestarts \in Nat

Requests == GoRequests \cup SpringRequests

VARIABLES
    clients,    \* Postgres, committed: id -> name, or None
    counters,   \* Postgres, committed: clients that have a counter table
    contents,   \* Postgres, committed: clients that have a content
    inserted,   \* Postgres: request -> the client its open transaction inserted
    conns,      \* Postgres: connections that the pools of the Go service hold
    req,        \* where each request is, and its answer
    saved,      \* history: clients that the Spring service has inserted
    faults, restarts

dbVars == <<clients, counters, contents, inserted, saved>>
boundVars == <<faults, restarts>>
vars == <<dbVars, conns, req, boundVars>>

-----------------------------------------------------------------------------
Idle == [pc |-> "idle", handler |-> "", name |-> None, id |-> None, status |-> None]

NoInsert == [id |-> None, name |-> None]

Existing == {i \in Ids : clients[i] # None}

Named(n) == {i \in Ids : clients[i] = n}

\* An id that neither a row nor an open transaction has
Fresh == {i \in Ids : clients[i] = None /\ \A r \in Requests : inserted[r].id # i}

\* Mutation: the row of an open transaction does not hold others up
NobodyInserts(r, n) == TRUE

\* No other transaction has inserted the name; until then an insert waits
NameIsFree(r, n) == \A s \in Requests \ {r} : inserted[s].name # n

Init ==
    /\ clients = [i \in Ids |-> None]
    /\ counters = {}
    /\ contents = {}
    /\ inserted = [r \in Requests |-> NoInsert]
    /\ conns = 0
    /\ req = [r \in Requests |-> Idle]
    /\ saved = {}
    /\ faults = 0
    /\ restarts = 0

\* The handler is over, and all that is left of it is the answer and the client
\* it was about
Done(r, id, status) ==
    req' = [req EXCEPT ![r] = [pc |-> "done", handler |-> "", name |-> None,
                               id |-> id, status |-> status]]

Answer(r, status) == Done(r, req[r].id, status)

\* Answered without the database
AnswerAtOnce(r, status) ==
    /\ req[r].pc = "idle"
    /\ Answer(r, status)
    /\ UNCHANGED <<dbVars, conns, boundVars>>

\* The handler goes on to its query
GoOn(r, handler, name) ==
    /\ req[r].pc = "idle"
    /\ req' = [req EXCEPT ![r].pc = "query", ![r].handler = handler, ![r].name = name]
    /\ UNCHANGED <<dbVars, conns, boundVars>>

NextRequest(r) ==
    /\ req[r].pc = "done"
    /\ req' = [req EXCEPT ![r] = Idle]
    /\ UNCHANGED <<dbVars, conns, boundVars>>

-----------------------------------------------------------------------------
(* The Go service: up to the first use of the database.  sql.Open, which   *)
(* every handler calls first, makes a pool and no connection.              *)

Methods == {"GET", "POST", "PATCH", "DELETE", "PUT"}

\* combineInput, the switch on the method, the validation
InsertClientHandler(r, method, input) ==
    IF input = Unparsable THEN AnswerAtOnce(r, "400")
    ELSE IF method = "GET" THEN AnswerAtOnce(r, "200")
    ELSE IF method # "POST" THEN AnswerAtOnce(r, "405")
    ELSE IF input = Invalid THEN AnswerAtOnce(r, "400")
    ELSE GoOn(r, "insert", input)

UpdateClientHandler(r, method, input) ==
    IF input = Unparsable THEN AnswerAtOnce(r, "400")
    ELSE IF method = "GET" THEN AnswerAtOnce(r, "200")
    ELSE IF method \notin {"POST", "PATCH", "DELETE"} THEN AnswerAtOnce(r, "405")
    ELSE IF input = Invalid THEN AnswerAtOnce(r, "400")
    ELSE GoOn(r, "update", input)

\* Not written yet: an empty answer
FindOneClientHandler(r, method) ==
    AnswerAtOnce(r, IF method = "GET" THEN "200" ELSE "405")

\* The fields of the query string must be strings, or the conversion panics
FindManyClientHandler(r, method, input) ==
    IF method # "GET" THEN AnswerAtOnce(r, "405")
    ELSE IF input = Unparsable THEN AnswerAtOnce(r, "400")
    ELSE IF input = Invalid THEN AnswerAtOnce(r, "panic")
    ELSE GoOn(r, "list", None)

\* NewPostgresDataHandler refuses the empty table definition that the handler
\* gives it, whatever the request
InsertContentHandler(r) == AnswerAtOnce(r, "500")

UpdateContentHandler(r) == AnswerAtOnce(r, "500")

FindManyContentHandler(r, method) ==
    IF method # "GET" THEN AnswerAtOnce(r, "405") ELSE GoOn(r, "contents", None)

-----------------------------------------------------------------------------
(* The Go service: queries *)

\* An error of a query is an invalid input to two of the handlers
QueryError(r) == IF req[r].handler \in {"insert", "update"} THEN "400" ELSE "500"

\* The first query makes the pool open a connection
Connect(r) ==
    /\ req[r].pc = "query"
    /\ IF conns < MaxConnections
       THEN /\ conns' = conns + 1
            /\ req' = [req EXCEPT ![r].pc = "connected"]
       ELSE /\ Answer(r, QueryError(r))
            /\ UNCHANGED conns
    /\ UNCHANGED <<dbVars, boundVars>>

\* The request is over; its connection stays in a pool that nobody else uses
\* and nobody closes
Release(r) == UNCHANGED conns

Connected(r, handler) == req[r].pc = "connected" /\ req[r].handler = handler

\* update_client and delete_client, which are not in the schema
UndefinedFunction(r) ==
    /\ Connected(r, "update")
    /\ Answer(r, "400")
    /\ Release(r)
    /\ UNCHANGED <<dbVars, boundVars>>

ListClients(r) ==
    /\ Connected(r, "list")
    /\ Answer(r, IF Existing = {} THEN "404" ELSE "200")
    /\ Release(r)
    /\ UNCHANGED <<dbVars, boundVars>>

ListContents(r) ==
    /\ Connected(r, "contents")
    /\ Answer(r, IF contents = {} THEN "404" ELSE "200")
    /\ Release(r)
    /\ UNCHANGED <<dbVars, boundVars>>

\* create_client: the name is there already
CreateFound(r) ==
    /\ Connected(r, "insert")
    /\ \E i \in Named(req[r].name) :
          req' = [req EXCEPT ![r].pc = "created", ![r].id = i]
    /\ UNCHANGED <<dbVars, conns, boundVars>>

CreateNotFound(r) ==
    /\ Connected(r, "insert")
    /\ Named(req[r].name) = {}
    /\ req' = [req EXCEPT ![r].pc = "insert"]
    /\ UNCHANGED <<dbVars, conns, boundVars>>

\* Mutation: create_client does not wait for a name that another transaction has
\* inserted, but gives up at once, as under a lock_timeout
CreateInsertNoWait(r) ==
    /\ req[r].pc = "insert"
    /\ IF Named(req[r].name) # {} \/ ~NameIsFree(r, req[r].name)
       THEN /\ Answer(r, "400")
            /\ Release(r)
            /\ UNCHANGED inserted
       ELSE /\ \E i \in Fresh :
                  inserted' = [inserted EXCEPT ![r] = [id |-> i, name |-> req[r].name]]
            /\ req' = [req EXCEPT ![r].pc = "commit"]
            /\ UNCHANGED conns
    /\ UNCHANGED <<clients, counters, contents, saved, boundVars>>

\* The insert into client, and the table of its counters
CreateInsert(r) ==
    /\ req[r].pc = "insert"
    /\ NameIsFree(r, req[r].name)
    /\ IF Named(req[r].name) # {}
       THEN /\ Answer(r, "400")
            /\ Release(r)
            /\ UNCHANGED inserted
       ELSE /\ \E i \in Fresh :
                  inserted' = [inserted EXCEPT ![r] = [id |-> i, name |-> req[r].name]]
            /\ req' = [req EXCEPT ![r].pc = "commit"]
            /\ UNCHANGED conns
    /\ UNCHANGED <<clients, counters, contents, saved, boundVars>>

\* Mutation: the table of the counters is created in a transaction of its own,
\* which fails
CommittedApart(r) ==
    /\ clients' = [clients EXCEPT ![inserted[r].id] = inserted[r].name]
    /\ inserted' = [inserted EXCEPT ![r] = NoInsert]
    /\ UNCHANGED <<counters, contents, saved>>

\* Mutation: the transaction is left open
CommittedOpen(r) ==
    /\ clients' = [clients EXCEPT ![inserted[r].id] = inserted[r].name]
    /\ counters' = counters \cup {inserted[r].id}
    /\ UNCHANGED <<inserted, contents, saved>>

\* COMMIT makes the client and its counter table visible together
Committed(r) ==
    /\ clients' = [clients EXCEPT ![inserted[r].id] = inserted[r].name]
    /\ counters' = counters \cup {inserted[r].id}
    /\ inserted' = [inserted EXCEPT ![r] = NoInsert]
    /\ UNCHANGED <<contents, saved>>

CreateCommit(r) ==
    /\ req[r].pc = "commit"
    /\ Committed(r)
    /\ req' = [req EXCEPT ![r].pc = "created", ![r].id = inserted[r].id]
    /\ UNCHANGED <<conns, boundVars>>

\* The answer of "select * from create_client(...)" has one column, create_client.
\* The handler looks for client_id in order to answer 201 and to send the message
\* client_create, and panics; net/http recovers and closes the connection
CreateAnswer(r) ==
    /\ req[r].pc = "created"
    /\ Answer(r, "panic")
    /\ Release(r)
    /\ UNCHANGED <<dbVars, boundVars>>

\* rows.Err() is not read: once the first row is there, the loss looks like the
\* end of the rows, and a listing may end early (DataHandler)
LostAnswers(r) ==
    {QueryError(r)}
        \cup (IF req[r].handler \in {"list", "contents"} THEN {"200"} ELSE {})
        \cup (IF req[r].pc = "commit" THEN {"panic"} ELSE {})

\* The connection is lost in the middle of a statement, which Postgres rolls back
\* unless it had got to the commit
LoseConnection(r) ==
    /\ req[r].pc \in {"connected", "insert", "commit"}
    /\ faults < MaxFaults
    /\ faults' = faults + 1
    /\ conns' = conns - 1
    /\ \E status \in LostAnswers(r) : Answer(r, status)
    /\ \/ /\ inserted' = [inserted EXCEPT ![r] = NoInsert]
          /\ UNCHANGED <<clients, counters, contents, saved>>
       \/ req[r].pc = "commit" /\ Committed(r)
    /\ UNCHANGED restarts

\* The Go service is restarted: its requests, transactions and pools are gone
Restart ==
    /\ restarts < MaxRestarts
    /\ restarts' = restarts + 1
    /\ req' = [r \in Requests |-> IF r \in GoRequests THEN Idle ELSE req[r]]
    /\ inserted' = [r \in Requests |-> IF r \in GoRequests THEN NoInsert ELSE inserted[r]]
    /\ conns' = 0
    /\ UNCHANGED <<clients, counters, contents, saved, faults>>

-----------------------------------------------------------------------------
(* The Spring service: each repository call is a transaction of its own,   *)
(* on a pool that the service shares among its requests.                   *)

\* The controller finds the name taken, or goes on to validate and save the client of
\* the body, which may have an id
addClient(r, id, name) ==
    /\ req[r].pc = "idle"
    /\ IF Named(name) # {} \/ name \in {None, Invalid}
       THEN Answer(r, "400")
       ELSE req' = [req EXCEPT ![r].pc = "save", ![r].handler = "add", ![r].id = id,
                               ![r].name = name]
    /\ UNCHANGED <<dbVars, conns, boundVars>>

\* findClientById and mergeUpdate: a request without a name keeps the one it read,
\* and a blank name is refused
updateClient(r, id, name) ==
    /\ req[r].pc = "idle"
    /\ IF id \notin Existing
       THEN Answer(r, "404")
       ELSE IF name = Invalid
       THEN Answer(r, "400")
       ELSE req' = [req EXCEPT ![r].pc = "save", ![r].handler = "merge", ![r].id = id,
                               ![r].name = IF name = None THEN clients[id] ELSE name]
    /\ UNCHANGED <<dbVars, conns, boundVars>>

\* save: an insert without an id, an update with one, which fails if no row has it
saveClient(r) ==
    LET id == req[r].id
        name == req[r].name
    IN
    /\ req[r].pc = "save"
    /\ id \in Existing \cup {None} => NameIsFree(r, name)
    /\ IF id \notin Existing \cup {None} \/ Named(name) \ {id} # {}
       THEN Answer(r, "500") /\ UNCHANGED <<clients, saved>>
       ELSE \E i \in IF id = None THEN Fresh ELSE {id} :
               /\ clients' = [clients EXCEPT ![i] = name]
               /\ saved' = IF id = None THEN saved \cup {i} ELSE saved
               /\ Done(r, i, IF req[r].handler = "add" THEN "201" ELSE "200")
    /\ UNCHANGED <<counters, contents, inserted, conns, boundVars>>

\* content_add, called with psql: the client must exist
content_add(i) ==
    /\ i \in Existing \ contents
    /\ contents' = contents \cup {i}
    /\ UNCHANGED <<clients, counters, inserted, saved, conns, req, boundVars>>

-----------------------------------------------------------------------------
Inputs == Names \cup {Unparsable, Invalid}

\* A request reaches a handler by its route
Route(r) ==
    \/ \E m \in Methods, d \in Inputs :
          \/ InsertClientHandler(r, m, d)
          \/ UpdateClientHandler(r, m, d)
          \/ FindManyClientHandler(r, m, d)
    \/ \E m \in Methods : FindOneClientHandler(r, m) \/ FindManyContentHandler(r, m)
    \/ InsertContentHandler(r)
    \/ UpdateContentHandler(r)

\* What a request of the Go service does once it has a handler
GoStep(r) ==
    \/ Connect(r)
    \/ UndefinedFunction(r)
    \/ ListClients(r)
    \/ ListContents(r)
    \/ CreateFound(r)
    \/ CreateNotFound(r)
    \/ CreateInsert(r)
    \/ CreateCommit(r)
    \/ CreateAnswer(r)

Next ==
    \/ \E r \in GoRequests : Route(r) \/ GoStep(r) \/ LoseConnection(r)
    \/ \E r \in SpringRequests :
          \/ \E i \in Ids \cup {None}, n \in Names \cup {None, Invalid} : addClient(r, i, n)
          \/ \E i \in Ids, n \in Names \cup {None, Invalid} : updateClient(r, i, n)
          \/ saveClient(r)
    \/ \E r \in Requests : NextRequest(r)
    \/ \E i \in Ids : content_add(i)
    \/ Restart

Spec == Init /\ [][Next]_vars

\* Handlers run to their end.  A transaction that waits for another's name is
\* woken when that one ends, and looks again.
LiveSpec ==
    /\ Spec
    /\ \A r \in GoRequests : WF_vars(GoStep(r)) /\ SF_vars(CreateInsert(r))
    /\ \A r \in SpringRequests : SF_vars(saveClient(r))

-----------------------------------------------------------------------------
(* Properties *)

\* Numbers of connections, and bounds
NumbersOK ==
    /\ conns \in 0 .. MaxConnections
    /\ faults \in 0 .. MaxFaults
    /\ restarts \in 0 .. MaxRestarts

RequestRecords ==
    [pc : {"idle", "query", "connected", "insert", "commit", "created", "save", "done"},
     handler : {"", "insert", "update", "list", "contents", "add", "merge"},
     name : Names \cup {None},
     id : Ids \cup {None},
     status : {None, "200", "201", "400", "404", "405", "500", "panic"}]

\* Every request is somewhere in its handler, and only a create_client that is
\* about to commit has inserted a client; the server has no more connections than
\* it allows.
TypeOK ==
    /\ clients \in [Ids -> Names \cup {None}]
    /\ counters \subseteq Ids
    /\ contents \subseteq Ids
    /\ saved \subseteq Ids
    /\ inserted \in [Requests -> [id : Ids \cup {None}, name : Names \cup {None}]]
    /\ req \in [Requests -> RequestRecords]
    /\ \A r \in Requests : inserted[r] # NoInsert <=> req[r].pc = "commit"
    /\ NumbersOK

\* No two clients have the same name, though both services look for the name in
\* one step and insert in another, and the Spring service also renames.
UniqueNames ==
    \A i, j \in Existing : clients[i] = clients[j] => i = j

\* A create request that Postgres serves to the end leaves a client of that name:
\* it is refused only because somebody else's client has been committed, never for
\* one that may still be rolled back.  So a caller that was refused need not retry.
CreateLeavesClient ==
    [][\A r \in GoRequests :
          (/\ req[r].handler = "insert"
           /\ req[r].pc \in {"connected", "insert", "commit"}
           /\ req'[r].pc \in {"created", "done"}
           /\ UNCHANGED boundVars)
          => \E i \in Ids : clients'[i] = req[r].name]_vars

\* The consumer can count the views of a content, as its client has a counter
\* table, unless the client was added through the Spring service, which makes none.
\* create_client makes it with the client or not at all, also when the connection is
\* lost or the service restarted in between.
ContentsCountable == contents \subseteq counters \cup saved

\* Every request gets its answer: nobody waits for ever for a name that another
\* transaction has inserted, nor for a connection.
EveryRequestEnds ==
    \A r \in Requests : req[r].pc # "idle" ~> req[r].pc \in {"idle", "done"}

\* "This is the rest layer that abstracts the pgsql database and adds events to
\* the kafka queue" (README.md:10): a request whose client has been created is
\* answered 201 and its client_create message sent.
CreatedIsAnnounced ==
    \A r \in GoRequests :
        req[r].pc = "done" /\ req[r].id # None => req[r].status = "201"

=============================================================================

------------------------- MODULE ClientServiceProofs -------------------------
(***************************************************************************)
(* Proofs about clients and contents, for any number of requests to the    *)
(* two services, any names and ids, any number of connections of the       *)
(* server, and any number of lost connections and restarts.                *)
(***************************************************************************)
EXTENDS ClientService, FiniteSetTheorems, TLAPS

-----------------------------------------------------------------------------
(* The inductive invariant *)

\* Requests that hold a connection
Holding == {r \in GoRequests : req[r].pc \in {"connected", "insert", "commit", "created"}}

\* Every request that is being served has a connection of its own
ConnInv == Cardinality(Holding) <= conns

\* What a request carries with it to the step it has got to
RequestInv(r) ==
    /\ req[r].pc = "idle" => req[r] = Idle
    /\ req[r].pc \in {"query", "connected", "insert", "commit", "created"} => r \in GoRequests
    /\ req[r].pc \in {"insert", "commit"} => req[r].handler = "insert"
    /\ req[r].pc = "save" => r \in SpringRequests
    /\ req[r].pc = "save" \/ req[r].handler = "insert" => req[r].name \in Names

\* A client that is not committed has the name of its request, which nobody else
\* has, committed or not
InsertInv(r) ==
    inserted[r] # NoInsert =>
        /\ inserted[r].id \in Ids
        /\ inserted[r].name = req[r].name
        /\ inserted[r].name \in Names
        /\ Named(inserted[r].name) = {}
        /\ NameIsFree(r, inserted[r].name)

IInv ==
    /\ TypeOK
    /\ ConnInv
    /\ \A r \in Requests : RequestInv(r) /\ InsertInv(r)
    /\ UniqueNames
    /\ Existing \cup contents \subseteq counters \cup saved

-----------------------------------------------------------------------------
\* The places of a request at which it holds a connection
HoldingPcs == {"connected", "insert", "commit", "created"}

\* A request q may take the place of another that is not about to commit
Admissible(r, q) ==
    /\ q \in RequestRecords
    /\ q.pc # "commit"
    /\ q.pc = "idle" => q = Idle
    /\ q.pc \in {"query", "connected", "insert", "created"} => r \in GoRequests
    /\ q.pc = "insert" => q.handler = "insert"
    /\ q.pc = "save" => r \in SpringRequests
    /\ q.pc = "save" \/ q.handler = "insert" => q.name \in Names

-----------------------------------------------------------------------------
(* Connections *)

\* A set of requests of the Go service is finite.
LEMMA HoldingFinite ==
    ASSUME TypeOK
    PROVE  IsFiniteSet(Holding) /\ Cardinality(Holding) \in Nat
<1>1. Holding \subseteq GoRequests
  BY DEF Holding
<1>2. IsFiniteSet(Holding)
  BY <1>1, FS_Subset, ClientServiceAssumption
<1> QED
  BY <1>2, FS_CardinalityType

\* A step after which no other request holds a connection than before, and none is
\* opened or closed, keeps the account of connections.
LEMMA HoldingShrinks ==
    ASSUME TypeOK, ConnInv, Holding' \subseteq Holding, UNCHANGED conns
    PROVE  ConnInv'
<1>1. Cardinality(Holding') \in Nat /\ Cardinality(Holding') <= Cardinality(Holding)
  BY HoldingFinite, FS_Subset, FS_CardinalityType
<1>2. Cardinality(Holding) \in Nat
  BY HoldingFinite
<1>3. conns \in Int /\ Cardinality(Holding) <= conns
  BY ClientServiceAssumption DEF TypeOK, NumbersOK, ConnInv
<1>4. Cardinality(Holding)' <= conns
  BY <1>1, <1>2, <1>3
<1> QED
  BY <1>4 DEF ConnInv

-----------------------------------------------------------------------------
(* Steps *)

\* A step that changes nothing but one request keeps the invariant.
LEMMA RequestStep ==
    ASSUME IInv, NEW r \in Requests, NEW q,
           UNCHANGED <<dbVars, conns, boundVars>>,
           req' = [req EXCEPT ![r] = q],
           req[r].pc # "commit",
           Admissible(r, q),
           q.pc \in HoldingPcs => req[r].pc \in HoldingPcs
    PROVE  IInv'
<1> USE DEF IInv
<1>1. TypeOK'
  BY DEF TypeOK, NumbersOK, Admissible, dbVars, boundVars
<1>2. ConnInv'
  <2>1. Holding' \subseteq Holding
    BY DEF Holding, TypeOK, HoldingPcs, Requests
  <2> QED
    BY <2>1, HoldingShrinks
<1>3. \A s \in Requests : RequestInv(s)'
  BY DEF RequestInv, TypeOK, Admissible, dbVars
<1>4. \A s \in Requests : InsertInv(s)'
  BY DEF InsertInv, TypeOK, NoInsert, Named, NameIsFree, dbVars
<1>5. UniqueNames' /\ (Existing \cup contents \subseteq counters \cup saved)'
  BY DEF UniqueNames, Existing, dbVars
<1> QED
  BY <1>1, <1>2, <1>3, <1>4, <1>5

\* What follows from the answer of a request: a shape that RequestStep admits.
LEMMA DoneStep ==
    ASSUME IInv, NEW r \in Requests, NEW i \in Ids \cup {None},
           NEW status \in {"200", "201", "400", "404", "405", "500", "panic"},
           UNCHANGED <<dbVars, conns, boundVars>>,
           Done(r, i, status),
           req[r].pc # "commit"
    PROVE  IInv'
<1> DEFINE q == [pc |-> "done", handler |-> "", name |-> None, id |-> i, status |-> status]
<1>2. Admissible(r, q) /\ q.pc \notin HoldingPcs
  BY DEF Admissible, RequestRecords, HoldingPcs
<1>3. req' = [req EXCEPT ![r] = q]
  BY DEF Done
<1> HIDE DEF q
<1> QED
  BY <1>2, <1>3, RequestStep

LEMMA AnswerStep ==
    ASSUME IInv, NEW r \in Requests,
           NEW status \in {"200", "201", "400", "404", "405", "500", "panic"},
           UNCHANGED <<dbVars, conns, boundVars>>,
           Answer(r, status),
           req[r].pc # "commit"
    PROVE  IInv'
<1>1. req[r].id \in Ids \cup {None}
  BY DEF IInv, TypeOK, RequestRecords
<1> QED
  BY <1>1, DoneStep DEF Answer

\* Routing: a request is answered at once, or goes on to its query.
LEMMA RouteStep ==
    ASSUME IInv, NEW r \in GoRequests, Route(r)
    PROVE  IInv'
<1>1. \/ \E status \in {"200", "400", "404", "405", "500", "panic"} : AnswerAtOnce(r, status)
      \/ \E h \in {"insert", "update", "list", "contents"}, n \in Names \cup {None} :
            GoOn(r, h, n) /\ (h = "insert" => n \in Names)
  BY ClientServiceAssumption
     DEF Route, InsertClientHandler, UpdateClientHandler, FindOneClientHandler,
         FindManyClientHandler, InsertContentHandler, UpdateContentHandler,
         FindManyContentHandler, Inputs, Methods
<1>2. ASSUME NEW status \in {"200", "400", "404", "405", "500", "panic"},
             AnswerAtOnce(r, status)
      PROVE  IInv'
  BY <1>2, AnswerStep DEF AnswerAtOnce, Requests
<1>3. ASSUME NEW h \in {"insert", "update", "list", "contents"},
             NEW n \in Names \cup {None}, GoOn(r, h, n), h = "insert" => n \in Names
      PROVE  IInv'
  <2> DEFINE q == [req[r] EXCEPT !.pc = "query", !.handler = h, !.name = n]
  <2>1. req[r] \in RequestRecords /\ req[r].pc = "idle"
    BY <1>3 DEF IInv, TypeOK, RequestRecords, GoOn, Requests
  <2>2. Admissible(r, q) /\ q.pc \notin HoldingPcs
    BY <1>3, <2>1 DEF Admissible, RequestRecords, HoldingPcs
  <2>3. req' = [req EXCEPT ![r] = q]
    BY <1>3, <2>1 DEF GoOn, IInv, TypeOK, Requests, RequestRecords
  <2> HIDE DEF q
  <2> QED
    BY <1>3, <2>1, <2>2, <2>3, RequestStep DEF GoOn, Requests
<1> QED
  BY <1>1, <1>2, <1>3

\* The pool opens a connection.
LEMMA ConnectStep ==
    ASSUME IInv, NEW r \in GoRequests, Connect(r)
    PROVE  IInv'
<1> USE DEF IInv
<1>1. r \in Requests /\ req[r].pc = "query" /\ req[r] \in RequestRecords
  BY DEF Requests, Connect, TypeOK, RequestRecords
<1>2. CASE conns < MaxConnections
  <2>1. /\ conns' = conns + 1
        /\ req' = [req EXCEPT ![r].pc = "connected"]
        /\ UNCHANGED <<dbVars, boundVars>>
    BY <1>2 DEF Connect
  <2>2. TypeOK'
    <3>1. NumbersOK'
      BY <1>2, <2>1, ClientServiceAssumption DEF TypeOK, NumbersOK, boundVars
    <3>2. [req[r] EXCEPT !.pc = "connected"] \in RequestRecords
      BY <1>1 DEF RequestRecords
    <3> QED
      BY <1>1, <2>1, <3>1, <3>2 DEF TypeOK, dbVars
  <2>3. ConnInv'
    <3>1. Holding' = Holding \cup {r} /\ r \notin Holding
      BY <1>1, <2>1 DEF Holding, TypeOK, Requests
    <3>2. Cardinality(Holding)' = Cardinality(Holding) + 1
      BY <3>1, HoldingFinite, FS_AddElement
    <3>3. Cardinality(Holding) \in Nat
      BY HoldingFinite
    <3>4. conns \in Int
      BY ClientServiceAssumption DEF TypeOK, NumbersOK
    <3> QED
      BY <2>1, <3>2, <3>3, <3>4 DEF ConnInv
  <2>4. \A s \in Requests : RequestInv(s)'
    <3>1. req' = [req EXCEPT ![r] = [req[r] EXCEPT !.pc = "connected"]]
      BY <2>1
    <3>2. /\ [req[r] EXCEPT !.pc = "connected"].pc = "connected"
          /\ [req[r] EXCEPT !.pc = "connected"].handler = req[r].handler
          /\ [req[r] EXCEPT !.pc = "connected"].name = req[r].name
      BY <1>1 DEF RequestRecords
    <3> QED
      BY <1>1, <2>1, <3>1, <3>2 DEF RequestInv, TypeOK, dbVars
  <2>5. \A s \in Requests : InsertInv(s)'
    BY <1>1, <2>1 DEF InsertInv, TypeOK, NoInsert, Named, NameIsFree, dbVars
  <2>6. UniqueNames' /\ (Existing \cup contents \subseteq counters \cup saved)'
    BY <2>1 DEF UniqueNames, Existing, dbVars
  <2> QED
    BY <2>2, <2>3, <2>4, <2>5, <2>6
<1>3. CASE ~(conns < MaxConnections)
  <2>1. /\ Answer(r, QueryError(r))
        /\ QueryError(r) \in {"400", "500"}
        /\ UNCHANGED <<dbVars, conns, boundVars>>
    BY <1>3 DEF Connect, QueryError
  <2> QED
    BY <1>1, <2>1, AnswerStep
<1> QED
  BY <1>2, <1>3

\* The handlers that only ask.
LEMMA QueryStep ==
    ASSUME IInv, NEW r \in GoRequests,
           \/ UndefinedFunction(r) \/ ListClients(r) \/ ListContents(r) \/ CreateAnswer(r)
    PROVE  IInv'
<1>1. /\ \E status \in {"200", "400", "404", "panic"} : Answer(r, status)
      /\ UNCHANGED <<dbVars, conns, boundVars>>
      /\ req[r].pc # "commit"
  BY DEF UndefinedFunction, ListClients, ListContents, CreateAnswer, Release, Connected
<1> QED
  BY <1>1, AnswerStep DEF Requests

\* create_client finds the name, or does not.
LEMMA LookupStep ==
    ASSUME IInv, NEW r \in GoRequests, CreateFound(r) \/ CreateNotFound(r)
    PROVE  IInv'
<1>1. r \in Requests /\ req[r] \in RequestRecords /\ req[r].pc = "connected"
      /\ req[r].handler = "insert" /\ req[r].name \in Names
  BY DEF Requests, IInv, TypeOK, RequestRecords, RequestInv, CreateFound, CreateNotFound, Connected
<1>2. CASE CreateFound(r)
  <2>1. PICK i \in Ids : req' = [req EXCEPT ![r].pc = "created", ![r].id = i]
    BY <1>2 DEF CreateFound, Named
  <2> DEFINE q == [req[r] EXCEPT !.pc = "created", !.id = i]
  <2>2. Admissible(r, q)
    BY <1>1 DEF Admissible, RequestRecords
  <2>3. req' = [req EXCEPT ![r] = q]
    BY <1>1, <2>1 DEF IInv, TypeOK
  <2> HIDE DEF q
  <2> QED
    BY <1>1, <1>2, <2>2, <2>3, RequestStep DEF CreateFound, HoldingPcs
<1>3. CASE CreateNotFound(r)
  <2> DEFINE q == [req[r] EXCEPT !.pc = "insert"]
  <2>2. Admissible(r, q)
    BY <1>1 DEF Admissible, RequestRecords
  <2>3. req' = [req EXCEPT ![r] = q]
    BY <1>1, <1>3 DEF CreateNotFound
  <2> HIDE DEF q
  <2> QED
    BY <1>1, <1>3, <2>2, <2>3, RequestStep DEF CreateNotFound, HoldingPcs
<1> QED
  BY <1>2, <1>3

\* The insert of create_client, once nobody else has inserted the name.
LEMMA InsertStep ==
    ASSUME IInv, NEW r \in GoRequests, CreateInsert(r)
    PROVE  IInv'
<1> USE DEF IInv
<1>1. /\ r \in Requests /\ req[r] \in RequestRecords /\ req[r].pc = "insert"
      /\ req[r].handler = "insert" /\ req[r].name \in Names
      /\ NameIsFree(r, req[r].name)
  BY DEF Requests, TypeOK, RequestInv, CreateInsert
<1>2. CASE Named(req[r].name) # {}
  <2>1. Answer(r, "400") /\ UNCHANGED <<dbVars, conns, boundVars>>
    BY <1>2 DEF CreateInsert, Release, dbVars
  <2> QED
    BY <1>1, <2>1, AnswerStep
<1>3. CASE Named(req[r].name) = {}
  <2> DEFINE n == req[r].name
             q == [req[r] EXCEPT !.pc = "commit"]
  <2>1. PICK i \in Fresh : inserted' = [inserted EXCEPT ![r] = [id |-> i, name |-> n]]
    BY <1>3 DEF CreateInsert
  <2>2. /\ req' = [req EXCEPT ![r] = q]
        /\ UNCHANGED <<clients, counters, contents, saved, conns, boundVars>>
    BY <1>3 DEF CreateInsert
  <2>3. /\ q \in RequestRecords /\ q.pc = "commit"
        /\ q.handler = "insert" /\ q.name = n
    BY <1>1 DEF RequestRecords
  <2>4. i \in Ids /\ n \in Names /\ n # None
    BY <1>1, ClientServiceAssumption DEF Fresh
  <2>5. [id |-> i, name |-> n] # NoInsert
    BY <2>4 DEF NoInsert
  <2> HIDE DEF q
  <2>6. TypeOK'
    <3>1. NumbersOK'
      BY <2>2 DEF TypeOK, NumbersOK, boundVars
    <3> QED
      BY <1>1, <2>1, <2>2, <2>3, <2>4, <2>5, <3>1 DEF TypeOK
  <2>7. ConnInv'
    <3>1. Holding' \subseteq Holding
      BY <1>1, <2>2, <2>3 DEF Holding, TypeOK
    <3> QED
      BY <2>2, <3>1, HoldingShrinks
  <2>8. \A s \in Requests : RequestInv(s)'
    BY <1>1, <2>2, <2>3 DEF RequestInv, TypeOK
  <2>9. \A s \in Requests : InsertInv(s)'
    <3>1. ASSUME NEW s \in Requests PROVE InsertInv(s)'
      <4>1. CASE s = r
        BY <1>1, <1>3, <2>1, <2>2, <2>3, <2>4, <4>1
           DEF InsertInv, TypeOK, Named, NameIsFree
      <4>2. CASE s # r
        <5>1. inserted'[s] = inserted[s] /\ req'[s] = req[s] /\ inserted[s].name # n
          BY <1>1, <2>1, <2>2, <4>2 DEF TypeOK, NameIsFree
        <5>2. inserted'[r].name = n /\ \A t \in Requests \ {r} : inserted'[t] = inserted[t]
          BY <1>1, <2>1 DEF TypeOK
        <5> QED
          BY <2>2, <5>1, <5>2 DEF InsertInv, Named, NameIsFree
      <4> QED
        BY <4>1, <4>2
    <3> QED
      BY <3>1
  <2>10. UniqueNames' /\ (Existing \cup contents \subseteq counters \cup saved)'
    BY <2>2 DEF UniqueNames, Existing
  <2> QED
    BY <2>6, <2>7, <2>8, <2>9, <2>10
<1> QED
  BY <1>2, <1>3

\* What COMMIT does to the tables, whatever becomes of the request.
LEMMA CommitTables ==
    ASSUME IInv, NEW r \in Requests, req[r].pc = "commit", Committed(r)
    PROVE  /\ clients' \in [Ids -> Names \cup {None}]
           /\ counters' \subseteq Ids /\ contents' \subseteq Ids /\ saved' \subseteq Ids
           /\ inserted' \in [Requests -> [id : Ids \cup {None}, name : Names \cup {None}]]
           /\ inserted'[r] = NoInsert
           /\ \A s \in Requests \ {r} : inserted'[s] = inserted[s]
           /\ \A s \in Requests \ {r} :
                 inserted[s] # NoInsert => Named(inserted[s].name)' = {}
           /\ UniqueNames'
           /\ (Existing \cup contents \subseteq counters \cup saved)'
           /\ counters \subseteq counters' /\ saved' = saved
           /\ \E i \in Ids : clients'[i] = req[r].name
<1> DEFINE i == inserted[r].id
           n == inserted[r].name
<1>1. /\ i \in Ids /\ n \in Names /\ n = req[r].name /\ n # None
      /\ Named(n) = {} /\ NameIsFree(r, n)
  BY ClientServiceAssumption DEF IInv, TypeOK, InsertInv
<1>2. /\ clients' = [clients EXCEPT ![i] = n]
      /\ counters' = counters \cup {i}
      /\ inserted' = [inserted EXCEPT ![r] = NoInsert]
      /\ contents' = contents /\ saved' = saved
  BY DEF Committed
<1> HIDE DEF i, n
<1>3. \A j \in Ids : clients[j] # n
  BY <1>1 DEF Named
<1>4. clients \in [Ids -> Names \cup {None}]
  BY DEF IInv, TypeOK
<1>5. clients' \in [Ids -> Names \cup {None}] /\ clients'[i] = n
  BY <1>1, <1>2, <1>4
<1>6. counters' \subseteq Ids /\ contents' \subseteq Ids /\ saved' \subseteq Ids
  BY <1>1, <1>2 DEF IInv, TypeOK
<1>7. /\ inserted' \in [Requests -> [id : Ids \cup {None}, name : Names \cup {None}]]
      /\ inserted'[r] = NoInsert
      /\ \A s \in Requests \ {r} : inserted'[s] = inserted[s]
  BY <1>2 DEF IInv, TypeOK, NoInsert
<1>8. \A s \in Requests \ {r} : inserted[s] # NoInsert => Named(inserted[s].name)' = {}
  BY <1>1, <1>2, <1>4, <1>7 DEF IInv, InsertInv, Named, NameIsFree
<1>9. UniqueNames'
  BY <1>1, <1>2, <1>3, <1>4 DEF IInv, UniqueNames, Existing
<1>10. (Existing \cup contents \subseteq counters \cup saved)'
  BY <1>1, <1>2, <1>4 DEF IInv, Existing
<1> QED
  BY <1>1, <1>2, <1>5, <1>6, <1>7, <1>8, <1>9, <1>10

\* A request that leaves "commit" with its transaction, for a place q.
LEMMA LeaveCommit ==
    ASSUME IInv, NEW r \in GoRequests, req[r].pc = "commit", Committed(r),
           NEW q, Admissible(r, q), req' = [req EXCEPT ![r] = q], NumbersOK', ConnInv'
    PROVE  IInv'
<1>1. r \in Requests
  BY DEF Requests
<1>2. TypeOK'
  BY <1>1, CommitTables DEF IInv, TypeOK, Admissible
<1>3. \A s \in Requests : RequestInv(s)'
  <2>1. counters \subseteq counters' /\ saved' = saved
    BY <1>1, CommitTables
  <2> QED
    BY <1>1, <2>1 DEF IInv, TypeOK, RequestInv, Admissible
<1>4. \A s \in Requests : InsertInv(s)'
  <2>1. InsertInv(r)'
    BY <1>1, CommitTables DEF InsertInv
  <2>2. ASSUME NEW s \in Requests, s # r PROVE InsertInv(s)'
    <3>1. /\ inserted'[s] = inserted[s] /\ req'[s] = req[s]
          /\ inserted[s] # NoInsert => Named(inserted[s].name)' = {}
      BY <1>1, <2>2, CommitTables DEF IInv, TypeOK
    <3>2. inserted[s] # NoInsert => NameIsFree(s, inserted[s].name)'
      <4>1. \A t \in Requests : inserted'[t].name = None \/ inserted'[t] = inserted[t]
        BY <1>1, CommitTables DEF NoInsert
      <4>2. inserted[s] # NoInsert => inserted[s].name \in Names /\ inserted[s].name # None
        BY ClientServiceAssumption DEF IInv, InsertInv
      <4> QED
        BY <3>1, <4>1, <4>2 DEF IInv, InsertInv, NameIsFree
    <3> QED
      BY <3>1, <3>2 DEF IInv, InsertInv
  <2> QED
    BY <2>1, <2>2
<1>5. UniqueNames' /\ (Existing \cup contents \subseteq counters \cup saved)'
  BY <1>1, CommitTables
<1> QED
  BY <1>2, <1>3, <1>4, <1>5 DEF IInv, TypeOK

LEMMA CommitStep ==
    ASSUME IInv, NEW r \in GoRequests, CreateCommit(r)
    PROVE  IInv'
<1> DEFINE q == [req[r] EXCEPT !.pc = "created", !.id = inserted[r].id]
<1>1. /\ r \in Requests /\ req[r] \in RequestRecords /\ req[r].pc = "commit"
      /\ inserted[r].id \in Ids /\ Committed(r)
      /\ req[r].handler = "insert" /\ req[r].name \in Names
  BY DEF Requests, IInv, TypeOK, RequestInv, InsertInv, CreateCommit
<1>2. Admissible(r, q) /\ q.pc = "created"
  BY <1>1 DEF Admissible, RequestRecords
<1>3. req' = [req EXCEPT ![r] = q]
  BY DEF CreateCommit
<1> HIDE DEF q
<1>4. NumbersOK'
  BY DEF IInv, TypeOK, NumbersOK, CreateCommit, boundVars
<1>5. ConnInv'
  <2>1. Holding' \subseteq Holding
    BY <1>1, <1>2, <1>3 DEF Holding, IInv, TypeOK
  <2> QED
    BY <2>1, HoldingShrinks DEF IInv, CreateCommit
<1> QED
  BY <1>1, <1>2, <1>3, <1>4, <1>5, LeaveCommit

\* A connection is lost: the statement is rolled back, or had got to its commit.
LEMMA LoseStep ==
    ASSUME IInv, NEW r \in GoRequests, LoseConnection(r)
    PROVE  IInv'
<1>1. /\ r \in Requests /\ req[r] \in RequestRecords
      /\ req[r].pc \in {"connected", "insert", "commit"}
  BY DEF Requests, IInv, TypeOK, LoseConnection
<1>2. PICK status \in {"200", "400", "500", "panic"} : Answer(r, status)
  BY DEF LoseConnection, LostAnswers, QueryError
<1> DEFINE q == [pc |-> "done", handler |-> "", name |-> None,
                 id |-> req[r].id, status |-> status]
<1>3. Admissible(r, q) /\ q.pc = "done"
  BY <1>1 DEF Admissible, RequestRecords
<1>4. req' = [req EXCEPT ![r] = q]
  BY <1>2 DEF Answer, Done
<1> HIDE DEF q
<1>5. Holding' = Holding \ {r} /\ r \in Holding
  BY <1>1, <1>3, <1>4 DEF Holding, IInv, TypeOK
<1>6. /\ Cardinality(Holding)' = Cardinality(Holding) - 1
      /\ Cardinality(Holding) \in Nat /\ Cardinality(Holding)' \in Nat
  <2>1. TypeOK
    BY DEF IInv
  <2>2. IsFiniteSet(Holding) /\ IsFiniteSet(Holding \ {r})
        /\ Cardinality(Holding \ {r}) = Cardinality(Holding) - 1
    BY <1>5, <2>1, HoldingFinite, FS_RemoveElement
  <2> QED
    BY <1>5, <2>2, FS_CardinalityType
<1>7. /\ conns' = conns - 1
      /\ faults' = faults + 1 /\ faults < MaxFaults /\ restarts' = restarts
  BY DEF LoseConnection
<1>8. NumbersOK' /\ ConnInv'
  BY <1>6, <1>7, ClientServiceAssumption DEF IInv, TypeOK, NumbersOK, ConnInv
<1>9. CASE req[r].pc = "commit" /\ Committed(r)
  BY <1>3, <1>4, <1>8, <1>9, LeaveCommit
<1>10. CASE /\ inserted' = [inserted EXCEPT ![r] = NoInsert]
            /\ UNCHANGED <<clients, counters, contents, saved>>
  <2>1. TypeOK'
    BY <1>1, <1>3, <1>4, <1>8, <1>10 DEF IInv, TypeOK, Admissible, NoInsert
  <2>2. \A s \in Requests : RequestInv(s)'
    BY <1>1, <1>3, <1>4, <1>10 DEF IInv, TypeOK, RequestInv, Admissible
  <2>3. ASSUME NEW s \in Requests PROVE InsertInv(s)'
    <3>1. CASE s = r
      BY <1>1, <1>10, <3>1 DEF InsertInv, IInv, TypeOK
    <3>2. CASE s # r
      <4>1. inserted'[s] = inserted[s] /\ req'[s] = req[s]
        BY <1>1, <1>4, <1>10, <3>2 DEF IInv, TypeOK
      <4>2. \A t \in Requests : inserted'[t].name = None \/ inserted'[t] = inserted[t]
        BY <1>1, <1>10 DEF IInv, TypeOK, NoInsert
      <4>3. inserted[s] # NoInsert => inserted[s].name # None
        BY ClientServiceAssumption DEF IInv, InsertInv
      <4> QED
        BY <1>10, <4>1, <4>2, <4>3 DEF IInv, InsertInv, Named, NameIsFree
    <3> QED
      BY <3>1, <3>2
  <2>4. UniqueNames' /\ (Existing \cup contents \subseteq counters \cup saved)'
    BY <1>10 DEF IInv, UniqueNames, Existing
  <2> QED
    BY <1>8, <2>1, <2>2, <2>3, <2>4 DEF IInv
<1> QED
  BY <1>9, <1>10 DEF LoseConnection

\* The Go service is restarted.
LEMMA RestartStep ==
    ASSUME IInv, Restart
    PROVE  IInv'
<1> USE DEF IInv
<1>1. /\ req' = [r \in Requests |-> IF r \in GoRequests THEN Idle ELSE req[r]]
      /\ inserted' = [r \in Requests |-> IF r \in GoRequests THEN NoInsert ELSE inserted[r]]
      /\ UNCHANGED <<clients, counters, contents, saved>>
      /\ conns' = 0
      /\ restarts < MaxRestarts /\ restarts' = restarts + 1 /\ faults' = faults
  BY DEF Restart
<1>2. NumbersOK'
  BY <1>1, ClientServiceAssumption DEF TypeOK, NumbersOK
<1>3. Idle \in RequestRecords /\ Idle.pc = "idle" /\ Idle.handler = ""
  BY DEF Idle, RequestRecords
<1>4. TypeOK'
  BY <1>1, <1>2, <1>3 DEF TypeOK, NoInsert
<1>5. ConnInv'
  <2>1. Holding' = {}
    BY <1>1, <1>3 DEF Holding, Requests
  <2>2. Cardinality(Holding)' = 0
    BY <2>1, FS_EmptySet
  <2> QED
    BY <1>1, <2>2 DEF ConnInv
<1>6. \A s \in Requests : RequestInv(s)'
  BY <1>1, <1>3 DEF RequestInv
<1>7. ASSUME NEW s \in Requests PROVE InsertInv(s)'
  <2>1. \A t \in Requests : inserted'[t].name = None \/ inserted'[t] = inserted[t]
    BY <1>1 DEF NoInsert
  <2>2. inserted[s] # NoInsert => inserted[s].name # None
    BY ClientServiceAssumption DEF InsertInv
  <2>3. inserted'[s] # NoInsert => inserted'[s] = inserted[s] /\ req'[s] = req[s]
    BY <1>1
  <2> QED
    BY <1>1, <2>1, <2>2, <2>3 DEF InsertInv, Named, NameIsFree
<1>8. UniqueNames' /\ (Existing \cup contents \subseteq counters \cup saved)'
  BY <1>1 DEF UniqueNames, Existing
<1> QED
  BY <1>4, <1>5, <1>6, <1>7, <1>8

\* The next request takes the place of one that is over.
LEMMA NextRequestStep ==
    ASSUME IInv, NEW r \in Requests, NextRequest(r)
    PROVE  IInv'
<1>1. Admissible(r, Idle) /\ Idle.pc \notin HoldingPcs
  BY DEF Admissible, Idle, RequestRecords, HoldingPcs
<1> QED
  BY <1>1, RequestStep DEF NextRequest

\* A request of the Spring service that goes on to save.
LEMMA SaveBegins ==
    ASSUME IInv, NEW r \in SpringRequests, req[r].pc = "idle",
           NEW q \in RequestRecords, q.pc = "save", q.name \in Names,
           req' = [req EXCEPT ![r] = q],
           UNCHANGED <<dbVars, conns, boundVars>>
    PROVE  IInv'
<1>1. Admissible(r, q) /\ q.pc \notin HoldingPcs
  BY DEF Admissible, HoldingPcs
<1> QED
  BY <1>1, RequestStep DEF Requests

LEMMA AddStep ==
    ASSUME IInv, NEW r \in SpringRequests, NEW i \in Ids \cup {None},
           NEW n \in Names \cup {None, Invalid}, addClient(r, i, n)
    PROVE  IInv'
<1>1. r \in Requests /\ req[r].pc = "idle"
      /\ UNCHANGED <<dbVars, conns, boundVars>>
  BY DEF Requests, addClient
<1>2. CASE Named(n) # {} \/ n \in {None, Invalid}
  BY <1>1, <1>2, AnswerStep DEF addClient
<1>3. CASE Named(n) = {} /\ n \notin {None, Invalid}
  <2> DEFINE q == [req[r] EXCEPT !.pc = "save", !.handler = "add", !.id = i, !.name = n]
  <2>1. req' = [req EXCEPT ![r] = q]
    BY <1>3 DEF addClient
  <2>2. req[r] \in RequestRecords
    BY <1>1 DEF IInv, TypeOK
  <2>3. q \in RequestRecords /\ q.pc = "save" /\ q.name \in Names
    BY <1>3, <2>2 DEF RequestRecords
  <2> HIDE DEF q
  <2> QED
    BY <1>1, <2>1, <2>3, SaveBegins
<1> QED
  BY <1>2, <1>3

LEMMA UpdateStep ==
    ASSUME IInv, NEW r \in SpringRequests, NEW i \in Ids,
           NEW n \in Names \cup {None, Invalid}, updateClient(r, i, n)
    PROVE  IInv'
<1>1. r \in Requests /\ req[r].pc = "idle" /\ req[r] = Idle
      /\ UNCHANGED <<dbVars, conns, boundVars>>
  BY DEF Requests, updateClient, IInv, RequestInv
<1>2. CASE i \notin Existing \/ n = Invalid
  BY <1>1, <1>2, AnswerStep DEF updateClient
<1>3. CASE i \in Existing /\ n # Invalid
  <2> DEFINE m == IF n = None THEN clients[i] ELSE n
  <2>1. m \in Names
    BY <1>3 DEF IInv, TypeOK, Existing
  <2> HIDE DEF m
  <2> DEFINE q == [req[r] EXCEPT !.pc = "save", !.handler = "merge", !.id = i, !.name = m]
  <2>2. req' = [req EXCEPT ![r] = q]
    BY <1>3 DEF updateClient, m
  <2>3. req[r] \in RequestRecords
    BY <1>1 DEF IInv, TypeOK
  <2>4. q \in RequestRecords /\ q.pc = "save" /\ q.name \in Names
    BY <2>1, <2>3 DEF RequestRecords
  <2> HIDE DEF q
  <2> QED
    BY <1>1, <2>1, <2>2, <2>4, SaveBegins
<1> QED
  BY <1>2, <1>3

\* save, of a new client or of one that is there, when no other client and no open
\* transaction has the name.
LEMMA SaveStep ==
    ASSUME IInv, NEW r \in SpringRequests, saveClient(r)
    PROVE  IInv'
<1> DEFINE n == req[r].name
           known == req[r].id \in Existing \cup {None}
           status == IF req[r].handler = "add" THEN "201" ELSE "200"
<1>1. /\ r \in Requests /\ r \notin GoRequests /\ req[r].pc = "save"
      /\ n \in Names /\ n # None
      /\ UNCHANGED <<counters, contents, inserted, conns, boundVars>>
  BY ClientServiceAssumption DEF Requests, saveClient, IInv, RequestInv
<1>2. CASE ~known \/ Named(n) \ {req[r].id} # {}
  BY <1>1, <1>2, AnswerStep DEF saveClient, dbVars
<1>3. CASE known /\ Named(n) \ {req[r].id} = {}
  <2>1. /\ NameIsFree(r, n)
        /\ \E i \in IF req[r].id = None THEN Fresh ELSE {req[r].id} :
              /\ clients' = [clients EXCEPT ![i] = n]
              /\ saved' = IF req[r].id = None THEN saved \cup {i} ELSE saved
              /\ Done(r, i, status)
    BY <1>3 DEF saveClient
  <2>2. PICK i \in IF req[r].id = None THEN Fresh ELSE {req[r].id} :
           /\ clients' = [clients EXCEPT ![i] = n]
           /\ saved' = IF req[r].id = None THEN saved \cup {i} ELSE saved
           /\ Done(r, i, status)
    BY <2>1
  <2>3. i \in Ids /\ i \in counters \cup saved' /\ saved \subseteq saved' /\ saved' \subseteq Ids
    BY <1>1, <1>3, <2>2 DEF IInv, TypeOK, Fresh, Existing
  <2>4. \A j \in Ids \ {i} : clients[j] # n
    BY <1>3, <2>2, ClientServiceAssumption DEF Named
  <2> DEFINE q == [pc |-> "done", handler |-> "", name |-> None, id |-> i, status |-> status]
  <2>5. q \in RequestRecords /\ q.pc = "done" /\ q.handler = ""
    BY <2>3 DEF RequestRecords
  <2>6. req' = [req EXCEPT ![r] = q]
    BY <2>2 DEF Done
  <2> HIDE DEF q
  <2> HIDE DEF n
  <2>7. clients \in [Ids -> Names \cup {None}]
    BY DEF IInv, TypeOK
  <2>8. TypeOK'
    <3>1. NumbersOK'
      BY <1>1 DEF IInv, TypeOK, NumbersOK, boundVars
    <3> QED
      BY <1>1, <2>2, <2>3, <2>5, <2>6, <3>1 DEF IInv, TypeOK
  <2>9. ConnInv'
    <3>1. Holding' \subseteq Holding
      BY <1>1, <2>6 DEF Holding, IInv, TypeOK
    <3> QED
      BY <1>1, <3>1, HoldingShrinks DEF IInv
  <2>10. \A s \in Requests : RequestInv(s)'
    BY <1>1, <2>3, <2>5, <2>6 DEF IInv, TypeOK, RequestInv
  <2>11. ASSUME NEW s \in Requests PROVE InsertInv(s)'
    <3>1. CASE s = r
      BY <1>1, <3>1 DEF IInv, TypeOK, InsertInv
    <3>2. CASE s # r
      <4>1. inserted'[s] = inserted[s] /\ req'[s] = req[s] /\ inserted[s].name # n
        BY <1>1, <2>1, <2>6, <3>2 DEF IInv, TypeOK, NameIsFree
      <4>2. inserted[s] # NoInsert => Named(inserted[s].name)' = {}
        BY <1>1, <2>2, <2>7, <4>1 DEF IInv, InsertInv, Named
      <4> QED
        BY <1>1, <4>1, <4>2 DEF IInv, InsertInv, NameIsFree
    <3> QED
      BY <3>1, <3>2
  <2>12. UniqueNames'
    BY <2>2, <2>3, <2>4, <2>7 DEF IInv, UniqueNames, Existing
  <2>13. (Existing \cup contents \subseteq counters \cup saved)'
    BY <1>1, <2>2, <2>3, <2>7 DEF IInv, Existing
  <2> QED
    BY <2>8, <2>9, <2>10, <2>11, <2>12, <2>13 DEF IInv
<1> QED
  BY <1>2, <1>3

\* content_add.
LEMMA ContentStep ==
    ASSUME IInv, NEW i \in Ids, content_add(i)
    PROVE  IInv'
<1> USE DEF IInv
<1>1. /\ i \in Existing /\ contents' = contents \cup {i}
      /\ UNCHANGED <<clients, counters, inserted, saved, conns, req, boundVars>>
  BY DEF content_add
<1>2. NumbersOK'
  BY <1>1 DEF TypeOK, NumbersOK, boundVars
<1>3. TypeOK'
  BY <1>1, <1>2 DEF TypeOK
<1>4. ConnInv'
  <2>1. Holding' \subseteq Holding
    BY <1>1 DEF Holding
  <2> QED
    BY <1>1, <2>1, HoldingShrinks
<1>5. \A s \in Requests : RequestInv(s)' /\ InsertInv(s)'
  BY <1>1 DEF RequestInv, InsertInv, Named, NameIsFree
<1>6. UniqueNames' /\ (Existing \cup contents \subseteq counters \cup saved)'
  BY <1>1 DEF UniqueNames, Existing
<1> QED
  BY <1>3, <1>4, <1>5, <1>6

-----------------------------------------------------------------------------
(* Theorems *)

LEMMA InitInv == Init => IInv
<1> SUFFICES ASSUME Init PROVE IInv
  OBVIOUS
<1>1. Idle \in RequestRecords /\ Idle.pc = "idle" /\ Idle.handler = ""
  BY DEF Idle, RequestRecords
<1>2. NumbersOK
  BY ClientServiceAssumption DEF Init, NumbersOK
<1>3. TypeOK
  BY <1>1, <1>2 DEF Init, TypeOK, NoInsert
<1>4. ConnInv
  <2>1. Holding = {}
    BY <1>1 DEF Init, Holding, Requests
  <2>2. Cardinality(Holding) = 0
    BY <2>1, FS_EmptySet
  <2> QED
    BY <2>2 DEF Init, ConnInv
<1>5. \A r \in Requests : RequestInv(r) /\ InsertInv(r)
  BY <1>1 DEF Init, RequestInv, InsertInv
<1>6. UniqueNames /\ Existing \cup contents \subseteq counters \cup saved
  BY DEF Init, UniqueNames, Existing
<1> QED
  BY <1>3, <1>4, <1>5, <1>6 DEF IInv

LEMMA NextInv == IInv /\ [Next]_vars => IInv'
<1> SUFFICES ASSUME IInv, [Next]_vars PROVE IInv'
  OBVIOUS
<1>1. CASE UNCHANGED vars
  <2>1. UNCHANGED <<dbVars, conns, boundVars, req>>
    BY <1>1 DEF vars
  <2>2. TypeOK' /\ ConnInv' /\ UniqueNames' /\ (Existing \cup contents \subseteq counters \cup saved)'
    BY <2>1 DEF IInv, TypeOK, NumbersOK, ConnInv, Holding, UniqueNames, Existing,
                dbVars, boundVars
  <2>3. \A r \in Requests : RequestInv(r)' /\ InsertInv(r)'
    BY <2>1 DEF IInv, RequestInv, InsertInv, Named, NameIsFree, dbVars
  <2> QED
    BY <2>2, <2>3 DEF IInv
<1>2. ASSUME NEW r \in GoRequests, Route(r) \/ GoStep(r) \/ LoseConnection(r) PROVE IInv'
  BY <1>2, RouteStep, ConnectStep, QueryStep, LookupStep, InsertStep, CommitStep, LoseStep
     DEF GoStep
<1>3. ASSUME NEW r \in SpringRequests,
             \/ \E i \in Ids \cup {None}, n \in Names \cup {None, Invalid} : addClient(r, i, n)
             \/ \E i \in Ids, n \in Names \cup {None, Invalid} : updateClient(r, i, n)
             \/ saveClient(r)
      PROVE  IInv'
  BY <1>3, AddStep, UpdateStep, SaveStep
<1> QED
  BY <1>1, <1>2, <1>3, NextRequestStep, ContentStep, RestartStep DEF Next

\* The inductive invariant holds of every behaviour of the two services and the
\* database that they share.
THEOREM Invariance == Spec => []IInv
<1> QED
  BY InitInv, NextInv, PTL DEF Spec

\* Every request of either service is somewhere in its handler, and the server never
\* has more connections than it allows, nor fewer than none.
THEOREM TypeCorrect == Spec => []TypeOK
<1>1. IInv => TypeOK
  BY DEF IInv
<1> QED
  BY <1>1, Invariance, PTL

\* No two clients ever have the same name, for any number of requests of the two
\* services that look for names, insert and rename at the same time.
THEOREM NamesAreUnique == Spec => []UniqueNames
<1>1. IInv => UniqueNames
  BY DEF IInv
<1> QED
  BY <1>1, Invariance, PTL

\* A content belongs to a client with a counter table, or to one of the Spring
\* service; no crash or lost connection leaves create_client half done.
THEOREM ViewsAreCountable == Spec => []ContentsCountable
<1>1. IInv => ContentsCountable
  BY DEF IInv, ContentsCountable
<1> QED
  BY <1>1, Invariance, PTL

\* The step of CreateLeavesClient, for one request
Leaves(r) ==
    /\ req[r].handler = "insert"
    /\ req[r].pc \in {"connected", "insert", "commit"}
    /\ req'[r].pc \in {"created", "done"}
    /\ UNCHANGED boundVars

\* Only its own steps move a request, except for a restart.
LEMMA OthersLeaveAlone ==
    ASSUME IInv, NEW r \in GoRequests, Next, Leaves(r)
    PROVE  \/ CreateFound(r) \/ CreateInsert(r) \/ CreateCommit(r)
<1>1. r \in Requests /\ req'[r] # req[r]
  BY DEF Requests, Leaves
<1>2. req \in [Requests -> RequestRecords]
  BY DEF IInv, TypeOK
<1>3. ~Restart /\ ~LoseConnection(r)
  BY DEF Leaves, Restart, LoseConnection, boundVars, IInv, TypeOK, NumbersOK
<1>4. ASSUME NEW s \in GoRequests, Route(s) \/ GoStep(s) \/ LoseConnection(s) PROVE s = r
  BY <1>1, <1>2, <1>4
     DEF Requests, Route, GoStep, LoseConnection, InsertClientHandler, UpdateClientHandler,
         FindOneClientHandler, FindManyClientHandler, InsertContentHandler,
         UpdateContentHandler, FindManyContentHandler, AnswerAtOnce, GoOn, Connect,
         UndefinedFunction, ListClients, ListContents, CreateFound, CreateNotFound,
         CreateInsert, CreateCommit, CreateAnswer, Answer, Done
<1>5. ASSUME NEW s \in SpringRequests,
             \/ \E i \in Ids \cup {None}, n \in Names \cup {None, Invalid} : addClient(s, i, n)
             \/ \E i \in Ids, n \in Names \cup {None, Invalid} : updateClient(s, i, n)
             \/ saveClient(s)
      PROVE  FALSE
  <2>1. s # r
    BY ClientServiceAssumption
  <2> QED
    BY <1>1, <1>2, <1>5, <2>1 DEF Requests, addClient, updateClient, saveClient, Answer, Done
<1>6. ASSUME NEW s \in Requests, NextRequest(s) PROVE FALSE
  BY <1>1, <1>2, <1>6 DEF NextRequest, Leaves
<1>7. ASSUME NEW i \in Ids, content_add(i) PROVE FALSE
  BY <1>1, <1>7 DEF content_add
<1>8. Route(r) \/ GoStep(r)
  BY <1>3, <1>4, <1>5, <1>6, <1>7 DEF Next
<1>9. ~Route(r)
  BY DEF Leaves, Route, InsertClientHandler, UpdateClientHandler, FindOneClientHandler,
         FindManyClientHandler, InsertContentHandler, UpdateContentHandler,
         FindManyContentHandler, AnswerAtOnce, GoOn
<1>10. /\ ~Connect(r) /\ ~UndefinedFunction(r) /\ ~ListClients(r) /\ ~ListContents(r)
       /\ ~CreateAnswer(r)
  BY DEF Leaves, Connect, UndefinedFunction, ListClients, ListContents, CreateAnswer, Connected
<1>11. ~CreateNotFound(r)
  <2>1. ASSUME CreateNotFound(r) PROVE req'[r].pc = "insert"
    BY <1>1, <1>2, <2>1 DEF CreateNotFound, RequestRecords
  <2> QED
    BY <2>1 DEF Leaves
<1> QED
  BY <1>8, <1>9, <1>10, <1>11 DEF GoStep

\* A create request that Postgres serves to the end leaves a client of its name,
\* whoever else creates, renames or is rolled back at the same time.
THEOREM CreateSucceeds == Spec => CreateLeavesClient
<1>1. ASSUME IInv, [Next]_vars, NEW r \in GoRequests, Leaves(r)
      PROVE  \E i \in Ids : clients'[i] = req[r].name
  <2>1. r \in Requests
    BY DEF Requests
  <2>2. Next
    BY <1>1 DEF Leaves, vars
  <2>3. CreateFound(r) \/ CreateInsert(r) \/ CreateCommit(r)
    BY <1>1, <2>2, OthersLeaveAlone
  <2>4. CASE CreateFound(r)
    BY <2>4 DEF CreateFound, Named, dbVars
  <2>5. CASE CreateInsert(r)
    <3>1. CASE Named(req[r].name) # {}
      BY <2>5, <3>1 DEF CreateInsert, Named
    <3>2. CASE Named(req[r].name) = {}
      <4>1. req'[r].pc = "commit"
        BY <1>1, <2>1, <2>5, <3>2 DEF CreateInsert, IInv, TypeOK, RequestRecords
      <4> QED
        BY <1>1, <4>1 DEF Leaves
    <3> QED
      BY <3>1, <3>2
  <2>6. CASE CreateCommit(r)
    BY <1>1, <2>1, <2>6, CommitTables DEF CreateCommit
  <2> QED
    BY <2>3, <2>4, <2>5, <2>6
<1>2. IInv /\ [Next]_vars =>
        [\A r \in GoRequests :
            (/\ req[r].handler = "insert"
             /\ req[r].pc \in {"connected", "insert", "commit"}
             /\ req'[r].pc \in {"created", "done"}
             /\ UNCHANGED boundVars)
            => \E i \in Ids : clients'[i] = req[r].name]_vars
  BY <1>1 DEF Leaves
<1> QED
  BY <1>2, Invariance, PTL DEF Spec, CreateLeavesClient

=============================================================================

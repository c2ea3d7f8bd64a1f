------------------------------ MODULE DataHandler ------------------------------
(***************************************************************************)
(* postgresDataHandler of the Go service's data access layer: the object   *)
(* that a request makes in order to read or write one table.  It collects  *)
(* its settings, builds the text and the arguments of a statement out of   *)
(* them, and copies the rows of the answer into itself one by one.  Other  *)
(* requests write the same table; a connection may be lost at any row.     *)
(*                                                                         *)
(* A table has the columns id and name, of which primaryKey is the key.    *)
(* The text of a statement is abstracted to what Postgres makes of it: is  *)
(* it well formed, has it as many placeholders as arguments, and which     *)
(* rows does it select.                                                    *)
(***************************************************************************)
EXTENDS Integers, Sequences, FiniteSets, Functions

CONSTANTS
    Ids, Names,       \* the values of the two columns; ids are ordered
    primaryKey,       \* the columns of the key, in order
    MaxInt64,         \* the largest number of a batchSize
    DefaultBatchSize, \* getDefaultBatchSize: 10
    BatchSizes,       \* arguments of SetBatchSize, negative ones too
    Fields,           \* arguments of SetProjection
    Criteria,         \* arguments of SetFindCriteria
    Replacements,     \* arguments of UpdateRecord
    ProcArgs,         \* numbers of arguments of ExecuteProc
    Records,          \* arguments of InsertRecord
    Slice,            \* a list as the value of a field, such as [">", 5]
    BadSlice,         \* a list of two or three that starts with no string
    Nil,              \* the nil of Go, the null of JSON and of Postgres
    MaxRows,          \* bound: rows in the table
    MaxCalls,         \* bound: statements per handler
    MaxWrites,        \* bound: writes of other requests
    MaxFaults         \* bound: statements and fetches that fail by themselves

Int64 == -MaxInt64 - 1 .. MaxInt64

\* The empty string of Go: a field of the handler that was not given a value
Unset == ""

Columns == {"id", "name"}

Rows == [id : Ids, name : Names]

PartialOver(cells) ==
    UNION {[d -> cells] : d \in SUBSET Columns}

ASSUME DataHandlerAssumption ==
    /\ Ids \subseteq Nat
    /\ primaryKey \in Seq(Columns) \ {<<>>}
    /\ Len(primaryKey) = 1 => primaryKey = <<"id">>
    /\ MaxInt64 \in Nat
    /\ DefaultBatchSize \in 1 .. MaxInt64
    /\ BatchSizes \subseteq Int64
    /\ ProcArgs \subseteq 0 .. 2
    /\ Fields \subseteq Columns \cup {"*"}
    /\ Criteria \cup Replacements \cup Records \subseteq
           PartialOver(Ids \cup Names \cup {Slice, BadSlice, Nil})
    /\ MaxRows \in Nat
    /\ MaxCalls \in Nat
    /\ MaxWrites \in Nat
    /\ MaxFaults \in Nat

VARIABLES
    table,     \* Postgres: the committed rows
    pDH,       \* the handler
    pc,        \* "none": no handler; "idle"; the operation that fetches rows;
               \* "panicked": its request has ended
    err,       \* what the last operation returned
    rows,      \* rows of the answer that are still to be read
    row,       \* the last one read
    counter,   \* how many have been read
    answer,    \* history: all rows that the FindRecord selects, in order
    first,     \* history: the length of Record before it
    lost,      \* history: the connection broke while it was read
    calls, writes, faults

fetchVars == <<rows, row, counter>>
historyVars == <<answer, first, lost>>
vars == <<table, pDH, pc, err, fetchVars, historyVars, calls, writes, faults>>

-----------------------------------------------------------------------------
(* Statements *)

Key(r) == [f \in Range(primaryKey) |-> r[f]]

KeysUnique(T) == \A r, s \in T : Key(r) = Key(s) => r = s

Tables ==
    {T \in SUBSET Rows :
        IsFiniteSet(T) /\ Cardinality(T) <= MaxRows /\ KeysUnique(T)}

\* The fields that become placeholders: a list is passed over
Bound(m) == {f \in DOMAIN m : m[f] \notin {Slice, BadSlice}}

\* reflect.TypeOf(nil).Kind() panics
HasNil(m) == \E f \in DOMAIN m : m[f] = Nil

\* Mutation: the conditions are joined by or
MatchingAny(T, m) ==
    {r \in T : Bound(m) = {} \/ \E f \in Bound(m) : r[f] = m[f]}

\* The rows of the where clause
Matching(T, m) == {r \in T : \A f \in Bound(m) : r[f] = m[f]}

\* The rows that come before r in the order of the key, which is a single
\* column wherever there is an order
Before(S, r, direction) ==
    LET f == primaryKey[1]
    IN {s \in S : IF direction = "asc" THEN s[f] < r[f] ELSE s[f] > r[f]}

\* order by: the place of a row is the number of those before it
InOrder(S, direction) ==
    [i \in 1 .. Cardinality(S) |->
        CHOOSE r \in S : Cardinality(Before(S, r, direction)) = i - 1]

\* The selected columns of a row; "id,*" selects all
Projected(r, projection) ==
    IF "*" \in projection THEN r ELSE [f \in projection |-> r[f]]

\* lib/pq refuses a statement that has fewer placeholders than arguments, as
\* it has when arguments of an earlier statement are still in dmlArguments
ArgumentsFit(placeholders) == pDH.dmlArguments = placeholders

Opposite(direction) == IF direction = "desc" THEN "asc" ELSE "desc"

\* checkPrimaryKey, and the same test of its argument in SetFindCriteria
checkPrimaryKey(m) == Range(primaryKey) \subseteq DOMAIN m

\* Mutation: a staged operation is forgotten
NeverStaged == FALSE

\* An insert has been staged, and stays so whether it succeeded or not
Staged == pDH.dmlType # Unset

-----------------------------------------------------------------------------
(* The life of a handler *)

NoHandler ==
    [NumAffectedLastOp |-> 0, RecordNextIdx |-> Nil, RecordLastOp |-> Nil,
     Record |-> <<>>, batchSize |-> 0, EnforceBatch |-> FALSE,
     projection |-> {}, searchCriteria |-> <<>>, sortDirection |-> Unset,
     dmlType |-> Unset, dmlArguments |-> 0]

Init ==
    /\ table \in Tables
    /\ pDH = NoHandler
    /\ pc = "none"
    /\ err = FALSE
    /\ rows = <<>>
    /\ row = Nil
    /\ counter = 0
    /\ answer = <<>>
    /\ first = 0
    /\ lost = FALSE
    /\ calls = 0
    /\ writes = 0
    /\ faults = 0

\* With the details of a table, which the configuration has
NewPostgresDataHandler ==
    /\ pc = "none"
    /\ pDH' = [NoHandler EXCEPT
                 !.batchSize = DefaultBatchSize,
                 !.EnforceBatch = TRUE,
                 !.sortDirection = "desc",
                 !.projection = Range(primaryKey)]
    /\ pc' = "idle"
    /\ err' = FALSE
    /\ UNCHANGED <<table, fetchVars, historyVars, calls, writes, faults>>

\* The request ends, or it has panicked, and another one begins
Discard ==
    /\ pc \in {"idle", "panicked"}
    /\ pDH' = NoHandler
    /\ pc' = "none"
    /\ err' = FALSE
    /\ rows' = <<>>
    /\ row' = Nil
    /\ counter' = 0
    /\ answer' = <<>>
    /\ first' = 0
    /\ lost' = FALSE
    /\ calls' = 0
    /\ UNCHANGED <<table, writes, faults>>

\* An operation that only changes settings
Setting(handler, failed) ==
    /\ pc = "idle"
    /\ pDH' = handler
    /\ err' = failed
    /\ UNCHANGED <<table, pc, fetchVars, historyVars, calls, writes, faults>>

\* Mutation: zero is no longer replaced by the default
SetBatchSizeAny(b) == Setting([pDH EXCEPT !.batchSize = b], FALSE)

SetBatchSize(b) ==
    Setting([pDH EXCEPT !.batchSize = IF b = 0 THEN DefaultBatchSize ELSE b],
            FALSE)

SetProjection(fieldList) ==
    Setting([pDH EXCEPT !.projection = @ \cup fieldList], FALSE)

SetFindCriteria(findKeys) ==
    IF checkPrimaryKey(findKeys)
    THEN Setting([pDH EXCEPT !.searchCriteria = findKeys], FALSE)
    ELSE Setting(pDH, TRUE)

\* FindManyContentHandler clears the exported field
ClearEnforceBatch == Setting([pDH EXCEPT !.EnforceBatch = FALSE], FALSE)

-----------------------------------------------------------------------------
(* Operations on the table.  An operation returns at once with an error,   *)
(* panics, has its statement refused, or has it executed.                  *)

Call ==
    /\ pc = "idle"
    /\ calls < MaxCalls
    /\ calls' = calls + 1
    /\ UNCHANGED writes

Refuse(handler) ==
    /\ pDH' = handler
    /\ err' = TRUE
    /\ UNCHANGED <<table, pc, fetchVars, historyVars, faults>>

Panic ==
    /\ pc' = "panicked"
    /\ UNCHANGED <<table, pDH, err, fetchVars, historyVars, faults>>

\* The connection fails, or Postgres refuses a statement for a reason that is
\* not in the model (a foreign key, a missing column)
Fault(handler) ==
    /\ faults < MaxFaults
    /\ faults' = faults + 1
    /\ pDH' = handler
    /\ err' = TRUE
    /\ UNCHANGED <<table, pc, fetchVars, historyVars>>

\* The statement returns the rows s, which the operation reads one by one
Fetch(operation, s) ==
    /\ pc' = operation
    /\ err' = FALSE
    /\ rows' = s
    /\ row' = Nil
    /\ counter' = 0
    /\ UNCHANGED faults

\* The statement returns the number of rows it changed
Execute(handler, T) ==
    /\ table' = T
    /\ pDH' = handler
    /\ err' = FALSE
    /\ UNCHANGED <<pc, fetchVars, historyVars, faults>>

\* batchSize + 1, of which the largest becomes the smallest: a limit of 0 lists
\* nothing, and Postgres refuses one that is negative
Limit == IF pDH.batchSize = MaxInt64 THEN -MaxInt64 - 1 ELSE pDH.batchSize + 1

\* An order by clause of two columns has no comma between them, and a where
\* clause without placeholders is empty
FindIsAccepted ==
    /\ Len(primaryKey) = 1
    /\ DOMAIN pDH.searchCriteria # {} => Bound(pDH.searchCriteria) # {}
    /\ ArgumentsFit(0)
    /\ pDH.EnforceBatch => Limit >= 0

FindRecord(return_many, reverse_sort) ==
    LET criteria == pDH.searchCriteria
        sorted == IF reverse_sort
                  THEN [pDH EXCEPT !.sortDirection = Opposite(@)] ELSE pDH
        bound == [sorted EXCEPT !.dmlArguments = @ + Cardinality(Bound(criteria))]
        selected == InOrder(Matching(table, criteria), sorted.sortDirection)
        listed == [i \in DOMAIN selected |->
                      Projected(selected[i], pDH.projection)]
        limit == IF pDH.EnforceBatch THEN Limit ELSE Len(listed)
    IN
    /\ Call
    /\ \/ /\ Staged
          /\ Refuse(pDH)
       \/ /\ ~Staged
          /\ ~return_many /\ ~checkPrimaryKey(criteria)
          /\ Refuse(sorted)
       \/ /\ ~Staged
          /\ return_many \/ checkPrimaryKey(criteria)
          /\ IF HasNil(criteria) \/ (\E f \in DOMAIN criteria : criteria[f] = BadSlice)
             THEN Panic
             ELSE \/ Fault(bound)
                  \/ /\ ~FindIsAccepted
                     /\ Refuse(bound)
                  \/ /\ FindIsAccepted
                     /\ pDH' = bound
                     /\ answer' = listed
                     /\ first' = Len(pDH.Record)
                     /\ lost' = FALSE
                     /\ Fetch("find", SubSeq(listed, 1,
                                             IF limit < Len(listed) THEN limit
                                                                    ELSE Len(listed)))
                     /\ UNCHANGED table

\* The answers of a procedure: ids of rows of the table T, in a column that has
\* its name
ProcAnswers(T) ==
    UNION {[1 .. n -> [content_add : {r.id : r \in T}]] : n \in 0 .. MaxRows}

\* select content_add(...): the procedure finds rows or inserts one, and returns
\* ids, exactly one if it returns no set
ExecuteProc(procArgs) ==
    LET bound == [pDH EXCEPT !.dmlArguments = @ + procArgs] IN
    /\ Call
    /\ \/ Fault(bound)
       \/ ~ArgumentsFit(0) /\ Refuse(bound)
       \/ /\ ArgumentsFit(0)
          /\ pDH' = bound
          /\ table' \in {table} \cup {table \cup {r} : r \in Rows}
          /\ table' \in Tables
          /\ \E s \in ProcAnswers(table') : Fetch("proc", s)
          /\ UNCHANGED historyVars

UpdateRecord(replacement) ==
    LET criteria == pDH.searchCriteria
        changed == Matching(table, criteria)
        Replaced(r) == [f \in Columns |-> IF f \in Bound(replacement)
                                          THEN replacement[f] ELSE r[f]]
        bound == [pDH EXCEPT !.dmlArguments = @ + Cardinality(Bound(replacement))
                                                + Cardinality(Bound(criteria))]
        result == (table \ changed) \cup {Replaced(r) : r \in changed}
        accepted == /\ Bound(replacement) # {}
                    /\ Bound(criteria) # {}
                    /\ ArgumentsFit(0)
                    /\ result \in Tables
                    /\ Cardinality(result) = Cardinality(table)
    IN
    /\ Call
    /\ IF ~checkPrimaryKey(criteria) \/ replacement = <<>>
       THEN Refuse(pDH)
       ELSE IF HasNil(replacement) \/ HasNil(criteria)
       THEN Panic
       ELSE \/ Fault(bound)
            \/ ~accepted /\ Refuse(bound)
            \/ /\ accepted
               /\ Execute([bound EXCEPT !.NumAffectedLastOp = Cardinality(changed)],
                          result)

DeleteRecord ==
    LET criteria == pDH.searchCriteria
        deleted == Matching(table, criteria)
        bound == [pDH EXCEPT !.dmlArguments = @ + Cardinality(Bound(criteria))]
        accepted == Bound(criteria) # {} /\ ArgumentsFit(0)
    IN
    /\ Call
    /\ IF ~checkPrimaryKey(criteria)
       THEN Refuse(pDH)
       ELSE IF HasNil(criteria)
       THEN Panic
       ELSE \/ Fault(bound)
            \/ ~accepted /\ Refuse(bound)
            \/ /\ accepted
               /\ Execute([bound EXCEPT !.NumAffectedLastOp = Cardinality(deleted)],
                          table \ deleted)

\* The statement has exactly the fields of the record as its arguments,
\* whatever was in dmlArguments; Postgres supplies an id that is missing
InsertRecord(record, return_modified) ==
    LET staged == [pDH EXCEPT !.dmlType = "insert",
                              !.dmlArguments = Cardinality(DOMAIN record)]
        inserted == {r \in Rows \ table :
                        /\ \A f \in DOMAIN record : r[f] = record[f]
                        /\ "name" \in DOMAIN record
                        /\ table \cup {r} \in Tables}
    IN
    /\ Call
    /\ IF Staged \/ record = <<>>
       THEN Refuse(pDH)
       ELSE \/ Fault(staged)
            \/ inserted = {} /\ Refuse(staged)
            \/ \E r \in inserted :
                  IF return_modified
                  THEN /\ table' = table \cup {r}
                       /\ pDH' = staged
                       /\ Fetch("insert", <<r>>)
                       /\ UNCHANGED historyVars
                  ELSE Execute(staged, table \cup {r})

-----------------------------------------------------------------------------
(* for rows.Next(), which the four operations that fetch have in common    *)

\* Mutation: the page is one row short
KeptBelow(n) == pc # "find" \/ n < pDH.batchSize \/ ~pDH.EnforceBatch

\* Only FindRecord passes over rows: the one after the page
Kept(n) == pc # "find" \/ n <= pDH.batchSize \/ ~pDH.EnforceBatch

FetchRow ==
    /\ pc \in {"find", "proc", "insert"}
    /\ rows # <<>>
    /\ counter' = counter + 1
    /\ row' = Head(rows)
    /\ rows' = Tail(rows)
    /\ pDH' = IF Kept(counter')
              THEN [pDH EXCEPT !.Record = Append(@, row')] ELSE pDH
    /\ UNCHANGED <<table, pc, err, historyVars, calls, writes, faults>>

\* rows.Next() returns false, and rows.Err(), which would tell why, is not read
LoseConnection ==
    /\ pc \in {"find", "proc", "insert"}
    /\ rows # <<>>
    /\ faults < MaxFaults
    /\ faults' = faults + 1
    /\ rows' = <<>>
    /\ lost' = TRUE
    /\ UNCHANGED <<table, pDH, pc, err, row, counter, answer, first, calls, writes>>

\* A key that the row does not have is nil
NextIdx(r) ==
    [f \in Range(primaryKey) |-> IF f \in DOMAIN r THEN r[f] ELSE Nil]

\* Mutation: a page that is just full has a next one
HasMoreOrFull == counter > 0 /\ counter >= pDH.batchSize

HasMore == counter > 0 /\ counter > pDH.batchSize

FetchDone ==
    /\ pc \in {"find", "proc", "insert"}
    /\ rows = <<>>
    /\ pc' = "idle"
    /\ pDH' = [pDH EXCEPT
                 !.NumAffectedLastOp = counter,
                 !.RecordNextIdx = IF HasMore
                                   THEN NextIdx(row) ELSE @,
                 !.RecordLastOp = IF counter > 0 THEN row ELSE @]
    /\ row' = Nil
    /\ counter' = 0
    /\ answer' = <<>>
    /\ first' = 0
    /\ lost' = FALSE
    /\ UNCHANGED <<table, err, rows, calls, writes, faults>>

\* Other requests, and the other programs that use the table
OtherWrite ==
    /\ writes < MaxWrites
    /\ writes' = writes + 1
    /\ table' \in Tables \ {table}
    /\ \E r \in Rows : table' = table \ {r} \/ table' = table \cup {r}
    /\ UNCHANGED <<pDH, pc, err, fetchVars, historyVars, calls, faults>>

Next ==
    \/ NewPostgresDataHandler
    \/ Discard
    \/ \E b \in BatchSizes : SetBatchSize(b)
    \/ \E f \in Fields : SetProjection({f})
    \/ \E m \in Criteria : SetFindCriteria(m)
    \/ ClearEnforceBatch
    \/ \E many, reverse \in BOOLEAN : FindRecord(many, reverse)
    \/ \E n \in ProcArgs : ExecuteProc(n)
    \/ \E m \in Replacements : UpdateRecord(m)
    \/ DeleteRecord
    \/ \E m \in Records, modified \in BOOLEAN : InsertRecord(m, modified)
    \/ FetchRow
    \/ LoseConnection
    \/ FetchDone
    \/ OtherWrite

Spec == Init /\ [][Next]_vars

-----------------------------------------------------------------------------
(* Properties *)

\* A row of an answer: selected columns, or the result of a procedure
Fetched == PartialOver(Ids \cup Names) \cup [content_add : Ids]

Handlers ==
    [NumAffectedLastOp : 0 .. MaxRows,
     RecordNextIdx : [Range(primaryKey) -> Ids \cup Names \cup {Nil}] \cup {Nil},
     RecordLastOp : Fetched \cup {Nil},
     Record : Seq(Fetched),
     batchSize : Int64,
     EnforceBatch : BOOLEAN,
     projection : SUBSET (Columns \cup {"*"}),
     searchCriteria : Criteria \cup {<<>>},
     sortDirection : {Unset, "asc", "desc"},
     dmlType : {Unset, "insert"},
     dmlArguments : 0 .. 4 * MaxCalls]

\* The handler and the statement that it reads are what their fields say;
\* above all a size of 0 has become the default, and the key is always selected.
TypeOK ==
    /\ table \in Tables
    /\ pDH \in Handlers
    /\ pc \in {"none", "idle", "find", "proc", "insert", "panicked"}
    /\ pc # "none" => /\ pDH.batchSize # 0
                      /\ pDH.sortDirection # Unset
                      /\ Range(primaryKey) \subseteq pDH.projection
    /\ rows \in Seq(Fetched)
    /\ row \in Fetched \cup {Nil}
    /\ counter \in Nat
    /\ Len(rows) + counter <= MaxRows
    /\ answer \in Seq(Fetched)
    /\ err \in BOOLEAN
    /\ lost \in BOOLEAN
    /\ first \in 0 .. Len(pDH.Record)
    /\ calls \in 0 .. MaxCalls
    /\ writes \in 0 .. MaxWrites
    /\ faults \in 0 .. MaxFaults

\* FindRecord has read the whole answer
FindReturns == pc = "find" /\ pc' = "idle"

\* What FindRecord adds to Record is the beginning of what the table held, in
\* order, when its one statement ran: as much as a page holds, nothing where the
\* size is negative, and everything without EnforceBatch.  It is shorter only if
\* the connection was lost, which FindRecord does not report.
PageIsPrefix ==
    [][FindReturns =>
          LET page == SubSeq(pDH'.Record, first + 1, Len(pDH'.Record))
              size == IF pDH.batchSize > 0 THEN pDH.batchSize ELSE 0
              full == IF pDH.EnforceBatch /\ size < Len(answer)
                      THEN size ELSE Len(answer)
          IN /\ Len(page) <= full
             /\ page = SubSeq(answer, 1, Len(page))
             /\ ~lost => Len(page) = full]_vars

\* The first page that a handler lists says truly whether there is more: the
\* RecordNextIdx is the key of the first row that is not on the page, and nil
\* if there is none.  After a lost connection, or with a size of -1, it is nil as
\* well, so that a listing cut short or left out looks like a complete one.
NextFollowsPage ==
    [][FindReturns /\ pDH.EnforceBatch /\ first = 0 =>
          LET n == Len(pDH'.Record)
          IN pDH'.RecordNextIdx =
                IF lost \/ pDH.batchSize < 0 \/ n = Len(answer)
                THEN Nil ELSE NextIdx(answer[n + 1])]_vars

\* With a value for every part of the key, no operation changes or deletes
\* another row than the one of that key, whatever else is in the criteria and
\* whatever the handler was used for before.
KeyedWrite ==
    [][/\ calls' # calls
       /\ Range(primaryKey) \subseteq Bound(pDH.searchCriteria)
       => \A r \in table \ table' :
             \A f \in Range(primaryKey) : r[f] = pDH.searchCriteria[f]]_vars

\* A statement of the handler has been executed
Succeeds == calls' > calls /\ (table' # table \/ pc' \in {"find", "proc", "insert"})

\* dmlArguments are never cleared and dmlType neither.  So a handler executes
\* one statement that has arguments: after it only an insert is accepted, which
\* brings its own arguments, and after an insert nothing.  A record that was found
\* by its key cannot be updated or deleted with the same handler.
SpentHandler ==
    [][Succeeds => /\ pDH.dmlType = Unset
                   /\ pDH.dmlArguments = 0 \/ pDH'.dmlType = "insert"]_vars

=============================================================================

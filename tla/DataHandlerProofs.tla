--------------------------- MODULE DataHandlerProofs ---------------------------
(***************************************************************************)
(* Proofs about the handler of the Go data access layer, for tables of any *)
(* size, batch sizes of the whole range of int64, any criteria, records    *)
(* and replacements, and any number of operations, writes of others and    *)
(* faults.                                                                 *)
(***************************************************************************)
EXTENDS DataHandler, FiniteSetTheorems, TLAPS

-----------------------------------------------------------------------------
(* The inductive invariant *)

\* What the operations leave in the handler: arguments for every statement,
\* and a next index only after something was recorded.
HandlerInv ==
    /\ pc = "none" => pDH = NoHandler /\ counter = 0
    /\ pDH.dmlArguments <= 4 * calls
    /\ pDH.dmlType = "insert" => pDH.dmlArguments > 0
    /\ pDH.RecordNextIdx # Nil => pDH.Record # <<>>
    /\ counter > 0 => row \in Fetched /\ pDH.Record # <<>>

\* How many rows a page has room for
Room == IF pDH.batchSize > 0 THEN pDH.batchSize ELSE 0

\* How many of the n rows read are on the page
OnPage(n) == IF pDH.EnforceBatch /\ Room < n THEN Room ELSE n

\* How many rows FindRecord asks for: one more than the page holds
Asked == IF pDH.EnforceBatch /\ pDH.batchSize + 1 < Len(answer)
         THEN pDH.batchSize + 1 ELSE Len(answer)

\* While FindRecord reads, the page, the row in hand and the rows to come are
\* the answer, one after the other.  Postgres has not refused its limit.
PageInv ==
    /\ pDH.EnforceBatch => pDH.batchSize >= -1
    /\ Len(pDH.Record) = first + OnPage(counter)
    /\ \A i \in 1 .. OnPage(counter) : pDH.Record[first + i] = answer[i]
    /\ \A i \in 1 .. Len(rows) : rows[i] = answer[counter + i]
    /\ counter > 0 => row = answer[counter]
    /\ counter + Len(rows) <= Asked
    /\ ~lost => counter + Len(rows) = Asked
    /\ lost => rows = <<>> /\ (pDH.EnforceBatch => counter <= pDH.batchSize)
    /\ first = 0 => pDH.RecordNextIdx = Nil

IInv == TypeOK /\ HandlerInv /\ (pc = "find" => PageInv)

-----------------------------------------------------------------------------
(* The order of a listing *)

\* Where the key is the id, no two rows of a table have the same id.
LEMMA IdsDiffer ==
    ASSUME NEW S, KeysUnique(S), primaryKey = <<"id">>,
           NEW r \in S, NEW s \in S, r.id = s.id
    PROVE  r = s
<1>1. Range(primaryKey) = {"id"}
  BY DEF Range
<1>2. Key(r) = Key(s)
  BY <1>1 DEF Key
<1> QED
  BY <1>2 DEF KeysUnique

\* The rows before a row, where the key is the id.
LEMMA BeforeById ==
    ASSUME NEW S, NEW r, NEW direction, primaryKey = <<"id">>
    PROVE  Before(S, r, direction) =
              {s \in S : IF direction = "asc" THEN s.id < r.id ELSE s.id > r.id}
  BY DEF Before

\* A row that comes before another has fewer rows before it.
LEMMA FewerBefore ==
    ASSUME NEW S \in SUBSET Rows, IsFiniteSet(S), NEW direction,
           primaryKey = <<"id">>,
           NEW s \in S, NEW r \in Before(S, s, direction)
    PROVE  /\ Cardinality(Before(S, r, direction)) \in Nat
           /\ Cardinality(Before(S, s, direction)) \in Nat
           /\ Cardinality(Before(S, r, direction)) < Cardinality(Before(S, s, direction))
<1> DEFINE R == Before(S, r, direction)
           T == Before(S, s, direction)
<1>1. r \in S /\ (IF direction = "asc" THEN r.id < s.id ELSE r.id > s.id)
  BY BeforeById
<1>2. \A x \in S : x.id \in Nat
  BY DataHandlerAssumption DEF Rows
<1>3. R = {x \in S : IF direction = "asc" THEN x.id < r.id ELSE x.id > r.id}
  BY BeforeById
<1>4. T = {x \in S : IF direction = "asc" THEN x.id < s.id ELSE x.id > s.id}
  BY BeforeById
<1>5. R \subseteq T /\ r \in T /\ r \notin R
  BY <1>1, <1>2, <1>3, <1>4
<1>6. T \subseteq S
  BY <1>4
<1>7. IsFiniteSet(T) /\ Cardinality(T) \in Nat
  BY <1>6, FS_Subset, FS_CardinalityType
<1>8. IsFiniteSet(R) /\ Cardinality(R) \in Nat /\ Cardinality(R) <= Cardinality(T)
  BY <1>5, <1>7, FS_Subset, FS_CardinalityType
<1>9. Cardinality(R) # Cardinality(T)
  BY <1>5, <1>7, FS_Subset
<1> QED
  BY <1>7, <1>8, <1>9

\* order by enumerates: at every place of the listing is the row that has as many
\* rows before it.
LEMMA Ranked ==
    ASSUME NEW S \in SUBSET Rows, IsFiniteSet(S), KeysUnique(S), NEW direction,
           primaryKey = <<"id">>
    PROVE  /\ Cardinality(S) \in Nat
           /\ \A i \in 1 .. Cardinality(S) :
                 \E r \in S : Cardinality(Before(S, r, direction)) = i - 1
<1> DEFINE n == Cardinality(S)
           rank == [r \in S |-> Cardinality(Before(S, r, direction))]
<1>1. n \in Nat
  BY FS_CardinalityType
<1>2. ASSUME NEW r \in S
      PROVE  rank[r] \in 0 .. n - 1
  <2>1. r.id \in Nat
    BY DataHandlerAssumption DEF Rows
  <2>2. Before(S, r, direction) \subseteq S \ {r}
    BY <2>1, BeforeById
  <2>3. IsFiniteSet(S \ {r}) /\ Cardinality(S \ {r}) = n - 1
    BY FS_RemoveElement
  <2>4. /\ Cardinality(Before(S, r, direction)) \in Nat
        /\ Cardinality(Before(S, r, direction)) <= n - 1
    BY <2>2, <2>3, FS_Subset, FS_CardinalityType
  <2> QED
    BY <1>1, <2>4
<1>3. ASSUME NEW r \in S, NEW s \in S, r # s
      PROVE  rank[r] # rank[s]
  <2>1. r.id \in Nat /\ s.id \in Nat
    BY DataHandlerAssumption DEF Rows
  <2>2. r.id # s.id
    BY <1>3, IdsDiffer
  <2>3. r \in Before(S, s, direction) \/ s \in Before(S, r, direction)
    BY <2>1, <2>2, BeforeById
  <2>4. CASE r \in Before(S, s, direction)
    BY <2>4, FewerBefore
  <2>5. CASE s \in Before(S, r, direction)
    BY <2>5, FewerBefore
  <2> QED
    BY <2>3, <2>4, <2>5
<1>4. rank \in Injection(S, 0 .. n - 1)
  BY <1>2, <1>3 DEF Injection, IsInjective
<1>5. IsFiniteSet(0 .. n - 1) /\ Cardinality(0 .. n - 1) = n
  BY <1>1, FS_Interval
<1>6. rank \in Surjection(S, 0 .. n - 1)
  BY <1>4, <1>5, FS_Injection
<1>7. ASSUME NEW i \in 1 .. n
      PROVE  \E r \in S : Cardinality(Before(S, r, direction)) = i - 1
  <2>1. i - 1 \in 0 .. n - 1
    BY <1>1
  <2>2. \E r \in S : rank[r] = i - 1
    BY <1>6, <2>1 DEF Surjection
  <2> QED
    BY <2>2
<1> QED
  BY <1>1, <1>7

\* A listing is a sequence of rows of the table, as long as their number.
LEMMA InOrderType ==
    ASSUME NEW S \in SUBSET Rows, IsFiniteSet(S), KeysUnique(S), NEW direction,
           primaryKey = <<"id">>
    PROVE  /\ InOrder(S, direction) \in Seq(S)
           /\ Len(InOrder(S, direction)) = Cardinality(S)
<1>1. Cardinality(S) \in Nat
  BY Ranked
<1>2. ASSUME NEW i \in 1 .. Cardinality(S)
      PROVE  (CHOOSE r \in S : Cardinality(Before(S, r, direction)) = i - 1) \in S
  BY Ranked
<1>3. InOrder(S, direction) \in [1 .. Cardinality(S) -> S]
  BY <1>2 DEF InOrder
<1> QED
  BY <1>1, <1>3

\* The listing that FindRecord asks for has every selected row exactly once, each
\* one after those that the order by clause puts before it.
THEOREM ListingOrdered ==
    ASSUME NEW S \in SUBSET Rows, IsFiniteSet(S), KeysUnique(S), NEW direction,
           primaryKey = <<"id">>
    PROVE  LET listing == InOrder(S, direction)
           IN /\ \A r \in S : \E i \in 1 .. Len(listing) : listing[i] = r
              /\ \A i, j \in 1 .. Len(listing) :
                    i < j => listing[i] \in Before(S, listing[j], direction)
<1> DEFINE listing == InOrder(S, direction)
           n == Cardinality(S)
<1>1. n \in Nat /\ listing \in Seq(S) /\ Len(listing) = n
  BY InOrderType, Ranked
<1>2. ASSUME NEW i \in 1 .. n
      PROVE  listing[i] \in S /\ Cardinality(Before(S, listing[i], direction)) = i - 1
  <2>1. \E r \in S : Cardinality(Before(S, r, direction)) = i - 1
    BY Ranked
  <2>2. listing[i] = CHOOSE r \in S : Cardinality(Before(S, r, direction)) = i - 1
    BY DEF InOrder
  <2> QED
    BY <2>1, <2>2
<1>3. ASSUME NEW r \in S, NEW s \in S, r # s
      PROVE  r \in Before(S, s, direction) \/ s \in Before(S, r, direction)
  <2>1. r.id \in Nat /\ s.id \in Nat
    BY DataHandlerAssumption DEF Rows
  <2>2. r.id # s.id
    BY <1>3, IdsDiffer
  <2> QED
    BY <2>1, <2>2, BeforeById
<1>4. ASSUME NEW i \in 1 .. n, NEW j \in 1 .. n, i < j
      PROVE  listing[i] \in Before(S, listing[j], direction)
  <2>1. i - 1 < j - 1 /\ i - 1 # j - 1
    BY <1>1, <1>4
  <2>2. listing[i] # listing[j]
    BY <1>2, <2>1
  <2>3. listing[j] \notin Before(S, listing[i], direction)
    BY <1>1, <1>2, <2>1, FewerBefore
  <2> QED
    BY <1>2, <1>3, <2>2, <2>3
<1>5. listing \in Injection(1 .. n, S)
  <2>1. listing \in [1 .. n -> S]
    BY <1>1
  <2>2. ASSUME NEW i \in 1 .. n, NEW j \in 1 .. n, listing[i] = listing[j]
        PROVE  i = j
    BY <1>1, <1>2, <2>2
  <2> QED
    BY <2>1, <2>2 DEF Injection, IsInjective
<1>6. Cardinality(1 .. n) = n
  BY <1>1, FS_Interval
<1>7. listing \in Surjection(1 .. n, S)
  BY <1>5, <1>6, FS_Injection
<1>8. \A r \in S : \E i \in 1 .. n : listing[i] = r
  BY <1>7 DEF Surjection
<1> QED
  BY <1>1, <1>4, <1>8

-----------------------------------------------------------------------------
(* Statements *)

\* A document over the two columns has at most two placeholders.
LEMMA BoundSize ==
    ASSUME NEW m, DOMAIN m \subseteq Columns
    PROVE  /\ Cardinality(Bound(m)) \in 0 .. 2
           /\ Cardinality(DOMAIN m) \in 0 .. 2
           /\ DOMAIN m # {} => Cardinality(DOMAIN m) > 0
<1>1. IsFiniteSet(Columns) /\ Cardinality(Columns) = 2
  <2>1. Columns = {"id"} \cup {"name"}
    BY DEF Columns
  <2>2. IsFiniteSet({"id"}) /\ Cardinality({"id"}) = 1
    BY FS_Singleton
  <2>3. "name" \notin {"id"}
    OBVIOUS
  <2> QED
    BY <2>1, <2>2, <2>3, FS_AddElement
<1>2. IsFiniteSet(DOMAIN m) /\ Cardinality(DOMAIN m) \in Nat /\ Cardinality(DOMAIN m) <= 2
  BY <1>1, FS_Subset, FS_CardinalityType
<1>3. Bound(m) \subseteq DOMAIN m
  BY DEF Bound
<1>4. Cardinality(Bound(m)) \in Nat /\ Cardinality(Bound(m)) <= Cardinality(DOMAIN m)
  BY <1>2, <1>3, FS_Subset, FS_CardinalityType
<1>5. DOMAIN m # {} => Cardinality(DOMAIN m) # 0
  BY <1>2, FS_EmptySet
<1> QED
  BY <1>2, <1>4, <1>5

\* Documents are over the two columns.
LEMMA DocumentDomain ==
    ASSUME NEW m \in Criteria \cup Replacements \cup Records \cup {<<>>}
    PROVE  DOMAIN m \subseteq Columns
<1>1. CASE m = <<>>
  BY <1>1
<1>2. CASE m # <<>>
  <2>1. m \in PartialOver(Ids \cup Names \cup {Slice, BadSlice, Nil})
    BY <1>2, DataHandlerAssumption
  <2> QED
    BY <2>1 DEF PartialOver
<1> QED
  BY <1>1, <1>2

\* A document without fields is the empty one.
LEMMA EmptyDocument ==
    ASSUME NEW m \in Records, DOMAIN m = {}
    PROVE  m = <<>>
<1>1. m \in PartialOver(Ids \cup Names \cup {Slice, BadSlice, Nil})
  BY DataHandlerAssumption
<1>2. m \in [{} -> Ids \cup Names \cup {Slice, BadSlice, Nil}]
  BY <1>1 DEF PartialOver
<1> QED
  BY <1>2

\* The rows that a statement selects are part of the table.
LEMMA MatchingPart ==
    ASSUME NEW T \in Tables, NEW m
    PROVE  /\ Matching(T, m) \in SUBSET Rows
           /\ IsFiniteSet(Matching(T, m))
           /\ KeysUnique(Matching(T, m))
           /\ Cardinality(Matching(T, m)) \in 0 .. MaxRows
           /\ T \ Matching(T, m) \in Tables
<1>1. T \in SUBSET Rows /\ IsFiniteSet(T) /\ Cardinality(T) <= MaxRows /\ KeysUnique(T)
  BY DEF Tables
<1>2. Matching(T, m) \subseteq T
  BY DEF Matching
<1>3. ASSUME NEW S \in SUBSET T
      PROVE  /\ S \in SUBSET Rows
             /\ IsFiniteSet(S)
             /\ Cardinality(S) \in 0 .. MaxRows
             /\ KeysUnique(S)
  <2>1. IsFiniteSet(S) /\ Cardinality(S) \in Nat /\ Cardinality(S) <= Cardinality(T)
    BY <1>1, FS_Subset, FS_CardinalityType
  <2>2. Cardinality(T) \in Nat
    BY <1>1, FS_CardinalityType
  <2>3. Cardinality(S) \in 0 .. MaxRows
    BY <1>1, <2>1, <2>2, DataHandlerAssumption
  <2>4. KeysUnique(S)
    BY <1>1 DEF KeysUnique
  <2> QED
    BY <1>1, <2>1, <2>3, <2>4
<1>4. T \ Matching(T, m) \in Tables
  <2>1. T \ Matching(T, m) \in SUBSET T
    OBVIOUS
  <2> QED
    BY <1>3, <2>1 DEF Tables
<1> QED
  BY <1>2, <1>3, <1>4

\* The selected columns of a row are a row of an answer.
LEMMA ProjectedType ==
    ASSUME NEW r \in Rows, NEW p \in SUBSET (Columns \cup {"*"})
    PROVE  Projected(r, p) \in Fetched
<1>1. r \in [Columns -> Ids \cup Names]
  BY DEF Rows, Columns
<1>2. CASE "*" \in p
  <2>1. Projected(r, p) = r
    BY <1>2 DEF Projected
  <2>2. r \in PartialOver(Ids \cup Names)
    BY <1>1 DEF PartialOver
  <2> QED
    BY <2>1, <2>2 DEF Fetched
<1>3. CASE "*" \notin p
  <2>1. p \in SUBSET Columns
    BY <1>3
  <2>2. Projected(r, p) = [f \in p |-> r[f]]
    BY <1>3 DEF Projected
  <2>3. Projected(r, p) \in [p -> Ids \cup Names]
    BY <1>1, <2>1, <2>2
  <2>4. Projected(r, p) \in PartialOver(Ids \cup Names)
    BY <2>1, <2>3 DEF PartialOver
  <2> QED
    BY <2>4 DEF Fetched
<1> QED
  BY <1>2, <1>3

\* A row of the table is a row of an answer.
LEMMA FetchedTypes ==
    ASSUME NEW r \in Rows
    PROVE  r \in Fetched
<1>1. r \in [Columns -> Ids \cup Names]
  BY DEF Rows, Columns
<1>2. r \in PartialOver(Ids \cup Names)
  BY <1>1 DEF PartialOver
<1> QED
  BY <1>2 DEF Fetched

-----------------------------------------------------------------------------
(* What an operation may leave in the handler *)

\* A batch size is a number.
LEMMA SizeType ==
    ASSUME NEW h \in Handlers
    PROVE  h.batchSize \in Int
  BY DataHandlerAssumption DEF Handlers, Int64

\* The empty string is neither of the directions.
LEMMA UnsetDiffers ==
    Unset # "asc" /\ Unset # "desc" /\ Unset # "insert"
  BY Zenon DEF Unset

\* A handler h that may follow pDH after n statements: what was recorded is
\* still there.
Admissible(h, n) ==
    /\ h \in Handlers
    /\ h.batchSize # 0
    /\ h.sortDirection # Unset
    /\ Range(primaryKey) \subseteq h.projection
    /\ h.Record = pDH.Record
    /\ h.RecordNextIdx = pDH.RecordNextIdx
    /\ h.dmlArguments <= 4 * n
    /\ h.dmlType = "insert" => h.dmlArguments > 0

\* The handler as it is, after one more statement that added no arguments.
LEMMA SameAdmissible ==
    ASSUME IInv, pc = "idle", NEW n \in {calls, calls + 1}
    PROVE  Admissible(pDH, n)
<1>1. pDH.dmlArguments \in Nat /\ calls \in Nat /\ pDH.dmlArguments <= 4 * calls
  BY DataHandlerAssumption DEF IInv, TypeOK, HandlerInv, Handlers
<1>2. pDH.dmlArguments <= 4 * n
  BY <1>1
<1> QED
  BY <1>2 DEF Admissible, IInv, TypeOK, HandlerInv

\* A statement adds up to four arguments.
LEMMA ArgumentsAdmissible ==
    ASSUME IInv, calls < MaxCalls, NEW h, Admissible(h, calls), NEW k \in 0 .. 4
    PROVE  Admissible([h EXCEPT !.dmlArguments = @ + k], calls + 1)
<1> DEFINE g == [h EXCEPT !.dmlArguments = @ + k]
<1>1. /\ h \in Handlers /\ h.dmlArguments \in Nat /\ h.dmlArguments <= 4 * calls
      /\ calls \in Nat /\ MaxCalls \in Nat
  BY DataHandlerAssumption DEF IInv, TypeOK, Admissible, Handlers
<1>2. h.dmlArguments + k \in 0 .. 4 * MaxCalls /\ h.dmlArguments + k <= 4 * (calls + 1)
  BY <1>1
<1>3. g \in Handlers
  BY <1>1, <1>2 DEF Handlers
<1>4. g.dmlArguments = h.dmlArguments + k
  BY <1>1 DEF Handlers
<1>5. /\ g.batchSize = h.batchSize /\ g.sortDirection = h.sortDirection
      /\ g.projection = h.projection /\ g.Record = h.Record
      /\ g.RecordNextIdx = h.RecordNextIdx /\ g.dmlType = h.dmlType
  BY <1>1 DEF Handlers
<1>6. h.dmlType = "insert" => h.dmlArguments + k > 0
  BY <1>1 DEF Admissible
<1> HIDE DEF g
<1>7. Admissible(g, calls + 1)
  BY <1>2, <1>3, <1>4, <1>5, <1>6 DEF Admissible
<1> QED
  BY <1>7 DEF g

\* reverse_sort turns the order around.
LEMMA SortedAdmissible ==
    ASSUME IInv, NEW n, Admissible(pDH, n)
    PROVE  Admissible([pDH EXCEPT !.sortDirection = Opposite(@)], n)
<1> DEFINE g == [pDH EXCEPT !.sortDirection = Opposite(@)]
<1>1. pDH \in Handlers
  BY DEF Admissible
<1>2. Opposite(pDH.sortDirection) \in {"asc", "desc"}
  BY DEF Opposite
<1>3. g \in Handlers
  BY <1>1, <1>2 DEF Handlers
<1>4. /\ g.sortDirection = Opposite(pDH.sortDirection)
      /\ g.batchSize = pDH.batchSize /\ g.dmlArguments = pDH.dmlArguments
      /\ g.projection = pDH.projection /\ g.Record = pDH.Record
      /\ g.RecordNextIdx = pDH.RecordNextIdx /\ g.dmlType = pDH.dmlType
  BY <1>1 DEF Handlers
<1>5. g.sortDirection # Unset
  BY <1>2, <1>4, UnsetDiffers
<1> HIDE DEF g
<1>6. Admissible(g, n)
  BY <1>3, <1>4, <1>5 DEF Admissible
<1> QED
  BY <1>6 DEF g

\* An update or a delete notes how many rows it has affected.
LEMMA AffectedAdmissible ==
    ASSUME NEW n, NEW h, Admissible(h, n), NEW k \in 0 .. MaxRows
    PROVE  Admissible([h EXCEPT !.NumAffectedLastOp = k], n)
  BY DEF Admissible, Handlers

\* A staged insert has its own arguments, one at least.
LEMMA StagedAdmissible ==
    ASSUME IInv, pc = "idle", calls < MaxCalls, NEW record \in Records, record # <<>>
    PROVE  Admissible([pDH EXCEPT !.dmlType = "insert",
                                  !.dmlArguments = Cardinality(DOMAIN record)],
                      calls + 1)
<1> DEFINE k == Cardinality(DOMAIN record)
<1>1. k \in 0 .. 2 /\ k > 0
  BY BoundSize, DocumentDomain, EmptyDocument
<1>2. calls \in Nat /\ MaxCalls \in Nat
  BY DataHandlerAssumption DEF IInv, TypeOK
<1> HIDE DEF k
<1>3. k \in 0 .. 4 * MaxCalls /\ k <= 4 * (calls + 1)
  BY <1>1, <1>2
<1>4. Admissible(pDH, calls + 1)
  BY SameAdmissible
<1> DEFINE g == [pDH EXCEPT !.dmlType = "insert", !.dmlArguments = k]
<1>5. pDH \in Handlers
  BY <1>4 DEF Admissible
<1>6. g \in Handlers
  BY <1>3, <1>5 DEF Handlers
<1>7. /\ g.sortDirection = pDH.sortDirection /\ g.dmlArguments = k
      /\ g.batchSize = pDH.batchSize /\ g.projection = pDH.projection
      /\ g.Record = pDH.Record /\ g.RecordNextIdx = pDH.RecordNextIdx
  BY <1>5 DEF Handlers
<1> HIDE DEF g
<1>8. Admissible(g, calls + 1)
  BY <1>1, <1>3, <1>4, <1>6, <1>7 DEF Admissible
<1> QED
  BY <1>8 DEF g, k

-----------------------------------------------------------------------------
(* Steps of the table and of the handler's settings *)

\* An operation that reads no rows, finished or refused, keeps the invariant.
LEMMA IdleStep ==
    ASSUME IInv, pc = "idle", NEW h, pDH' = h, Admissible(h, calls'),
           table' \in Tables, pc' \in {"idle", "panicked"}, err' \in BOOLEAN,
           calls' \in 0 .. MaxCalls, writes' \in 0 .. MaxWrites,
           faults' \in 0 .. MaxFaults, UNCHANGED <<fetchVars, historyVars>>
    PROVE  IInv'
<1>1. UNCHANGED <<rows, row, counter, answer, first, lost>>
  BY DEF fetchVars, historyVars
<1>2. TypeOK'
  BY <1>1 DEF IInv, TypeOK, Admissible
<1>3. HandlerInv'
  BY <1>1 DEF IInv, HandlerInv, Admissible
<1>4. (pc = "find" => PageInv)'
  OBVIOUS
<1> QED
  BY <1>2, <1>3, <1>4 DEF IInv

\* A statement that returns a row or more, other than that of FindRecord, keeps
\* the invariant.
LEMMA FetchStep ==
    ASSUME IInv, pc = "idle", NEW h, pDH' = h, Admissible(h, calls'),
           table' \in Tables, NEW operation \in {"proc", "insert"},
           NEW s \in Seq(Fetched), Len(s) <= MaxRows, Fetch(operation, s),
           calls' \in 0 .. MaxCalls, UNCHANGED <<historyVars, writes>>
    PROVE  IInv'
<1>1. UNCHANGED <<answer, first, lost, writes, faults>>
  BY DEF historyVars, Fetch
<1>2. /\ pc' = operation /\ err' = FALSE /\ rows' = s /\ row' = Nil /\ counter' = 0
  BY DEF Fetch
<1>3. Len(s) + 0 <= MaxRows
  BY DataHandlerAssumption
<1>4. pc' # "none" /\ pc' \in {"none", "idle", "find", "proc", "insert", "panicked"}
  BY <1>2
<1>5. TypeOK'
  BY <1>1, <1>2, <1>3, <1>4 DEF IInv, TypeOK, Admissible
<1>6. HandlerInv'
  BY <1>1, <1>2 DEF IInv, HandlerInv, Admissible
<1>7. (pc = "find" => PageInv)'
  BY <1>2
<1> QED
  BY <1>5, <1>6, <1>7 DEF IInv

\* No handler, and no handler yet after an operation.
LEMMA NoHandlerType ==
    NoHandler \in Handlers
<1>1. <<>> \in Seq(Fetched)
  OBVIOUS
<1> QED
  BY <1>1, DataHandlerAssumption DEF NoHandler, Handlers, Int64

\* The invariant holds of the first state.
LEMMA InitInv ==
    ASSUME Init
    PROVE  IInv
<1>1. TypeOK
  <2>1. pDH \in Handlers /\ pDH.Record = <<>>
    BY NoHandlerType DEF Init, NoHandler
  <2>2. rows \in Seq(Fetched) /\ Len(rows) = 0 /\ answer \in Seq(Fetched)
    BY DEF Init
  <2>3. Len(rows) + counter <= MaxRows
    BY <2>2, DataHandlerAssumption DEF Init
  <2>4. first \in 0 .. Len(pDH.Record)
    BY <2>1 DEF Init
  <2>5. pc = "none" /\ err \in BOOLEAN /\ lost \in BOOLEAN
    BY DEF Init
  <2>6. row \in Fetched \cup {Nil} /\ counter \in Nat
    BY DEF Init
  <2>7. calls \in 0 .. MaxCalls /\ writes \in 0 .. MaxWrites /\ faults \in 0 .. MaxFaults
    BY DataHandlerAssumption DEF Init
  <2>8. table \in Tables
    BY DEF Init
  <2> QED
    BY <2>1, <2>2, <2>3, <2>4, <2>5, <2>6, <2>7, <2>8 DEF TypeOK
<1>2. HandlerInv
  BY UnsetDiffers DEF Init, HandlerInv, NoHandler
<1> QED
  BY <1>1, <1>2 DEF IInv, Init

\* The end of a request keeps the invariant.
LEMMA DiscardStep ==
    ASSUME IInv, Discard
    PROVE  IInv'
<1>1. TypeOK'
  <2>1. pDH' \in Handlers /\ pDH'.Record = <<>>
    BY NoHandlerType DEF Discard, NoHandler
  <2>2. rows' \in Seq(Fetched) /\ Len(rows') = 0 /\ answer' \in Seq(Fetched)
    BY DEF Discard
  <2>3. Len(rows') + counter' <= MaxRows
    BY <2>2, DataHandlerAssumption DEF Discard
  <2>4. first' \in 0 .. Len(pDH'.Record)
    BY <2>1 DEF Discard
  <2>5. pc' = "none" /\ err' \in BOOLEAN /\ lost' \in BOOLEAN
    BY DEF Discard
  <2>6. row' \in Fetched \cup {Nil} /\ counter' \in Nat
    BY DEF Discard
  <2>7. calls' \in 0 .. MaxCalls /\ writes' \in 0 .. MaxWrites /\ faults' \in 0 .. MaxFaults
    BY DataHandlerAssumption DEF Discard, IInv, TypeOK
  <2>8. table' \in Tables
    BY DEF Discard, IInv, TypeOK
  <2> QED
    BY <2>1, <2>2, <2>3, <2>4, <2>5, <2>6, <2>7, <2>8 DEF TypeOK
<1>2. HandlerInv'
  BY UnsetDiffers DEF Discard, HandlerInv, NoHandler
<1> QED
  BY <1>1, <1>2 DEF IInv, Discard

\* A new handler keeps the invariant.  Before it, nothing was recorded: first is 0.
LEMMA NewStep ==
    ASSUME IInv, NewPostgresDataHandler
    PROVE  IInv'
<1>1. Range(primaryKey) \in SUBSET (Columns \cup {"*"})
  BY DataHandlerAssumption DEF Range
<1>2. pDH' = [NoHandler EXCEPT !.batchSize = DefaultBatchSize, !.EnforceBatch = TRUE,
                               !.sortDirection = "desc",
                               !.projection = Range(primaryKey)]
  BY DEF NewPostgresDataHandler
<1>3. pDH' \in Handlers
  <2>1. DefaultBatchSize \in Int64
    BY DataHandlerAssumption DEF Int64
  <2> QED
    BY <1>1, <1>2, <2>1, NoHandlerType DEF Handlers
<1>4. /\ pDH'.batchSize = DefaultBatchSize /\ pDH'.sortDirection = "desc"
      /\ pDH'.projection = Range(primaryKey)
      /\ pDH'.Record = <<>> /\ pDH'.RecordNextIdx = Nil
      /\ pDH'.dmlType = Unset /\ pDH'.dmlArguments = 0
  BY <1>2 DEF NoHandler
<1>5. UNCHANGED <<table, rows, row, counter, answer, first, lost, calls, writes, faults>>
  BY DEF NewPostgresDataHandler, fetchVars, historyVars
<1>6. pc' = "idle" /\ err' = FALSE
  BY DEF NewPostgresDataHandler
<1>7. first \in 0 .. 0 /\ counter = 0
  BY DEF IInv, TypeOK, HandlerInv, NoHandler, NewPostgresDataHandler
<1>8. first' \in 0 .. Len(pDH'.Record)
  BY <1>4, <1>5, <1>7
<1>9. pDH'.batchSize # 0 /\ pDH'.sortDirection # Unset
  BY <1>4, UnsetDiffers, DataHandlerAssumption
<1>10. TypeOK'
  BY <1>3, <1>4, <1>5, <1>6, <1>8, <1>9 DEF IInv, TypeOK
<1>11. HandlerInv'
  BY <1>4, <1>5, <1>6, <1>7, UnsetDiffers DEF IInv, TypeOK, HandlerInv
<1> QED
  BY <1>6, <1>10, <1>11 DEF IInv

\* An operation that only changes settings keeps the invariant, if the settings
\* are admissible.
LEMMA SettingStep ==
    ASSUME IInv, NEW h, NEW failed \in BOOLEAN, Setting(h, failed), Admissible(h, calls)
    PROVE  IInv'
<1>1. /\ pc = "idle" /\ pDH' = h /\ err' \in BOOLEAN
      /\ UNCHANGED <<table, pc, fetchVars, historyVars, calls, writes, faults>>
  BY DEF Setting
<1>2. /\ table' \in Tables /\ pc' \in {"idle", "panicked"} /\ calls' = calls
      /\ calls' \in 0 .. MaxCalls /\ writes' \in 0 .. MaxWrites
      /\ faults' \in 0 .. MaxFaults
  BY <1>1 DEF IInv, TypeOK
<1> QED
  BY <1>1, <1>2, IdleStep

\* The four operations that change settings keep the invariant.
LEMMA SettingsStep ==
    ASSUME IInv,
           \/ \E b \in BatchSizes : SetBatchSize(b)
           \/ \E f \in Fields : SetProjection({f})
           \/ \E m \in Criteria : SetFindCriteria(m)
           \/ ClearEnforceBatch
    PROVE  IInv'
<1> DEFINE Sized(b) == [pDH EXCEPT !.batchSize = b]
           Projecting(p) == [pDH EXCEPT !.projection = p]
           Finding(m) == [pDH EXCEPT !.searchCriteria = m]
           Unlimited == [pDH EXCEPT !.EnforceBatch = FALSE]
<1>1. pc = "idle"
  BY DEF SetBatchSize, SetProjection, SetFindCriteria, ClearEnforceBatch, Setting
<1>2. Admissible(pDH, calls)
  BY <1>1, SameAdmissible
<1>3. pDH \in Handlers
  BY DEF IInv, TypeOK
<1>4. ASSUME NEW b \in BatchSizes, SetBatchSize(b)
      PROVE  IInv'
  <2> DEFINE n == IF b = 0 THEN DefaultBatchSize ELSE b
  <2>1. n \in Int64 /\ n # 0
    BY DataHandlerAssumption DEF Int64
  <2>2. Setting(Sized(n), FALSE)
    BY <1>4 DEF SetBatchSize
  <2> HIDE DEF n
  <2>3. Sized(n) \in Handlers
    BY <1>3, <2>1 DEF Handlers
  <2>4. Admissible(Sized(n), calls)
    BY <1>2, <1>3, <2>1, <2>3 DEF Admissible, Handlers
  <2> QED
    BY <2>2, <2>4, SettingStep
<1>5. ASSUME NEW f \in Fields, SetProjection({f})
      PROVE  IInv'
  <2> DEFINE p == pDH.projection \cup {f}
  <2>1. p \in SUBSET (Columns \cup {"*"})
    BY <1>3, DataHandlerAssumption DEF Handlers
  <2>2. Setting(Projecting(p), FALSE)
    BY <1>5 DEF SetProjection
  <2>3. Range(primaryKey) \subseteq p
    BY <1>2 DEF Admissible
  <2> HIDE DEF p
  <2>4. Projecting(p) \in Handlers
    BY <1>3, <2>1 DEF Handlers
  <2>5. Admissible(Projecting(p), calls)
    BY <1>2, <1>3, <2>3, <2>4 DEF Admissible, Handlers
  <2> QED
    BY <2>2, <2>5, SettingStep
<1>6. ASSUME NEW m \in Criteria, SetFindCriteria(m)
      PROVE  IInv'
  <2>1. CASE checkPrimaryKey(m)
    <3>1. Setting(Finding(m), FALSE)
      BY <1>6, <2>1 DEF SetFindCriteria
    <3>2. Finding(m) \in Handlers
      BY <1>3 DEF Handlers
    <3>3. Admissible(Finding(m), calls)
      BY <1>2, <1>3, <3>2 DEF Admissible, Handlers
    <3> QED
      BY <3>1, <3>3, SettingStep
  <2>2. CASE ~checkPrimaryKey(m)
    BY <1>2, <1>6, <2>2, SettingStep DEF SetFindCriteria
  <2> QED
    BY <2>1, <2>2
<1>7. ASSUME ClearEnforceBatch
      PROVE  IInv'
  <2>1. Setting(Unlimited, FALSE)
    BY <1>7 DEF ClearEnforceBatch
  <2>2. Unlimited \in Handlers
    BY <1>3 DEF Handlers
  <2>3. Admissible(Unlimited, calls)
    BY <1>2, <1>3, <2>2 DEF Admissible, Handlers
  <2> QED
    BY <2>1, <2>3, SettingStep
<1> QED
  BY <1>4, <1>5, <1>6, <1>7

\* A write of another request does not touch the handler or what it reads.
LEMMA OtherWriteStep ==
    ASSUME IInv, OtherWrite
    PROVE  IInv'
<1>1. UNCHANGED <<pDH, pc, err, rows, row, counter, answer, first, lost, calls, faults>>
  BY DEF OtherWrite, fetchVars, historyVars
<1>2. table' \in Tables /\ writes' = writes + 1 /\ writes < MaxWrites
  BY DEF OtherWrite
<1>3. writes' \in 0 .. MaxWrites
  BY <1>2, DataHandlerAssumption DEF IInv, TypeOK
<1>4. TypeOK'
  BY <1>1, <1>2, <1>3 DEF IInv, TypeOK
<1>5. HandlerInv'
  BY <1>1 DEF IInv, HandlerInv
<1>6. (pc = "find" => PageInv)'
  BY <1>1 DEF IInv, PageInv, OnPage, Room, Asked
<1> QED
  BY <1>4, <1>5, <1>6 DEF IInv

-----------------------------------------------------------------------------
(* Statements that read no rows *)

\* A statement that is refused, or that fails, or that panics keeps the invariant,
\* whatever arguments it has left.
LEMMA RefusedStep ==
    ASSUME IInv, Call, NEW h, Admissible(h, calls + 1),
           Refuse(h) \/ Fault(h) \/ Panic
    PROVE  IInv'
<1>1. pc = "idle" /\ calls' = calls + 1 /\ calls < MaxCalls /\ writes' = writes
  BY DEF Call
<1>2. calls' \in 0 .. MaxCalls /\ writes' \in 0 .. MaxWrites
  BY <1>1, DataHandlerAssumption DEF IInv, TypeOK
<1>3. CASE Refuse(h)
  <2>1. /\ pDH' = h /\ err' \in BOOLEAN /\ table' \in Tables /\ pc' = "idle"
        /\ faults' \in 0 .. MaxFaults /\ UNCHANGED <<fetchVars, historyVars>>
    BY <1>1, <1>3 DEF Refuse, IInv, TypeOK
  <2> QED
    BY <1>1, <1>2, <2>1, IdleStep
<1>4. CASE Fault(h)
  <2>1. /\ pDH' = h /\ err' \in BOOLEAN /\ table' \in Tables /\ pc' = "idle"
        /\ faults' = faults + 1 /\ faults < MaxFaults
        /\ UNCHANGED <<fetchVars, historyVars>>
    BY <1>1, <1>4 DEF Fault, IInv, TypeOK
  <2>2. faults' \in 0 .. MaxFaults
    BY <2>1, DataHandlerAssumption DEF IInv, TypeOK
  <2> QED
    BY <1>1, <1>2, <2>1, <2>2, IdleStep
<1>5. CASE Panic
  <2>1. /\ pDH' = pDH /\ err' \in BOOLEAN /\ table' \in Tables /\ pc' = "panicked"
        /\ faults' \in 0 .. MaxFaults /\ UNCHANGED <<fetchVars, historyVars>>
    BY <1>5 DEF Panic, IInv, TypeOK
  <2>2. Admissible(pDH, calls')
    BY <1>1, SameAdmissible
  <2> QED
    BY <1>1, <1>2, <2>1, <2>2, IdleStep
<1> QED
  BY <1>3, <1>4, <1>5

\* A statement that has changed the table keeps the invariant.
LEMMA ExecutedStep ==
    ASSUME IInv, Call, NEW h, Admissible(h, calls + 1), NEW T \in Tables, Execute(h, T)
    PROVE  IInv'
<1>1. pc = "idle" /\ calls' = calls + 1 /\ calls < MaxCalls /\ writes' = writes
  BY DEF Call
<1>2. calls' \in 0 .. MaxCalls /\ writes' \in 0 .. MaxWrites
  BY <1>1, DataHandlerAssumption DEF IInv, TypeOK
<1>3. /\ pDH' = h /\ err' \in BOOLEAN /\ table' \in Tables /\ pc' = "idle"
      /\ faults' \in 0 .. MaxFaults /\ UNCHANGED <<fetchVars, historyVars>>
  BY <1>1 DEF Execute, IInv, TypeOK
<1> QED
  BY <1>1, <1>2, <1>3, IdleStep

\* The criteria of the handler are a document over the two columns.
LEMMA CriteriaBound ==
    ASSUME IInv
    PROVE  Cardinality(Bound(pDH.searchCriteria)) \in 0 .. 2
<1>1. pDH.searchCriteria \in Criteria \cup {<<>>}
  BY DEF IInv, TypeOK, Handlers
<1> QED
  BY <1>1, DocumentDomain, BoundSize

\* UpdateRecord keeps the invariant.
LEMMA UpdateStep ==
    ASSUME IInv, NEW replacement \in Replacements, UpdateRecord(replacement)
    PROVE  IInv'
<1> DEFINE criteria == pDH.searchCriteria
           changed == Matching(table, criteria)
           k == Cardinality(Bound(replacement))
           n == Cardinality(Bound(criteria))
           bound == [pDH EXCEPT !.dmlArguments = @ + k + n]
           affected == [bound EXCEPT !.NumAffectedLastOp = Cardinality(changed)]
           Replaced(r) == [f \in Columns |-> IF f \in Bound(replacement)
                                             THEN replacement[f] ELSE r[f]]
           result == (table \ changed) \cup {Replaced(r) : r \in changed}
<1>1. Call /\ pc = "idle" /\ calls < MaxCalls
  BY DEF UpdateRecord, Call
<1>2. \/ Refuse(pDH)
      \/ Panic
      \/ Fault(bound)
      \/ Refuse(bound)
      \/ result \in Tables /\ Execute(affected, result)
  BY Zenon DEF UpdateRecord
<1>3. Admissible(pDH, calls + 1) /\ Admissible(pDH, calls)
  BY <1>1, SameAdmissible
<1>4. Admissible(bound, calls + 1)
  <2>1. k \in 0 .. 2
    BY DocumentDomain, BoundSize
  <2>2. n \in 0 .. 2
    BY CriteriaBound
  <2>3. pDH.dmlArguments \in Nat
    BY DEF IInv, TypeOK, Handlers
  <2> HIDE DEF k, n
  <2>4. k + n \in 0 .. 4 /\ pDH.dmlArguments + k + n = pDH.dmlArguments + (k + n)
    BY <2>1, <2>2, <2>3
  <2>5. Admissible([pDH EXCEPT !.dmlArguments = @ + (k + n)], calls + 1)
    BY <1>1, <1>3, <2>4, ArgumentsAdmissible
  <2> QED
    BY <2>4, <2>5
<1>5. Admissible(affected, calls + 1)
  <2>1. Cardinality(changed) \in 0 .. MaxRows
    BY MatchingPart DEF IInv, TypeOK
  <2> HIDE DEF bound, changed
  <2>2. Admissible([bound EXCEPT !.NumAffectedLastOp = Cardinality(changed)], calls + 1)
    BY <1>4, <2>1, AffectedAdmissible
  <2> QED
    BY <2>2
<1> HIDE DEF bound, affected, result
<1> QED
  BY <1>1, <1>2, <1>3, <1>4, <1>5, RefusedStep, ExecutedStep

\* DeleteRecord keeps the invariant.
LEMMA DeleteStep ==
    ASSUME IInv, DeleteRecord
    PROVE  IInv'
<1> DEFINE criteria == pDH.searchCriteria
           deleted == Matching(table, criteria)
           n == Cardinality(Bound(criteria))
           bound == [pDH EXCEPT !.dmlArguments = @ + n]
           affected == [bound EXCEPT !.NumAffectedLastOp = Cardinality(deleted)]
<1>1. Call /\ pc = "idle" /\ calls < MaxCalls
  BY DEF DeleteRecord, Call
<1>2. \/ Refuse(pDH)
      \/ Panic
      \/ Fault(bound)
      \/ Refuse(bound)
      \/ Execute(affected, table \ deleted)
  BY Zenon DEF DeleteRecord
<1>3. Admissible(pDH, calls + 1) /\ Admissible(pDH, calls)
  BY <1>1, SameAdmissible
<1>4. Admissible(bound, calls + 1)
  <2>1. n \in 0 .. 4
    BY CriteriaBound
  <2> HIDE DEF n
  <2> QED
    BY <1>1, <1>3, <2>1, ArgumentsAdmissible
<1>5. Admissible(affected, calls + 1)
  <2>1. Cardinality(deleted) \in 0 .. MaxRows
    BY MatchingPart DEF IInv, TypeOK
  <2> HIDE DEF bound, deleted
  <2>2. Admissible([bound EXCEPT !.NumAffectedLastOp = Cardinality(deleted)], calls + 1)
    BY <1>4, <2>1, AffectedAdmissible
  <2> QED
    BY <2>2
<1>6. table \ deleted \in Tables
  BY MatchingPart DEF IInv, TypeOK
<1> HIDE DEF bound, affected, deleted
<1> QED
  BY <1>1, <1>2, <1>3, <1>4, <1>5, <1>6, RefusedStep, ExecutedStep

\* A statement that returns one row of a table that has rows keeps the invariant.
LEMMA OneRowStep ==
    ASSUME IInv, Call, NEW h, Admissible(h, calls + 1), pDH' = h,
           NEW r \in Rows, table' = table \cup {r}, table' \in Tables,
           NEW x \in Fetched, NEW operation \in {"proc", "insert"},
           Fetch(operation, <<x>>), UNCHANGED historyVars
    PROVE  IInv'
<1>1. pc = "idle" /\ calls' = calls + 1 /\ calls < MaxCalls /\ writes' = writes
  BY DEF Call
<1>2. calls' \in 0 .. MaxCalls
  BY <1>1, DataHandlerAssumption DEF IInv, TypeOK
<1>3. <<x>> \in Seq(Fetched) /\ Len(<<x>>) = 1
  OBVIOUS
<1>4. 1 <= MaxRows
  <2>1. IsFiniteSet(table') /\ Cardinality(table') <= MaxRows /\ r \in table'
    BY DEF Tables
  <2>2. Cardinality(table') \in Nat /\ Cardinality(table') # 0
    BY <2>1, FS_CardinalityType, FS_EmptySet
  <2> QED
    BY <2>1, <2>2, DataHandlerAssumption
<1>5. Admissible(h, calls')
  BY <1>1
<1> QED
  BY <1>1, <1>2, <1>3, <1>4, <1>5, FetchStep

\* What a procedure answers are rows of an answer.
LEMMA ProcAnswersType ==
    ASSUME NEW T \in Tables, NEW s \in ProcAnswers(T)
    PROVE  s \in Seq(Fetched) /\ Len(s) <= MaxRows
<1>1. PICK n \in 0 .. MaxRows : s \in [1 .. n -> [content_add : {r.id : r \in T}]]
  BY DEF ProcAnswers
<1>2. {r.id : r \in T} \subseteq Ids
  BY DEF Tables, Rows
<1>3. [content_add : {r.id : r \in T}] \subseteq Fetched
  BY <1>2 DEF Fetched
<1>4. n \in Nat /\ n <= MaxRows
  BY <1>1, DataHandlerAssumption
<1>5. s \in [1 .. n -> Fetched]
  BY <1>1, <1>3
<1> QED
  BY <1>4, <1>5

\* ExecuteProc keeps the invariant.
LEMMA ProcStep ==
    ASSUME IInv, NEW procArgs \in ProcArgs, ExecuteProc(procArgs)
    PROVE  IInv'
<1> DEFINE bound == [pDH EXCEPT !.dmlArguments = @ + procArgs]
<1>1. Call /\ pc = "idle" /\ calls < MaxCalls
  BY DEF ExecuteProc, Call
<1>2. \/ Fault(bound)
      \/ Refuse(bound)
      \/ /\ pDH' = bound
         /\ table' \in Tables
         /\ \E s \in ProcAnswers(table') : Fetch("proc", s)
         /\ UNCHANGED historyVars
  BY Zenon DEF ExecuteProc
<1>3. Admissible(pDH, calls)
  BY <1>1, SameAdmissible
<1>4. procArgs \in 0 .. 4
  BY DataHandlerAssumption
<1>5. Admissible(bound, calls + 1)
  BY <1>1, <1>3, <1>4, ArgumentsAdmissible
<1> HIDE DEF bound
<1>6. CASE Fault(bound) \/ Refuse(bound)
  BY <1>1, <1>5, <1>6, RefusedStep
<1>7. ASSUME pDH' = bound, UNCHANGED historyVars, table' \in Tables,
             NEW s \in ProcAnswers(table'), Fetch("proc", s)
      PROVE  IInv'
  <2>1. s \in Seq(Fetched) /\ Len(s) <= MaxRows
    BY <1>7, ProcAnswersType
  <2>2. calls' = calls + 1 /\ writes' = writes
    BY <1>1 DEF Call
  <2>3. calls' \in 0 .. MaxCalls
    BY <1>1, <2>2, DataHandlerAssumption DEF IInv, TypeOK
  <2>4. Admissible(bound, calls')
    BY <1>5, <2>2
  <2> QED
    BY <1>1, <1>7, <2>1, <2>2, <2>3, <2>4, FetchStep
<1> QED
  BY <1>2, <1>6, <1>7

\* InsertRecord keeps the invariant.
LEMMA InsertStep ==
    ASSUME IInv, NEW record \in Records, NEW return_modified \in BOOLEAN,
           InsertRecord(record, return_modified)
    PROVE  IInv'
<1> DEFINE staged == [pDH EXCEPT !.dmlType = "insert",
                                 !.dmlArguments = Cardinality(DOMAIN record)]
<1>1. Call /\ pc = "idle" /\ calls < MaxCalls
  BY DEF InsertRecord, Call
<1>2. \/ Refuse(pDH)
      \/ /\ record # <<>>
         /\ \/ Fault(staged)
            \/ Refuse(staged)
            \/ \E r \in Rows :
                  /\ table \cup {r} \in Tables
                  /\ \/ /\ table' = table \cup {r}
                        /\ pDH' = staged
                        /\ Fetch("insert", <<r>>)
                        /\ UNCHANGED historyVars
                     \/ Execute(staged, table \cup {r})
  BY Zenon DEF InsertRecord
<1>3. Admissible(pDH, calls + 1)
  BY <1>1, SameAdmissible
<1>4. CASE Refuse(pDH)
  BY <1>1, <1>3, <1>4, RefusedStep
<1>5. record # <<>> => Admissible(staged, calls + 1)
  BY <1>1, StagedAdmissible
<1> HIDE DEF staged
<1>6. ASSUME record # <<>>, Fault(staged) \/ Refuse(staged)
      PROVE  IInv'
  BY <1>1, <1>5, <1>6, RefusedStep
<1>7. ASSUME record # <<>>, NEW r \in Rows, table \cup {r} \in Tables,
             table' = table \cup {r}, pDH' = staged, Fetch("insert", <<r>>),
             UNCHANGED historyVars
      PROVE  IInv'
  BY <1>1, <1>5, <1>7, FetchedTypes, OneRowStep
<1>8. ASSUME record # <<>>, NEW r \in Rows, table \cup {r} \in Tables,
             Execute(staged, table \cup {r})
      PROVE  IInv'
  BY <1>1, <1>5, <1>8, ExecutedStep
<1> QED
  BY <1>2, <1>4, <1>6, <1>7, <1>8

-----------------------------------------------------------------------------
(* FindRecord and its rows *)

\* The rows that a find lists, of the columns p.
Listed(direction, p) ==
    LET selected == InOrder(Matching(table, pDH.searchCriteria), direction)
    IN [i \in DOMAIN selected |-> Projected(selected[i], p)]

\* A listing is a sequence of rows of an answer, no longer than the table.
LEMMA ListedType ==
    ASSUME IInv, FindIsAccepted, NEW direction
    PROVE  /\ Listed(direction, pDH.projection) \in Seq(Fetched)
           /\ Len(Listed(direction, pDH.projection)) <= MaxRows
<1> DEFINE S == Matching(table, pDH.searchCriteria)
           selected == InOrder(S, direction)
<1>1. primaryKey = <<"id">>
  BY DataHandlerAssumption DEF FindIsAccepted
<1>2. /\ S \in SUBSET Rows /\ IsFiniteSet(S) /\ KeysUnique(S)
      /\ Cardinality(S) \in 0 .. MaxRows
  BY MatchingPart DEF IInv, TypeOK
<1> HIDE DEF S
<1>3. selected \in Seq(S) /\ Len(selected) = Cardinality(S)
  BY <1>1, <1>2, InOrderType
<1> HIDE DEF selected
<1>4. pDH.projection \in SUBSET (Columns \cup {"*"})
  BY DEF IInv, TypeOK, Handlers
<1>5. ASSUME NEW i \in DOMAIN selected
      PROVE  Projected(selected[i], pDH.projection) \in Fetched
  <2>1. selected[i] \in Rows
    BY <1>2, <1>3
  <2> QED
    BY <1>4, <2>1, ProjectedType
<1>6. DOMAIN selected = 1 .. Cardinality(S) /\ Cardinality(S) \in Nat
  BY <1>2, <1>3
<1>7. Listed(direction, pDH.projection) =
         [i \in 1 .. Cardinality(S) |-> Projected(selected[i], pDH.projection)]
  BY <1>6 DEF Listed, S, selected
<1>8. Listed(direction, pDH.projection) \in [1 .. Cardinality(S) -> Fetched]
  BY <1>5, <1>6, <1>7
<1>9. Listed(direction, pDH.projection) \in Seq(Fetched)
  BY <1>6, <1>8
<1>10. Len(Listed(direction, pDH.projection)) = Cardinality(S)
  BY <1>6, <1>8, <1>9
<1> QED
  BY <1>2, <1>9, <1>10

\* A sequence of length 0 is empty.
LEMMA EmptySequence ==
    ASSUME NEW X, NEW s \in Seq(X)
    PROVE  Len(s) = 0 <=> s = <<>>
  OBVIOUS

\* The beginning of a sequence.
LEMMA PrefixFacts ==
    ASSUME NEW X, NEW s \in Seq(X), NEW n \in 0 .. Len(s)
    PROVE  /\ SubSeq(s, 1, n) \in Seq(X)
           /\ Len(SubSeq(s, 1, n)) = n
           /\ \A i \in 1 .. n : SubSeq(s, 1, n)[i] = s[i]
  OBVIOUS

\* A find whose statement is executed starts with an empty page, and all that it
\* has asked for still to come.
LEMMA FindExecuted ==
    ASSUME IInv, Call, NEW h, Admissible(h, calls + 1),
           h.EnforceBatch = pDH.EnforceBatch, h.batchSize = pDH.batchSize,
           pDH' = h, NEW listed \in Seq(Fetched), Len(listed) <= MaxRows,
           NEW n \in Nat, pDH.EnforceBatch => pDH.batchSize >= -1,
           n = IF pDH.EnforceBatch /\ pDH.batchSize + 1 < Len(listed)
               THEN pDH.batchSize + 1 ELSE Len(listed),
           answer' = listed, first' = Len(pDH.Record), lost' = FALSE,
           Fetch("find", SubSeq(listed, 1, n)), UNCHANGED table
    PROVE  IInv'
<1>1. pc = "idle" /\ calls' = calls + 1 /\ calls < MaxCalls /\ writes' = writes
  BY DEF Call
<1>2. calls' \in 0 .. MaxCalls /\ writes' \in 0 .. MaxWrites
  BY <1>1, DataHandlerAssumption DEF IInv, TypeOK
<1>3. /\ pc' = "find" /\ err' = FALSE /\ rows' = SubSeq(listed, 1, n)
      /\ row' = Nil /\ counter' = 0 /\ faults' = faults
  BY DEF Fetch
<1>4. Len(listed) \in Nat /\ pDH.batchSize \in Int
  BY SizeType DEF IInv, TypeOK
<1>5. n \in 0 .. Len(listed) /\ n <= MaxRows
  BY <1>4, DataHandlerAssumption
<1>6. /\ rows' \in Seq(Fetched) /\ Len(rows') = n
      /\ \A i \in 1 .. n : rows'[i] = listed[i]
  BY <1>3, <1>5, PrefixFacts
<1>7. h.Record = pDH.Record /\ pDH.Record \in Seq(Fetched)
      /\ h.RecordNextIdx = pDH.RecordNextIdx
  BY DEF Admissible, IInv, TypeOK, Handlers
<1>8. Len(pDH.Record) \in Nat /\ first' \in 0 .. Len(pDH'.Record)
  BY <1>7
<1>9. TypeOK'
  <2>1. Len(rows') + counter' <= MaxRows
    BY <1>3, <1>5, <1>6
  <2>2. pc' # "none" /\ pc' \in {"none", "idle", "find", "proc", "insert", "panicked"}
    BY <1>3
  <2>3. row' \in Fetched \cup {Nil} /\ counter' \in Nat /\ err' \in BOOLEAN /\ lost' \in BOOLEAN
    BY <1>3
  <2>4. table' \in Tables /\ faults' \in 0 .. MaxFaults /\ answer' \in Seq(Fetched)
    BY <1>3 DEF IInv, TypeOK
  <2>5. /\ pDH' \in Handlers /\ pDH'.batchSize # 0 /\ pDH'.sortDirection # Unset
        /\ Range(primaryKey) \subseteq pDH'.projection
    BY DEF Admissible
  <2> QED
    BY <1>2, <1>6, <1>8, <2>1, <2>2, <2>3, <2>4, <2>5 DEF TypeOK
<1>10. HandlerInv'
  BY <1>1, <1>3, <1>7 DEF IInv, HandlerInv, Admissible
<1>11. PageInv'
  <2>1. OnPage(counter)' = 0
    BY <1>3, <1>4 DEF OnPage, Room
  <2>2. Asked' = n
    BY DEF Asked
  <2>3. Len(pDH'.Record) = first' + 0
    BY <1>7, <1>8
  <2>4. \A i \in 1 .. Len(rows') : rows'[i] = answer'[counter' + i]
    BY <1>3, <1>6
  <2>5. counter' + Len(rows') = n
    BY <1>3, <1>6
  <2>6. first' = 0 => pDH'.RecordNextIdx = Nil
    <3>1. first' = 0 => pDH.Record = <<>>
      BY <1>7, EmptySequence
    <3>2. pDH.RecordNextIdx # Nil => pDH.Record # <<>>
      BY DEF IInv, HandlerInv
    <3> QED
      BY <1>7, <3>1, <3>2
  <2> QED
    BY <1>3, <2>1, <2>2, <2>3, <2>4, <2>5, <2>6 DEF PageInv
<1> QED
  BY <1>9, <1>10, <1>11 DEF IInv

\* FindRecord keeps the invariant.
LEMMA FindStep ==
    ASSUME IInv, NEW return_many \in BOOLEAN, NEW reverse_sort \in BOOLEAN,
           FindRecord(return_many, reverse_sort)
    PROVE  IInv'
<1> DEFINE criteria == pDH.searchCriteria
           reversed == [pDH EXCEPT !.sortDirection = Opposite(@)]
           sorted == IF reverse_sort THEN reversed ELSE pDH
           k == Cardinality(Bound(criteria))
           bound == [sorted EXCEPT !.dmlArguments = @ + k]
           listed == Listed(sorted.sortDirection, pDH.projection)
           limit == IF pDH.EnforceBatch THEN Limit ELSE Len(listed)
           n == IF limit < Len(listed) THEN limit ELSE Len(listed)
<1>1. Call /\ pc = "idle" /\ calls < MaxCalls
  BY DEF FindRecord, Call
<1>2. \/ Refuse(pDH)
      \/ Refuse(sorted)
      \/ Panic
      \/ Fault(bound)
      \/ Refuse(bound)
      \/ /\ FindIsAccepted
         /\ pDH' = bound
         /\ answer' = listed
         /\ first' = Len(pDH.Record)
         /\ lost' = FALSE
         /\ Fetch("find", SubSeq(listed, 1, n))
         /\ UNCHANGED table
  BY Zenon DEF FindRecord, Listed
<1>3. Admissible(pDH, calls + 1) /\ Admissible(pDH, calls)
  BY <1>1, SameAdmissible
<1>4. Admissible(sorted, calls + 1) /\ Admissible(sorted, calls)
  BY <1>3, SortedAdmissible
<1>5. k \in 0 .. 4
  BY CriteriaBound
<1>6. pDH \in Handlers /\ sorted \in Handlers
  BY <1>3, <1>4 DEF Admissible
<1>7. sorted.EnforceBatch = pDH.EnforceBatch /\ sorted.batchSize = pDH.batchSize
  BY <1>6 DEF Handlers
<1> HIDE DEF k, sorted
<1>8. Admissible(bound, calls + 1)
  BY <1>1, <1>4, <1>5, ArgumentsAdmissible
<1>9. bound.EnforceBatch = pDH.EnforceBatch /\ bound.batchSize = pDH.batchSize
  BY <1>6, <1>7 DEF Handlers
<1> HIDE DEF bound
<1>10. CASE Refuse(pDH) \/ Refuse(sorted) \/ Panic \/ Fault(bound) \/ Refuse(bound)
  BY <1>1, <1>3, <1>4, <1>8, <1>10, RefusedStep
<1>11. ASSUME FindIsAccepted, pDH' = bound, answer' = listed,
              first' = Len(pDH.Record), lost' = FALSE,
              Fetch("find", SubSeq(listed, 1, n)), UNCHANGED table
       PROVE  IInv'
  <2>1. listed \in Seq(Fetched) /\ Len(listed) <= MaxRows
    BY <1>11, ListedType
  <2>2. Len(listed) \in Nat /\ pDH.batchSize \in Int
    BY <1>6, <2>1, SizeType
  <2> HIDE DEF listed
  <2>3. /\ n \in Nat
        /\ pDH.EnforceBatch => Limit = pDH.batchSize + 1 /\ pDH.batchSize >= -1
    BY <1>11, <2>2, DataHandlerAssumption DEF FindIsAccepted, Limit
  <2>4. n = IF pDH.EnforceBatch /\ pDH.batchSize + 1 < Len(listed)
            THEN pDH.batchSize + 1 ELSE Len(listed)
    BY <2>2, <2>3
  <2> HIDE DEF n
  <2> QED
    BY <1>1, <1>8, <1>9, <1>11, <2>1, <2>3, <2>4, FindExecuted
<1> QED
  BY <1>2, <1>10, <1>11

\* A lost connection ends the rows, and what is on the page stays there.
LEMMA LoseStep ==
    ASSUME IInv, LoseConnection
    PROVE  IInv'
<1>1. /\ rows # <<>> /\ rows' = <<>> /\ lost' = TRUE
      /\ faults < MaxFaults /\ faults' = faults + 1
      /\ UNCHANGED <<table, pDH, pc, err, row, counter, answer, first, calls, writes>>
  BY DEF LoseConnection
<1>2. /\ rows \in Seq(Fetched) /\ counter \in Nat /\ faults \in Nat
      /\ Len(rows) + counter <= MaxRows /\ pDH.batchSize \in Int
      /\ answer \in Seq(Fetched)
  BY SizeType DEF IInv, TypeOK
<1>3. Len(rows) \in Nat /\ Len(rows) > 0 /\ Len(answer) \in Nat
  BY <1>1, <1>2
<1>4. rows' \in Seq(Fetched) /\ Len(rows') = 0
  BY <1>1
<1>5. Len(rows') + counter' <= MaxRows /\ faults' \in 0 .. MaxFaults
  BY <1>1, <1>2, <1>3, <1>4, DataHandlerAssumption
<1>6. TypeOK'
  BY <1>1, <1>4, <1>5 DEF IInv, TypeOK
<1>7. HandlerInv'
  BY <1>1 DEF IInv, HandlerInv
<1>8. ASSUME pc' = "find"
      PROVE  PageInv'
  <2>1. PageInv
    BY <1>1, <1>8 DEF IInv
  <2>2. OnPage(counter)' = OnPage(counter) /\ Asked' = Asked
    BY <1>1 DEF OnPage, Room, Asked
  <2>3. Asked \in Int /\ (pDH.EnforceBatch => Asked <= pDH.batchSize + 1)
    BY <1>2, <1>3 DEF Asked
  <2>4. counter + Len(rows) <= Asked
    BY <2>1 DEF PageInv
  <2>5. counter + 0 <= Asked /\ (pDH.EnforceBatch => counter <= pDH.batchSize)
    BY <1>2, <1>3, <2>3, <2>4
  <2> QED
    BY <1>1, <1>4, <2>1, <2>2, <2>5 DEF PageInv
<1> QED
  BY <1>6, <1>7, <1>8 DEF IInv

\* The rest of a sequence that is not empty.
LEMMA TailFacts ==
    ASSUME NEW X, NEW s \in Seq(X), s # <<>>
    PROVE  /\ Head(s) \in X /\ Head(s) = s[1]
           /\ Tail(s) \in Seq(X) /\ Len(s) \in Nat /\ Len(s) > 0
           /\ Len(Tail(s)) = Len(s) - 1
           /\ \A i \in 1 .. Len(s) - 1 : Tail(s)[i] = s[i + 1]
  OBVIOUS

\* A sequence with one element more.
LEMMA AppendFacts ==
    ASSUME NEW X, NEW s \in Seq(X), NEW x \in X
    PROVE  /\ Append(s, x) \in Seq(X) /\ Append(s, x) # <<>>
           /\ Len(s) \in Nat /\ Len(Append(s, x)) = Len(s) + 1
           /\ \A i \in 1 .. Len(s) : Append(s, x)[i] = s[i]
           /\ Append(s, x)[Len(s) + 1] = x
  OBVIOUS

\* A row that is read is the next of the answer; it goes on the page as long as
\* there is room.
LEMMA FetchRowStep ==
    ASSUME IInv, FetchRow
    PROVE  IInv'
<1> DEFINE x == Head(rows)
           record == IF Kept(counter + 1) THEN Append(pDH.Record, x) ELSE pDH.Record
<1>1. /\ pc \in {"find", "proc", "insert"} /\ rows # <<>>
      /\ counter' = counter + 1 /\ row' = x /\ rows' = Tail(rows)
      /\ UNCHANGED <<table, pc, err, answer, first, lost, calls, writes, faults>>
  BY DEF FetchRow, historyVars
<1>2. pDH' = IF Kept(counter + 1) THEN [pDH EXCEPT !.Record = Append(@, x)] ELSE pDH
  BY DEF FetchRow
<1>3. /\ rows \in Seq(Fetched) /\ counter \in Nat /\ Len(rows) + counter <= MaxRows
      /\ pDH \in Handlers /\ pDH.Record \in Seq(Fetched)
      /\ pDH.batchSize \in Int /\ pDH.batchSize # 0
      /\ first \in 0 .. Len(pDH.Record) /\ answer \in Seq(Fetched)
  BY <1>1, SizeType DEF IInv, TypeOK, Handlers
<1>4. /\ x \in Fetched /\ x = rows[1] /\ Tail(rows) \in Seq(Fetched)
      /\ Len(rows) \in Nat /\ Len(rows) > 0 /\ Len(Tail(rows)) = Len(rows) - 1
      /\ \A i \in 1 .. Len(rows) - 1 : Tail(rows)[i] = rows[i + 1]
  BY <1>1, <1>3, TailFacts
<1> HIDE DEF x
<1>5. /\ Append(pDH.Record, x) \in Seq(Fetched) /\ Append(pDH.Record, x) # <<>>
      /\ Len(pDH.Record) \in Nat /\ Len(Append(pDH.Record, x)) = Len(pDH.Record) + 1
      /\ \A i \in 1 .. Len(pDH.Record) : Append(pDH.Record, x)[i] = pDH.Record[i]
      /\ Append(pDH.Record, x)[Len(pDH.Record) + 1] = x
  <2>1. pDH.Record \in Seq(Fetched) /\ x \in Fetched
    BY <1>3, <1>4
  <2> QED
    BY <2>1, AppendFacts, Zenon
<1>6. /\ record \in Seq(Fetched) /\ Len(record) \in Nat
      /\ Len(record) >= Len(pDH.Record)
      /\ record = <<>> => pDH.Record = <<>>
  BY <1>3, <1>5
<1> HIDE DEF record
<1>7. pDH' = [pDH EXCEPT !.Record = record]
  BY <1>2, <1>3 DEF record, Handlers
<1>8. /\ pDH' \in Handlers
      /\ pDH'.Record = record
      /\ pDH'.batchSize = pDH.batchSize /\ pDH'.EnforceBatch = pDH.EnforceBatch
      /\ pDH'.sortDirection = pDH.sortDirection /\ pDH'.projection = pDH.projection
      /\ pDH'.RecordNextIdx = pDH.RecordNextIdx
      /\ pDH'.dmlType = pDH.dmlType /\ pDH'.dmlArguments = pDH.dmlArguments
  BY <1>3, <1>6, <1>7 DEF Handlers
<1>9. counter' \in Nat /\ Len(rows') = Len(rows) - 1 /\ Len(rows') + counter' <= MaxRows
  BY <1>1, <1>3, <1>4, DataHandlerAssumption
<1>10. first' \in 0 .. Len(pDH'.Record)
  BY <1>1, <1>3, <1>5, <1>6, <1>8
<1>11. TypeOK'
  <2>1. rows' \in Seq(Fetched) /\ row' \in Fetched \cup {Nil}
    BY <1>1, <1>4
  <2>2. pc' # "none" /\ pc' \in {"none", "idle", "find", "proc", "insert", "panicked"}
    BY <1>1
  <2>3. /\ pDH'.batchSize # 0 /\ pDH'.sortDirection # Unset
        /\ Range(primaryKey) \subseteq pDH'.projection
    BY <1>1, <1>3, <1>8 DEF IInv, TypeOK
  <2> QED
    BY <1>1, <1>8, <1>9, <1>10, <2>1, <2>2, <2>3 DEF IInv, TypeOK
<1>12. HandlerInv'
  <2>1. pDH'.Record # <<>>
    <3>1. CASE Kept(counter + 1)
      BY <1>5, <1>8, <3>1 DEF record
    <3>2. CASE ~Kept(counter + 1)
      <4>1. counter > 0
        <5>1. pc = "find" /\ pDH.EnforceBatch /\ counter + 1 > pDH.batchSize
          BY <1>3, <3>2 DEF Kept
        <5>2. counter + Len(rows) <= Asked
          BY <5>1 DEF IInv, PageInv
        <5>3. Asked <= pDH.batchSize + 1 /\ Asked \in Int
          BY <1>3, <5>1 DEF Asked
        <5> QED
          BY <1>3, <1>4, <5>1, <5>2, <5>3
      <4> QED
        BY <1>6, <1>8, <4>1 DEF IInv, HandlerInv
    <3> QED
      BY <3>1, <3>2
  <2>2. row' \in Fetched
    BY <1>1, <1>4
  <2> QED
    BY <1>1, <1>8, <2>1, <2>2 DEF IInv, HandlerInv
<1>13. ASSUME pc' = "find"
       PROVE  PageInv'
  <2>1. PageInv /\ pc = "find"
    BY <1>1, <1>13 DEF IInv
  <2>2. Asked' = Asked /\ Asked \in Int
    BY <1>1, <1>3, <1>8 DEF Asked
  <2>3. OnPage(counter)' = OnPage(counter + 1)
    BY <1>1, <1>8 DEF OnPage, Room
  <2>4. /\ OnPage(counter) \in Nat
        /\ Kept(counter + 1) => OnPage(counter + 1) = counter + 1 /\ OnPage(counter) = counter
        /\ ~Kept(counter + 1) => OnPage(counter + 1) = OnPage(counter)
    BY <1>3, <2>1 DEF Kept, OnPage, Room
  <2>5. /\ Len(pDH.Record) = first + OnPage(counter)
        /\ \A i \in 1 .. OnPage(counter) : pDH.Record[first + i] = answer[i]
        /\ \A i \in 1 .. Len(rows) : rows[i] = answer[counter + i]
        /\ counter + Len(rows) <= Asked
        /\ ~lost => counter + Len(rows) = Asked
        /\ lost => rows = <<>>
        /\ first = 0 => pDH.RecordNextIdx = Nil
        /\ pDH.EnforceBatch => pDH.batchSize >= -1
    BY <2>1 DEF PageInv
  <2>6. x = answer[counter + 1]
    BY <1>3, <1>4, <2>5
  <2>7. Len(record) = first + OnPage(counter + 1)
    <3>1. CASE Kept(counter + 1)
      <4>1. Len(record) = Len(pDH.Record) + 1
        BY <1>5, <3>1 DEF record
      <4> QED
        BY <1>3, <1>5, <2>4, <2>5, <3>1, <4>1
    <3>2. CASE ~Kept(counter + 1)
      BY <2>4, <2>5, <3>2 DEF record
    <3> QED
      BY <3>1, <3>2
  <2>8. ASSUME NEW i \in 1 .. OnPage(counter + 1)
        PROVE  record[first + i] = answer[i]
    <3>1. CASE ~Kept(counter + 1)
      BY <2>4, <2>5, <3>1 DEF record
    <3>2. CASE Kept(counter + 1) /\ i = counter + 1
      <4>1. first + i = Len(pDH.Record) + 1
        BY <1>3, <2>4, <2>5, <3>2
      <4> QED
        BY <1>5, <2>6, <3>2, <4>1 DEF record
    <3>3. CASE Kept(counter + 1) /\ i # counter + 1
      <4>1. i \in 1 .. counter /\ first + i \in 1 .. Len(pDH.Record)
        BY <1>3, <2>4, <2>5, <3>3
      <4> QED
        BY <1>5, <2>4, <2>5, <3>3, <4>1 DEF record
    <3> QED
      BY <3>1, <3>2, <3>3
  <2>9. ASSUME NEW i \in 1 .. Len(rows')
        PROVE  rows'[i] = answer[counter' + i]
    <3>1. i \in 1 .. Len(rows) - 1 /\ i + 1 \in 1 .. Len(rows)
      BY <1>4, <1>9
    <3>2. rows'[i] = rows[i + 1]
      BY <1>1, <1>4, <3>1
    <3>3. rows[i + 1] = answer[counter + (i + 1)]
      BY <2>5, <3>1
    <3>4. counter + (i + 1) = counter' + i
      BY <1>1, <1>3, <3>1
    <3> QED
      BY <3>2, <3>3, <3>4
  <2>10. counter' + Len(rows') = counter + Len(rows)
    BY <1>1, <1>3, <1>4, <1>9
  <2>11. ~lost
    BY <1>1, <2>5
  <2> QED
    BY <1>1, <1>8, <2>2, <2>3, <2>5, <2>6, <2>7, <2>8, <2>9, <2>10, <2>11 DEF PageInv
<1> QED
  BY <1>11, <1>12, <1>13 DEF IInv

\* The next index that a row gives.
LEMMA NextIdxType ==
    ASSUME NEW r \in Fetched
    PROVE  NextIdx(r) \in [Range(primaryKey) -> Ids \cup Names \cup {Nil}]
<1>1. ASSUME NEW f \in Range(primaryKey)
      PROVE  (IF f \in DOMAIN r THEN r[f] ELSE Nil) \in Ids \cup Names \cup {Nil}
  <2>1. f \in Columns
    BY DataHandlerAssumption DEF Range
  <2>2. CASE r \in PartialOver(Ids \cup Names)
    BY <2>2 DEF PartialOver
  <2>3. CASE r \in [content_add : Ids]
    BY <2>1, <2>3 DEF Columns
  <2> QED
    BY <2>2, <2>3 DEF Fetched
<1> QED
  BY <1>1 DEF NextIdx

\* What FetchDone leaves in the handler.
Finished ==
    [pDH EXCEPT !.NumAffectedLastOp = counter,
                !.RecordNextIdx = IF HasMore THEN NextIdx(row) ELSE @,
                !.RecordLastOp = IF counter > 0 THEN row ELSE @]

\* It is a handler, with a next index only if there was one or there is more.
LEMMA FinishedType ==
    ASSUME IInv, pc # "none", rows = <<>>
    PROVE  /\ Finished \in Handlers
           /\ Finished.Record = pDH.Record
           /\ Finished.RecordNextIdx = IF HasMore THEN NextIdx(row) ELSE pDH.RecordNextIdx
           /\ Finished.batchSize = pDH.batchSize
           /\ Finished.sortDirection = pDH.sortDirection
           /\ Finished.projection = pDH.projection
           /\ Finished.dmlType = pDH.dmlType
           /\ Finished.dmlArguments = pDH.dmlArguments
<1> DEFINE next == IF HasMore THEN NextIdx(row) ELSE pDH.RecordNextIdx
           last == IF counter > 0 THEN row ELSE pDH.RecordLastOp
<1>1. pDH \in Handlers /\ counter \in Nat
  BY DEF IInv, TypeOK
<1>2. counter \in 0 .. MaxRows
  <2>1. Len(rows) = 0 /\ Len(rows) + counter <= MaxRows
    BY DEF IInv, TypeOK
  <2> QED
    BY <1>1, <2>1, DataHandlerAssumption
<1>3. HasMore => counter > 0
  BY DEF HasMore
<1>4. counter > 0 => row \in Fetched
  BY DEF IInv, HandlerInv
<1>5. next \in [Range(primaryKey) -> Ids \cup Names \cup {Nil}] \cup {Nil}
  <2>1. pDH.RecordNextIdx \in [Range(primaryKey) -> Ids \cup Names \cup {Nil}] \cup {Nil}
    BY <1>1 DEF Handlers
  <2> QED
    BY <1>3, <1>4, <2>1, NextIdxType
<1>6. last \in Fetched \cup {Nil}
  <2>1. pDH.RecordLastOp \in Fetched \cup {Nil}
    BY <1>1 DEF Handlers
  <2> QED
    BY <1>4, <2>1
<1>7. Finished = [pDH EXCEPT !.NumAffectedLastOp = counter, !.RecordNextIdx = next,
                             !.RecordLastOp = last]
  BY DEF Finished
<1> HIDE DEF next, last
<1>8. Finished \in Handlers
  BY <1>1, <1>2, <1>5, <1>6, <1>7 DEF Handlers
<1>9. Finished.RecordNextIdx = next
  BY <1>1, <1>7 DEF Handlers
<1>10. /\ Finished.Record = pDH.Record
       /\ Finished.batchSize = pDH.batchSize
       /\ Finished.sortDirection = pDH.sortDirection
       /\ Finished.projection = pDH.projection
       /\ Finished.dmlType = pDH.dmlType
       /\ Finished.dmlArguments = pDH.dmlArguments
  BY <1>1, <1>7 DEF Handlers
<1> QED
  BY <1>8, <1>9, <1>10 DEF next

\* The end of the rows keeps the invariant.
LEMMA FetchDoneStep ==
    ASSUME IInv, FetchDone
    PROVE  IInv'
<1>1. /\ pc # "none" /\ rows = <<>> /\ pc' = "idle" /\ pDH' = Finished
      /\ row' = Nil /\ counter' = 0 /\ answer' = <<>> /\ first' = 0 /\ lost' = FALSE
      /\ UNCHANGED <<table, err, rows, calls, writes, faults>>
  BY DEF FetchDone, Finished
<1>2. /\ pDH' \in Handlers
      /\ pDH'.Record = pDH.Record
      /\ pDH'.RecordNextIdx = IF HasMore THEN NextIdx(row) ELSE pDH.RecordNextIdx
      /\ pDH'.batchSize = pDH.batchSize
      /\ pDH'.sortDirection = pDH.sortDirection
      /\ pDH'.projection = pDH.projection
      /\ pDH'.dmlType = pDH.dmlType
      /\ pDH'.dmlArguments = pDH.dmlArguments
  BY <1>1, FinishedType
<1>3. TypeOK'
  <2>1. answer' \in Seq(Fetched) /\ rows' \in Seq(Fetched) /\ Len(rows') = 0
    BY <1>1
  <2>2. Len(rows') + counter' <= MaxRows
    BY <1>1, <2>1, DataHandlerAssumption
  <2>3. pDH'.Record \in Seq(Fetched)
    BY <1>2 DEF Handlers
  <2>4. first' \in 0 .. Len(pDH'.Record)
    BY <1>1, <2>3
  <2>5. /\ pDH'.batchSize # 0 /\ pDH'.sortDirection # Unset
        /\ Range(primaryKey) \subseteq pDH'.projection
    BY <1>1, <1>2 DEF IInv, TypeOK
  <2> QED
    BY <1>1, <1>2, <2>1, <2>2, <2>4, <2>5 DEF IInv, TypeOK
<1>4. HandlerInv'
  <2>1. HasMore => pDH.Record # <<>>
    <3>1. HasMore => counter > 0
      BY DEF HasMore
    <3> QED
      BY <3>1 DEF IInv, HandlerInv
  <2>2. pDH'.RecordNextIdx # Nil => pDH'.Record # <<>>
    BY <1>2, <2>1 DEF IInv, HandlerInv
  <2> QED
    BY <1>1, <1>2, <2>2 DEF IInv, HandlerInv
<1> QED
  BY <1>1, <1>3, <1>4 DEF IInv

-----------------------------------------------------------------------------
(* Theorems *)

\* Every step of the specification keeps the invariant.
LEMMA NextInv ==
    ASSUME IInv, [Next]_vars
    PROVE  IInv'
<1>1. CASE UNCHANGED vars
  <2>1. UNCHANGED <<table, pDH, pc, err, rows, row, counter, answer, first, lost,
                    calls, writes, faults>>
    BY <1>1 DEF vars, fetchVars, historyVars
  <2>2. TypeOK'
    BY <2>1 DEF IInv, TypeOK
  <2>3. HandlerInv'
    BY <2>1 DEF IInv, HandlerInv
  <2>4. (pc = "find" => PageInv)'
    BY <2>1 DEF IInv, PageInv, OnPage, Room, Asked
  <2> QED
    BY <2>2, <2>3, <2>4 DEF IInv
<1>2. CASE Next
  <2>1. CASE NewPostgresDataHandler
    BY <2>1, NewStep
  <2>2. CASE Discard
    BY <2>2, DiscardStep
  <2>3. CASE \/ \E b \in BatchSizes : SetBatchSize(b)
             \/ \E f \in Fields : SetProjection({f})
             \/ \E m \in Criteria : SetFindCriteria(m)
             \/ ClearEnforceBatch
    BY <2>3, SettingsStep
  <2>4. CASE \E many, reverse \in BOOLEAN : FindRecord(many, reverse)
    BY <2>4, FindStep
  <2>5. CASE \E n \in ProcArgs : ExecuteProc(n)
    BY <2>5, ProcStep
  <2>6. CASE \E m \in Replacements : UpdateRecord(m)
    BY <2>6, UpdateStep
  <2>7. CASE DeleteRecord
    BY <2>7, DeleteStep
  <2>8. CASE \E m \in Records, modified \in BOOLEAN : InsertRecord(m, modified)
    BY <2>8, InsertStep
  <2>9. CASE FetchRow
    BY <2>9, FetchRowStep
  <2>10. CASE LoseConnection
    BY <2>10, LoseStep
  <2>11. CASE FetchDone
    BY <2>11, FetchDoneStep
  <2>12. CASE OtherWrite
    BY <2>12, OtherWriteStep
  <2> QED
    BY <1>2, <2>1, <2>2, <2>3, <2>4, <2>5, <2>6, <2>7, <2>8, <2>9, <2>10, <2>11,
       <2>12 DEF Next
<1> QED
  BY <1>1, <1>2

\* The inductive invariant: while FindRecord reads, the page, the row in hand and
\* the rows to come are the answer of its statement.
THEOREM Invariance == Spec => []IInv
<1>1. Init => IInv
  BY InitInv
<1>2. IInv /\ [Next]_vars => IInv'
  BY NextInv
<1> QED
  BY <1>1, <1>2, PTL DEF Spec

\* Every variable and every field of the handler keeps its type, whatever int64 is
\* given as the size: it is never 0, and the key is always among the selected columns.
THEOREM TypeCorrect == Spec => []TypeOK
<1>1. IInv => TypeOK
  BY DEF IInv
<1> QED
  BY <1>1, Invariance, PTL

\* Only FetchDone ends a FindRecord.
LEMMA FindEnds ==
    ASSUME [Next]_vars, FindReturns
    PROVE  FetchDone
<1>1. Next
  BY DEF FindReturns, vars
<1>2. ~NewPostgresDataHandler /\ ~Discard
  BY DEF FindReturns, NewPostgresDataHandler, Discard
<1>3. ~(\/ \E b \in BatchSizes : SetBatchSize(b)
        \/ \E f \in Fields : SetProjection({f})
        \/ \E m \in Criteria : SetFindCriteria(m)
        \/ ClearEnforceBatch)
  <2>1. ASSUME NEW h, NEW failed
        PROVE  ~Setting(h, failed)
    BY DEF FindReturns, Setting
  <2> QED
    BY <2>1, Zenon DEF SetBatchSize, SetProjection, SetFindCriteria, ClearEnforceBatch
<1>4. ~Call
  BY DEF FindReturns, Call
<1>5. /\ ~\E many, reverse \in BOOLEAN : FindRecord(many, reverse)
      /\ ~\E n \in ProcArgs : ExecuteProc(n)
      /\ ~\E m \in Replacements : UpdateRecord(m)
      /\ ~DeleteRecord
      /\ ~\E m \in Records, modified \in BOOLEAN : InsertRecord(m, modified)
  BY <1>4, Zenon DEF FindRecord, ExecuteProc, UpdateRecord, DeleteRecord, InsertRecord
<1>6. ~FetchRow /\ ~LoseConnection /\ ~OtherWrite
  BY DEF FindReturns, FetchRow, LoseConnection, OtherWrite
<1> QED
  BY <1>1, <1>2, <1>3, <1>5, <1>6 DEF Next

\* A part of a sequence that goes to its end.
LEMMA SuffixFacts ==
    ASSUME NEW X, NEW s \in Seq(X), NEW k \in 0 .. Len(s)
    PROVE  /\ SubSeq(s, k + 1, Len(s)) \in Seq(X)
           /\ Len(SubSeq(s, k + 1, Len(s))) = Len(s) - k
           /\ \A i \in 1 .. Len(s) - k : SubSeq(s, k + 1, Len(s))[i] = s[k + i]
  OBVIOUS

\* Two sequences of the same length with the same elements are the same.
LEMMA SequencesEqual ==
    ASSUME NEW X, NEW s \in Seq(X), NEW t \in Seq(X), Len(s) = Len(t),
           \A i \in 1 .. Len(s) : s[i] = t[i]
    PROVE  s = t
  OBVIOUS

\* When FindRecord returns, it has recorded what its page holds of the rows read,
\* and has read all that it asked for unless the connection was lost.
LEMMA FindResult ==
    ASSUME IInv, [Next]_vars, FindReturns
    PROVE  /\ rows = <<>> /\ PageInv
           /\ pDH'.Record = pDH.Record /\ pDH.Record \in Seq(Fetched)
           /\ pDH'.RecordNextIdx = IF HasMore THEN NextIdx(row) ELSE pDH.RecordNextIdx
           /\ first \in 0 .. Len(pDH.Record) /\ Len(pDH.Record) - first = OnPage(counter)
           /\ counter <= Asked /\ (~lost => counter = Asked)
           /\ counter \in Nat /\ answer \in Seq(Fetched) /\ Len(answer) \in Nat
           /\ pDH.batchSize \in Int /\ pDH.batchSize # 0
<1>1. FetchDone
  BY FindEnds
<1>2. pc = "find" /\ rows = <<>> /\ pDH' = Finished
  BY <1>1 DEF FetchDone, Finished, FindReturns
<1>3. PageInv
  BY <1>2 DEF IInv
<1>4. /\ pDH'.Record = pDH.Record
      /\ pDH'.RecordNextIdx = IF HasMore THEN NextIdx(row) ELSE pDH.RecordNextIdx
  BY <1>2, FinishedType
<1>5. /\ pDH.Record \in Seq(Fetched) /\ first \in 0 .. Len(pDH.Record)
      /\ counter \in Nat /\ answer \in Seq(Fetched)
      /\ pDH.batchSize \in Int /\ pDH.batchSize # 0
  BY <1>2, SizeType DEF IInv, TypeOK, Handlers
<1>6. Len(pDH.Record) \in Nat /\ Len(answer) \in Nat /\ OnPage(counter) \in Nat
  BY <1>5 DEF OnPage, Room
<1>7. Len(pDH.Record) - first = OnPage(counter)
  BY <1>3, <1>5, <1>6 DEF PageInv
<1>8. Len(rows) = 0
  BY <1>2
<1>9. counter <= Asked /\ (~lost => counter = Asked)
  <2>1. counter + 0 = counter
    BY <1>5
  <2> QED
    BY <1>3, <1>8, <2>1 DEF PageInv
<1> QED
  BY <1>2, <1>3, <1>4, <1>5, <1>6, <1>7, <1>9

\* What FindRecord adds to Record is the beginning of what the table held when its
\* statement ran, a page of it or everything; only a lost connection makes it shorter.
THEOREM PagesArePrefixes == Spec => PageIsPrefix
<1>1. ASSUME IInv, [Next]_vars, FindReturns
      PROVE  LET page == SubSeq(pDH'.Record, first + 1, Len(pDH'.Record))
                 size == IF pDH.batchSize > 0 THEN pDH.batchSize ELSE 0
                 full == IF pDH.EnforceBatch /\ size < Len(answer)
                         THEN size ELSE Len(answer)
             IN /\ Len(page) <= full
                /\ page = SubSeq(answer, 1, Len(page))
                /\ ~lost => Len(page) = full
  <2> DEFINE page == SubSeq(pDH.Record, first + 1, Len(pDH.Record))
             size == IF pDH.batchSize > 0 THEN pDH.batchSize ELSE 0
             full == IF pDH.EnforceBatch /\ size < Len(answer)
                     THEN size ELSE Len(answer)
             n == OnPage(counter)
  <2>1. /\ PageInv
        /\ pDH'.Record = pDH.Record /\ pDH.Record \in Seq(Fetched)
        /\ first \in 0 .. Len(pDH.Record) /\ Len(pDH.Record) - first = n
        /\ counter <= Asked /\ (~lost => counter = Asked)
        /\ counter \in Nat /\ answer \in Seq(Fetched) /\ Len(answer) \in Nat
        /\ pDH.batchSize \in Int /\ pDH.batchSize # 0
    BY <1>1, FindResult
  <2>2. n \in Nat /\ n <= full /\ n <= Len(answer) /\ (~lost => n = full)
    <3>1. pDH.EnforceBatch => pDH.batchSize >= -1
      BY <2>1 DEF PageInv
    <3> QED
      BY <2>1, <3>1 DEF OnPage, Room, Asked
  <2> HIDE DEF n
  <2>3. /\ page \in Seq(Fetched) /\ Len(page) = n
        /\ \A i \in 1 .. n : page[i] = pDH.Record[first + i]
    <3>1. /\ page \in Seq(Fetched) /\ Len(page) = Len(pDH.Record) - first
          /\ \A i \in 1 .. Len(pDH.Record) - first : page[i] = pDH.Record[first + i]
      BY <2>1, SuffixFacts, Zenon
    <3> QED
      BY <2>1, <3>1, Zenon
  <2> HIDE DEF page
  <2>4. \A i \in 1 .. n : pDH.Record[first + i] = answer[i]
    BY <2>1 DEF PageInv, n
  <2>5. /\ SubSeq(answer, 1, n) \in Seq(Fetched) /\ Len(SubSeq(answer, 1, n)) = n
        /\ \A i \in 1 .. n : SubSeq(answer, 1, n)[i] = answer[i]
    <3>1. n \in 0 .. Len(answer)
      BY <2>1, <2>2
    <3> QED
      BY <2>1, <3>1, PrefixFacts, Zenon
  <2>6. page = SubSeq(answer, 1, n)
    <3> DEFINE prefix == SubSeq(answer, 1, n)
    <3>1. prefix \in Seq(Fetched) /\ Len(prefix) = n /\ \A i \in 1 .. n : prefix[i] = answer[i]
      BY <2>5
    <3> HIDE DEF prefix
    <3>2. page = prefix
      BY <2>3, <2>4, <3>1, SequencesEqual
    <3> QED
      BY <3>2 DEF prefix
  <2>7. page = SubSeq(pDH'.Record, first + 1, Len(pDH'.Record))
    BY <2>1 DEF page
  <2>8. /\ Len(page) <= full
        /\ page = SubSeq(answer, 1, Len(page))
        /\ ~lost => Len(page) = full
    BY <2>2, <2>3, <2>6, Zenon
  <2> QED
    BY <2>7, <2>8, Zenon
<1>2. IInv /\ [Next]_vars =>
        [FindReturns =>
          LET page == SubSeq(pDH'.Record, first + 1, Len(pDH'.Record))
              size == IF pDH.batchSize > 0 THEN pDH.batchSize ELSE 0
              full == IF pDH.EnforceBatch /\ size < Len(answer)
                      THEN size ELSE Len(answer)
          IN /\ Len(page) <= full
             /\ page = SubSeq(answer, 1, Len(page))
             /\ ~lost => Len(page) = full]_vars
  BY <1>1, Zenon
<1> QED
  BY <1>2, Invariance, PTL DEF Spec, PageIsPrefix

\* The first page that a handler lists says truly whether there is more: its
\* RecordNextIdx is the key of the first row after the page, or nil.
THEOREM NextIsTrue == Spec => NextFollowsPage
<1>1. ASSUME IInv, [Next]_vars, FindReturns, pDH.EnforceBatch, first = 0
      PROVE  LET n == Len(pDH'.Record)
             IN pDH'.RecordNextIdx =
                   IF lost \/ pDH.batchSize < 0 \/ n = Len(answer)
                   THEN Nil ELSE NextIdx(answer[n + 1])
  <2> DEFINE n == Len(pDH.Record)
  <2>1. /\ PageInv
        /\ pDH'.Record = pDH.Record /\ pDH.Record \in Seq(Fetched)
        /\ pDH'.RecordNextIdx = IF HasMore THEN NextIdx(row) ELSE pDH.RecordNextIdx
        /\ Len(pDH.Record) - first = OnPage(counter)
        /\ counter <= Asked /\ (~lost => counter = Asked)
        /\ counter \in Nat /\ answer \in Seq(Fetched) /\ Len(answer) \in Nat
        /\ pDH.batchSize \in Int /\ pDH.batchSize # 0
    BY <1>1, FindResult
  <2>2. n \in Nat /\ n = OnPage(counter)
    BY <1>1, <2>1
  <2>3. pDH.RecordNextIdx = Nil /\ (counter > 0 => row = answer[counter])
        /\ (lost => counter <= pDH.batchSize) /\ pDH.batchSize >= -1
    BY <1>1, <2>1 DEF PageInv
  <2> HIDE DEF n
  <2>4. CASE lost
    BY <2>1, <2>3, <2>4 DEF HasMore
  <2>5. CASE pDH.batchSize < 0
    <3>1. Asked <= 0
      BY <1>1, <2>1, <2>3, <2>5 DEF Asked
    <3>2. ~HasMore
      BY <2>1, <3>1 DEF HasMore, Asked
    <3> QED
      BY <2>1, <2>3, <2>5, <3>2
  <2>6. CASE ~lost /\ pDH.batchSize > 0 /\ Len(answer) <= pDH.batchSize
    <3>1. counter = Len(answer) /\ n = Len(answer) /\ ~HasMore
      BY <1>1, <2>1, <2>2, <2>6 DEF OnPage, Room, Asked, HasMore
    <3> QED
      BY <2>1, <2>3, <3>1, <2>6 DEF n
  <2>7. CASE ~lost /\ pDH.batchSize > 0 /\ Len(answer) > pDH.batchSize
    <3>1. counter = n + 1 /\ n # Len(answer) /\ HasMore /\ counter > 0
      BY <1>1, <2>1, <2>2, <2>7 DEF OnPage, Room, Asked, HasMore
    <3> QED
      BY <2>1, <2>3, <3>1, <2>7 DEF n
  <2> QED
    BY <2>1, <2>4, <2>5, <2>6, <2>7
<1>2. IInv /\ [Next]_vars =>
        [FindReturns /\ pDH.EnforceBatch /\ first = 0 =>
          LET n == Len(pDH'.Record)
          IN pDH'.RecordNextIdx =
                IF lost \/ pDH.batchSize < 0 \/ n = Len(answer)
                THEN Nil ELSE NextIdx(answer[n + 1])]_vars
  BY <1>1, Zenon
<1> QED
  BY <1>2, Invariance, PTL DEF Spec, NextFollowsPage

\* A statement that is refused, fails or panics leaves the table alone and fetches
\* nothing.
LEMMA RefusedAlone ==
    ASSUME Call, NEW h, Refuse(h) \/ Fault(h) \/ Panic
    PROVE  table' = table /\ pc' \notin {"find", "proc", "insert"}
  BY DEF Call, Refuse, Fault, Panic

\* What a statement of the handler does to the table: rows leave it only through an
\* update or a delete, and only rows that the criteria select.
LEMMA TableStep ==
    ASSUME Next, calls' # calls
    PROVE  table \ table' \subseteq Matching(table, pDH.searchCriteria)
<1>1. CASE Discard
  BY <1>1 DEF Discard
<1>2. ASSUME NEW many \in BOOLEAN, NEW reverse \in BOOLEAN, FindRecord(many, reverse)
      PROVE  table' = table
  BY <1>2, Zenon DEF FindRecord, Refuse, Fault, Panic
<1>3. ASSUME NEW n \in ProcArgs, ExecuteProc(n)
      PROVE  table \subseteq table'
  <2>1. table' = table \/ \E r \in Rows : table' = table \cup {r}
    BY <1>3, Zenon DEF ExecuteProc, Refuse, Fault
  <2> QED
    BY <2>1
<1>4. ASSUME NEW m \in Replacements, UpdateRecord(m)
      PROVE  table \ table' \subseteq Matching(table, pDH.searchCriteria)
  <2>1. table' = table \/ \E S : table' = (table \ Matching(table, pDH.searchCriteria)) \cup S
    BY <1>4, Zenon DEF UpdateRecord, Refuse, Fault, Panic, Execute
  <2> QED
    BY <2>1
<1>5. ASSUME DeleteRecord
      PROVE  table \ table' \subseteq Matching(table, pDH.searchCriteria)
  <2>1. table' = table \/ table' = table \ Matching(table, pDH.searchCriteria)
    BY <1>5, Zenon DEF DeleteRecord, Refuse, Fault, Panic, Execute
  <2> QED
    BY <2>1
<1>6. ASSUME NEW m \in Records, NEW modified \in BOOLEAN, InsertRecord(m, modified)
      PROVE  table \subseteq table'
  <2>1. table' = table \/ \E r : table' = table \cup {r}
    BY <1>6, Zenon DEF InsertRecord, Refuse, Fault, Execute
  <2> QED
    BY <2>1
<1>7. ~NewPostgresDataHandler
  BY DEF NewPostgresDataHandler
<1>8. ~(\/ \E b \in BatchSizes : SetBatchSize(b)
        \/ \E f \in Fields : SetProjection({f})
        \/ \E m \in Criteria : SetFindCriteria(m)
        \/ ClearEnforceBatch)
  <2>1. ASSUME NEW h, NEW failed
        PROVE  ~Setting(h, failed)
    BY DEF Setting
  <2> QED
    BY <2>1, Zenon DEF SetBatchSize, SetProjection, SetFindCriteria, ClearEnforceBatch
<1>9. ~FetchRow /\ ~LoseConnection /\ ~FetchDone /\ ~OtherWrite
  BY DEF FetchRow, LoseConnection, FetchDone, OtherWrite
<1> QED
  BY <1>1, <1>2, <1>3, <1>4, <1>5, <1>6, <1>7, <1>8, <1>9 DEF Next

\* With a value for every part of the key, no operation of the handler changes or
\* deletes another row than the one of that key.
THEOREM WritesAreKeyed == Spec => KeyedWrite
<1>1. ASSUME [Next]_vars, calls' # calls,
             Range(primaryKey) \subseteq Bound(pDH.searchCriteria),
             NEW r \in table \ table', NEW f \in Range(primaryKey)
      PROVE  r[f] = pDH.searchCriteria[f]
  <2>1. Next
    BY <1>1 DEF vars
  <2>2. r \in Matching(table, pDH.searchCriteria)
    BY <1>1, <2>1, TableStep
  <2> QED
    BY <1>1, <2>2 DEF Matching
<1>2. [Next]_vars =>
        [/\ calls' # calls
         /\ Range(primaryKey) \subseteq Bound(pDH.searchCriteria)
         => \A r \in table \ table' :
               \A f \in Range(primaryKey) : r[f] = pDH.searchCriteria[f]]_vars
  BY <1>1, Zenon
<1> QED
  BY <1>2, PTL DEF Spec, KeyedWrite

\* A statement that is executed is the first of its handler that has arguments, or an
\* insert before any other insert.
LEMMA StatementsSpend ==
    ASSUME IInv, Next, Succeeds
    PROVE  pDH.dmlType = Unset /\ (pDH.dmlArguments = 0 \/ pDH'.dmlType = "insert")
<1>1. pDH.dmlArguments = 0 => pDH.dmlType = Unset
  BY DEF IInv, TypeOK, HandlerInv, Handlers
<1>2. calls' > calls /\ calls \in Nat /\ calls' # calls
      /\ (table' # table \/ pc' \in {"find", "proc", "insert"})
  BY DataHandlerAssumption DEF Succeeds, IInv, TypeOK
<1>3. ASSUME Call, NEW h, Refuse(h) \/ Fault(h) \/ Panic
      PROVE  FALSE
  BY <1>2, <1>3, RefusedAlone
<1>4. ASSUME NEW many \in BOOLEAN, NEW reverse \in BOOLEAN, FindRecord(many, reverse)
      PROVE  pDH.dmlArguments = 0
  BY <1>3, <1>4, Zenon DEF FindRecord, FindIsAccepted, ArgumentsFit
<1>5. ASSUME NEW n \in ProcArgs, ExecuteProc(n)
      PROVE  pDH.dmlArguments = 0
  BY <1>3, <1>5, Zenon DEF ExecuteProc, ArgumentsFit
<1>6. ASSUME NEW m \in Replacements, UpdateRecord(m)
      PROVE  pDH.dmlArguments = 0
  BY <1>3, <1>6, Zenon DEF UpdateRecord, ArgumentsFit
<1>7. ASSUME DeleteRecord
      PROVE  pDH.dmlArguments = 0
  BY <1>3, <1>7, Zenon DEF DeleteRecord, ArgumentsFit
<1>8. ASSUME NEW m \in Records, NEW modified \in BOOLEAN, InsertRecord(m, modified)
      PROVE  pDH.dmlType = Unset /\ pDH'.dmlType = "insert"
  <2> DEFINE staged == [pDH EXCEPT !.dmlType = "insert",
                                   !.dmlArguments = Cardinality(DOMAIN m)]
  <2>1. ~Staged /\ pDH' = staged
    BY <1>3, <1>8, Zenon DEF InsertRecord, Execute
  <2>2. staged.dmlType = "insert"
    BY DEF IInv, TypeOK, Handlers
  <2> QED
    BY <2>1, <2>2 DEF Staged
<1>9. ~NewPostgresDataHandler
  BY <1>2 DEF NewPostgresDataHandler
<1>10. ~Discard
  BY <1>2 DEF Discard
<1>11. ~(\/ \E b \in BatchSizes : SetBatchSize(b)
         \/ \E f \in Fields : SetProjection({f})
         \/ \E m \in Criteria : SetFindCriteria(m)
         \/ ClearEnforceBatch)
  <2>1. ASSUME NEW h, NEW failed
        PROVE  ~Setting(h, failed)
    BY <1>2 DEF Setting
  <2> QED
    BY <2>1, Zenon DEF SetBatchSize, SetProjection, SetFindCriteria, ClearEnforceBatch
<1>12. ~FetchRow /\ ~LoseConnection /\ ~FetchDone /\ ~OtherWrite
  BY <1>2 DEF FetchRow, LoseConnection, FetchDone, OtherWrite
<1> QED
  BY <1>1, <1>4, <1>5, <1>6, <1>7, <1>8, <1>9, <1>10, <1>11, <1>12 DEF Next

\* A handler executes one statement that has arguments; after it only an insert is
\* accepted, and after an insert nothing.
THEOREM HandlersAreSpent == Spec => SpentHandler
<1>1. ASSUME IInv, [Next]_vars, Succeeds
      PROVE  pDH.dmlType = Unset /\ (pDH.dmlArguments = 0 \/ pDH'.dmlType = "insert")
  <2>1. Next
    <3>1. ~UNCHANGED vars
      BY <1>1, DataHandlerAssumption DEF vars, Succeeds, IInv, TypeOK
    <3> QED
      BY <1>1, <3>1
  <2> QED
    BY <1>1, <2>1, StatementsSpend
<1>2. IInv /\ [Next]_vars =>
        [Succeeds => /\ pDH.dmlType = Unset
                     /\ pDH.dmlArguments = 0 \/ pDH'.dmlType = "insert"]_vars
  BY <1>1, Zenon
<1> QED
  BY <1>2, Invariance, PTL DEF Spec, SpentHandler

=============================================================================

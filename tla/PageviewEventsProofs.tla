------------------------- MODULE PageviewEventsProofs -------------------------
(***************************************************************************)
(* Proofs about the way of a page view to the counters, for any requesters,*)
(* contents and statistics, any Retry.Max, and any number of requests,     *)
(* failures, crashes and restores.                                         *)
(***************************************************************************)
EXTENDS PageviewEvents, FiniteSetTheorems, TLAPS

-----------------------------------------------------------------------------
(* The inductive invariant                                                 *)

\* The places of the sequence s at which m is, counted from 0
Places(s, m) == {o \in 0 .. Len(s) - 1 : s[o + 1] = m}

\* Of request q: the answer 204 that is due for a message of content m
Awaited(q, m) == IF q.pc = "appended" /\ q.content = m THEN 1 ELSE 0

\* Of request q: the messages of content m that its attempts may yet put in the topic
Attempts(q, m) ==
    IF q.content = m
    THEN RetryMax + 1 - q.tries + (IF q.pc = "sent" THEN 1 ELSE 0)
    ELSE 0

\* Of request q: the message that is to be appended if nothing fails
Unsent(q) == IF q.pc \in {"send", "sent"} THEN 1 ELSE 0

Pending(q, m) == IF q.content = m THEN Unsent(q) ELSE 0

\* The same of all requests to the Go service
AllAwaited(m) == Sum(GoRequesters, [r \in GoRequesters |-> Awaited(req[r], m)])
AllAttempts(m) == Sum(GoRequesters, [r \in GoRequesters |-> Attempts(req[r], m)])
AllPending(m) == Sum(GoRequesters, [r \in GoRequesters |-> Pending(req[r], m)])
AllUnsent == Sum(GoRequesters, [r \in GoRequesters |-> Unsent(req[r])])

RequestInv(r) ==
    /\ req[r].pc = "idle" => req[r] = NoRequest
    /\ req[r].pc = "send" => req[r].tries <= RetryMax

\* Of one content: what was asked for and what failed pays for what is in the topic,
\* what is on its way there and what may still be sent
ContentInv(m) ==
    LET go == tally["go"][m]
        spring == tally["spring"][m]
    IN  /\ go.confirmed + AllAwaited(m) <= go.copies
        /\ go.copies + stray[m] + AllAttempts(m) <= (1 + RetryMax) * go.accepted
        /\ go.copies + stray[m] + AllPending(m) <= go.accepted + faults
        /\ spring.copies + Cardinality(Places(buffer, m)) <= spring.accepted
        /\ Cardinality(Places(log, m)) = go.copies + spring.copies

\* Of all contents together, with the faults counted once
TopicInv ==
    Len(log) + Sum(Contents, stray) + AllUnsent + Len(buffer)
      <= Total("go", "accepted") + Total("spring", "accepted") + faults

\* A row holds exactly the messages up to its reference, which the consumer could pass
RowInv(row) ==
    /\ \A o \in 0 .. row.ref : log[o + 1] \in Known
    /\ \A m \in Contents :
          row.counts[m] = Cardinality({o \in 0 .. row.ref : log[o + 1] = m})

IInv ==
    /\ TypeOK
    /\ \A r \in Requesters : RequestInv(r)
    /\ \A m \in Contents : ContentInv(m)
    /\ TopicInv
    /\ \A c \in Statistics : RowInv(db[c]) /\ RowInv(backup[c])

-----------------------------------------------------------------------------
(* Sums                                                                    *)

\* A pair is numbered within its value.
LEMMA NumberedMember ==
    ASSUME NEW S, NEW g, NEW p
    PROVE  p \in Numbered(S, g) <=> \E x \in S : \E i \in 1 .. g[x] : p = <<x, i>>
BY DEF Numbered

LEMMA SumType ==
    ASSUME NEW S, IsFiniteSet(S), NEW g \in [S -> Nat]
    PROVE  IsFiniteSet(Numbered(S, g)) /\ Sum(S, g) \in Nat
<1> DEFINE P(x) == {x} \X (1 .. g[x])
           T == {P(x) : x \in S}
           f == [x \in S |-> P(x)]
<1>1. IsFiniteSet(T)
  <2>1. f \in Surjection(S, T)
    <3>1. f \in [S -> T] /\ \A t \in T : \E x \in S : f[x] = t
      OBVIOUS
    <3> QED
      BY <3>1 DEF Surjection
  <2> QED
    BY <2>1, FS_Surjection
<1>2. ASSUME NEW x \in S
      PROVE  IsFiniteSet(P(x))
  <2>1. IsFiniteSet(1 .. g[x]) /\ IsFiniteSet({x})
    <3>1. 1 \in Int /\ g[x] \in Int
      OBVIOUS
    <3> QED
      BY <3>1, FS_Interval, FS_Singleton
  <2>2. \A A, B : IsFiniteSet(A) /\ IsFiniteSet(B) => IsFiniteSet(A \X B)
    BY FS_Product
  <2> QED
    BY <2>1, <2>2, Zenon
<1>3. \A t \in T : IsFiniteSet(t)
  BY <1>2
<1>4. IsFiniteSet(UNION T)
  BY <1>1, <1>3, FS_UNION
<1> QED
  BY <1>4, FS_CardinalityType DEF Numbered, Sum

\* The sum is that of the others and the value of one.
LEMMA SumSplit ==
    ASSUME NEW S, IsFiniteSet(S), NEW g \in [S -> Nat], NEW x \in S
    PROVE  /\ Sum(S, g) = Cardinality(Numbered(S \ {x}, g)) + g[x]
           /\ Cardinality(Numbered(S \ {x}, g)) \in Nat
<1> DEFINE N == Numbered(S, g)
           R == Numbered(S \ {x}, g)
           X == {x} \X (1 .. g[x])
           f == [i \in 1 .. g[x] |-> <<x, i>>]
<1>1. IsFiniteSet(N)
  BY SumType
<1>2. N = R \cup X /\ R \cap X = {}
  BY DEF Numbered
<1>3. IsFiniteSet(R) /\ IsFiniteSet(X)
  BY <1>1, <1>2, FS_Subset
<1>4. Cardinality(X) = g[x]
  <2>1. f \in Bijection(1 .. g[x], X)
    <3>1. /\ f \in [1 .. g[x] -> X]
          /\ \A i, j \in 1 .. g[x] : f[i] = f[j] => i = j
          /\ \A t \in X : \E i \in 1 .. g[x] : f[i] = t
      OBVIOUS
    <3> HIDE DEF f, X
    <3> QED
      BY <3>1 DEF Bijection, Injection, Surjection, IsInjective
  <2>2. ExistsBijection(1 .. g[x], X)
    BY <2>1 DEF ExistsBijection
  <2> QED
    BY <2>2, FS_CountingElements
<1>5. Cardinality(N) = Cardinality(R) + Cardinality(X) - Cardinality(R \cap X)
  BY <1>2, <1>3, FS_Union
<1>6. Cardinality(R \cap X) = 0 /\ Cardinality(R) \in Nat
  BY <1>2, <1>3, FS_EmptySet, FS_CardinalityType
<1> HIDE DEF N, R, X
<1> QED
  BY <1>4, <1>5, <1>6 DEF Sum, N, R

\* One value changes the sum by as much as it changes itself.
LEMMA SumUpdate ==
    ASSUME NEW S, IsFiniteSet(S), NEW g \in [S -> Nat], NEW h \in [S -> Nat], NEW x \in S,
           \A y \in S \ {x} : h[y] = g[y]
    PROVE  /\ Sum(S, h) + g[x] = Sum(S, g) + h[x]
           /\ Sum(S, h) \in Nat /\ Sum(S, g) \in Nat
<1>1. Numbered(S \ {x}, h) = Numbered(S \ {x}, g)
  BY DEF Numbered
<1>2. /\ Sum(S, g) = Cardinality(Numbered(S \ {x}, g)) + g[x]
      /\ Cardinality(Numbered(S \ {x}, g)) \in Nat
  BY SumSplit
<1>3. Sum(S, h) = Cardinality(Numbered(S \ {x}, g)) + h[x]
  BY <1>1, SumSplit
<1>4. g[x] \in Nat /\ h[x] \in Nat
  OBVIOUS
<1> QED
  BY <1>2, <1>3, <1>4

LEMMA SumZero ==
    ASSUME NEW S, NEW g, \A x \in S : g[x] = 0
    PROVE  Sum(S, g) = 0
<1>1. Numbered(S, g) = {}
  BY DEF Numbered
<1> QED
  BY <1>1, FS_EmptySet DEF Sum

\* Those with a value are no more than the sum.
LEMMA SumCounts ==
    ASSUME NEW S, IsFiniteSet(S), NEW g \in [S -> Nat], NEW T \in SUBSET S,
           \A x \in T : g[x] > 0
    PROVE  Cardinality(T) <= Sum(S, g) /\ Cardinality(T) \in Nat
<1> DEFINE f == [x \in T |-> <<x, 1>>]
<1>1. f \in [T -> Numbered(S, g)]
  BY DEF Numbered
<1>2. f \in Injection(T, Numbered(S, g))
  BY <1>1 DEF Injection, IsInjective
<1>3. IsFiniteSet(Numbered(S, g)) /\ IsFiniteSet(T)
  BY SumType, FS_Subset
<1> QED
  BY <1>2, <1>3, FS_Injection, FS_CardinalityType DEF Sum

\* What a crash turns into abandoned attempts are no more than the requests.
LEMMA SumSpread ==
    ASSUME NEW S, IsFiniteSet(S), NEW g \in [S -> Nat], NEW T, IsFiniteSet(T),
           NEW k \in [T -> S], NEW h \in [S -> Nat],
           \A x \in S : h[x] = g[x] + Cardinality({r \in T : k[r] = x})
    PROVE  Sum(S, h) <= Sum(S, g) + Cardinality(T)
<1> DEFINE P(x) == {r \in T : k[r] = x}
           B(x) == CHOOSE b : b \in Bijection(1 .. Cardinality(P(x)), P(x))
           D == Numbered(S, h) \ Numbered(S, g)
           f == [p \in D |-> B(p[1])[p[2] - g[p[1]]]]
<1>1. /\ IsFiniteSet(Numbered(S, h)) /\ IsFiniteSet(Numbered(S, g))
      /\ Sum(S, h) \in Nat /\ Sum(S, g) \in Nat
  BY SumType
<1>2. ASSUME NEW x \in S
      PROVE  B(x) \in Bijection(1 .. Cardinality(P(x)), P(x)) /\ Cardinality(P(x)) \in Nat
  <2>1. IsFiniteSet(P(x))
    BY FS_Subset
  <2>2. Cardinality(P(x)) \in Nat /\ ExistsBijection(1 .. Cardinality(P(x)), P(x))
    BY <2>1, FS_CardinalityType
  <2> QED
    BY <2>2, Zenon DEF ExistsBijection
<1>3. ASSUME NEW x \in S
      PROVE  /\ B(x) \in [1 .. Cardinality(P(x)) -> P(x)]
             /\ \A i, j \in 1 .. Cardinality(P(x)) : B(x)[i] = B(x)[j] => i = j
  <2> DEFINE b == B(x)
             n == Cardinality(P(x))
             Q == P(x)
  <2>1. b \in Bijection(1 .. n, Q)
    BY <1>2
  <2> HIDE DEF b, n, Q
  <2>2. b \in [1 .. n -> Q] /\ \A i, j \in 1 .. n : b[i] = b[j] => i = j
    BY <2>1 DEF Bijection, Injection, IsInjective
  <2> QED
    BY <2>2 DEF b, n, Q
<1>4. ASSUME NEW p \in D
      PROVE  /\ p = <<p[1], p[2]>> /\ p[1] \in S /\ p[2] \in Nat
             /\ p[2] - g[p[1]] \in 1 .. Cardinality(P(p[1]))
  <2>0. PICK x \in S : \E i \in 1 .. h[x] : p = <<x, i>>
    BY NumberedMember
  <2>1. PICK i \in 1 .. h[x] : p = <<x, i>>
    BY <2>0
  <2>2. i \notin 1 .. g[x]
    BY <2>1, NumberedMember
  <2>3. h[x] = g[x] + Cardinality(P(x)) /\ Cardinality(P(x)) \in Nat
        /\ g[x] \in Nat /\ h[x] \in Nat
    BY <1>2
  <2> HIDE DEF P
  <2>4. i - g[x] \in 1 .. Cardinality(P(x)) /\ i \in Nat
    BY <2>1, <2>2, <2>3
  <2> QED
    BY <2>1, <2>4
<1>5. \A x \in S : \A r \in P(x) : r \in T /\ k[r] = x
  OBVIOUS
<1> HIDE DEF B, P, D
<1>6. f \in Injection(D, T)
  <2>1. ASSUME NEW p \in D
        PROVE  B(p[1])[p[2] - g[p[1]]] \in P(p[1])
    <3>1. p[1] \in S /\ p[2] - g[p[1]] \in 1 .. Cardinality(P(p[1]))
      BY <1>4
    <3>2. B(p[1]) \in [1 .. Cardinality(P(p[1])) -> P(p[1])]
      BY <1>3, <3>1
    <3> QED
      BY <3>1, <3>2
  <2>2. \A p \in D : f[p] = B(p[1])[p[2] - g[p[1]]] /\ f[p] \in T /\ k[f[p]] = p[1]
    BY <1>4, <1>5, <2>1
  <2>3. f \in [D -> T]
    BY <2>2
  <2> HIDE DEF f
  <2>4. ASSUME NEW p \in D, NEW q \in D, f[p] = f[q]
        PROVE  p = q
    <3>1. p[1] = q[1]
      BY <2>2, <2>4
    <3>2. /\ p[1] \in S
          /\ p[2] - g[p[1]] \in 1 .. Cardinality(P(p[1]))
          /\ q[2] - g[p[1]] \in 1 .. Cardinality(P(p[1]))
          /\ B(p[1])[p[2] - g[p[1]]] = B(p[1])[q[2] - g[p[1]]]
      BY <1>4, <2>2, <2>4, <3>1
    <3>3. p[2] - g[p[1]] = q[2] - g[p[1]]
      BY <1>3, <3>2
    <3>4. p[2] = q[2]
      <4>1. g[p[1]] \in Nat /\ p[2] \in Nat /\ q[2] \in Nat
        BY <1>4, <3>2
      <4> QED
        BY <3>3, <4>1
    <3> QED
      BY <1>4, <3>1, <3>4, Zenon
  <2> QED
    BY <2>3, <2>4 DEF Injection, IsInjective
<1> HIDE DEF f
<1>7. Cardinality(D) <= Cardinality(T) /\ IsFiniteSet(D)
      /\ Cardinality(D) \in Nat /\ Cardinality(T) \in Nat
  BY <1>6, FS_Injection, FS_CardinalityType
<1>8. Numbered(S, h) \subseteq Numbered(S, g) \cup D
  BY DEF D
<1>9. /\ IsFiniteSet(Numbered(S, g) \cup D)
      /\ Cardinality(Numbered(S, g) \cup D) <= Cardinality(Numbered(S, g)) + Cardinality(D)
  <2>1. IsFiniteSet(Numbered(S, g) \cap D)
    BY <1>1, FS_Intersection
  <2>2. Cardinality(Numbered(S, g) \cap D) \in Nat /\ Cardinality(Numbered(S, g)) \in Nat
    BY <1>1, <2>1, FS_CardinalityType
  <2>3. /\ IsFiniteSet(Numbered(S, g) \cup D)
        /\ Cardinality(Numbered(S, g) \cup D)
             = Cardinality(Numbered(S, g)) + Cardinality(D) - Cardinality(Numbered(S, g) \cap D)
    BY <1>1, <1>7, FS_Union
  <2> QED
    BY <1>7, <2>2, <2>3
<1>10. Cardinality(Numbered(S, h)) <= Cardinality(Numbered(S, g) \cup D)
  BY <1>8, <1>9, FS_Subset
<1>11. Cardinality(Numbered(S, g) \cup D) \in Nat
  BY <1>9, FS_CardinalityType
<1> QED
  BY <1>1, <1>7, <1>9, <1>10, <1>11 DEF Sum

-----------------------------------------------------------------------------
(* Places in a sequence                                                    *)

LEMMA PlacesType ==
    ASSUME NEW s \in Seq(Contents), NEW m
    PROVE  IsFiniteSet(Places(s, m)) /\ Cardinality(Places(s, m)) \in Nat
<1>1. IsFiniteSet(0 .. Len(s) - 1)
  BY FS_Interval
<1>2. Places(s, m) \subseteq 0 .. Len(s) - 1
  BY DEF Places
<1>3. IsFiniteSet(Places(s, m))
  BY <1>1, <1>2, FS_Subset
<1> QED
  BY <1>3, FS_CardinalityType

LEMMA PlacesAppend ==
    ASSUME NEW s \in Seq(Contents), NEW x \in Contents, NEW m
    PROVE  Cardinality(Places(Append(s, x), m)) =
             Cardinality(Places(s, m)) + (IF x = m THEN 1 ELSE 0)
<1>1. /\ Len(s) \in Nat /\ Len(Append(s, x)) = Len(s) + 1
      /\ \A o \in 0 .. Len(s) - 1 : Append(s, x)[o + 1] = s[o + 1]
      /\ Append(s, x)[Len(s) + 1] = x
  OBVIOUS
<1>2. IsFiniteSet(Places(s, m)) /\ Cardinality(Places(s, m)) \in Nat
  BY PlacesType
<1>3. CASE x = m
  <2>1. Places(Append(s, x), m) = Places(s, m) \cup {Len(s)}
    BY <1>1, <1>3 DEF Places
  <2>2. Len(s) \notin Places(s, m)
    BY <1>1 DEF Places
  <2> QED
    BY <1>2, <1>3, <2>1, <2>2, FS_AddElement
<1>4. CASE x # m
  <2>1. Places(Append(s, x), m) = Places(s, m)
    BY <1>1, <1>4 DEF Places
  <2> QED
    BY <1>2, <1>4, <2>1
<1> QED
  BY <1>3, <1>4

LEMMA PlacesTail ==
    ASSUME NEW s \in Seq(Contents), s # <<>>, NEW m
    PROVE  Cardinality(Places(Tail(s), m)) + (IF Head(s) = m THEN 1 ELSE 0) =
             Cardinality(Places(s, m))
<1> DEFINE A == Places(Tail(s), m)
           C == Places(s, m) \ {0}
           f == [o \in A |-> o + 1]
<1>1. /\ Tail(s) \in Seq(Contents) /\ Len(s) \in Nat \ {0} /\ Len(Tail(s)) = Len(s) - 1
      /\ Head(s) = s[1]
      /\ \A o \in 0 .. Len(s) - 2 : Tail(s)[o + 1] = s[o + 2]
  OBVIOUS
<1>2. IsFiniteSet(A) /\ Cardinality(A) \in Nat /\ IsFiniteSet(Places(s, m))
      /\ Cardinality(Places(s, m)) \in Nat
  BY <1>1, PlacesType
<1>3. f \in Bijection(A, C)
  <2>1. \A o \in A : o \in Nat /\ o + 1 \in C
    BY <1>1 DEF Places
  <2>2. \A o \in C : o - 1 \in A /\ o = (o - 1) + 1
    BY <1>1 DEF Places
  <2> HIDE DEF A, C
  <2>3. /\ f \in [A -> C]
        /\ \A o, p \in A : f[o] = f[p] => o = p
        /\ \A c \in C : \E o \in A : f[o] = c
    BY <2>1, <2>2
  <2> HIDE DEF f
  <2> QED
    BY <2>3 DEF Bijection, Injection, Surjection, IsInjective
<1>4. ExistsBijection(A, C)
  BY <1>3 DEF ExistsBijection
<1>5. Cardinality(C) = Cardinality(A)
  BY <1>2, <1>4, FS_Bijection
<1>6. Cardinality(C) = IF 0 \in Places(s, m) THEN Cardinality(Places(s, m)) - 1
                                            ELSE Cardinality(Places(s, m))
  BY <1>2, FS_RemoveElement
<1>7. 0 \in Places(s, m) <=> Head(s) = m
  BY <1>1 DEF Places
<1> HIDE DEF A, C
<1> QED
  BY <1>2, <1>5, <1>6, <1>7 DEF A

-----------------------------------------------------------------------------
(* Types                                                                   *)

Requests ==
    [pc : {"idle", "send", "sent", "appended", "answered"},
     content : Contents \cup {Malformed},
     tries : 0 .. RetryMax + 1,
     status : {"none", "204", "400", "404", "405", "500"}]

Rows(n) == [ref : -1 .. n - 1, counts : [Contents -> Nat]]

Tallies ==
    [{"go", "spring"} -> [Contents -> [accepted : Nat, confirmed : Nat, copies : Nat]]]

\* What the requests, the ledger and the tally must be, one by one.
Placed(q) == q.pc \in {"send", "sent", "appended"} <=> q.content # Malformed

LEMMA TypeParts ==
    TypeOK <=>
      /\ log \in Seq(Contents)
      /\ db \in [Statistics -> Rows(Len(log))] /\ backup \in [Statistics -> Rows(Len(log))]
      /\ req \in [Requesters -> Requests] /\ \A r \in Requesters : Placed(req[r])
      /\ todo \in [Requesters -> 0 .. MaxViews]
      /\ exited \in BOOLEAN
      /\ stray \in [Contents -> Nat]
      /\ buffer \in Seq(Contents)
      /\ tally \in Tallies
      /\ faults \in 0 .. MaxFaults
      /\ crashes \in 0 .. MaxCrashes
      /\ restores \in 0 .. MaxRestores
BY Zenon DEF TypeOK, Requests, Rows, Tallies, Placed

LEMMA NoRequestType ==
    /\ NoRequest \in Requests /\ Placed(NoRequest)
    /\ NoRequest.pc = "idle" /\ NoRequest.tries = 0 /\ NoRequest.content = Malformed
    /\ \A status \in {"204", "400", "404", "405", "500"} :
          /\ Answered(status) \in Requests /\ Placed(Answered(status))
          /\ Answered(status).pc = "answered" /\ Answered(status).content = Malformed
<1>1. 0 \in 0 .. RetryMax + 1
  BY PageviewEventsAssumption
<1>2. /\ NoRequest \in Requests /\ Placed(NoRequest)
      /\ NoRequest.pc = "idle" /\ NoRequest.tries = 0 /\ NoRequest.content = Malformed
  BY <1>1 DEF NoRequest, Requests, Placed
<1>3. ASSUME NEW status \in {"204", "400", "404", "405", "500"}
      PROVE  /\ Answered(status) \in Requests /\ Placed(Answered(status))
             /\ Answered(status).pc = "answered" /\ Answered(status).content = Malformed
  BY <1>1 DEF Answered, Requests, Placed
<1> QED
  BY <1>2, <1>3

\* One request changes.
LEMMA RequestType ==
    ASSUME TypeOK, NEW r \in Requesters, NEW q \in Requests, Placed(q),
           req' = [req EXCEPT ![r] = q]
    PROVE  /\ req' \in [Requesters -> Requests] /\ \A x \in Requesters : Placed(req'[x])
           /\ req'[r] = q /\ \A x \in Requesters \ {r} : req'[x] = req[x]
<1>1. req \in [Requesters -> Requests] /\ \A x \in Requesters : Placed(req[x])
  BY TypeParts
<1>2. \A x \in Requesters : req'[x] = IF x = r THEN q ELSE req[x]
  BY <1>1
<1> QED
  BY <1>1, <1>2

\* A row stays one when the log grows.
LEMMA RowsLonger ==
    ASSUME TypeOK, NEW x \in Contents, log' = Append(log, x), UNCHANGED <<db, backup>>
    PROVE  /\ log' \in Seq(Contents) /\ Len(log') = Len(log) + 1
           /\ db' \in [Statistics -> Rows(Len(log'))]
           /\ backup' \in [Statistics -> Rows(Len(log'))]
<1>1. /\ log \in Seq(Contents) /\ Len(log) \in Nat
      /\ db \in [Statistics -> Rows(Len(log))] /\ backup \in [Statistics -> Rows(Len(log))]
  BY TypeParts
<1>2. log' \in Seq(Contents) /\ Len(log') = Len(log) + 1
  BY <1>1
<1>3. Rows(Len(log)) \subseteq Rows(Len(log'))
  BY <1>1, <1>2 DEF Rows
<1> QED
  BY <1>1, <1>2, <1>3

\* The tally of one service and one content changes.
LEMMA TallyGo ==
    ASSUME tally \in Tallies, NEW x \in Contents
    PROVE  LET accepted == [tally EXCEPT !["go"][x].accepted = @ + 1]
               confirmed == [tally EXCEPT !["go"][x].confirmed = @ + 1]
               copies == [tally EXCEPT !["go"][x].copies = @ + 1]
           IN  /\ {accepted, confirmed, copies} \subseteq Tallies
               /\ \A m \in Contents : \A t \in {accepted, confirmed, copies} :
                    /\ t["spring"][m] = tally["spring"][m]
                    /\ m # x => t["go"][m] = tally["go"][m]
               /\ accepted["go"][x] = [tally["go"][x] EXCEPT !.accepted = @ + 1]
               /\ confirmed["go"][x] = [tally["go"][x] EXCEPT !.confirmed = @ + 1]
               /\ copies["go"][x] = [tally["go"][x] EXCEPT !.copies = @ + 1]
BY DEF Tallies

LEMMA TallySpring ==
    ASSUME tally \in Tallies, NEW x \in Contents
    PROVE  LET accepted == [tally EXCEPT !["spring"][x].accepted = @ + 1,
                                         !["spring"][x].confirmed = @ + 1]
               copies == [tally EXCEPT !["spring"][x].copies = @ + 1]
           IN  /\ {accepted, copies} \subseteq Tallies
               /\ \A m \in Contents : \A t \in {accepted, copies} :
                    /\ t["go"][m] = tally["go"][m]
                    /\ m # x => t["spring"][m] = tally["spring"][m]
               /\ accepted["spring"][x].accepted = tally["spring"][x].accepted + 1
               /\ accepted["spring"][x].copies = tally["spring"][x].copies
               /\ accepted["spring"][x].confirmed = tally["spring"][x].confirmed + 1
               /\ copies["spring"][x] = [tally["spring"][x] EXCEPT !.copies = @ + 1]
<1> DEFINE accepted == [tally EXCEPT !["spring"][x].accepted = @ + 1,
                                     !["spring"][x].confirmed = @ + 1]
           copies == [tally EXCEPT !["spring"][x].copies = @ + 1]
           first == [tally EXCEPT !["spring"][x].accepted = @ + 1]
<1>1. /\ first \in Tallies
      /\ \A m \in Contents : /\ first["go"][m] = tally["go"][m]
                             /\ m # x => first["spring"][m] = tally["spring"][m]
      /\ first["spring"][x] = [tally["spring"][x] EXCEPT !.accepted = @ + 1]
  BY DEF Tallies
<1>2. accepted = [first EXCEPT !["spring"][x].confirmed = @ + 1]
  OBVIOUS
<1>3. /\ copies \in Tallies
      /\ \A m \in Contents : /\ copies["go"][m] = tally["go"][m]
                             /\ m # x => copies["spring"][m] = tally["spring"][m]
      /\ copies["spring"][x] = [tally["spring"][x] EXCEPT !.copies = @ + 1]
  BY DEF Tallies
<1> HIDE DEF first
<1>4. /\ accepted \in Tallies
      /\ \A m \in Contents : /\ accepted["go"][m] = first["go"][m]
                             /\ m # x => accepted["spring"][m] = first["spring"][m]
      /\ accepted["spring"][x] = [first["spring"][x] EXCEPT !.confirmed = @ + 1]
  BY <1>1, <1>2 DEF Tallies
<1>5. /\ accepted["spring"][x].accepted = tally["spring"][x].accepted + 1
      /\ accepted["spring"][x].copies = tally["spring"][x].copies
      /\ accepted["spring"][x].confirmed = tally["spring"][x].confirmed + 1
  BY <1>1, <1>4 DEF Tallies
<1> HIDE DEF accepted, copies
<1> QED
  BY <1>1, <1>3, <1>4, <1>5 DEF accepted, copies

\* What the steps of the Go service make of a request.
LEMMA RequestParts ==
    ASSUME NEW q \in Requests
    PROVE  /\ q.pc \in {"idle", "send", "sent", "appended", "answered"}
           /\ q.content \in Contents \cup {Malformed}
           /\ q.tries \in 0 .. RetryMax + 1
           /\ q.status \in {"none", "204", "400", "404", "405", "500"}
           /\ q = [pc |-> q.pc, content |-> q.content, tries |-> q.tries, status |-> q.status]
           /\ RetryMax \in Nat /\ Malformed \notin Contents
BY PageviewEventsAssumption DEF Requests

LEMMA TakenType ==
    ASSUME NEW q \in Requests, NEW id \in Contents
    PROVE  /\ Taken(q, id) \in Requests /\ Placed(Taken(q, id))
           /\ Taken(q, id).pc = "send" /\ Taken(q, id).content = id
           /\ Taken(q, id).tries = q.tries
<1> DEFINE a == [q EXCEPT !.pc = "send"]
<1>1. a \in Requests /\ a.pc = "send" /\ a.tries = q.tries
  BY RequestParts DEF Requests
<1>2. Taken(q, id) = [a EXCEPT !.content = id]
  BY DEF Taken
<1> HIDE DEF a
<1>3. /\ Taken(q, id) \in Requests /\ Taken(q, id).pc = "send"
      /\ Taken(q, id).content = id /\ Taken(q, id).tries = q.tries
  BY <1>1, <1>2 DEF Requests
<1> QED
  BY <1>3, PageviewEventsAssumption DEF Placed

LEMMA SentType ==
    ASSUME NEW q \in Requests, q.tries <= RetryMax, q.content # Malformed
    PROVE  /\ Sent(q) \in Requests /\ Placed(Sent(q))
           /\ Sent(q).pc = "sent" /\ Sent(q).content = q.content
           /\ Sent(q).tries = q.tries + 1
<1> DEFINE a == [q EXCEPT !.pc = "sent"]
<1>1. a \in Requests /\ a.pc = "sent" /\ a.tries = q.tries /\ a.content = q.content
  BY RequestParts DEF Requests
<1>2. Sent(q) = [a EXCEPT !.tries = @ + 1]
  BY DEF Sent
<1> HIDE DEF a
<1>3. Sent(q).pc = "sent" /\ Sent(q).content = q.content /\ Sent(q).tries = q.tries + 1
  BY <1>1, <1>2 DEF Requests
<1>4. Sent(q) \in Requests
  BY <1>1, <1>2, RequestParts DEF Requests
<1> QED
  BY <1>3, <1>4 DEF Placed

Moved(q, p) == [q EXCEPT !.pc = p]

LEMMA MovedType ==
    ASSUME NEW q \in Requests, q.content # Malformed, NEW p \in {"appended", "send"}
    PROVE  /\ Moved(q, p) \in Requests /\ Placed(Moved(q, p))
           /\ Moved(q, p).pc = p /\ Moved(q, p).content = q.content
           /\ Moved(q, p).tries = q.tries
<1>1. /\ Moved(q, p) \in Requests /\ Moved(q, p).pc = p
      /\ Moved(q, p).content = q.content /\ Moved(q, p).tries = q.tries
  BY RequestParts DEF Requests, Moved
<1> QED
  BY <1>1 DEF Placed

-----------------------------------------------------------------------------
(* What requests may still bring                                           *)

LEMMA WeightType ==
    ASSUME NEW q \in Requests, NEW m
    PROVE  /\ Awaited(q, m) \in Nat /\ Attempts(q, m) \in Nat
           /\ Unsent(q) \in Nat /\ Pending(q, m) \in Nat
BY PageviewEventsAssumption DEF Requests, Awaited, Attempts, Unsent, Pending

\* A request without a message brings nothing.
LEMMA WeightNone ==
    ASSUME NEW q \in Requests, Placed(q), q.pc \in {"idle", "answered"},
           NEW m, m # Malformed
    PROVE  Awaited(q, m) = 0 /\ Attempts(q, m) = 0 /\ Unsent(q) = 0 /\ Pending(q, m) = 0
BY PageviewEventsAssumption DEF Requests, Placed, Awaited, Attempts, Unsent, Pending

LEMMA SumsType ==
    ASSUME TypeOK, NEW m
    PROVE  /\ AllAwaited(m) \in Nat /\ AllAttempts(m) \in Nat /\ AllPending(m) \in Nat
           /\ AllUnsent \in Nat
<1>1. \A r \in GoRequesters : req[r] \in Requests
  BY TypeParts DEF Requesters
<1>2. /\ [r \in GoRequesters |-> Awaited(req[r], m)] \in [GoRequesters -> Nat]
      /\ [r \in GoRequesters |-> Attempts(req[r], m)] \in [GoRequesters -> Nat]
      /\ [r \in GoRequesters |-> Pending(req[r], m)] \in [GoRequesters -> Nat]
      /\ [r \in GoRequesters |-> Unsent(req[r])] \in [GoRequesters -> Nat]
  BY <1>1, WeightType
<1>3. IsFiniteSet(GoRequesters)
  BY PageviewEventsAssumption
<1> QED
  BY <1>2, <1>3, SumType DEF AllAwaited, AllAttempts, AllPending, AllUnsent

LEMMA SumsTypeNext ==
    ASSUME TypeOK', NEW m
    PROVE  /\ AllAwaited(m)' \in Nat /\ AllAttempts(m)' \in Nat /\ AllPending(m)' \in Nat
           /\ AllUnsent' \in Nat
<1>1. \A r \in GoRequesters : req'[r] \in Requests
  BY DEF TypeOK, Requests, Requesters
<1>2. IsFiniteSet(GoRequesters)
  BY PageviewEventsAssumption
<1>3. AllAwaited(m)' \in Nat
  <2> DEFINE h == [r \in GoRequesters |-> Awaited(req'[r], m)]
  <2>1. h \in [GoRequesters -> Nat]
    BY <1>1, WeightType
  <2>2. AllAwaited(m)' = Sum(GoRequesters, h)
    BY DEF AllAwaited
  <2> HIDE DEF h
  <2> QED
    BY <1>2, <2>1, <2>2, SumType
<1>4. AllAttempts(m)' \in Nat
  <2> DEFINE h == [r \in GoRequesters |-> Attempts(req'[r], m)]
  <2>1. h \in [GoRequesters -> Nat]
    BY <1>1, WeightType
  <2>2. AllAttempts(m)' = Sum(GoRequesters, h)
    BY DEF AllAttempts
  <2> HIDE DEF h
  <2> QED
    BY <1>2, <2>1, <2>2, SumType
<1>5. AllPending(m)' \in Nat
  <2> DEFINE h == [r \in GoRequesters |-> Pending(req'[r], m)]
  <2>1. h \in [GoRequesters -> Nat]
    BY <1>1, WeightType
  <2>2. AllPending(m)' = Sum(GoRequesters, h)
    BY DEF AllPending
  <2> HIDE DEF h
  <2> QED
    BY <1>2, <2>1, <2>2, SumType
<1>6. AllUnsent' \in Nat
  <2> DEFINE h == [r \in GoRequesters |-> Unsent(req'[r])]
  <2>1. h \in [GoRequesters -> Nat]
    BY <1>1, WeightType
  <2>2. AllUnsent' = Sum(GoRequesters, h)
    BY DEF AllUnsent
  <2> HIDE DEF h
  <2> QED
    BY <1>2, <2>1, <2>2, SumType
<1> QED
  BY <1>3, <1>4, <1>5, <1>6

\* When one request changes, the sums change with it.
LEMMA SumsUpdate ==
    ASSUME TypeOK, TypeOK', NEW r \in GoRequesters, NEW m,
           \A x \in GoRequesters \ {r} : req'[x] = req[x]
    PROVE  /\ AllAwaited(m)' + Awaited(req[r], m) = AllAwaited(m) + Awaited(req'[r], m)
           /\ AllAttempts(m)' + Attempts(req[r], m) = AllAttempts(m) + Attempts(req'[r], m)
           /\ AllPending(m)' + Pending(req[r], m) = AllPending(m) + Pending(req'[r], m)
           /\ AllUnsent' + Unsent(req[r]) = AllUnsent + Unsent(req'[r])
<1>1. \A x \in GoRequesters : req[x] \in Requests /\ req'[x] \in Requests
  BY DEF TypeOK, Requests, Requesters
<1>2. IsFiniteSet(GoRequesters)
  BY PageviewEventsAssumption
<1>3. AllAwaited(m)' + Awaited(req[r], m) = AllAwaited(m) + Awaited(req'[r], m)
  <2> DEFINE g == [x \in GoRequesters |-> Awaited(req[x], m)]
             h == [x \in GoRequesters |-> Awaited(req'[x], m)]
  <2>1. g \in [GoRequesters -> Nat] /\ h \in [GoRequesters -> Nat]
    BY <1>1, WeightType
  <2>2. /\ \A x \in GoRequesters \ {r} : h[x] = g[x]
        /\ g[r] = Awaited(req[r], m) /\ h[r] = Awaited(req'[r], m)
    OBVIOUS
  <2>3. AllAwaited(m) = Sum(GoRequesters, g) /\ AllAwaited(m)' = Sum(GoRequesters, h)
    BY DEF AllAwaited
  <2> HIDE DEF g, h
  <2> QED
    BY <1>2, <2>1, <2>2, <2>3, SumUpdate
<1>4. AllAttempts(m)' + Attempts(req[r], m) = AllAttempts(m) + Attempts(req'[r], m)
  <2> DEFINE g == [x \in GoRequesters |-> Attempts(req[x], m)]
             h == [x \in GoRequesters |-> Attempts(req'[x], m)]
  <2>1. g \in [GoRequesters -> Nat] /\ h \in [GoRequesters -> Nat]
    BY <1>1, WeightType
  <2>2. /\ \A x \in GoRequesters \ {r} : h[x] = g[x]
        /\ g[r] = Attempts(req[r], m) /\ h[r] = Attempts(req'[r], m)
    OBVIOUS
  <2>3. AllAttempts(m) = Sum(GoRequesters, g) /\ AllAttempts(m)' = Sum(GoRequesters, h)
    BY DEF AllAttempts
  <2> HIDE DEF g, h
  <2> QED
    BY <1>2, <2>1, <2>2, <2>3, SumUpdate
<1>5. AllPending(m)' + Pending(req[r], m) = AllPending(m) + Pending(req'[r], m)
  <2> DEFINE g == [x \in GoRequesters |-> Pending(req[x], m)]
             h == [x \in GoRequesters |-> Pending(req'[x], m)]
  <2>1. g \in [GoRequesters -> Nat] /\ h \in [GoRequesters -> Nat]
    BY <1>1, WeightType
  <2>2. /\ \A x \in GoRequesters \ {r} : h[x] = g[x]
        /\ g[r] = Pending(req[r], m) /\ h[r] = Pending(req'[r], m)
    OBVIOUS
  <2>3. AllPending(m) = Sum(GoRequesters, g) /\ AllPending(m)' = Sum(GoRequesters, h)
    BY DEF AllPending
  <2> HIDE DEF g, h
  <2> QED
    BY <1>2, <2>1, <2>2, <2>3, SumUpdate
<1>6. AllUnsent' + Unsent(req[r]) = AllUnsent + Unsent(req'[r])
  <2> DEFINE g == [x \in GoRequesters |-> Unsent(req[x])]
             h == [x \in GoRequesters |-> Unsent(req'[x])]
  <2>1. g \in [GoRequesters -> Nat] /\ h \in [GoRequesters -> Nat]
    BY <1>1, WeightType
  <2>2. /\ \A x \in GoRequesters \ {r} : h[x] = g[x]
        /\ g[r] = Unsent(req[r]) /\ h[r] = Unsent(req'[r])
    OBVIOUS
  <2>3. AllUnsent = Sum(GoRequesters, g) /\ AllUnsent' = Sum(GoRequesters, h)
    BY DEF AllUnsent
  <2> HIDE DEF g, h
  <2> QED
    BY <1>2, <2>1, <2>2, <2>3, SumUpdate
<1> QED
  BY <1>3, <1>4, <1>5, <1>6

\* They stay when the requests to the Go service do, and a crash leaves none.
LEMMA SumsSame ==
    ASSUME NEW m, \A x \in GoRequesters : req'[x] = req[x]
    PROVE  /\ AllAwaited(m)' = AllAwaited(m) /\ AllAttempts(m)' = AllAttempts(m)
           /\ AllPending(m)' = AllPending(m) /\ AllUnsent' = AllUnsent
<1>1. /\ [x \in GoRequesters |-> Awaited(req'[x], m)]
           = [x \in GoRequesters |-> Awaited(req[x], m)]
      /\ [x \in GoRequesters |-> Attempts(req'[x], m)]
           = [x \in GoRequesters |-> Attempts(req[x], m)]
      /\ [x \in GoRequesters |-> Pending(req'[x], m)]
           = [x \in GoRequesters |-> Pending(req[x], m)]
      /\ [x \in GoRequesters |-> Unsent(req'[x])] = [x \in GoRequesters |-> Unsent(req[x])]
  OBVIOUS
<1> QED
  BY <1>1, Zenon DEF AllAwaited, AllAttempts, AllPending, AllUnsent

LEMMA SumsNone ==
    ASSUME NEW m, m # Malformed, \A x \in GoRequesters : req'[x] = NoRequest
    PROVE  AllAwaited(m)' = 0 /\ AllAttempts(m)' = 0 /\ AllPending(m)' = 0 /\ AllUnsent' = 0
<1>1. /\ Awaited(NoRequest, m) = 0 /\ Attempts(NoRequest, m) = 0
      /\ Pending(NoRequest, m) = 0 /\ Unsent(NoRequest) = 0
  BY NoRequestType, WeightNone
<1>2. /\ \A x \in GoRequesters : [y \in GoRequesters |-> Awaited(req'[y], m)][x] = 0
      /\ \A x \in GoRequesters : [y \in GoRequesters |-> Attempts(req'[y], m)][x] = 0
      /\ \A x \in GoRequesters : [y \in GoRequesters |-> Pending(req'[y], m)][x] = 0
      /\ \A x \in GoRequesters : [y \in GoRequesters |-> Unsent(req'[y])][x] = 0
  BY <1>1
<1> QED
  BY <1>2, SumZero DEF AllAwaited, AllAttempts, AllPending, AllUnsent

-----------------------------------------------------------------------------
(* What the steps have in common                                           *)

\* Every number of the invariant is one.
LEMMA Numbers ==
    ASSUME TypeOK, NEW m \in Contents
    PROVE  /\ tally["go"][m].accepted \in Nat /\ tally["go"][m].confirmed \in Nat
           /\ tally["go"][m].copies \in Nat
           /\ tally["spring"][m].accepted \in Nat /\ tally["spring"][m].copies \in Nat
           /\ stray[m] \in Nat /\ faults \in Nat /\ RetryMax \in Nat
           /\ Cardinality(Places(log, m)) \in Nat /\ Cardinality(Places(buffer, m)) \in Nat
           /\ (1 + RetryMax) * tally["go"][m].accepted \in Nat
<1>1. /\ log \in Seq(Contents) /\ buffer \in Seq(Contents) /\ tally \in Tallies
      /\ stray \in [Contents -> Nat] /\ faults \in 0 .. MaxFaults
  BY TypeParts
<1>2. /\ tally["go"][m].accepted \in Nat /\ tally["go"][m].confirmed \in Nat
      /\ tally["go"][m].copies \in Nat
      /\ tally["spring"][m].accepted \in Nat /\ tally["spring"][m].copies \in Nat
  BY <1>1 DEF Tallies
<1>3. /\ Cardinality(Places(log, m)) \in Nat /\ Cardinality(Places(buffer, m)) \in Nat
  BY <1>1, PlacesType
<1>4. \A a, b \in Nat : (1 + a) * b \in Nat
  OBVIOUS
<1> QED
  BY <1>1, <1>2, <1>3, <1>4, PageviewEventsAssumption

\* A content that a step is not about.
LEMMA ContentSame ==
    ASSUME TypeOK, NEW m \in Contents, ContentInv(m),
           tally'["go"][m] = tally["go"][m], tally'["spring"][m] = tally["spring"][m],
           stray'[m] = stray[m], faults' = faults \/ faults' = faults + 1,
           AllAwaited(m)' = AllAwaited(m), AllAttempts(m)' = AllAttempts(m),
           AllPending(m)' = AllPending(m),
           Cardinality(Places(buffer', m)) = Cardinality(Places(buffer, m)),
           Cardinality(Places(log', m)) = Cardinality(Places(log, m))
    PROVE  ContentInv(m)'
<1>1. AllAwaited(m) \in Nat /\ AllAttempts(m) \in Nat /\ AllPending(m) \in Nat
  BY SumsType
<1> QED
  BY <1>1, Numbers DEF ContentInv

\* A request that neither had nor gets a message leaves the sums alone.
LEMMA QuietRequest ==
    ASSUME TypeOK, TypeOK', NEW r \in Requesters, NEW m, m # Malformed,
           \A x \in Requesters \ {r} : req'[x] = req[x],
           req[r].pc \in {"idle", "answered"}, req'[r].pc \in {"idle", "answered"}
    PROVE  /\ AllAwaited(m)' = AllAwaited(m) /\ AllAttempts(m)' = AllAttempts(m)
           /\ AllPending(m)' = AllPending(m) /\ AllUnsent' = AllUnsent
<1>1. CASE r \in GoRequesters
  <2>1. /\ req[r] \in Requests /\ Placed(req[r])
        /\ req'[r] \in Requests /\ Placed(req'[r])
    BY DEF TypeOK, Requests, Placed
  <2>2. /\ AllAwaited(m) \in Nat /\ AllAttempts(m) \in Nat /\ AllPending(m) \in Nat
        /\ AllUnsent \in Nat
    BY SumsType
  <2>3. /\ AllAwaited(m)' + 0 = AllAwaited(m) + 0
        /\ AllAttempts(m)' + 0 = AllAttempts(m) + 0
        /\ AllPending(m)' + 0 = AllPending(m) + 0
        /\ AllUnsent' + 0 = AllUnsent + 0
    <3>1. /\ Awaited(req[r], m) = 0 /\ Attempts(req[r], m) = 0
          /\ Pending(req[r], m) = 0 /\ Unsent(req[r]) = 0
      BY <2>1, WeightNone
    <3>2. /\ Awaited(req'[r], m) = 0 /\ Attempts(req'[r], m) = 0
          /\ Pending(req'[r], m) = 0 /\ Unsent(req'[r]) = 0
      BY <2>1, WeightNone
    <3>3. \A x \in GoRequesters \ {r} : req'[x] = req[x]
      BY DEF Requesters
    <3>4. /\ AllAwaited(m)' + Awaited(req[r], m) = AllAwaited(m) + Awaited(req'[r], m)
          /\ AllAttempts(m)' + Attempts(req[r], m) = AllAttempts(m) + Attempts(req'[r], m)
          /\ AllPending(m)' + Pending(req[r], m) = AllPending(m) + Pending(req'[r], m)
          /\ AllUnsent' + Unsent(req[r]) = AllUnsent + Unsent(req'[r])
      BY <1>1, <3>3, SumsUpdate
    <3> QED
      BY <3>1, <3>2, <3>4
  <2>4. /\ AllAwaited(m)' \in Nat /\ AllAttempts(m)' \in Nat /\ AllPending(m)' \in Nat
        /\ AllUnsent' \in Nat
    BY SumsTypeNext
  <2>5. \A a, b \in Nat : a + 0 = b + 0 => a = b
    OBVIOUS
  <2> QED
    BY <2>2, <2>3, <2>4, <2>5, Zenon
<1>2. CASE r \notin GoRequesters
  <2>1. \A x \in GoRequesters : req'[x] = req[x]
    BY <1>2 DEF Requesters
  <2> QED
    BY <2>1, SumsSame
<1> QED
  BY <1>1, <1>2

\* The totals follow the tally.
LEMMA TotalType ==
    ASSUME TypeOK, NEW s \in {"go", "spring"}
    PROVE  Total(s, "accepted") \in Nat
<1>1. tally \in Tallies /\ IsFiniteSet(Contents)
  BY TypeParts, PageviewEventsAssumption
<1>2. [m \in Contents |-> tally[s][m]["accepted"]] \in [Contents -> Nat]
  BY <1>1 DEF Tallies
<1> QED
  BY <1>1, <1>2, SumType DEF Total

LEMMA TotalUpdate ==
    ASSUME tally \in Tallies, tally' \in Tallies, NEW s \in {"go", "spring"},
           NEW x \in Contents, tally'[s][x].accepted = tally[s][x].accepted + 1,
           \A m \in Contents \ {x} : tally'[s][m].accepted = tally[s][m].accepted
    PROVE  Total(s, "accepted")' = Total(s, "accepted") + 1
<1> DEFINE g == [m \in Contents |-> tally[s][m]["accepted"]]
           h == [m \in Contents |-> tally'[s][m]["accepted"]]
<1>1. g \in [Contents -> Nat] /\ h \in [Contents -> Nat]
  BY DEF Tallies
<1>2. h[x] = g[x] + 1 /\ \A m \in Contents \ {x} : h[m] = g[m]
  OBVIOUS
<1>3. Total(s, "accepted") = Sum(Contents, g) /\ Total(s, "accepted")' = Sum(Contents, h)
  BY DEF Total
<1>4. IsFiniteSet(Contents)
  BY PageviewEventsAssumption
<1> HIDE DEF g, h
<1>5. /\ Sum(Contents, h) + g[x] = Sum(Contents, g) + h[x]
      /\ Sum(Contents, h) \in Nat /\ Sum(Contents, g) \in Nat
  BY <1>1, <1>2, <1>4, SumUpdate
<1>6. g[x] \in Nat
  BY <1>1
<1> QED
  BY <1>2, <1>3, <1>5, <1>6

LEMMA TotalSame ==
    ASSUME NEW s, \A m \in Contents : tally'[s][m].accepted = tally[s][m].accepted
    PROVE  Total(s, "accepted")' = Total(s, "accepted")
<1>1. [m \in Contents |-> tally'[s][m]["accepted"]]
        = [m \in Contents |-> tally[s][m]["accepted"]]
  OBVIOUS
<1> QED
  BY <1>1, Zenon DEF Total

LEMMA TopicNumbers ==
    ASSUME TypeOK
    PROVE  /\ Len(log) \in Nat /\ Len(buffer) \in Nat /\ AllUnsent \in Nat
           /\ Sum(Contents, stray) \in Nat /\ faults \in Nat
           /\ Total("go", "accepted") \in Nat /\ Total("spring", "accepted") \in Nat
<1>1. /\ log \in Seq(Contents) /\ buffer \in Seq(Contents) /\ stray \in [Contents -> Nat]
      /\ faults \in 0 .. MaxFaults
  BY TypeParts
<1>2. Len(log) \in Nat /\ Len(buffer) \in Nat /\ faults \in Nat
  BY <1>1
<1>3. Sum(Contents, stray) \in Nat
  <2>1. IsFiniteSet(Contents)
    BY PageviewEventsAssumption
  <2> QED
    BY <1>1, <2>1, SumType
<1>4. AllUnsent \in Nat
  BY SumsType
<1>5. Total("go", "accepted") \in Nat /\ Total("spring", "accepted") \in Nat
  BY TotalType
<1> QED
  BY <1>2, <1>3, <1>4, <1>5

\* The parts of the next state.
LEMMA TypeNext ==
    ASSUME log' \in Seq(Contents),
           db' \in [Statistics -> Rows(Len(log'))],
           backup' \in [Statistics -> Rows(Len(log'))],
           req' \in [Requesters -> Requests], \A r \in Requesters : Placed(req'[r]),
           todo' \in [Requesters -> 0 .. MaxViews],
           exited' \in BOOLEAN,
           stray' \in [Contents -> Nat],
           buffer' \in Seq(Contents),
           tally' \in Tallies,
           faults' \in 0 .. MaxFaults,
           crashes' \in 0 .. MaxCrashes,
           restores' \in 0 .. MaxRestores
    PROVE  TypeOK'
BY Zenon DEF TypeOK, Requests, Rows, Tallies, Placed

\* The request that changes is either none or may be sent.
LEMMA RequestsNext ==
    ASSUME TypeOK, \A x \in Requesters : RequestInv(x),
           NEW r \in Requesters, NEW q \in Requests, Placed(q),
           req' = [req EXCEPT ![r] = q],
           q.pc = "idle" => q = NoRequest, q.pc = "send" => q.tries <= RetryMax
    PROVE  \A x \in Requesters : RequestInv(x)'
<1>1. req'[r] = q /\ \A x \in Requesters \ {r} : req'[x] = req[x]
  BY RequestType
<1>2. ASSUME NEW x \in Requesters
      PROVE  RequestInv(x)'
  <2>1. CASE x = r
    BY <1>1, <2>1 DEF RequestInv, NoRequest
  <2>2. CASE x # r
    <3>1. req'[x] = req[x] /\ RequestInv(x)
      BY <1>1, <2>2
    <3> QED
      BY <3>1, Zenon DEF RequestInv, NoRequest
  <2> QED
    BY <2>1, <2>2
<1> QED
  BY <1>2

\* The rows follow the log when it stays and when it grows.
LEMMA RowsSame ==
    ASSUME \A c \in Statistics : RowInv(db[c]) /\ RowInv(backup[c]), UNCHANGED ledgerVars
    PROVE  \A c \in Statistics : (RowInv(db[c]) /\ RowInv(backup[c]))'
BY DEF ledgerVars, RowInv

LEMMA RowAppend ==
    ASSUME log \in Seq(Contents), NEW x \in Contents, log' = Append(log, x),
           NEW row \in Rows(Len(log)), RowInv(row)
    PROVE  /\ \A o \in 0 .. row.ref : log'[o + 1] \in Known
           /\ \A m \in Contents :
                 row.counts[m] = Cardinality({o \in 0 .. row.ref : log'[o + 1] = m})
<1>1. row.ref \in -1 .. Len(log) - 1 /\ Len(log) \in Nat
  BY DEF Rows
<1>2. \A o \in 0 .. row.ref : log'[o + 1] = log[o + 1]
  BY <1>1
<1>3. \A m \in Contents : {o \in 0 .. row.ref : log'[o + 1] = m}
                             = {o \in 0 .. row.ref : log[o + 1] = m}
  BY <1>2
<1> QED
  BY <1>2, <1>3 DEF RowInv

LEMMA RowsAppend ==
    ASSUME TypeOK, \A c \in Statistics : RowInv(db[c]) /\ RowInv(backup[c]),
           NEW x \in Contents, AppendToLog(x)
    PROVE  \A c \in Statistics : (RowInv(db[c]) /\ RowInv(backup[c]))'
<1>1. /\ log \in Seq(Contents) /\ log' = Append(log, x) /\ db' = db /\ backup' = backup
      /\ \A c \in Statistics : db[c] \in Rows(Len(log)) /\ backup[c] \in Rows(Len(log))
  BY TypeParts DEF AppendToLog
<1>2. ASSUME NEW c \in Statistics
      PROVE  (RowInv(db[c]) /\ RowInv(backup[c]))'
  <2>1. RowInv(db[c])'
    <3>1. /\ \A o \in 0 .. db[c].ref : log'[o + 1] \in Known
          /\ \A m \in Contents :
               db[c].counts[m] = Cardinality({o \in 0 .. db[c].ref : log'[o + 1] = m})
      BY <1>1, RowAppend
    <3> QED
      BY <1>1, <3>1 DEF RowInv
  <2>2. RowInv(backup[c])'
    <3>1. /\ \A o \in 0 .. backup[c].ref : log'[o + 1] \in Known
          /\ \A m \in Contents :
               backup[c].counts[m] = Cardinality({o \in 0 .. backup[c].ref : log'[o + 1] = m})
      BY <1>1, RowAppend
    <3> QED
      BY <1>1, <3>1 DEF RowInv
  <2> QED
    BY <2>1, <2>2
<1> QED
  BY <1>2

-----------------------------------------------------------------------------
(* The steps                                                               *)

LEMMA SomeOther == \E m : m # Malformed
<1>1. CASE Malformed = 0
  <2>1. 1 # Malformed
    BY <1>1
  <2> QED
    BY <2>1
<1>2. CASE 0 # Malformed
  BY <1>2
<1> QED
  BY <1>1, <1>2

\* A step that moves no message.
LEMMA NothingMoves ==
    ASSUME TypeOK, \A m \in Contents : ContentInv(m), TopicInv,
           UNCHANGED <<log, stray, buffer, tally>>, faults' = faults \/ faults' = faults + 1,
           \A m : m # Malformed => /\ AllAwaited(m)' = AllAwaited(m)
                                   /\ AllAttempts(m)' = AllAttempts(m)
                                   /\ AllPending(m)' = AllPending(m)
                                   /\ AllUnsent' = AllUnsent
    PROVE  (\A m \in Contents : ContentInv(m)') /\ TopicInv'
<1>1. \A m \in Contents : m # Malformed
  BY PageviewEventsAssumption
<1>2. ASSUME NEW m \in Contents
      PROVE  ContentInv(m)'
  <2>1. /\ AllAwaited(m)' = AllAwaited(m) /\ AllAttempts(m)' = AllAttempts(m)
        /\ AllPending(m)' = AllPending(m)
    BY <1>1
  <2> QED
    BY <2>1, ContentSame
<1>3. TopicInv'
  <2>1. PICK m : m # Malformed
    BY SomeOther
  <2>2. AllUnsent' = AllUnsent
    BY <2>1
  <2>3. Total("go", "accepted")' = Total("go", "accepted")
        /\ Total("spring", "accepted")' = Total("spring", "accepted")
    BY TotalSame
  <2>4. /\ Len(log) \in Nat /\ Len(buffer) \in Nat /\ AllUnsent \in Nat
        /\ Sum(Contents, stray) \in Nat /\ faults \in Nat
        /\ Total("go", "accepted") \in Nat /\ Total("spring", "accepted") \in Nat
    BY TopicNumbers
  <2> DEFINE a == Total("go", "accepted") + Total("spring", "accepted")
             b == Len(log) + Sum(Contents, stray) + AllUnsent + Len(buffer)
  <2>5. a \in Nat /\ b \in Nat
    BY <2>4
  <2>6. TopicInv <=> b <= a + faults
    BY DEF TopicInv
  <2>7. TopicInv' <=> b <= a + faults'
    BY <2>2, <2>3 DEF TopicInv
  <2> HIDE DEF a, b
  <2> QED
    BY <2>4, <2>5, <2>6, <2>7
<1> QED
  BY <1>2, <1>3

\* A request that neither had nor gets a message.
LEMMA QuietStep ==
    ASSUME IInv, NEW r \in Requesters, NEW q \in Requests, Placed(q),
           req' = [req EXCEPT ![r] = q], q = NoRequest \/ q.pc = "answered",
           req[r].pc \in {"idle", "answered"},
           UNCHANGED <<ledgerVars, stray, buffer, tally, crashes, restores>>,
           todo' \in [Requesters -> 0 .. MaxViews], exited' \in BOOLEAN,
           faults' \in 0 .. MaxFaults, faults' = faults \/ faults' = faults + 1
    PROVE  IInv'
<1>0. q.pc \in {"idle", "answered"}
  BY NoRequestType
<1>1. /\ req' \in [Requesters -> Requests] /\ \A x \in Requesters : Placed(req'[x])
      /\ req'[r] = q /\ \A x \in Requesters \ {r} : req'[x] = req[x]
  BY RequestType DEF IInv
<1>2. TypeOK'
  <2>1. /\ log' = log /\ db' = db /\ backup' = backup /\ stray' = stray /\ buffer' = buffer
        /\ tally' = tally /\ crashes' = crashes /\ restores' = restores
    BY DEF ledgerVars
  <2> QED
    BY <1>1, <2>1, TypeParts, TypeNext, Zenon DEF IInv
<1>3. \A x \in Requesters : RequestInv(x)'
  BY <1>0, RequestsNext, Zenon DEF IInv
<1>4. \A m : m # Malformed => /\ AllAwaited(m)' = AllAwaited(m)
                              /\ AllAttempts(m)' = AllAttempts(m)
                              /\ AllPending(m)' = AllPending(m)
                              /\ AllUnsent' = AllUnsent
  BY <1>0, <1>1, <1>2, QuietRequest DEF IInv
<1>5. (\A m \in Contents : ContentInv(m)') /\ TopicInv'
  BY <1>4, NothingMoves DEF IInv, ledgerVars
<1>6. \A c \in Statistics : (RowInv(db[c]) /\ RowInv(backup[c]))'
  BY RowsSame DEF IInv, ledgerVars
<1> QED
  BY <1>2, <1>3, <1>5, <1>6, Zenon DEF IInv

LEMMA TakesType ==
    ASSUME IInv, NEW r \in Requesters, Takes(r)
    PROVE  /\ todo' \in [Requesters -> 0 .. MaxViews] /\ exited' = exited
           /\ stray' = stray /\ UNCHANGED ledgerVars
           /\ req[r].pc = "idle" /\ req[r] = NoRequest
<1>1. todo \in [Requesters -> 0 .. MaxViews] /\ MaxViews \in Nat
  BY TypeParts, PageviewEventsAssumption DEF IInv
<1>2. todo[r] > 0 /\ todo' = [todo EXCEPT ![r] = @ - 1]
  BY DEF Takes
<1>3. todo[r] - 1 \in 0 .. MaxViews
  BY <1>1, <1>2
<1>4. todo' \in [Requesters -> 0 .. MaxViews]
  BY <1>1, <1>2, <1>3
<1>5. req[r] = NoRequest
  BY DEF IInv, RequestInv, Takes
<1> QED
  BY <1>4, <1>5 DEF Takes, ledgerVars

\* The messages that a request of content m stands for.
LEMMA WeightOf ==
    ASSUME NEW q \in Requests, NEW m, q.content = m
    PROVE  /\ q.pc = "send" => /\ Awaited(q, m) = 0 /\ Attempts(q, m) = RetryMax + 1 - q.tries
                               /\ Unsent(q) = 1 /\ Pending(q, m) = 1
           /\ q.pc = "sent" => /\ Awaited(q, m) = 0 /\ Attempts(q, m) = RetryMax + 2 - q.tries
                               /\ Unsent(q) = 1 /\ Pending(q, m) = 1
           /\ q.pc = "appended" => /\ Awaited(q, m) = 1
                                   /\ Attempts(q, m) = RetryMax + 1 - q.tries
                                   /\ Unsent(q) = 0 /\ Pending(q, m) = 0
           /\ q.tries \in 0 .. RetryMax + 1 /\ RetryMax \in Nat
BY PageviewEventsAssumption DEF Requests, Awaited, Attempts, Unsent, Pending

\* A request stands for nothing of the other contents.
LEMMA SumsOther ==
    ASSUME TypeOK, TypeOK', NEW r \in GoRequesters, NEW m \in Contents,
           \A x \in GoRequesters \ {r} : req'[x] = req[x],
           req[r].content # m, req'[r].content # m
    PROVE  /\ AllAwaited(m)' = AllAwaited(m) /\ AllAttempts(m)' = AllAttempts(m)
           /\ AllPending(m)' = AllPending(m)
<1>1. /\ Awaited(req[r], m) = 0 /\ Attempts(req[r], m) = 0 /\ Pending(req[r], m) = 0
      /\ Awaited(req'[r], m) = 0 /\ Attempts(req'[r], m) = 0 /\ Pending(req'[r], m) = 0
  BY DEF Awaited, Attempts, Pending
<1>2. /\ AllAwaited(m)' + Awaited(req[r], m) = AllAwaited(m) + Awaited(req'[r], m)
      /\ AllAttempts(m)' + Attempts(req[r], m) = AllAttempts(m) + Attempts(req'[r], m)
      /\ AllPending(m)' + Pending(req[r], m) = AllPending(m) + Pending(req'[r], m)
  BY SumsUpdate
<1>3. /\ AllAwaited(m)' + 0 = AllAwaited(m) + 0 /\ AllAttempts(m)' + 0 = AllAttempts(m) + 0
      /\ AllPending(m)' + 0 = AllPending(m) + 0
  BY <1>1, <1>2, Zenon
<1>4. /\ AllAwaited(m) \in Nat /\ AllAttempts(m) \in Nat /\ AllPending(m) \in Nat
  BY SumsType
<1>5. /\ AllAwaited(m)' \in Nat /\ AllAttempts(m)' \in Nat /\ AllPending(m)' \in Nat
  BY SumsTypeNext
<1>6. \A a, b \in Nat : a + 0 = b + 0 => a = b
  OBVIOUS
<1> QED
  BY <1>3, <1>4, <1>5, <1>6, Zenon

LEMMA ReceiveStep ==
    ASSUME IInv, NEW r \in Requesters, Receive(r) \/ LoseAnswer(r)
    PROVE  IInv'
<1>1. /\ req' = [req EXCEPT ![r] = NoRequest] /\ req[r].pc = "answered"
      /\ UNCHANGED <<ledgerVars, stray, buffer, tally, crashes, restores>> /\ todo' = todo
  BY DEF Receive, LoseAnswer, boundVars, Fault, ledgerVars
<1>2. exited' \in BOOLEAN
  BY Zenon DEF Receive, LoseAnswer
<1>3. faults \in 0 .. MaxFaults /\ MaxFaults \in Nat
  BY TypeParts, PageviewEventsAssumption DEF IInv
<1>4. faults' \in 0 .. MaxFaults /\ (faults' = faults \/ faults' = faults + 1)
  BY <1>3 DEF Receive, LoseAnswer, boundVars, Fault
<1>5. NoRequest \in Requests /\ Placed(NoRequest)
  BY NoRequestType
<1>6. todo \in [Requesters -> 0 .. MaxViews]
  BY TypeParts DEF IInv
<1> QED
  BY <1>1, <1>2, <1>4, <1>5, <1>6, QuietStep

\* The Go service refuses a request or takes it on.
LEMMA HandlerStep ==
    ASSUME IInv, NEW r \in GoRequesters, NEW method, NEW id \in Contents \cup {Malformed},
           NEW body, ProcessPageviewHandler(r, method, id, body)
    PROVE  IInv'
<1> r \in Requesters
  BY DEF Requesters
<1>1. /\ todo' \in [Requesters -> 0 .. MaxViews] /\ exited' = exited
      /\ stray' = stray /\ UNCHANGED ledgerVars
      /\ req[r].pc = "idle" /\ req[r] = NoRequest
  BY TakesType DEF ProcessPageviewHandler
<1>2. UNCHANGED <<buffer, faults, crashes, restores>>
  BY DEF ProcessPageviewHandler, boundVars
<1>3. exited \in BOOLEAN /\ faults \in 0 .. MaxFaults
  BY TypeParts DEF IInv
<1>4. CASE id = Malformed \/ method # "GET" \/ ~combineInput(body)
  <2>1. PICK status \in {"404", "405", "400"} : req' = [req EXCEPT ![r] = Answered(status)]
    BY <1>4 DEF ProcessPageviewHandler
  <2>2. tally' = tally
    BY <1>4 DEF ProcessPageviewHandler
  <2>3. /\ Answered(status) \in Requests /\ Placed(Answered(status))
        /\ Answered(status).pc = "answered"
    BY NoRequestType
  <2> QED
    BY <1>1, <1>2, <1>3, <2>1, <2>2, <2>3, QuietStep DEF ledgerVars
<1>5. CASE ~(id = Malformed \/ method # "GET" \/ ~combineInput(body))
  <2> DEFINE q == Taken(req[r], id)
  <2>1. /\ id \in Contents /\ id # Malformed
        /\ req' = [req EXCEPT ![r] = q]
        /\ tally' = [tally EXCEPT !["go"][id].accepted = @ + 1]
    BY <1>5 DEF ProcessPageviewHandler
  <2>2. req[r] \in Requests /\ req[r].tries = 0 /\ req[r].content = Malformed
    BY <1>1, NoRequestType
  <2> HIDE DEF q
  <2>3. /\ q \in Requests /\ Placed(q) /\ q.pc = "send" /\ q.content = id /\ q.tries = 0
    BY <2>1, <2>2, TakenType, Zenon DEF q
  <2>4. /\ req' \in [Requesters -> Requests] /\ \A x \in Requesters : Placed(req'[x])
        /\ req'[r] = q /\ \A x \in Requesters \ {r} : req'[x] = req[x]
    BY <2>1, <2>3, RequestType DEF IInv
  <2>5. tally \in Tallies
    BY TypeParts DEF IInv
  <2>6. /\ tally' \in Tallies
        /\ \A m \in Contents : /\ tally'["spring"][m] = tally["spring"][m]
                               /\ m # id => tally'["go"][m] = tally["go"][m]
        /\ tally'["go"][id] = [tally["go"][id] EXCEPT !.accepted = @ + 1]
    BY <2>1, <2>5, TallyGo
  <2>7. /\ tally'["go"][id].accepted = tally["go"][id].accepted + 1
        /\ tally'["go"][id].confirmed = tally["go"][id].confirmed
        /\ tally'["go"][id].copies = tally["go"][id].copies
    BY <2>1, <2>5, <2>6 DEF Tallies
  <2>8. TypeOK'
    BY <1>1, <1>2, <2>4, <2>6, TypeParts, TypeNext, Zenon DEF IInv, ledgerVars
  <2>9. \A x \in Requesters : RequestInv(x)'
    <3>1. q.tries <= RetryMax
      BY <2>3, PageviewEventsAssumption
    <3>2. q.pc # "idle"
      BY <2>3
    <3> QED
      BY <2>1, <2>3, <3>1, <3>2, RequestsNext, Zenon DEF IInv
  <2>10. \A x \in GoRequesters \ {r} : req'[x] = req[x]
    BY <2>4 DEF Requesters
  <2>11. ASSUME NEW m \in Contents
         PROVE  ContentInv(m)'
    <3>1. CASE m # id
      <4>1. m # Malformed
        BY PageviewEventsAssumption
      <4>2. /\ AllAwaited(m)' = AllAwaited(m) /\ AllAttempts(m)' = AllAttempts(m)
            /\ AllPending(m)' = AllPending(m)
        BY <2>2, <2>3, <2>4, <2>8, <2>10, <3>1, <4>1, SumsOther DEF IInv
      <4> QED
        BY <1>1, <1>2, <2>6, <3>1, <4>2, ContentSame DEF IInv, ledgerVars
    <3>2. CASE m = id
      <4>1. /\ Awaited(req[r], m) = 0 /\ Attempts(req[r], m) = 0 /\ Pending(req[r], m) = 0
        BY <1>1, <2>1, <3>2, NoRequestType, WeightNone
      <4>2. /\ Awaited(q, m) = 0 /\ Attempts(q, m) = RetryMax + 1 /\ Pending(q, m) = 1
        BY <2>3, <3>2, WeightOf
      <4>3. /\ AllAwaited(m)' + 0 = AllAwaited(m) + 0
            /\ AllAttempts(m)' + 0 = AllAttempts(m) + (RetryMax + 1)
            /\ AllPending(m)' + 0 = AllPending(m) + 1
        BY <2>4, <2>8, <2>10, <4>1, <4>2, SumsUpdate DEF IInv
      <4>4. /\ AllAwaited(m) \in Nat /\ AllAttempts(m) \in Nat /\ AllPending(m) \in Nat
            /\ AllAwaited(m)' \in Nat /\ AllAttempts(m)' \in Nat /\ AllPending(m)' \in Nat
        BY <2>8, SumsType, SumsTypeNext DEF IInv
      <4>5. \A a, b \in Nat : (1 + a) * (b + 1) = (1 + a) * b + (a + 1)
        OBVIOUS
      <4>6. (1 + RetryMax) * (tally["go"][m].accepted + 1)
              = (1 + RetryMax) * tally["go"][m].accepted + (RetryMax + 1)
        BY <4>5, Numbers DEF IInv
      <4>7. stray'[m] = stray[m] /\ faults' = faults /\ buffer' = buffer /\ log' = log
        BY <1>1, <1>2 DEF ledgerVars
      <4>8. ContentInv(m)
        BY DEF IInv
      <4>9. tally'["go"][m].confirmed + AllAwaited(m)' <= tally'["go"][m].copies
        BY <2>7, <3>2, <4>3, <4>4, <4>8, Numbers DEF IInv, ContentInv
      <4>10. tally'["go"][m].copies + stray'[m] + AllAttempts(m)'
               <= (1 + RetryMax) * tally'["go"][m].accepted
        BY <2>7, <3>2, <4>3, <4>4, <4>6, <4>7, <4>8, Numbers DEF IInv, ContentInv
      <4>11. tally'["go"][m].copies + stray'[m] + AllPending(m)'
               <= tally'["go"][m].accepted + faults'
        BY <2>7, <3>2, <4>3, <4>4, <4>7, <4>8, Numbers DEF IInv, ContentInv
      <4>12. /\ tally'["spring"][m].copies + Cardinality(Places(buffer', m))
                  <= tally'["spring"][m].accepted
             /\ Cardinality(Places(log', m))
                  = tally'["go"][m].copies + tally'["spring"][m].copies
        BY <2>6, <2>7, <3>2, <4>7, <4>8 DEF ContentInv
      <4> QED
        BY <4>9, <4>10, <4>11, <4>12 DEF ContentInv
    <3> QED
      BY <3>1, <3>2
  <2>12. TopicInv'
    <3>1. Unsent(req[r]) = 0 /\ Unsent(q) = 1
      BY <1>1, <2>3 DEF Unsent
    <3>2. AllUnsent' + 0 = AllUnsent + 1
      BY <2>4, <2>8, <2>10, <3>1, SumsUpdate DEF IInv
    <3>3. /\ Total("go", "accepted")' = Total("go", "accepted") + 1
          /\ Total("spring", "accepted")' = Total("spring", "accepted")
      BY <2>1, <2>5, <2>6, <2>7, TotalUpdate, TotalSame
    <3>4. stray' = stray /\ faults' = faults /\ buffer' = buffer /\ log' = log
      BY <1>1, <1>2 DEF ledgerVars
    <3> DEFINE a == AllUnsent
               b == AllUnsent'
               t == Total("go", "accepted")
               u == Total("spring", "accepted")
               l == Len(log) + Sum(Contents, stray)
               k == Len(buffer)
    <3>5. /\ a \in Nat /\ b \in Nat /\ t \in Nat /\ u \in Nat /\ l \in Nat /\ k \in Nat
          /\ faults \in Nat
      BY <2>8, SumsTypeNext, TopicNumbers DEF IInv
    <3>6. l + a + k <= t + u + faults /\ b + 0 = a + 1
      BY <3>2 DEF IInv, TopicInv
    <3>7. TopicInv' <=> l + b + k <= (t + 1) + u + faults
      BY <3>3, <3>4 DEF TopicInv
    <3> HIDE DEF a, b, t, u, l, k
    <3> QED
      BY <3>5, <3>6, <3>7
  <2>13. \A c \in Statistics : (RowInv(db[c]) /\ RowInv(backup[c]))'
    BY <1>1, RowsSame DEF IInv
  <2> QED
    BY <2>8, <2>9, <2>11, <2>12, <2>13, Zenon DEF IInv
<1> QED
  BY <1>4, <1>5

LEMMA SumsEqual ==
    ASSUME TypeOK, TypeOK', NEW r \in GoRequesters, NEW m,
           \A x \in GoRequesters \ {r} : req'[x] = req[x],
           Awaited(req'[r], m) = Awaited(req[r], m), Attempts(req'[r], m) = Attempts(req[r], m),
           Pending(req'[r], m) = Pending(req[r], m), Unsent(req'[r]) = Unsent(req[r])
    PROVE  /\ AllAwaited(m)' = AllAwaited(m) /\ AllAttempts(m)' = AllAttempts(m)
           /\ AllPending(m)' = AllPending(m) /\ AllUnsent' = AllUnsent
<1>1. /\ AllAwaited(m)' + Awaited(req[r], m) = AllAwaited(m) + Awaited(req[r], m)
      /\ AllAttempts(m)' + Attempts(req[r], m) = AllAttempts(m) + Attempts(req[r], m)
      /\ AllPending(m)' + Pending(req[r], m) = AllPending(m) + Pending(req[r], m)
      /\ AllUnsent' + Unsent(req[r]) = AllUnsent + Unsent(req[r])
  BY SumsUpdate, Zenon
<1>2. /\ AllAwaited(m) \in Nat /\ AllAttempts(m) \in Nat /\ AllPending(m) \in Nat
      /\ AllUnsent \in Nat
  BY SumsType
<1>3. /\ AllAwaited(m)' \in Nat /\ AllAttempts(m)' \in Nat /\ AllPending(m)' \in Nat
      /\ AllUnsent' \in Nat
  BY SumsTypeNext
<1>4. /\ Awaited(req[r], m) \in Nat /\ Attempts(req[r], m) \in Nat
      /\ Pending(req[r], m) \in Nat /\ Unsent(req[r]) \in Nat
  <2>1. req[r] \in Requests
    BY TypeParts DEF Requesters
  <2> QED
    BY <2>1, WeightType
<1>5. AllAwaited(m)' = AllAwaited(m)
  <2> DEFINE a == AllAwaited(m)'
             b == AllAwaited(m)
             w == Awaited(req[r], m)
  <2>1. a \in Nat /\ b \in Nat /\ w \in Nat /\ a + w = b + w
    BY <1>1, <1>2, <1>3, <1>4
  <2> HIDE DEF a, b, w
  <2>2. a = b
    BY <2>1
  <2> QED
    BY <2>2 DEF a, b
<1>6. AllAttempts(m)' = AllAttempts(m)
  <2> DEFINE a == AllAttempts(m)'
             b == AllAttempts(m)
             w == Attempts(req[r], m)
  <2>1. a \in Nat /\ b \in Nat /\ w \in Nat /\ a + w = b + w
    BY <1>1, <1>2, <1>3, <1>4
  <2> HIDE DEF a, b, w
  <2>2. a = b
    BY <2>1
  <2> QED
    BY <2>2 DEF a, b
<1>7. AllPending(m)' = AllPending(m)
  <2> DEFINE a == AllPending(m)'
             b == AllPending(m)
             w == Pending(req[r], m)
  <2>1. a \in Nat /\ b \in Nat /\ w \in Nat /\ a + w = b + w
    BY <1>1, <1>2, <1>3, <1>4
  <2> HIDE DEF a, b, w
  <2>2. a = b
    BY <2>1
  <2> QED
    BY <2>2 DEF a, b
<1>8. AllUnsent' = AllUnsent
  <2> DEFINE a == AllUnsent'
             b == AllUnsent
             w == Unsent(req[r])
  <2>1. a \in Nat /\ b \in Nat /\ w \in Nat /\ a + w = b + w
    BY <1>1, <1>2, <1>3, <1>4
  <2> HIDE DEF a, b, w
  <2>2. a = b
    BY <2>1
  <2> QED
    BY <2>2 DEF a, b
<1> QED
  BY <1>5, <1>6, <1>7, <1>8

LEMMA OpenRequest ==
    ASSUME IInv, NEW r \in GoRequesters, req[r].pc \in {"send", "sent", "appended"}
    PROVE  /\ r \in Requesters /\ req[r] \in Requests
           /\ req[r].content \in Contents /\ req[r].content # Malformed
           /\ req[r].pc = "send" => req[r].tries <= RetryMax
<1>1. r \in Requesters
  BY DEF Requesters
<1>2. req[r] \in Requests /\ Placed(req[r]) /\ RequestInv(r)
  BY <1>1, TypeParts DEF IInv
<1> QED
  BY <1>1, <1>2 DEF Placed, RequestInv, Requests

\* A message is on its way: what its request stands for is the same.
LEMMA SendStep ==
    ASSUME IInv, NEW r \in GoRequesters, sendMessage(r)
    PROVE  IInv'
<1> DEFINE q == Sent(req[r])
<1>1. /\ req[r].pc = "send" /\ req' = [req EXCEPT ![r] = q]
      /\ UNCHANGED <<ledgerVars, todo, exited, stray, buffer, tally, faults, crashes, restores>>
  BY DEF sendMessage, boundVars
<1>2. /\ r \in Requesters /\ req[r] \in Requests /\ req[r].content # Malformed
      /\ req[r].tries <= RetryMax
  BY <1>1, OpenRequest
<1>3. /\ q \in Requests /\ Placed(q) /\ q.pc = "sent" /\ q.content = req[r].content
      /\ q.tries = req[r].tries + 1
  BY <1>2, SentType
<1> HIDE DEF q
<1>4. /\ req' \in [Requesters -> Requests] /\ \A x \in Requesters : Placed(req'[x])
      /\ req'[r] = q /\ \A x \in Requesters \ {r} : req'[x] = req[x]
  BY <1>1, <1>2, <1>3, RequestType DEF IInv
<1>5. TypeOK'
  BY <1>1, <1>4, TypeParts, TypeNext, Zenon DEF IInv, ledgerVars
<1>6. \A x \in Requesters : RequestInv(x)'
  <2>1. q.pc # "idle" /\ q.pc # "send"
    BY <1>3
  <2> QED
    BY <1>1, <1>2, <1>3, <2>1, RequestsNext, Zenon DEF IInv
<1>7. ASSUME NEW m
      PROVE  /\ AllAwaited(m)' = AllAwaited(m) /\ AllAttempts(m)' = AllAttempts(m)
             /\ AllPending(m)' = AllPending(m) /\ AllUnsent' = AllUnsent
  <2>1. /\ Awaited(q, m) = Awaited(req[r], m) /\ Attempts(q, m) = Attempts(req[r], m)
        /\ Pending(q, m) = Pending(req[r], m) /\ Unsent(q) = Unsent(req[r])
    BY <1>1, <1>2, <1>3, PageviewEventsAssumption
       DEF Awaited, Attempts, Pending, Unsent, Requests
  <2>2. \A x \in GoRequesters \ {r} : req'[x] = req[x]
    BY <1>4 DEF Requesters
  <2> QED
    BY <1>4, <1>5, <2>1, <2>2, SumsEqual, Zenon DEF IInv
<1>8. (\A m \in Contents : ContentInv(m)') /\ TopicInv'
  BY <1>1, <1>7, NothingMoves DEF IInv, ledgerVars
<1>9. \A c \in Statistics : (RowInv(db[c]) /\ RowInv(backup[c]))'
  BY <1>1, RowsSame DEF IInv
<1> QED
  BY <1>5, <1>6, <1>8, <1>9, Zenon DEF IInv

\* The tally of copies and the log go together.
LEMMA CopiesUp ==
    ASSUME TypeOK, NEW x \in Contents,
           tally' = [tally EXCEPT !["go"][x].copies = @ + 1]
    PROVE  /\ tally' \in Tallies
           /\ \A m \in Contents : /\ tally'["spring"][m] = tally["spring"][m]
                                  /\ m # x => tally'["go"][m] = tally["go"][m]
                                  /\ tally'["go"][m].accepted = tally["go"][m].accepted
           /\ tally'["go"][x].confirmed = tally["go"][x].confirmed
           /\ tally'["go"][x].copies = tally["go"][x].copies + 1
           /\ Total("go", "accepted")' = Total("go", "accepted")
           /\ Total("spring", "accepted")' = Total("spring", "accepted")
<1>1. tally \in Tallies
  BY TypeParts
<1>2. /\ tally' \in Tallies
      /\ \A m \in Contents : /\ tally'["spring"][m] = tally["spring"][m]
                             /\ m # x => tally'["go"][m] = tally["go"][m]
      /\ tally'["go"][x] = [tally["go"][x] EXCEPT !.copies = @ + 1]
  BY <1>1, TallyGo
<1>3. /\ tally'["go"][x].accepted = tally["go"][x].accepted
      /\ tally'["go"][x].confirmed = tally["go"][x].confirmed
      /\ tally'["go"][x].copies = tally["go"][x].copies + 1
  BY <1>1, <1>2 DEF Tallies
<1>4. \A m \in Contents : tally'["go"][m].accepted = tally["go"][m].accepted
  BY <1>2, <1>3
<1>5. \A m \in Contents : tally'["spring"][m].accepted = tally["spring"][m].accepted
  BY <1>2
<1> QED
  BY <1>2, <1>3, <1>4, <1>5, TotalSame

\* The broker appends the message of a request.
LEMMA AppendStep ==
    ASSUME IInv, NEW r \in GoRequesters, BrokerAppends(r)
    PROVE  IInv'
<1> DEFINE q == Moved(req[r], "appended")
           x == req[r].content
<1>1. /\ req[r].pc = "sent" /\ req' = [req EXCEPT ![r] = q] /\ AppendToLog(x)
      /\ tally' = [tally EXCEPT !["go"][x].copies = @ + 1]
      /\ UNCHANGED <<todo, exited, stray, buffer, faults, crashes, restores>>
  BY DEF BrokerAppends, Moved, boundVars
<1>2. /\ r \in Requesters /\ req[r] \in Requests /\ x \in Contents /\ x # Malformed
  BY <1>1, OpenRequest
<1>3. /\ q \in Requests /\ Placed(q) /\ q.pc = "appended" /\ q.content = x
      /\ q.tries = req[r].tries
  BY <1>2, MovedType
<1> HIDE DEF q
<1>4. /\ req' \in [Requesters -> Requests] /\ \A y \in Requesters : Placed(req'[y])
      /\ req'[r] = q /\ \A y \in Requesters \ {r} : req'[y] = req[y]
  BY <1>1, <1>2, <1>3, RequestType DEF IInv
<1>5. /\ Awaited(req[r], x) = 0 /\ Attempts(req[r], x) = RetryMax + 2 - req[r].tries
      /\ Pending(req[r], x) = 1 /\ Unsent(req[r]) = 1
      /\ Awaited(q, x) = 1 /\ Attempts(q, x) = RetryMax + 1 - req[r].tries
      /\ Pending(q, x) = 0 /\ Unsent(q) = 0
      /\ RetryMax \in Nat /\ req[r].tries \in Int
  <2>1. /\ Awaited(req[r], x) = 0 /\ Attempts(req[r], x) = RetryMax + 2 - req[r].tries
        /\ Pending(req[r], x) = 1 /\ Unsent(req[r]) = 1
        /\ RetryMax \in Nat /\ req[r].tries \in Int
    BY <1>1, <1>2, WeightOf
  <2>2. /\ Awaited(q, x) = 1 /\ Attempts(q, x) = RetryMax + 1 - q.tries
        /\ Pending(q, x) = 0 /\ Unsent(q) = 0
    BY <1>3, WeightOf
  <2> QED
    BY <1>3, <2>1, <2>2
<1> HIDE DEF x
<1>6. /\ log' \in Seq(Contents) /\ Len(log') = Len(log) + 1 /\ log' = Append(log, x)
      /\ db' \in [Statistics -> Rows(Len(log'))] /\ backup' \in [Statistics -> Rows(Len(log'))]
  BY <1>1, <1>2, RowsLonger DEF IInv, AppendToLog
<1>7. /\ tally' \in Tallies
      /\ \A m \in Contents : /\ tally'["spring"][m] = tally["spring"][m]
                             /\ m # x => tally'["go"][m] = tally["go"][m]
                             /\ tally'["go"][m].accepted = tally["go"][m].accepted
      /\ tally'["go"][x].confirmed = tally["go"][x].confirmed
      /\ tally'["go"][x].copies = tally["go"][x].copies + 1
      /\ Total("go", "accepted")' = Total("go", "accepted")
      /\ Total("spring", "accepted")' = Total("spring", "accepted")
  BY <1>1, <1>2, CopiesUp DEF IInv
<1>8. TypeOK'
  BY <1>1, <1>4, <1>6, <1>7, TypeParts, TypeNext, Zenon DEF IInv
<1>9. \A y \in Requesters : RequestInv(y)'
  <2>1. q.pc # "idle" /\ q.pc # "send"
    BY <1>3
  <2> QED
    BY <1>1, <1>2, <1>3, <2>1, RequestsNext, Zenon DEF IInv
<1>10. \A y \in GoRequesters \ {r} : req'[y] = req[y]
  BY <1>4 DEF Requesters
<1>11. \A m : Cardinality(Places(log', m)) = Cardinality(Places(log, m))
                                               + (IF x = m THEN 1 ELSE 0)
  <2>1. log \in Seq(Contents)
    BY TypeParts DEF IInv
  <2> QED
    BY <1>2, <1>6, <2>1, PlacesAppend
<1>12. ASSUME NEW m \in Contents
       PROVE  ContentInv(m)'
  <2>0. /\ stray' = stray /\ buffer' = buffer /\ faults' = faults
    BY <1>1
  <2>1. CASE m # x
    <3>1. /\ AllAwaited(m)' = AllAwaited(m) /\ AllAttempts(m)' = AllAttempts(m)
          /\ AllPending(m)' = AllPending(m)
      BY <1>3, <1>4, <1>8, <1>10, <2>1, SumsOther DEF IInv, x
    <3>2. Cardinality(Places(log', m)) = Cardinality(Places(log, m))
      BY <1>11, <2>1, Numbers DEF IInv
    <3> QED
      BY <1>7, <2>0, <2>1, <3>1, <3>2, ContentSame DEF IInv
  <2>2. CASE m = x
    <3>1. /\ AllAwaited(m)' + 0 = AllAwaited(m) + 1
          /\ AllAttempts(m)' + (RetryMax + 2 - req[r].tries)
               = AllAttempts(m) + (RetryMax + 1 - req[r].tries)
          /\ AllPending(m)' + 1 = AllPending(m) + 0
      BY <1>4, <1>5, <1>8, <1>10, <2>2, SumsUpdate DEF IInv
    <3>2. /\ AllAwaited(m) \in Nat /\ AllAttempts(m) \in Nat /\ AllPending(m) \in Nat
          /\ AllAwaited(m)' \in Nat /\ AllAttempts(m)' \in Nat /\ AllPending(m)' \in Nat
      BY <1>8, SumsType, SumsTypeNext DEF IInv
    <3>3. ContentInv(m)
      BY DEF IInv
    <3>4. tally'["go"][m].confirmed + AllAwaited(m)' <= tally'["go"][m].copies
      BY <1>7, <2>2, <3>1, <3>2, <3>3, Numbers DEF IInv, ContentInv
    <3>5. tally'["go"][m].copies + stray'[m] + AllAttempts(m)'
             <= (1 + RetryMax) * tally'["go"][m].accepted
      <4> DEFINE p == (1 + RetryMax) * tally["go"][m].accepted
      <4>1. AllAttempts(m)' + 1 = AllAttempts(m)
        BY <1>5, <3>1, <3>2
      <4>2. /\ tally["go"][m].copies + stray[m] + AllAttempts(m) <= p
            /\ (1 + RetryMax) * tally'["go"][m].accepted = p
        BY <1>7, <3>3 DEF ContentInv
      <4>3. /\ tally["go"][m].accepted \in Nat
            /\ tally["go"][m].copies \in Nat /\ stray[m] \in Nat
        BY Numbers DEF IInv
      <4>4. p \in Int
        BY Numbers DEF IInv
      <4> HIDE DEF p
      <4> QED
        BY <1>7, <2>0, <2>2, <3>2, <4>1, <4>2, <4>3, <4>4
    <3>6. tally'["go"][m].copies + stray'[m] + AllPending(m)'
             <= tally'["go"][m].accepted + faults'
      BY <1>7, <2>0, <2>2, <3>1, <3>2, <3>3, Numbers DEF IInv, ContentInv
    <3>7. tally'["spring"][m].copies + Cardinality(Places(buffer', m))
             <= tally'["spring"][m].accepted
      BY <1>7, <2>0, <3>3 DEF ContentInv
    <3>8. Cardinality(Places(log', m)) = tally'["go"][m].copies + tally'["spring"][m].copies
      BY <1>7, <1>11, <2>2, <3>3, Numbers DEF IInv, ContentInv
    <3> QED
      BY <3>4, <3>5, <3>6, <3>7, <3>8 DEF ContentInv
  <2> QED
    BY <2>1, <2>2
<1>13. TopicInv'
  <2>1. AllUnsent' + 1 = AllUnsent + 0
    BY <1>4, <1>5, <1>8, <1>10, SumsUpdate DEF IInv
  <2>2. AllUnsent' \in Nat
    BY <1>8, SumsTypeNext
  <2>3. stray' = stray /\ faults' = faults /\ buffer' = buffer
    BY <1>1
  <2> QED
    BY <1>6, <1>7, <2>1, <2>2, <2>3, TopicNumbers DEF IInv, TopicInv
<1>14. \A c \in Statistics : (RowInv(db[c]) /\ RowInv(backup[c]))'
  BY <1>1, <1>2, RowsAppend DEF IInv
<1> QED
  BY <1>8, <1>9, <1>12, <1>13, <1>14, Zenon DEF IInv

\* The answer 204.
LEMMA ConfirmStep ==
    ASSUME IInv, NEW r \in GoRequesters, MakeNoContent(r)
    PROVE  IInv'
<1> DEFINE q == Answered("204")
           x == req[r].content
<1>1. /\ req[r].pc = "appended" /\ req' = [req EXCEPT ![r] = q]
      /\ tally' = [tally EXCEPT !["go"][x].confirmed = @ + 1]
      /\ UNCHANGED <<ledgerVars, todo, exited, stray, buffer, faults, crashes, restores>>
  BY DEF MakeNoContent, Confirm, boundVars
<1>2. /\ r \in Requesters /\ req[r] \in Requests /\ x \in Contents /\ x # Malformed
  BY <1>1, OpenRequest
<1>3. q \in Requests /\ Placed(q) /\ q.pc = "answered" /\ q.content = Malformed
  BY NoRequestType
<1> HIDE DEF q
<1>4. /\ req' \in [Requesters -> Requests] /\ \A y \in Requesters : Placed(req'[y])
      /\ req'[r] = q /\ \A y \in Requesters \ {r} : req'[y] = req[y]
  BY <1>1, <1>2, <1>3, RequestType DEF IInv
<1>5. /\ Awaited(req[r], x) = 1 /\ Attempts(req[r], x) \in Nat
      /\ Pending(req[r], x) = 0 /\ Unsent(req[r]) = 0
      /\ Awaited(q, x) = 0 /\ Attempts(q, x) = 0 /\ Pending(q, x) = 0 /\ Unsent(q) = 0
  <2>1. Awaited(req[r], x) = 1 /\ Pending(req[r], x) = 0 /\ Unsent(req[r]) = 0
    BY <1>1, <1>2, WeightOf
  <2>2. Attempts(req[r], x) \in Nat
    BY <1>2, WeightType
  <2>3. Awaited(q, x) = 0 /\ Attempts(q, x) = 0 /\ Pending(q, x) = 0 /\ Unsent(q) = 0
    BY <1>2, <1>3, WeightNone
  <2> QED
    BY <2>1, <2>2, <2>3
<1> HIDE DEF x
<1>6. tally \in Tallies
  BY TypeParts DEF IInv
<1>7. /\ tally' \in Tallies
      /\ \A m \in Contents : /\ tally'["spring"][m] = tally["spring"][m]
                             /\ m # x => tally'["go"][m] = tally["go"][m]
      /\ tally'["go"][x].accepted = tally["go"][x].accepted
      /\ tally'["go"][x].confirmed = tally["go"][x].confirmed + 1
      /\ tally'["go"][x].copies = tally["go"][x].copies
  <2>1. /\ tally' \in Tallies
        /\ \A m \in Contents : /\ tally'["spring"][m] = tally["spring"][m]
                               /\ m # x => tally'["go"][m] = tally["go"][m]
        /\ tally'["go"][x] = [tally["go"][x] EXCEPT !.confirmed = @ + 1]
    BY <1>1, <1>2, <1>6, TallyGo
  <2>2. /\ tally'["go"][x].accepted = tally["go"][x].accepted
        /\ tally'["go"][x].confirmed = tally["go"][x].confirmed + 1
        /\ tally'["go"][x].copies = tally["go"][x].copies
    BY <1>2, <1>6, <2>1 DEF Tallies
  <2> QED
    BY <2>1, <2>2
<1>8. TypeOK'
  BY <1>1, <1>4, <1>7, TypeParts, TypeNext, Zenon DEF IInv, ledgerVars
<1>9. \A y \in Requesters : RequestInv(y)'
  <2>1. q.pc # "idle" /\ q.pc # "send"
    BY <1>3
  <2> QED
    BY <1>1, <1>2, <1>3, <2>1, RequestsNext, Zenon DEF IInv
<1>10. \A y \in GoRequesters \ {r} : req'[y] = req[y]
  BY <1>4 DEF Requesters
<1>11. log' = log /\ stray' = stray /\ buffer' = buffer /\ faults' = faults
  BY <1>1 DEF ledgerVars
<1>12. ASSUME NEW m \in Contents
       PROVE  ContentInv(m)'
  <2>1. CASE m # x
    <3>1. m # Malformed
      BY PageviewEventsAssumption
    <3>2. /\ AllAwaited(m)' = AllAwaited(m) /\ AllAttempts(m)' = AllAttempts(m)
          /\ AllPending(m)' = AllPending(m)
      BY <1>3, <1>4, <1>8, <1>10, <2>1, <3>1, SumsOther DEF IInv, x
    <3> QED
      BY <1>7, <1>11, <2>1, <3>2, ContentSame DEF IInv
  <2>2. CASE m = x
    <3>1. /\ AllAwaited(m)' + 1 = AllAwaited(m) + 0
          /\ AllAttempts(m)' + Attempts(req[r], x) = AllAttempts(m) + 0
          /\ AllPending(m)' + 0 = AllPending(m) + 0
      BY <1>4, <1>5, <1>8, <1>10, <2>2, SumsUpdate DEF IInv
    <3>2. /\ AllAwaited(m) \in Nat /\ AllAttempts(m) \in Nat /\ AllPending(m) \in Nat
          /\ AllAwaited(m)' \in Nat /\ AllAttempts(m)' \in Nat /\ AllPending(m)' \in Nat
      BY <1>8, SumsType, SumsTypeNext DEF IInv
    <3>3. ContentInv(m)
      BY DEF IInv
    <3>4. tally'["go"][m].confirmed + AllAwaited(m)' <= tally'["go"][m].copies
      BY <1>7, <2>2, <3>1, <3>2, <3>3, Numbers DEF IInv, ContentInv
    <3>5. tally'["go"][m].copies + stray'[m] + AllAttempts(m)'
             <= (1 + RetryMax) * tally'["go"][m].accepted
      <4>1. AllAttempts(m)' <= AllAttempts(m)
        BY <1>5, <3>1, <3>2
      <4> QED
        BY <1>7, <1>11, <2>2, <3>2, <3>3, <4>1, Numbers DEF IInv, ContentInv
    <3>6. tally'["go"][m].copies + stray'[m] + AllPending(m)'
             <= tally'["go"][m].accepted + faults'
      BY <1>7, <1>11, <2>2, <3>1, <3>2, <3>3, Numbers DEF IInv, ContentInv
    <3>7. /\ tally'["spring"][m].copies + Cardinality(Places(buffer', m))
               <= tally'["spring"][m].accepted
          /\ Cardinality(Places(log', m)) = tally'["go"][m].copies + tally'["spring"][m].copies
      BY <1>7, <1>11, <2>2, <3>3 DEF ContentInv
    <3> QED
      BY <3>4, <3>5, <3>6, <3>7 DEF ContentInv
  <2> QED
    BY <2>1, <2>2
<1>13. TopicInv'
  <2>1. AllUnsent' + 0 = AllUnsent + 0
    BY <1>4, <1>5, <1>8, <1>10, SumsUpdate DEF IInv
  <2>2. AllUnsent' \in Nat
    BY <1>8, SumsTypeNext
  <2>3. /\ \A m \in Contents : tally'["go"][m].accepted = tally["go"][m].accepted
        /\ \A m \in Contents : tally'["spring"][m].accepted = tally["spring"][m].accepted
    BY <1>7
  <2>4. /\ Total("go", "accepted")' = Total("go", "accepted")
        /\ Total("spring", "accepted")' = Total("spring", "accepted")
    BY <2>3, TotalSame
  <2> QED
    BY <1>11, <2>1, <2>2, <2>4, TopicNumbers DEF IInv, TopicInv
<1>14. \A c \in Statistics : (RowInv(db[c]) /\ RowInv(backup[c]))'
  BY <1>1, RowsSame DEF IInv
<1> QED
  BY <1>8, <1>9, <1>12, <1>13, <1>14, Zenon DEF IInv

\* An attempt fails: the fault pays for the message that may yet come.
LEMMA FailStep ==
    ASSUME IInv, NEW r \in GoRequesters, AttemptFails(r)
    PROVE  IInv'
<1> DEFINE q == IF MayRetry(r) THEN Moved(req[r], "send") ELSE Answered("500")
           x == req[r].content
           d == IF req[r].pc = "sent" THEN 1 ELSE 0
<1>1. /\ req[r].pc \in {"sent", "appended"} /\ req' = [req EXCEPT ![r] = q]
      /\ stray' = IF req[r].pc = "sent" THEN [stray EXCEPT ![x] = @ + 1] ELSE stray
      /\ faults < MaxFaults /\ faults' = faults + 1
      /\ UNCHANGED <<ledgerVars, todo, exited, buffer, tally, crashes, restores>>
  BY DEF AttemptFails, Fault, Moved
<1>2. /\ r \in Requesters /\ req[r] \in Requests /\ x \in Contents /\ x # Malformed
  BY <1>1, OpenRequest
<1>3. /\ q \in Requests /\ Placed(q) /\ q.content \in {x, Malformed}
      /\ q.pc = "send" \/ q.pc = "answered"
      /\ q.pc = "send" => q.content = x /\ q.tries = req[r].tries /\ q.tries <= RetryMax
      /\ q.pc = "answered" => ~MayRetry(r)
  <2>1. CASE MayRetry(r)
    <3>1. /\ Moved(req[r], "send") \in Requests /\ Placed(Moved(req[r], "send"))
          /\ Moved(req[r], "send").pc = "send" /\ Moved(req[r], "send").content = x
          /\ Moved(req[r], "send").tries = req[r].tries
      BY <1>2, MovedType
    <3>2. req[r].tries <= RetryMax
      BY <2>1 DEF MayRetry
    <3> QED
      BY <2>1, <3>1, <3>2
  <2>2. CASE ~MayRetry(r)
    BY <2>2, NoRequestType
  <2> QED
    BY <2>1, <2>2
<1> HIDE DEF q
<1>4. /\ req' \in [Requesters -> Requests] /\ \A y \in Requesters : Placed(req'[y])
      /\ req'[r] = q /\ \A y \in Requesters \ {r} : req'[y] = req[y]
  BY <1>1, <1>2, <1>3, RequestType DEF IInv
<1>5. /\ Awaited(q, x) = 0 /\ Awaited(req[r], x) \in Nat
      /\ Attempts(req[r], x) \in Nat /\ Attempts(q, x) \in Nat
      /\ Attempts(q, x) + d <= Attempts(req[r], x)
      /\ Pending(q, x) \in Nat /\ Pending(req[r], x) \in Nat
      /\ Pending(q, x) + d <= Pending(req[r], x) + 1
      /\ Unsent(q) \in Nat /\ Unsent(req[r]) \in Nat
      /\ Unsent(q) + d <= Unsent(req[r]) + 1
  <2>1. /\ Awaited(req[r], x) \in Nat /\ Attempts(req[r], x) \in Nat
        /\ Pending(req[r], x) \in Nat /\ Unsent(req[r]) \in Nat
        /\ Attempts(q, x) \in Nat /\ Pending(q, x) \in Nat /\ Unsent(q) \in Nat
    BY <1>2, <1>3, WeightType
  <2>2. /\ Attempts(req[r], x) = RetryMax + 1 - req[r].tries + d
        /\ Pending(req[r], x) = d /\ Unsent(req[r]) = d
        /\ req[r].tries \in 0 .. RetryMax + 1 /\ RetryMax \in Nat
    BY <1>1, <1>2, WeightOf
  <2>3. CASE q.pc = "send"
    <3>1. /\ Awaited(q, x) = 0 /\ Attempts(q, x) = RetryMax + 1 - q.tries
          /\ Pending(q, x) = 1 /\ Unsent(q) = 1
      BY <1>3, <2>3, WeightOf
    <3> QED
      BY <1>3, <2>1, <2>2, <2>3, <3>1
  <2>4. CASE q.pc = "answered"
    <3>1. /\ Awaited(q, x) = 0 /\ Attempts(q, x) = 0 /\ Pending(q, x) = 0 /\ Unsent(q) = 0
      BY <1>2, <1>3, <2>4, WeightNone
    <3> QED
      BY <1>3, <2>1, <2>2, <2>4, <3>1
  <2> QED
    BY <1>3, <2>3, <2>4
<1>6. d \in {0, 1}
  OBVIOUS
<1>7. /\ stray' \in [Contents -> Nat] /\ stray'[x] = stray[x] + d
      /\ \A m \in Contents \ {x} : stray'[m] = stray[m]
  <2>1. stray \in [Contents -> Nat]
    BY TypeParts DEF IInv
  <2> QED
    BY <1>1, <1>2, <2>1
<1>8. Sum(Contents, stray') = Sum(Contents, stray) + d
  <2>1. stray \in [Contents -> Nat] /\ IsFiniteSet(Contents)
    BY TypeParts, PageviewEventsAssumption DEF IInv
  <2>2. /\ Sum(Contents, stray') + stray[x] = Sum(Contents, stray) + stray'[x]
        /\ Sum(Contents, stray') \in Nat /\ Sum(Contents, stray) \in Nat
    BY <1>2, <1>7, <2>1, SumUpdate
  <2>3. stray[x] \in Nat
    BY <1>2, <2>1
  <2> HIDE DEF d
  <2> QED
    BY <1>6, <1>7, <2>2, <2>3
<1> HIDE DEF x, d
<1>9. faults \in Nat /\ faults' \in 0 .. MaxFaults
  <2>1. faults \in 0 .. MaxFaults /\ MaxFaults \in Nat
    BY TypeParts, PageviewEventsAssumption DEF IInv
  <2> QED
    BY <1>1, <2>1
<1>10. TypeOK'
  BY <1>1, <1>4, <1>7, <1>9, TypeParts, TypeNext, Zenon DEF IInv, ledgerVars
<1>11. \A y \in Requesters : RequestInv(y)'
  <2>1. q.pc # "idle" /\ (q.pc = "send" => q.tries <= RetryMax)
    BY <1>3
  <2> QED
    BY <1>1, <1>2, <1>3, <2>1, RequestsNext, Zenon DEF IInv
<1>12. \A y \in GoRequesters \ {r} : req'[y] = req[y]
  BY <1>4 DEF Requesters
<1>13. log' = log /\ buffer' = buffer /\ tally' = tally /\ faults' = faults + 1
  BY <1>1 DEF ledgerVars
<1>14. ASSUME NEW m \in Contents
       PROVE  ContentInv(m)'
  <2>1. CASE m # x
    <3>1. m # Malformed
      BY PageviewEventsAssumption
    <3>2. /\ AllAwaited(m)' = AllAwaited(m) /\ AllAttempts(m)' = AllAttempts(m)
          /\ AllPending(m)' = AllPending(m)
      BY <1>3, <1>4, <1>10, <1>12, <2>1, <3>1, SumsOther DEF IInv, x
    <3> QED
      BY <1>7, <1>13, <2>1, <3>2, ContentSame DEF IInv
  <2>2. CASE m = x
    <3>1. /\ AllAwaited(m)' + Awaited(req[r], x) = AllAwaited(m) + 0
          /\ AllAttempts(m)' + Attempts(req[r], x) = AllAttempts(m) + Attempts(q, x)
          /\ AllPending(m)' + Pending(req[r], x) = AllPending(m) + Pending(q, x)
      BY <1>4, <1>5, <1>10, <1>12, <2>2, SumsUpdate DEF IInv
    <3>2. /\ AllAwaited(m) \in Nat /\ AllAttempts(m) \in Nat /\ AllPending(m) \in Nat
          /\ AllAwaited(m)' \in Nat /\ AllAttempts(m)' \in Nat /\ AllPending(m)' \in Nat
      BY <1>10, SumsType, SumsTypeNext DEF IInv
    <3>3. ContentInv(m)
      BY DEF IInv
    <3>4. tally'["go"][m].confirmed + AllAwaited(m)' <= tally'["go"][m].copies
      <4>1. AllAwaited(m)' <= AllAwaited(m)
        BY <1>5, <3>1, <3>2
      <4> QED
        BY <1>13, <3>2, <3>3, <4>1, Numbers DEF IInv, ContentInv
    <3>5. tally'["go"][m].copies + stray'[m] + AllAttempts(m)'
             <= (1 + RetryMax) * tally'["go"][m].accepted
      <4>1. AllAttempts(m)' + d <= AllAttempts(m)
        BY <1>5, <1>6, <3>1, <3>2
      <4> QED
        BY <1>6, <1>7, <1>13, <2>2, <3>2, <3>3, <4>1, Numbers DEF IInv, ContentInv
    <3>6. tally'["go"][m].copies + stray'[m] + AllPending(m)'
             <= tally'["go"][m].accepted + faults'
      <4>1. AllPending(m)' + d <= AllPending(m) + 1
        BY <1>5, <1>6, <3>1, <3>2
      <4> QED
        BY <1>6, <1>7, <1>13, <2>2, <3>2, <3>3, <4>1, Numbers DEF IInv, ContentInv
    <3>7. /\ tally'["spring"][m].copies + Cardinality(Places(buffer', m))
               <= tally'["spring"][m].accepted
          /\ Cardinality(Places(log', m)) = tally'["go"][m].copies + tally'["spring"][m].copies
      BY <1>13, <3>3 DEF ContentInv
    <3> QED
      BY <3>4, <3>5, <3>6, <3>7 DEF ContentInv
  <2> QED
    BY <2>1, <2>2
<1>15. TopicInv'
  <2>1. AllUnsent' + Unsent(req[r]) = AllUnsent + Unsent(q)
    BY <1>4, <1>10, <1>12, SumsUpdate DEF IInv
  <2>2. AllUnsent' \in Nat /\ AllUnsent \in Nat
    BY <1>10, SumsTypeNext, SumsType DEF IInv
  <2>3. AllUnsent' + d <= AllUnsent + 1
    <3> DEFINE a == AllUnsent
               b == AllUnsent'
               u == Unsent(req[r])
               v == Unsent(q)
    <3>1. /\ a \in Nat /\ b \in Nat /\ u \in Nat /\ v \in Nat /\ d \in Nat
          /\ b + u = a + v /\ v + d <= u + 1
      BY <1>5, <1>6, <2>1, <2>2
    <3> HIDE DEF a, b, u, v
    <3>2. b + d <= a + 1
      BY <3>1
    <3> QED
      BY <3>2 DEF a, b
  <2>4. /\ Total("go", "accepted")' = Total("go", "accepted")
        /\ Total("spring", "accepted")' = Total("spring", "accepted")
    BY <1>13, TotalSame
  <2> DEFINE a == AllUnsent
             b == AllUnsent'
             t == Total("go", "accepted") + Total("spring", "accepted")
             l == Len(log)
             k == Len(buffer)
             s == Sum(Contents, stray)
  <2>5. a \in Nat /\ b \in Nat /\ t \in Nat /\ l \in Nat /\ k \in Nat /\ s \in Nat
    BY <2>2, TopicNumbers DEF IInv
  <2>6. l + s + a + k <= t + faults
    BY DEF IInv, TopicInv
  <2>7. TopicInv' <=> l + (s + d) + b + k <= t + (faults + 1)
    BY <1>8, <1>13, <2>4 DEF TopicInv
  <2>8. b + d <= a + 1
    BY <2>3
  <2> HIDE DEF a, b, t, l, k, s
  <2> QED
    BY <1>6, <1>9, <2>5, <2>6, <2>7, <2>8
<1>16. \A c \in Statistics : (RowInv(db[c]) /\ RowInv(backup[c]))'
  BY <1>1, RowsSame DEF IInv
<1> QED
  BY <1>10, <1>11, <1>14, <1>15, <1>16, Zenon DEF IInv

\* An abandoned attempt arrives.
LEMMA StrayStep ==
    ASSUME IInv, NEW x \in Contents, StrayArrives(x)
    PROVE  IInv'
<1>1. /\ stray[x] > 0 /\ stray' = [stray EXCEPT ![x] = @ - 1] /\ AppendToLog(x)
      /\ tally' = [tally EXCEPT !["go"][x].copies = @ + 1]
      /\ UNCHANGED <<req, todo, exited, buffer, faults, crashes, restores>>
  BY DEF StrayArrives, boundVars
<1>2. stray \in [Contents -> Nat] /\ log \in Seq(Contents) /\ IsFiniteSet(Contents)
  BY TypeParts, PageviewEventsAssumption DEF IInv
<1>3. /\ stray' \in [Contents -> Nat] /\ stray'[x] = stray[x] - 1 /\ stray[x] \in Nat
      /\ \A m \in Contents \ {x} : stray'[m] = stray[m]
  BY <1>1, <1>2
<1>4. Sum(Contents, stray') = Sum(Contents, stray) - 1
  <2>1. /\ Sum(Contents, stray') + stray[x] = Sum(Contents, stray) + stray'[x]
        /\ Sum(Contents, stray') \in Nat /\ Sum(Contents, stray) \in Nat
    BY <1>2, <1>3, SumUpdate
  <2> QED
    BY <1>3, <2>1
<1>5. /\ log' \in Seq(Contents) /\ Len(log') = Len(log) + 1 /\ log' = Append(log, x)
      /\ db' \in [Statistics -> Rows(Len(log'))] /\ backup' \in [Statistics -> Rows(Len(log'))]
  BY <1>1, RowsLonger DEF IInv, AppendToLog
<1>6. /\ tally' \in Tallies
      /\ \A m \in Contents : /\ tally'["spring"][m] = tally["spring"][m]
                             /\ m # x => tally'["go"][m] = tally["go"][m]
                             /\ tally'["go"][m].accepted = tally["go"][m].accepted
      /\ tally'["go"][x].confirmed = tally["go"][x].confirmed
      /\ tally'["go"][x].copies = tally["go"][x].copies + 1
      /\ Total("go", "accepted")' = Total("go", "accepted")
      /\ Total("spring", "accepted")' = Total("spring", "accepted")
  BY <1>1, CopiesUp DEF IInv
<1>7. TypeOK'
  BY <1>1, <1>3, <1>5, <1>6, TypeParts, TypeNext, Zenon DEF IInv
<1>8. \A y \in Requesters : RequestInv(y)'
  BY <1>1, Zenon DEF IInv, RequestInv, NoRequest
<1>9. \A m : Cardinality(Places(log', m)) = Cardinality(Places(log, m))
                                              + (IF x = m THEN 1 ELSE 0)
  BY <1>2, <1>5, PlacesAppend
<1>10. req' = req /\ buffer' = buffer /\ faults' = faults
  BY <1>1
<1>11. ASSUME NEW m \in Contents
       PROVE  ContentInv(m)'
  <2>1. /\ AllAwaited(m)' = AllAwaited(m) /\ AllAttempts(m)' = AllAttempts(m)
        /\ AllPending(m)' = AllPending(m)
    BY <1>10, SumsSame
  <2>2. CASE m # x
    <3>1. Cardinality(Places(log', m)) = Cardinality(Places(log, m))
      BY <1>9, <2>2, Numbers DEF IInv
    <3> QED
      BY <1>3, <1>6, <1>10, <2>1, <2>2, <3>1, ContentSame DEF IInv
  <2>3. CASE m = x
    <3>1. ContentInv(m)
      BY DEF IInv
    <3>2. /\ AllAwaited(m) \in Nat /\ AllAttempts(m) \in Nat /\ AllPending(m) \in Nat
      BY SumsType DEF IInv
    <3>3. tally'["go"][m].confirmed + AllAwaited(m)' <= tally'["go"][m].copies
      BY <1>6, <2>1, <2>3, <3>1, <3>2, Numbers DEF IInv, ContentInv
    <3>4. tally'["go"][m].copies + stray'[m] + AllAttempts(m)'
             <= (1 + RetryMax) * tally'["go"][m].accepted
      BY <1>3, <1>6, <2>1, <2>3, <3>1, <3>2, Numbers DEF IInv, ContentInv
    <3>5. tally'["go"][m].copies + stray'[m] + AllPending(m)'
             <= tally'["go"][m].accepted + faults'
      BY <1>3, <1>6, <1>10, <2>1, <2>3, <3>1, <3>2, Numbers DEF IInv, ContentInv
    <3>6. tally'["spring"][m].copies + Cardinality(Places(buffer', m))
             <= tally'["spring"][m].accepted
      BY <1>6, <1>10, <3>1 DEF ContentInv
    <3>7. Cardinality(Places(log', m)) = tally'["go"][m].copies + tally'["spring"][m].copies
      BY <1>6, <1>9, <2>3, <3>1, Numbers DEF IInv, ContentInv
    <3> QED
      BY <3>3, <3>4, <3>5, <3>6, <3>7 DEF ContentInv
  <2> QED
    BY <2>2, <2>3
<1>12. TopicInv'
  <2>1. AllUnsent' = AllUnsent
    BY <1>10, SumsSame
  <2> QED
    BY <1>4, <1>5, <1>6, <1>10, <2>1, TopicNumbers DEF IInv, TopicInv
<1>13. \A c \in Statistics : (RowInv(db[c]) /\ RowInv(backup[c]))'
  BY <1>1, RowsAppend DEF IInv
<1> QED
  BY <1>7, <1>8, <1>11, <1>12, <1>13, Zenon DEF IInv

-----------------------------------------------------------------------------
(* The steps of the Spring service                                         *)

\* Its requests stand for nothing; only the buffer holds messages.
LEMMA SpringTally ==
    ASSUME TypeOK, NEW x \in Contents
    PROVE  /\ tally' = [tally EXCEPT !["spring"][x].accepted = @ + 1,
                                     !["spring"][x].confirmed = @ + 1]
              => /\ tally' \in Tallies
                 /\ \A m \in Contents : /\ tally'["go"][m] = tally["go"][m]
                                        /\ m # x => tally'["spring"][m] = tally["spring"][m]
                 /\ tally'["spring"][x].accepted = tally["spring"][x].accepted + 1
                 /\ tally'["spring"][x].copies = tally["spring"][x].copies
                 /\ Total("go", "accepted")' = Total("go", "accepted")
                 /\ Total("spring", "accepted")' = Total("spring", "accepted") + 1
           /\ tally' = [tally EXCEPT !["spring"][x].copies = @ + 1]
              => /\ tally' \in Tallies
                 /\ \A m \in Contents : /\ tally'["go"][m] = tally["go"][m]
                                        /\ m # x => tally'["spring"][m] = tally["spring"][m]
                 /\ tally'["spring"][x].accepted = tally["spring"][x].accepted
                 /\ tally'["spring"][x].copies = tally["spring"][x].copies + 1
                 /\ Total("go", "accepted")' = Total("go", "accepted")
                 /\ Total("spring", "accepted")' = Total("spring", "accepted")
<1>1. tally \in Tallies
  BY TypeParts
<1>2. ASSUME tally' = [tally EXCEPT !["spring"][x].accepted = @ + 1,
                                    !["spring"][x].confirmed = @ + 1]
      PROVE  /\ tally' \in Tallies
             /\ \A m \in Contents : /\ tally'["go"][m] = tally["go"][m]
                                    /\ m # x => tally'["spring"][m] = tally["spring"][m]
             /\ tally'["spring"][x].accepted = tally["spring"][x].accepted + 1
             /\ tally'["spring"][x].copies = tally["spring"][x].copies
             /\ Total("go", "accepted")' = Total("go", "accepted")
             /\ Total("spring", "accepted")' = Total("spring", "accepted") + 1
  <2>1. /\ tally' \in Tallies
        /\ \A m \in Contents : /\ tally'["go"][m] = tally["go"][m]
                               /\ m # x => tally'["spring"][m] = tally["spring"][m]
        /\ tally'["spring"][x].accepted = tally["spring"][x].accepted + 1
        /\ tally'["spring"][x].copies = tally["spring"][x].copies
    BY <1>1, <1>2, TallySpring
  <2>2. Total("go", "accepted")' = Total("go", "accepted")
    BY <2>1, TotalSame
  <2>3. Total("spring", "accepted")' = Total("spring", "accepted") + 1
    BY <1>1, <2>1, TotalUpdate
  <2> QED
    BY <2>1, <2>2, <2>3
<1>3. ASSUME tally' = [tally EXCEPT !["spring"][x].copies = @ + 1]
      PROVE  /\ tally' \in Tallies
             /\ \A m \in Contents : /\ tally'["go"][m] = tally["go"][m]
                                    /\ m # x => tally'["spring"][m] = tally["spring"][m]
             /\ tally'["spring"][x].accepted = tally["spring"][x].accepted
             /\ tally'["spring"][x].copies = tally["spring"][x].copies + 1
             /\ Total("go", "accepted")' = Total("go", "accepted")
             /\ Total("spring", "accepted")' = Total("spring", "accepted")
  <2>1. /\ tally' \in Tallies
        /\ \A m \in Contents : /\ tally'["go"][m] = tally["go"][m]
                               /\ m # x => tally'["spring"][m] = tally["spring"][m]
        /\ tally'["spring"][x] = [tally["spring"][x] EXCEPT !.copies = @ + 1]
    BY <1>1, <1>3, TallySpring
  <2>2. /\ tally'["spring"][x].accepted = tally["spring"][x].accepted
        /\ tally'["spring"][x].copies = tally["spring"][x].copies + 1
    BY <1>1, <2>1 DEF Tallies
  <2>3. Total("go", "accepted")' = Total("go", "accepted")
    BY <2>1, TotalSame
  <2>4. Total("spring", "accepted")' = Total("spring", "accepted")
    <3>1. \A m \in Contents : tally'["spring"][m].accepted = tally["spring"][m].accepted
      BY <2>1, <2>2
    <3> QED
      BY <3>1, TotalSame
  <2> QED
    BY <2>1, <2>2, <2>3, <2>4
<1> QED
  BY <1>2, <1>3

LEMMA ViewStep ==
    ASSUME IInv, NEW r \in SpringRequesters, NEW method, NEW id \in Contents \cup {Malformed},
           contentView(r, method, id)
    PROVE  IInv'
<1>0. r \in Requesters
  BY DEF Requesters
<1>1. /\ todo' \in [Requesters -> 0 .. MaxViews] /\ exited' = exited
      /\ stray' = stray /\ UNCHANGED ledgerVars
      /\ req[r].pc = "idle" /\ req[r] = NoRequest
  BY <1>0, TakesType DEF contentView
<1>2. UNCHANGED <<crashes, restores>>
  BY DEF contentView
<1>3. exited \in BOOLEAN /\ faults \in 0 .. MaxFaults /\ MaxFaults \in Nat
  BY TypeParts, PageviewEventsAssumption DEF IInv
<1>4. CASE id = Malformed \/ method # "GET"
  <2>1. PICK status \in {"405", "400"} : req' = [req EXCEPT ![r] = Answered(status)]
    BY <1>4 DEF contentView
  <2>2. tally' = tally /\ buffer' = buffer /\ faults' = faults
    BY <1>4 DEF contentView
  <2>3. /\ Answered(status) \in Requests /\ Placed(Answered(status))
        /\ Answered(status).pc = "answered"
    BY NoRequestType
  <2> QED
    BY <1>0, <1>1, <1>2, <1>3, <2>1, <2>2, <2>3, QuietStep DEF ledgerVars
<1> DEFINE q == Answered("204")
           handed == /\ req' = [req EXCEPT ![r] = q]
                     /\ tally' = [tally EXCEPT !["spring"][id].accepted = @ + 1,
                                               !["spring"][id].confirmed = @ + 1]
                     /\ buffer' = Append(buffer, id)
                     /\ faults' = faults
<1>5. CASE ~(id = Malformed \/ method # "GET") /\ handed
  <2>1. /\ id \in Contents /\ req' = [req EXCEPT ![r] = q]
        /\ tally' = [tally EXCEPT !["spring"][id].accepted = @ + 1,
                                  !["spring"][id].confirmed = @ + 1]
        /\ buffer' = Append(buffer, id) /\ faults' = faults
    BY <1>5
  <2>2. q \in Requests /\ Placed(q) /\ q.pc = "answered"
    BY NoRequestType
  <2> HIDE DEF q
  <2>3. /\ req' \in [Requesters -> Requests] /\ \A x \in Requesters : Placed(req'[x])
        /\ req'[r] = q /\ \A x \in Requesters \ {r} : req'[x] = req[x]
    BY <1>0, <2>1, <2>2, RequestType DEF IInv
  <2>4. /\ tally' \in Tallies
        /\ \A m \in Contents : /\ tally'["go"][m] = tally["go"][m]
                               /\ m # id => tally'["spring"][m] = tally["spring"][m]
        /\ tally'["spring"][id].accepted = tally["spring"][id].accepted + 1
        /\ tally'["spring"][id].copies = tally["spring"][id].copies
        /\ Total("go", "accepted")' = Total("go", "accepted")
        /\ Total("spring", "accepted")' = Total("spring", "accepted") + 1
    BY <2>1, SpringTally, Zenon DEF IInv
  <2>5. buffer \in Seq(Contents) /\ faults \in Nat
    BY TypeParts DEF IInv
  <2>6. /\ buffer' \in Seq(Contents) /\ faults' \in 0 .. MaxFaults
        /\ faults' = faults \/ faults' = faults + 1
        /\ Len(buffer') <= Len(buffer) + 1
        /\ \A m : buffer' = buffer
                    \/ Cardinality(Places(buffer', m)) = Cardinality(Places(buffer, m))
                                                           + (IF id = m THEN 1 ELSE 0)
    <3>1. \A m : Cardinality(Places(buffer', m)) = Cardinality(Places(buffer, m))
                                                     + (IF id = m THEN 1 ELSE 0)
      BY <2>1, <2>5, PlacesAppend
    <3>2. buffer' \in Seq(Contents) /\ Len(buffer') = Len(buffer) + 1 /\ Len(buffer) \in Nat
      BY <2>1, <2>5
    <3> QED
      BY <1>3, <2>1, <2>5, <3>1, <3>2
  <2>7. TypeOK'
    BY <1>1, <1>2, <2>3, <2>4, <2>6, TypeParts, TypeNext, Zenon DEF IInv, ledgerVars
  <2>8. \A x \in Requesters : RequestInv(x)'
    <3>1. q.pc # "idle" /\ q.pc # "send"
      BY <2>2
    <3> QED
      BY <1>0, <2>1, <2>2, <3>1, RequestsNext, Zenon DEF IInv
  <2>9. \A x \in GoRequesters : req'[x] = req[x]
    BY <2>3, PageviewEventsAssumption DEF Requesters
  <2>10. ASSUME NEW m \in Contents
         PROVE  ContentInv(m)'
    <3>1. /\ AllAwaited(m)' = AllAwaited(m) /\ AllAttempts(m)' = AllAttempts(m)
          /\ AllPending(m)' = AllPending(m)
      BY <2>9, SumsSame
    <3>2. stray' = stray /\ log' = log
      BY <1>1 DEF ledgerVars
    <3>3. CASE m # id
      <4>1. Cardinality(Places(buffer', m)) = Cardinality(Places(buffer, m))
        <5>1. Cardinality(Places(buffer, m)) \in Nat
          BY Numbers DEF IInv
        <5>2. \/ buffer' = buffer
              \/ Cardinality(Places(buffer', m)) = Cardinality(Places(buffer, m)) + 0
          BY <2>6, <3>3
        <5> QED
          BY <5>1, <5>2
      <4>2. tally'["go"][m] = tally["go"][m] /\ tally'["spring"][m] = tally["spring"][m]
        BY <2>4, <3>3
      <4>3. faults' = faults \/ faults' = faults + 1
        BY <2>6
      <4> QED
        BY <3>1, <3>2, <4>1, <4>2, <4>3, ContentSame DEF IInv
    <3>4. CASE m = id
      <4>1. ContentInv(m)
        BY DEF IInv
      <4>2. Cardinality(Places(buffer', m)) \in {Cardinality(Places(buffer, m)),
                                                 Cardinality(Places(buffer, m)) + 1}
        BY <2>6, <3>4
      <4>3. tally'["spring"][m].copies + Cardinality(Places(buffer', m))
              <= tally'["spring"][m].accepted
        BY <2>4, <3>4, <4>1, <4>2, Numbers DEF IInv, ContentInv
      <4>4. /\ AllAwaited(m) \in Nat /\ AllAttempts(m) \in Nat /\ AllPending(m) \in Nat
        BY SumsType DEF IInv
      <4>5. tally'["go"][m].copies + stray'[m] + AllPending(m)'
              <= tally'["go"][m].accepted + faults'
        <5>1. tally["go"][m].copies + stray[m] + AllPending(m) <= tally["go"][m].accepted + faults
          BY <4>1 DEF ContentInv
        <5>2. faults' = faults \/ faults' = faults + 1
          BY <2>6
        <5>3. tally'["go"][m] = tally["go"][m]
          BY <2>4
        <5> QED
          BY <3>1, <3>2, <4>4, <5>1, <5>2, <5>3, Numbers DEF IInv
      <4>6. /\ tally'["go"][m].confirmed + AllAwaited(m)' <= tally'["go"][m].copies
            /\ tally'["go"][m].copies + stray'[m] + AllAttempts(m)'
                 <= (1 + RetryMax) * tally'["go"][m].accepted
            /\ Cardinality(Places(log', m))
                 = tally'["go"][m].copies + tally'["spring"][m].copies
        BY <2>4, <3>1, <3>2, <3>4, <4>1 DEF ContentInv
      <4> QED
        BY <4>3, <4>5, <4>6 DEF ContentInv
    <3> QED
      BY <3>3, <3>4
  <2>11. TopicInv'
    <3>1. AllUnsent' = AllUnsent /\ stray' = stray /\ log' = log
      BY <1>1, <2>9, SumsSame DEF ledgerVars
    <3>2. /\ Len(buffer') \in Nat /\ faults' \in Nat /\ faults \in Nat
          /\ Len(buffer') <= Len(buffer) + 1 /\ faults <= faults'
      BY <2>5, <2>6
    <3> DEFINE a == Total("go", "accepted") + Total("spring", "accepted")
               b == Len(log) + Sum(Contents, stray) + AllUnsent
               k == Len(buffer)
               n == Len(buffer')
    <3>3. a \in Nat /\ b \in Nat /\ k \in Nat /\ n \in Nat /\ n <= k + 1
      BY <3>2, TopicNumbers DEF IInv
    <3>4. b + k <= a + faults
      BY DEF IInv, TopicInv
    <3>5. TopicInv' <=> b + n <= a + 1 + faults'
      <4>1. /\ Total("go", "accepted")' = Total("go", "accepted")
            /\ Total("spring", "accepted")' = Total("spring", "accepted") + 1
        BY <2>4
      <4>2. Total("go", "accepted") + (Total("spring", "accepted") + 1) = a + 1
        BY TopicNumbers DEF IInv
      <4> QED
        BY <3>1, <4>1, <4>2, Zenon DEF TopicInv
    <3>6. faults \in Nat /\ faults' \in Nat /\ faults <= faults'
      BY <3>2
    <3> HIDE DEF a, b, k, n
    <3>7. b + n <= a + 1 + faults'
      <4>1. \A i, j, l, o, f, g \in Nat :
              o <= l + 1 /\ j + l <= i + f /\ f <= g => j + o <= i + 1 + g
        OBVIOUS
      <4> QED
        BY <3>3, <3>4, <3>6, <4>1, Zenon
    <3> QED
      BY <3>5, <3>7
  <2>12. \A c \in Statistics : (RowInv(db[c]) /\ RowInv(backup[c]))'
    BY <1>1, RowsSame DEF IInv
  <2> QED
    BY <2>7, <2>8, <2>10, <2>11, <2>12, Zenon DEF IInv
<1>6. CASE ~(id = Malformed \/ method # "GET") /\ ~handed
  <2>1. /\ req' = [req EXCEPT ![r] = Answered("500")]
        /\ faults < MaxFaults /\ faults' = faults + 1
        /\ tally' = tally /\ buffer' = buffer
    BY <1>6 DEF contentView
  <2>2. /\ Answered("500") \in Requests /\ Placed(Answered("500"))
        /\ Answered("500").pc = "answered"
    BY NoRequestType
  <2>3. faults' \in 0 .. MaxFaults
    BY <1>3, <2>1
  <2> QED
    BY <1>0, <1>1, <1>2, <1>3, <2>1, <2>2, <2>3, QuietStep DEF ledgerVars
<1> QED
  BY <1>4, <1>5, <1>6

\* The sender takes the first message of its buffer.
LEMMA SenderStep ==
    ASSUME IInv, SenderSends \/ SenderGivesUp
    PROVE  IInv'
<1> DEFINE x == Head(buffer)
<1>1. /\ buffer # <<>> /\ buffer' = Tail(buffer)
      /\ UNCHANGED <<req, todo, exited, stray, crashes, restores>>
  BY DEF SenderSends, SenderGivesUp, Fault, boundVars
<1>2. /\ log \in Seq(Contents) /\ buffer \in Seq(Contents) /\ tally \in Tallies
      /\ faults \in 0 .. MaxFaults /\ MaxFaults \in Nat
  BY TypeParts, PageviewEventsAssumption DEF IInv
<1>3. /\ x \in Contents /\ buffer' \in Seq(Contents) /\ Len(buffer') = Len(buffer) - 1
  BY <1>1, <1>2
<1>4. \A m : Cardinality(Places(buffer', m)) + (IF x = m THEN 1 ELSE 0)
               = Cardinality(Places(buffer, m))
  BY <1>1, <1>2, PlacesTail
<1>5. \A y \in Requesters : RequestInv(y)'
  BY <1>1, Zenon DEF IInv, RequestInv, NoRequest
<1>6. \A m : Cardinality(Places(buffer', m)) \in Nat
  BY <1>3, PlacesType
<1>7. CASE SenderSends
  <2>1. /\ AppendToLog(x) /\ tally' = [tally EXCEPT !["spring"][x].copies = @ + 1]
        /\ faults' = faults
    BY <1>7 DEF SenderSends, boundVars
  <2> HIDE DEF x
  <2>2. /\ log' \in Seq(Contents) /\ Len(log') = Len(log) + 1 /\ log' = Append(log, x)
        /\ db' \in [Statistics -> Rows(Len(log'))]
        /\ backup' \in [Statistics -> Rows(Len(log'))]
    BY <1>3, <2>1, RowsLonger DEF IInv, AppendToLog
  <2>3. /\ tally' \in Tallies
        /\ \A m \in Contents : /\ tally'["go"][m] = tally["go"][m]
                               /\ m # x => tally'["spring"][m] = tally["spring"][m]
        /\ tally'["spring"][x].accepted = tally["spring"][x].accepted
        /\ tally'["spring"][x].copies = tally["spring"][x].copies + 1
        /\ Total("go", "accepted")' = Total("go", "accepted")
        /\ Total("spring", "accepted")' = Total("spring", "accepted")
    BY <1>3, <2>1, SpringTally DEF IInv
  <2>4. TypeOK'
    BY <1>1, <1>3, <2>1, <2>2, <2>3, TypeParts, TypeNext, Zenon DEF IInv
  <2>5. \A m : Cardinality(Places(log', m)) = Cardinality(Places(log, m))
                                                + (IF x = m THEN 1 ELSE 0)
    BY <1>2, <1>3, <2>2, PlacesAppend
  <2>6. ASSUME NEW m \in Contents
        PROVE  ContentInv(m)'
    <3>1. /\ AllAwaited(m)' = AllAwaited(m) /\ AllAttempts(m)' = AllAttempts(m)
          /\ AllPending(m)' = AllPending(m) /\ stray' = stray
      BY <1>1, SumsSame
    <3>2. ContentInv(m)
      BY DEF IInv
    <3>3. /\ tally'["go"][m].confirmed + AllAwaited(m)' <= tally'["go"][m].copies
          /\ tally'["go"][m].copies + stray'[m] + AllAttempts(m)'
               <= (1 + RetryMax) * tally'["go"][m].accepted
          /\ tally'["go"][m].copies + stray'[m] + AllPending(m)'
               <= tally'["go"][m].accepted + faults'
      BY <2>1, <2>3, <3>1, <3>2 DEF ContentInv
    <3>4. /\ tally'["spring"][m].copies = tally["spring"][m].copies + (IF x = m THEN 1 ELSE 0)
          /\ tally'["spring"][m].accepted = tally["spring"][m].accepted
      BY <2>3, Numbers DEF IInv
    <3>5. tally'["spring"][m].copies + Cardinality(Places(buffer', m))
            <= tally'["spring"][m].accepted
      BY <1>4, <1>6, <3>2, <3>4, Numbers DEF IInv, ContentInv
    <3>6. Cardinality(Places(log', m)) = tally'["go"][m].copies + tally'["spring"][m].copies
      BY <2>3, <2>5, <3>2, <3>4, Numbers DEF IInv, ContentInv
    <3> QED
      BY <3>3, <3>5, <3>6 DEF ContentInv
  <2>7. TopicInv'
    <3>1. AllUnsent' = AllUnsent /\ stray' = stray
      BY <1>1, SumsSame
    <3> QED
      BY <1>3, <2>1, <2>2, <2>3, <3>1, TopicNumbers DEF IInv, TopicInv
  <2>8. \A c \in Statistics : (RowInv(db[c]) /\ RowInv(backup[c]))'
    BY <1>3, <2>1, RowsAppend DEF IInv
  <2> QED
    BY <1>5, <2>4, <2>6, <2>7, <2>8, Zenon DEF IInv
<1>8. CASE SenderGivesUp
  <2>1. /\ tally' = tally /\ faults < MaxFaults /\ faults' = faults + 1
        /\ log' = log /\ db' = db /\ backup' = backup
    BY <1>8 DEF SenderGivesUp, Fault, ledgerVars
  <2>2. faults' \in 0 .. MaxFaults
    BY <1>2, <2>1
  <2> HIDE DEF x
  <2>3. TypeOK'
    BY <1>1, <1>3, <2>1, <2>2, TypeParts, TypeNext, Zenon DEF IInv
  <2>4. ASSUME NEW m \in Contents
        PROVE  ContentInv(m)'
    <3>1. /\ AllAwaited(m)' = AllAwaited(m) /\ AllAttempts(m)' = AllAttempts(m)
          /\ AllPending(m)' = AllPending(m) /\ stray' = stray
      BY <1>1, SumsSame
    <3>2. ContentInv(m)
      BY DEF IInv
    <3>3. /\ tally'["go"][m].confirmed + AllAwaited(m)' <= tally'["go"][m].copies
          /\ tally'["go"][m].copies + stray'[m] + AllAttempts(m)'
               <= (1 + RetryMax) * tally'["go"][m].accepted
          /\ Cardinality(Places(log', m)) = tally'["go"][m].copies + tally'["spring"][m].copies
      BY <2>1, <3>1, <3>2 DEF ContentInv
    <3>4. AllPending(m) \in Nat
      BY SumsType DEF IInv
    <3>5. tally'["go"][m].copies + stray'[m] + AllPending(m)'
            <= tally'["go"][m].accepted + faults'
      BY <2>1, <3>1, <3>2, <3>4, Numbers DEF IInv, ContentInv
    <3>6. tally'["spring"][m].copies + Cardinality(Places(buffer', m))
            <= tally'["spring"][m].accepted
      BY <1>4, <1>6, <2>1, <3>2, Numbers DEF IInv, ContentInv
    <3> QED
      BY <3>3, <3>5, <3>6 DEF ContentInv
  <2>5. TopicInv'
    <3>1. AllUnsent' = AllUnsent /\ stray' = stray
      BY <1>1, SumsSame
    <3>2. /\ Total("go", "accepted")' = Total("go", "accepted")
          /\ Total("spring", "accepted")' = Total("spring", "accepted")
      BY <2>1, TotalSame
    <3> QED
      BY <1>3, <2>1, <3>1, <3>2, TopicNumbers DEF IInv, TopicInv
  <2>6. \A c \in Statistics : (RowInv(db[c]) /\ RowInv(backup[c]))'
    BY <2>1, RowsSame DEF IInv, ledgerVars
  <2> QED
    BY <1>5, <2>3, <2>4, <2>5, <2>6, Zenon DEF IInv
<1> QED
  BY <1>7, <1>8

-----------------------------------------------------------------------------
(* Crashes                                                                 *)

\* A crash ends the requests of a service.
LEMMA CrashRequests ==
    ASSUME IInv, NEW served \in SUBSET Requesters, Crash(served)
    PROVE  /\ req' \in [Requesters -> Requests] /\ \A x \in Requesters : Placed(req'[x])
           /\ \A x \in Requesters : req'[x] = IF x \in served THEN NoRequest ELSE req[x]
           /\ \A x \in Requesters : RequestInv(x)'
           /\ exited' \in BOOLEAN /\ crashes' \in 0 .. MaxCrashes
           /\ UNCHANGED <<ledgerVars, todo, tally, faults, restores>>
<1>1. /\ req \in [Requesters -> Requests] /\ \A x \in Requesters : Placed(req[x])
      /\ crashes \in 0 .. MaxCrashes /\ MaxCrashes \in Nat
  BY TypeParts, PageviewEventsAssumption DEF IInv
<1>2. NoRequest \in Requests /\ Placed(NoRequest) /\ NoRequest.pc = "idle"
  BY NoRequestType
<1>3. req' = [x \in Requesters |-> IF x \in served THEN NoRequest ELSE req[x]]
  BY DEF Crash
<1>4. /\ req' \in [Requesters -> Requests] /\ \A x \in Requesters : Placed(req'[x])
      /\ \A x \in Requesters : req'[x] = IF x \in served THEN NoRequest ELSE req[x]
  BY <1>1, <1>2, <1>3
<1>5. ASSUME NEW x \in Requesters
      PROVE  RequestInv(x)'
  <2>1. CASE x \in served
    BY <1>2, <1>4, <2>1 DEF RequestInv, NoRequest
  <2>2. CASE x \notin served
    <3>1. req'[x] = req[x] /\ RequestInv(x)
      BY <1>4, <2>2 DEF IInv
    <3> QED
      BY <3>1, Zenon DEF RequestInv, NoRequest
  <2> QED
    BY <2>1, <2>2
<1>6. exited' \in BOOLEAN
  BY Zenon DEF Crash
<1>7. crashes' \in 0 .. MaxCrashes
  BY <1>1 DEF Crash
<1>8. UNCHANGED <<ledgerVars, todo, tally, faults, restores>>
  BY DEF Crash
<1> QED
  BY <1>4, <1>5, <1>6, <1>7, <1>8

\* What was sent and not appended becomes an abandoned attempt.
LEMMA CrashStrays ==
    ASSUME IInv, CrashGo
    PROVE  /\ stray' \in [Contents -> Nat] /\ Sum(Contents, stray') \in Nat
           /\ \A m \in Contents : /\ stray'[m] <= stray[m] + AllAttempts(m)
                                  /\ stray'[m] <= stray[m] + AllPending(m)
           /\ Sum(Contents, stray') <= Sum(Contents, stray) + AllUnsent
<1> DEFINE On(m) == {r \in GoRequesters : req[r].pc = "sent" /\ req[r].content = m}
           T == {r \in GoRequesters : req[r].pc = "sent"}
<1>1. /\ stray \in [Contents -> Nat] /\ IsFiniteSet(Contents) /\ IsFiniteSet(GoRequesters)
      /\ stray' = [m \in Contents |-> stray[m] + Cardinality(On(m))]
  BY TypeParts, PageviewEventsAssumption DEF IInv, CrashGo
<1>2. \A r \in GoRequesters : req[r] \in Requests /\ Placed(req[r])
  BY TypeParts DEF IInv, Requesters
<1>3. ASSUME NEW m \in Contents
      PROVE  /\ Cardinality(On(m)) \in Nat
             /\ Cardinality(On(m)) <= AllAttempts(m) /\ Cardinality(On(m)) <= AllPending(m)
  <2>1. /\ [r \in GoRequesters |-> Attempts(req[r], m)] \in [GoRequesters -> Nat]
        /\ [r \in GoRequesters |-> Pending(req[r], m)] \in [GoRequesters -> Nat]
    BY <1>2, WeightType
  <2>2. ASSUME NEW r \in On(m)
        PROVE  Attempts(req[r], m) > 0 /\ Pending(req[r], m) > 0
    <3>1. r \in GoRequesters /\ req[r] \in Requests /\ req[r].pc = "sent" /\ req[r].content = m
      BY <1>2
    <3>2. /\ Attempts(req[r], m) = RetryMax + 2 - req[r].tries /\ Pending(req[r], m) = 1
          /\ req[r].tries \in 0 .. RetryMax + 1 /\ RetryMax \in Nat
      BY <3>1, WeightOf
    <3> QED
      BY <3>2
  <2>3. On(m) \in SUBSET GoRequesters
    OBVIOUS
  <2> HIDE DEF On
  <2>4. Cardinality(On(m)) <= AllAttempts(m) /\ Cardinality(On(m)) \in Nat
    <3> DEFINE g == [r \in GoRequesters |-> Attempts(req[r], m)]
    <3>1. g \in [GoRequesters -> Nat] /\ \A r \in On(m) : g[r] > 0
      BY <2>1, <2>2, <2>3
    <3>2. AllAttempts(m) = Sum(GoRequesters, g)
      BY DEF AllAttempts
    <3> HIDE DEF g
    <3> QED
      BY <1>1, <2>3, <3>1, <3>2, SumCounts
  <2>5. Cardinality(On(m)) <= AllPending(m)
    <3> DEFINE g == [r \in GoRequesters |-> Pending(req[r], m)]
    <3>1. g \in [GoRequesters -> Nat] /\ \A r \in On(m) : g[r] > 0
      BY <2>1, <2>2, <2>3
    <3>2. AllPending(m) = Sum(GoRequesters, g)
      BY DEF AllPending
    <3> HIDE DEF g
    <3> QED
      BY <1>1, <2>3, <3>1, <3>2, SumCounts
  <2> QED
    BY <2>4, <2>5
<1>4. /\ stray' \in [Contents -> Nat]
      /\ \A m \in Contents : stray'[m] = stray[m] + Cardinality(On(m))
  <2> HIDE DEF On
  <2> QED
    BY <1>1, <1>3
<1>5. ASSUME NEW m \in Contents
      PROVE  stray'[m] <= stray[m] + AllAttempts(m) /\ stray'[m] <= stray[m] + AllPending(m)
  <2>1. AllAttempts(m) \in Nat /\ AllPending(m) \in Nat /\ stray[m] \in Nat
    BY <1>1, SumsType DEF IInv
  <2> HIDE DEF On
  <2> QED
    BY <1>3, <1>4, <2>1
<1>6. Cardinality(T) <= AllUnsent /\ Cardinality(T) \in Nat /\ IsFiniteSet(T)
  <2> DEFINE g == [r \in GoRequesters |-> Unsent(req[r])]
  <2>1. g \in [GoRequesters -> Nat]
    BY <1>2, WeightType
  <2>2. \A r \in T : g[r] > 0
    BY DEF Unsent
  <2>3. AllUnsent = Sum(GoRequesters, g)
    BY DEF AllUnsent
  <2>4. T \in SUBSET GoRequesters
    OBVIOUS
  <2>5. IsFiniteSet(T)
    BY <1>1, <2>4, FS_Subset
  <2> HIDE DEF g, T
  <2> QED
    BY <1>1, <2>1, <2>2, <2>3, <2>4, <2>5, SumCounts
<1>7. Sum(Contents, stray') <= Sum(Contents, stray) + Cardinality(T)
  <2> DEFINE k == [r \in T |-> req[r].content]
  <2>1. k \in [T -> Contents]
    BY <1>2 DEF Placed, Requests
  <2>2. \A m \in Contents : {r \in T : k[r] = m} = On(m)
    OBVIOUS
  <2> HIDE DEF On
  <2>3. \A m \in Contents : stray'[m] = stray[m] + Cardinality({r \in T : k[r] = m})
    BY <1>4, <2>2, Zenon
  <2> HIDE DEF k, T
  <2> QED
    BY <1>1, <1>4, <1>6, <2>1, <2>3, SumSpread
<1>8. Sum(Contents, stray') \in Nat
  BY <1>1, <1>4, SumType
<1> HIDE DEF T, On
<1>9. Sum(Contents, stray') <= Sum(Contents, stray) + AllUnsent
  BY <1>6, <1>7, <1>8, TopicNumbers DEF IInv
<1> QED
  BY <1>4, <1>5, <1>8, <1>9

LEMMA CrashGoStep ==
    ASSUME IInv, CrashGo
    PROVE  IInv'
<1>1. Crash(GoRequesters) /\ buffer' = buffer /\ GoRequesters \in SUBSET Requesters
  BY DEF CrashGo, Requesters
<1>2. /\ req' \in [Requesters -> Requests] /\ \A x \in Requesters : Placed(req'[x])
      /\ \A x \in Requesters : req'[x] = IF x \in GoRequesters THEN NoRequest ELSE req[x]
      /\ \A x \in Requesters : RequestInv(x)'
      /\ exited' \in BOOLEAN /\ crashes' \in 0 .. MaxCrashes
      /\ UNCHANGED <<ledgerVars, todo, tally, faults, restores>>
  BY <1>1, CrashRequests, Zenon
<1>3. /\ stray' \in [Contents -> Nat] /\ Sum(Contents, stray') \in Nat
      /\ \A m \in Contents : /\ stray'[m] <= stray[m] + AllAttempts(m)
                             /\ stray'[m] <= stray[m] + AllPending(m)
      /\ Sum(Contents, stray') <= Sum(Contents, stray) + AllUnsent
  BY CrashStrays
<1>4. log' = log /\ tally' = tally /\ faults' = faults
  BY <1>2 DEF ledgerVars
<1>5. TypeOK'
  BY <1>1, <1>2, <1>3, TypeParts, TypeNext, Zenon DEF IInv, ledgerVars
<1>6. \A x \in GoRequesters : req'[x] = NoRequest
  BY <1>2 DEF Requesters
<1>7. ASSUME NEW m \in Contents
      PROVE  ContentInv(m)'
  <2>1. m # Malformed
    BY PageviewEventsAssumption
  <2>2. AllAwaited(m)' = 0 /\ AllAttempts(m)' = 0 /\ AllPending(m)' = 0
    BY <1>6, <2>1, SumsNone
  <2>3. /\ AllAwaited(m) \in Nat /\ AllAttempts(m) \in Nat /\ AllPending(m) \in Nat
        /\ stray'[m] \in Nat
    BY <1>3, SumsType DEF IInv
  <2>4. ContentInv(m)
    BY DEF IInv
  <2>5. tally'["go"][m].confirmed + AllAwaited(m)' <= tally'["go"][m].copies
    BY <1>4, <2>2, <2>3, <2>4, Numbers DEF IInv, ContentInv
  <2>6. tally'["go"][m].copies + stray'[m] + AllAttempts(m)'
          <= (1 + RetryMax) * tally'["go"][m].accepted
    BY <1>3, <1>4, <2>2, <2>3, <2>4, Numbers DEF IInv, ContentInv
  <2>7. tally'["go"][m].copies + stray'[m] + AllPending(m)'
          <= tally'["go"][m].accepted + faults'
    BY <1>3, <1>4, <2>2, <2>3, <2>4, Numbers DEF IInv, ContentInv
  <2>8. /\ tally'["spring"][m].copies + Cardinality(Places(buffer', m))
             <= tally'["spring"][m].accepted
        /\ Cardinality(Places(log', m)) = tally'["go"][m].copies + tally'["spring"][m].copies
    BY <1>1, <1>4, <2>4 DEF ContentInv
  <2> QED
    BY <2>5, <2>6, <2>7, <2>8 DEF ContentInv
<1>8. TopicInv'
  <2>1. AllUnsent' = 0
    <3>1. PICK m : m # Malformed
      BY SomeOther
    <3> QED
      BY <1>6, <3>1, SumsNone
  <2>2. /\ Total("go", "accepted")' = Total("go", "accepted")
        /\ Total("spring", "accepted")' = Total("spring", "accepted")
    BY <1>4, TotalSame
  <2> QED
    BY <1>1, <1>3, <1>4, <2>1, <2>2, TopicNumbers DEF IInv, TopicInv
<1>9. \A c \in Statistics : (RowInv(db[c]) /\ RowInv(backup[c]))'
  BY <1>2, RowsSame DEF IInv
<1> QED
  BY <1>2, <1>5, <1>7, <1>8, <1>9, Zenon DEF IInv

\* The messages in the buffer of the Spring service are lost.
LEMMA CrashSpringStep ==
    ASSUME IInv, CrashSpring
    PROVE  IInv'
<1>1. /\ Crash(SpringRequesters) /\ stray' = stray /\ buffer' = <<>>
      /\ SpringRequesters \in SUBSET Requesters
  BY DEF CrashSpring, Requesters
<1>2. /\ req' \in [Requesters -> Requests] /\ \A x \in Requesters : Placed(req'[x])
      /\ \A x \in Requesters : req'[x] = IF x \in SpringRequesters THEN NoRequest ELSE req[x]
      /\ \A x \in Requesters : RequestInv(x)'
      /\ exited' \in BOOLEAN /\ crashes' \in 0 .. MaxCrashes
      /\ UNCHANGED <<ledgerVars, todo, tally, faults, restores>>
  BY <1>1, CrashRequests, Zenon
<1>3. log' = log /\ tally' = tally /\ faults' = faults
  BY <1>2 DEF ledgerVars
<1>4. buffer' \in Seq(Contents) /\ Len(buffer') = 0
  BY <1>1
<1>5. TypeOK'
  BY <1>1, <1>2, <1>4, TypeParts, TypeNext, Zenon DEF IInv, ledgerVars
<1>6. \A x \in GoRequesters : req'[x] = req[x]
  BY <1>2, PageviewEventsAssumption DEF Requesters
<1>7. ASSUME NEW m \in Contents
      PROVE  ContentInv(m)'
  <2>1. /\ AllAwaited(m)' = AllAwaited(m) /\ AllAttempts(m)' = AllAttempts(m)
        /\ AllPending(m)' = AllPending(m)
    BY <1>6, SumsSame
  <2>2. ContentInv(m)
    BY DEF IInv
  <2>3. Cardinality(Places(buffer', m)) = 0
    <3>1. Places(buffer', m) = {}
      BY <1>4 DEF Places
    <3> QED
      BY <3>1, FS_EmptySet
  <2>4. tally'["spring"][m].copies + Cardinality(Places(buffer', m))
          <= tally'["spring"][m].accepted
    BY <1>3, <2>2, <2>3, Numbers DEF IInv, ContentInv
  <2>5. /\ tally'["go"][m].confirmed + AllAwaited(m)' <= tally'["go"][m].copies
        /\ tally'["go"][m].copies + stray'[m] + AllAttempts(m)'
             <= (1 + RetryMax) * tally'["go"][m].accepted
        /\ tally'["go"][m].copies + stray'[m] + AllPending(m)'
             <= tally'["go"][m].accepted + faults'
        /\ Cardinality(Places(log', m)) = tally'["go"][m].copies + tally'["spring"][m].copies
    BY <1>1, <1>3, <2>1, <2>2 DEF ContentInv
  <2> QED
    BY <2>4, <2>5 DEF ContentInv
<1>8. TopicInv'
  <2>1. AllUnsent' = AllUnsent
    BY <1>6, SumsSame
  <2>2. /\ Total("go", "accepted")' = Total("go", "accepted")
        /\ Total("spring", "accepted")' = Total("spring", "accepted")
    BY <1>3, TotalSame
  <2> QED
    BY <1>1, <1>3, <1>4, <2>1, <2>2, TopicNumbers DEF IInv, TopicInv
<1>9. \A c \in Statistics : (RowInv(db[c]) /\ RowInv(backup[c]))'
  BY <1>2, RowsSame DEF IInv
<1> QED
  BY <1>2, <1>5, <1>7, <1>8, <1>9, Zenon DEF IInv

-----------------------------------------------------------------------------
(* The database                                                            *)

\* A step of the ledger that does not publish.
LEMMA LedgerStep ==
    ASSUME IInv, log' = log,
           db' \in [Statistics -> Rows(Len(log))], backup' \in [Statistics -> Rows(Len(log))],
           \A c \in Statistics : (RowInv(db[c]) /\ RowInv(backup[c]))',
           UNCHANGED <<req, todo, exited, stray, buffer, tally, faults, crashes>>,
           restores' \in 0 .. MaxRestores
    PROVE  IInv'
<1>1. TypeOK'
  BY TypeParts, TypeNext, Zenon DEF IInv
<1>2. \A x \in Requesters : RequestInv(x)'
  BY Zenon DEF IInv, RequestInv, NoRequest
<1>3. \A m : /\ AllAwaited(m)' = AllAwaited(m) /\ AllAttempts(m)' = AllAttempts(m)
             /\ AllPending(m)' = AllPending(m) /\ AllUnsent' = AllUnsent
  BY SumsSame
<1>4. (\A m \in Contents : ContentInv(m)') /\ TopicInv'
  BY <1>3, NothingMoves DEF IInv
<1> QED
  BY <1>1, <1>2, <1>4, Zenon DEF IInv

\* A consumer thread commits a batch: every message up to the reference is known.
LEMMA PostStep ==
    ASSUME IInv, NEW c \in Statistics, NEW o \in db[c].ref + 1 .. Len(log) - 1, Post(c, o)
    PROVE  IInv'
<1> DEFINE Upto(m) == {p \in 0 .. o : log[p + 1] = m}
           row == [ref |-> o, counts |-> [m \in Contents |-> Cardinality(Upto(m))]]
<1>1. /\ log \in Seq(Contents) /\ Len(log) \in Nat /\ db \in [Statistics -> Rows(Len(log))]
      /\ backup \in [Statistics -> Rows(Len(log))] /\ restores \in 0 .. MaxRestores
  BY TypeParts DEF IInv
<1>2. o \in 0 .. Len(log) - 1
  BY <1>1 DEF Rows
<1>3. /\ \A p \in 0 .. o : log[p + 1] \in Known \cup {"other"}
      /\ db' = [db EXCEPT ![c] =
                  [ref |-> o,
                   counts |-> [m \in Contents |-> Ledger!Cardinality(Ledger!Posted(c, m, o))]]]
      /\ log' = log /\ backup' = backup
      /\ UNCHANGED <<req, todo, exited, stray, buffer, tally, faults, crashes, restores>>
  BY DEF Post, Ledger!Post, boundVars
<1>4. \A p \in 0 .. o : log[p + 1] \in Contents /\ log[p + 1] \in Known
  BY <1>1, <1>2, <1>3, PageviewEventsAssumption
<1>5. ASSUME NEW m \in Contents
      PROVE  Ledger!Cardinality(Ledger!Posted(c, m, o)) = Cardinality(Upto(m))
  <2>1. Ledger!Posted(c, m, o) = Upto(m)
    BY <1>4 DEF Ledger!Posted
  <2> HIDE DEF Upto
  <2> QED
    BY <2>1, Zenon DEF Cardinality, Ledger!Cardinality
<1>6. ASSUME NEW m \in Contents
      PROVE  Cardinality(Upto(m)) \in Nat
  <2>1. IsFiniteSet(0 .. o)
    BY <1>2, FS_Interval
  <2>2. IsFiniteSet(Upto(m))
    BY <2>1, FS_Subset
  <2> QED
    BY <2>2, FS_CardinalityType
<1>7. db' = [db EXCEPT ![c] = row]
  <2>1. [m \in Contents |-> Ledger!Cardinality(Ledger!Posted(c, m, o))]
          = [m \in Contents |-> Cardinality(Upto(m))]
    <3> HIDE DEF Upto
    <3> QED
      BY <1>5
  <2> QED
    BY <1>3, <2>1, Zenon
<1>8. /\ row \in Rows(Len(log)) /\ row.ref = o
      /\ row.counts = [m \in Contents |-> Cardinality(Upto(m))]
  <2> HIDE DEF Upto
  <2> QED
    BY <1>2, <1>6 DEF Rows
<1>9. RowInv(row)
  <2>1. \A m \in Contents : row.counts[m] = Cardinality({p \in 0 .. row.ref : log[p + 1] = m})
    BY <1>8
  <2>2. \A p \in 0 .. row.ref : log[p + 1] \in Known
    BY <1>4, <1>8
  <2> HIDE DEF row
  <2> QED
    BY <2>1, <2>2 DEF RowInv
<1> HIDE DEF row, Upto
<1>10. /\ db' \in [Statistics -> Rows(Len(log))]
       /\ \A d \in Statistics : db'[d] = IF d = c THEN row ELSE db[d]
  BY <1>1, <1>7, <1>8
<1>11. ASSUME NEW d \in Statistics
       PROVE  (RowInv(db[d]) /\ RowInv(backup[d]))'
  <2>1. RowInv(db[d]) /\ RowInv(backup[d])
    BY DEF IInv
  <2>2. db'[d] = row \/ db'[d] = db[d]
    BY <1>10
  <2> QED
    BY <1>3, <1>9, <2>1, <2>2, Zenon DEF RowInv
<1> QED
  BY <1>1, <1>3, <1>10, <1>11, LedgerStep

LEMMA BackupStep ==
    ASSUME IInv, TakeBackup \/ Restore
    PROVE  IInv'
<1>1. /\ log \in Seq(Contents) /\ db \in [Statistics -> Rows(Len(log))]
      /\ backup \in [Statistics -> Rows(Len(log))]
      /\ restores \in 0 .. MaxRestores /\ MaxRestores \in Nat
  BY TypeParts, PageviewEventsAssumption DEF IInv
<1>2. /\ log' = log
      /\ UNCHANGED <<req, todo, exited, stray, buffer, tally, faults, crashes>>
      /\ (backup' = db /\ db' = db) \/ (backup' = backup /\ db' = backup)
  BY DEF TakeBackup, Restore, Ledger!TakeBackup, Ledger!Restore, boundVars
<1>3. restores' \in 0 .. MaxRestores
  BY <1>1 DEF TakeBackup, Restore, boundVars
<1>4. ASSUME NEW c \in Statistics
      PROVE  (RowInv(db[c]) /\ RowInv(backup[c]))'
  <2>1. RowInv(db[c]) /\ RowInv(backup[c])
    BY DEF IInv
  <2> QED
    BY <1>2, <2>1, Zenon DEF RowInv
<1> QED
  BY <1>1, <1>2, <1>3, <1>4, LedgerStep

-----------------------------------------------------------------------------
(* The theorems                                                            *)

LEMMA InitInv == Init => IInv
<1> SUFFICES ASSUME Init
             PROVE  IInv
  OBVIOUS
<1>1. /\ log = <<>> /\ buffer = <<>> /\ exited = FALSE
      /\ faults = 0 /\ crashes = 0 /\ restores = 0
      /\ req = [r \in Requesters |-> NoRequest] /\ todo = [r \in Requesters |-> MaxViews]
      /\ stray = [m \in Contents |-> 0]
      /\ tally = [s \in {"go", "spring"} |-> [m \in Contents |->
                     [accepted |-> 0, confirmed |-> 0, copies |-> 0]]]
  BY DEF Init, Ledger!Init
<1>2. /\ db = [c \in Statistics |-> [ref |-> -1, counts |-> [m \in Contents |-> 0]]]
      /\ backup = db
  BY DEF Init, Ledger!Init, Ledger!Blank
<1>3. /\ RetryMax \in Nat /\ MaxViews \in Nat /\ MaxFaults \in Nat
      /\ MaxCrashes \in Nat /\ MaxRestores \in Nat
      /\ IsFiniteSet(Contents) /\ IsFiniteSet(GoRequesters)
  BY PageviewEventsAssumption
<1>4. TypeOK
  <2>1. /\ log \in Seq(Contents) /\ buffer \in Seq(Contents) /\ Len(log) = 0
    BY <1>1
  <2>2. db \in [Statistics -> Rows(Len(log))] /\ backup \in [Statistics -> Rows(Len(log))]
    BY <1>2, <2>1 DEF Rows
  <2>3. req \in [Requesters -> Requests] /\ \A r \in Requesters : Placed(req[r])
    BY <1>1, NoRequestType
  <2>4. todo \in [Requesters -> 0 .. MaxViews] /\ stray \in [Contents -> Nat]
        /\ faults \in 0 .. MaxFaults /\ crashes \in 0 .. MaxCrashes
        /\ restores \in 0 .. MaxRestores
    BY <1>1, <1>3
  <2>5. tally \in Tallies
    BY <1>1 DEF Tallies
  <2>6. exited \in BOOLEAN
    BY <1>1
  <2> QED
    BY <2>1, <2>2, <2>3, <2>4, <2>5, <2>6, TypeParts
<1>5. \A r \in Requesters : RequestInv(r)
  BY <1>1, NoRequestType DEF RequestInv
<1>6. \A r \in GoRequesters : req[r] = NoRequest
  BY <1>1 DEF Requesters
<1>7. ASSUME NEW m \in Contents
      PROVE  ContentInv(m)
  <2>1. AllAwaited(m) = 0 /\ AllAttempts(m) = 0 /\ AllPending(m) = 0
    <3>1. m # Malformed
      BY PageviewEventsAssumption
    <3>2. /\ Awaited(NoRequest, m) = 0 /\ Attempts(NoRequest, m) = 0
          /\ Pending(NoRequest, m) = 0
      BY <3>1, NoRequestType, WeightNone
    <3>3. /\ \A x \in GoRequesters : [y \in GoRequesters |-> Awaited(req[y], m)][x] = 0
          /\ \A x \in GoRequesters : [y \in GoRequesters |-> Attempts(req[y], m)][x] = 0
          /\ \A x \in GoRequesters : [y \in GoRequesters |-> Pending(req[y], m)][x] = 0
      BY <1>6, <3>2
    <3> QED
      BY <3>3, SumZero DEF AllAwaited, AllAttempts, AllPending
  <2>2. Cardinality(Places(log, m)) = 0 /\ Cardinality(Places(buffer, m)) = 0
    <3>1. Places(log, m) = {} /\ Places(buffer, m) = {}
      BY <1>1 DEF Places
    <3> QED
      BY <3>1, FS_EmptySet
  <2>3. /\ tally["go"][m].accepted = 0 /\ tally["go"][m].confirmed = 0
        /\ tally["go"][m].copies = 0 /\ tally["spring"][m].accepted = 0
        /\ tally["spring"][m].copies = 0 /\ stray[m] = 0 /\ faults = 0
    BY <1>1
  <2>4. (1 + RetryMax) * 0 = 0
    BY <1>3
  <2> QED
    BY <2>1, <2>2, <2>3, <2>4 DEF ContentInv
<1>8. TopicInv
  <2>1. Sum(Contents, stray) = 0
    BY <1>1, SumZero
  <2>2. AllUnsent = 0
    <3>1. Unsent(NoRequest) = 0
      BY NoRequestType DEF Unsent
    <3>2. \A x \in GoRequesters : [y \in GoRequesters |-> Unsent(req[y])][x] = 0
      BY <1>6, <3>1
    <3> QED
      BY <3>2, SumZero DEF AllUnsent
  <2>3. Total("go", "accepted") \in Nat /\ Total("spring", "accepted") \in Nat
    BY <1>4, TotalType
  <2>4. Len(log) = 0 /\ Len(buffer) = 0
    BY <1>1
  <2> QED
    BY <1>1, <2>1, <2>2, <2>3, <2>4 DEF TopicInv
<1>9. \A c \in Statistics : RowInv(db[c]) /\ RowInv(backup[c])
  <2>1. \A m : {o \in 0 .. -1 : log[o + 1] = m} = {}
    OBVIOUS
  <2>2. \A m : Cardinality({o \in 0 .. -1 : log[o + 1] = m}) = 0
    BY <2>1, FS_EmptySet
  <2>3. \A c \in Statistics : /\ db[c].ref = -1 /\ backup[c] = db[c]
                              /\ \A m \in Contents : db[c].counts[m] = 0
    BY <1>2
  <2>4. 0 .. -1 = {}
    OBVIOUS
  <2> QED
    BY <2>2, <2>3, <2>4, Zenon DEF RowInv
<1> QED
  BY <1>4, <1>5, <1>7, <1>8, <1>9 DEF IInv

LEMMA NextInv == IInv /\ [Next]_vars => IInv'
<1> SUFFICES ASSUME IInv, [Next]_vars
             PROVE  IInv'
  OBVIOUS
<1>1. ASSUME NEW r \in Requesters, Request(r)
      PROVE  IInv'
  BY <1>1, HandlerStep, ViewStep DEF Request
<1>2. ASSUME NEW r \in Requesters, Receive(r) \/ LoseAnswer(r)
      PROVE  IInv'
  BY <1>2, ReceiveStep
<1>3. ASSUME NEW r \in GoRequesters, GoStep(r)
      PROVE  IInv'
  BY <1>3, SendStep, AppendStep, ConfirmStep, FailStep DEF GoStep
<1>4. ASSUME NEW m \in Contents, StrayArrives(m)
      PROVE  IInv'
  BY <1>4, StrayStep
<1>5. CASE SenderSends \/ SenderGivesUp
  BY <1>5, SenderStep
<1>6. CASE CrashGo
  BY <1>6, CrashGoStep
<1>7. CASE CrashSpring
  BY <1>7, CrashSpringStep
<1>8. ASSUME NEW c \in Statistics, PostSome(c)
      PROVE  IInv'
  BY <1>8, PostStep DEF PostSome
<1>9. CASE TakeBackup \/ Restore
  BY <1>9, BackupStep
<1>10. CASE UNCHANGED vars
  <2>1. /\ log' = log /\ db' = db /\ backup' = backup
        /\ UNCHANGED <<req, todo, exited, stray, buffer, tally, faults, crashes>>
        /\ restores' = restores
    BY <1>10 DEF vars, ledgerVars, boundVars
  <2>2. /\ db \in [Statistics -> Rows(Len(log))] /\ backup \in [Statistics -> Rows(Len(log))]
        /\ restores \in 0 .. MaxRestores
    BY TypeParts DEF IInv
  <2>3. \A c \in Statistics : (RowInv(db[c]) /\ RowInv(backup[c]))'
    BY <2>1, RowsSame DEF IInv, ledgerVars
  <2> QED
    BY <2>1, <2>2, <2>3, LedgerStep
<1> QED
  BY <1>1, <1>2, <1>3, <1>4, <1>5, <1>6, <1>7, <1>8, <1>9, <1>10 DEF Next

\* Of every content, what was asked for and what failed pays for every message in the
\* topic, every one on its way there and every attempt still to be made, whatever
\* repeats, comes late or crashes in handlers, producer and sender.
THEOREM Invariance == Spec => []IInv
<1> QED
  BY InitInv, NextInv, PTL DEF Spec

\* Requests, buffers, rows and tallies keep their types; no request has been sent
\* more often than sarama's Retry.Max allows.
THEOREM TypeCorrect == Spec => []TypeOK
<1>1. IInv => TypeOK
  BY DEF IInv
<1> QED
  BY <1>1, Invariance, PTL

\* Every answer 204 of ProcessPageviewHandler stands for a message in the topic.
THEOREM ConfirmedPublished == Spec => []ConfirmedIsPublished
<1>1. ASSUME IInv
      PROVE  ConfirmedIsPublished
  <2>1. ASSUME NEW m \in Contents
        PROVE  tally["go"][m].confirmed <= tally["go"][m].copies
    <3>1. AllAwaited(m) \in Nat /\ ContentInv(m)
      BY <1>1, SumsType DEF IInv
    <3> QED
      BY <1>1, <3>1, Numbers DEF IInv, ContentInv
  <2> QED
    BY <2>1 DEF ConfirmedIsPublished
<1> QED
  BY <1>1, Invariance, PTL

\* The producer of the Go service puts no more messages in the topic than its
\* requests have attempts, the sender of the Spring service no more than its requests,
\* and both together no more than requests and failures.
THEOREM CopiesAreBounded == Spec => []CopiesBounded
<1>1. ASSUME IInv
      PROVE  CopiesBounded
  <2>1. ASSUME NEW m \in Contents
        PROVE  /\ tally["go"][m].copies <= (1 + RetryMax) * tally["go"][m].accepted
               /\ tally["spring"][m].copies <= tally["spring"][m].accepted
    <3>1. AllAttempts(m) \in Nat /\ ContentInv(m)
      BY <1>1, SumsType DEF IInv
    <3> QED
      BY <1>1, <3>1, Numbers DEF IInv, ContentInv
  <2>2. Len(log) <= Total("go", "accepted") + Total("spring", "accepted") + faults
    BY <1>1, TopicNumbers DEF IInv, TopicInv
  <2> QED
    BY <2>1, <2>2 DEF CopiesBounded
<1> QED
  BY <1>1, Invariance, PTL

\* A statistic at the end of the topic has counted every view that the Go service
\* answered with 204, and none more often than requests and failures explain, also
\* after restores of the database.
THEOREM CaughtUp == Spec => []CaughtUpCounts
<1>1. ASSUME IInv
      PROVE  CaughtUpCounts
  <2>1. ASSUME NEW c \in Statistics, NEW m \in Contents, db[c].ref = Len(log) - 1
        PROVE  /\ db[c].counts[m] >= tally["go"][m].confirmed
               /\ db[c].counts[m] <= tally["go"][m].accepted
                                        + tally["spring"][m].accepted + faults
    <3>1. AllAwaited(m) \in Nat /\ AllPending(m) \in Nat /\ ContentInv(m) /\ RowInv(db[c])
      BY <1>1, SumsType DEF IInv
    <3>2. db[c].counts[m] = Cardinality(Places(log, m))
      BY <2>1, <3>1 DEF RowInv, Places
    <3>3. /\ db[c].counts[m] = tally["go"][m].copies + tally["spring"][m].copies
          /\ tally["go"][m].confirmed + AllAwaited(m) <= tally["go"][m].copies
          /\ tally["go"][m].copies + stray[m] + AllPending(m)
               <= tally["go"][m].accepted + faults
          /\ tally["spring"][m].copies + Cardinality(Places(buffer, m))
               <= tally["spring"][m].accepted
      BY <3>1, <3>2 DEF ContentInv
    <3> QED
      BY <1>1, <3>1, <3>3, Numbers DEF IInv
  <2> QED
    BY <2>1 DEF CaughtUpCounts
<1> QED
  BY <1>1, Invariance, PTL

\* The steps that neither confirm a view at the Spring service nor touch its buffer.
LEMMA SpringUntouched ==
    ASSUME SpringLossExplained, IInv, IInv', buffer' = buffer, faults' \in {faults, faults + 1},
           crashes' = crashes,
           \A m \in Contents : tally'["spring"][m] = tally["spring"][m]
    PROVE  SpringLossExplained'
<1> SUFFICES ASSUME crashes' = 0, NEW m \in Contents
             PROVE  tally'["spring"][m].confirmed
                      <= tally'["spring"][m].copies + Waiting(m)' + faults'
  BY DEF SpringLossExplained
<1>1. Waiting(m)' = Waiting(m) /\ Waiting(m) = Cardinality(Places(buffer, m))
  BY DEF Waiting, Places
<1>2. /\ Waiting(m) \in Nat /\ faults \in Nat
      /\ tally["spring"][m].confirmed \in Nat /\ tally["spring"][m].copies \in Nat
  BY <1>1, TypeParts, PlacesType, PageviewEventsAssumption DEF IInv, Tallies
<1> QED
  BY <1>1, <1>2 DEF SpringLossExplained

\* The view that is confirmed is in the buffer; the one that leaves it is in the topic or
\* is a fault.
LEMMA SpringMoves ==
    ASSUME SpringLossExplained, IInv, IInv', crashes' = crashes, NEW x \in Contents,
           \/ /\ tally' = [tally EXCEPT !["spring"][x].accepted = @ + 1,
                                        !["spring"][x].confirmed = @ + 1]
              /\ buffer' = Append(buffer, x) /\ faults' = faults
           \/ /\ buffer # <<>> /\ x = Head(buffer) /\ buffer' = Tail(buffer)
              /\ \/ /\ tally' = [tally EXCEPT !["spring"][x].copies = @ + 1]
                    /\ faults' = faults
                 \/ tally' = tally /\ faults' = faults + 1
    PROVE  SpringLossExplained'
<1> SUFFICES ASSUME crashes' = 0, NEW m \in Contents
             PROVE  tally'["spring"][m].confirmed
                      <= tally'["spring"][m].copies + Waiting(m)' + faults'
  BY DEF SpringLossExplained
<1>1. /\ Waiting(m) = Cardinality(Places(buffer, m))
      /\ Waiting(m)' = Cardinality(Places(buffer', m))
  BY DEF Waiting, Places
<1>2. /\ buffer \in Seq(Contents) /\ buffer' \in Seq(Contents) /\ tally \in Tallies
      /\ faults \in Nat
  <2>1. TypeOK /\ TypeOK'
    BY DEF IInv
  <2>2. buffer \in Seq(Contents) /\ tally \in Tallies /\ faults \in 0 .. MaxFaults
    BY <2>1, TypeParts
  <2>3. buffer' \in Seq(Contents)
    BY <2>1 DEF TypeOK
  <2> QED
    BY <2>2, <2>3, PageviewEventsAssumption
<1>3. /\ Waiting(m) \in Nat /\ Waiting(m)' \in Nat
      /\ tally["spring"][m].confirmed \in Nat /\ tally["spring"][m].copies \in Nat
      /\ tally["spring"][m].confirmed <= tally["spring"][m].copies + Waiting(m) + faults
  BY <1>1, <1>2, PlacesType DEF Tallies, SpringLossExplained
<1>4. CASE /\ tally' = [tally EXCEPT !["spring"][x].accepted = @ + 1,
                                    !["spring"][x].confirmed = @ + 1]
           /\ buffer' = Append(buffer, x) /\ faults' = faults
  <2>1. Waiting(m)' = Waiting(m) + (IF x = m THEN 1 ELSE 0)
    BY <1>1, <1>2, <1>4, PlacesAppend
  <2>2. /\ m # x => tally'["spring"][m] = tally["spring"][m]
        /\ tally'["spring"][x].confirmed = tally["spring"][x].confirmed + 1
        /\ tally'["spring"][x].copies = tally["spring"][x].copies
    BY <1>2, <1>4, TallySpring
  <2>3. CASE m = x
    BY <1>2, <1>3, <1>4, <2>1, <2>2, <2>3
  <2>4. CASE m # x
    <3>1. Waiting(m)' = Waiting(m) /\ faults' = faults
      BY <1>3, <1>4, <2>1, <2>4
    <3>2. /\ tally'["spring"][m].confirmed = tally["spring"][m].confirmed
          /\ tally'["spring"][m].copies = tally["spring"][m].copies
      BY <2>2, <2>4
    <3> QED
      BY <1>3, <3>1, <3>2, Zenon
  <2> QED
    BY <2>3, <2>4
<1>5. CASE buffer # <<>> /\ x = Head(buffer) /\ buffer' = Tail(buffer)
  <2>1. Waiting(m)' + (IF x = m THEN 1 ELSE 0) = Waiting(m)
    BY <1>1, <1>2, <1>5, PlacesTail
  <2>2. CASE tally' = [tally EXCEPT !["spring"][x].copies = @ + 1] /\ faults' = faults
    <3>1. /\ m # x => tally'["spring"][m] = tally["spring"][m]
          /\ tally'["spring"][x] = [tally["spring"][x] EXCEPT !.copies = @ + 1]
      BY <1>2, <2>2, TallySpring
    <3>2. /\ tally'["spring"][x].confirmed = tally["spring"][x].confirmed
          /\ tally'["spring"][x].copies = tally["spring"][x].copies + 1
      BY <1>2, <3>1 DEF Tallies
    <3> QED
      BY <1>2, <1>3, <2>1, <2>2, <3>1, <3>2
  <2>3. CASE tally' = tally /\ faults' = faults + 1
    <3>1. Waiting(m) <= Waiting(m)' + 1
      BY <1>3, <2>1
    <3>2. tally["spring"][m].confirmed <= tally["spring"][m].copies + Waiting(m)' + (faults + 1)
      <4>1. \A a, b, w, v, f \in Nat : a <= b + w + f /\ w <= v + 1 => a <= b + v + (f + 1)
        OBVIOUS
      <4> QED
        BY <1>2, <1>3, <3>1, <4>1, Zenon
    <3> QED
      BY <2>3, <3>2, Zenon
  <2>4. \/ tally' = tally /\ faults' = faults + 1
        \/ tally' = [tally EXCEPT !["spring"][x].copies = @ + 1] /\ faults' = faults
        \/ buffer' = Append(buffer, x)
    OBVIOUS
  <2>5. buffer' # Append(buffer, x)
    BY <1>2, <1>5
  <2> QED
    BY <2>2, <2>3, <2>4, <2>5
<1> QED
  BY <1>4, <1>5

LEMMA SpringStep == SpringLossExplained /\ IInv /\ IInv' /\ [Next]_vars => SpringLossExplained'
<1> SUFFICES ASSUME SpringLossExplained, IInv, IInv', [Next]_vars
             PROVE  SpringLossExplained'
  OBVIOUS
<1>0. TypeOK /\ tally \in Tallies /\ crashes \in Nat /\ buffer \in Seq(Contents)
      /\ req \in [Requesters -> Requests]
  BY TypeParts, PageviewEventsAssumption DEF IInv
<1>1. ASSUME NEW r \in GoRequesters, NEW method, NEW id \in Contents \cup {Malformed}, NEW body,
             ProcessPageviewHandler(r, method, id, body)
      PROVE  SpringLossExplained'
  <2>1. buffer' = buffer /\ faults' = faults /\ crashes' = crashes
    BY <1>1 DEF ProcessPageviewHandler, boundVars
  <2>2. \/ tally' = tally
        \/ id \in Contents /\ tally' = [tally EXCEPT !["go"][id].accepted = @ + 1]
    BY <1>1 DEF ProcessPageviewHandler
  <2>3. CASE id \in Contents /\ tally' = [tally EXCEPT !["go"][id].accepted = @ + 1]
    <3>1. \A m \in Contents : tally'["spring"][m] = tally["spring"][m]
      BY <1>0, <2>3, TallyGo
    <3> QED
      BY <2>1, <3>1, SpringUntouched
  <2>4. CASE tally' = tally
    BY <2>1, <2>4, SpringUntouched
  <2> QED
    BY <2>2, <2>3, <2>4
<1>2. ASSUME NEW r \in SpringRequesters, NEW method, NEW id \in Contents \cup {Malformed},
             contentView(r, method, id)
      PROVE  SpringLossExplained'
  <2>1. crashes' = crashes
    BY <1>2 DEF contentView
  <2>2. \/ buffer' = buffer /\ tally' = tally /\ faults' \in {faults, faults + 1}
        \/ /\ id \in Contents
           /\ tally' = [tally EXCEPT !["spring"][id].accepted = @ + 1,
                                     !["spring"][id].confirmed = @ + 1]
           /\ buffer' = Append(buffer, id) /\ faults' = faults
    BY <1>2 DEF contentView
  <2> QED
    BY <2>1, <2>2, SpringUntouched, SpringMoves
<1>3. ASSUME NEW r \in Requesters, Receive(r) \/ LoseAnswer(r)
      PROVE  SpringLossExplained'
  <2>1. /\ buffer' = buffer /\ tally' = tally /\ crashes' = crashes
        /\ faults' \in {faults, faults + 1}
    BY <1>3 DEF Receive, LoseAnswer, Fault, boundVars
  <2> QED
    BY <2>1, SpringUntouched
<1>4. ASSUME NEW r \in GoRequesters, GoStep(r)
      PROVE  SpringLossExplained'
  <2>1. /\ buffer' = buffer /\ crashes' = crashes /\ faults' \in {faults, faults + 1}
    BY <1>4 DEF GoStep, sendMessage, BrokerAppends, MakeNoContent, AttemptFails, Fault, boundVars
  <2>2. CASE sendMessage(r) \/ AttemptFails(r)
    BY <2>1, <2>2, SpringUntouched DEF sendMessage, AttemptFails
  <2>3. CASE BrokerAppends(r) \/ MakeNoContent(r)
    <3>1. req[r].content \in Contents
      BY <2>3, TypeParts, OpenRequest DEF IInv, BrokerAppends, MakeNoContent
    <3>2. ASSUME BrokerAppends(r)
          PROVE  \A m \in Contents : tally'["spring"][m] = tally["spring"][m]
      BY <1>0, <3>1, <3>2, TallyGo DEF BrokerAppends
    <3>3. ASSUME MakeNoContent(r)
          PROVE  \A m \in Contents : tally'["spring"][m] = tally["spring"][m]
      BY <1>0, <3>1, <3>3, TallyGo DEF MakeNoContent, Confirm
    <3> QED
      BY <2>1, <2>3, <3>2, <3>3, SpringUntouched
  <2> QED
    BY <1>4, <2>2, <2>3 DEF GoStep
<1>5. ASSUME NEW x \in Contents, StrayArrives(x)
      PROVE  SpringLossExplained'
  <2>1. buffer' = buffer /\ faults' = faults /\ crashes' = crashes
    BY <1>5 DEF StrayArrives, boundVars
  <2>2. \A m \in Contents : tally'["spring"][m] = tally["spring"][m]
    BY <1>0, <1>5, TallyGo DEF StrayArrives
  <2> QED
    BY <2>1, <2>2, SpringUntouched
<1>6. CASE SenderSends \/ SenderGivesUp
  <2>1. buffer # <<>> /\ Head(buffer) \in Contents
    BY <1>0, <1>6 DEF SenderSends, SenderGivesUp
  <2>2. /\ buffer' = Tail(buffer) /\ crashes' = crashes
        /\ \/ /\ tally' = [tally EXCEPT !["spring"][Head(buffer)].copies = @ + 1]
              /\ faults' = faults
           \/ tally' = tally /\ faults' = faults + 1
    BY <1>6 DEF SenderSends, SenderGivesUp, Fault, boundVars
  <2> QED
    BY <2>1, <2>2, SpringMoves
<1>7. CASE CrashGo \/ CrashSpring
  BY <1>0, <1>7 DEF CrashGo, CrashSpring, Crash, SpringLossExplained
<1>8. ASSUME NEW c \in Statistics, PostSome(c)
      PROVE  SpringLossExplained'
  BY <1>8, SpringUntouched DEF PostSome, Post, boundVars
<1>9. CASE TakeBackup \/ Restore
  BY <1>9, SpringUntouched DEF TakeBackup, Restore, boundVars
<1>10. CASE UNCHANGED vars
  BY <1>10, SpringUntouched DEF vars, boundVars
<1>11. ASSUME NEW r \in Requesters, Request(r)
       PROVE  SpringLossExplained'
  BY <1>1, <1>2, <1>11 DEF Request
<1> QED
  BY <1>3, <1>4, <1>5, <1>6, <1>7, <1>8, <1>9, <1>10, <1>11 DEF Next

\* Of the views that contentView has answered with 204, no more are missing from the
\* topic and the sender's buffer than attempts and sends have failed, while no
\* service has crashed.
THEOREM SpringLossIsExplained == Spec => []SpringLossExplained
<1>1. Init => SpringLossExplained
  <2> SUFFICES ASSUME Init, NEW m \in Contents
               PROVE  tally["spring"][m].confirmed
                        <= tally["spring"][m].copies + Waiting(m) + faults
    BY DEF SpringLossExplained
  <2>1. tally["spring"][m].confirmed = 0 /\ tally["spring"][m].copies = 0 /\ faults = 0
    BY DEF Init
  <2>2. buffer \in Seq(Contents) /\ Waiting(m) = Cardinality(Places(buffer, m))
    BY DEF Init, Waiting, Places
  <2>3. Waiting(m) \in Nat
    BY <2>2, PlacesType
  <2> QED
    BY <2>1, <2>3
<1>2. SpringLossExplained /\ IInv /\ IInv' /\ [Next]_vars => SpringLossExplained'
  BY SpringStep
<1> QED
  BY <1>1, <1>2, Invariance, PTL DEF Spec

=============================================================================

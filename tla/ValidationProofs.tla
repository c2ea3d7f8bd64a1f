--------------------------- MODULE ValidationProofs ---------------------------
(***************************************************************************)
(* Proofs about Validation, for every configuration and every document.    *)
(* The nested calls share one document that they change in place, so the   *)
(* invariant says of every path of the request whether a call has still to *)
(* come to it; if so the document is there what came in, and otherwise it  *)
(* has been judged and cleaned.                                            *)
(***************************************************************************)
EXTENDS Validation, TLAPS

-----------------------------------------------------------------------------
(* The inductive invariant *)

\* A loop has still to come to x, or a call has not begun its loop over it
Pending(x) ==
    \/ \E r \in left : Below(x, r)
    \/ at = "schema" /\ Below(x, path) /\ x # path

\* The document at m has not been checked for its required fields
PendingPlace(m) ==
    \/ \E r \in left : Below(m, r)
    \/ at = "schema" /\ Below(m, path)

Configured == Schemas[message]

\* The field at x is as it has to be, and the document there as it will stay
Settled(x) ==
    IF Known(x, Configured)
    THEN /\ Fits(Definition(x, Configured), request[x])
         /\ x \in DOMAIN document
         /\ document[x] = Converted(Definition(x, Configured), request[x])
    ELSE x \notin DOMAIN document

\* The service runs with a configuration that InitSchema has accepted
Digested ==
    IF pc \in {"config", "refused"}
    THEN schema = Configured
    ELSE SubSectionValid(Configured) /\ schema = parseSubSection(Configured)

\* The calls in progress, and what their loops have still to do
CallsOK ==
    /\ path \in Places(request)
    /\ path \in DOMAIN Configured
    /\ at \in {"schema", "legend"}
    /\ left \subseteq DOMAIN request
    /\ \A r \in left : Below(path, Parent(r)) /\ ~Below(path, r)

PendingUntouched ==
    \A x \in DOMAIN request :
        Pending(x) => x \in DOMAIN document /\ document[x] = request[x]

VisitedSettled == \A x \in DOMAIN request : ~Pending(x) => Settled(x)

VisitedComplete ==
    \A m \in Places(request) \cap DOMAIN Configured :
        ~PendingPlace(m) => Complete(request, m, Configured[m])

Validating ==
    pc = "validating" =>
        /\ request \in Documents[message]
        /\ action \in Actions
        /\ CallsOK
        /\ DOMAIN document \subseteq DOMAIN request
        /\ PendingUntouched
        /\ VisitedSettled
        /\ VisitedComplete

Judged ==
    pc = "done" =>
        /\ request \in Documents[message]
        /\ DOMAIN document \subseteq DOMAIN request
        /\ verdict = "ok" =>
              /\ \A x \in DOMAIN request : Settled(x)
              /\ \A m \in Places(request) \cap DOMAIN Configured :
                    Complete(request, m, Configured[m])
        /\ verdict = "error" => ~Conforms(request, Configured)
        /\ verdict = "panic" => Trapped(request, Configured)

Control ==
    /\ message \in DOMAIN Schemas
    /\ pc \in {"config", "refused", "idle", "validating", "done"}
    /\ verdict \in {"none", "ok", "error", "panic"}
    /\ verdict # "none" <=> pc = "done"
    /\ pc # "validating" => path = <<>> /\ at = "schema" /\ left = {}

IInv == Control /\ Digested /\ Validating /\ Judged

-----------------------------------------------------------------------------
(* Paths *)

\* Below is transitive.
LEMMA BelowTransitive ==
    ASSUME NEW S, NEW x \in Seq(S), NEW y \in Seq(S), NEW z \in Seq(S),
           Below(x, y), Below(y, z)
    PROVE  Below(x, z)
BY DEF Below

\* Every path is below itself.
LEMMA BelowSelf ==
    ASSUME NEW S, NEW x \in Seq(S)
    PROVE  Below(x, x)
BY DEF Below

\* Every path is below <<>>, and <<>> is below no other.
LEMMA BelowRoot ==
    ASSUME NEW S, NEW x \in Seq(S)
    PROVE  /\ Below(x, <<>>)
           /\ Below(<<>>, x) => x = <<>>
BY DEF Below

\* Two paths of one length of which one is below the other are the same.
LEMMA BelowSameLength ==
    ASSUME NEW S, NEW x \in Seq(S), NEW y \in Seq(S), Below(x, y), Len(x) <= Len(y)
    PROVE  x = y
BY DEF Below

\* Of two prefixes of a path the longer one is below the shorter one.
LEMMA BelowLinear ==
    ASSUME NEW S, NEW x \in Seq(S), NEW y \in Seq(S), NEW z \in Seq(S),
           Below(x, y), Below(x, z), Len(z) <= Len(y)
    PROVE  Below(y, z)
BY DEF Below

\* A prefix of a sequence.
LEMMA PrefixFacts ==
    ASSUME NEW S, NEW x \in Seq(S), NEW n \in 0..Len(x)
    PROVE  /\ SubSeq(x, 1, n) \in Seq(S)
           /\ Len(SubSeq(x, 1, n)) = n
           /\ \A i \in 1..n : SubSeq(x, 1, n)[i] = x[i]
OBVIOUS

\* A sequence with elements is not empty.
LEMMA Nonempty ==
    ASSUME NEW S, NEW x \in Seq(S), Len(x) >= 1
    PROVE  x # <<>>
OBVIOUS

\* A sequence with one more element.
LEMMA AppendFacts ==
    ASSUME NEW S, NEW x \in Seq(S), NEW f \in S
    PROVE  /\ Append(x, f) \in Seq(S)
           /\ Len(Append(x, f)) = Len(x) + 1
           /\ Append(x, f)[Len(x) + 1] = f
           /\ \A i \in 1..Len(x) : Append(x, f)[i] = x[i]
OBVIOUS

\* The parent of a field is one shorter, and the field is below it.
LEMMA ParentFacts ==
    ASSUME NEW S, NEW x \in Seq(S), x # <<>>
    PROVE  /\ Parent(x) \in Seq(S)
           /\ Len(Parent(x)) = Len(x) - 1
           /\ Len(x) \in Nat \ {0}
           /\ \A i \in 1..(Len(x) - 1) : Parent(x)[i] = x[i]
           /\ Below(x, Parent(x))
           /\ Key(x) \in S
<1>1. Len(x) \in Nat \ {0}
  OBVIOUS
<1>2. Len(x) - 1 \in 0..Len(x)
  BY <1>1
<1>3. /\ Parent(x) \in Seq(S)
      /\ Len(Parent(x)) = Len(x) - 1
      /\ \A i \in 1..(Len(x) - 1) : Parent(x)[i] = x[i]
  BY <1>2, PrefixFacts, Zenon DEF Parent
<1>4. Below(x, Parent(x))
  BY <1>1, <1>3 DEF Below
<1>5. Key(x) \in S
  BY <1>1 DEF Key
<1> QED
  BY <1>1, <1>3, <1>4, <1>5

\* What is below a field is below the document that it is in, and shorter than it.
LEMMA BelowParent ==
    ASSUME NEW S, NEW x \in Seq(S), NEW y \in Seq(S), y # <<>>, Below(x, y)
    PROVE  Below(x, Parent(y)) /\ x # Parent(y)
<1>1. Below(x, Parent(y))
  BY ParentFacts, BelowTransitive
<1>2. Len(x) >= Len(y)
  BY DEF Below
<1>3. Len(Parent(y)) < Len(y)
  BY ParentFacts
<1> QED
  BY <1>1, <1>2, <1>3

\* What is below a path and not that path is in a document below it.
LEMMA ParentBelow ==
    ASSUME NEW S, NEW x \in Seq(S), NEW y \in Seq(S), Below(x, y), x # y
    PROVE  x # <<>> /\ Below(Parent(x), y)
<1>1. Len(y) < Len(x)
  BY BelowSameLength DEF Below
<1>2. x # <<>>
  BY <1>1
<1>3. \A i \in 1..(Len(x) - 1) : Parent(x)[i] = x[i]
  BY <1>2, ParentFacts
<1>4. Len(Parent(x)) = Len(x) - 1
  BY <1>2, ParentFacts
<1> QED
  BY <1>1, <1>2, <1>3, <1>4 DEF Below

\* A field of a document: its parent is the document.
LEMMA AppendParent ==
    ASSUME NEW S, NEW p \in Seq(S), NEW f \in S
    PROVE  /\ Append(p, f) \in Seq(S) \ {<<>>}
           /\ Parent(Append(p, f)) = p
           /\ Key(Append(p, f)) = f
<1> DEFINE c == Append(p, f)
<1>1. /\ c \in Seq(S)
      /\ Len(c) = Len(p) + 1
      /\ c[Len(p) + 1] = f
      /\ \A i \in 1..Len(p) : c[i] = p[i]
  BY AppendFacts
<1> HIDE DEF c
<1>2. c # <<>>
  BY <1>1, Nonempty
<1>3. Key(c) = f
  BY <1>1 DEF Key
<1>4. /\ Parent(c) \in Seq(S)
      /\ Len(Parent(c)) = Len(c) - 1
      /\ \A i \in 1..(Len(c) - 1) : Parent(c)[i] = c[i]
  BY <1>1, <1>2, ParentFacts, Zenon
<1>5. Len(Parent(c)) = Len(p) /\ \A i \in 1..Len(p) : Parent(c)[i] = p[i]
  BY <1>1, <1>4
<1>6. Below(Parent(c), p)
  BY <1>5 DEF Below
<1>7. Parent(c) = p
  BY <1>4, <1>5, <1>6, BelowSameLength
<1> QED
  BY <1>1, <1>2, <1>3, <1>7 DEF c

\* A field is its document and its key.
LEMMA ParentAppend ==
    ASSUME NEW S, NEW x \in Seq(S), x # <<>>
    PROVE  Append(Parent(x), Key(x)) = x
<1>1. Parent(x) \in Seq(S) /\ Len(Parent(x)) = Len(x) - 1 /\ Key(x) \in S
  BY ParentFacts
<1>2. \A i \in 1..(Len(x) - 1) : Parent(x)[i] = x[i]
  BY ParentFacts
<1>3. /\ Append(Parent(x), Key(x)) \in Seq(S)
      /\ Len(Append(Parent(x), Key(x))) = Len(x)
      /\ \A i \in 1..(Len(x) - 1) : Append(Parent(x), Key(x))[i] = Parent(x)[i]
      /\ Append(Parent(x), Key(x))[Len(x)] = Key(x)
  BY <1>1, Len(x) \in Nat
<1>4. \A i \in 1..Len(x) : Append(Parent(x), Key(x))[i] = x[i]
  BY <1>2, <1>3 DEF Key
<1> QED
  BY <1>3, <1>4, BelowSameLength DEF Below

\* The way from a path to what is below it leads through a field of what is there.
LEMMA StepTowards ==
    ASSUME NEW S, NEW x \in Seq(S), NEW p \in Seq(S), Below(x, p), x # p
    PROVE  LET c == SubSeq(x, 1, Len(p) + 1) IN
           /\ Len(p) + 1 \in 1..Len(x)
           /\ c \in Seq(S) \ {<<>>}
           /\ Parent(c) = p
           /\ Below(x, c)
           /\ x # c => Len(p) + 1 \in 1..(Len(x) - 1)
<1> DEFINE c == SubSeq(x, 1, Len(p) + 1)
<1>1. Len(p) < Len(x) /\ Len(p) \in Nat /\ Len(x) \in Nat
  BY BelowSameLength DEF Below
<1>2. c \in Seq(S) /\ Len(c) = Len(p) + 1 /\ \A i \in 1..(Len(p) + 1) : c[i] = x[i]
  BY <1>1
<1> HIDE DEF c
<1>3. c # <<>>
  BY <1>1, <1>2
<1>4. Below(x, c)
  BY <1>1, <1>2 DEF Below
<1>5. Parent(c) \in Seq(S) /\ Len(Parent(c)) = Len(p)
  BY <1>1, <1>2, <1>3, ParentFacts
<1>6. \A i \in 1..Len(p) : Parent(c)[i] = c[i]
  BY <1>1, <1>2, <1>3, ParentFacts
<1>7. \A i \in 1..Len(p) : Parent(c)[i] = p[i]
  BY <1>1, <1>2, <1>6 DEF Below
<1>8. Parent(c) = p
  BY <1>5, <1>7, BelowSameLength DEF Below
<1>9. x # c => Len(p) + 1 \in 1..(Len(x) - 1)
  BY <1>1, <1>2, <1>4, BelowSameLength
<1> QED
  BY <1>1, <1>2, <1>3, <1>4, <1>8, <1>9 DEF c

-----------------------------------------------------------------------------
(* Documents and schemas *)

\* A path that another is below is a prefix of it.
LEMMA BelowIsPrefix ==
    ASSUME NEW S, NEW x \in Seq(S), NEW q \in Seq(S), Below(x, q)
    PROVE  SubSeq(x, 1, Len(q)) = q
<1> DEFINE c == SubSeq(x, 1, Len(q))
<1>1. Len(q) \in 0..Len(x) /\ \A i \in 1..Len(q) : q[i] = x[i]
  BY DEF Below
<1>2. c \in Seq(S) /\ Len(c) = Len(q) /\ \A i \in 1..Len(q) : c[i] = x[i]
  BY <1>1, PrefixFacts
<1> HIDE DEF c
<1>3. Below(c, q)
  BY <1>1, <1>2 DEF Below
<1>4. c = q
  BY <1>2, <1>3, BelowSameLength
<1> QED
  BY <1>4 DEF c

\* The fields of a document have paths.
LEMMA DocumentPaths ==
    ASSUME NEW doc, IsDocument(doc), NEW x \in DOMAIN doc
    PROVE  x \in Seq(Fields) /\ x # <<>>
BY DEF IsDocument

\* What is below a field, and not the field, is in the document that is its value.
LEMMA DocumentPrefix ==
    ASSUME NEW doc, IsDocument(doc), NEW x \in DOMAIN doc, NEW q \in Seq(Fields),
           q # <<>>, Below(x, q), x # q
    PROVE  q \in DOMAIN doc /\ doc[q].kind = "map"
<1>1. x \in Seq(Fields)
  BY DocumentPaths
<1>2. SubSeq(x, 1, Len(q)) = q
  BY <1>1, BelowIsPrefix
<1>3. Len(q) \in 1..(Len(x) - 1)
  <2>1. Len(q) < Len(x)
    BY <1>1, BelowSameLength DEF Below
  <2> QED
    BY <1>1, <2>1
<1>4. \A i \in 1..(Len(x) - 1) :
         SubSeq(x, 1, i) \in DOMAIN doc /\ doc[SubSeq(x, 1, i)].kind = "map"
  BY Zenon DEF IsDocument
<1>5. /\ SubSeq(x, 1, Len(q)) \in DOMAIN doc
      /\ doc[SubSeq(x, 1, Len(q))].kind = "map"
  BY <1>3, <1>4, Zenon
<1> QED
  BY <1>2, <1>5

\* A field is in the whole document or in one that is nested in it.
LEMMA ParentIsPlace ==
    ASSUME NEW doc, IsDocument(doc), NEW x \in DOMAIN doc
    PROVE  Parent(x) \in Places(doc)
<1>1. x \in Seq(Fields) /\ x # <<>>
  BY DocumentPaths
<1>2. Parent(x) \in Seq(Fields) /\ Below(x, Parent(x)) /\ x # Parent(x)
  BY <1>1, ParentFacts
<1>3. CASE Parent(x) = <<>>
  BY <1>3 DEF Places
<1>4. CASE Parent(x) # <<>>
  BY <1>2, <1>4, DocumentPrefix DEF Places
<1> QED
  BY <1>3, <1>4

\* The place of a document has a path, and all of its callers are places.
LEMMA PlaceFacts ==
    ASSUME NEW doc, IsDocument(doc), NEW p \in Places(doc)
    PROVE  /\ p \in Seq(Fields)
           /\ p # <<>> => Parent(p) \in Places(doc)
<1>1. CASE p = <<>>
  BY <1>1
<1>2. CASE p # <<>>
  <2>1. p \in DOMAIN doc
    BY <1>2 DEF Places
  <2> QED
    BY <2>1, DocumentPaths, ParentIsPlace
<1> QED
  BY <1>1, <1>2

\* What leads to a section is a field of the section before.
LEMMA SectionPrefix ==
    ASSUME NEW config, IsSchema(config), NEW p \in DOMAIN config,
           NEW q \in Seq(Fields), q # <<>>, Below(p, q)
    PROVE  Known(q, config)
<1>1. p \in Seq(Fields)
  BY DEF IsSchema
<1>2. SubSeq(p, 1, Len(q)) = q
  BY <1>1, BelowIsPrefix
<1>3. Len(q) \in 1..Len(p)
  BY <1>1 DEF Below
<1>4. \A i \in 1..Len(p) :
         /\ Parent(SubSeq(p, 1, i)) \in DOMAIN config
         /\ Has(config[Parent(SubSeq(p, 1, i))].legend, Key(SubSeq(p, 1, i)))
  BY Zenon DEF IsSchema
<1>5. /\ Parent(SubSeq(p, 1, Len(q))) \in DOMAIN config
      /\ Has(config[Parent(SubSeq(p, 1, Len(q)))].legend, Key(SubSeq(p, 1, Len(q))))
  BY <1>3, <1>4, Zenon
<1> QED
  BY <1>2, <1>5 DEF Known

\* Nothing in an unknown field is known.
LEMMA UnknownBelow ==
    ASSUME NEW config, IsSchema(config), NEW q \in Seq(Fields), q # <<>>,
           ~Known(q, config), NEW x \in Seq(Fields), Below(x, q)
    PROVE  ~Known(x, config)
<1>1. CASE x = q
  BY <1>1
<1>2. CASE x # q
  <2>1. x # <<>> /\ Below(Parent(x), q)
    BY <1>2, ParentBelow
  <2>2. Parent(x) \notin DOMAIN config
    BY <2>1, SectionPrefix
  <2> QED
    BY <2>2 DEF Known
<1> QED
  BY <1>1, <1>2

-----------------------------------------------------------------------------
(* The judgement of one field *)

\* What a length specification says of a length is what it means; it panics only at
\* a null and at an exact length.
LEMMA LengthJudged ==
    ASSUME NEW spec \in Seq(Bounds), NEW n \in Nat
    PROVE  /\ LengthOutcome(spec, n) \in {"ok", "error", "panic"}
           /\ LengthOutcome(spec, n) = "ok" => LengthFits(spec, n)
           /\ LengthOutcome(spec, n) = "error" => ~LengthFits(spec, n)
           /\ LengthOutcome(spec, n) = "panic" => LengthTrap(spec, n)
<1>0. \A b \in Bounds : /\ b.is \in {"free", "word", "nil", "number"}
                        /\ b.is = "number" => b.value \in Int
  BY DEF Bounds
<1>1. CASE Len(spec) = 1
  <2> DEFINE b == spec[1]
  <2>1. b \in Bounds
    BY <1>1
  <2>2. LengthFits(spec, n) <=> b.is = "number" /\ b.value = n
    BY <1>1 DEF LengthFits
  <2>3. LengthTrap(spec, n) <=> b.is = "nil" \/ (b.is = "number" /\ b.value # n)
    BY <1>1 DEF LengthTrap
  <2>4. LengthOutcome(spec, n) =
           IF b.is = "nil" \/ (b.is = "number" /\ n # b.value) THEN "panic"
           ELSE IF b.is = "number" THEN "ok" ELSE "error"
    BY <1>1 DEF LengthOutcome
  <2> HIDE DEF b
  <2> QED
    BY <2>2, <2>3, <2>4
<1>2. CASE Len(spec) = 2
  <2> DEFINE b == spec[1]
             c == spec[2]
             bad == \/ b.is = "number" /\ c.is = "number" /\ b.value >= c.value
                    \/ b.is = "word" \/ c.is = "word"
                    \/ b.is = "number" /\ n < b.value
                    \/ c.is = "number" /\ n > c.value
  <2>1. b \in Bounds /\ c \in Bounds
    BY <1>2
  <2>2. LengthOutcome(spec, n) = IF b.is = "nil" \/ c.is = "nil" THEN "panic"
                                 ELSE IF bad THEN "error" ELSE "ok"
    BY <1>2 DEF LengthOutcome
  <2>3. b.is = "nil" \/ c.is = "nil" => LengthTrap(spec, n)
    BY <1>2 DEF LengthTrap
  <2>4. LengthFits(spec, n) <=>
           /\ b.is \in {"number", "free"} /\ c.is \in {"number", "free"}
           /\ b.is = "number" => b.value <= n
           /\ c.is = "number" => n <= c.value
           /\ b.is = "number" /\ c.is = "number" => b.value < c.value
    BY <1>2 DEF LengthFits
  <2> HIDE DEF b, c
  <2>5. b.is # "nil" /\ c.is # "nil" => (LengthFits(spec, n) <=> ~bad)
    BY <1>0, <2>1, <2>4
  <2> HIDE DEF bad
  <2> QED
    BY <2>2, <2>3, <2>5
<1>3. CASE Len(spec) # 1 /\ Len(spec) # 2
  BY <1>3 DEF LengthOutcome, LengthFits
<1> QED
  BY <1>1, <1>2, <1>3

\* The values that documents bring and the definitions that InitSchema accepts.
SomeValue(v) == v.kind = "string" => v.len \in Nat

SomeDefinition(def) ==
    /\ def.type \in Types
    /\ Has(def, "additional_validation") /\ LengthGiven(def.additional_validation) =>
          def.additional_validation.length \in Seq(Bounds)

\* A string is judged by what additional_validation means.
LEMMA StringJudged ==
    ASSUME NEW def, SomeDefinition(def), NEW v, v.len \in Nat,
           Has(def, "additional_validation")
    PROVE  LET extra == def.additional_validation IN
           /\ StringOutcome(def, v) \in {"ok", "error", "panic"}
           /\ StringOutcome(def, v) = "ok" => StringFits(extra, v)
           /\ StringOutcome(def, v) = "error" => ~StringFits(extra, v)
           /\ StringOutcome(def, v) = "panic" => StringTrap(extra, v)
<1> DEFINE extra == def.additional_validation
<1>1. CASE extra.is \notin {"UUID", "map", "nil"}
  BY <1>1, Zenon DEF StringOutcome, StringFits
<1>2. CASE extra.is = "UUID"
  BY <1>2 DEF StringOutcome, StringFits
<1>3. CASE extra.is = "nil"
  BY <1>3 DEF StringOutcome, StringTrap
<1>4. CASE extra.is = "map"
  <2> DEFINE malformed == Has(extra, "enum") /\ extra.enum = Scalar
             missing == Has(extra, "enum") /\ v.form \notin extra.enum
  <2>1. CASE malformed
    BY <1>4, <2>1 DEF StringOutcome, StringTrap
  <2>2. CASE ~malformed /\ missing
    BY <1>4, <2>2 DEF StringOutcome, StringFits
  <2>3. CASE ~malformed /\ ~missing /\ LengthGiven(extra)
    <3>1. StringOutcome(def, v) = LengthOutcome(extra.length, v.len)
      BY <1>4, <2>3 DEF StringOutcome
    <3>2. StringFits(extra, v) <=> LengthFits(extra.length, v.len)
      BY <1>4, <2>3 DEF StringFits
    <3>3. LengthTrap(extra.length, v.len) => StringTrap(extra, v)
      BY <1>4, <2>3 DEF StringTrap
    <3>4. extra.length \in Seq(Bounds)
      BY <2>3 DEF SomeDefinition
    <3> HIDE DEF extra
    <3>5. LET o == LengthOutcome(extra.length, v.len) IN
          /\ o \in {"ok", "error", "panic"}
          /\ o = "ok" => LengthFits(extra.length, v.len)
          /\ o = "error" => ~LengthFits(extra.length, v.len)
          /\ o = "panic" => LengthTrap(extra.length, v.len)
      BY <3>4, LengthJudged
    <3> QED
      BY <3>1, <3>2, <3>3, <3>5 DEF extra
  <2>4. CASE ~malformed /\ ~missing /\ ~LengthGiven(extra)
    BY <1>4, <2>4 DEF StringOutcome, StringFits
  <2> QED
    BY <2>1, <2>2, <2>3, <2>4
<1> QED
  BY <1>1, <1>2, <1>3, <1>4

\* The switch on the type of a field decides what its definition means: an accepted
\* value fits and holds no document, a document that is to be validated fits, a
\* refused value does not fit, and a panic comes from a trap.
LEMMA FieldJudged ==
    ASSUME NEW def, SomeDefinition(def), NEW v, SomeValue(v)
    PROVE  /\ FieldOutcome(def, v) \in {"ok", "nested", "error", "panic"}
           /\ FieldOutcome(def, v) = "ok" => Fits(def, v) /\ v.kind # "map"
           /\ FieldOutcome(def, v) = "nested" =>
                 /\ Fits(def, v) /\ v.kind = "map"
                 /\ Nested(def) /\ Converted(def, v) = v
           /\ FieldOutcome(def, v) = "error" => ~Fits(def, v)
           /\ FieldOutcome(def, v) = "panic" => Trap(def, v)
<1>0. CASE Has(def, "null_ok") /\ def.null_ok = Nil
  BY <1>0 DEF FieldOutcome, Trap
<1> DEFINE regular == ~(Has(def, "null_ok") /\ def.null_ok = Nil)
<1>1. CASE regular /\ v.kind = "nil"
  BY <1>1 DEF FieldOutcome, Fits
<1>2. CASE regular /\ v.kind # "nil" /\ def.type = "string"
  <2>1. FieldOutcome(def, v) = IF v.kind = "string" THEN StringOutcome(def, v) ELSE "error"
    BY <1>2 DEF FieldOutcome, TypeOutcome
  <2>2. CASE v.kind # "string"
    BY <1>2, <2>1, <2>2 DEF Fits
  <2>3. CASE v.kind = "string" /\ ~Has(def, "additional_validation")
    BY <1>2, <2>1, <2>3 DEF Fits, StringOutcome
  <2>4. CASE v.kind = "string" /\ Has(def, "additional_validation")
    <3>1. v.len \in Nat
      BY <2>4 DEF SomeValue
    <3>2. FieldOutcome(def, v) = StringOutcome(def, v)
      BY <2>1, <2>4
    <3>3. Fits(def, v) <=> StringFits(def.additional_validation, v)
      BY <1>2, <2>4 DEF Fits
    <3>4. FieldOutcome(def, v) = "panic" => Trap(def, v)
      BY <1>2, <2>4, <3>1, <3>2, StringJudged DEF Trap
    <3> QED
      BY <2>4, <3>1, <3>2, <3>3, <3>4, StringJudged
  <2> QED
    BY <2>2, <2>3, <2>4
<1>3. CASE regular /\ v.kind # "nil" /\ def.type = "int"
  BY <1>3 DEF FieldOutcome, TypeOutcome, Fits
<1>4. CASE regular /\ v.kind # "nil" /\ def.type = "bool"
  BY <1>4 DEF FieldOutcome, TypeOutcome, Fits
<1>5. CASE regular /\ v.kind # "nil" /\ def.type = "hashmap"
  BY <1>5 DEF FieldOutcome, TypeOutcome, Fits, Nested, Converted, Trap
<1>6. CASE regular /\ v.kind # "nil" /\ def.type = "array"
  BY <1>6 DEF FieldOutcome, TypeOutcome, Fits, Trap
<1>7. CASE regular /\ v.kind # "nil" /\ def.type = "float"
  BY <1>7 DEF FieldOutcome, TypeOutcome, Fits
<1>8. def.type \in {"string", "int", "float", "bool", "array", "hashmap"}
  BY DEF SomeDefinition, Types
<1> QED
  BY <1>0, <1>1, <1>2, <1>3, <1>4, <1>5, <1>6, <1>7, <1>8

-----------------------------------------------------------------------------
(* What InitSchema makes of a section *)

\* The digested part for an action demands what the configuration says, in the parts
\* "initial" and "all" as well.
LEMMA PartDigested ==
    ASSUME NEW rf, RequiredFieldsValid(rf), Chosen(rf) \in DOMAIN rf
    PROVE  LET part == processRequiredFields(rf)[Chosen(rf)] IN
           /\ part.fields = Demanded(rf)
           /\ part.require_an_optional <=> OptionalDemanded(rf)
<1> DEFINE c == Chosen(rf)
           none == [fields |-> {}, require_an_optional |-> FALSE]
           one == updatefieldList(rf["initial"], none)
           two == updatefieldList(rf[c], one)
           three == updatefieldList(rf["all"], two)
<1>1. c \in Sections(rf) \ {"initial", "all"}
  BY DEF Chosen, Sections
<1>2. processRequiredFields(rf)[c] = three
  BY <1>1 DEF processRequiredFields
<1>3. \A a \in {"initial", c, "all"} :
         Has(rf[a], "require_an_optional") => rf[a].require_an_optional \in BOOLEAN
  BY <1>1 DEF RequiredFieldsValid, Sections
<1> HIDE DEF c
<1>4. one.fields = IF Has(rf["initial"], "fields") THEN rf["initial"].fields ELSE {}
  BY DEF updatefieldList
<1>5. two.fields = one.fields \cup (IF Has(rf[c], "fields") THEN rf[c].fields ELSE {})
  BY DEF updatefieldList
<1>6. three.fields = two.fields \cup (IF Has(rf["all"], "fields") THEN rf["all"].fields ELSE {})
  BY DEF updatefieldList
<1>7. one.require_an_optional = IF Has(rf["initial"], "require_an_optional")
                                THEN rf["initial"].require_an_optional ELSE FALSE
  BY DEF updatefieldList
<1>8. two.require_an_optional = IF Has(rf[c], "require_an_optional")
                                THEN rf[c].require_an_optional ELSE one.require_an_optional
  BY DEF updatefieldList
<1>9. three.require_an_optional = IF Has(rf["all"], "require_an_optional")
                                  THEN rf["all"].require_an_optional
                                  ELSE two.require_an_optional
  BY DEF updatefieldList
<1> HIDE DEF one, two, three
<1>10. three.fields = Demanded(rf)
  <2>1. \A f : f \in Demanded(rf) <=> \E a \in {"initial", c, "all"} :
                                         Has(rf[a], "fields") /\ f \in rf[a].fields
    BY DEF Demanded, Parts, c
  <2>2. \A f : f \in three.fields <=> \E a \in {"initial", c, "all"} :
                                         Has(rf[a], "fields") /\ f \in rf[a].fields
    BY <1>4, <1>5, <1>6
  <2> QED
    BY <2>1, <2>2
<1>11. three.require_an_optional <=> OptionalDemanded(rf)
  BY <1>3, <1>7, <1>8, <1>9 DEF OptionalDemanded, c
<1> QED
  BY <1>2, <1>10, <1>11 DEF c

\* A section of a schema that runs is the one of the configuration with its parts
\* digested: there is none for an action exactly if the configuration has none.
LEMMA SectionDigested ==
    ASSUME NEW config, SubSectionValid(config), schema = parseSubSection(config),
           NEW p \in DOMAIN config
    PROVE  LET rf == config[p].required_fields
               parts == schema[p].required_fields
           IN
           /\ schema[p].legend = config[p].legend
           /\ (Has(parts, action) \/ Has(parts, "default")) <=> Chosen(rf) \in DOMAIN rf
           /\ Chosen(rf) \in DOMAIN rf =>
                 /\ Required(schema[p]).fields = Demanded(rf)
                 /\ Required(schema[p]).require_an_optional <=> OptionalDemanded(rf)
<1> DEFINE rf == config[p].required_fields
           parts == schema[p].required_fields
<1>1. schema[p] = [required_fields |-> processRequiredFields(rf), legend |-> config[p].legend]
  BY DEF parseSubSection
<1>2. schema[p].legend = config[p].legend /\ parts = processRequiredFields(rf)
  BY <1>1
<1>3. DOMAIN parts = Sections(rf) \ {"initial", "all"}
  BY <1>2 DEF processRequiredFields
<1>4. (Has(parts, action) \/ Has(parts, "default")) <=> Chosen(rf) \in DOMAIN rf
  BY <1>3 DEF Has, Chosen, Sections
<1>5. Required(schema[p]) = processRequiredFields(rf)[Chosen(rf)]
  BY <1>2, <1>3 DEF Required, Has, Chosen
<1>6. RequiredFieldsValid(rf)
  BY DEF SubSectionValid
<1> QED
  BY <1>2, <1>4, <1>5, <1>6, PartDigested

-----------------------------------------------------------------------------
(* What holds while a validation runs *)

\* The schema is one of the configuration that InitSchema has accepted, the request
\* is a document, and all that the calls are about has a path.
LEMMA Running ==
    ASSUME IInv, pc = "validating"
    PROVE  /\ IsSchema(Configured)
           /\ SubSectionValid(Configured)
           /\ schema = parseSubSection(Configured)
           /\ IsDocument(request)
           /\ CallsOK
           /\ path \in Seq(Fields)
           /\ \A r \in left : r \in Seq(Fields) /\ r # <<>>
<1>1. IsSchema(Configured)
  BY SchemasAssumption DEF IInv, Control, Configured
<1>2. SubSectionValid(Configured) /\ schema = parseSubSection(Configured)
  BY DEF IInv, Digested
<1>3. request \in Documents[message] /\ CallsOK
  BY DEF IInv, Validating
<1>4. IsDocument(request)
  BY <1>3, DocumentsAssumption DEF IInv, Control
<1>5. path \in Seq(Fields)
  BY <1>3, <1>4, PlaceFacts DEF CallsOK
<1>6. \A r \in left : r \in Seq(Fields) /\ r # <<>>
  BY <1>3, <1>4, DocumentPaths DEF CallsOK
<1> QED
  BY <1>1, <1>2, <1>3, <1>4, <1>5, <1>6

\* The definition of a known field is one that InitSchema has accepted.
LEMMA KnownDefinition ==
    ASSUME NEW config, IsSchema(config), SubSectionValid(config), NEW q, Known(q, config)
    PROVE  /\ SomeDefinition(Definition(q, config))
           /\ Nested(Definition(q, config)) =>
                 Append(Parent(q), Key(q)) \in DOMAIN config
<1> DEFINE p == Parent(q)
           f == Key(q)
           def == config[p].legend[f]
<1>1. p \in DOMAIN config /\ f \in DOMAIN config[p].legend
  BY DEF Known, Has
<1>2. Definition(q, config) = def
  BY DEF Definition
<1> HIDE DEF p, f
<1>3. Has(config[p], "legend") /\ def # Scalar /\ def.type \in Types
  BY <1>1 DEF SubSectionValid
<1>4. Nested(def) => Append(p, f) \in DOMAIN config
  BY <1>1 DEF SubSectionValid
<1>5. IsSection(config[p])
  BY <1>1 DEF IsSchema
<1>6. Has(def, "additional_validation") /\ LengthGiven(def.additional_validation) =>
          def.additional_validation.length \in Seq(Bounds)
  BY <1>1, <1>3, <1>5 DEF IsSection
<1>7. SomeDefinition(def)
  BY <1>3, <1>6 DEF SomeDefinition
<1> QED
  BY <1>2, <1>4, <1>7 DEF p, f

\* The meaning of a part for an action changes only with the action.
LEMMA MeaningStays ==
    ASSUME action' = action, message' = message, request' = request
    PROVE  /\ \A m : Complete(request, m, Configured[m])' <=>
                        Complete(request, m, Configured[m])
           /\ Conforms(request, Configured)' <=> Conforms(request, Configured)
           /\ Trapped(request, Configured)' <=> Trapped(request, Configured)
<1>1. \A m : Complete(request, m, Configured[m])' <=> Complete(request, m, Configured[m])
  BY DEF Complete, Chosen, Demanded, Parts, OptionalDemanded, Configured
<1>2. Conforms(request, Configured)' <=> Conforms(request, Configured)
  BY DEF Conforms, Complete, Chosen, Demanded, Parts, OptionalDemanded, Configured
<1>3. Trapped(request, Configured)' <=> Trapped(request, Configured)
  BY DEF Trapped, Chosen, Configured
<1> QED
  BY <1>1, <1>2, <1>3

\* A field stays settled as long as the document has the same there.
LEMMA SettledStays ==
    ASSUME message' = message, request' = request, NEW x,
           x \in DOMAIN document' <=> x \in DOMAIN document,
           x \in DOMAIN document => document'[x] = document[x]
    PROVE  Settled(x)' <=> Settled(x)
BY DEF Settled, Configured

\* The end of a validation with a verdict that is justified.
LEMMA ReturnStep ==
    ASSUME IInv, pc = "validating", NEW outcome \in {"ok", "error", "panic"},
           Return(outcome),
           outcome = "ok" =>
              /\ \A x \in DOMAIN request : Settled(x)
              /\ \A m \in Places(request) \cap DOMAIN Configured :
                    Complete(request, m, Configured[m]),
           outcome = "error" => ~Conforms(request, Configured),
           outcome = "panic" => Trapped(request, Configured)
    PROVE  IInv'
<1>1. /\ message' = message /\ schema' = schema /\ action' = action
      /\ request' = request /\ document' = document
      /\ verdict' = outcome /\ pc' = "done"
      /\ path' = <<>> /\ at' = "schema" /\ left' = {}
  BY DEF Return
<1>2. Control'
  BY <1>1 DEF Control, IInv
<1>3. Digested'
  BY <1>1 DEF Digested, IInv, Configured
<1>4. Validating'
  BY <1>1 DEF Validating
<1>5. Configured' = Configured
  BY <1>1 DEF Configured
<1>6. request' \in Documents[message'] /\ DOMAIN document' \subseteq DOMAIN request'
  BY <1>1 DEF IInv, Validating
<1>7. \A x : Settled(x)' <=> Settled(x)
  BY <1>1, SettledStays
<1>8. \A m : Complete(request, m, Configured[m])' <=> Complete(request, m, Configured[m])
  BY <1>1, MeaningStays
<1>9. verdict' = "ok" =>
         /\ \A x \in DOMAIN request' : Settled(x)'
         /\ \A m \in Places(request)' \cap DOMAIN Configured' :
               Complete(request, m, Configured[m])'
  <2>1. Places(request)' = Places(request)
    BY <1>1 DEF Places
  <2> QED
    BY <1>1, <1>5, <1>7, <1>8, <2>1
<1>10. verdict' = "error" => ~Conforms(request, Configured)'
  BY <1>1, MeaningStays
<1>11. verdict' = "panic" => Trapped(request, Configured)'
  BY <1>1, MeaningStays
<1>12. Judged'
  BY <1>6, <1>9, <1>10, <1>11 DEF Judged
<1> QED
  BY <1>2, <1>3, <1>4, <1>12 DEF IInv

\* A step of a validation that goes on.
LEMMA ContinueStep ==
    ASSUME IInv, pc = "validating", Continue, CallsOK',
           DOMAIN document' \subseteq DOMAIN request,
           PendingUntouched', VisitedSettled', VisitedComplete'
    PROVE  IInv'
<1>1. /\ message' = message /\ schema' = schema /\ pc' = pc /\ action' = action
      /\ request' = request /\ verdict' = verdict
  BY DEF Continue
<1>2. Control'
  BY <1>1 DEF Control, IInv
<1>3. Digested'
  BY <1>1 DEF Digested, IInv, Configured
<1>4. Validating'
  BY <1>1 DEF Validating, IInv
<1>5. Judged'
  BY <1>1 DEF Judged
<1> QED
  BY <1>2, <1>3, <1>4, <1>5 DEF IInv

-----------------------------------------------------------------------------
(* ValidateWithSchema *)

\* A field of a document is below it.
LEMMA AppendBelow ==
    ASSUME NEW S, NEW p \in Seq(S), NEW f
    PROVE  Below(Append(p, f), p) /\ Append(p, f) # p
<1>1. p \in Seq(S \cup {f}) /\ f \in S \cup {f}
  OBVIOUS
<1>2. /\ Append(p, f) \in Seq(S \cup {f})
      /\ Len(Append(p, f)) = Len(p) + 1
      /\ \A i \in 1..Len(p) : Append(p, f)[i] = p[i]
  BY <1>1, AppendFacts
<1> QED
  BY <1>2 DEF Below

\* When a call begins, the document has the fields that came in, though other calls
\* have changed other parts of it: the required fields are found or missed in the
\* request.
LEMMA CheckedAsRequested ==
    ASSUME IInv, pc = "validating", at = "schema",
           Chosen(Configured[path].required_fields) \in DOMAIN Configured[path].required_fields
    PROVE  (/\ ValidateRequiredFields(document, path, Required(schema[path]))
            /\ Required(schema[path]).require_an_optional =>
                  ValidatieAnOptionalField(document, path, schema[path].legend,
                                           Required(schema[path])))
           <=> Complete(request, path, Configured[path])
<1> DEFINE rf == Configured[path].required_fields
<1>1. path \in Seq(Fields) /\ path \in DOMAIN Configured
  BY Running DEF CallsOK
<1>2. \A f : Append(path, f) \in DOMAIN document <=> Append(path, f) \in DOMAIN request
  <2>1. \A f : Below(Append(path, f), path) /\ Append(path, f) # path
    BY <1>1, AppendBelow
  <2>2. \A f : Pending(Append(path, f))
    BY <2>1 DEF Pending
  <2> QED
    BY <2>2 DEF IInv, Validating, PendingUntouched
<1>3. /\ schema[path].legend = Configured[path].legend
      /\ Required(schema[path]).fields = Demanded(rf)
      /\ Required(schema[path]).require_an_optional <=> OptionalDemanded(rf)
  BY <1>1, Running, SectionDigested
<1> QED
  BY <1>2, <1>3 DEF ValidateRequiredFields, ValidatieAnOptionalField, Complete

\* The loop of a call has still to come to what was still to come before it.
LEMMA LoopBegins ==
    ASSUME IInv, pc = "validating", at = "schema",
           at' = "legend", path' = path, left' = left \cup FieldsAt(document, path),
           NEW x \in DOMAIN request
    PROVE  /\ Pending(x)' <=> Pending(x)
           /\ PendingPlace(x)' <=> (PendingPlace(x) /\ x # path)
<1>1. /\ IsDocument(request) /\ path \in Seq(Fields) /\ path \in Places(request)
      /\ \A r \in left : r \in Seq(Fields) /\ r # <<>> /\ ~Below(path, r)
  BY Running DEF CallsOK
<1>2. x \in Seq(Fields) /\ x # <<>>
  BY <1>1, DocumentPaths
<1>3. DOMAIN document \subseteq DOMAIN request
  BY DEF IInv, Validating
<1>4. ASSUME Below(x, path), x # path
      PROVE  \E r \in FieldsAt(document, path) : Below(x, r)
  <2> DEFINE c == SubSeq(x, 1, Len(path) + 1)
  <2>1. c \in Seq(Fields) /\ c # <<>> /\ Parent(c) = path /\ Below(x, c)
    BY <1>1, <1>2, <1>4, StepTowards
  <2> HIDE DEF c
  <2>2. c \in DOMAIN request
    <3>1. CASE x = c
      BY <3>1
    <3>2. CASE x # c
      BY <1>1, <2>1, <3>2, DocumentPrefix
    <3> QED
      BY <3>1, <3>2
  <2>3. Below(c, path) /\ c # path
    BY <2>1, ParentFacts
  <2>4. c \in DOMAIN document
    BY <2>2, <2>3 DEF IInv, Validating, PendingUntouched, Pending
  <2> QED
    BY <2>1, <2>4 DEF FieldsAt
<1>5. ASSUME NEW r \in FieldsAt(document, path), Below(x, r)
      PROVE  Below(x, path) /\ x # path
  <2>1. r \in DOMAIN request /\ Parent(r) = path
    BY <1>3 DEF FieldsAt
  <2>2. r \in Seq(Fields) /\ r # <<>>
    BY <1>1, <2>1, DocumentPaths
  <2> QED
    BY <1>2, <1>5, <2>1, <2>2, BelowParent
<1>6. Pending(x)' <=> \E r \in left \cup FieldsAt(document, path) : Below(x, r)
  BY DEF Pending
<1>7. PendingPlace(x)' <=> \E r \in left \cup FieldsAt(document, path) : Below(x, r)
  BY DEF PendingPlace
<1>8. Pending(x) <=> (\E r \in left : Below(x, r)) \/ (Below(x, path) /\ x # path)
  BY DEF Pending
<1>9. PendingPlace(x) <=> (\E r \in left : Below(x, r)) \/ Below(x, path)
  BY DEF PendingPlace
<1>10. (\E r \in left : Below(x, r)) => x # path
  BY <1>1
<1> QED
  BY <1>4, <1>5, <1>6, <1>7, <1>8, <1>9, <1>10

\* The call goes on to its loop: the document at path is complete.
LEMMA LoopStep ==
    ASSUME IInv, pc = "validating", at = "schema",
           at' = "legend", left' = left \cup FieldsAt(document, path),
           document' = document, path' = path, Continue,
           Complete(request, path, Configured[path])
    PROVE  IInv'
<1>1. /\ IsDocument(request) /\ CallsOK /\ path \in Seq(Fields)
      /\ \A r \in left : r \in Seq(Fields) /\ r # <<>>
  BY Running
<1>2. /\ message' = message /\ action' = action /\ request' = request
      /\ Configured' = Configured
  BY DEF Continue, Configured
<1>3. DOMAIN document \subseteq DOMAIN request
  BY DEF IInv, Validating
<1>4. \A x \in DOMAIN request : /\ Pending(x)' <=> Pending(x)
                                /\ PendingPlace(x)' <=> (PendingPlace(x) /\ x # path)
  BY LoopBegins
<1>5. CallsOK'
  <2>1. left' \subseteq DOMAIN request'
    BY <1>1, <1>2, <1>3 DEF CallsOK, FieldsAt
  <2>2. ASSUME NEW r \in FieldsAt(document, path)
        PROVE  Below(path, Parent(r)) /\ ~Below(path, r)
    <3>1. r \in DOMAIN request /\ Parent(r) = path
      BY <1>3 DEF FieldsAt
    <3>2. r \in Seq(Fields) /\ r # <<>>
      BY <1>1, <3>1, DocumentPaths
    <3>3. Below(path, Parent(r))
      BY <1>1, <3>1, BelowSelf
    <3>4. ~Below(path, r)
      BY <1>1, <3>1, <3>2, BelowParent
    <3> QED
      BY <3>3, <3>4
  <2>3. \A r \in left' : Below(path, Parent(r)) /\ ~Below(path, r)
    BY <1>1, <2>2 DEF CallsOK
  <2>4. path' \in Places(request)' /\ path' \in DOMAIN Configured'
    BY <1>1, <1>2 DEF CallsOK, Places
  <2> QED
    BY <2>1, <2>3, <2>4 DEF CallsOK
<1>6. PendingUntouched'
  BY <1>2, <1>4 DEF PendingUntouched, IInv, Validating
<1>7. VisitedSettled'
  <2>1. \A x : Settled(x)' <=> Settled(x)
    BY <1>2, SettledStays
  <2> QED
    BY <1>2, <1>4, <2>1 DEF VisitedSettled, IInv, Validating
<1>8. VisitedComplete'
  <2>1. SUFFICES ASSUME NEW m \in Places(request) \cap DOMAIN Configured,
                        ~PendingPlace(m)'
                 PROVE  Complete(request, m, Configured[m])'
    <3>1. Places(request)' = Places(request)
      BY <1>2 DEF Places
    <3> QED
      BY <1>2, <2>1, <3>1 DEF VisitedComplete
  <2>2. m = path \/ ~PendingPlace(m)
    <3>1. CASE m \in DOMAIN request
      BY <1>4, <2>1, <3>1
    <3>2. CASE m = <<>>
      BY <1>1, <3>2, BelowRoot DEF PendingPlace
    <3> QED
      BY <3>1, <3>2 DEF Places
  <2>3. Complete(request, m, Configured[m])
    BY <2>2 DEF IInv, Validating, VisitedComplete
  <2> QED
    BY <1>2, <2>3, MeaningStays
<1>9. DOMAIN document' \subseteq DOMAIN request
  BY <1>3
<1> QED
  BY <1>5, <1>6, <1>7, <1>8, <1>9, ContinueStep

\* ValidateWithSchema up to its loop keeps the invariant.
LEMMA SchemaStep ==
    ASSUME IInv, ValidateWithSchema
    PROVE  IInv'
<1> DEFINE section == schema[path]
           required == Required(section)
           rf == Configured[path].required_fields
           none == ~Has(section.required_fields, action) /\ ~Has(section.required_fields, "default")
           bad == \/ ~ValidateRequiredFields(document, path, required)
                  \/ /\ required.require_an_optional
                     /\ ~ValidatieAnOptionalField(document, path, section.legend, required)
<1>1. pc = "validating" /\ at = "schema"
  BY DEF ValidateWithSchema
<1>2. \/ none /\ Return("panic")
      \/ ~none /\ bad /\ Return("error")
      \/ /\ ~none /\ ~bad
         /\ at' = "legend" /\ left' = left \cup FieldsAt(document, path)
         /\ document' = document /\ path' = path
         /\ Continue
  BY DEF ValidateWithSchema
<1>3. path \in Places(request) \cap DOMAIN Configured
  BY <1>1, Running DEF CallsOK
<1>4. none <=> Chosen(rf) \notin DOMAIN rf
  BY <1>1, <1>3, Running, SectionDigested
<1>5. ~none => (~bad <=> Complete(request, path, Configured[path]))
  BY <1>1, <1>4, CheckedAsRequested
<1> HIDE DEF none, bad
<1>6. CASE none /\ Return("panic")
  <2>1. Trapped(request, Configured)
    BY <1>3, <1>4, <1>6 DEF Trapped
  <2> QED
    BY <1>1, <1>6, <2>1, ReturnStep
<1>7. CASE ~none /\ bad /\ Return("error")
  <2>1. ~Conforms(request, Configured)
    BY <1>3, <1>5, <1>7 DEF Conforms
  <2> QED
    BY <1>1, <1>7, <2>1, ReturnStep
<1>8. CASE /\ ~none /\ ~bad
           /\ at' = "legend" /\ left' = left \cup FieldsAt(document, path)
           /\ document' = document /\ path' = path
           /\ Continue
  BY <1>1, <1>5, <1>8, LoopStep
<1> QED
  BY <1>2, <1>6, <1>7, <1>8

-----------------------------------------------------------------------------
(* ValidateWithLegend *)

\* No loop has still to come to what is in the field that is visited, but for the
\* visit itself.
LEMMA NothingElsePending ==
    ASSUME IInv, pc = "validating", at = "legend", NEW q \in left, Parent(q) = path,
           NEW x \in Seq(Fields), NEW r \in left, r # q, Below(x, q), Below(x, r)
    PROVE  FALSE
<1>1. /\ path \in Seq(Fields)
      /\ q \in Seq(Fields) /\ q # <<>> /\ r \in Seq(Fields) /\ r # <<>>
      /\ Below(path, Parent(r)) /\ ~Below(path, r)
  BY Running DEF CallsOK
<1>2. Len(r) <= Len(q)
  <2>1. Len(Parent(r)) <= Len(path)
    BY <1>1 DEF Below
  <2>2. Len(Parent(r)) = Len(r) - 1 /\ Len(path) = Len(q) - 1
    BY <1>1, ParentFacts
  <2> QED
    BY <1>1, <2>1, <2>2
<1>3. Below(q, r)
  BY <1>1, <1>2, BelowLinear
<1>4. Below(Parent(q), r)
  BY <1>1, <1>3, ParentBelow
<1> QED
  BY <1>1, <1>4

\* The field that is visited is what came in, and the legend of the call is the one
\* of the configuration.
LEMMA VisitFacts ==
    ASSUME IInv, pc = "validating", at = "legend", NEW q \in left, Parent(q) = path
    PROVE  /\ q \in DOMAIN request /\ q \in Seq(Fields) /\ q # <<>>
           /\ q \in DOMAIN document /\ document[q] = request[q]
           /\ Has(schema[path].legend, Key(q)) <=> Known(q, Configured)
           /\ schema[path].legend[Key(q)] = Definition(q, Configured)
<1>1. q \in DOMAIN request /\ q \in Seq(Fields) /\ q # <<>> /\ path \in DOMAIN Configured
  BY Running DEF CallsOK
<1>2. Pending(q)
  BY <1>1, BelowSelf DEF Pending
<1>3. q \in DOMAIN document /\ document[q] = request[q]
  BY <1>1, <1>2 DEF IInv, Validating, PendingUntouched
<1>4. schema[path].legend = Configured[path].legend
  BY <1>1, Running, SectionDigested
<1> QED
  BY <1>1, <1>3, <1>4 DEF Known, Definition

\* A visit that does not descend: nothing is pending below the field any more, and
\* nothing else changes.
LEMMA VisitPending ==
    ASSUME IInv, pc = "validating", at = "legend", NEW q \in left, Parent(q) = path,
           left' = left \ {q}, path' = path, at' = at, NEW x \in Seq(Fields)
    PROVE  /\ Pending(x)' <=> (Pending(x) /\ ~Below(x, q))
           /\ PendingPlace(x)' <=> (PendingPlace(x) /\ ~Below(x, q))
<1>1. Pending(x)' <=> \E r \in left \ {q} : Below(x, r)
  BY DEF Pending
<1>2. PendingPlace(x)' <=> \E r \in left \ {q} : Below(x, r)
  BY DEF PendingPlace
<1>3. Pending(x) <=> \E r \in left : Below(x, r)
  BY DEF Pending
<1>4. PendingPlace(x) <=> \E r \in left : Below(x, r)
  BY DEF PendingPlace
<1>5. ~(Below(x, q) /\ \E r \in left \ {q} : Below(x, r))
  BY NothingElsePending
<1> QED
  BY <1>1, <1>2, <1>3, <1>4, <1>5

\* A visit that does not descend keeps the invariant if what is below the field is
\* settled by it, and holds no section, and all else is left alone.
LEMMA VisitStep ==
    ASSUME IInv, pc = "validating", at = "legend", NEW q \in left, Parent(q) = path,
           left' = left \ {q}, path' = path, at' = at, Continue,
           DOMAIN document' \subseteq DOMAIN document,
           \A x \in DOMAIN request : Below(x, q) => Settled(x)',
           \A x \in DOMAIN request : ~Below(x, q) =>
              /\ x \in DOMAIN document' <=> x \in DOMAIN document
              /\ x \in DOMAIN document => document'[x] = document[x],
           \A m \in Places(request) \cap DOMAIN Configured : ~Below(m, q)
    PROVE  IInv'
<1>1. IsDocument(request) /\ CallsOK
  BY Running
<1>2. /\ message' = message /\ action' = action /\ request' = request
      /\ Configured' = Configured
  BY DEF Continue, Configured
<1>3. DOMAIN document' \subseteq DOMAIN request
  BY DEF IInv, Validating
<1>4. \A x \in DOMAIN request : Pending(x)' <=> (Pending(x) /\ ~Below(x, q))
  BY <1>1, DocumentPaths, VisitPending
<1>5. CallsOK'
  BY <1>1, <1>2 DEF CallsOK, Places
<1>6. PendingUntouched'
  BY <1>2, <1>4 DEF PendingUntouched, IInv, Validating
<1>7. VisitedSettled'
  <2>1. SUFFICES ASSUME NEW x \in DOMAIN request, ~Pending(x)'
                 PROVE  Settled(x)'
    BY <1>2 DEF VisitedSettled
  <2>2. CASE Below(x, q)
    BY <2>2
  <2>3. CASE ~Below(x, q)
    <3>1. Settled(x)
      BY <1>4, <2>1, <2>3 DEF IInv, Validating, VisitedSettled
    <3>2. Settled(x)' <=> Settled(x)
      BY <1>2, <2>3, SettledStays
    <3> QED
      BY <3>1, <3>2
  <2> QED
    BY <2>2, <2>3
<1>8. VisitedComplete'
  <2>1. SUFFICES ASSUME NEW m \in Places(request) \cap DOMAIN Configured,
                        ~PendingPlace(m)'
                 PROVE  Complete(request, m, Configured[m])'
    <3>1. Places(request)' = Places(request)
      BY <1>2 DEF Places
    <3> QED
      BY <1>2, <2>1, <3>1 DEF VisitedComplete
  <2>2. m \in Seq(Fields)
    BY <1>1, PlaceFacts
  <2>3. ~PendingPlace(m)
    BY <2>1, <2>2, VisitPending
  <2>4. Complete(request, m, Configured[m])
    BY <2>3 DEF IInv, Validating, VisitedComplete
  <2> QED
    BY <1>2, <2>4, MeaningStays
<1> QED
  BY <1>3, <1>5, <1>6, <1>7, <1>8, ContinueStep

\* An unknown field goes, with all that is in it.
LEMMA StrainStep ==
    ASSUME IInv, pc = "validating", at = "legend", NEW q \in left, Parent(q) = path,
           left' = left \ {q}, path' = path, at' = at, Continue,
           ~Known(q, Configured), document' = Strain(document, q)
    PROVE  IInv'
<1>1. IsDocument(request) /\ IsSchema(Configured)
  BY Running
<1>2. q \in Seq(Fields) /\ q # <<>>
  BY VisitFacts
<1>3. request' = request /\ Configured' = Configured
  BY DEF Continue, Configured
<1>4. DOMAIN document' = {y \in DOMAIN document : ~Below(y, q)}
  BY DEF Strain
<1>5. \A x \in DOMAIN document' : document'[x] = document[x]
  BY DEF Strain
<1>6. ASSUME NEW x \in DOMAIN request, Below(x, q)
      PROVE  Settled(x)'
  <2>1. x \in Seq(Fields)
    BY <1>1, DocumentPaths
  <2>2. ~Known(x, Configured)
    BY <1>1, <1>2, <1>6, <2>1, UnknownBelow
  <2>3. x \notin DOMAIN document'
    BY <1>4, <1>6
  <2> QED
    BY <1>3, <2>2, <2>3 DEF Settled
<1>7. \A x \in DOMAIN request : ~Below(x, q) =>
         /\ x \in DOMAIN document' <=> x \in DOMAIN document
         /\ x \in DOMAIN document => document'[x] = document[x]
  BY <1>4, <1>5
<1>8. \A m \in Places(request) \cap DOMAIN Configured : ~Below(m, q)
  BY <1>1, <1>2, SectionPrefix
<1>9. DOMAIN document' \subseteq DOMAIN document
  BY <1>4
<1> QED
  BY <1>6, <1>7, <1>8, <1>9, VisitStep

\* An accepted value is converted in place.
LEMMA AcceptStep ==
    ASSUME IInv, pc = "validating", at = "legend", NEW q \in left, Parent(q) = path,
           left' = left \ {q}, path' = path, at' = at, Continue,
           Known(q, Configured),
           FieldOutcome(Definition(q, Configured), request[q]) = "ok",
           document' = [document EXCEPT ![q] =
                           Converted(Definition(q, Configured), request[q])]
    PROVE  IInv'
<1> DEFINE def == Definition(q, Configured)
<1>1. IsDocument(request) /\ IsSchema(Configured) /\ SubSectionValid(Configured)
  BY Running
<1>2. q \in DOMAIN request /\ q \in DOMAIN document /\ q \in Seq(Fields) /\ q # <<>>
  BY VisitFacts
<1>3. request' = request /\ Configured' = Configured
  BY DEF Continue, Configured
<1>4. SomeDefinition(def) /\ SomeValue(request[q])
  BY <1>1, <1>2, KnownDefinition DEF IsDocument, SomeValue
<1>5. Fits(def, request[q]) /\ request[q].kind # "map"
  BY <1>4, FieldJudged
<1>6. \A x \in DOMAIN request : Below(x, q) => x = q
  BY <1>1, <1>2, <1>5, DocumentPrefix
<1>7. /\ DOMAIN document' = DOMAIN document
      /\ document'[q] = Converted(def, request[q])
      /\ \A x \in DOMAIN document : x # q => document'[x] = document[x]
  BY <1>2
<1>8. Settled(q)'
  BY <1>2, <1>3, <1>5, <1>7 DEF Settled
<1>9. \A x \in DOMAIN request : Below(x, q) => Settled(x)'
  BY <1>6, <1>8
<1>10. \A x \in DOMAIN request : ~Below(x, q) =>
         /\ x \in DOMAIN document' <=> x \in DOMAIN document
         /\ x \in DOMAIN document => document'[x] = document[x]
  BY <1>2, <1>7, BelowSelf
<1>11. \A m \in Places(request) \cap DOMAIN Configured : ~Below(m, q)
  <2>1. SUFFICES ASSUME NEW m \in Places(request), Below(m, q)
                 PROVE  FALSE
    OBVIOUS
  <2>2. CASE m = <<>>
    BY <1>2, <2>1, <2>2, BelowRoot
  <2>3. CASE m \in DOMAIN request /\ request[m].kind = "map"
    BY <1>5, <1>6, <2>1, <2>3
  <2> QED
    BY <2>2, <2>3 DEF Places
<1>12. DOMAIN document' \subseteq DOMAIN document
  BY <1>7
<1> QED
  BY <1>9, <1>10, <1>11, <1>12, VisitStep

\* A call begins for the document that is the value of the field: of all that was
\* still to come only the field itself is done.
LEMMA DescendStep ==
    ASSUME IInv, pc = "validating", at = "legend", NEW q \in left, Parent(q) = path,
           left' = left \ {q}, path' = q, at' = "schema", document' = document, Continue,
           Known(q, Configured),
           FieldOutcome(Definition(q, Configured), request[q]) = "nested"
    PROVE  IInv'
<1> DEFINE def == Definition(q, Configured)
<1>1. /\ IsDocument(request) /\ IsSchema(Configured) /\ SubSectionValid(Configured)
      /\ CallsOK /\ path \in Seq(Fields)
      /\ \A r \in left : r \in Seq(Fields) /\ r # <<>>
  BY Running
<1>2. /\ q \in DOMAIN request /\ q \in Seq(Fields) /\ q # <<>>
      /\ q \in DOMAIN document /\ document[q] = request[q]
  BY VisitFacts
<1>3. /\ message' = message /\ action' = action /\ request' = request
      /\ Configured' = Configured
  BY DEF Continue, Configured
<1>4. SomeDefinition(def) /\ SomeValue(request[q])
  BY <1>1, <1>2, KnownDefinition DEF IsDocument, SomeValue
<1>5. /\ Fits(def, request[q]) /\ request[q].kind = "map"
      /\ Nested(def) /\ Converted(def, request[q]) = request[q]
  BY <1>4, FieldJudged
<1>6. \A x \in Seq(Fields) :
         ~(Below(x, q) /\ \E r \in left \ {q} : Below(x, r))
  BY NothingElsePending
<1>7. Below(q, q) /\ Below(q, path)
  BY <1>1, <1>2, BelowSelf, ParentFacts
<1>8. CallsOK'
  <2>1. q \in Places(request)
    BY <1>2, <1>5 DEF Places
  <2>2. q \in DOMAIN Configured
    BY <1>1, <1>2, <1>5, KnownDefinition, ParentAppend
  <2>3. \A r \in left \ {q} : ~Below(q, r)
    BY <1>2, <1>6, <1>7
  <2>4. \A r \in left : Below(q, Parent(r))
    <3>1. SUFFICES ASSUME NEW r \in left
                   PROVE  Below(q, Parent(r))
      OBVIOUS
    <3>2. Below(path, Parent(r)) /\ Parent(r) \in Seq(Fields)
      BY <1>1, ParentFacts DEF CallsOK
    <3> QED
      BY <1>1, <1>2, <1>7, <3>2, BelowTransitive
  <2>5. Places(request)' = Places(request)
    BY <1>3 DEF Places
  <2> QED
    BY <1>1, <1>3, <2>1, <2>2, <2>3, <2>4, <2>5 DEF CallsOK
<1>9. \A x \in Seq(Fields) : /\ Pending(x)' <=> (Pending(x) /\ x # q)
                             /\ PendingPlace(x)' <=> PendingPlace(x)
  <2>1. SUFFICES ASSUME NEW x \in Seq(Fields)
                 PROVE  /\ Pending(x)' <=> (Pending(x) /\ x # q)
                        /\ PendingPlace(x)' <=> PendingPlace(x)
    OBVIOUS
  <2>2. Pending(x)' <=> (\E r \in left \ {q} : Below(x, r)) \/ (Below(x, q) /\ x # q)
    BY DEF Pending
  <2>3. PendingPlace(x)' <=> (\E r \in left \ {q} : Below(x, r)) \/ Below(x, q)
    BY DEF PendingPlace
  <2>4. Pending(x) <=> \E r \in left : Below(x, r)
    BY DEF Pending
  <2>5. PendingPlace(x) <=> \E r \in left : Below(x, r)
    BY DEF PendingPlace
  <2>6. x = q => ~\E r \in left \ {q} : Below(x, r)
    BY <1>2, <1>6, <1>7
  <2> QED
    BY <2>2, <2>3, <2>4, <2>5, <2>6
<1>10. \A x \in DOMAIN request : Pending(x)' <=> (Pending(x) /\ x # q)
  BY <1>1, <1>9, DocumentPaths
<1>11. PendingUntouched'
  BY <1>3, <1>10 DEF PendingUntouched, IInv, Validating
<1>12. VisitedSettled'
  <2>1. \A x : Settled(x)' <=> Settled(x)
    BY <1>3, SettledStays
  <2>2. Settled(q)
    BY <1>2, <1>5 DEF Settled
  <2> QED
    BY <1>3, <1>10, <2>1, <2>2 DEF VisitedSettled, IInv, Validating
<1>13. VisitedComplete'
  <2>1. Places(request)' = Places(request)
    BY <1>3 DEF Places
  <2>2. \A m \in Places(request) : PendingPlace(m)' <=> PendingPlace(m)
    BY <1>1, <1>9, PlaceFacts
  <2>3. \A m : Complete(request, m, Configured[m])' <=> Complete(request, m, Configured[m])
    BY <1>3, MeaningStays
  <2> QED
    BY <1>3, <2>1, <2>2, <2>3 DEF VisitedComplete, IInv, Validating
<1>14. DOMAIN document' \subseteq DOMAIN request
  BY DEF IInv, Validating
<1> QED
  BY <1>8, <1>11, <1>12, <1>13, <1>14, ContinueStep

\* A value that does not fit is an error, and a panic has its reason.
LEMMA RefuseStep ==
    ASSUME IInv, pc = "validating", at = "legend", NEW q \in left, Parent(q) = path,
           Known(q, Configured), NEW outcome \in {"error", "panic"},
           FieldOutcome(Definition(q, Configured), request[q]) = outcome,
           Return(outcome)
    PROVE  IInv'
<1> DEFINE def == Definition(q, Configured)
<1>1. IsDocument(request) /\ IsSchema(Configured) /\ SubSectionValid(Configured)
  BY Running
<1>2. q \in DOMAIN request
  BY VisitFacts
<1>3. SomeDefinition(def) /\ SomeValue(request[q])
  BY <1>1, <1>2, KnownDefinition DEF IsDocument, SomeValue
<1>4. outcome = "error" => ~Conforms(request, Configured)
  BY <1>2, <1>3, FieldJudged DEF Conforms
<1>5. outcome = "panic" => Trapped(request, Configured)
  BY <1>2, <1>3, FieldJudged DEF Trapped
<1> QED
  BY <1>4, <1>5, ReturnStep

\* Every visit of a field keeps the invariant.
LEMMA LegendStep ==
    ASSUME IInv, NEW q \in left, ValidateWithLegend(q)
    PROVE  IInv'
<1> DEFINE legend == schema[path].legend
           def == legend[Key(q)]
           v == document[q]
<1>1. pc = "validating" /\ at = "legend" /\ Parent(q) = path
  BY Zenon DEF ValidateWithLegend
<1>2. \/ /\ ~Has(legend, Key(q)) /\ document' = Strain(document, q)
         /\ Visited(q) /\ UNCHANGED <<path, at>> /\ Continue
      \/ /\ Has(legend, Key(q)) /\ FieldOutcome(def, v) = "ok"
         /\ document' = [document EXCEPT ![q] = Converted(def, v)]
         /\ Visited(q) /\ UNCHANGED <<path, at>> /\ Continue
      \/ /\ Has(legend, Key(q)) /\ FieldOutcome(def, v) = "nested"
         /\ path' = q /\ at' = "schema" /\ Visited(q) /\ UNCHANGED document /\ Continue
      \/ /\ Has(legend, Key(q)) /\ FieldOutcome(def, v) \in {"error", "panic"}
         /\ Return(FieldOutcome(def, v))
  BY Zenon DEF ValidateWithLegend
<1>3. /\ v = request[q]
      /\ Has(legend, Key(q)) <=> Known(q, Configured)
      /\ def = Definition(q, Configured)
  BY <1>1, VisitFacts
<1> HIDE DEF legend, def, v
<1>4. CASE /\ ~Has(legend, Key(q)) /\ document' = Strain(document, q)
           /\ Visited(q) /\ UNCHANGED <<path, at>> /\ Continue
  BY <1>1, <1>3, <1>4, StrainStep DEF Visited
<1>5. CASE /\ Has(legend, Key(q)) /\ FieldOutcome(def, v) = "ok"
           /\ document' = [document EXCEPT ![q] = Converted(def, v)]
           /\ Visited(q) /\ UNCHANGED <<path, at>> /\ Continue
  BY <1>1, <1>3, <1>5, AcceptStep DEF Visited
<1>6. CASE /\ Has(legend, Key(q)) /\ FieldOutcome(def, v) = "nested"
           /\ path' = q /\ at' = "schema" /\ Visited(q) /\ UNCHANGED document /\ Continue
  BY <1>1, <1>3, <1>6, DescendStep DEF Visited
<1>7. CASE /\ Has(legend, Key(q)) /\ FieldOutcome(def, v) \in {"error", "panic"}
           /\ Return(FieldOutcome(def, v))
  BY <1>1, <1>3, <1>7, RefuseStep
<1> QED
  BY <1>2, <1>4, <1>5, <1>6, <1>7

\* The end of a loop keeps the invariant: the caller has nothing left below path, and
\* the outermost call has nothing left at all.
LEMMA CallerStep ==
    ASSUME IInv, ReturnToCaller
    PROVE  IInv'
<1>1. pc = "validating" /\ at = "legend" /\ \A r \in left : Parent(r) # path
  BY DEF ReturnToCaller
<1>2. /\ IsDocument(request) /\ IsSchema(Configured) /\ CallsOK /\ path \in Seq(Fields)
      /\ \A r \in left : r \in Seq(Fields) /\ r # <<>>
  BY <1>1, Running
<1>3. \A r \in left : Below(path, Parent(r)) /\ ~Below(path, r) /\ Parent(r) \in Seq(Fields)
  BY <1>2, ParentFacts DEF CallsOK
<1>4. CASE path = <<>> /\ Return("ok")
  <2>1. left = {}
    BY <1>1, <1>3, <1>4, BelowRoot
  <2>2. \A x : ~Pending(x) /\ ~PendingPlace(x)
    BY <1>1, <2>1 DEF Pending, PendingPlace
  <2>3. \A x \in DOMAIN request : Settled(x)
    BY <1>1, <2>2 DEF IInv, Validating, VisitedSettled
  <2>4. \A m \in Places(request) \cap DOMAIN Configured :
           Complete(request, m, Configured[m])
    BY <1>1, <2>2 DEF IInv, Validating, VisitedComplete
  <2> QED
    BY <1>1, <1>4, <2>3, <2>4, ReturnStep
<1>5. CASE /\ path # <<>> /\ path' = Parent(path)
           /\ UNCHANGED <<document, at, left>> /\ Continue
  <2>1. /\ message' = message /\ action' = action /\ request' = request
        /\ Configured' = Configured
    BY <1>5 DEF Continue, Configured
  <2>2. Parent(path) \in Places(request)
    BY <1>2, <1>5, PlaceFacts DEF CallsOK
  <2>3. Parent(path) \in DOMAIN Configured
    <3>1. Below(path, path) /\ path \in DOMAIN Configured
      BY <1>2, BelowSelf DEF CallsOK
    <3>2. Known(path, Configured)
      BY <1>2, <1>5, <3>1, SectionPrefix
    <3> QED
      BY <3>2 DEF Known
  <2>4. \A r \in left : Below(Parent(path), Parent(r)) /\ ~Below(Parent(path), r)
    <3>1. SUFFICES ASSUME NEW r \in left
                   PROVE  Below(Parent(path), Parent(r)) /\ ~Below(Parent(path), r)
      OBVIOUS
    <3>2. Below(Parent(path), Parent(r))
      BY <1>1, <1>2, <1>3, ParentBelow
    <3>3. Parent(path) \in Seq(Fields) /\ Below(path, Parent(path))
      BY <1>2, <1>5, ParentFacts
    <3>4. ~Below(Parent(path), r)
      BY <1>2, <1>3, <3>3, BelowTransitive
    <3> QED
      BY <3>2, <3>4
  <2>5. Places(request)' = Places(request)
    BY <2>1 DEF Places
  <2>6. CallsOK'
    BY <1>2, <1>5, <2>1, <2>2, <2>3, <2>4, <2>5 DEF CallsOK
  <2>7. \A x : (Pending(x)' <=> Pending(x)) /\ (PendingPlace(x)' <=> PendingPlace(x))
    BY <1>1, <1>5 DEF Pending, PendingPlace
  <2>8. PendingUntouched'
    BY <1>1, <1>5, <2>1, <2>7 DEF PendingUntouched, IInv, Validating
  <2>9. VisitedSettled'
    <3>1. \A x : Settled(x)' <=> Settled(x)
      BY <1>5, <2>1, SettledStays
    <3> QED
      BY <1>1, <2>1, <2>7, <3>1 DEF VisitedSettled, IInv, Validating
  <2>10. VisitedComplete'
    <3>1. \A m : Complete(request, m, Configured[m])' <=> Complete(request, m, Configured[m])
      BY <2>1, MeaningStays
    <3> QED
      BY <1>1, <2>1, <2>5, <2>7, <3>1 DEF VisitedComplete, IInv, Validating
  <2>11. DOMAIN document' \subseteq DOMAIN request
    BY <1>1, <1>5 DEF IInv, Validating
  <2> QED
    BY <1>1, <1>5, <2>6, <2>8, <2>9, <2>10, <2>11, ContinueStep
<1> QED
  BY <1>4, <1>5 DEF ReturnToCaller

-----------------------------------------------------------------------------
(* The other actions, and the invariant *)

\* Nothing is pending or judged before a validation.
LEMMA InitInvariant == Init => IInv
<1>1. SUFFICES ASSUME Init PROVE IInv
  OBVIOUS
<1>2. /\ message \in DOMAIN Schemas /\ schema = Schemas[message] /\ pc = "config"
      /\ path = <<>> /\ at = "schema" /\ left = {} /\ verdict = "none"
  BY <1>1 DEF Init
<1> QED
  BY <1>2 DEF IInv, Control, Digested, Validating, Judged, Configured

\* A schema is digested only if it is valid.
LEMMA InitSchemaStep ==
    ASSUME IInv, InitSchema
    PROVE  IInv'
<1>1. /\ pc = "config" /\ message' = message /\ path' = path /\ at' = at
      /\ left' = left /\ verdict' = verdict
  BY DEF InitSchema
<1>2. schema = Configured /\ Configured' = Configured
  BY <1>1 DEF IInv, Digested, Configured
<1>3. \/ SubSectionValid(schema) /\ schema' = parseSubSection(schema) /\ pc' = "idle"
      \/ schema' = schema /\ pc' = "refused"
  BY DEF InitSchema
<1>4. Digested'
  BY <1>2, <1>3 DEF Digested
<1>5. Control' /\ Validating' /\ Judged'
  BY <1>1, <1>3 DEF IInv, Control, Validating, Judged
<1> QED
  BY <1>4, <1>5 DEF IInv

\* A corrected configuration is one that InitSchema has not seen.
LEMMA ReconfigureStep ==
    ASSUME IInv, Reconfigure
    PROVE  IInv'
<1>1. /\ pc = "refused" /\ pc' = "config" /\ message' \in DOMAIN Schemas
      /\ schema' = Schemas[message'] /\ path' = path /\ at' = at
      /\ left' = left /\ verdict' = verdict
  BY DEF Reconfigure
<1>2. Digested'
  BY <1>1 DEF Digested, Configured
<1>3. Control' /\ Validating' /\ Judged'
  BY <1>1 DEF IInv, Control, Validating, Judged
<1> QED
  BY <1>2, <1>3 DEF IInv

\* At the start of a validation all of the document is still to be visited.
LEMMA RequestStep ==
    ASSUME IInv, Request
    PROVE  IInv'
<1>1. /\ pc = "idle" /\ pc' = "validating" /\ request' \in Documents[message]
      /\ document' = request' /\ action' \in Actions /\ message' = message
      /\ schema' = schema /\ path' = path /\ at' = at /\ left' = left
      /\ verdict' = verdict
  BY DEF Request
<1>2. path' = <<>> /\ at' = "schema" /\ left' = {}
  BY <1>1 DEF IInv, Control
<1>3. IsSchema(Configured) /\ IsDocument(request') /\ Configured' = Configured
  BY <1>1, SchemasAssumption, DocumentsAssumption DEF IInv, Control, Configured
<1>4. CallsOK'
  BY <1>2, <1>3 DEF CallsOK, Places, IsSchema
<1>5. \A x \in DOMAIN request' : Pending(x)'
  <2>1. \A x \in DOMAIN request' : x \in Seq(Fields) /\ x # <<>>
    BY <1>3, DocumentPaths
  <2>2. \A x \in DOMAIN request' : Below(x, <<>>)
    BY <2>1, BelowRoot
  <2> QED
    BY <1>2, <2>1, <2>2 DEF Pending
<1>6. \A m \in Places(request)' : PendingPlace(m)'
  <2>1. \A m \in Places(request') : m \in Seq(Fields)
    BY <1>3, PlaceFacts
  <2>2. \A m \in Places(request') : Below(m, <<>>)
    BY <2>1, BelowRoot
  <2> QED
    BY <1>2, <2>2 DEF PendingPlace, Places
<1>7. PendingUntouched' /\ VisitedSettled'
  BY <1>1, <1>5 DEF PendingUntouched, VisitedSettled
<1>8. VisitedComplete'
  BY <1>6 DEF VisitedComplete
<1>9. Validating'
  BY <1>1, <1>4, <1>7, <1>8 DEF Validating
<1>10. Digested'
  BY <1>1, <1>3 DEF IInv, Digested
<1>11. Control' /\ Judged'
  BY <1>1 DEF IInv, Control, Judged
<1> QED
  BY <1>9, <1>10, <1>11 DEF IInv

\* The handler is done with the document.
LEMMA RespondStep ==
    ASSUME IInv, Respond
    PROVE  IInv'
<1>1. /\ pc = "done" /\ pc' = "idle" /\ message' = message /\ schema' = schema
      /\ path' = <<>> /\ at' = "schema" /\ left' = {} /\ verdict' = "none"
  BY DEF Respond
<1>2. Digested'
  BY <1>1 DEF IInv, Digested, Configured
<1>3. Control' /\ Validating' /\ Judged'
  BY <1>1 DEF IInv, Control, Validating, Judged
<1> QED
  BY <1>2, <1>3 DEF IInv

\* Nothing happens.
LEMMA StutterStep ==
    ASSUME IInv, UNCHANGED vars
    PROVE  IInv'
<1>1. /\ message' = message /\ schema' = schema /\ pc' = pc /\ action' = action
      /\ request' = request /\ document' = document /\ path' = path /\ at' = at
      /\ left' = left /\ verdict' = verdict
  BY DEF vars
<1>2. CASE pc = "validating"
  <2>1. Continue
    BY <1>1 DEF Continue
  <2>2. CallsOK /\ DOMAIN document \subseteq DOMAIN request /\ PendingUntouched
        /\ VisitedSettled /\ VisitedComplete
    BY <1>2 DEF IInv, Validating
  <2>3. CallsOK' /\ PendingUntouched'
    BY <1>1, <2>2 DEF CallsOK, Configured, Places, PendingUntouched, Pending
  <2>4. \A x : Settled(x)' <=> Settled(x)
    BY <1>1, SettledStays
  <2>5. VisitedSettled'
    BY <1>1, <2>2, <2>4 DEF VisitedSettled, Pending
  <2>6. \A m : Complete(request, m, Configured[m])' <=> Complete(request, m, Configured[m])
    BY <1>1, MeaningStays
  <2>7. Configured' = Configured /\ Places(request)' = Places(request)
    BY <1>1 DEF Configured, Places
  <2>8. VisitedComplete'
    BY <1>1, <2>2, <2>6, <2>7 DEF VisitedComplete, PendingPlace
  <2> QED
    BY <1>1, <1>2, <2>1, <2>2, <2>3, <2>5, <2>8, ContinueStep
<1>3. CASE pc # "validating"
  <2>1. Control' /\ Digested' /\ Validating'
    BY <1>1, <1>3 DEF IInv, Control, Digested, Validating, Configured
  <2>2. \A x : Settled(x)' <=> Settled(x)
    BY <1>1, SettledStays
  <2>3. Configured' = Configured /\ Places(request)' = Places(request)
    BY <1>1 DEF Configured, Places
  <2>4. Judged'
    BY <1>1, <2>2, <2>3, MeaningStays DEF IInv, Judged
  <2> QED
    BY <2>1, <2>4 DEF IInv
<1> QED
  BY <1>2, <1>3

\* Every path of a request is still to be visited and untouched, or settled for good:
\* the invariant that all the properties of the validation follow from.
THEOREM Invariance == Spec => []IInv
<1>1. ASSUME IInv, [Next]_vars
      PROVE  IInv'
  <2>1. \/ InitSchema \/ Reconfigure \/ Request \/ Respond \/ ValidateWithSchema
        \/ (\E q \in left : ValidateWithLegend(q))
        \/ ReturnToCaller \/ UNCHANGED vars
    BY <1>1, Zenon DEF Next
  <2> QED
    BY <1>1, <2>1, InitSchemaStep, ReconfigureStep, RequestStep, RespondStep, SchemaStep,
       LegendStep, CallerStep, StutterStep
<1> QED
  BY <1>1, InitInvariant, PTL DEF Spec

-----------------------------------------------------------------------------
(* The properties *)

\* A nested call is for a document that is still there.
LEMMA PlaceIsThere ==
    ASSUME IInv, pc = "validating"
    PROVE  path \in Places(document)
<1>1. /\ IsSchema(Configured) /\ path \in Seq(Fields)
      /\ path \in Places(request) /\ path \in DOMAIN Configured
  BY Running DEF CallsOK
<1>2. CASE path = <<>>
  BY <1>2 DEF Places
<1>3. CASE path \in DOMAIN request /\ request[path].kind = "map" /\ path # <<>>
  <2>1. Known(path, Configured)
    BY <1>1, <1>3, BelowSelf, SectionPrefix
  <2>2. CASE Pending(path)
    BY <1>3, <2>2 DEF IInv, Validating, PendingUntouched, Places
  <2>3. CASE ~Pending(path)
    <3>1. Settled(path)
      BY <1>3, <2>3 DEF IInv, Validating, VisitedSettled
    <3>2. /\ path \in DOMAIN document
          /\ document[path] = Converted(Definition(path, Configured), request[path])
      BY <2>1, <3>1 DEF Settled
    <3>3. document[path] = request[path]
      BY <1>3, <3>2 DEF Converted
    <3> QED
      BY <1>3, <3>2, <3>3 DEF Places
  <2> QED
    BY <2>2, <2>3
<1> QED
  BY <1>1, <1>2, <1>3 DEF Places

\* Whatever the schema, and however deep the documents: the innermost call is for a
\* document that is there and has a section, and so are the fields that are left.
THEOREM TypeCorrect == Spec => []TypeOK
<1>1. ASSUME IInv PROVE TypeOK
  <2>1. ASSUME pc = "validating"
        PROVE  /\ request \in Documents[message] /\ action \in Actions
               /\ path \in Places(document) \cap DOMAIN schema
               /\ at \in {"schema", "legend"} /\ left \subseteq DOMAIN document
    <3>1. /\ schema = parseSubSection(Configured) /\ CallsOK
          /\ \A r \in left : r \in Seq(Fields) /\ r # <<>>
      BY <1>1, <2>1, Running
    <3>2. path \in DOMAIN schema
      BY <3>1 DEF CallsOK, parseSubSection
    <3>3. \A r \in left : Pending(r)
      BY <3>1, BelowSelf DEF Pending
    <3>4. left \subseteq DOMAIN document
      BY <1>1, <2>1, <3>1, <3>3 DEF IInv, Validating, PendingUntouched, CallsOK
    <3>5. request \in Documents[message] /\ action \in Actions
      BY <1>1, <2>1 DEF IInv, Validating
    <3> QED
      BY <1>1, <2>1, <3>1, <3>2, <3>4, <3>5, PlaceIsThere DEF CallsOK
  <2> QED
    BY <1>1, <2>1 DEF TypeOK, IInv, Control
<1> QED
  BY <1>1, Invariance, PTL

\* For every schema that InitSchema accepts and every document, whatever the order of
\* the visits: ValidateWithSchema returns no error exactly if the document is one
\* that the configuration describes.
THEOREM ExactAcceptance == Spec => []AcceptsExactly
<1>1. ASSUME IInv PROVE AcceptsExactly
  <2>1. SUFFICES ASSUME verdict \in {"ok", "error"}
                 PROVE  verdict = "ok" <=> Conforms(request, Configured)
    BY <2>1 DEF AcceptsExactly, Configured
  <2>2. Judged /\ pc = "done"
    BY <1>1, <2>1 DEF IInv, Control
  <2>3. CASE verdict = "ok"
    <3>1. \A x \in DOMAIN request : Settled(x)
      BY <2>2, <2>3 DEF Judged
    <3>2. \A m \in Places(request) \cap DOMAIN Configured :
             Complete(request, m, Configured[m])
      BY <2>2, <2>3 DEF Judged
    <3>3. \A x \in DOMAIN request :
             Known(x, Configured) => Fits(Definition(x, Configured), request[x])
      BY <3>1 DEF Settled
    <3> QED
      BY <2>3, <3>2, <3>3 DEF Conforms
  <2>4. CASE verdict = "error"
    BY <2>2, <2>4 DEF Judged
  <2> QED
    BY <2>1, <2>3, <2>4
<1> QED
  BY <1>1, Invariance, PTL

\* What an accepted value is replaced by is what the data access layer can bind.
LEMMA ConvertedIsClean ==
    ASSUME NEW def, NEW v, Fits(def, v)
    PROVE  /\ v.kind # "nil" /\ def.type = "int" => Converted(def, v).kind = "int64"
           /\ ~(v.kind # "nil" /\ def.type = "int") =>
                 \/ Converted(def, v) = v
                 \/ Converted(def, v).kind = "uuid" /\ v.form = "uuid"
<1>1. v.kind # "nil" /\ def.type = "int" => v.kind = "string"
  BY DEF Fits
<1>2. v.kind = "string" /\ def.type # "int" =>
         /\ def.type = "string"
         /\ Has(def, "additional_validation") => StringFits(def.additional_validation, v)
  BY DEF Fits
<1> QED
  BY <1>1, <1>2 DEF Converted, StringFits

\* Only a null is converted to a null, and it is accepted only where it is allowed.
LEMMA ConvertedNull ==
    ASSUME NEW def, NEW v, Fits(def, v), Converted(def, v).kind = "nil"
    PROVE  Has(def, "null_ok") /\ def.null_ok = TRUE
<1>1. v.kind = "nil"
  BY DEF Converted
<1> QED
  BY <1>1 DEF Fits

\* At every level of nesting an accepted document has the known fields that came in,
\* no others, and their values, converted.
THEOREM CleanAcceptance == Spec => []AcceptedIsClean
<1>1. ASSUME IInv PROVE AcceptedIsClean
  <2>1. SUFFICES ASSUME verdict = "ok"
                 PROVE  CleanCopy(document, request, Configured)
    BY DEF AcceptedIsClean, Configured
  <2>2. /\ DOMAIN document \subseteq DOMAIN request
        /\ \A x \in DOMAIN request : Settled(x)
    BY <1>1, <2>1 DEF IInv, Control, Judged
  <2>3. DOMAIN document = {q \in DOMAIN request : Known(q, Configured)}
    BY <2>2 DEF Settled
  <2>4. ASSUME NEW q \in DOMAIN document
        PROVE  /\ Fits(Definition(q, Configured), request[q])
               /\ document[q] = Converted(Definition(q, Configured), request[q])
    BY <2>2, <2>3 DEF Settled
  <2>5. \A q \in DOMAIN document :
           /\ request[q].kind # "nil" /\ Definition(q, Configured).type = "int" =>
                 document[q].kind = "int64"
           /\ ~(request[q].kind # "nil" /\ Definition(q, Configured).type = "int") =>
                 \/ document[q] = request[q]
                 \/ document[q].kind = "uuid" /\ request[q].form = "uuid"
    BY <2>4, ConvertedIsClean
  <2> QED
    BY <2>3, <2>5 DEF CleanCopy
<1> QED
  BY <1>1, Invariance, PTL

\* A field of the whole document.
LEMMA TopField ==
    ASSUME NEW S, NEW f, <<f>> \in Seq(S)
    PROVE  Append(<<>>, f) = <<f>> /\ Parent(<<f>>) = <<>> /\ Key(<<f>>) = f
<1>1. f \in S
  <2>1. <<f>>[1] \in S
    OBVIOUS
  <2> QED
    BY <2>1
<1>2. Append(<<>>, f) = <<f>> /\ <<>> \in Seq(S)
  OBVIOUS
<1> QED
  BY <1>1, <1>2, AppendParent

\* The handler finds every required field that has a definition, with a value or with
\* a null that the definition allows.
THEOREM ArgumentsFound == Spec => []ArgumentsReady
<1>1. ASSUME IInv PROVE ArgumentsReady
  <2> DEFINE legend == schema[<<>>].legend
  <2>1. SUFFICES ASSUME verdict = "ok", NEW f \in Required(schema[<<>>]).fields
                 PROVE  /\ <<f>> \in DOMAIN document <=> Has(legend, f)
                        /\ <<f>> \in DOMAIN document /\ document[<<f>>].kind = "nil" =>
                              Has(legend[f], "null_ok") /\ legend[f].null_ok = TRUE
    BY Zenon DEF ArgumentsReady
  <2>2. Judged /\ pc = "done"
    BY <1>1, <2>1 DEF IInv, Control
  <2>3. /\ SubSectionValid(Configured) /\ schema = parseSubSection(Configured)
        /\ IsSchema(Configured) /\ IsDocument(request)
    BY <1>1, <2>2, SchemasAssumption, DocumentsAssumption
       DEF IInv, Control, Digested, Judged, Configured
  <2>4. <<>> \in Places(request) \cap DOMAIN Configured
    BY <2>3 DEF Places, IsSchema
  <2>5. /\ Complete(request, <<>>, Configured[<<>>])
        /\ \A x \in DOMAIN request : Settled(x)
        /\ DOMAIN document \subseteq DOMAIN request
    BY <2>1, <2>2, <2>4 DEF Judged
  <2>6. /\ legend = Configured[<<>>].legend
        /\ f \in Demanded(Configured[<<>>].required_fields)
    BY <2>1, <2>3, <2>4, <2>5, SectionDigested DEF Complete
  <2>7. Append(<<>>, f) \in DOMAIN request
    BY <2>5, <2>6 DEF Complete
  <2>8. /\ <<f>> \in DOMAIN request /\ <<f>> \in Seq(Fields)
        /\ Parent(<<f>>) = <<>> /\ Key(<<f>>) = f
    <3>1. Append(<<>>, f) = <<f>>
      OBVIOUS
    <3>2. <<f>> \in DOMAIN request /\ <<f>> \in Seq(Fields)
      BY <2>3, <2>7, <3>1, DocumentPaths
    <3> QED
      BY <3>2, TopField
  <2> HIDE DEF legend
  <2>9. /\ Known(<<f>>, Configured) <=> Has(legend, f)
        /\ Definition(<<f>>, Configured) = legend[f]
    BY <2>4, <2>6, <2>8 DEF Known, Definition
  <2>10. Settled(<<f>>)
    BY <2>5, <2>8
  <2>11. <<f>> \in DOMAIN document <=> Has(legend, f)
    BY <2>9, <2>10 DEF Settled
  <2>12. <<f>> \in DOMAIN document =>
            /\ Fits(legend[f], request[<<f>>])
            /\ document[<<f>>] = Converted(legend[f], request[<<f>>])
    BY <2>9, <2>10, <2>11 DEF Settled
  <2> QED
    <3>1. CASE <<f>> \in DOMAIN document /\ document[<<f>>].kind = "nil"
      <4>1. Fits(legend[f], request[<<f>>]) /\ Converted(legend[f], request[<<f>>]).kind = "nil"
        BY <2>12, <3>1
      <4> HIDE DEF legend
      <4>2. Has(legend[f], "null_ok") /\ legend[f].null_ok = TRUE
        BY <4>1, ConvertedNull, Zenon
      <4> QED
        BY <2>11, <4>2, Zenon
    <3>2. CASE ~(<<f>> \in DOMAIN document /\ document[<<f>>].kind = "nil")
      BY <2>11, <3>2, Zenon
    <3> QED
      BY <3>1, <3>2
<1> QED
  BY <1>1, Invariance, PTL

\* For every schema that InitSchema accepts: a request makes the validation panic
\* only at a definition or a section that is one of the traps.
THEOREM PanicsTrapped == Spec => []PanicsOnlyTrapped
<1>1. ASSUME IInv PROVE PanicsOnlyTrapped
  BY <1>1 DEF IInv, Control, Judged, PanicsOnlyTrapped, Configured
<1> QED
  BY <1>1, Invariance, PTL

\* No request can make the validation panic if every section of the configuration has
\* a default and none of the traps, as those of the deployed one.
THEOREM SafeSchemasNeverPanic ==
    ASSUME \A m \in DOMAIN Schemas : \A p \in DOMAIN Schemas[m] : SafeSection(Schemas[m][p])
    PROVE  Spec => [](verdict # "panic")
<1>1. ASSUME IInv PROVE verdict # "panic"
  <2>1. SUFFICES ASSUME Trapped(request, Configured), SubSectionValid(Configured)
                 PROVE  FALSE
    BY <1>1 DEF IInv, Control, Judged, Digested
  <2>2. \A p \in DOMAIN Configured : SafeSection(Configured[p])
    BY <1>1 DEF IInv, Control, Configured
  <2>3. CASE \E p \in Places(request) \cap DOMAIN Configured :
                Chosen(Configured[p].required_fields) \notin
                   DOMAIN Configured[p].required_fields
    BY <2>2, <2>3 DEF SafeSection, Chosen, Has, Sections
  <2>4. CASE \E q \in DOMAIN request :
                Known(q, Configured) /\ Trap(Definition(q, Configured), request[q])
    <3>1. PICK q \in DOMAIN request :
             Known(q, Configured) /\ Trap(Definition(q, Configured), request[q])
      BY <2>4
    <3>2. /\ SafeSection(Configured[Parent(q)])
          /\ Key(q) \in DOMAIN Configured[Parent(q)].legend
      BY <2>2, <3>1 DEF Known, Has
    <3> DEFINE def == Configured[Parent(q)].legend[Key(q)]
    <3>3. /\ Has(def, "null_ok") => def.null_ok # Nil
          /\ def.type = "array" => ~Has(def, "sub_type")
          /\ def.type = "hashmap" => Has(def, "sub_type")
          /\ Has(def, "additional_validation") => SafeString(def.additional_validation)
      BY <3>2 DEF SafeSection
    <3>4. Trap(def, request[q])
      BY <3>1 DEF Definition
    <3>5. ASSUME NEW extra, NEW v, SafeString(extra)
          PROVE  ~StringTrap(extra, v)
      BY <3>5 DEF SafeString, StringTrap, LengthTrap
    <3> HIDE DEF def
    <3> QED
      BY <3>3, <3>4, <3>5 DEF Trap
  <2> QED
    BY <2>1, <2>3, <2>4 DEF Trapped
<1> QED
  BY <1>1, Invariance, PTL

\* The accepted document does not depend on the order of the visits: it is the known
\* fields of the request, each converted by its own definition.
THEOREM OrderDoesNotMatter ==
    Spec => [](verdict = "ok" =>
                  /\ DOMAIN document = {q \in DOMAIN request : Known(q, Schemas[message])}
                  /\ \A q \in DOMAIN document :
                        document[q] = Converted(Definition(q, Schemas[message]), request[q]))
<1>1. ASSUME IInv
      PROVE  verdict = "ok" =>
                /\ DOMAIN document = {q \in DOMAIN request : Known(q, Schemas[message])}
                /\ \A q \in DOMAIN document :
                      document[q] = Converted(Definition(q, Schemas[message]), request[q])
  BY <1>1 DEF IInv, Control, Judged, Settled, Configured
<1> QED
  BY <1>1, Invariance, PTL

=============================================================================

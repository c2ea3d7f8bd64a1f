------------------------------- MODULE Validation -------------------------------
(***************************************************************************)
(* The validation package of the Go service.  InitSchema digests a message *)
(* schema of the configuration once, when the service starts;              *)
(* ValidateWithSchema then checks every request document against it, field *)
(* by field in the random order of a Go map, and changes the document as   *)
(* it goes: unknown fields are removed, strings become UUIDs or integers.  *)
(* A nested document is checked by a nested call, which changes it in      *)
(* place: a Go map is a reference.                                         *)
(*                                                                         *)
(* Documents and schemas are nested, and are written flat.  A document is  *)
(* a function from paths, the sequences of field names that lead to a      *)
(* value, to values; a schema is a function from the paths of the nested   *)
(* documents that it describes, <<>> for the whole one, to sections.  A    *)
(* value is a record with its Go kind; a string also has a length and a    *)
(* form, which is all that a schema can ask of it.  Scalar stands for a    *)
(* value in the configuration that is not of the kind that is needed, and  *)
(* Nil for its null.  additional_validation is a record of its kind, which *)
(* for a string is the word itself; a bound of a length is one too.        *)
(***************************************************************************)
EXTENDS Integers, Sequences

CONSTANTS
    Fields,      \* names of fields
    Schemas,     \* message name -> schema, as in the configuration
    Documents,   \* message name -> documents that requests bring
    Actions,     \* the actions that handlers validate for
    Scalar, Nil

VARIABLES
    message,   \* which schema
    schema,    \* it, as InitSchema has left it
    pc,        \* "config", "refused" (the service does not start), "idle",
               \* "validating", "done"
    action,
    request,   \* the document as it came in
    document,  \* the document as the validation has left it so far
    path,      \* the nested document that the innermost call is for; its
               \* callers are for the prefixes of path
    at,        \* the innermost call is before ("schema") or in ("legend") its loop
    left,      \* the fields that the loops of all the calls have still to visit
    verdict    \* "none", "ok", "error", "panic"

vars == <<message, schema, pc, action, request, document, path, at, left, verdict>>

-----------------------------------------------------------------------------
(* Paths *)

Parent(q) == SubSeq(q, 1, Len(q) - 1)

Key(q) == q[Len(q)]

\* q is p or leads to something in what is at p
Below(q, p) == Len(p) <= Len(q) /\ \A i \in 1..Len(p) : q[i] = p[i]

FieldsAt(doc, p) == {q \in DOMAIN doc : Parent(q) = p}

\* The whole document and the documents nested in it
Places(doc) == {<<>>} \cup {q \in DOMAIN doc : doc[q].kind = "map"}

-----------------------------------------------------------------------------
(* InitSchema *)

Unset == ""

Has(f, key) == key \in DOMAIN f

Types == {"string", "int", "float", "bool", "array", "hashmap"}

\* required_fields without its comment
Sections(required_fields) == DOMAIN required_fields \ {"_comment"}

\* What is defined later replaces require_an_optional and adds to fields
updatefieldList(fieldDef, list) ==
    [fields |-> list.fields \cup (IF Has(fieldDef, "fields")
                                  THEN fieldDef.fields ELSE {}),
     require_an_optional |-> IF Has(fieldDef, "require_an_optional")
                             THEN fieldDef.require_an_optional
                             ELSE list.require_an_optional]

RequiredFieldsValid(required_fields) ==
    /\ {"initial", "all"} \subseteq Sections(required_fields)
    /\ \A a \in Sections(required_fields) :
          LET part == required_fields[a] IN
          /\ part # Scalar
          /\ Has(part, "fields") => part.fields # Scalar
          /\ Has(part, "require_an_optional") => part.require_an_optional \in BOOLEAN

\* Mutation: "default" is removed with the other two
processRequiredFieldsReserved(required_fields) ==
    [a \in Sections(required_fields) \ {"initial", "all", "default"} |->
        updatefieldList(required_fields["all"],
            updatefieldList(required_fields[a],
                updatefieldList(required_fields["initial"],
                    [fields |-> {}, require_an_optional |-> FALSE])))]

\* "initial" and "all" go into every other section and are removed
processRequiredFields(required_fields) ==
    [a \in Sections(required_fields) \ {"initial", "all"} |->
        updatefieldList(required_fields["all"],
            updatefieldList(required_fields[a],
                updatefieldList(required_fields["initial"],
                    [fields |-> {}, require_an_optional |-> FALSE])))]

Nested(typeDefinition) ==
    Has(typeDefinition, "sub_type") /\ typeDefinition.type \in {"array", "hashmap"}

ArrayValid(typeDefinition) ==
    \/ Has(typeDefinition, "sub_type")
    \/ /\ Has(typeDefinition, "introspect")
       /\ Has(typeDefinition, "additional_validation")
       /\ typeDefinition.additional_validation.is \notin {"map", "scalar", "nil"}

\* A sub_type that is no hashmap has no section
SubSectionValid(config) ==
    \A p \in DOMAIN config :
        /\ Has(config[p], "legend") /\ Has(config[p], "required_fields")
        /\ RequiredFieldsValid(config[p].required_fields)
        /\ \A f \in DOMAIN config[p].legend :
              LET def == config[p].legend[f] IN
              /\ def # Scalar
              /\ Has(def, "type")
              /\ def.type \in Types
              /\ def.type = "array" => ArrayValid(def)
              /\ Nested(def) => Append(p, f) \in DOMAIN config

parseSubSection(config) ==
    [p \in DOMAIN config |->
        [required_fields |-> processRequiredFields(config[p].required_fields),
         legend |-> config[p].legend]]

Init ==
    /\ message \in DOMAIN Schemas
    /\ schema = Schemas[message]
    /\ pc = "config"
    /\ action = Unset
    /\ request = <<>>
    /\ document = <<>>
    /\ path = <<>>
    /\ at = "schema"
    /\ left = {}
    /\ verdict = "none"

\* main panics on an error, so that the service runs with valid schemas only
InitSchema ==
    /\ pc = "config"
    /\ IF SubSectionValid(schema)
       THEN schema' = parseSubSection(schema) /\ pc' = "idle"
       ELSE schema' = schema /\ pc' = "refused"
    /\ UNCHANGED <<message, action, request, document, path, at, left, verdict>>

\* main has panicked; somebody corrects the configuration
Reconfigure ==
    /\ pc = "refused"
    /\ message' \in DOMAIN Schemas
    /\ schema' = Schemas[message']
    /\ pc' = "config"
    /\ UNCHANGED <<action, request, document, path, at, left, verdict>>

-----------------------------------------------------------------------------
(* What the constants are *)

\* The bounds of a length: a number, null, a "word" that is wrong, or what leaves
\* it "free": "min" as the lower one, "max" as the upper one, or no string either
Bounds == [is : {"free", "word", "nil"}] \cup [is : {"number"}, value : Int]

\* A length that is not given as a list is ignored
LengthGiven(extra) == Has(extra, "length") /\ extra.length # Scalar

\* A value that has a path is in a document, and a string has a length
IsDocument(doc) ==
    \A q \in DOMAIN doc :
        /\ q \in Seq(Fields) \ {<<>>}
        /\ \A i \in 1..(Len(q) - 1) :
              SubSeq(q, 1, i) \in DOMAIN doc /\ doc[SubSeq(q, 1, i)].kind = "map"
        /\ doc[q].kind = "string" => doc[q].len \in Nat

IsSection(section) ==
    Has(section, "legend") =>
        \A f \in DOMAIN section.legend :
            LET def == section.legend[f] IN
            (/\ def # Scalar
             /\ Has(def, "additional_validation")
             /\ LengthGiven(def.additional_validation)) =>
                def.additional_validation.length \in Seq(Bounds)

\* A section is the whole schema, or the sub_type of a field of another section
\* that parseSubSection follows
IsSchema(config) ==
    /\ <<>> \in DOMAIN config
    /\ \A p \in DOMAIN config :
          /\ p \in Seq(Fields)
          /\ IsSection(config[p])
          /\ \A i \in 1..Len(p) :
                LET q == SubSeq(p, 1, i)
                    section == config[Parent(q)]
                IN /\ Parent(q) \in DOMAIN config
                   /\ Has(section, "legend")
                   /\ Has(section.legend, Key(q))
                   /\ Nested(section.legend[Key(q)])

ASSUME SchemasAssumption == \A m \in DOMAIN Schemas : IsSchema(Schemas[m])

ASSUME DocumentsAssumption ==
    \A m \in DOMAIN Schemas : \A doc \in Documents[m] : IsDocument(doc)

-----------------------------------------------------------------------------
(* ValidateWithSchema *)

\* A handler validates the document of its request
Request ==
    /\ pc = "idle"
    /\ pc' = "validating"
    /\ request' \in Documents[message]
    /\ document' = request'
    /\ action' \in Actions
    /\ UNCHANGED <<message, schema, path, at, left, verdict>>

\* The handler has done what it does with the document
Respond ==
    /\ pc = "done"
    /\ pc' = "idle"
    /\ action' = Unset
    /\ request' = <<>>
    /\ document' = <<>>
    /\ path' = <<>>
    /\ at' = "schema"
    /\ left' = {}
    /\ verdict' = "none"
    /\ UNCHANGED <<message, schema>>

\* An error or a panic ends all the calls at once
Return(outcome) ==
    /\ verdict' = outcome
    /\ pc' = "done"
    /\ path' = <<>>
    /\ at' = "schema"
    /\ left' = {}
    /\ UNCHANGED <<message, schema, action, request, document>>

Continue == UNCHANGED <<message, schema, pc, action, request, verdict>>

\* The section of the action, or the default one
Required(section) ==
    section.required_fields[IF Has(section.required_fields, action)
                            THEN action ELSE "default"]

ValidateRequiredFields(doc, p, required) ==
    \A f \in required.fields : Append(p, f) \in DOMAIN doc

\* Mutation: a field that is required will do for an optional one
ValidatieAnyField(doc, p, legend, required) ==
    \E f \in DOMAIN legend : Append(p, f) \in DOMAIN doc

ValidatieAnOptionalField(doc, p, legend, required) ==
    \E f \in DOMAIN legend \ required.fields : Append(p, f) \in DOMAIN doc

\* Up to the call of ValidateWithLegend
ValidateWithSchema ==
    LET section == schema[path]
        required == Required(section)
    IN
    /\ pc = "validating"
    /\ at = "schema"
    /\ IF ~Has(section.required_fields, action) /\ ~Has(section.required_fields, "default")
       THEN Return("panic")
       ELSE IF \/ ~ValidateRequiredFields(document, path, required)
               \/ /\ required.require_an_optional
                  /\ ~ValidatieAnOptionalField(document, path, section.legend, required)
       THEN Return("error")
       ELSE /\ at' = "legend"
            /\ left' = left \cup FieldsAt(document, path)
            /\ UNCHANGED <<document, path>>
            /\ Continue

-----------------------------------------------------------------------------
(* ValidateWithLegend: one step for each field *)

\* A null panics, and so does a wrong exact length, as its message is put together
\* from a number
LengthOutcome(spec, n) ==
    LET number(i) == spec[i].is = "number" IN
    CASE Len(spec) = 1 ->
            IF spec[1].is = "nil" \/ (number(1) /\ n # spec[1].value) THEN "panic"
            ELSE IF number(1) THEN "ok" ELSE "error"
      [] Len(spec) = 2 ->
            IF spec[1].is = "nil" \/ spec[2].is = "nil" THEN "panic"
            ELSE IF \/ number(1) /\ number(2) /\ spec[1].value >= spec[2].value
                    \/ spec[1].is = "word" \/ spec[2].is = "word"
                    \/ number(1) /\ n < spec[1].value
                    \/ number(2) /\ n > spec[2].value
            THEN "error" ELSE "ok"
      [] OTHER -> "error"

\* A word that is not known is ignored, and so is what is neither a word nor a
\* hashmap, but not a null; an enum has to be a list of strings
StringOutcome(def, v) ==
    LET extra == def.additional_validation IN
    IF ~Has(def, "additional_validation") \/ extra.is \notin {"UUID", "map", "nil"}
    THEN "ok"
    ELSE IF extra.is = "nil" THEN "panic"
    ELSE IF extra.is = "UUID" THEN IF v.form = "uuid" THEN "ok" ELSE "error"
    ELSE IF Has(extra, "enum") /\ extra.enum = Scalar THEN "panic"
    ELSE IF Has(extra, "enum") /\ v.form \notin extra.enum THEN "error"
    ELSE IF LengthGiven(extra) THEN LengthOutcome(extra.length, v.len)
    ELSE "ok"

\* The switch on the type of a field whose value is not null
TypeOutcome(def, v) ==
    CASE def.type = "string" ->
            IF v.kind = "string" THEN StringOutcome(def, v) ELSE "error"
      [] def.type = "int" ->
            IF v.kind = "string" /\ v.form = "int" THEN "ok" ELSE "error"
      [] def.type = "bool" -> IF v.kind = "bool" THEN "ok" ELSE "error"
      [] def.type = "hashmap" ->
            IF v.kind # "map" THEN "error"
            ELSE IF Has(def, "sub_type") THEN "nested" ELSE "panic"
      [] def.type = "array" ->
            IF v.kind # "slice" THEN "error"
            ELSE IF Has(def, "sub_type") THEN "panic" ELSE "ok"
      [] def.type = "float" -> "error"

\* Mutation: null is accepted whether or not the schema allows it
FieldOutcomeNull(def, v) ==
    IF v.kind = "nil" THEN "ok" ELSE TypeOutcome(def, v)

\* A null_ok of null panics at every value, and one that is no bool is ignored
FieldOutcome(def, v) ==
    IF Has(def, "null_ok") /\ def.null_ok = Nil THEN "panic"
    ELSE IF v.kind = "nil"
    THEN IF Has(def, "null_ok") /\ def.null_ok = TRUE THEN "ok" ELSE "error"
    ELSE TypeOutcome(def, v)

\* What an accepted value is replaced by
Converted(def, v) ==
    IF v.kind = "string" /\ def.type = "int" THEN [kind |-> "int64"]
    ELSE IF /\ v.kind = "string"
            /\ Has(def, "additional_validation")
            /\ def.additional_validation.is = "UUID"
    THEN [kind |-> "uuid"]
    ELSE v

\* Mutation: an unknown field is left where it is
StrainNothing(doc, q) == doc

\* A field that the legend does not know is removed, with all that is in it
Strain(doc, q) == [x \in {y \in DOMAIN doc : ~Below(y, q)} |-> doc[x]]

\* Mutation: the field is visited again
VisitedAgain(q) == left' = left

Visited(q) == left' = left \ {q}

ValidateWithLegend(q) ==
    LET legend == schema[path].legend
        def == legend[Key(q)]
        v == document[q]
    IN
    /\ pc = "validating"
    /\ at = "legend"
    /\ Parent(q) = path
    /\ \/ /\ ~Has(legend, Key(q))
          /\ document' = Strain(document, q)
          /\ Visited(q)
          /\ UNCHANGED <<path, at>>
          /\ Continue
       \/ /\ Has(legend, Key(q))
          /\ FieldOutcome(def, v) = "ok"
          /\ document' = [document EXCEPT ![q] = Converted(def, v)]
          /\ Visited(q)
          /\ UNCHANGED <<path, at>>
          /\ Continue
       \/ /\ Has(legend, Key(q))
          /\ FieldOutcome(def, v) = "nested"
          /\ path' = q
          /\ at' = "schema"
          /\ Visited(q)
          /\ UNCHANGED document
          /\ Continue
       \/ /\ Has(legend, Key(q))
          /\ FieldOutcome(def, v) \in {"error", "panic"}
          /\ Return(FieldOutcome(def, v))

\* The loop is over
ReturnToCaller ==
    /\ pc = "validating"
    /\ at = "legend"
    /\ \A q \in left : Parent(q) # path
    /\ \/ path = <<>> /\ Return("ok")
       \/ /\ path # <<>>
          /\ path' = Parent(path)
          /\ UNCHANGED <<document, at, left>>
          /\ Continue

Next ==
    \/ InitSchema
    \/ Reconfigure
    \/ Request
    \/ Respond
    \/ ValidateWithSchema
    \/ \E q \in left : ValidateWithLegend(q)
    \/ ReturnToCaller

Spec == Init /\ [][Next]_vars

-----------------------------------------------------------------------------
(* What a schema of the configuration means, without an order of fields *)

\* The part of required_fields that an action is held to
Chosen(required_fields) ==
    IF action \in Sections(required_fields) \ {"initial", "all"} THEN action ELSE "default"

\* It, with what goes before and after every part
Parts(required_fields) == {"initial", Chosen(required_fields), "all"}

Demanded(required_fields) ==
    UNION {required_fields[a].fields :
              a \in {b \in Parts(required_fields) : Has(required_fields[b], "fields")}}

\* The last part that says whether an optional field is required decides
OptionalDemanded(required_fields) ==
    LET says(a, b) == /\ Has(required_fields[a], "require_an_optional")
                      /\ required_fields[a].require_an_optional = b
        chosen == Chosen(required_fields)
    IN \/ says("all", TRUE)
       \/ ~says("all", FALSE) /\ says(chosen, TRUE)
       \/ ~says("all", FALSE) /\ ~says(chosen, FALSE) /\ says("initial", TRUE)

LengthFits(spec, n) ==
    \/ Len(spec) = 1 /\ spec[1].is = "number" /\ spec[1].value = n
    \/ /\ Len(spec) = 2
       /\ spec[1].is \in {"number", "free"} /\ spec[2].is \in {"number", "free"}
       /\ spec[1].is = "number" => spec[1].value <= n
       /\ spec[2].is = "number" => n <= spec[2].value
       /\ spec[1].is = "number" /\ spec[2].is = "number" => spec[1].value < spec[2].value

StringFits(extra, v) ==
    /\ extra.is = "UUID" => v.form = "uuid"
    /\ extra.is = "map" =>
          /\ Has(extra, "enum") => extra.enum # Scalar /\ v.form \in extra.enum
          /\ LengthGiven(extra) => LengthFits(extra.length, v.len)

Fits(def, v) ==
    \/ v.kind = "nil" /\ Has(def, "null_ok") /\ def.null_ok = TRUE
    \/ /\ def.type = "string" /\ v.kind = "string"
       /\ Has(def, "additional_validation") => StringFits(def.additional_validation, v)
    \/ def.type = "int" /\ v.kind = "string" /\ v.form = "int"
    \/ def.type = "bool" /\ v.kind = "bool"
    \/ def.type = "array" /\ v.kind = "slice"
    \/ def.type = "hashmap" /\ v.kind = "map"

\* The document at p has the fields that are demanded of it
Complete(doc, p, section) ==
    LET required_fields == section.required_fields IN
    /\ Chosen(required_fields) \in DOMAIN required_fields
    /\ \A f \in Demanded(required_fields) : Append(p, f) \in DOMAIN doc
    /\ OptionalDemanded(required_fields) =>
          \E f \in DOMAIN section.legend :
              f \notin Demanded(required_fields) /\ Append(p, f) \in DOMAIN doc

\* The field at q has a definition
Known(q, config) ==
    Parent(q) \in DOMAIN config /\ Has(config[Parent(q)].legend, Key(q))

Definition(q, config) == config[Parent(q)].legend[Key(q)]

Conforms(doc, config) ==
    /\ \A p \in Places(doc) \cap DOMAIN config : Complete(doc, p, config[p])
    /\ \A q \in DOMAIN doc : Known(q, config) => Fits(Definition(q, config), doc[q])

\* One or two bounds of which one is null, or an exact length that is missed
LengthTrap(spec, n) ==
    \/ Len(spec) \in {1, 2} /\ \E i \in 1..Len(spec) : spec[i].is = "nil"
    \/ Len(spec) = 1 /\ spec[1].is = "number" /\ spec[1].value # n

\* additional_validation is null, has an enum that is no list of strings, or has such
\* a length
StringTrap(extra, v) ==
    \/ extra.is = "nil"
    \/ /\ extra.is = "map"
       /\ \/ Has(extra, "enum") /\ extra.enum = Scalar
          \/ LengthGiven(extra) /\ LengthTrap(extra.length, v.len)

\* The validation may panic at a value of this definition: any if null_ok is null,
\* some strings, an array whose elements are described, and a hashmap that is not
Trap(def, v) ==
    \/ Has(def, "null_ok") /\ def.null_ok = Nil
    \/ /\ def.type = "string" /\ v.kind = "string"
       /\ Has(def, "additional_validation")
       /\ StringTrap(def.additional_validation, v)
    \/ def.type = "array" /\ v.kind = "slice" /\ Has(def, "sub_type")
    \/ def.type = "hashmap" /\ v.kind = "map" /\ ~Has(def, "sub_type")

\* It also does at a section that has neither the action nor a default
Trapped(doc, config) ==
    \/ \E p \in Places(doc) \cap DOMAIN config :
          Chosen(config[p].required_fields) \notin DOMAIN config[p].required_fields
    \/ \E q \in DOMAIN doc : Known(q, config) /\ Trap(Definition(q, config), doc[q])

\* An additional_validation at which no string is trapped
SafeString(extra) ==
    /\ extra.is # "nil"
    /\ Has(extra, "enum") => extra.enum # Scalar
    /\ LengthGiven(extra) =>
          /\ Len(extra.length) # 1
          /\ \A i \in 1..Len(extra.length) : extra.length[i].is # "nil"

\* A section at which no document is trapped
SafeSection(section) ==
    /\ Has(section.required_fields, "default")
    /\ \A f \in DOMAIN section.legend :
          LET def == section.legend[f] IN
          /\ Has(def, "null_ok") => def.null_ok # Nil
          /\ def.type = "array" => ~Has(def, "sub_type")
          /\ def.type = "hashmap" => Has(def, "sub_type")
          /\ Has(def, "additional_validation") => SafeString(def.additional_validation)

\* A document that holds the known fields of original and values that the
\* data access layer can bind
CleanCopy(doc, original, config) ==
    /\ DOMAIN doc = {q \in DOMAIN original : Known(q, config)}
    /\ \A q \in DOMAIN doc :
          CASE original[q].kind # "nil" /\ Definition(q, config).type = "int" ->
                  doc[q].kind = "int64"
            [] OTHER ->
                  \/ doc[q] = original[q]
                  \/ doc[q].kind = "uuid" /\ original[q].form = "uuid"

-----------------------------------------------------------------------------
(* Properties *)

\* While a validation runs, the call in progress is for a document that is still
\* there and that a section describes, the fields that are still to be visited are
\* there as well, and there is a verdict only when it is over.
TypeOK ==
    /\ message \in DOMAIN Schemas
    /\ pc \in {"config", "refused", "idle", "validating", "done"}
    /\ pc = "validating" =>
          /\ request \in Documents[message]
          /\ action \in Actions
          /\ path \in Places(document) \cap DOMAIN schema
          /\ at \in {"schema", "legend"}
          /\ left \subseteq DOMAIN document
    /\ verdict \in {"none", "ok", "error", "panic"}
    /\ verdict # "none" <=> pc = "done"

\* Whatever the order in which the fields are visited, and whatever was removed
\* or converted on the way, ValidateWithSchema returns no error exactly for the
\* documents that the schema in the configuration describes.
AcceptsExactly ==
    verdict \in {"ok", "error"} => (verdict = "ok" <=> Conforms(request, Schemas[message]))

\* An accepted document has lost its unknown fields at every level ("a junk value
\* that was passed and should be strained out", validation.go:275), and no other;
\* its integers are integers and it is otherwise what came in.
AcceptedIsClean ==
    verdict = "ok" => CleanCopy(document, request, Schemas[message])

\* After an accepting validation the handler finds a field that the action requires
\* exactly if the legend describes it, which InitSchema does not check, and a value
\* in it unless the schema allows null, though null values and unknown fields went in.
ArgumentsReady ==
    verdict = "ok" =>
        LET legend == schema[<<>>].legend IN
        \A f \in Required(schema[<<>>]).fields :
            /\ <<f>> \in DOMAIN document <=> Has(legend, f)
            /\ <<f>> \in DOMAIN document /\ document[<<f>>].kind = "nil" =>
                  Has(legend[f], "null_ok") /\ legend[f].null_ok = TRUE

\* A request makes the validation panic only where the configuration has laid a trap
\* that InitSchema accepts: an action for which a section has no part and no default
\* (validation.go:244), a null_ok of null (line 290), an additional_validation of null
\* (310), an enum that is no list of strings (327-329), a null in a length (347, 357,
\* 358), an exact length that a string misses (350), a hashmap that is not described
\* (413) or an array whose elements are (424).
PanicsOnlyTrapped == verdict = "panic" => Trapped(request, Schemas[message])

=============================================================================

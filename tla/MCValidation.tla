----------------------------- MODULE MCValidation -----------------------------
(***************************************************************************)
(* Instances of Validation for TLC: the two schemas of the configuration   *)
(* (golang/pageviewcount_service.json), and others that use what these do  *)
(* not.                                                                    *)
(***************************************************************************)
EXTENDS Validation, FiniteSetsExt, TLC

\* A value is the document of what is at <<>> and below
Value(v) == <<>> :> v
Str(form, len) == Value([kind |-> "string", form |-> form, len |-> len])
NullValue == Value([kind |-> "nil"])
Number == Value([kind |-> "float64"])
Flag == Value([kind |-> "bool"])
List == Value([kind |-> "slice"])

\* A field f with a value
At(f, value) == [q \in {<<f>> \o s : s \in DOMAIN value} |-> value[Tail(q)]]

\* The hashmap of fields, a record of values
Map(fields) ==
    FoldSet(LAMBDA f, value : value @@ At(f, fields[f]),
            Value([kind |-> "map"]), DOMAIN fields)

\* The documents over some of the fields of values
DocumentsOf(values) ==
    FoldSet(LAMBDA f, docs : docs \cup {doc @@ At(f, v) : doc \in docs, v \in values[f]},
            {<<>>}, DOMAIN values)

UuidField == [type |-> "string", additional_validation |-> [is |-> "UUID"]]

\* Bounds of a length
Of(n) == [is |-> "number", value |-> n]
Free == [is |-> "free"]
NullBound == [is |-> "nil"]
Word == [is |-> "word"]

StringOfLength(spec) ==
    [type |-> "string", additional_validation |-> [is |-> "map", length |-> spec]]

NoFields == <<>>

\* client_message
ClientMessage ==
    [legend |-> [id |-> UuidField, name |-> StringOfLength(<<Of(1), Free>>)],
     required_fields |->
        [default |-> NoFields, initial |-> NoFields, all |-> NoFields,
         insert |-> [fields |-> {"name"}], delete |-> [fields |-> {"id"}],
         replace |-> [fields |-> {"id", "name"}],
         update |-> [fields |-> {"id", "name"}]]]

\* content_message
ContentMessage ==
    [legend |-> [id |-> UuidField, client_id |-> UuidField,
                 name |-> StringOfLength(<<Of(1), Free>>),
                 url |-> StringOfLength(<<Of(1), Of(255)>>)],
     required_fields |->
        [default |-> NoFields, initial |-> NoFields, all |-> NoFields,
         insert |-> [fields |-> {"client_id", "name", "url"}],
         delete |-> [fields |-> {"id"}],
         replace |-> [fields |-> {"id", "client_id", "name", "url"}],
         update |-> [fields |-> {"id"}, require_an_optional |-> TRUE]]]

\* A schema without nested sections
Flat(section) == <<>> :> section

Deployed == [client |-> Flat(ClientMessage), content |-> Flat(ContentMessage)]

Uuid == Str("uuid", 36)

DeployedDocuments ==
    [client |-> DocumentsOf(
        [id |-> {Uuid, Str("word", 3), NullValue, Number},
         name |-> {Str("word", 0), Str("word", 1), NullValue, Flag, List, Map(<<>>)},
         junk |-> {NullValue, Map(<<>>)}]),
     content |-> DocumentsOf(
        [id |-> {Uuid, Str("word", 3)},
         client_id |-> {Uuid, NullValue},
         name |-> {Str("word", 1), Str("word", 0)},
         url |-> {Str("word", 255), Str("word", 256)},
         junk |-> {Number}])]

\* No request can make the validation panic with the deployed schemas: they have
\* none of the traps of PanicsOnlyTrapped
ASSUME DeployedIsSafe ==
    \A m \in DOMAIN Deployed : \A p \in DOMAIN Deployed[m] : SafeSection(Deployed[m][p])

\* Every type, null_ok, an enumeration, a nested document, "initial" and "all";
\* and a schema without "all"
RichMessage ==
    [legend |->
        [size |-> [type |-> "int", null_ok |-> TRUE],
         state |-> [type |-> "string",
                    additional_validation |-> [is |-> "map", enum |-> {"on", "off"},
                                               length |-> <<Free, Of(2)>>]],
         more |-> [type |-> "hashmap", sub_type |-> TRUE],
         tags |-> [type |-> "array", introspect |-> TRUE,
                   additional_validation |-> [is |-> "word"]],
         live |-> [type |-> "bool"],
         rate |-> [type |-> "float"]],
     required_fields |->
        [initial |-> [require_an_optional |-> TRUE], all |-> [fields |-> {"state"}],
         default |-> [require_an_optional |-> FALSE],
         insert |-> [fields |-> {"size"}],
         _comment |-> Scalar]]

\* The sub_type of more
MoreSection ==
    [legend |-> [id |-> UuidField, label |-> StringOfLength(<<Of(2)>>)],
     required_fields |->
        [initial |-> NoFields, all |-> NoFields, default |-> [fields |-> {"id"}]]]

IncompleteMessage ==
    [legend |-> [id |-> UuidField],
     required_fields |-> [initial |-> NoFields, default |-> NoFields]]

RichDocuments ==
    DocumentsOf(
        [size |-> {Str("int", 1), Str("word", 1), Number, NullValue},
         state |-> {Str("on", 2), Str("off", 3), Str("word", 2)},
         more |-> {Map([id |-> Uuid]), Map([junk |-> NullValue]),
                   Map([id |-> Uuid, label |-> Str("word", 2), junk |-> NullValue]),
                   Map([id |-> Uuid, label |-> Str("word", 3)]), NullValue},
         tags |-> {List}, live |-> {Flag, Number}, rate |-> {Number}])

\* A field of an exact length, and an array of documents
ExactMessage ==
    [legend |-> [code |-> StringOfLength(<<Of(2)>>)],
     required_fields |-> [initial |-> NoFields, all |-> NoFields, default |-> NoFields]]

ArrayMessage ==
    [legend |-> [items |-> [type |-> "array", sub_type |-> TRUE]],
     required_fields |-> [initial |-> NoFields, all |-> NoFields, default |-> NoFields]]

ItemSection ==
    [legend |-> [id |-> UuidField],
     required_fields |-> [initial |-> NoFields, all |-> NoFields, default |-> NoFields]]

\* What InitSchema accepts though it can hardly be meant: a required field that is
\* unknown, a hashmap without sub_type, and no default
LooseMessage ==
    [legend |-> [any |-> [type |-> "hashmap"], id |-> UuidField],
     required_fields |-> [initial |-> NoFields, all |-> NoFields,
                          insert |-> [fields |-> {"junk"}],
                          update |-> [fields |-> {"id"}]]]

\* What InitSchema accepts though it is of the wrong kind, or null
Ended == [initial |-> NoFields, all |-> NoFields, default |-> NoFields]

String(extra) == [type |-> "string", additional_validation |-> extra]

OddMessage ==
    [legend |-> [live |-> [type |-> "bool", null_ok |-> Scalar],
                 name |-> String([is |-> "scalar"]),
                 code |-> String([is |-> "map", length |-> Scalar]),
                 state |-> StringOfLength(<<Word, Of(2)>>),
                 label |-> StringOfLength(<<Free>>),
                 url |-> StringOfLength(<<Of(-1), Of(2)>>)],
     required_fields |-> Ended]

NullMessage ==
    [legend |-> [live |-> [type |-> "bool", null_ok |-> Nil],
                 name |-> String([is |-> "nil"]),
                 state |-> String([is |-> "map", enum |-> Scalar]),
                 code |-> StringOfLength(<<NullBound>>),
                 url |-> StringOfLength(<<Of(1), NullBound>>),
                 label |-> StringOfLength(<<Free, NullBound, Free>>)],
     required_fields |-> Ended]

\* An array whose elements are looked at with additional_validation of null
NullArray ==
    [legend |-> [tags |-> [type |-> "array", introspect |-> TRUE,
                           additional_validation |-> [is |-> "nil"]]],
     required_fields |-> Ended]

OddDocuments ==
    DocumentsOf(
        [live |-> {Flag, NullValue}, name |-> {Str("word", 1)}, code |-> {Str("word", 2)},
         state |-> {Str("word", 2)}, label |-> {Str("word", 2)},
         url |-> {Str("word", 2), Str("word", 3)}])

\* Documents in documents
Child == [type |-> "hashmap", sub_type |-> TRUE]

OuterSection ==
    [legend |-> [more |-> Child, id |-> UuidField],
     required_fields |-> [initial |-> NoFields, all |-> [fields |-> {"more"}],
                          default |-> NoFields]]

InnerSection ==
    [legend |-> [id |-> UuidField],
     required_fields |-> [initial |-> NoFields, all |-> NoFields,
                          default |-> [require_an_optional |-> TRUE]]]

InnerDocuments ==
    {Map(<<>>), Map([id |-> Uuid]), Map([id |-> Uuid, junk |-> Map([id |-> NullValue])])}

MiddleDocuments ==
    {Map([more |-> m, id |-> Uuid, junk |-> m]) : m \in InnerDocuments}
        \cup {Map([id |-> Uuid]), Number}

\* A sub_type that is no hashmap
ScalarMessage ==
    [legend |-> [more |-> [type |-> "hashmap", sub_type |-> Scalar]],
     required_fields |-> [initial |-> NoFields, all |-> NoFields, default |-> NoFields]]

MCSchemas ==
    Deployed @@
        [rich |-> Flat(RichMessage) @@ (<<"more">> :> MoreSection),
         incomplete |-> Flat(IncompleteMessage), scalar |-> Flat(ScalarMessage),
         exact |-> Flat(ExactMessage), loose |-> Flat(LooseMessage),
         nested |-> (<<>> :> OuterSection) @@ (<<"more">> :> OuterSection)
                       @@ (<<"more", "more">> :> InnerSection),
         odd |-> Flat(OddMessage), null |-> Flat(NullMessage),
         null_array |-> Flat(NullArray),
         array |-> Flat(ArrayMessage) @@ (<<"items">> :> ItemSection)]

MCDocuments ==
    DeployedDocuments @@
        [rich |-> RichDocuments, incomplete |-> {<<>>}, scalar |-> {<<>>},
         odd |-> OddDocuments, null |-> OddDocuments, null_array |-> {<<>>},
         exact |-> DocumentsOf([code |-> {Str("word", 2), Str("word", 3)}]),
         loose |-> DocumentsOf([any |-> {Map(<<>>), NullValue}, id |-> {Uuid},
                                junk |-> {NullValue, Map([id |-> Uuid])}]),
         nested |-> DocumentsOf([more |-> MiddleDocuments, id |-> {Uuid},
                                 junk |-> MiddleDocuments]),
         array |-> DocumentsOf([items |-> {List, Number}])]

MCFields == {"id", "client_id", "name", "url", "junk", "size", "state", "more", "label",
             "tags", "live", "rate", "code", "items", "any"}

MCActions == {"insert", "update", "replace", "delete", ""}

=============================================================================

------------------------------ MODULE MCCopies ------------------------------
(* An instance of Copies: every union of a few branches in a record, in a    *)
(* list or in a map.                                                          *)
EXTENDS Copies

MCTexts == {"", "1", "2", "a", "b", "f", "g", "k", "l"}
MCMaxDepth == 5

Avro(type) == [type |-> type, logical |-> "", parts |-> <<>>]
AvroLogical(type, logical) == [Avro(type) EXCEPT !.logical = logical]
Of(type, parts) == [Avro(type) EXCEPT !.parts = parts]
Branch(name, schema) == <<name, schema, FALSE>>
Union(a, b) == Of("union", <<Branch("a", a), Branch("b", b)>>)
RecordOf(schema) == Of("record", << <<"f", schema, FALSE>> >>)

Simple ==
  {Avro(type) : type \in {"null", "boolean", "long", "double", "string", "bytes"}}
  \cup {AvroLogical("long", "timestamp-millis"), AvroLogical("int", "date"),
        AvroLogical("int", "time-millis"), AvroLogical("bytes", "decimal"),
        Of("enum", << <<"a", Avro("null"), FALSE>> >>)}
Nested ==
  {Of("array", <<Branch("", Avro("bytes"))>>),
   Of("map", <<Branch("", AvroLogical("int", "date"))>>),
   RecordOf(Avro("long")),
   Of("record", << <<"f", Avro("long"), FALSE>>, <<"g", Avro("string"), TRUE>> >>)}
LongOrBytes == Union(Avro("long"), Avro("bytes"))
InUnion(type) == Of(type, <<Branch("", LongOrBytes)>>)
Unions == {Union(a, b) : a, b \in Simple \cup Nested}
          \cup {Union(Avro("null"), InUnion(type)) : type \in {"array", "map"}}
MCAvroSchemas ==
  LET fields == Simple \cup Nested \cup Unions \cup {InUnion("array"), InUnion("map"), LongOrBytes}
  IN  fields \cup {RecordOf(s) : s \in fields}

Strings == {Datum("str", form, v) :
              form \in {{}, {"datetime"}, {"date", "datetime"}, {"bytes"}, {"decimal"}},
              v \in {"a", "b"}}
RECURSIVE MCAvroData(_)
MCAvroData(schema) ==
  LET Made(py, items) == [Datum(py, {}, "") EXCEPT !.items = items]
      parts == schema.parts
  IN  CASE schema.type = "union" ->
             UNION {{Branched(d, parts[i][1]) : d \in MCAvroData(Part(parts[i]))} :
                      i \in DOMAIN parts}
        [] schema.type = "record" ->
             IF Len(parts) = 1
             THEN {Made("dict", << <<parts[1][1], d>> >>) : d \in MCAvroData(Part(parts[1]))}
             ELSE {Made("dict", << <<parts[1][1], d>>, <<parts[2][1], e>> >>) :
                     d \in MCAvroData(Part(parts[1])), e \in MCAvroData(Part(parts[2]))}
        [] schema.type \in {"array", "map"} ->
             LET py == IF schema.type = "array" THEN "list" ELSE "dict"
                 data == MCAvroData(Part(parts[1]))
             IN  {Made(py, <<>>)} \cup {Made(py, << <<"k", d>> >>) : d \in data}
                 \cup {Made(py, << <<"k", d>>, <<"l", e>> >>) : d, e \in data}
        [] schema.logical # "" ->
             {Datum(LogicalPy(schema.logical), form, "1") : form \in Forms(LogicalPy(schema.logical))}
        [] schema.type = "null" -> {Datum("none", {}, "")}
        [] schema.type = "boolean" -> {Datum("bool", {}, "1")}
        [] schema.type = "long" -> {Datum("int", {}, "1")}
        [] schema.type = "double" -> {Datum("float", {}, "1")}
        [] schema.type = "string" -> Strings
        [] schema.type = "bytes" -> {Datum("bytes", {"bytes"}, v) : v \in {"1", "2"}}
        [] schema.type = "enum" -> {Datum("str", {}, "a")}

\* Backslashes, what an escape is made of, and bytes that are escaped.
MCByteStrings == UNION {[1..n -> {0, 52, 65, 92, 120, 255}] : n \in 0..4}
=============================================================================

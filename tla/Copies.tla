------------------------------- MODULE Copies -------------------------------
(***************************************************************************)
(* A field copied from the consumer and produced again: what the consumer  *)
(* shows of Avro data and of bytes (kaskade/models.py and                  *)
(* kaskade/record_export.py), and how the composer's serializers read it   *)
(* back (kaskade/serializers/avro.py and primitives.py).                   *)
(*                                                                         *)
(* A Python value has a type; the types of which its str(), or the string  *)
(* itself, can be read; and, of what the program does not tell apart, a    *)
(* name.  A schema is resolved: a name of a type, and a type that wraps    *)
(* another, stand for the type itself.                                     *)
(***************************************************************************)
EXTENDS Integers, Sequences, FiniteSets, Escapes

CONSTANTS
  Texts,         \* names, symbols and values
  MaxDepth,      \* how deep schemas and values are nested
  AvroSchemas,   \* schemas, and those of their parts
  AvroData(_),   \* data written with a schema
  ByteStrings    \* byte strings that are shown escaped

VARIABLE copy   \* the last copy: what was written, and what is produced of it

FORMS == {"datetime", "date", "time", "decimal", "bytes"}
PYS == FORMS \cup {"none", "bool", "int", "float", "str", "list", "dict", "refused"}
TYPES == {"null", "boolean", "int", "long", "float", "double", "string", "bytes", "fixed",
          "enum", "record", "array", "map", "union"}
DATETIME_LOGICAL_TYPES ==
  {"timestamp-millis", "timestamp-micros", "timestamp-nanos", "local-timestamp-millis",
   "local-timestamp-micros", "local-timestamp-nanos"}
TIME_LOGICAL_TYPES == {"time-millis", "time-micros"}
LOGICALS == DATETIME_LOGICAL_TYPES \cup TIME_LOGICAL_TYPES \cup {"", "date", "decimal"}

\* items: of a list or a dict, pairs of a name and a value; branch: of written
\* data, that of the union it was written with.
ValuesOf(inner) ==
  [py : PYS, form : SUBSET FORMS, v : Texts, branch : Texts, items : Seq(Texts \X inner)]
ValuesTo[depth \in 0..MaxDepth] == IF depth = 0 THEN {} ELSE ValuesOf(ValuesTo[depth - 1])
AnyValue == ValuesTo[MaxDepth]

\* parts: the fields of a record, the branches of a union, the symbols of an
\* enum, or what an array or a map is of; a triple has the name, the schema,
\* and whether a record may do without it.
SchemasOf(inner) ==
  [type : TYPES, logical : LOGICALS, parts : Seq(Texts \X inner \X BOOLEAN)]
SchemasTo[depth \in 0..MaxDepth] == IF depth = 0 THEN {} ELSE SchemasOf(SchemasTo[depth - 1])

Remade(value, py, branch, items) ==
  [py |-> py, form |-> value.form, v |-> value.v, branch |-> branch, items |-> items]
Typed(value, py) == Remade(value, py, value.branch, value.items)
Branched(value, branch) == Remade(value, value.py, branch, value.items)
Holding(value, items) == Remade(value, value.py, "", items)
OnItems(value, f) ==
  Holding(value, [i \in DOMAIN value.items |-> <<value.items[i][1], f[value.items[i][2]]>>])
Datum(py, form, v) == [py |-> py, form |-> form, v |-> v, branch |-> "", items |-> <<>>]
Refused == Datum("refused", {}, "")

Part(part) == part[2]
Names(schema) == {schema.parts[i][1] : i \in DOMAIN schema.parts}
Required(schema) ==
  {schema.parts[i][1] : i \in {j \in DOMAIN schema.parts : ~schema.parts[j][3]}}
Keys(value) == {value.items[i][1] : i \in DOMAIN value.items}
\* The schema of an item of a record, or of any item of an array or a map.
ItemSchema(schema, name) ==
  IF schema.type = "record"
  THEN Part(schema.parts[CHOOSE i \in DOMAIN schema.parts : schema.parts[i][1] = name])
  ELSE Part(schema.parts[1])
----------------------------------------------------------------------------
(* Avro data: fastavro reads it, outside the program.                      *)

ReadsAvro[data \in AnyValue] == OnItems(data, ReadsAvro)

JsonTypes == {"none", "bool", "int", "float", "str", "list", "dict"}

\* readable_json(): what JSON has not is shown by str().
ShownAs[value \in AnyValue] ==
  IF value.py \in JsonTypes THEN OnItems(value, ShownAs) ELSE Typed(value, "str")
----------------------------------------------------------------------------
(* Reading it back.                                                        *)

NumberPys == {"int", "float"}
LogicalPy(logical) ==
  CASE logical \in DATETIME_LOGICAL_TYPES -> "datetime"
    [] logical \in TIME_LOGICAL_TYPES     -> "time"
    [] OTHER                              -> logical

\* _logical(): a text that can be read so, and a number for a decimal.
Logical(schema, value) ==
  LET py == LogicalPy(schema.logical)
  IN  IF \/ value.py = "str" /\ py \in value.form
         \/ value.py \in NumberPys /\ py = "decimal"
      THEN Typed(value, py) ELSE value

\* A defect: bytes are only read where the schema has no union.
LiteralIsText(value) == value

\* _bytes_literal().
BytesLiteral(value) ==
  IF value.py = "str" /\ "bytes" \in value.form THEN Typed(value, "bytes") ELSE value

BasePy(type) ==
  CASE type = "null" -> {"none"}             [] type = "boolean" -> {"bool"}
    [] type \in {"int", "long"} -> {"int"}   [] type \in {"float", "double"} -> NumberPys
    [] type = "string" -> {"str"}            [] type \in {"bytes", "fixed"} -> {"bytes"}
    [] type = "array" -> {"list"}            [] type = "map" -> {"dict"}
    [] OTHER -> {}

\* _fits(): a shallow check.
Fits(schema, value) ==
  \/ schema.logical # "" /\ value.py \in {"datetime", "date", "time", "decimal"}
  \/ value.py \in BasePy(schema.type)
  \/ schema.type = "enum" /\ value.py = "str" /\ value.v \in Names(schema)
  \/ schema.type = "record" /\ value.py = "dict" /\ Keys(value) \subseteq Names(schema)
     /\ Required(schema) \subseteq Keys(value)

\* The values of which the items are converted.
HasItems(schema, value) ==
  \/ schema.type \in {"record", "map"} /\ value.py = "dict"
  \/ schema.type = "array" /\ value.py = "list"

\* _convert(); of a union the first branch that fits, _convert_union().
Convert[schema \in AvroSchemas] == [json \in AnyValue |->
  LET value == IF schema.logical = "" THEN json ELSE Logical(schema, json)
      item(i) == IF schema.type = "record" /\ value.items[i][1] \notin Names(schema)
                 THEN value.items[i][2]
                 ELSE Convert[ItemSchema(schema, value.items[i][1])][value.items[i][2]]
      fitting == {i \in DOMAIN schema.parts :
                    Fits(Part(schema.parts[i]), Convert[Part(schema.parts[i])][json])}
  IN  CASE schema.type = "union" ->
             IF fitting = {} THEN json ELSE Convert[Part(schema.parts[Min(fitting)])][json]
        [] HasItems(schema, value) ->
             Holding(value, [i \in DOMAIN value.items |-> <<value.items[i][1], item(i)>>])
        [] schema.type \in {"bytes", "fixed"} -> BytesLiteral(value)
        [] OTHER -> value]
----------------------------------------------------------------------------
(* fastavro validates and writes, outside the program: of a union too the  *)
(* first branch, here the first that is valid in depth.                    *)

Writable[schema \in AvroSchemas] == [value \in AnyValue |->
  CASE schema.type = "union" ->
         \E i \in DOMAIN schema.parts : Writable[Part(schema.parts[i])][value]
    [] schema.type \in {"record", "array", "map"} ->
         /\ Fits(schema, value)
         /\ \A i \in DOMAIN value.items :
              Writable[ItemSchema(schema, value.items[i][1])][value.items[i][2]]
    [] schema.logical # "" ->
         value.py = LogicalPy(schema.logical) \/ value.py \in BasePy(schema.type)
    [] OTHER -> Fits(schema, value)]

Writes[schema \in AvroSchemas] == [value \in AnyValue |->
  LET valid == {i \in DOMAIN schema.parts : Writable[Part(schema.parts[i])][value]}
      branch == schema.parts[Min(valid)]
      item(i) == Writes[ItemSchema(schema, value.items[i][1])][value.items[i][2]]
  IN  CASE schema.type = "union" /\ valid # {} -> Branched(Writes[Part(branch)][value], branch[1])
        [] schema.type \in {"record", "array", "map"} /\ Fits(schema, value) ->
             Holding(value, [i \in DOMAIN value.items |-> <<value.items[i][1], item(i)>>])
        [] OTHER -> value]

\* encode_avro().
EncodeAvro(schema, json) ==
  LET datum == Convert[schema][json]
  IN  IF Writable[schema][datum] THEN Writes[schema][datum] ELSE Refused
----------------------------------------------------------------------------
(* The schemas and the data of an instance.                                *)

\* The types of which the str() of a value of a type can be read: that of a
\* date is a datetime too, and that of a decimal may be any of them.
Forms(py) ==
  CASE py \in {"datetime", "time", "bytes"} -> {{py}}
    [] py = "date"    -> {{"date", "datetime"}}
    [] py = "decimal" -> {{"decimal"} \cup more : more \in SUBSET {"datetime", "date", "time"}}
    [] py = "str"     -> SUBSET FORMS
    [] OTHER          -> {{}}

IsSchema(schema) ==
  /\ \A i, j \in DOMAIN schema.parts : schema.parts[i][1] = schema.parts[j][1] => i = j
  /\ \A i \in DOMAIN schema.parts :
       /\ Part(schema.parts[i]) \in AvroSchemas
       /\ schema.type = "union" => Part(schema.parts[i]).type # "union"
  /\ schema.type \in {"array", "map"} => Len(schema.parts) = 1
  /\ schema.logical # "" => schema.type \in {"int", "long", "bytes", "fixed"}

IsDataOf(schema, data) ==
  /\ data.form \in Forms(data.py)
  /\ IF schema.type = "union"
     THEN \E i \in DOMAIN schema.parts :
            /\ data.branch = schema.parts[i][1]
            /\ Branched(data, "") \in AvroData(Part(schema.parts[i]))
     ELSE /\ data.branch = ""
          /\ IF schema.type \in {"record", "array", "map"}
             THEN /\ HasItems(schema, data)
                  /\ schema.type = "record" => Keys(data) = Names(schema)
                  /\ \A i \in DOMAIN data.items :
                       data.items[i][2] \in AvroData(ItemSchema(schema, data.items[i][1]))
             ELSE /\ data.items = <<>>
                  /\ IF schema.logical # "" THEN data.py = LogicalPy(schema.logical)
                     ELSE \/ data.py \in BasePy(schema.type)
                          \/ schema.type = "enum" /\ data.py = "str" /\ data.v \in Names(schema)

ASSUME CopiesAssumption ==
  /\ MaxDepth \in Nat \ {0} /\ "" \in Texts /\ AvroSchemas \subseteq SchemasTo[MaxDepth]
  /\ ByteStrings \subseteq Seq(BYTES)
  /\ \A schema \in AvroSchemas :
       /\ IsSchema(schema)
       /\ \A data \in AvroData(schema) : data \in AnyValue /\ IsDataOf(schema, data)
----------------------------------------------------------------------------
NoDatum == Datum("none", {}, "")
NoCopy == [schema |-> [type |-> "null", logical |-> "", parts |-> <<>>],
           data |-> NoDatum, produced |-> NoDatum, bytes |-> <<>>, again |-> <<>>]

CopyInit == copy = NoCopy

\* A Key or Value is copied, pasted into the composer and produced: one that is
\* a text or bytes is not shown as JSON (readable_content(), json_content()).
CopyAvro ==
  /\ copy = NoCopy
  /\ \E schema \in AvroSchemas : \E data \in AvroData(schema) :
       /\ data.py \notin {"str", "bytes"}
       /\ copy' = [NoCopy EXCEPT !.schema = schema, !.data = data,
                                 !.produced = EncodeAvro(schema, ShownAs[ReadsAvro[data]])]

CopyBytes ==
  /\ copy = NoCopy
  /\ \E bytes \in ByteStrings :
       copy' = [NoCopy EXCEPT !.bytes = bytes, !.again = Unescaped(Escaped(bytes))]

CopyNext == CopyAvro \/ CopyBytes
CopySpec == CopyInit /\ [][CopyNext]_copy
----------------------------------------------------------------------------
\* What is shown of the values of a type, what is shown of those of a schema,
\* and what a branch of it takes: types, and a text, whatever can be read of it.
BaseShows(type) ==
  CASE type \in {"int", "long", "float", "double"} -> {"number"}
    [] type \in {"string", "enum"}                 -> {"text"}
    [] type \in {"bytes", "fixed"}                 -> {"bytes"}
    [] type \in {"record", "map"}                  -> {"object"}
    [] OTHER                                       -> {type}
Shows(schema) ==
  IF schema.logical # "" THEN {"text"} \cup UNION Forms(LogicalPy(schema.logical))
  ELSE IF schema.type \in {"string", "enum"} THEN {"text"} \cup FORMS
  ELSE IF schema.type \in {"bytes", "fixed"} THEN {"text", "bytes"}
  ELSE BaseShows(schema.type)
Takes(schema) ==
  BaseShows(schema.type)
    \cup (IF schema.logical = "" THEN {} ELSE {LogicalPy(schema.logical), "number"})

\* No branch takes what is shown of a later one.
BranchesTold[schema \in AvroSchemas] ==
  /\ \A i \in DOMAIN schema.parts : BranchesTold[Part(schema.parts[i])]
  /\ schema.type = "union" =>
       \A i, j \in DOMAIN schema.parts :
         i < j => Takes(Part(schema.parts[i])) \cap Shows(Part(schema.parts[j])) = {}

\* "A Key or Value copied from the consumer produces the same bytes again":
\* so it does where the shown forms tell the branches of every union apart,
\* and bytes shown escaped are read back as they were, whatever they look like.
CopiesAreTheSame ==
  /\ BranchesTold[copy.schema] => copy.produced = copy.data
  /\ copy.again = copy.bytes
=============================================================================

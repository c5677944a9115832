--------------------------- MODULE Deserializers ---------------------------
(***************************************************************************)
(* How the consumer reads the bytes of a key, a value or a header: the     *)
(* deserializers of the primitive formats, those with local schema files,  *)
(* and those of the two registries, with the requests they make and what   *)
(* they keep of the answers.                                               *)
(*                                                                         *)
(* A document is written for a reader: the kind of schema and its name, a  *)
(* sequence of bytes.  `fs` is what each path names now.  Of the requests  *)
(* of one record at most those of one kind, `failing`, fail.               *)
(***************************************************************************)
EXTENDS FormatOptions, Framing, SchemaCollection

CONSTANTS
  Topic,          \* the topic of the records
  Schemas,        \* the registered schemas: type, name, file and references
  SchemaIds,      \* the schema behind each ID of the registry
  Registrations,  \* the [subject, version] that each ID is registered with
  Undecodable     \* what a library raises on bytes, from <<reader, payload>>

ASSUME RegistryAssumption ==
  /\ \A id \in DOMAIN SchemaIds : SchemaIds[id] \in DOMAIN Schemas
  /\ DOMAIN Registrations = DOMAIN SchemaIds
  /\ \A id \in DOMAIN Registrations : IsFiniteSet(Registrations[id])
  /\ \A schema \in DOMAIN Schemas : Schemas[schema].type \in {"avro", "json", "protobuf"}

\* A schema is registered after those it references, and parsed before that.
ASSUME SchemasAssumption ==
  /\ IsFiniteSet(DOMAIN Schemas) /\ Acyclic(Schemas)
  /\ \A schema \in DOMAIN Schemas : WellFormed(Schemas[schema].file)

RequestKinds == {"schema", "serialized", "references", "metadata"}

Reader(kind, name) == [kind |-> kind, name |-> name]

\* The documents of an instance: only JSON can be told from other bytes.
OPEN_BRACE == 123
Document(reader) == (IF reader.kind = "json" THEN <<OPEN_BRACE>> ELSE <<8>>) \o reader.name
IsJson(payload) == payload # <<>> /\ payload[1] = OPEN_BRACE
Matches(payload, schema) == Tail(payload) = schema
JSON == Reader("json", <<>>)

\* Bytes that are no document of a reader: the end comes too early or a tag is
\* none ("data", an exception that is handled), or a valid encoding cannot be
\* shown ("escape"): an Any of an unknown type, a date beyond the year 9999,
\* JSON nested too deeply.  What is no JSON at all is "data" in any case.
ASSUME UndecodableAssumption ==
  \A fault \in DOMAIN Undecodable :
    /\ fault = <<fault[1], fault[2]>> /\ Undecodable[fault] \in {"data", "escape"}
    /\ IF fault[1].kind = "json" THEN fault[1] = JSON /\ ~IsJson(fault[2])
       ELSE fault[2] # Document(fault[1])

\* The bytes of the field, the header included where there is one.
WholeOf(data) ==
  IF data.magic = MAGIC THEN <<MAGIC, 0, 0, 0, data.id>> \o data.payload ELSE data.payload

-----------------------------------------------------------------------------
\* What a deserializer returns, or raises: "options" is an error that names an
\* option, "data" one that the record's bytes or a registry cause, "escape" an
\* exception that is none of DESERIALIZATION_EXCEPTIONS.

NoSchema == [subject |-> "none", version |-> 0]
NoReader == Reader("none", <<>>)
Read(reader, payload) ==
  [kind |-> "content", reader |-> reader, payload |-> payload, schema |-> NoSchema]
Raised(why) == [kind |-> why, reader |-> NoReader, payload |-> <<>>, schema |-> NoSchema]
IsContent(result) == result.kind = "content"

\* What the library of a reader makes of a payload.  Of the exceptions of Avro
\* the code converts IndexError, of those of Protobuf it handles DecodeError; a
\* date's OverflowError, and what MessageToDict raises, are not handled.
Raises(reader, payload) ==
  IF <<reader, payload>> \in DOMAIN Undecodable THEN Undecodable[<<reader, payload>>]
  ELSE "nothing"
Decoded(reader, payload) ==
  [Read(reader, payload) EXCEPT
     !.kind = IF Raises(reader, payload) = "nothing" THEN @ ELSE Raises(reader, payload)]

Primitives == {"string", "boolean", "integer", "long", "float", "double"}
\* A primitive of fixed size, or text, is read only from bytes that are one.
PrimitiveRead(format, data) ==
  IF WholeOf(data) = Document(Reader(format, <<>>))
  THEN Read(Reader(format, <<>>), WholeOf(data)) ELSE Raised("data")

\* The payload behind the framing that the options name.
Payload(config, field, data) ==
  LET framing == ScopedProperty(config, FRAMING, field, "raw")
  IN  IF framing = "raw" THEN Read(NoReader, WholeOf(data))
      ELSE IF framing \notin REGISTRY_PROVIDERS THEN Raised("options")
      ELSE IF HasRegistryHeader(data) THEN Read(NoReader, data.payload)
      ELSE Raised("data")

JsonWith(payload, schemas) ==
  IF Raises(JSON, payload) # "nothing" THEN Decoded(JSON, payload)
  ELSE IF ~IsJson(payload) \/ \E schema \in schemas : ~Matches(payload, schema)
  THEN Raised("data")
  ELSE Read(Reader("json", Tail(payload)), payload)

\* Local JSON Schemas are loaded when the deserializers are made.
JsonRead(config, validators, field, data) ==
  LET payload == Payload(config, field, data)
  IN  IF ~IsContent(payload) THEN payload
      ELSE JsonWith(payload.payload, IF field \in DOMAIN validators THEN validators[field] ELSE {})

\* A local Avro schema is loaded for the first record, by a library that does
\* not expand the path; its exceptions are not those that are handled.
AvroRead(config, fs, loaded, field, data) ==
  LET payload == Payload(config, field, data)
      path == config[FileOf(field)]
  IN  IF FileOf(field) \notin DOMAIN config THEN Raised("options")
      ELSE IF ~IsContent(payload) THEN payload
      ELSE IF path \in DOMAIN loaded
      THEN Decoded(Reader("avro", CHOOSE s \in loaded[path] : TRUE), payload.payload)
      ELSE IF At(fs, path, FALSE).is # "avro" THEN Raised("escape")
      ELSE Decoded(Reader("avro", CHOOSE s \in fs[path].schemas : TRUE), payload.payload)

\* Local Protobuf: a source is compiled once and for all while the options are
\* checked, a descriptor set is read again for the first record.
ProtobufFramed(config, field, data) ==
  LET framing == ScopedProperty(config, FRAMING, field, "raw")
      indexes == ParseMessageIndexes(data.payload)
      payload == Payload(config, field, data)
  IN  IF framing = "confluent"
      THEN IF HasRegistryHeader(data) /\ indexes.ok THEN Read(NoReader, indexes.rest)
           ELSE Raised("data")
      ELSE IF framing = "apicurio" /\ IsContent(payload)
      THEN Read(NoReader, ParseTypeRef(payload.payload).rest)
      ELSE payload

ProtobufRead(config, fs, classes, field, data) ==
  LET found == IF Global("source") \in DOMAIN config \/ classes # {} THEN classes
               ELSE MessageClasses(config, fs)
      payload == ProtobufFramed(config, field, data)
      reader == Reader("protobuf", config[FileOf(field)])
  IN  IF \/ FileOf(field) \notin DOMAIN config
         \/ DOMAIN config \cap ProtobufSchemas = {} THEN Raised("options")
      ELSE IF found = {} THEN Raised("data")
      ELSE IF config[FileOf(field)] \notin found THEN Raised("options")
      ELSE IF ~IsContent(payload) THEN [payload EXCEPT !.reader = reader]
      ELSE Decoded(reader, payload.payload)

-----------------------------------------------------------------------------
\* The registries.  `cache` has what is kept: Confluent's client has each schema
\* in the form it was asked for last; `schemas` are those the deserializer
\* holds, `parsed` those whose references were collected, and `metadata` what
\* was found out of an ID's registrations for a field.

EmptyCache == [client |-> <<>>, schemas |-> <<>>, parsed |-> {}, metadata |-> <<>>]
Fetched(ok, cache) == [ok |-> ok, cache |-> cache]
SchemaOf(id) == Schemas[SchemaIds[id]]

\* What the client has once it was asked for a schema.
Asked(client, id) == IF id \in DOMAIN client THEN client ELSE With(client, id, "text")

\* ConfluentSchemas.schema() with a client that does not clear its cache.
ConfluentSchemaKept(cache, id, failing) ==
  IF id \in DOMAIN cache.schemas THEN Fetched(TRUE, cache)
  ELSE IF id \notin DOMAIN cache.client /\ (failing = "schema" \/ id \notin DOMAIN SchemaIds)
  THEN Fetched(FALSE, cache)
  ELSE LET client == Asked(cache.client, id)
       IN  Fetched(TRUE, [cache EXCEPT !.client = client, !.schemas = With(@, id, client[id])])

\* A schema by ID, from the client's cache or with a request; a Protobuf schema
\* is asked for a second time, in serialized form, from an emptied cache.
ConfluentSchema(cache, id, failing) ==
  IF id \in DOMAIN cache.schemas THEN Fetched(TRUE, cache)
  ELSE IF id \notin DOMAIN cache.client /\ (failing = "schema" \/ id \notin DOMAIN SchemaIds)
  THEN Fetched(FALSE, cache)
  ELSE LET client == Asked(cache.client, id)
       IN  IF SchemaOf(id).type # "protobuf"
           THEN Fetched(TRUE, [cache EXCEPT !.client = client,
                                            !.schemas = With(@, id, client[id])])
           ELSE IF failing = "serialized" THEN Fetched(FALSE, [cache EXCEPT !.client = <<>>])
           ELSE Fetched(TRUE, [cache EXCEPT !.client = With(<<>>, id, "serialized"),
                                            !.schemas = With(@, id, "serialized")])

\* The schema with its references; nothing is kept of a collection that fails.
Collected(cache, id, failing) ==
  IF id \in cache.parsed THEN Fetched(TRUE, cache)
  ELSE IF failing = "references" /\ SchemaOf(id).references # <<>> THEN Fetched(FALSE, cache)
  ELSE Fetched(TRUE, [cache EXCEPT !.parsed = @ \cup {id}])

\* The library reads JSON and Avro, and asks the client for the schema itself.
LibrarySchema(cache, id, failing) ==
  IF id \in DOMAIN cache.client THEN Collected(cache, id, failing)
  ELSE IF failing = "schema" THEN Fetched(FALSE, cache)
  ELSE Collected([cache EXCEPT !.client = With(@, id, "text")], id, failing)

MessagesOf(file) == {MessageName(file, indexes) : indexes \in DOMAIN file.messages}
Pools ==
  [schema \in DOMAIN Schemas |->
     UNION {MessagesOf(Schemas[s].file) : s \in Reachable(Schemas, schema)}]
Pool(schema) == Pools[schema]

\* The file that Apicurio's sources have as their root.
RootFiles ==
  [schema \in DOMAIN Schemas |-> ApicurioSources(Schemas, schema)[RootName("apicurio")]]

\* Whether the parsers take each schema as it is collected.
Parseable ==
  [provider \in REGISTRY_PROVIDERS |->
     [schema \in DOMAIN Schemas |-> Parses(Schemas, provider, schema)]]

Result(result, cache) == [result |-> result, cache |-> cache]

ConfluentProtobuf(cache, id, data, failing) ==
  LET fetched == Collected(cache, id, failing)
      file == SchemaOf(id).file
      indexes == ParseMessageIndexes(data.payload)
      message == FindMessage(Pool(SchemaIds[id]), file, MessageName(file, indexes.indexes))
      readable == /\ cache.schemas[id] = "serialized"
                  /\ Parseable["confluent"][SchemaIds[id]]
  IN  IF ~fetched.ok \/ ~readable THEN Result(Raised("data"), cache)
      ELSE IF ~indexes.ok \/ ~HasMessage(file, indexes.indexes) \/ ~message.found
      THEN Result(Raised("data"), fetched.cache)
      ELSE Result(Decoded(Reader("protobuf", message.name), indexes.rest), fetched.cache)

ConfluentContent(cache, id, data, failing) ==
  LET type == SchemaOf(id).type
      fetched == LibrarySchema(cache, id, failing)
  IN  IF type = "protobuf" THEN ConfluentProtobuf(cache, id, data, failing)
      ELSE IF ~fetched.ok THEN Result(Raised("data"), fetched.cache)
      ELSE Result(IF type = "json" THEN JsonWith(data.payload, {SchemaOf(id).name})
                  ELSE Decoded(Reader("avro", SchemaOf(id).name), data.payload), fetched.cache)

-----------------------------------------------------------------------------
\* Which registration of a schema the record was written with.

Conventional(field, registrations) ==
  {r \in registrations : r.subject = Topic \o "-" \o field}
Sole(set) == IF Cardinality(set) = 1 THEN CHOOSE r \in set : TRUE ELSE NoSchema

\* A defect, of ConfluentSelection: any candidate, where several are registered.
AnySelection(registrations, field) ==
  IF registrations = {} THEN NoSchema ELSE CHOOSE r \in registrations : TRUE

ConfluentSelection(registrations, field) ==
  IF Cardinality(registrations) = 1 THEN Sole(registrations)
  ELSE Sole(Conventional(field, registrations))

ApicurioSelection(registrations, field) ==
  IF Sole(Conventional(field, registrations)) # NoSchema
  THEN Sole(Conventional(field, registrations)) ELSE Sole(registrations)

\* Confluent keeps the answer, also that there is none because the request failed.
ConfluentMetadata(cache, id, field, failing) ==
  IF <<id, field>> \in DOMAIN cache.metadata THEN cache
  ELSE [cache EXCEPT !.metadata =
          With(@, <<id, field>>, IF failing = "metadata" THEN NoSchema
                                 ELSE ConfluentSelection(Registrations[id], field))]

\* Apicurio's client keeps an ID's registrations, for both fields, until they age.
ApicurioMetadata(cache, id, field, failing) ==
  IF <<id, field>> \in DOMAIN cache.metadata \/ failing = "metadata" THEN cache
  ELSE [cache EXCEPT !.metadata =
          Over([p \in {id} \X Fields |-> ApicurioSelection(Registrations[id], p[2])], @)]
Aged(cache, id) ==
  {[cache EXCEPT !.schemas = Restrict(@, DOMAIN @ \ {id})],
   [cache EXCEPT !.metadata = Restrict(@, DOMAIN @ \ ({id} \X Fields))]}

Described(content, cache, id, field) ==
  Result([content EXCEPT !.schema = IF <<id, field>> \in DOMAIN cache.metadata
                                    THEN cache.metadata[<<id, field>>] ELSE NoSchema], cache)

\* The content, and what the metadata of its ID add to it.
WithMetadata(Metadata(_, _, _, _), content, id, field, failing) ==
  IF ~IsContent(content.result) THEN content
  ELSE Described(content.result, Metadata(content.cache, id, field, failing), id, field)

Contents(Content(_, _, _, _), Metadata(_, _, _, _), schema, field, data, failing) ==
  IF ~schema.ok THEN Result(Raised("data"), schema.cache)
  ELSE WithMetadata(Metadata, Content(schema.cache, data.id, data, failing),
                    data.id, field, failing)

\* A defect, of ConfluentRead: data that is too short is not told apart.
ConfluentUnguarded(cache, field, data, failing) ==
  IF ~HasRegistryHeader(data) THEN Result(Raised("escape"), cache)
  ELSE Contents(ConfluentContent, ConfluentMetadata, ConfluentSchema(cache, data.id, failing),
                field, data, failing)

ConfluentRead(cache, field, data, failing) ==
  IF ~HasRegistryHeader(data) THEN Result(Raised("data"), cache)
  ELSE Contents(ConfluentContent, ConfluentMetadata, ConfluentSchema(cache, data.id, failing),
                field, data, failing)

\* Apicurio's client keeps the artifacts it was given, until they age.
ApicurioArtifact(cache, id, failing) ==
  IF id \in DOMAIN cache.schemas THEN Fetched(TRUE, cache)
  ELSE IF failing = "schema" \/ id \notin DOMAIN SchemaIds THEN Fetched(FALSE, cache)
  ELSE Fetched(TRUE, [cache EXCEPT !.schemas = With(@, id, "text")])

\* JSON may follow a type reference, or only look as if it did.
ApicurioJson(payload, schema) ==
  LET rest == ParseTypeRef(payload).rest
  IN  JsonWith(IF IsJson(rest) \/ Raises(JSON, rest) = "escape" THEN rest ELSE payload, {schema})

ApicurioProtobuf(schema, payload) ==
  LET reference == ParseTypeRef(payload)
      root == RootFiles[schema]
      file == Schemas[root].file
      message == IF reference.named THEN FindMessage(Pool(root), file, reference.name)
                 ELSE FirstMessage(Pool(root), file)
  IN  IF message.found THEN Decoded(Reader("protobuf", message.name), reference.rest)
      ELSE Raised("data")

ApicurioContent(cache, id, data, failing) ==
  LET schema == SchemaIds[id]
      fetched == Collected(cache, id, failing)
  IN  IF ~fetched.ok \/ ~Parseable["apicurio"][schema] THEN Result(Raised("data"), cache)
      ELSE Result(CASE SchemaOf(id).type = "json"     -> ApicurioJson(data.payload, SchemaOf(id).name)
                    [] SchemaOf(id).type = "avro"     -> Decoded(Reader("avro", SchemaOf(id).name),
                                                                 data.payload)
                    [] SchemaOf(id).type = "protobuf" -> ApicurioProtobuf(schema, data.payload),
                  fetched.cache)

ApicurioRead(cache, field, data, failing) ==
  IF ~HasRegistryHeader(data) THEN Result(Raised("data"), cache)
  ELSE Contents(ApicurioContent, ApicurioMetadata, ApicurioArtifact(cache, data.id, failing),
                field, data, failing)
=============================================================================

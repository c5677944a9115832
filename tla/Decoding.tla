------------------------------ MODULE Decoding ------------------------------
(***************************************************************************)
(* One start of Kaskade from its command line, in any of its modes, and    *)
(* what a consumer that starts makes of the records it reads: from the     *)
(* options of kaskade/main.py, checked by kaskade/cli and                  *)
(* kaskade/settings.py, to the outcomes of kaskade/models.py.              *)
(*                                                                         *)
(* A record has a key, a value and a header.  Each is Kafka null or was    *)
(* written: `by` is the document a reader of the right kind finds in the   *)
(* data, and `framing` how it is framed there.                             *)
(***************************************************************************)
EXTENDS Deserializers

CONSTANTS
  Lines,     \* the command lines of the instance, a sequence
  Files      \* what each path names when the program starts

\* A command line: the command with its options, the files and the environment
\* it reads, and the records the topic has.
LineFields ==
  {"mode", "formats", "file", "kafka", "registry", "aws", "brokers", "overrides", "timeouts",
   "settings", "interval", "read_only", "signs", "partitions", "source", "avro", "json",
   "protobuf", "bytes", "fallback", "records", "losable"}
FieldFormats == Primitives \cup {"bytes", "json", "avro", "protobuf", "registry"}

\* click offers three commands and these formats; a number in settings.yaml is
\* a number.
ASSUME LinesAssumption ==
  \A i \in DOMAIN Lines :
    /\ DOMAIN Lines[i] = LineFields
    /\ Lines[i].mode \in DOMAIN TimeoutNames
    /\ Lines[i].formats \in [Fields -> FieldFormats]
    /\ \A t \in AllTimeouts :
         LET given == TimeoutSettings(Lines[i].settings, t[1])
         IN  t[2] \in DOMAIN given /\ given[t[2]].kind = "number" => given[t[2]].ms \in Int

\* Names are of Protobuf's length.  The rest of a JSON object from a later byte
\* is not one: the last brace closes the first, so that a rest has a brace or a
\* quote too many.
IsReader(by) ==
  /\ by = Reader(by.kind, by.name)
  /\ by.name \in Seq(NAME_BYTES) /\ Len(by.name) <= INT32_MAX
  /\ by.kind = "json" => OPEN_BRACE \notin Range(by.name)
ASSUME RecordsAssumption ==
  \A i \in DOMAIN Lines :
    /\ DOMAIN Lines[i].records = 1..Len(Lines[i].records)
    /\ \A j \in DOMAIN Lines[i].records, field \in Fields :
         IsReader(Lines[i].records[j][field].by)

VARIABLES
  line,      \* the command line, with its environment and the records to read
  phase,     \* how far the start has come, or how it ended
  fs,        \* what each path names now
  session,   \* the settings and normalized options the application works with
  cache,     \* what the registry deserializer keeps
  loaded,    \* AvroDeserializer._schemas
  classes,   \* ProtobufDeserializer.descriptor_classes, {} for None
  last       \* the last record that was read, with its outcomes

readerVars == <<cache, loaded, classes, last>>
vars == <<line, phase, fs, session, readerVars>>

NoSession == [mode |-> "none"]
NothingRead == [record |-> 0, failing |-> "none", outcomes |-> <<>>]

\* The options as the parser of the command line hands them over.
Configs(l) ==
  [registry |-> Connection(l).registry, avro |-> Parsed(l.avro), json |-> Parsed(l.json),
   protobuf |-> ProtobufParsed(l.protobuf), bytes |-> Parsed(l.bytes),
   fallback |-> Parsed(l.fallback)]
ItemsOk(l) ==
  /\ ItemsValid(l.avro) /\ ItemsValid(l.json) /\ ItemsValid(l.bytes) /\ ItemsValid(l.fallback)
  /\ ProtobufItemsValid(l.protobuf)

\* resolve_app_settings(): the command line over settings.yaml.
AppSettings(l) ==
  [timeouts |-> Timeouts(l.settings, l.timeouts),
   interval |-> IF l.interval = -1 THEN SettingsRefreshInterval(l.settings) ELSE l.interval,
   read_only |-> l.read_only \/ SettingsReadOnly(l.settings)]
AppOptionsValid(l) ==
  /\ TimeoutsValid(l.mode, l.timeouts)
  /\ l.interval # -1 => is_valid_admin_refresh_interval(l.interval)

\* Each partition once, in any form.
PartitionsValid(l) == IsInjective([i \in DOMAIN l.partitions |-> l.partitions[i][1]])

\* --earliest, and --acks, --compression and --idempotence of the producer, are
\* Kafka properties that win over the others.
KafkaOf(l) == Over(l.overrides, Connection(l).kafka)

-----------------------------------------------------------------------------
\* The applications are made.  The constructors of the clients, outside the
\* program, refuse properties they do not know.

CONFLUENT_CLIENT_PROPERTIES == {Global("url"), Global("basic.auth.user.info")}
ClientBuilds(config, files) ==
  IF ProviderOf(config) = "apicurio" THEN ApicurioConfigValid(config, files)
  ELSE /\ Global("url") \in DOMAIN config
       /\ DOMAIN config \ {Provider} \subseteq CONFLUENT_CLIENT_PROPERTIES

\* DeserializerPool(): local JSON Schemas and the registry client; and get(),
\* which wants options for three of the formats.
Validators(config, files) ==
  [field \in {f \in Fields : FileOf(f) \in DOMAIN config} |-> files[config[FileOf(field)]].schemas]
ConsumerBuilds(c, files) ==
  /\ c.registry # NoProperties => ClientBuilds(c.registry, files)
  /\ \A field \in DOMAIN Validators(c.json, files) : Loads(files, c.json[FileOf(field)], "json")
ConsumerGets(c, formats) ==
  \A field \in Fields :
    formats[field] \in {"registry", "avro", "protobuf"} => c[formats[field]] # NoProperties

\* SerializerPool.get() for one field: "built", "refused" with a message, or
\* "options" for what is not there although the options were accepted.
DocumentFormat(c, field) ==
  IF FileOf(field) \in DOMAIN c.avro THEN "avro"
  ELSE IF FileOf(field) \in DOMAIN c.json THEN "json" ELSE "protobuf"

DocumentBuilds(c, field, files) ==
  LET format == DocumentFormat(c, field)
      path == IF format = "protobuf" THEN c.protobuf[Global("source")]
              ELSE c[format][FileOf(field)]
  IN  IF format = "protobuf" /\ Global("source") \notin DOMAIN c.protobuf
      THEN c.protobuf[FileOf(field)] \in MessageClasses(c.protobuf, files)
      ELSE Documents(files[path].imports, "root").ok

RegistrySerializer(c, field, files) ==
  LET client == ClientConfig(c.registry)
      selection == SelectionConfig(c.registry)
      provider == ProviderOf(client)
  IN  IF ~SchemaSelectionValid(Restrict(selection, DOMAIN selection \cap
                                                   SelectionScopes(provider)), provider, field)
      THEN "options"
      ELSE IF AutoRegister(selection, provider, field)
              /\ \A format \in FileFormats : FileOf(field) \notin DOMAIN c[format]
      THEN "options"
      ELSE IF AutoRegister(selection, provider, field) /\ ~DocumentBuilds(c, field, files)
      THEN "refused"
      ELSE IF ClientBuilds(client, files) THEN "built" ELSE "refused"

Serializer(c, format, field, files) ==
  CASE format \in Primitives -> "built"
    [] format = "bytes" ->
         IF ScopedProperty(c.bytes, ENCODING, field, "base64") \in BYTES_ENCODINGS
         THEN "built" ELSE "options"
    [] format = "json" ->
         IF FileOf(field) \in DOMAIN c.json => Loads(files, c.json[FileOf(field)], "json")
         THEN "built" ELSE "refused"
    [] format = "avro" ->
         IF FileOf(field) \notin DOMAIN c.avro THEN "options"
         ELSE IF Loads(files, c.avro[FileOf(field)], "avro") THEN "built" ELSE "refused"
    [] format = "protobuf" ->
         IF FileOf(field) \notin DOMAIN c.protobuf THEN "options"
         ELSE IF c.protobuf[FileOf(field)] \in MessageClasses(c.protobuf, files)
         THEN "built" ELSE "refused"
    [] format = "registry" -> RegistrySerializer(c, field, files)

-----------------------------------------------------------------------------
\* The three commands.  Settings that raise what is not handled end the program
\* wherever they are read; otherwise a start is refused with a message, or
\* succeeds.

Reads(l) == ItemsValid(l.timeouts) /\ ConnectionValid(l, l.signs)

AdminPhase(l) ==
  IF ~Reads(l) \/ ~(l.interval # -1 => is_valid_admin_refresh_interval(l.interval))
  THEN "refused"
  ELSE IF SettingsEscape(l.settings) THEN "escaped"
  ELSE IF AppOptionsValid(l) THEN "running" ELSE "refused"

ConsumerPhase(l, files) ==
  IF ~ItemsOk(l) \/ ~PartitionsValid(l) \/ ~Reads(l) THEN "refused"
  ELSE IF SettingsEscape(l.settings) THEN "escaped"
  ELSE IF \/ ~AppOptionsValid(l)
          \/ ~DeserializerOptionsValid(Configs(l), l.formats, files) THEN "refused"
  ELSE LET c == DeserializerOptions(Configs(l)) IN
       IF ~ConsumerBuilds(c, files) THEN "refused"
       ELSE IF ConsumerGets(c, l.formats) THEN "running" ELSE "misconfigured"

ProducerPhase(l, files) ==
  IF ~ItemsOk(l) \/ ~Reads(l) \/ ~SerializerOptionsValid(Configs(l), l.formats, files)
  THEN "refused"
  ELSE IF SettingsEscape(l.settings) THEN "escaped"
  ELSE IF ~AppOptionsValid(l) \/ l.source = "invalid" THEN "refused"
  ELSE LET c == SerializerOptions(Configs(l))
           made == {Serializer(c, l.formats[field], field, files) : field \in Fields}
       IN  IF "options" \in made THEN "misconfigured"
           ELSE IF "refused" \in made THEN "refused" ELSE "running"

PhaseOf(l, files) ==
  CASE l.mode = "admin"    -> AdminPhase(l)
    [] l.mode = "consumer" -> ConsumerPhase(l, files)
    [] l.mode = "producer" -> ProducerPhase(l, files)

SessionOf(l) ==
  [mode |-> l.mode, kafka |-> KafkaOf(l), settings |-> AppSettings(l), formats |-> l.formats,
   options |-> IF l.mode = "consumer" THEN DeserializerOptions(Configs(l)) ELSE NoProperties]

Init ==
  /\ \E i \in DOMAIN Lines : line = Lines[i]
  /\ phase = "given"
  /\ fs = Files
  /\ session = NoSession
  /\ cache = EmptyCache
  /\ loaded = NoProperties
  /\ classes = {}
  /\ last = NothingRead

\* Protobuf sources have been compiled when the options are accepted.
Start ==
  /\ phase = "given"
  /\ phase' = PhaseOf(line, fs)
  /\ session' = IF phase' = "running" THEN SessionOf(line) ELSE NoSession
  /\ classes' = IF phase' = "running" /\ line.mode = "consumer"
                   /\ Global("source") \in DOMAIN session'.options.protobuf
                THEN MessageClasses(session'.options.protobuf, fs) ELSE {}
  /\ UNCHANGED <<line, fs, cache, loaded, last>>

-----------------------------------------------------------------------------
\* Reading.  Null is null; an error that is expected presents the bytes.

NullRead == Read(Reader("null", <<>>), <<>>)

Backend(config, field, data, failing) ==
  IF ProviderOf(config) = "apicurio" THEN ApicurioRead(cache, field, data, failing)
  ELSE ConfluentRead(cache, field, data, failing)

\* The outcome of one field and the registry cache after it.
FieldRead(c, field, format, written, failing) ==
  LET data == written.data
  IN  IF written.null THEN Result(NullRead, cache)
      ELSE CASE format = "bytes" -> Result(Read(NoReader, WholeOf(data)), cache)
             [] format \in Primitives -> Result(PrimitiveRead(format, data), cache)
             [] format = "json" ->
                  Result(JsonRead(c.json, Validators(c.json, Files), field, data), cache)
             [] format = "avro" -> Result(AvroRead(c.avro, fs, loaded, field, data), cache)
             [] format = "protobuf" ->
                  Result(ProtobufRead(c.protobuf, fs, classes, field, data), cache)
             [] format = "registry" -> Backend(c.registry, field, data, failing)

\* Of one record only one field has something to read here, and the header.
Outcomes(c, record, failing) ==
  [field \in Fields |-> FieldRead(c, field, session.formats[field], record[field], failing)]

\* AvroDeserializer keeps the schema it loaded; a descriptor set is kept too.
LoadedAfter(c, outcomes) ==
  LET now == {field \in Fields : /\ session.formats[field] = "avro"
                                 /\ outcomes[field].result.reader.kind = "avro"}
  IN  [path \in DOMAIN loaded \cup {c.avro[FileOf(field)] : field \in now} |->
         IF path \in DOMAIN loaded THEN loaded[path] ELSE fs[path].schemas]
ClassesAfter(c, outcomes) ==
  IF \E field \in Fields : outcomes[field].result.reader.kind = "protobuf"
                           /\ session.formats[field] = "protobuf" /\ classes = {}
  THEN MessageClasses(c.protobuf, fs) ELSE classes

Presented(i, failing, outcomes, header) ==
  [record |-> i, failing |-> failing,
   outcomes |-> With([field \in Fields |-> outcomes[field].result], "header", header)]

\* A record's key is read before its value; the instances give one of them null.
ReadAs(i, failing, outcomes) ==
  LET record == line.records[i]
      given == {field \in Fields : ~record[field].null}
  IN  /\ last' = Presented(i, failing, outcomes,
                           IF record.header.null THEN NullRead
                           ELSE PrimitiveRead("string", record.header.data))
      /\ cache' = IF given = {} THEN cache
                  ELSE outcomes[CHOOSE field \in given : TRUE].cache
      /\ loaded' = LoadedAfter(session.options, outcomes)
      /\ classes' = ClassesAfter(session.options, outcomes)
      /\ phase' = IF \E field \in Fields : outcomes[field].result.kind = "escape"
                  THEN "escaped" ELSE phase

ReadRecord(i, failing) ==
  /\ phase = "running" /\ session.mode = "consumer"
  /\ failing # "none" => Uses(session.formats, "registry")
  /\ ReadAs(i, failing, Outcomes(session.options, line.records[i], failing))
  /\ UNCHANGED <<line, fs, session>>

\* A file goes away while the program runs.
FileLost(path) ==
  /\ phase = "running"
  /\ path \in line.losable
  /\ fs[path] # Nothing
  /\ fs' = [fs EXCEPT ![path] = Nothing]
  /\ UNCHANGED <<line, phase, session, readerVars>>

\* What Apicurio's client keeps of an ID is older than the check period.
RegistryAges(id) ==
  /\ phase = "running" /\ session.mode = "consumer"
  /\ ProviderOf(session.options.registry) = "apicurio"
  /\ cache' \in Aged(cache, id) \ {cache}
  /\ UNCHANGED <<line, phase, fs, session, loaded, classes, last>>

Next ==
  \/ Start
  \/ \E id \in DOMAIN SchemaIds : RegistryAges(id)
  \/ \E i \in DOMAIN line.records, failing \in RequestKinds \cup {"none"} : ReadRecord(i, failing)
  \/ \E path \in DOMAIN fs : FileLost(path)

Spec == Init /\ [][Next]_vars
-----------------------------------------------------------------------------
\* What the start promises of the options: the checks before it are enough for
\* every deserializer and serializer.  None is asked for without its options,
\* misses its schema file or message, or meets a framing it does not know.
OptionsSuffice ==
  /\ phase # "misconfigured"
  /\ \A field \in DOMAIN last.outcomes : last.outcomes[field].kind # "options"

\* What of settings.yaml is not ignored with a warning where it cannot be used:
\* bytes that are no text, a value that YAML itself refuses, and a known deadline,
\* of any mode, that is an integer too large for a float.
EndsTheStart(settings) ==
  \/ settings.kind \in {"no_text", "bad_value"}
  \/ \E mode \in DOMAIN TimeoutNames : \E name \in TimeoutNames[mode] :
       /\ name \in DOMAIN TimeoutSettings(settings, mode)
       /\ TimeoutSettings(settings, mode)[name].kind = "too_large"

\* "Load valid application settings without making startup fragile", but for
\* those: whatever else the settings hold, a start ends as it would without
\* them, and the deadlines the application works with are positive.
SettingsAreOptional ==
  phase # "given" =>
    LET without == PhaseOf([line EXCEPT !.settings = [kind |-> "absent"]], Files)
    IN  IF session = NoSession
        THEN phase = without \/ (phase = "escaped" /\ EndsTheStart(line.settings))
        ELSE /\ without = "running"
             /\ \A t \in AllTimeouts : session.settings.timeouts[t] > 0

\* The program ends on nothing it reads but those settings, a local Avro schema
\* that is none when it is loaded for the first record, and a payload on which
\* the library of the reader that the options, or the ID, give the field raises
\* what is not handled.  No failed request, unknown ID, missing framing, broken
\* reference or unfit payload ends it: Kaskade "presents the raw field through
\* BYTES, and keeps consuming".
OnlyUnhandledEndIt ==
  phase = "escaped" =>
    \/ EndsTheStart(line.settings)
    \/ \E field \in Fields :
         /\ line.formats[field] = "avro"
         /\ At(fs, Configs(line).avro[FileOf(field)], FALSE).is # "avro"
    \/ /\ last.record # 0
       /\ \E field \in Fields :
            LET outcome == last.outcomes[field]
                id == line.records[last.record][field].data.id
            IN  /\ Raises(outcome.reader, outcome.payload) = "escape"
                /\ IF line.formats[field] = "registry"
                   THEN id \in DOMAIN SchemaIds /\ outcome.reader.kind = SchemaOf(id).type
                   ELSE outcome.reader.kind = line.formats[field]

-----------------------------------------------------------------------------
\* What a record is read as, when the options say how it was written.

\* A name is one schema's, and not the root's own; with Apicurio, and in a pool
\* of Protobuf files, each schema has one name.  A name within the package is
\* not the full name of another message.
Unambiguous(provider, schema) ==
  /\ EachNameOnce(Schemas, schema)
  /\ provider = "apicurio" \/ Schemas[schema].type = "protobuf" => OneNameEach(Schemas, schema)
  /\ Schemas[schema].type = "protobuf" =>
       /\ \A reference \in AllReferences(Schemas, schema) : reference.name # RootName(provider)
       /\ \A name \in Pool(schema) :
            LET inPackage == Schemas[schema].file.package \o name
            IN  inPackage # name => ~Declares(Schemas[schema].file, inPackage)

\* What a serializer writes between the header and the document.  Apicurio's
\* may leave out the reference to the first message; that is read back only
\* where the document does not look like a reference itself.  Before JSON only
\* the deserializer of the registry expects a reference.
Unreferenced(by, file) ==
  /\ <<0>> \in DOMAIN file.messages /\ by.name = MessageName(file, <<0>>)
  /\ ~ParseTypeRef(Document(by)).named
Preambles(format, framing, by, file) ==
  CASE framing = "confluent" /\ by.kind = "protobuf" ->
         {MessageIndexBytes(MessageIndexes(file, by.name))}
    [] framing = "apicurio" /\ by.kind = "protobuf" ->
         {TypeRef(by.name), TypeRef(WithoutPackage(file, by.name))}
         \cup {none \in {<<>>} : Unreferenced(by, file)}
    [] framing = "apicurio" /\ by.kind = "json" /\ format = "registry" -> {<<>>, TypeRef(by.name)}
    [] OTHER -> {<<>>}

\* The data is the document with a framing and one of these schemas.
IsWritten(written, format, schemas) ==
  IF written.framing = "raw" THEN written.data = Unframed(Document(written.by))
  ELSE \E schema \in schemas :
         /\ written.by.kind = "protobuf" => Declares(Schemas[schema].file, written.by.name)
         /\ \E before \in Preambles(format, written.framing, written.by, Schemas[schema].file) :
              written.data = Framed(written.data.id, before \o Document(written.by))

Expected(config, field, written) ==
  CASE line.formats[field] = "registry" ->
         /\ written.framing = ProviderOf(config)
         /\ written.data.id \in DOMAIN SchemaIds
         /\ Unambiguous(ProviderOf(config), SchemaIds[written.data.id])
         /\ IsWritten(written, "registry", {SchemaIds[written.data.id]})
    [] line.formats[field] \in FileFormats ->
         /\ written.framing = ScopedProperty(config, FRAMING, field, "raw")
         /\ IsWritten(written, line.formats[field], DOMAIN Schemas)

\* The reader that the options, or the ID, give the field.
Intended(config, field, written) ==
  LET schema == SchemaOf(written.data.id)
      local == FileOf(field) \in DOMAIN config
      ofFile == Files[config[FileOf(field)]].schemas
  IN  CASE line.formats[field] = "registry" ->
             IF schema.type = "protobuf"
             THEN written.by.kind = "protobuf"
             ELSE written.by = Reader(schema.type, schema.name)
        [] line.formats[field] = "protobuf" -> written.by = Reader("protobuf", config[FileOf(field)])
        [] line.formats[field] = "avro" -> written.by.kind = "avro" /\ ofFile = {written.by.name}
        [] line.formats[field] = "json" ->
             written.by.kind = "json" /\ (local => ofFile = {written.by.name})

\* A record that was written the way the options say is presented as what was
\* written, however many requests failed, in whatever way, while earlier records
\* were read: no failure is remembered.
DecodableIsDecoded ==
  (last.record # 0 /\ last.failing = "none" /\ fs = Files /\ phase = "running") =>
    \A field \in Fields :
      LET written == line.records[last.record][field]
          format == line.formats[field]
          config == IF format \in DOMAIN session.options
                    THEN session.options[format] ELSE NoProperties
      IN  (/\ ~written.null
           /\ format \in FileFormats \cup {"registry"}
           /\ Expected(config, field, written)
           /\ Intended(config, field, written))
          => /\ last.outcomes[field].kind = "content"
             /\ last.outcomes[field].reader = written.by
             /\ last.outcomes[field].payload = Document(written.by)

\* A record is only said to be of a subject and version when that is sure: the
\* schema is registered nowhere else, or the topic's own subject has it once.
MetadataIsTrue ==
  last.record # 0 =>
    \A field \in Fields :
      LET schema == last.outcomes[field].schema
          registered == Registrations[line.records[last.record][field].data.id]
      IN  schema # NoSchema =>
            /\ schema \in registered
            /\ \/ registered = {schema}
               \/ Conventional(field, registered) = {schema}
=============================================================================

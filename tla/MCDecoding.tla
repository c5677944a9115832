----------------------------- MODULE MCDecoding -----------------------------
(* An instance of Decoding for TLC: command lines in families, each of which  *)
(* varies one group of options, and the records their consumers read.         *)
EXTENDS Decoding, MCCopies

NoFile == [package |-> <<>>, messages |-> <<>>]
Schema(type, name, file, references) ==
  [type |-> type, name |-> name, file |-> file,
   references |-> [i \in DOMAIN references |->
                     [name |-> references[i], target |-> references[i]]]]
\* One JSON Schema under two names.
Alias == [Schema("json", <<67>>, NoFile, <<"doc">>) EXCEPT
            !.references = @ \o <<[name |-> "again", target |-> "doc"]>>]
Proto(messages, imports) == Schema("protobuf", <<>>, [package |-> <<80>>, messages |-> messages], imports)

\* An Avro schema with a reference, a JSON Schema, and a Protobuf file with
\* nested messages that imports one file along two ways.
MCSchemas ==
  [order  |-> Schema("avro", <<65>>, NoFile, <<"money">>),
   money  |-> Schema("avro", <<66>>, NoFile, <<>>),
   alias  |-> Alias,
   doc    |-> Schema("json", <<74>>, NoFile, <<>>),
   proto  |-> Proto((<<0>> :> 77) @@ (<<1>> :> 78) @@ (<<1, 0>> :> 79), <<"a", "b">>),
   a      |-> Proto(<<0>> :> 97, <<"common">>),
   b      |-> Proto(<<0>> :> 98, <<"common">>),
   common |-> Proto(<<0>> :> 99, <<>>)]
MCSchemaIds == <<"order", "doc", "proto", "alias">>
Registered(subject, version) == [subject |-> subject, version |-> version]
MCRegistrations ==
  <<{Registered("t-value", 1)},
    {Registered("t-key", 1), Registered("other-value", 1), Registered("t-value", 2),
     Registered("t-value", 3)},
    {Registered("t-value", 4), Registered("other-value", 1)}, {Registered("t-value", 5)}>>

File(is, schemas) == [is |-> is, schemas |-> schemas, imports |-> [root |-> <<>>]]
Message == <<80, 77>>
Inner == <<80, 78, 79>>
MCFiles ==
  ("avro" :> File("avro", {<<65>>})) @@ ("~/avro" :> File("avro", {<<65>>})) @@
  ("json" :> File("json", {<<74>>})) @@ ("text" :> File("text", {})) @@
  ("proto" :> File("proto", {Message, Inner})) @@
  ("descriptors" :> File("descriptors", {Message, Inner})) @@
  ("folder" :> File("folder", {})) @@ ("nowhere" :> Nothing) @@
  ("certificates" :> File("certificates", {})) @@
  ("imports" :> [File("avro", {<<65>>}) EXCEPT
                   !.imports = [root |-> <<"x", "y">>, x |-> <<"z">>, y |-> <<"z">>, z |-> <<>>]]) @@
  ("cycle" :> [File("json", {<<74>>}) EXCEPT !.imports = [root |-> <<"x">>, x |-> <<"root">>]])

-----------------------------------------------------------------------------
\* Records: null, or written for a reader with a framing.
Written(framing, by, data) == [null |-> FALSE, framing |-> framing, by |-> by, data |-> data]
NullWritten == [Written("raw", NoReader, Unframed(<<>>)) EXCEPT !.null = TRUE]
Record(key, value, header) == [key |-> key, value |-> value, header |-> header]
Value(written) == Record(NullWritten, written, NullWritten)
Key(written) == Record(written, NullWritten, NullWritten)

Order == Reader("avro", <<65>>)
Doc == Reader("json", <<74>>)
Again == Reader("json", <<67>>)
Msg(name) == Reader("protobuf", name)
\* Bytes that end too early, and a valid encoding that cannot be shown.
Broken == <<9>>
Unshown == <<10>>
TooDeep == <<91>>
MCUndecodable ==
  (<<Order, Broken>> :> "data") @@ (<<Order, Unshown>> :> "escape") @@
  (<<Msg(Message), Broken>> :> "data") @@ (<<Msg(Message), Unshown>> :> "escape") @@
  (<<JSON, TooDeep>> :> "escape")
Bytes(payload) == Written("raw", NoReader, Unframed(payload))
Behind(id, payload) == Written("raw", NoReader, Framed(id, payload))
Raw(reader) == Written("raw", reader, Unframed(Document(reader)))
Plain(framing, id, reader) == Written(framing, reader, Framed(id, Document(reader)))
\* As the composer frames Protobuf.
Indexed(name) ==
  Written("confluent", Msg(name),
          Framed(3, MessageIndexBytes(MessageIndexes(MCSchemas.proto.file, name))
                    \o Document(Msg(name))))
Referred(name) ==
  Written("apicurio", Msg(name),
          Framed(3, TypeRef(WithoutPackage(MCSchemas.proto.file, name)) \o Document(Msg(name))))

\* A list of records for each consumer.
ConfluentRecords ==
  <<<<Value(Plain("confluent", 1, Order)), Value(Plain("confluent", 2, Doc)),
      Value(Indexed(Message))>>,
    <<Key(Plain("confluent", 2, Doc)), Value(Plain("confluent", 2, Doc)), Value(Indexed(Inner)),
      Value(Plain("confluent", 4, Again))>>,
    <<Value(Written("raw", Doc, Framed(5, Document(Doc)))), Value(Raw(Doc)),
      Value(Written("confluent", Doc, Framed(3, <<2, 14, 0>>))),
      Record(NullWritten, NullWritten, Raw(Reader("string", <<>>)))>>,
    <<Value(Behind(1, Broken)), Value(Behind(1, Unshown)), Value(Behind(3, <<0>> \o Broken)),
      Value(Behind(3, <<0>> \o Unshown)), Value(Behind(2, TooDeep)), Value(Behind(2, Broken))>>>>
ApicurioRecords ==
  <<<<Value(Plain("apicurio", 1, Order)), Key(Plain("apicurio", 2, Doc)), Value(Referred(Message))>>,
    <<Value(Plain("apicurio", 2, Doc)), Value(Plain("apicurio", 4, Again)), Value(Referred(Inner))>>,
    <<Value(Written("apicurio", Doc, Framed(2, TypeRef(<<74>>) \o Document(Doc)))),
      Value(Written("apicurio", Msg(Message), Framed(3, Document(Msg(Message))))),
      Value(Raw(Doc))>>,
    <<Value(Behind(1, Broken)), Value(Behind(1, Unshown)), Value(Behind(3, Broken)),
      Value(Behind(3, Unshown)), Value(Behind(2, TooDeep)), Value(Behind(2, Broken))>>>>
LocalRecords(reader) ==
  <<Value(Raw(reader)), Key(Raw(reader)), Value(Plain("confluent", 7, reader)),
    Value(Plain("apicurio", 7, reader)), Value(Raw(Reader("string", <<>>))),
    Value(Bytes(Broken)), Value(Bytes(IF reader.kind = "json" THEN TooDeep ELSE Unshown))>>

-----------------------------------------------------------------------------
Cross(Line(_, _), s, t) == FlattenSeq([i \in DOMAIN s |-> [j \in DOMAIN t |-> Line(s[i], t[j])]])

Absent == [kind |-> "absent"]
Base ==
  [mode |-> "consumer", formats |-> [key |-> "bytes", value |-> "bytes"], file |-> Absent,
   kafka |-> <<>>, registry |-> <<>>, aws |-> <<>>, brokers |-> << <<"b1", "b2">> >>,
   overrides |-> NoProperties, timeouts |-> <<>>, settings |-> Absent, interval |-> -1,
   read_only |-> FALSE, signs |-> TRUE, partitions |-> <<>>, source |-> "none",
   avro |-> <<>>, json |-> <<>>, protobuf |-> <<>>, bytes |-> <<>>, fallback |-> <<>>,
   records |-> <<>>, losable |-> {}]
Consumer(key, value) == [Base EXCEPT !.formats = [key |-> key, value |-> value]]
Producer(key, value) == [Consumer(key, value) EXCEPT !.mode = "producer"]
G(name, value) == <<Global(name), value>>
K(name, value) == <<Scoped("key", name), value>>
V(name, value) == <<Scoped("value", name), value>>

\* Local formats: which files are given, and how the records are framed.
Formats == <<<<"avro", "avro">>, <<"bytes", "avro">>, <<"avro", "json">>, <<"json", "json">>,
             <<"json", "string">>, <<"integer", "boolean">>>>
AvroItems ==
  <<<<>>, <<G("value", "avro")>>, <<G("key", "avro"), G("value", "avro")>>,
    <<G("key", "text"), G("value", "avro")>>, <<G("value", "~/avro")>>,
    <<G("value", "nowhere")>>, <<G("key", "folder")>>, <<G("value", "avro"), <<"framing">>>>,
    <<G("value", "avro"), G("framing", "Confluent")>>,
    <<G("value", "avro"), K("framing", "raw")>>,
    <<G("key", "avro"), G("value", "avro"), G("framing", "apicurio"), V("framing", "raw")>>,
    <<G("value", "avro"), G("framing", "avro")>>, <<G("value", "avro"), G("schema", "avro")>>>>
AvroLines ==
  LET Line(formats, items) == [Consumer(formats[1], formats[2]) EXCEPT
                                 !.avro = items, !.records = LocalRecords(Order),
                                 !.losable = {"avro"}]
  IN  Cross(Line, Formats, AvroItems)

JsonItems ==
  <<<<>>, <<G("value", "json")>>, <<G("key", "json")>>, <<G("value", "text")>>,
    <<V("framing", "confluent")>>, <<G("framing", "confluent"), K("framing", "raw")>>,
    <<G("framing", "Apicurio"), G("value", "json")>>, <<G("schema", "json")>>>>
JsonLines ==
  LET Line(formats, items) == [Consumer(formats[1], formats[2]) EXCEPT
                                 !.json = items, !.records = LocalRecords(Doc), !.losable = {"json"}]
  IN  Cross(Line, Formats, JsonItems)

ProtobufItems ==
  <<<<>>, <<G("source", "proto"), G("value", Message)>>,
    <<G("descriptor", "descriptors"), G("value", Message)>>,
    <<G("descriptor", "descriptors"), G("source", "proto"), G("value", Message)>>,
    <<G("descriptor", "proto"), G("value", Message)>>, <<G("value", Message)>>,
    <<G("source", "proto"), G("value", <<80, 90>>)>>, <<G("source", "proto"), G("key", Message)>>,
    <<G("source", "proto"), G("key", Message), G("value", Message), V("framing", "confluent")>>,
    <<G("source", "proto"), G("value", Message), G("include", <<"folder">>)>>,
    <<G("source", "proto"), G("value", Message), G("include", <<"folder">>), G("include", <<"folder">>)>>,
    <<G("descriptor", "descriptors"), G("value", Message), G("include", <<"folder">>)>>,
    <<G("source", "proto"), G("value", Message), G("include", <<"nowhere">>)>>,
    <<G("descriptor", "descriptors"), G("value", Message), G("framing", "Apicurio")>>>>
ProtobufRecords ==
  <<Value(Raw(Msg(Message))), Value(Indexed(Message)), Value(Referred(Message)),
    Key(Raw(Msg(Message))), Value(Plain("raw", 7, Doc)), Value(Bytes(Broken)),
    Value(Bytes(Unshown))>>
ProtobufLines ==
  LET Line(formats, items) == [Consumer(formats[1], formats[2]) EXCEPT
                                 !.protobuf = items, !.records = ProtobufRecords,
                                 !.losable = {"descriptors", "proto"}]
  IN  Cross(Line, <<<<"protobuf", "protobuf">>, <<"bytes", "protobuf">>, <<"bytes", "bytes">>>>,
            ProtobufItems)

BytesItems ==
  <<<<G("encoding", "HEX")>>, <<G("encoding", "byte_array")>>, <<V("encoding", "base64")>>,
    <<K("encoding", "octal")>>>>
BytesLines ==
  LET Line(formats, items) == [Consumer(formats[1], formats[2]) EXCEPT
                                 !.bytes = items, !.fallback = IF items[1][1] = Global("encoding")
                                                               THEN items ELSE <<>>,
                                 !.records = <<Value(Raw(Doc))>>]
      Sender(formats, items) == [Line(formats, items) EXCEPT !.mode = "producer", !.records = <<>>]
      pairs == <<<<"bytes", "bytes">>, <<"string", "bytes">>, <<"bytes", "string">>, <<"long", "float">>>>
  IN  Cross(Line, pairs, BytesItems) \o Cross(Sender, pairs, BytesItems)

-----------------------------------------------------------------------------
\* The registries' clients.
ConfluentItems ==
  <<<<>>, <<G("url", "http")>>, <<G("url", "http"), G("provider", "Confluent")>>,
    <<G("provider", "other")>>, <<G("provider", "confluent")>>,
    <<G("url", "http"), G("timeout", "3")>>, <<G("url", "http"), G("apicurio.registry.url", "http")>>>>
Url == G("apicurio.registry.url", "http")
Apicurio(items) == <<G("provider", "Apicurio"), Url>> \o items
ApicurioItems ==
  <<Apicurio(<<>>), <<G("provider", "apicurio")>>, Apicurio(<<G("url", "http")>>),
    Apicurio(<<G("use-id", "globalId")>>), Apicurio(<<G("use-id", "uuid")>>),
    Apicurio(<<G("auth.username", "u"), G("auth.password", "p")>>),
    Apicurio(<<G("auth.username", "u")>>),
    Apicurio(<<G("auth.username", "u"), G("auth.password", "p"),
               G("auth.service.token.endpoint", "http"), G("auth.client.id", "c"),
               G("auth.client.secret", "s")>>),
    Apicurio(<<G("auth.client.scope", "x")>>),
    Apicurio(<<G("proxy.host", "h"), G("proxy.port", "8081")>>),
    Apicurio(<<G("proxy.host", "h"), G("proxy.port", "70000")>>),
    Apicurio(<<G("proxy.username", "u"), G("proxy.password", "p")>>),
    Apicurio(<<G("tls.certificates", "certificates"), G("tls.verify-host", "false")>>),
    Apicurio(<<G("tls.certificates", "text"), G("tls.trust-all", "true")>>),
    Apicurio(<<G("tls.client-key", "text")>>), Apicurio(<<G("tls.trust-all", "yes")>>),
    Apicurio(<<G("retry-count", "0")>>), Apicurio(<<G("retry-count", "-1")>>),
    Apicurio(<<G("check-period-ms", "soon")>>)>>

RegistryLines ==
  LET Line(items, records) == [Consumer("registry", "registry") EXCEPT
                                 !.registry = items, !.records = records]
      Opens(items) == Line(items, <<>>)
      Unused(items) == [Opens(items) EXCEPT !.formats = Base.formats]
  IN  [i \in DOMAIN ConfluentItems |-> Opens(ConfluentItems[i])]
      \o [i \in DOMAIN ApicurioItems |-> Opens(ApicurioItems[i])]
      \o [i \in DOMAIN ConfluentRecords |-> Line(ConfluentItems[2], ConfluentRecords[i])]
      \o [i \in DOMAIN ApicurioRecords |-> Line(ApicurioItems[1], ApicurioRecords[i])]
      \o <<Unused(ConfluentItems[2]), Unused(ApicurioItems[1])>>

\* The producer's choice of a schema, and what it registers.
ConfluentChoices ==
  <<<<>>, <<G("use.schema.id", "3")>>, <<K("use.schema.id", "-1")>>, <<G("use.schema.id", "x")>>,
    <<G("auto.register.schemas", "true")>>, <<V("auto.register.schemas", "true")>>,
    <<V("auto.register.schemas", "true"), G("use.latest.version", "true")>>,
    <<G("auto.register.schemas", "true"), V("use.schema.id", "3")>>,
    <<G("use.latest.version", "false")>>, <<G("normalize.schemas", "maybe")>>,
    <<G("artifact.group-id", "g")>>, <<V("protobuf.message", Inner)>>>>
ApicurioChoices ==
  <<<<G("auto-register", "true")>>, <<V("auto-register", "true")>>, <<G("find-latest", "false")>>,
    <<G("find-latest", "false"), G("artifact.version", "2")>>,
    <<G("artifact.artifact-id", "")>>, <<V("auto-register", "true"), G("artifact.version", "2")>>,
    <<G("use.schema.id", "3")>>>>
SchemaSources ==
  <<[Producer("registry", "registry") EXCEPT !.avro = <<>>],
    [Producer("string", "registry") EXCEPT !.avro = <<G("value", "avro")>>],
    [Producer("registry", "registry") EXCEPT !.avro = <<G("key", "avro"), G("value", "imports")>>],
    [Producer("string", "registry") EXCEPT !.json = <<G("value", "cycle")>>],
    [Producer("string", "registry") EXCEPT !.json = <<G("value", "json")>>,
                                           !.avro = <<G("value", "avro")>>],
    [Producer("string", "registry") EXCEPT
       !.protobuf = <<G("descriptor", "descriptors"), G("value", Message)>>],
    [Producer("registry", "string") EXCEPT
       !.protobuf = <<G("source", "proto"), G("key", Message)>>],
    Producer("string", "string")>>
SelectionLines ==
  LET Confluent(source, choice) == [source EXCEPT !.registry = <<G("url", "http")>> \o choice]
      OfApicurio(source, choice) == [source EXCEPT !.registry = Apicurio(choice)]
  IN  Cross(Confluent, SchemaSources, ConfluentChoices)
      \o Cross(OfApicurio, SchemaSources, ApicurioChoices)

ProducerLines ==
  LET Sends(formats, items) == [Producer(formats[1], formats[2]) EXCEPT !.avro = items]
      Validates(formats, items) == [Producer(formats[1], formats[2]) EXCEPT !.json = items]
      Encodes(formats, items) == [Producer(formats[1], formats[2]) EXCEPT !.protobuf = items]
  IN  Cross(Sends, Formats, AvroItems) \o Cross(Validates, Formats, JsonItems)
      \o Cross(Encodes, <<<<"bytes", "protobuf">>, <<"protobuf", "bytes">>>>, ProtobufItems)
      \o <<[Producer("string", "json") EXCEPT !.source = "invalid"],
           [Producer("string", "json") EXCEPT !.source = "valid",
                                              !.overrides = Global("acks") :> "all"]>>

-----------------------------------------------------------------------------
\* Connections, in every mode.
Sections(sections) == [kind |-> "sections", sections |-> sections]
Kafka(brokers) == Bootstrap :> brokers
Connected ==
  LET Reaches(file, kafka, brokers) ==
        [Base EXCEPT !.file = file, !.kafka = kafka, !.brokers = brokers]
      Aws(file, aws, signs) == [Base EXCEPT !.file = file, !.aws = aws, !.signs = signs]
  IN  <<Reaches(Absent, <<>>, <<>>), Reaches(Absent, <<<<Bootstrap, <<"b1">>>>>>, <<>>),
        Reaches(Absent, <<<<Bootstrap, <<>>>>>>, <<>>),
        Reaches(Absent, <<>>, <<<<"b1">>, <<"b1">>>>), Reaches(Absent, <<>>, <<<<"b1", "">>>>),
        Reaches([kind |-> "invalid"], <<>>, <<<<"b1">>>>),
        Reaches(Sections([kafka |-> Kafka(<<"b1">>)]), <<>>, <<>>),
        Reaches(Sections([kafka |-> Kafka(<<"b1">>)]), <<<<Bootstrap, <<"b2">>>>>>, <<<<"b3">>>>),
        Reaches(Sections([kafka |-> Kafka(<<"b1">>), extra |-> NoProperties]), <<>>, <<>>),
        Reaches(Sections([registry |-> Global("url") :> "http"]), <<>>, <<<<"b1">>>>),
        Aws(Absent, <<<<AwsRegion, "eu">>>>, TRUE), Aws(Absent, <<<<AwsRegion, "eu">>>>, FALSE),
        Aws(Absent, <<<<AwsRegion, "">>>>, TRUE), Aws(Absent, <<G("profile", "p")>>, TRUE),
        Aws(Absent, <<<<"region">>>>, TRUE),
        Aws(Sections([aws |-> AwsRegion :> "us"]), <<>>, TRUE)>>

\* Settings and deadlines, in every mode.
Mapping(values) == [kind |-> "mapping", values |-> values]
Number(n) == [kind |-> "number", seconds |-> n, ms |-> n]
SettingsFiles ==
  LET Mode(mode, values) == [kind |-> "mapping", sections |-> (mode :> Mapping(values))]
      Times(mode, names) == Mode(mode, "timeouts" :> Mapping(names))
  IN  <<Absent, [kind |-> "no_text"], [kind |-> "bad_value"], [kind |-> "unreadable"],
        Times("producer", "flush" :> [kind |-> "too_large"]),
        Times("producer", "other" :> [kind |-> "too_large"]),
        [kind |-> "mapping", sections |-> [admin |-> [kind |-> "list"]]],
        Times("admin", "read" :> Number(0)), Times("admin", "write" :> Number(9)),
        Times("consumer", ("poll" :> Number(-1)) @@ ("idle" :> Number(9)) @@ ("other" :> Number(9))),
        Times("producer", "flush" :> [kind |-> "text"]),
        Mode("producer", "timeouts" :> [kind |-> "text"]),
        Mode("admin", ("refresh-interval" :> Number(3)) @@
                      ("read-only" :> [kind |-> "flag", set |-> TRUE])),
        Mode("admin", ("refresh-interval" :> Number(10)) @@ ("read-only" :> [kind |-> "text"])),
        Mode("admin", "refresh-interval" :> [kind |-> "text"])>>
TimeoutItems ==
  <<<<>>, <<<<<<"admin", "read">>, Number(9)>>>>, <<<<<<"consumer", "poll">>, Number(0)>>>>,
    <<<<<<"producer", "flush">>, Number(9)>>>>, <<<<<<"consumer", "poll">>, [kind |-> "text"]>>>>,
    <<<<<<"admin", "poll">>, Number(9)>>>>>>
Settled ==
  LET Line(settings, timeouts) == [Base EXCEPT !.settings = settings, !.timeouts = timeouts]
  IN  Cross(Line, SettingsFiles, TimeoutItems)

Further ==
  <<[Base EXCEPT !.interval = 3], [Base EXCEPT !.interval = 0, !.read_only = TRUE],
    [Base EXCEPT !.partitions = <<<<0, "earliest">>, <<1, 5>>>>],
    [Base EXCEPT !.partitions = <<<<0, "earliest">>, <<0, 5>>>>],
    [Base EXCEPT !.overrides = Global("auto.offset.reset") :> "earliest",
                 !.kafka = <<G("auto.offset.reset", "latest")>>]>>

InEveryMode(lines) ==
  LET Line(mode, l) == [l EXCEPT !.mode = mode]
  IN  Cross(Line, <<"admin", "consumer", "producer">>, lines)

MCLines ==
  AvroLines \o JsonLines \o ProtobufLines \o BytesLines \o RegistryLines \o SelectionLines
  \o ProducerLines \o InEveryMode(Connected \o Settled \o Further)
-----------------------------------------------------------------------------
\* The copies stand for themselves: they are made before a start, of one line.
LinesInit == Init /\ CopyInit
LinesNext ==
  \/ copy = NoCopy /\ Next /\ UNCHANGED copy
  \/ phase = "given" /\ line = Lines[1] /\ CopyNext /\ UNCHANGED vars
LinesSpec == LinesInit /\ [][LinesNext]_<<vars, copy>>
=============================================================================

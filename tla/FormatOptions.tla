---------------------------- MODULE FormatOptions ----------------------------
(***************************************************************************)
(* The formats of a record's key and value and the properties of --bytes,  *)
(* --fallback, --json, --avro, --protobuf and --registry: what the         *)
(* consumer and the producer accept before the application opens, and the  *)
(* normalized copies they work with.                                       *)
(*                                                                         *)
(* `formats` gives each field's format.  `files` gives what each path      *)
(* names: nothing, a folder, or a file that is of a kind and has schemas.  *)
(* A path written with "~" names a file only for a reader that expands it. *)
(***************************************************************************)
EXTENDS RegistryOptions

FRAMING == "framing"
ENCODING == "encoding"
FRAMINGS == {"raw"} \cup REGISTRY_PROVIDERS
BYTES_ENCODINGS == {"base64", "hex", "byte-array", "escaped"}
SchemaFiles == {Global("key"), Global("value")}
FileOf(field) == Global(field)
ProtobufSchemas == {Global("descriptor"), Global("source")}

\* What a path names, if anything.  Nothing is found behind a "~" that is not
\* expanded.
Nothing == [is |-> "nothing", schemas |-> {}]
HomePaths == {"~/avro"}
At(files, path, expands) ==
  IF path \in DOMAIN files /\ (expands \/ path \notin HomePaths) THEN files[path] ELSE Nothing
IsFile(files, path) == At(files, path, TRUE).is \notin {"nothing", "folder"}

\* Loading succeeds where the file is of the kind and its content is sound.
Loads(files, path, kind) == At(files, path, TRUE).is = kind

Uses(formats, format) == \E field \in Fields : formats[field] = format

\* Properties of a field apply only when that field has the format.
FieldScopeValid(config, name, format, formats) ==
  \A field \in Fields : Scoped(field, name) \in DOMAIN config => formats[field] = format
SchemaScopeValid(config, format, formats) ==
  \A field \in Fields : FileOf(field) \in DOMAIN config => formats[field] = format

\* A defect, of FieldsProvided: one field is enough.
AnyFieldProvided(config, format, formats) ==
  \E field \in Fields : formats[field] = format /\ FileOf(field) \in DOMAIN config

\* Every field that has the format has its file, or its message.
FieldsProvided(config, format, formats) ==
  \A field \in Fields : formats[field] = format => FileOf(field) \in DOMAIN config

FilesLoad(config, kind, files) ==
  \A field \in Fields :
    FileOf(field) \in DOMAIN config => Loads(files, config[FileOf(field)], kind)

RequireConfigured(c, formats) ==
  /\ Uses(formats, "avro") => c.avro # NoProperties
  /\ Uses(formats, "registry") => c.registry # NoProperties
  /\ Uses(formats, "protobuf") => c.protobuf # NoProperties

RegistryValid(config, formats, files) ==
  config # NoProperties =>
    /\ Uses(formats, "registry")
    /\ ProviderOf(config) \in REGISTRY_PROVIDERS
    /\ IF ProviderOf(config) = "apicurio" THEN ApicurioConfigValid(config, files)
       ELSE DOMAIN config \cap ApicurioPrefixed = {}

NormalizedRegistry(config) == NormalizedChoices(config, {Provider})

BytesValid(config, formats) ==
  config # NoProperties =>
    /\ DOMAIN config \subseteq Scopes(ENCODING)
    /\ ChoicesValid(config, Scopes(ENCODING), BYTES_ENCODINGS)
    /\ Uses(formats, "bytes")
    /\ FieldScopeValid(config, ENCODING, "bytes", formats)

FallbackValid(config) ==
  /\ DOMAIN config \subseteq {Global(ENCODING)}
  /\ ChoicesValid(config, {Global(ENCODING)}, BYTES_ENCODINGS)

JsonValid(config, formats, allowed, files) ==
  config # NoProperties =>
    /\ DOMAIN config \subseteq allowed
    /\ ChoicesValid(config, Scopes(FRAMING), FRAMINGS)
    /\ Uses(formats, "json")
    /\ FieldScopeValid(config, FRAMING, "json", formats)
    /\ SchemaScopeValid(config, "json", formats)
    /\ FilesLoad(config, "json", files)

\* The consumer only looks whether the file is there; the schema is not read.
AvroValid(config, formats, files) ==
  config # NoProperties =>
    /\ DOMAIN config \subseteq SchemaFiles \cup Scopes(FRAMING)
    /\ ChoicesValid(config, Scopes(FRAMING), FRAMINGS)
    /\ Uses(formats, "avro")
    /\ FieldsProvided(config, "avro", formats)
    /\ \A p \in SchemaFiles \cap DOMAIN config : IsFile(files, config[p])
    /\ FieldScopeValid(config, FRAMING, "avro", formats)

\* Exactly one of descriptor= and source=, and folders only for a source.
RequireProtobufSchema(config, files) ==
  \E p \in ProtobufSchemas :
    /\ ProtobufSchemas \cap DOMAIN config = {p}
    /\ IsFile(files, config[p])
    /\ Include \in DOMAIN config =>
         /\ p = Global("source")
         /\ \A folder \in Range(config[Include]) : At(files, folder, TRUE).is = "folder"

MessageClasses(config, files) ==
  LET source == Global("source") \in DOMAIN config
      path == config[IF source THEN Global("source") ELSE Global("descriptor")]
  IN  IF Loads(files, path, IF source THEN "proto" ELSE "descriptors")
      THEN files[path].schemas ELSE {}

\* Each field's message is found now, whether or not the field is Protobuf.
ProtobufMessagesFound(config, files) ==
  \A p \in SchemaFiles \cap DOMAIN config : config[p] \in MessageClasses(config, files)

ProtobufValid(config, formats, files) ==
  config # NoProperties =>
    /\ DOMAIN config \subseteq ProtobufSchemas \cup {Include} \cup SchemaFiles \cup Scopes(FRAMING)
    /\ ChoicesValid(config, Scopes(FRAMING), FRAMINGS)
    /\ Uses(formats, "protobuf")
    /\ RequireProtobufSchema(config, files)
    /\ FieldsProvided(config, "protobuf", formats)
    /\ ProtobufMessagesFound(config, files)
    /\ FieldScopeValid(config, FRAMING, "protobuf", formats)

DeserializerOptionsValid(c, formats, files) ==
  /\ RequireConfigured(c, formats)
  /\ RegistryValid(c.registry, formats, files)
  /\ BytesValid(c.bytes, formats)
  /\ FallbackValid(c.fallback)
  /\ JsonValid(c.json, formats, SchemaFiles \cup Scopes(FRAMING), files)
  /\ AvroValid(c.avro, formats, files)
  /\ ProtobufValid(c.protobuf, formats, files)

DeserializerOptions(c) ==
  [registry |-> NormalizedRegistry(c.registry),
   bytes    |-> NormalizedChoices(c.bytes, Scopes(ENCODING)),
   fallback |-> NormalizedChoices(c.fallback, {Global(ENCODING)}),
   json     |-> NormalizedChoices(c.json, Scopes(FRAMING)),
   avro     |-> NormalizedChoices(c.avro, Scopes(FRAMING)),
   protobuf |-> NormalizedChoices(c.protobuf, Scopes(FRAMING))]

-----------------------------------------------------------------------------
\* The producer.  A Registry field may register its schema, and then takes one
\* schema file as if it had that file's format.

ProducerSelection(c) == SelectionConfig(c.registry)

ProducerRegistryValid(c, formats, files) ==
  LET selection == ProducerSelection(c)
      provider == ProviderOf(ClientConfig(c.registry))
  IN  /\ RegistryValid(ClientConfig(c.registry), formats, files)
      /\ selection # NoProperties =>
           /\ Uses(formats, "registry")
           /\ \A field \in Fields :
                IF formats[field] = "registry"
                THEN SchemaSelectionValid(selection, provider, field)
                ELSE \A p \in DOMAIN selection : p[1] # field

Registering(c, formats) ==
  {field \in Fields :
     /\ formats[field] = "registry"
     /\ AutoRegister(ProducerSelection(c), ProviderOf(ClientConfig(c.registry)), field)}

\* The formats whose options give a schema file for the field.
FileFormats == {"avro", "json", "protobuf"}
Found(c, field) == {format \in FileFormats : FileOf(field) \in DOMAIN c[format]}

SchemaFilesValid(c, formats) ==
  \A field \in Fields :
    IF field \in Registering(c, formats) THEN \E format \in FileFormats : Found(c, field) = {format}
    ELSE formats[field] = "registry" => Found(c, field) = {}

SchemaFileFormats(c, formats) ==
  [field \in Fields |-> IF field \in Registering(c, formats)
                        THEN CHOOSE format \in FileFormats : format \in Found(c, field)
                        ELSE formats[field]]

ProducerAvroValid(config, formats, files) ==
  config # NoProperties =>
    /\ DOMAIN config \subseteq SchemaFiles
    /\ Uses(formats, "avro")
    /\ FieldsProvided(config, "avro", formats)
    /\ SchemaScopeValid(config, "avro", formats)
    /\ FilesLoad(config, "avro", files)

ProducerProtobufValid(config, formats, files) ==
  config # NoProperties =>
    /\ DOMAIN config \subseteq ProtobufSchemas \cup {Include} \cup SchemaFiles
    /\ Uses(formats, "protobuf")
    /\ RequireProtobufSchema(config, files)
    /\ FieldsProvided(config, "protobuf", formats)
    /\ SchemaScopeValid(config, "protobuf", formats)
    /\ ProtobufMessagesFound(config, files)

\* Apicurio stores the .proto text, which a descriptor set does not have.
RequireProtobufSource(c, formats) ==
  ProviderOf(ClientConfig(c.registry)) = "apicurio" =>
    ~ /\ Global("descriptor") \in DOMAIN c.protobuf
      /\ \E field \in Registering(c, formats) : FileOf(field) \in DOMAIN c.protobuf

SerializerOptionsValid(c, formats, files) ==
  LET fileFormats == SchemaFileFormats(c, formats)
  IN  /\ RequireConfigured(c, formats)
      /\ ProducerRegistryValid(c, formats, files)
      /\ SchemaFilesValid(c, formats)
      /\ JsonValid(c.json, fileFormats, SchemaFiles, files)
      /\ ProducerAvroValid(c.avro, fileFormats, files)
      /\ ProducerProtobufValid(c.protobuf, fileFormats, files)
      /\ RequireProtobufSource(c, formats)
      /\ BytesValid(c.bytes, formats)

SerializerOptions(c) ==
  [registry |-> Over(NormalizedRegistry(ClientConfig(c.registry)), SelectionConfig(c.registry)),
   bytes    |-> NormalizedChoices(c.bytes, Scopes(ENCODING)),
   json     |-> c.json,
   avro     |-> c.avro,
   protobuf |-> c.protobuf]
=============================================================================

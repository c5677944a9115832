--------------------------- MODULE Decoding_proofs ---------------------------
(***************************************************************************)
(* What holds of every start and of every record that is read, whatever    *)
(* the command lines, the files and the registry are: the metadata that    *)
(* are told are sure, the program ends for the reasons named and no other,  *)
(* settings that end no start decide on none, accepted options are enough, *)
(* no failure is remembered, and what was written as the options say is     *)
(* decoded.                                                                *)
(* The last rests on what SchemaCollection does with any schemas whose     *)
(* references have no cycle.                                               *)
(* What is copied is produced as it was, where its schema tells it apart.  *)
(***************************************************************************)
EXTENDS Decoding, Copies, Operators_proofs

-----------------------------------------------------------------------------
\* Configurations.

LEMMA OverIs ==
  ASSUME NEW f, NEW g
  PROVE  /\ DOMAIN Over(f, g) = DOMAIN f \cup DOMAIN g
         /\ Over(f, g) = [x \in DOMAIN Over(f, g) |-> Over(f, g)[x]]
         /\ \A x \in DOMAIN f : Over(f, g)[x] = f[x]
         /\ \A x \in DOMAIN g \ DOMAIN f : Over(f, g)[x] = g[x]
BY DEF Over

LEMMA WithIs ==
  ASSUME NEW f, NEW x, NEW y
  PROVE  /\ DOMAIN With(f, x, y) = DOMAIN f \cup {x}
         /\ With(f, x, y) = [z \in DOMAIN With(f, x, y) |-> With(f, x, y)[z]]
         /\ With(f, x, y)[x] = y
         /\ \A z \in DOMAIN f \ {x} : With(f, x, y)[z] = f[z]
BY DEF With

LEMMA Emptiness ==
  ASSUME NEW f, f = [x \in DOMAIN f |-> f[x]]
  PROVE  f = NoProperties <=> DOMAIN f = {}
BY DEF NoProperties

-----------------------------------------------------------------------------
\* What is kept of the registry.

IsCache(c) ==
  c = [client |-> c.client, schemas |-> c.schemas, parsed |-> c.parsed, metadata |-> c.metadata]

\* A record's schema is told where it is sure.
IsSure(id, field, schema) ==
  schema # NoSchema =>
    /\ schema \in Registrations[id]
    /\ \/ Registrations[id] = {schema}
       \/ Conventional(field, Registrations[id]) = {schema}

\* Only of schemas of the registry is anything kept, and only what is sure.
CacheOK(c) ==
  /\ IsCache(c)
  /\ DOMAIN c.client \subseteq DOMAIN SchemaIds
  /\ DOMAIN c.schemas \subseteq DOMAIN SchemaIds
  /\ \A id, field : <<id, field>> \in DOMAIN c.metadata => IsSure(id, field, c.metadata[<<id, field>>])

LEMMA CacheChanges ==
  ASSUME NEW c, IsCache(c), NEW x
  PROVE  /\ [c EXCEPT !.client = x] =
              [client |-> x, schemas |-> c.schemas, parsed |-> c.parsed, metadata |-> c.metadata]
         /\ [c EXCEPT !.schemas = x] =
              [client |-> c.client, schemas |-> x, parsed |-> c.parsed, metadata |-> c.metadata]
         /\ [c EXCEPT !.parsed = x] =
              [client |-> c.client, schemas |-> c.schemas, parsed |-> x, metadata |-> c.metadata]
         /\ [c EXCEPT !.metadata = x] =
              [client |-> c.client, schemas |-> c.schemas, parsed |-> c.parsed, metadata |-> x]
BY DEF IsCache

LEMMA CacheChangesTwice ==
  ASSUME NEW c, IsCache(c), NEW x, NEW y
  PROVE  [c EXCEPT !.client = x, !.schemas = y] =
           [client |-> x, schemas |-> y, parsed |-> c.parsed, metadata |-> c.metadata]
<1>1. [c EXCEPT !.client = x, !.schemas = y] = [[c EXCEPT !.client = x] EXCEPT !.schemas = y]
  OBVIOUS
<1>. DEFINE d == [c EXCEPT !.client = x]
<1>2. d = [client |-> x, schemas |-> c.schemas, parsed |-> c.parsed, metadata |-> c.metadata]
  BY CacheChanges
<1>3. IsCache(d) /\ d.client = x /\ d.parsed = c.parsed /\ d.metadata = c.metadata
  BY <1>2 DEF IsCache
<1>. HIDE DEF d
<1>4. [d EXCEPT !.schemas = y] =
        [client |-> d.client, schemas |-> y, parsed |-> d.parsed, metadata |-> d.metadata]
  BY <1>3, CacheChanges
<1>. QED
  BY <1>1, <1>3, <1>4 DEF d

LEMMA ResultsAre ==
  ASSUME NEW reader, NEW payload, NEW why
  PROVE  /\ Read(reader, payload).kind = "content" /\ Read(reader, payload).schema = NoSchema
         /\ Read(reader, payload).reader = reader /\ Read(reader, payload).payload = payload
         /\ Raised(why).kind = why /\ Raised(why).schema = NoSchema
BY DEF Read, Raised

\* What is registered once, or once as the topic's own, is sure.
LEMMA SoleIs ==
  ASSUME NEW S, IsFiniteSet(S), Sole(S) # NoSchema
  PROVE  S = {Sole(S)}
<1>1. Cardinality(S) = 1 /\ Sole(S) = CHOOSE r \in S : TRUE
  BY DEF Sole
<1>2. PICK r : S = {r}
  BY <1>1, FS_Singleton
<1>. QED
  BY <1>1, <1>2

LEMMA SelectionIsSure ==
  ASSUME NEW id \in DOMAIN Registrations, NEW field
  PROVE  /\ IsSure(id, field, ConfluentSelection(Registrations[id], field))
         /\ IsSure(id, field, ApicurioSelection(Registrations[id], field))
         /\ IsSure(id, field, NoSchema)
<1>. DEFINE R == Registrations[id]
            C == Conventional(field, R)
<1>1. IsFiniteSet(R)
  BY RegistryAssumption
<1>2. C \subseteq R
  BY DEF Conventional
<1>3. IsFiniteSet(C)
  BY <1>1, <1>2, FS_Subset
<1>4. Sole(R) # NoSchema => R = {Sole(R)}
  BY <1>1, SoleIs
<1>5. Sole(C) # NoSchema => C = {Sole(C)}
  BY <1>3, SoleIs
<1>6. IsSure(id, field, Sole(R)) /\ IsSure(id, field, Sole(C)) /\ IsSure(id, field, NoSchema)
  BY <1>2, <1>4, <1>5 DEF IsSure
<1>. QED
  BY <1>6 DEF ConfluentSelection, ApicurioSelection

LEMMA CachesAreOK ==
  ASSUME NEW c, CacheOK(c), NEW client, DOMAIN client \subseteq DOMAIN SchemaIds,
         NEW schemas, DOMAIN schemas \subseteq DOMAIN SchemaIds, NEW parsed
  PROVE  CacheOK([client |-> client, schemas |-> schemas, parsed |-> parsed, metadata |-> c.metadata])
<1>. DEFINE d == [client |-> client, schemas |-> schemas, parsed |-> parsed, metadata |-> c.metadata]
<1>1. IsCache(d) /\ d.client = client /\ d.schemas = schemas /\ d.metadata = c.metadata
  BY DEF IsCache
<1>. QED
  BY <1>1 DEF CacheOK

LEMMA CollectedIs ==
  ASSUME NEW c, CacheOK(c), NEW id, NEW failing
  PROVE  CacheOK(Collected(c, id, failing).cache)
<1>. DEFINE x == c.parsed \cup {id}
            d == [c EXCEPT !.parsed = @ \cup {id}]
<1>1. IsCache(c)
  BY DEF CacheOK
<1>2. d = [c EXCEPT !.parsed = x]
  BY <1>1 DEF IsCache
<1>3. CacheOK(d)
  <2>. HIDE DEF x
  <2>1. d = [client |-> c.client, schemas |-> c.schemas, parsed |-> x, metadata |-> c.metadata]
    BY <1>1, <1>2, CacheChanges
  <2>2. CacheOK([client |-> c.client, schemas |-> c.schemas, parsed |-> x, metadata |-> c.metadata])
    BY CachesAreOK DEF CacheOK
  <2>. QED
    BY <2>1, <2>2
<1>4. Collected(c, id, failing).cache \in {c, d}
  BY DEF Collected, Fetched
<1>. QED
  BY <1>3, <1>4

LEMMA AskedIs ==
  ASSUME NEW client, DOMAIN client \subseteq DOMAIN SchemaIds, NEW id,
         id \in DOMAIN client \/ id \in DOMAIN SchemaIds, NEW kept
  PROVE  /\ DOMAIN Asked(client, id) \subseteq DOMAIN SchemaIds
         /\ DOMAIN With(client, id, kept) \subseteq DOMAIN SchemaIds
BY DEF Asked, With

LEMMA LibrarySchemaIs ==
  ASSUME NEW c, CacheOK(c), NEW id \in DOMAIN SchemaIds, NEW failing
  PROVE  CacheOK(LibrarySchema(c, id, failing).cache)
<1>. DEFINE x == With(c.client, id, "text")
            d == [c EXCEPT !.client = With(@, id, "text")]
<1>1. IsCache(c) /\ DOMAIN x \subseteq DOMAIN SchemaIds
  BY AskedIs DEF CacheOK
<1>2. d = [c EXCEPT !.client = x]
  BY <1>1 DEF IsCache
<1>3. CacheOK(d)
  <2>. HIDE DEF x
  <2>1. d = [client |-> x, schemas |-> c.schemas, parsed |-> c.parsed, metadata |-> c.metadata]
    BY <1>1, <1>2, CacheChanges
  <2>2. CacheOK([client |-> x, schemas |-> c.schemas, parsed |-> c.parsed, metadata |-> c.metadata])
    BY <1>1, CachesAreOK DEF CacheOK
  <2>. QED
    BY <2>1, <2>2
<1>4. CacheOK(Collected(c, id, failing).cache) /\ CacheOK(Collected(d, id, failing).cache)
  BY <1>3, CollectedIs
<1>5. LibrarySchema(c, id, failing).cache
        \in {c, Collected(c, id, failing).cache, Collected(d, id, failing).cache}
  BY DEF LibrarySchema, Fetched
<1>. QED
  BY <1>4, <1>5

LEMMA ConfluentSchemaIs ==
  ASSUME NEW c, CacheOK(c), NEW id, NEW failing
  PROVE  LET fetched == ConfluentSchema(c, id, failing)
         IN  CacheOK(fetched.cache) /\ (fetched.ok => id \in DOMAIN SchemaIds)
<1>. DEFINE client == Asked(c.client, id)
            text == [c EXCEPT !.client = client, !.schemas = With(@, id, client[id])]
            emptied == [c EXCEPT !.client = <<>>]
            serialized == [c EXCEPT !.client = With(<<>>, id, "serialized"),
                                    !.schemas = With(@, id, "serialized")]
            asked == id \in DOMAIN c.client \/ id \in DOMAIN SchemaIds
<1>1. IsCache(c) /\ DOMAIN c.client \subseteq DOMAIN SchemaIds /\ DOMAIN c.schemas \subseteq DOMAIN SchemaIds
  BY DEF CacheOK
<1>2. ASSUME asked, NEW x, NEW y, DOMAIN x \subseteq DOMAIN SchemaIds
      PROVE  /\ CacheOK([c EXCEPT !.client = x, !.schemas = With(@, id, y)])
             /\ CacheOK([c EXCEPT !.client = x])
  <2>. DEFINE z == With(c.schemas, id, y)
  <2>1. DOMAIN z \subseteq DOMAIN SchemaIds
    BY <1>1, <1>2 DEF With
  <2>2. [c EXCEPT !.client = x, !.schemas = With(@, id, y)] = [c EXCEPT !.client = x, !.schemas = z]
    BY <1>1 DEF IsCache
  <2>. HIDE DEF z
  <2>3. [c EXCEPT !.client = x, !.schemas = z] =
          [client |-> x, schemas |-> z, parsed |-> c.parsed, metadata |-> c.metadata]
    BY <1>1, CacheChangesTwice
  <2>4. [c EXCEPT !.client = x] =
          [client |-> x, schemas |-> c.schemas, parsed |-> c.parsed, metadata |-> c.metadata]
    BY <1>1, CacheChanges
  <2>5. /\ CacheOK([client |-> x, schemas |-> z, parsed |-> c.parsed, metadata |-> c.metadata])
        /\ CacheOK([client |-> x, schemas |-> c.schemas, parsed |-> c.parsed, metadata |-> c.metadata])
    BY <1>1, <1>2, <2>1, CachesAreOK
  <2>. QED
    BY <2>2, <2>3, <2>4, <2>5
<1>3. asked => /\ DOMAIN client \subseteq DOMAIN SchemaIds
               /\ DOMAIN <<>> \subseteq DOMAIN SchemaIds
               /\ DOMAIN With(<<>>, id, "serialized") \subseteq DOMAIN SchemaIds
               /\ id \in DOMAIN SchemaIds
  BY <1>1, AskedIs, WithIs
<1>4. asked => CacheOK(text) /\ CacheOK(emptied) /\ CacheOK(serialized) /\ id \in DOMAIN SchemaIds
  <2>1. asked => CacheOK(text)
    BY <1>2, <1>3
  <2>2. asked => CacheOK(emptied)
    BY <1>2, <1>3
  <2>3. asked => CacheOK(serialized)
    BY <1>2, <1>3
  <2>. QED
    BY <1>3, <2>1, <2>2, <2>3
<1>. HIDE DEF text, emptied, serialized, client
<1>5. \/ /\ id \in DOMAIN c.schemas
         /\ ConfluentSchema(c, id, failing) = Fetched(TRUE, c)
      \/ ConfluentSchema(c, id, failing) = Fetched(FALSE, c)
      \/ /\ asked
         /\ ConfluentSchema(c, id, failing)
              \in {Fetched(TRUE, text), Fetched(FALSE, emptied), Fetched(TRUE, serialized)}
  BY DEF ConfluentSchema, text, emptied, serialized, client
<1>. QED
  BY <1>1, <1>4, <1>5 DEF Fetched

LEMMA ApicurioArtifactIs ==
  ASSUME NEW c, CacheOK(c), NEW id, NEW failing
  PROVE  LET fetched == ApicurioArtifact(c, id, failing)
         IN  CacheOK(fetched.cache) /\ (fetched.ok => id \in DOMAIN SchemaIds)
<1>. DEFINE x == With(c.schemas, id, "text")
            d == [c EXCEPT !.schemas = With(@, id, "text")]
<1>1. IsCache(c) /\ DOMAIN c.client \subseteq DOMAIN SchemaIds /\ DOMAIN c.schemas \subseteq DOMAIN SchemaIds
  BY DEF CacheOK
<1>2. d = [c EXCEPT !.schemas = x]
  BY <1>1 DEF IsCache
<1>3. id \in DOMAIN SchemaIds => CacheOK(d)
  <2>1. id \in DOMAIN SchemaIds => DOMAIN x \subseteq DOMAIN SchemaIds
    BY <1>1 DEF With
  <2>. HIDE DEF x
  <2>2. d = [client |-> c.client, schemas |-> x, parsed |-> c.parsed, metadata |-> c.metadata]
    BY <1>1, <1>2, CacheChanges
  <2>3. id \in DOMAIN SchemaIds =>
          CacheOK([client |-> c.client, schemas |-> x, parsed |-> c.parsed, metadata |-> c.metadata])
    BY <1>1, <2>1, CachesAreOK
  <2>. QED
    BY <2>2, <2>3
<1>. HIDE DEF d
<1>4. \/ id \in DOMAIN c.schemas /\ ApicurioArtifact(c, id, failing) = Fetched(TRUE, c)
      \/ ApicurioArtifact(c, id, failing) = Fetched(FALSE, c)
      \/ id \in DOMAIN SchemaIds /\ ApicurioArtifact(c, id, failing) = Fetched(TRUE, d)
  BY DEF ApicurioArtifact, d
<1>. QED
  BY <1>1, <1>3, <1>4 DEF Fetched

-----------------------------------------------------------------------------
\* What is read, before its metadata are known, by a reader of one kind.

\* A reader of this kind raised what is not handled.
Ended(r, kind) == r.reader.kind = kind /\ Raises(r.reader, r.payload) = "escape"

IsRead(r, kind) ==
  /\ r = [kind |-> r.kind, reader |-> r.reader, payload |-> r.payload, schema |-> r.schema]
  /\ r.kind \in {"content", "data", "escape"}
  /\ r.kind = "escape" => Ended(r, kind)
  /\ r.schema = NoSchema

LEMMA ReadsAre ==
  ASSUME NEW reader, NEW payload, NEW kind
  PROVE  /\ IsRead(Read(reader, payload), kind) /\ IsRead(Raised("data"), kind)
         /\ Read(reader, payload).kind = "content" /\ Raised("data").kind = "data"
BY DEF IsRead, Read, Raised

\* A library raises nothing, what is handled, or what is not.
LEMMA DecodedIs ==
  ASSUME NEW reader, NEW payload
  PROVE  /\ Raises(reader, payload) \in {"nothing", "data", "escape"}
         /\ Raises(reader, payload) = "nothing" => Decoded(reader, payload) = Read(reader, payload)
         /\ Decoded(reader, payload) =
              [kind |-> IF Raises(reader, payload) = "nothing" THEN "content"
                        ELSE Raises(reader, payload),
               reader |-> reader, payload |-> payload, schema |-> NoSchema]
<1>1. Raises(reader, payload) \in {"nothing", "data", "escape"}
  BY UndecodableAssumption DEF Raises
<1>. QED
  BY <1>1 DEF Decoded, Read

LEMMA DecodedIsRead ==
  ASSUME NEW reader, NEW payload
  PROVE  IsRead(Decoded(reader, payload), reader.kind)
<1>. DEFINE r == Decoded(reader, payload)
<1>1. /\ r.kind = IF Raises(reader, payload) = "nothing" THEN "content" ELSE Raises(reader, payload)
      /\ r.reader = reader /\ r.payload = payload /\ r.schema = NoSchema
      /\ r = [kind |-> r.kind, reader |-> r.reader, payload |-> r.payload, schema |-> r.schema]
      /\ Raises(reader, payload) \in {"nothing", "data", "escape"}
  BY DecodedIs
<1>. HIDE DEF r
<1>. QED
  BY <1>1 DEF IsRead, Ended, r

LEMMA JsonIsRead ==
  ASSUME NEW payload, NEW schemas
  PROVE  IsRead(JsonWith(payload, schemas), "json")
<1>1. IsRead(Decoded(JSON, payload), "json")
  BY DecodedIsRead DEF JSON, Reader
<1>. QED
  BY <1>1, ReadsAre DEF JsonWith

\* A result that was read, with the cache after it.
ReadOK(r, kind) == IsRead(r.result, kind) /\ CacheOK(r.cache)

LEMMA ReadIsOK ==
  ASSUME NEW kind, NEW r, IsRead(r, kind), NEW c, CacheOK(c)
  PROVE  ReadOK(Result(r, c), kind)
BY DEF ReadOK, Result

LEMMA ConfluentContentIsOK ==
  ASSUME NEW c, CacheOK(c), NEW id \in DOMAIN SchemaIds, NEW data, NEW failing
  PROVE  ReadOK(ConfluentContent(c, id, data, failing), SchemaOf(id).type)
<1>. DEFINE avro == Decoded(Reader("avro", SchemaOf(id).name), data.payload)
            json == JsonWith(data.payload, {SchemaOf(id).name})
            type == SchemaOf(id).type
<1>1. CacheOK(Collected(c, id, failing).cache) /\ CacheOK(LibrarySchema(c, id, failing).cache)
  BY CollectedIs, LibrarySchemaIs
<1>2. ReadOK(ConfluentProtobuf(c, id, data, failing), "protobuf")
  <2>1. ConfluentProtobuf(c, id, data, failing) = Result(Raised("data"), c) \/
        ConfluentProtobuf(c, id, data, failing) = Result(Raised("data"), Collected(c, id, failing).cache) \/
        \E name, payload : ConfluentProtobuf(c, id, data, failing) =
                             Result(Decoded(Reader("protobuf", name), payload),
                                    Collected(c, id, failing).cache)
    BY DEF ConfluentProtobuf
  <2>2. \A name, payload : IsRead(Decoded(Reader("protobuf", name), payload), "protobuf")
    BY DecodedIsRead DEF Reader
  <2>. QED
    BY <1>1, <2>1, <2>2, ReadsAre, ReadIsOK
<1>3. IsRead(avro, "avro") /\ IsRead(json, "json")
  BY DecodedIsRead, JsonIsRead DEF Reader
<1>4. type \in {"avro", "json", "protobuf"}
  BY RegistryAssumption DEF SchemaOf
<1>5. \/ /\ type = "protobuf"
         /\ ConfluentContent(c, id, data, failing) = ConfluentProtobuf(c, id, data, failing)
      \/ ConfluentContent(c, id, data, failing) =
           Result(Raised("data"), LibrarySchema(c, id, failing).cache)
      \/ /\ type = "json"
         /\ ConfluentContent(c, id, data, failing) = Result(json, LibrarySchema(c, id, failing).cache)
      \/ /\ type \notin {"json", "protobuf"}
         /\ ConfluentContent(c, id, data, failing) = Result(avro, LibrarySchema(c, id, failing).cache)
  BY DEF ConfluentContent
<1>. HIDE DEF avro, json, type
<1>6. ReadOK(ConfluentContent(c, id, data, failing), type)
  BY <1>1, <1>2, <1>3, <1>4, <1>5, ReadsAre, ReadIsOK
<1>. QED
  BY <1>6 DEF type

LEMMA ApicurioContentIsOK ==
  ASSUME NEW c, CacheOK(c), NEW id \in DOMAIN SchemaIds, NEW data, NEW failing
  PROVE  ReadOK(ApicurioContent(c, id, data, failing), SchemaOf(id).type)
<1>. DEFINE after == Collected(c, id, failing).cache
            json == ApicurioJson(data.payload, SchemaOf(id).name)
            avro == Decoded(Reader("avro", SchemaOf(id).name), data.payload)
            protobuf == ApicurioProtobuf(SchemaIds[id], data.payload)
            type == SchemaOf(id).type
            r == ApicurioContent(c, id, data, failing)
<1>1. CacheOK(after)
  BY CollectedIs
<1>2. IsRead(json, "json")
  BY JsonIsRead DEF ApicurioJson
<1>3. IsRead(avro, "avro")
  BY DecodedIsRead DEF Reader
<1>4. IsRead(protobuf, "protobuf")
  <2>1. \A name, payload : IsRead(Decoded(Reader("protobuf", name), payload), "protobuf")
    BY DecodedIsRead DEF Reader
  <2>. QED
    BY <2>1, ReadsAre DEF ApicurioProtobuf
<1>5. type \in {"avro", "json", "protobuf"}
  BY RegistryAssumption DEF SchemaOf
<1>6. r = Result(Raised("data"), c) \/
      r = Result(CASE type = "json" -> json [] type = "avro" -> avro [] type = "protobuf" -> protobuf,
                 after)
  BY DEF ApicurioContent
<1>. HIDE DEF json, avro, protobuf, type, after, r
<1>7. IsRead(CASE type = "json" -> json [] type = "avro" -> avro [] type = "protobuf" -> protobuf, type)
  <2>1. CASE type = "json"
    BY <1>2, <2>1
  <2>2. CASE type = "avro"
    BY <1>3, <2>2
  <2>3. CASE type = "protobuf"
    BY <1>4, <2>3
  <2>. QED
    BY <1>5, <2>1, <2>2, <2>3
<1>8. ReadOK(r, type)
  BY <1>1, <1>6, <1>7, ReadsAre, ReadIsOK
<1>. QED
  BY <1>8 DEF r, type

-----------------------------------------------------------------------------
\* What metadata add.

LEMMA MetadataChange ==
  ASSUME NEW c, CacheOK(c), NEW x,
         \A i, f : <<i, f>> \in DOMAIN x => IsSure(i, f, x[<<i, f>>])
  PROVE  CacheOK([c EXCEPT !.metadata = x])
<1>. DEFINE d == [client |-> c.client, schemas |-> c.schemas, parsed |-> c.parsed, metadata |-> x]
<1>1. [c EXCEPT !.metadata = x] = d
  BY CacheChanges DEF CacheOK
<1>2. IsCache(d) /\ d.client = c.client /\ d.schemas = c.schemas /\ d.metadata = x
  BY DEF IsCache
<1>. HIDE DEF d
<1>3. CacheOK(d)
  BY <1>2 DEF CacheOK
<1>. QED
  BY <1>1, <1>3

LEMMA MetadataAreOK ==
  ASSUME NEW c, CacheOK(c), NEW id \in DOMAIN SchemaIds, NEW field, NEW failing
  PROVE  /\ CacheOK(ConfluentMetadata(c, id, field, failing))
         /\ CacheOK(ApicurioMetadata(c, id, field, failing))
<1>1. id \in DOMAIN Registrations
  BY RegistryAssumption
<1>2. \A i, f : <<i, f>> \in DOMAIN c.metadata => IsSure(i, f, c.metadata[<<i, f>>])
  BY DEF CacheOK
<1>3. CacheOK(ConfluentMetadata(c, id, field, failing))
  <2>. DEFINE schema == IF failing = "metadata" THEN NoSchema
                        ELSE ConfluentSelection(Registrations[id], field)
              x == With(c.metadata, <<id, field>>, schema)
  <2>1. IsSure(id, field, schema)
    BY <1>1, SelectionIsSure
  <2>. HIDE DEF schema
  <2>2. \A i, f : <<i, f>> \in DOMAIN x => IsSure(i, f, x[<<i, f>>])
    <3>. SUFFICES ASSUME NEW i, NEW f, <<i, f>> \in DOMAIN x
                  PROVE  IsSure(i, f, x[<<i, f>>])
      OBVIOUS
    <3>1. CASE <<i, f>> = <<id, field>>
      <4>1. i = id /\ f = field /\ x[<<i, f>>] = schema
        BY <3>1 DEF With
      <4>. QED
        BY <2>1, <4>1
    <3>2. CASE <<i, f>> # <<id, field>>
      <4>1. <<i, f>> \in DOMAIN c.metadata /\ x[<<i, f>>] = c.metadata[<<i, f>>]
        BY <3>2 DEF With
      <4>. QED
        BY <1>2, <4>1
    <3>. QED
      BY <3>1, <3>2
  <2>3. ConfluentMetadata(c, id, field, failing) \in {c, [c EXCEPT !.metadata = x]}
    BY DEF ConfluentMetadata, schema
  <2>. HIDE DEF x
  <2>. QED
    BY <2>2, <2>3, MetadataChange
<1>4. CacheOK(ApicurioMetadata(c, id, field, failing))
  <2>. DEFINE found == [p \in {id} \X Fields |-> ApicurioSelection(Registrations[id], p[2])]
              x == Over(found, c.metadata)
  <2>1. \A i, f : <<i, f>> \in DOMAIN x => IsSure(i, f, x[<<i, f>>])
    <3>. SUFFICES ASSUME NEW i, NEW f, <<i, f>> \in DOMAIN x
                  PROVE  IsSure(i, f, x[<<i, f>>])
      OBVIOUS
    <3>1. CASE <<i, f>> \in {id} \X Fields
      <4>1. i = id /\ x[<<i, f>>] = ApicurioSelection(Registrations[id], f)
        BY <3>1 DEF Over
      <4>. QED
        BY <1>1, <4>1, SelectionIsSure
    <3>2. CASE <<i, f>> \notin {id} \X Fields
      <4>1. <<i, f>> \in DOMAIN c.metadata /\ x[<<i, f>>] = c.metadata[<<i, f>>]
        BY <3>2 DEF Over
      <4>. QED
        BY <1>2, <4>1
    <3>. QED
      BY <3>1, <3>2
  <2>2. ApicurioMetadata(c, id, field, failing) \in {c, [c EXCEPT !.metadata = x]}
    BY DEF ApicurioMetadata
  <2>. HIDE DEF x
  <2>. QED
    BY <2>1, <2>2, MetadataChange
<1>. QED
  BY <1>3, <1>4

\* What is too old is no longer kept.
LEMMA AgedIsOK ==
  ASSUME NEW c, CacheOK(c), NEW id, NEW d \in Aged(c, id)
  PROVE  CacheOK(d)
<1>. DEFINE schemas == Restrict(c.schemas, DOMAIN c.schemas \ {id})
            metadata == Restrict(c.metadata, DOMAIN c.metadata \ ({id} \X Fields))
<1>1. d = [c EXCEPT !.schemas = schemas] \/ d = [c EXCEPT !.metadata = metadata]
  BY DEF Aged
<1>2. DOMAIN schemas \subseteq DOMAIN c.schemas
  BY DEF Restrict
<1>3. \A i, f : <<i, f>> \in DOMAIN metadata => IsSure(i, f, metadata[<<i, f>>])
  BY DEF Restrict, CacheOK
<1>. HIDE DEF schemas, metadata
<1>4. CacheOK([c EXCEPT !.schemas = schemas])
  <2>. DEFINE e == [client |-> c.client, schemas |-> schemas, parsed |-> c.parsed,
                    metadata |-> c.metadata]
  <2>1. [c EXCEPT !.schemas = schemas] = e
    BY CacheChanges DEF CacheOK
  <2>2. IsCache(e) /\ e.client = c.client /\ e.schemas = schemas /\ e.metadata = c.metadata
    BY DEF IsCache
  <2>. HIDE DEF e
  <2>. QED
    BY <1>2, <2>1, <2>2 DEF CacheOK
<1>. QED
  BY <1>1, <1>3, <1>4, MetadataChange

\* What a registry's deserializer presents, and keeps.
RegistryReadOK(r, id, field) ==
  /\ CacheOK(r.cache)
  /\ r.result.kind \in {"content", "data", "escape"}
  /\ r.result.kind = "escape" => id \in DOMAIN SchemaIds /\ Ended(r.result, SchemaOf(id).type)
  /\ IsSure(id, field, r.result.schema)

LEMMA DescribedIsOK ==
  ASSUME NEW id \in DOMAIN SchemaIds, NEW r, IsRead(r, SchemaOf(id).type), NEW c, CacheOK(c),
         NEW field
  PROVE  RegistryReadOK(Described(r, c, id, field), id, field)
<1>. DEFINE schema == IF <<id, field>> \in DOMAIN c.metadata THEN c.metadata[<<id, field>>]
                      ELSE NoSchema
            d == [r EXCEPT !.schema = schema]
<1>1. IsSure(id, field, schema)
  BY RegistryAssumption, SelectionIsSure DEF CacheOK
<1>2. Described(r, c, id, field).result = d /\ Described(r, c, id, field).cache = c
  BY DEF Described, Result
<1>. HIDE DEF schema
<1>3. d.kind = r.kind /\ d.reader = r.reader /\ d.payload = r.payload /\ d.schema = schema
  BY DEF IsRead
<1>. HIDE DEF d
<1>. QED
  BY <1>1, <1>2, <1>3 DEF RegistryReadOK, IsRead, Ended

LEMMA ReadIsRegistryRead ==
  ASSUME NEW r, NEW id, NEW field,
         \/ id \in DOMAIN SchemaIds /\ ReadOK(r, SchemaOf(id).type)
         \/ ReadOK(r, "none") /\ r.result.kind # "escape"
  PROVE  RegistryReadOK(r, id, field)
BY DEF ReadOK, RegistryReadOK, IsRead, IsSure

LEMMA BackendIsOK ==
  ASSUME CacheOK(cache), NEW config, NEW field, NEW data, NEW failing
  PROVE  RegistryReadOK(Backend(config, field, data, failing), data.id, field)
<1>. DEFINE refused == Result(Raised("data"), cache)
<1>1. ASSUME NEW c, CacheOK(c)
      PROVE  RegistryReadOK(Result(Raised("data"), c), data.id, field)
  <2>1. /\ ReadOK(Result(Raised("data"), c), "none")
        /\ Result(Raised("data"), c).result.kind # "escape"
    BY <1>1, ReadsAre, ReadIsOK DEF Result
  <2>. QED
    BY <2>1, ReadIsRegistryRead
<1>2. RegistryReadOK(ConfluentRead(cache, field, data, failing), data.id, field)
  <2>. DEFINE fetched == ConfluentSchema(cache, data.id, failing)
              content == ConfluentContent(fetched.cache, data.id, data, failing)
              found == ConfluentMetadata(content.cache, data.id, field, failing)
  <2>1. CacheOK(fetched.cache) /\ (fetched.ok => data.id \in DOMAIN SchemaIds)
    BY ConfluentSchemaIs
  <2>2. fetched.ok => ReadOK(content, SchemaOf(data.id).type)
    BY <2>1, ConfluentContentIsOK
  <2>3. fetched.ok => CacheOK(found)
    <3>. HIDE DEF content, fetched
    <3>. QED
      BY <2>1, <2>2, MetadataAreOK DEF ReadOK, found
  <2>4. fetched.ok => RegistryReadOK(Described(content.result, found, data.id, field), data.id, field)
    <3>. HIDE DEF content, fetched, found
    <3>. QED
      BY <2>1, <2>2, <2>3, DescribedIsOK DEF ReadOK
  <2>5. \/ ConfluentRead(cache, field, data, failing) = Result(Raised("data"), cache)
        \/ ConfluentRead(cache, field, data, failing) = Result(Raised("data"), fetched.cache)
        \/ fetched.ok /\ ConfluentRead(cache, field, data, failing) = content
        \/ fetched.ok /\ ConfluentRead(cache, field, data, failing) =
                           Described(content.result, found, data.id, field)
    BY DEF ConfluentRead, Contents, WithMetadata
  <2>. HIDE DEF content, fetched, found
  <2>. QED
    BY <1>1, <2>1, <2>2, <2>4, <2>5, ReadIsRegistryRead
<1>3. RegistryReadOK(ApicurioRead(cache, field, data, failing), data.id, field)
  <2>. DEFINE fetched == ApicurioArtifact(cache, data.id, failing)
              content == ApicurioContent(fetched.cache, data.id, data, failing)
              found == ApicurioMetadata(content.cache, data.id, field, failing)
  <2>1. CacheOK(fetched.cache) /\ (fetched.ok => data.id \in DOMAIN SchemaIds)
    BY ApicurioArtifactIs
  <2>2. fetched.ok => ReadOK(content, SchemaOf(data.id).type)
    BY <2>1, ApicurioContentIsOK
  <2>3. fetched.ok => CacheOK(found)
    <3>. HIDE DEF content, fetched
    <3>. QED
      BY <2>1, <2>2, MetadataAreOK DEF ReadOK, found
  <2>4. fetched.ok => RegistryReadOK(Described(content.result, found, data.id, field), data.id, field)
    <3>. HIDE DEF content, fetched, found
    <3>. QED
      BY <2>1, <2>2, <2>3, DescribedIsOK DEF ReadOK
  <2>5. \/ ApicurioRead(cache, field, data, failing) = Result(Raised("data"), cache)
        \/ ApicurioRead(cache, field, data, failing) = Result(Raised("data"), fetched.cache)
        \/ fetched.ok /\ ApicurioRead(cache, field, data, failing) = content
        \/ fetched.ok /\ ApicurioRead(cache, field, data, failing) =
                           Described(content.result, found, data.id, field)
    BY DEF ApicurioRead, Contents, WithMetadata
  <2>. HIDE DEF content, fetched, found
  <2>. QED
    BY <1>1, <2>1, <2>2, <2>4, <2>5, ReadIsRegistryRead
<1>. QED
  BY <1>2, <1>3 DEF Backend

-----------------------------------------------------------------------------
\* What is presented of a field, of any format.

\* The options of a field's format are enough to read it.
FramingKnown(config, field) == ScopedProperty(config, FRAMING, field, "raw") \in FRAMINGS
ClassesFor(config) ==
  IF Global("source") \in DOMAIN config \/ classes # {} THEN classes ELSE MessageClasses(config, fs)
Suffices(c, field, format) ==
  /\ format = "json" => FramingKnown(c.json, field)
  /\ format = "avro" => FramingKnown(c.avro, field) /\ FileOf(field) \in DOMAIN c.avro
  /\ format = "protobuf" =>
       /\ FramingKnown(c.protobuf, field)
       /\ FileOf(field) \in DOMAIN c.protobuf
       /\ DOMAIN c.protobuf \cap ProtobufSchemas # {}
       /\ ClassesFor(c.protobuf) # {} => c.protobuf[FileOf(field)] \in ClassesFor(c.protobuf)

\* The file of a local Avro schema is not one.
Escapes(c, field, format) ==
  /\ format = "avro"
  /\ FileOf(field) \in DOMAIN c.avro
  /\ At(fs, c.avro[FileOf(field)], FALSE).is # "avro"

\* What is read without a registry, when the options do or do not suffice.
LocalOK(r, suffices, escapes, kind) ==
  /\ r.schema = NoSchema
  /\ r.kind \in {"content", "data", "options", "escape"}
  /\ r.kind = "options" => ~suffices
  /\ r.kind = "escape" => escapes \/ Ended(r, kind)

IsResult(r) ==
  r = [kind |-> r.kind, reader |-> r.reader, payload |-> r.payload, schema |-> r.schema]

LEMMA ReadIsLocal ==
  ASSUME NEW kind, NEW r, IsRead(r, kind), NEW suffices, NEW escapes
  PROVE  LocalOK(r, suffices, escapes, kind)
BY DEF IsRead, LocalOK

LEMMA RaisedIsLocal ==
  ASSUME NEW suffices, NEW escapes, NEW kind
  PROVE  /\ ~suffices => LocalOK(Raised("options"), suffices, escapes, kind)
         /\ escapes => LocalOK(Raised("escape"), suffices, escapes, kind)
BY DEF Raised, LocalOK

LEMMA PayloadIsLocal ==
  ASSUME NEW config, NEW field, NEW data, NEW kind
  PROVE  /\ LocalOK(Payload(config, field, data), FramingKnown(config, field), FALSE, kind)
         /\ Payload(config, field, data).kind # "escape"
         /\ IsResult(Payload(config, field, data))
<1>1. ScopedProperty(config, FRAMING, field, "raw") \in FRAMINGS
        <=> \/ ScopedProperty(config, FRAMING, field, "raw") = "raw"
            \/ ScopedProperty(config, FRAMING, field, "raw") \in REGISTRY_PROVIDERS
  BY DEF FRAMINGS
<1>2. \/ \E payload : Payload(config, field, data) = Read(NoReader, payload)
      \/ Payload(config, field, data) = Raised("data")
      \/ /\ Payload(config, field, data) = Raised("options")
         /\ ~FramingKnown(config, field)
  BY <1>1 DEF Payload, FramingKnown
<1>3. Raised("options").kind = "options" /\ IsResult(Raised("options"))
  BY DEF Raised, IsResult
<1>4. \A r : IsRead(r, kind) => IsResult(r)
  BY DEF IsRead, IsResult
<1>. QED
  BY <1>2, <1>3, <1>4, ReadsAre, ReadIsLocal, RaisedIsLocal

LEMMA JsonIsLocal ==
  ASSUME NEW c, NEW validators, NEW field, NEW data
  PROVE  LocalOK(JsonRead(c.json, validators, field, data),
                 Suffices(c, field, "json"), Escapes(c, field, "json"), "json")
<1>1. LocalOK(Payload(c.json, field, data), FramingKnown(c.json, field), FALSE, "json")
  BY PayloadIsLocal
<1>2. \/ JsonRead(c.json, validators, field, data) = Payload(c.json, field, data)
      \/ \E payload, schemas :
           JsonRead(c.json, validators, field, data) = JsonWith(payload, schemas)
  BY DEF JsonRead
<1>3. Suffices(c, field, "json") => FramingKnown(c.json, field)
  BY DEF Suffices
<1>. QED
  BY <1>1, <1>2, <1>3, JsonIsRead, ReadIsLocal DEF LocalOK

LEMMA AvroIsLocal ==
  ASSUME NEW c, NEW field, NEW data
  PROVE  LocalOK(AvroRead(c.avro, fs, loaded, field, data),
                 Suffices(c, field, "avro"), Escapes(c, field, "avro"), "avro")
<1>. DEFINE r == AvroRead(c.avro, fs, loaded, field, data)
<1>. SUFFICES LocalOK(r, Suffices(c, field, "avro"), Escapes(c, field, "avro"), "avro")
  OBVIOUS
<1>1. LocalOK(Payload(c.avro, field, data), FramingKnown(c.avro, field), FALSE, "avro")
  BY PayloadIsLocal
<1>2. \/ FileOf(field) \notin DOMAIN c.avro /\ r = Raised("options")
      \/ r = Payload(c.avro, field, data)
      \/ \E name, payload : r = Decoded(Reader("avro", name), payload)
      \/ /\ FileOf(field) \in DOMAIN c.avro /\ At(fs, c.avro[FileOf(field)], FALSE).is # "avro"
         /\ r = Raised("escape")
  BY DEF AvroRead
<1>. HIDE DEF r
<1>3. /\ FileOf(field) \notin DOMAIN c.avro => ~Suffices(c, field, "avro")
      /\ Suffices(c, field, "avro") => FramingKnown(c.avro, field)
  BY DEF Suffices
<1>4. CASE FileOf(field) \notin DOMAIN c.avro /\ r = Raised("options")
  BY <1>3, <1>4, RaisedIsLocal
<1>5. CASE r = Payload(c.avro, field, data)
  BY <1>1, <1>3, <1>5 DEF LocalOK
<1>6. CASE \E name, payload : r = Decoded(Reader("avro", name), payload)
  <2>1. IsRead(r, "avro")
    BY <1>6, DecodedIsRead DEF Reader
  <2>. QED
    BY <2>1, ReadIsLocal
<1>7. CASE /\ FileOf(field) \in DOMAIN c.avro /\ At(fs, c.avro[FileOf(field)], FALSE).is # "avro"
           /\ r = Raised("escape")
  <2>1. Escapes(c, field, "avro")
    BY <1>7 DEF Escapes
  <2>. QED
    BY <1>7, <2>1, RaisedIsLocal
<1>. QED
  BY <1>2, <1>4, <1>5, <1>6, <1>7

LEMMA ProtobufIsLocal ==
  ASSUME NEW c, NEW field, NEW data
  PROVE  LocalOK(ProtobufRead(c.protobuf, fs, classes, field, data),
                 Suffices(c, field, "protobuf"), Escapes(c, field, "protobuf"), "protobuf")
<1>. DEFINE r == ProtobufRead(c.protobuf, fs, classes, field, data)
            framed == ProtobufFramed(c.protobuf, field, data)
            reader == Reader("protobuf", c.protobuf[FileOf(field)])
<1>. SUFFICES LocalOK(r, Suffices(c, field, "protobuf"), Escapes(c, field, "protobuf"), "protobuf")
  OBVIOUS
<1>1. /\ LocalOK(framed, FramingKnown(c.protobuf, field), FALSE, "protobuf")
      /\ framed.kind # "escape" /\ IsResult(framed)
  <2>1. \/ \E payload : framed = Read(NoReader, payload)
        \/ framed = Raised("data")
        \/ framed = Payload(c.protobuf, field, data)
    BY DEF ProtobufFramed
  <2>. HIDE DEF framed
  <2>2. \A s : IsRead(s, "protobuf") => IsResult(s)
    BY DEF IsRead, IsResult
  <2>. QED
    BY <2>1, <2>2, PayloadIsLocal, ReadsAre, ReadIsLocal
<1>2. \/ /\ \/ FileOf(field) \notin DOMAIN c.protobuf
            \/ DOMAIN c.protobuf \cap ProtobufSchemas = {}
            \/ ClassesFor(c.protobuf) # {} /\ c.protobuf[FileOf(field)] \notin ClassesFor(c.protobuf)
         /\ r = Raised("options")
      \/ r = Raised("data")
      \/ r = [framed EXCEPT !.reader = reader]
      \/ \E payload : r = Decoded(reader, payload)
  BY DEF ProtobufRead, ClassesFor
<1>. HIDE DEF r, framed
<1>3. /\ \/ FileOf(field) \notin DOMAIN c.protobuf
         \/ DOMAIN c.protobuf \cap ProtobufSchemas = {}
         \/ ClassesFor(c.protobuf) # {} /\ c.protobuf[FileOf(field)] \notin ClassesFor(c.protobuf)
         => ~Suffices(c, field, "protobuf")
      /\ Suffices(c, field, "protobuf") => FramingKnown(c.protobuf, field)
  BY DEF Suffices
<1>4. CASE ~Suffices(c, field, "protobuf") /\ r = Raised("options")
  BY <1>4, RaisedIsLocal
<1>5. CASE r = [framed EXCEPT !.reader = reader]
  <2>1. r.kind = framed.kind /\ r.schema = framed.schema
    BY <1>1, <1>5 DEF IsResult
  <2>. QED
    BY <1>1, <1>3, <2>1 DEF LocalOK
<1>6. CASE r = Raised("data") \/ \E payload : r = Decoded(reader, payload)
  <2>1. reader.kind = "protobuf"
    BY DEF Reader
  <2>. HIDE DEF reader
  <2>2. IsRead(r, "protobuf")
    BY <1>6, <2>1, DecodedIsRead, ReadsAre
  <2>. QED
    BY <2>2, ReadIsLocal
<1>. QED
  BY <1>2, <1>3, <1>4, <1>5, <1>6

LEMMA PrimitiveFieldIs ==
  ASSUME NEW c, NEW field, NEW format \in Primitives, NEW written, NEW failing, ~written.null
  PROVE  FieldRead(c, field, format, written, failing) =
           Result(PrimitiveRead(format, written.data), cache)
BY Zenon DEF FieldRead, Primitives

LEMMA FieldReadIs ==
  ASSUME NEW c, NEW field, NEW written, NEW failing
  PROVE  /\ \A format : written.null => FieldRead(c, field, format, written, failing) = Result(NullRead, cache)
         /\ ~written.null =>
              /\ FieldRead(c, field, "bytes", written, failing) =
                   Result(Read(NoReader, WholeOf(written.data)), cache)
              /\ FieldRead(c, field, "json", written, failing) =
                   Result(JsonRead(c.json, Validators(c.json, Files), field, written.data), cache)
              /\ FieldRead(c, field, "avro", written, failing) =
                   Result(AvroRead(c.avro, fs, loaded, field, written.data), cache)
              /\ FieldRead(c, field, "protobuf", written, failing) =
                   Result(ProtobufRead(c.protobuf, fs, classes, field, written.data), cache)
              /\ FieldRead(c, field, "registry", written, failing) =
                   Backend(c.registry, field, written.data, failing)
<1>1. ASSUME NEW format, written.null
      PROVE  FieldRead(c, field, format, written, failing) = Result(NullRead, cache)
  BY <1>1 DEF FieldRead
<1>2. ~written.null => FieldRead(c, field, "bytes", written, failing) =
                         Result(Read(NoReader, WholeOf(written.data)), cache)
  BY Zenon DEF FieldRead, Primitives
<1>3. ~written.null => FieldRead(c, field, "json", written, failing) =
                         Result(JsonRead(c.json, Validators(c.json, Files), field, written.data), cache)
  BY Zenon DEF FieldRead, Primitives
<1>4. ~written.null => FieldRead(c, field, "avro", written, failing) =
                         Result(AvroRead(c.avro, fs, loaded, field, written.data), cache)
  BY Zenon DEF FieldRead, Primitives
<1>5. ~written.null => FieldRead(c, field, "protobuf", written, failing) =
                         Result(ProtobufRead(c.protobuf, fs, classes, field, written.data), cache)
  BY Zenon DEF FieldRead, Primitives
<1>6. ~written.null => FieldRead(c, field, "registry", written, failing) =
                         Backend(c.registry, field, written.data, failing)
  BY Zenon DEF FieldRead, Primitives
<1>. QED
  BY <1>1, <1>2, <1>3, <1>4, <1>5, <1>6

\* The reader that the format, or the ID, gives raised what is not handled.
EndedBy(r, format, id) ==
  /\ Raises(r.reader, r.payload) = "escape"
  /\ IF format = "registry" THEN id \in DOMAIN SchemaIds /\ r.reader.kind = SchemaOf(id).type
     ELSE r.reader.kind = format

\* What is presented of a field, and what the registry's cache has after it.
OutcomeOK(r, c, field, format, written) ==
  /\ CacheOK(r.cache)
  /\ IsSure(written.data.id, field, r.result.schema)
  /\ r.result.kind = "options" => ~Suffices(c, field, format)
  /\ r.result.kind = "escape" =>
       Escapes(c, field, format) \/ EndedBy(r.result, format, written.data.id)

LEMMA LocalIsOK ==
  ASSUME CacheOK(cache), NEW c, NEW field, NEW format, format # "registry", NEW written,
         NEW r, LocalOK(r, Suffices(c, field, format), Escapes(c, field, format), format)
  PROVE  OutcomeOK(Result(r, cache), c, field, format, written)
BY DEF LocalOK, OutcomeOK, Result, IsSure, Ended, EndedBy

LEMMA ReadOutcomeIsOK ==
  ASSUME CacheOK(cache), NEW c, NEW field, NEW format, NEW written,
         NEW r, IsRead(r, "none"), r.kind # "escape"
  PROVE  OutcomeOK(Result(r, cache), c, field, format, written)
BY DEF IsRead, OutcomeOK, Result, IsSure

LEMMA OutcomeIsOK ==
  ASSUME CacheOK(cache), NEW c, NEW field, NEW format \in FieldFormats, NEW written, NEW failing
  PROVE  OutcomeOK(FieldRead(c, field, format, written, failing), c, field, format, written)
<1>1. CASE written.null
  <2>1. IsRead(NullRead, "none") /\ NullRead.kind # "escape"
    BY ReadsAre DEF NullRead
  <2>2. FieldRead(c, field, format, written, failing) = Result(NullRead, cache)
    BY <1>1, FieldReadIs
  <2>. QED
    BY <2>1, <2>2, ReadOutcomeIsOK
<1>2. CASE ~written.null /\ format = "bytes"
  BY <1>2, FieldReadIs, ReadsAre, ReadOutcomeIsOK
<1>3. CASE ~written.null /\ format \in Primitives
  <2>1. IsRead(PrimitiveRead(format, written.data), "none")
        /\ PrimitiveRead(format, written.data).kind # "escape"
    BY ReadsAre DEF PrimitiveRead
  <2>2. FieldRead(c, field, format, written, failing) = Result(PrimitiveRead(format, written.data), cache)
    BY <1>3, PrimitiveFieldIs
  <2>. QED
    BY <2>1, <2>2, ReadOutcomeIsOK
<1>4. CASE ~written.null /\ format = "json"
  BY <1>4, FieldReadIs, JsonIsLocal, LocalIsOK
<1>5. CASE ~written.null /\ format = "avro"
  BY <1>5, FieldReadIs, AvroIsLocal, LocalIsOK
<1>6. CASE ~written.null /\ format = "protobuf"
  BY <1>6, FieldReadIs, ProtobufIsLocal, LocalIsOK
<1>7. CASE ~written.null /\ format = "registry"
  <2>1. RegistryReadOK(Backend(c.registry, field, written.data, failing), written.data.id, field)
    BY BackendIsOK
  <2>. QED
    BY <1>7, <2>1, FieldReadIs DEF RegistryReadOK, OutcomeOK, Ended, EndedBy
<1>. QED
  BY <1>1, <1>2, <1>3, <1>4, <1>5, <1>6, <1>7 DEF FieldFormats

-----------------------------------------------------------------------------
\* What settings can do to a start.

LEMMA TimeoutsAre ==
  /\ AllTimeouts =
       {<<"consumer", "poll">>, <<"consumer", "idle">>, <<"consumer", "assignment">>,
        <<"consumer", "request">>, <<"admin", "read">>, <<"admin", "write">>,
        <<"producer", "delivery">>, <<"producer", "flush">>}
  /\ \A mode \in {"admin", "consumer", "producer"} :
       TimeoutsOf(mode) \subseteq AllTimeouts /\ \A t \in TimeoutsOf(mode) : t[1] = mode
  /\ DOMAIN TimeoutNames = {"admin", "consumer", "producer"}
<1>1. /\ DOMAIN TimeoutNames = {"admin", "consumer", "producer"}
      /\ TimeoutNames["consumer"] = {"poll", "idle", "assignment", "request"}
      /\ TimeoutNames["admin"] = {"read", "write"}
      /\ TimeoutNames["producer"] = {"delivery", "flush"}
  BY DEF TimeoutNames
<1>2. /\ TimeoutsOf("consumer") = {<<"consumer", "poll">>, <<"consumer", "idle">>,
                                   <<"consumer", "assignment">>, <<"consumer", "request">>}
      /\ TimeoutsOf("admin") = {<<"admin", "read">>, <<"admin", "write">>}
      /\ TimeoutsOf("producer") = {<<"producer", "delivery">>, <<"producer", "flush">>}
  BY <1>1 DEF TimeoutsOf
<1>3. AllTimeouts = TimeoutsOf("admin") \cup TimeoutsOf("consumer") \cup TimeoutsOf("producer")
  BY <1>1 DEF AllTimeouts
<1>. QED
  BY <1>1, <1>2, <1>3

LEMMA DefaultsArePositive ==
  /\ DOMAIN DefaultTimeouts = AllTimeouts
  /\ \A t \in AllTimeouts : DefaultTimeouts[t] \in Nat \ {0}
<1>1. DOMAIN DefaultTimeouts = AllTimeouts
  BY DEF DefaultTimeouts
<1>2. ASSUME NEW t \in AllTimeouts
      PROVE  DefaultTimeouts[t] \in Nat \ {0}
  BY TimeoutsAre DEF DefaultTimeouts
<1>. QED
  BY <1>1, <1>2

\* A number in the settings is a number.
IsMeasured(settings) ==
  \A t \in AllTimeouts :
    LET given == TimeoutSettings(settings, t[1])
    IN  t[2] \in DOMAIN given /\ given[t[2]].kind = "number" => given[t[2]].ms \in Int

LEMMA ConfiguredArePositive ==
  ASSUME NEW settings, IsMeasured(settings), NEW mode \in {"admin", "consumer", "producer"},
         NEW t \in DOMAIN ConfiguredTimeouts(settings, mode)
  PROVE  ConfiguredTimeouts(settings, mode)[t] \in Nat \ {0}
<1>. DEFINE given == TimeoutSettings(settings, mode)
<1>1. /\ t \in TimeoutsOf(mode) /\ t[2] \in DOMAIN given
      /\ given[t[2]].kind = "number" /\ given[t[2]].ms > 0
      /\ ConfiguredTimeouts(settings, mode)[t] = given[t[2]].ms
  BY DEF ConfiguredTimeouts, IsTimeoutSetting, IsTimeout
<1>2. t \in AllTimeouts /\ t[1] = mode
  BY <1>1, TimeoutsAre
<1>3. given[t[2]].ms \in Int
  BY <1>1, <1>2 DEF IsMeasured
<1>. QED
  BY <1>1, <1>3

LEMMA TimeoutsAreMeasured ==
  ASSUME NEW settings, IsMeasured(settings), NEW t \in AllTimeouts
  PROVE  SettingsTimeouts(settings)[t] \in Nat \ {0}
<1>. DEFINE Of(mode) == ConfiguredTimeouts(settings, mode)
            two == Over(Of("producer"), DefaultTimeouts)
            three == Over(Of("consumer"), two)
<1>1. \A mode \in {"admin", "consumer", "producer"} :
        t \in DOMAIN Of(mode) => Of(mode)[t] \in Nat \ {0}
  BY ConfiguredArePositive
<1>. HIDE DEF Of
<1>2. t \in DOMAIN two /\ two[t] \in Nat \ {0}
  BY <1>1, DefaultsArePositive DEF Over
<1>. HIDE DEF two
<1>3. t \in DOMAIN three /\ three[t] \in Nat \ {0}
  BY <1>1, <1>2 DEF Over
<1>. HIDE DEF three
<1>4. SettingsTimeouts(settings) = Over(Of("admin"), three)
  BY DEF SettingsTimeouts, Of, two, three
<1>. QED
  BY <1>1, <1>3, <1>4 DEF Over

LEMMA SettingsDoNotEscape ==
  ASSUME NEW settings, IsMeasured(settings), ~EndsTheStart(settings)
  PROVE  ~SettingsEscape(settings)
<1>1. \A t \in AllTimeouts : t[1] \in DOMAIN TimeoutNames /\ t[2] \in TimeoutNames[t[1]]
  BY DEF AllTimeouts, TimeoutsOf
<1>2. \A t \in AllTimeouts : ~(SettingsTimeouts(settings)[t] <= 0)
  BY TimeoutsAreMeasured
<1>. QED
  BY <1>1, <1>2 DEF SettingsEscape, EndsTheStart

Unset == [kind |-> "absent"]

LEMMA AbsentDoesNotEscape == ~SettingsEscape(Unset)
<1>1. \A mode : TimeoutSettings(Unset, mode) = NoProperties
  BY DEF TimeoutSettings, SettingsSection, Unset, NoProperties
<1>2. IsMeasured(Unset)
  BY <1>1 DEF IsMeasured, NoProperties
<1>3. ~EndsTheStart(Unset)
  BY <1>1 DEF EndsTheStart, NoProperties, Unset
<1>. QED
  BY <1>2, <1>3, SettingsDoNotEscape

\* Nothing else is read of the settings before the application opens.
LEMMA PhaseIs ==
  ASSUME NEW l, NEW files
  PROVE  /\ l.mode = "admin" => PhaseOf(l, files) = AdminPhase(l)
         /\ l.mode = "consumer" => PhaseOf(l, files) = ConsumerPhase(l, files)
         /\ l.mode = "producer" => PhaseOf(l, files) = ProducerPhase(l, files)
BY Zenon DEF PhaseOf

LEMMA EscapesBySettings ==
  ASSUME NEW i \in DOMAIN Lines, NEW files, PhaseOf(Lines[i], files) = "escaped"
  PROVE  EndsTheStart(Lines[i].settings)
<1>. DEFINE l == Lines[i]
<1>1. l.mode \in {"admin", "consumer", "producer"} /\ IsMeasured(l.settings)
  BY LinesAssumption, TimeoutsAre DEF IsMeasured
<1>. HIDE DEF l
<1>2. AdminPhase(l) = "escaped" => SettingsEscape(l.settings)
  BY DEF AdminPhase
<1>3. ConsumerPhase(l, files) = "escaped" => SettingsEscape(l.settings)
  BY DEF ConsumerPhase
<1>4. ProducerPhase(l, files) = "escaped" => SettingsEscape(l.settings)
  BY DEF ProducerPhase
<1>5. SettingsEscape(l.settings)
  BY <1>1, <1>2, <1>3, <1>4, PhaseIs DEF l
<1>. QED
  BY <1>1, <1>5, SettingsDoNotEscape DEF l

\* They end a start, or decide nothing.
LEMMA PhaseWithoutSettings ==
  ASSUME NEW i \in DOMAIN Lines, NEW files
  PROVE  \/ PhaseOf([Lines[i] EXCEPT !.settings = Unset], files) = PhaseOf(Lines[i], files)
         \/ PhaseOf(Lines[i], files) = "escaped"
<1>. DEFINE l == Lines[i]
            m == [l EXCEPT !.settings = Unset]
<1>1. DOMAIN l = LineFields /\ l.mode \in {"admin", "consumer", "producer"}
  BY LinesAssumption, TimeoutsAre
<1>. HIDE DEF l
<1>2. m.settings = Unset /\ \A f \in LineFields \ {"settings"} : m[f] = l[f]
  BY <1>1 DEF LineFields
<1>. HIDE DEF m
<1>3. /\ m.mode = l.mode /\ m.formats = l.formats /\ m.file = l.file /\ m.kafka = l.kafka
      /\ m.registry = l.registry /\ m.aws = l.aws /\ m.brokers = l.brokers
      /\ m.timeouts = l.timeouts /\ m.interval = l.interval /\ m.signs = l.signs
      /\ m.partitions = l.partitions /\ m.source = l.source /\ m.avro = l.avro
      /\ m.json = l.json /\ m.protobuf = l.protobuf /\ m.bytes = l.bytes
      /\ m.fallback = l.fallback
  BY <1>2 DEF LineFields
<1>4. ~SettingsEscape(m.settings)
  BY <1>2, AbsentDoesNotEscape
<1>5. Reads(m) = Reads(l)
  BY <1>3 DEF Reads, ConnectionValid
<1>6. ItemsOk(m) = ItemsOk(l)
  BY <1>3 DEF ItemsOk
<1>7. PartitionsValid(m) = PartitionsValid(l)
  BY <1>3 DEF PartitionsValid
<1>8. Configs(m) = Configs(l)
  BY <1>3 DEF Configs, Connection
<1>9. AppOptionsValid(m) = AppOptionsValid(l)
  BY <1>3 DEF AppOptionsValid
<1>10. AdminPhase(m) = AdminPhase(l) \/ AdminPhase(l) = "escaped"
  BY <1>3, <1>4, <1>5, <1>9 DEF AdminPhase
<1>11. ConsumerPhase(m, files) = ConsumerPhase(l, files) \/ ConsumerPhase(l, files) = "escaped"
  BY <1>3, <1>4, <1>5, <1>6, <1>7, <1>8, <1>9 DEF ConsumerPhase
<1>12. ProducerPhase(m, files) = ProducerPhase(l, files) \/ ProducerPhase(l, files) = "escaped"
  BY <1>3, <1>4, <1>5, <1>6, <1>8, <1>9 DEF ProducerPhase
<1>13. PhaseOf(m, files) = PhaseOf(l, files) \/ PhaseOf(l, files) = "escaped"
  BY <1>1, <1>3, <1>10, <1>11, <1>12, PhaseIs
<1>. QED
  BY <1>13 DEF m, l

\* A program that works has read no settings that end one, and accepted its
\* deadlines.
LEMMA RunsWithDeadlines ==
  ASSUME NEW i \in DOMAIN Lines, NEW files, PhaseOf(Lines[i], files) = "running",
         NEW t \in AllTimeouts
  PROVE  SessionOf(Lines[i]).settings.timeouts[t] > 0
<1>. DEFINE l == Lines[i]
            p == Parsed(l.timeouts)
<1>1. l.mode \in {"admin", "consumer", "producer"}
  BY LinesAssumption, TimeoutsAre
<1>2. SessionOf(l).settings.timeouts = Timeouts(l.settings, l.timeouts)
  BY DEF SessionOf, AppSettings
<1>. HIDE DEF l
<1>3. ~SettingsEscape(l.settings) /\ AppOptionsValid(l)
  <2>1. AdminPhase(l) = "running" => ~SettingsEscape(l.settings) /\ AppOptionsValid(l)
    BY DEF AdminPhase
  <2>2. ConsumerPhase(l, files) = "running" => ~SettingsEscape(l.settings) /\ AppOptionsValid(l)
    BY DEF ConsumerPhase
  <2>3. ProducerPhase(l, files) = "running" => ~SettingsEscape(l.settings) /\ AppOptionsValid(l)
    BY DEF ProducerPhase
  <2>. QED
    BY <1>1, <2>1, <2>2, <2>3, PhaseIs DEF l
<1>4. t \in DOMAIN p => p[t].ms > 0
  BY <1>3 DEF AppOptionsValid, TimeoutsValid, IsTimeout
<1>5. IsMeasured(l.settings)
  BY LinesAssumption DEF IsMeasured, l
<1>6. SettingsTimeouts(l.settings)[t] > 0
  BY <1>3, <1>5, TimeoutsAreMeasured DEF SettingsEscape
<1>7. Timeouts(l.settings, l.timeouts)[t] = IF t \in DOMAIN p THEN p[t].ms
                                            ELSE SettingsTimeouts(l.settings)[t]
  BY DEF Timeouts
<1>. HIDE DEF p
<1>. QED
  BY <1>2, <1>4, <1>6, <1>7 DEF l

-----------------------------------------------------------------------------
\* The inductive invariant: the program works with what it has checked, keeps
\* of the registry what is so, and has ended only for a reason.

StartIsTrue ==
  /\ \E i \in DOMAIN Lines : line = Lines[i]
  /\ phase = "given" => session = NoSession
  /\ session = NoSession => fs = Files /\ phase # "running"
  /\ session = NoSession /\ phase # "given" => phase = PhaseOf(line, Files)
  /\ session # NoSession => /\ session = SessionOf(line)
                            /\ PhaseOf(line, Files) = "running"
                            /\ phase \in {"running", "escaped"}

IInv == StartIsTrue /\ CacheOK(cache) /\ MetadataIsTrue /\ OnlyUnhandledEndIt

LEMMA SessionsAre ==
  ASSUME NEW i \in DOMAIN Lines
  PROVE  /\ SessionOf(Lines[i]) # NoSession /\ SessionOf(Lines[i]).mode = Lines[i].mode
         /\ SessionOf(Lines[i]).formats = Lines[i].formats
         /\ Lines[i].mode = "consumer" =>
              SessionOf(Lines[i]).options = DeserializerOptions(Configs(Lines[i]))
  BY LinesAssumption, TimeoutsAre DEF SessionOf, NoSession

\* Only the framing changes as the options are normalized.
LEMMA FilesAreKept ==
  ASSUME NEW config, NEW p \in SchemaFiles \cup ProtobufSchemas
  PROVE  LET normal == NormalizedChoices(config, Scopes(FRAMING))
         IN  /\ DOMAIN normal = DOMAIN config
             /\ p \in DOMAIN config => normal[p] = config[p]
<1>1. \/ p = <<"", "key">> \/ p = <<"", "value">>
      \/ p = <<"", "descriptor">> \/ p = <<"", "source">>
  BY DEF SchemaFiles, ProtobufSchemas, Global
<1>2. \A q \in Scopes(FRAMING) :
        q = <<"", "framing">> \/ q = <<"key", "framing">> \/ q = <<"value", "framing">>
  BY DEF Scopes, Global, Scoped, FRAMING
<1>3. p \notin Scopes(FRAMING)
  BY <1>1, <1>2
<1>. QED
  BY <1>3 DEF NormalizedChoices

LEMMA OptionsAre ==
  ASSUME NEW c
  PROVE  /\ DeserializerOptions(c).avro = NormalizedChoices(c.avro, Scopes(FRAMING))
         /\ DeserializerOptions(c).json = NormalizedChoices(c.json, Scopes(FRAMING))
         /\ DeserializerOptions(c).protobuf = NormalizedChoices(c.protobuf, Scopes(FRAMING))
         /\ DeserializerOptions(c).registry = NormalizedRegistry(c.registry)
BY DEF DeserializerOptions

LEMMA BeginsTrue == Init => IInv
<1>. SUFFICES ASSUME Init PROVE IInv
  OBVIOUS
<1>1. StartIsTrue
  BY DEF Init, StartIsTrue
<1>2. CacheOK(cache)
  BY DEF Init, CacheOK, IsCache, EmptyCache
<1>3. MetadataIsTrue /\ OnlyUnhandledEndIt
  BY DEF Init, MetadataIsTrue, OnlyUnhandledEndIt, NothingRead
<1>. QED
  BY <1>1, <1>2, <1>3 DEF IInv

LEMMA StartKeeps ==
  ASSUME IInv, Start
  PROVE  IInv'
<1>1. PICK i \in DOMAIN Lines : line = Lines[i]
  BY DEF IInv, StartIsTrue
<1>2. /\ phase = "given" /\ session = NoSession /\ fs = Files
      /\ phase' = PhaseOf(line, Files) /\ line' = line /\ fs' = fs /\ cache' = cache /\ last' = last
      /\ session' = IF phase' = "running" THEN SessionOf(line) ELSE NoSession
  BY DEF IInv, StartIsTrue, Start
<1>3. StartIsTrue'
  <2>1. SessionOf(line) # NoSession
    BY <1>1, SessionsAre
  <2>. QED
    BY <1>1, <1>2, <2>1 DEF StartIsTrue
<1>4. CacheOK(cache)'
  BY <1>2 DEF IInv, CacheOK, IsCache, IsSure
<1>5. MetadataIsTrue'
  BY <1>2 DEF IInv, MetadataIsTrue
<1>6. OnlyUnhandledEndIt'
  BY <1>1, <1>2, EscapesBySettings DEF OnlyUnhandledEndIt
<1>. QED
  BY <1>3, <1>4, <1>5, <1>6 DEF IInv

\* The outcomes of a record that is read.
LEMMA OutcomesAre ==
  ASSUME IInv, NEW i, NEW failing, ReadRecord(i, failing)
  PROVE  /\ session # NoSession /\ session = SessionOf(line) /\ phase = "running"
         /\ session.options = DeserializerOptions(Configs(line)) /\ line.mode = "consumer"
         /\ session.formats = line.formats /\ line.formats \in [Fields -> FieldFormats]
         /\ \A field \in Fields :
              OutcomeOK(Outcomes(session.options, line.records[i], failing)[field],
                        session.options, field, line.formats[field], line.records[i][field])
<1>1. PICK n \in DOMAIN Lines : line = Lines[n]
  BY DEF IInv, StartIsTrue
<1>2. phase = "running" /\ session.mode = "consumer"
  BY DEF ReadRecord
<1>3. session # NoSession /\ session = SessionOf(line)
  BY <1>2 DEF IInv, StartIsTrue
<1>4. /\ line.mode = "consumer" /\ session.formats = line.formats
      /\ session.options = DeserializerOptions(Configs(line))
  BY <1>1, <1>2, <1>3, SessionsAre
<1>5. line.formats \in [Fields -> FieldFormats]
  BY <1>1, LinesAssumption
<1>6. ASSUME NEW field \in Fields
      PROVE  OutcomeOK(Outcomes(session.options, line.records[i], failing)[field],
                       session.options, field, line.formats[field], line.records[i][field])
  <2>1. Outcomes(session.options, line.records[i], failing)[field] =
          FieldRead(session.options, field, line.formats[field], line.records[i][field], failing)
    BY <1>4 DEF Outcomes
  <2>2. line.formats[field] \in FieldFormats /\ CacheOK(cache)
    BY <1>5 DEF IInv
  <2>. QED
    BY <2>1, <2>2, OutcomeIsOK
<1>. QED
  BY <1>2, <1>3, <1>4, <1>5, <1>6

LEMMA PresentedIs ==
  ASSUME NEW i, NEW failing, NEW outcomes, NEW header
  PROVE  LET p == Presented(i, failing, outcomes, header)
         IN  /\ p.record = i /\ DOMAIN p.outcomes = Fields \cup {"header"}
             /\ \A field \in Fields : p.outcomes[field] = outcomes[field].result
             /\ p.outcomes["header"] = header
<1>1. "header" \notin Fields
  BY DEF Fields
<1>. QED
  BY <1>1 DEF Presented, With

LEMMA ReadRecordKeeps ==
  ASSUME IInv, NEW i, i # 0, NEW failing, ReadRecord(i, failing)
  PROVE  IInv'
<1>. DEFINE outcomes == Outcomes(session.options, line.records[i], failing)
            record == line.records[i]
            header == IF record.header.null THEN NullRead
                      ELSE PrimitiveRead("string", record.header.data)
            given == {field \in Fields : ~record[field].null}
<1>1. /\ session = SessionOf(line) /\ phase = "running"
      /\ session.options = DeserializerOptions(Configs(line))
      /\ \A field \in Fields :
           OutcomeOK(outcomes[field], session.options, field, line.formats[field], record[field])
  BY OutcomesAre
<1>2. /\ last' = Presented(i, failing, outcomes, header)
      /\ cache' = IF given = {} THEN cache ELSE outcomes[CHOOSE field \in given : TRUE].cache
      /\ phase' = IF \E field \in Fields : outcomes[field].result.kind = "escape"
                  THEN "escaped" ELSE phase
      /\ line' = line /\ fs' = fs /\ session' = session
  BY DEF ReadRecord, ReadAs
<1>. HIDE DEF outcomes, header
<1>3. StartIsTrue'
  BY <1>1, <1>2 DEF IInv, StartIsTrue
<1>4. CacheOK(cache')
  BY <1>1, <1>2 DEF IInv, OutcomeOK
<1>5. MetadataIsTrue'
  <2>. SUFFICES ASSUME NEW field \in Fields, last'.outcomes[field].schema # NoSchema
                PROVE  LET schema == last'.outcomes[field].schema
                           registered == Registrations[line.records[i][field].data.id]
                       IN  /\ schema \in registered
                           /\ \/ registered = {schema}
                              \/ Conventional(field, registered) = {schema}
    <3>1. last'.record = i
      BY <1>2, PresentedIs
    <3>. QED
      BY <1>2, <3>1 DEF MetadataIsTrue
  <2>1. last'.outcomes[field] = outcomes[field].result
    BY <1>2, PresentedIs
  <2>2. IsSure(record[field].data.id, field, outcomes[field].result.schema)
    BY <1>1 DEF OutcomeOK
  <2>. QED
    BY <2>1, <2>2 DEF IsSure
<1>6. OnlyUnhandledEndIt'
  <2>. SUFFICES ASSUME NEW field \in Fields, outcomes[field].result.kind = "escape"
                PROVE  OnlyUnhandledEndIt'
    BY <1>1, <1>2 DEF OnlyUnhandledEndIt
  <2>1. \/ Escapes(session.options, field, line.formats[field])
        \/ EndedBy(outcomes[field].result, line.formats[field], record[field].data.id)
    BY <1>1 DEF OutcomeOK
  <2>2. CASE Escapes(session.options, field, line.formats[field])
    <3>1. session.options.avro = NormalizedChoices(Configs(line).avro, Scopes(FRAMING))
      BY <1>1, OptionsAre
    <3>2. FileOf(field) \in SchemaFiles
      BY DEF FileOf, SchemaFiles, Fields
    <3>3. session.options.avro[FileOf(field)] = Configs(line).avro[FileOf(field)]
      BY <2>2, <3>1, <3>2, FilesAreKept DEF Escapes
    <3>4. /\ line.formats[field] = "avro"
          /\ At(fs, Configs(line).avro[FileOf(field)], FALSE).is # "avro"
      BY <2>2, <3>3 DEF Escapes
    <3>. QED
      BY <1>2, <3>4 DEF OnlyUnhandledEndIt
  <2>3. CASE EndedBy(outcomes[field].result, line.formats[field], record[field].data.id)
    <3>1. last'.record = i /\ last'.outcomes[field] = outcomes[field].result /\ i # 0
      BY <1>2, PresentedIs
    <3>2. /\ Raises(last'.outcomes[field].reader, last'.outcomes[field].payload) = "escape"
          /\ IF line'.formats[field] = "registry"
             THEN /\ line'.records[last'.record][field].data.id \in DOMAIN SchemaIds
                  /\ last'.outcomes[field].reader.kind =
                       SchemaOf(line'.records[last'.record][field].data.id).type
             ELSE last'.outcomes[field].reader.kind = line'.formats[field]
      BY <1>2, <2>3, <3>1 DEF EndedBy
    <3>. QED
      BY <3>1, <3>2 DEF OnlyUnhandledEndIt
  <2>. QED
    BY <2>1, <2>2, <2>3
<1>. QED
  BY <1>3, <1>4, <1>5, <1>6 DEF IInv

LEMMA FileLostKeeps ==
  ASSUME IInv, NEW path, FileLost(path)
  PROVE  IInv'
<1>1. /\ phase = "running" /\ phase' = phase /\ line' = line /\ session' = session
      /\ cache' = cache /\ last' = last
  BY DEF FileLost, readerVars
<1>2. StartIsTrue'
  BY <1>1 DEF IInv, StartIsTrue
<1>. QED
  BY <1>1, <1>2 DEF IInv, MetadataIsTrue, OnlyUnhandledEndIt

LEMMA RegistryAgesKeeps ==
  ASSUME IInv, NEW id, RegistryAges(id)
  PROVE  IInv'
<1>1. /\ phase = "running" /\ phase' = phase /\ line' = line /\ session' = session
      /\ fs' = fs /\ last' = last /\ cache' \in Aged(cache, id)
  BY DEF RegistryAges
<1>2. StartIsTrue'
  BY <1>1 DEF IInv, StartIsTrue
<1>3. CacheOK(cache')
  BY <1>1, AgedIsOK DEF IInv
<1>. QED
  BY <1>1, <1>2, <1>3 DEF IInv, MetadataIsTrue, OnlyUnhandledEndIt

LEMMA Invariant == Spec => []IInv
<1>1. IInv /\ [Next]_vars => IInv'
  <2>. SUFFICES ASSUME IInv, [Next]_vars PROVE IInv'
    OBVIOUS
  <2>1. CASE Start
    BY <2>1, StartKeeps
  <2>2. CASE \E i \in DOMAIN line.records, failing \in RequestKinds \cup {"none"} : ReadRecord(i, failing)
    <3>1. 0 \notin DOMAIN line.records
      <4>1. PICK i \in DOMAIN Lines : line = Lines[i]
        BY DEF IInv, StartIsTrue
      <4>2. DOMAIN Lines[i].records = 1..Len(Lines[i].records)
        BY RecordsAssumption
      <4>. QED
        BY <4>1, <4>2
    <3>. QED
      BY <2>2, <3>1, ReadRecordKeeps
  <2>3. CASE \E path \in DOMAIN fs : FileLost(path)
    BY <2>3, FileLostKeeps
  <2>4. CASE UNCHANGED vars
    BY <2>4 DEF vars, readerVars, IInv, StartIsTrue, MetadataIsTrue, OnlyUnhandledEndIt
  <2>5. CASE \E id \in DOMAIN SchemaIds : RegistryAges(id)
    BY <2>5, RegistryAgesKeeps
  <2>. QED
    BY <2>1, <2>2, <2>3, <2>4, <2>5 DEF Next
<1>. QED
  BY <1>1, BeginsTrue, PTL DEF Spec

\* A record is said to be of a subject and version only where the registrations
\* of its schema leave no doubt, whichever requests failed before and whatever
\* was kept of those that did not.
THEOREM MetadataAreTrue == Spec => []MetadataIsTrue
BY Invariant, PTL DEF IInv

\* A start ends with what nobody handles only on settings that are no text, have
\* a bad value or a deadline too large for a float; reading does only on a local
\* Avro schema that is none when it is loaded, and on a payload on which the
\* library of the very reader that the options, or the ID's type, ask for raises
\* what is not handled.  Framings, IDs, references, requests that fail and all
\* that is kept of them add no other way to end.
THEOREM NothingElseEndsIt == Spec => []OnlyUnhandledEndIt
BY Invariant, PTL DEF IInv

\* Settings that end no start decide on none: it ends as it would without them.
\* What starts would have started without, and its deadlines are positive,
\* whatever the settings and the command line say of them.
THEOREM SettingsDoNotMatter == Spec => []SettingsAreOptional
<1>1. IInv => SettingsAreOptional
  <2>. SUFFICES ASSUME IInv, phase # "given"
                PROVE  SettingsAreOptional
    BY DEF SettingsAreOptional
  <2>. DEFINE without == PhaseOf([line EXCEPT !.settings = Unset], Files)
  <2>1. PICK i \in DOMAIN Lines : line = Lines[i]
    BY DEF IInv, StartIsTrue
  <2>2. without = PhaseOf(line, Files) \/ PhaseOf(line, Files) = "escaped"
    BY <2>1, PhaseWithoutSettings
  <2>3. PhaseOf(line, Files) = "escaped" => EndsTheStart(line.settings)
    BY <2>1, EscapesBySettings
  <2>4. CASE session = NoSession
    <3>1. phase = PhaseOf(line, Files)
      BY <2>4 DEF IInv, StartIsTrue
    <3>. QED
      BY <2>2, <2>3, <2>4, <3>1 DEF SettingsAreOptional, Unset
  <2>5. CASE session # NoSession
    <3>1. session = SessionOf(line) /\ PhaseOf(line, Files) = "running"
      BY <2>5 DEF IInv, StartIsTrue
    <3>2. \A t \in AllTimeouts : session.settings.timeouts[t] > 0
      BY <2>1, <3>1, RunsWithDeadlines
    <3>. QED
      BY <2>2, <2>5, <3>1, <3>2 DEF SettingsAreOptional, Unset
  <2>. QED
    BY <2>4, <2>5
<1>. QED
  BY <1>1, Invariant, PTL

-----------------------------------------------------------------------------
\* The options that were accepted are enough.

IsConfig(config) == config = [p \in DOMAIN config |-> config[p]]

LEMMA ConfigsAre ==
  ASSUME NEW l
  PROVE  /\ IsConfig(Configs(l).registry) /\ IsConfig(Configs(l).avro)
         /\ IsConfig(Configs(l).json) /\ IsConfig(Configs(l).protobuf)
         /\ IsConfig(Configs(l).bytes)
<1>1. \A items : IsConfig(Parsed(items))
  BY DEF IsConfig, Parsed
<1>2. ASSUME NEW items
      PROVE  IsConfig(ProtobufParsed(items))
  <2>1. \A f, x, y : IsConfig(With(f, x, y))
    BY DEF IsConfig, With
  <2>2. CASE IncludeLists(items) = <<>>
    BY <1>1, <2>2 DEF ProtobufParsed
  <2>3. CASE IncludeLists(items) # <<>>
    BY <2>1, <2>3 DEF ProtobufParsed
  <2>. QED
    BY <2>2, <2>3
<1>3. IsConfig(Connection(l).registry)
  <2>1. Connection(l).registry = RegistryConfig(l.file, Parsed(l.registry))
    BY DEF Connection
  <2>2. \A f, g : IsConfig(Over(f, g))
    BY OverIs DEF IsConfig
  <2>. QED
    BY <2>1, <2>2, Zenon DEF RegistryConfig
<1>. QED
  BY <1>1, <1>2, <1>3 DEF Configs

LEMMA NormalizedIs ==
  ASSUME NEW config, NEW names
  PROVE  /\ IsConfig(NormalizedChoices(config, names))
         /\ DOMAIN NormalizedChoices(config, names) = DOMAIN config
         /\ \A p \in DOMAIN config :
              NormalizedChoices(config, names)[p] = IF p \in names THEN Lower(config[p]) ELSE config[p]
BY DEF NormalizedChoices, IsConfig

\* Options that are given are given in the normalized copy.
LEMMA GivenStaysGiven ==
  ASSUME NEW config, IsConfig(config), config # NoProperties, NEW names
  PROVE  NormalizedChoices(config, names) # NoProperties
<1>1. DOMAIN config # {}
  BY Emptiness DEF IsConfig
<1>. QED
  BY <1>1, NormalizedIs DEF NoProperties

\* A choice that was accepted is one of those that are known.
LEMMA ChoiceIsKnown ==
  ASSUME NEW config, NEW name, NEW choices, NEW default \in choices, NEW field \in Fields,
         config # NoProperties => ChoicesValid(config, Scopes(name), choices)
  PROVE  ScopedProperty(NormalizedChoices(config, Scopes(name)), name, field, default) \in choices
<1>. DEFINE normal == NormalizedChoices(config, Scopes(name))
<1>1. DOMAIN normal = DOMAIN config
  BY NormalizedIs
<1>2. Scoped(field, name) \in Scopes(name) /\ Global(name) \in Scopes(name)
  BY DEF Scopes, Fields
<1>3. ASSUME NEW p \in Scopes(name), p \in DOMAIN config
      PROVE  normal[p] \in choices
  <2>1. config # NoProperties
    BY <1>3 DEF NoProperties
  <2>2. Lower(config[p]) \in choices
    BY <1>3, <2>1 DEF ChoicesValid
  <2>. QED
    BY <1>3, <2>2, NormalizedIs
<1>. HIDE DEF normal
<1>4. ScopedProperty(normal, name, field, default) \in choices
  BY <1>1, <1>2, <1>3 DEF ScopedProperty
<1>. QED
  BY <1>4 DEF normal

\* Files that go away leave the message classes they had, or none.
FilesAreLost ==
  /\ DOMAIN fs = DOMAIN Files
  /\ \A path \in DOMAIN fs : fs[path] \in {Files[path], Nothing}

LEMMA ClassesAreLost ==
  ASSUME FilesAreLost, NEW config
  PROVE  MessageClasses(config, fs) \in {{}, MessageClasses(config, Files)}
<1>. DEFINE source == Global("source") \in DOMAIN config
            path == config[IF source THEN Global("source") ELSE Global("descriptor")]
            kind == IF source THEN "proto" ELSE "descriptors"
            Of(files) == IF Loads(files, path, kind) THEN files[path].schemas ELSE {}
<1>1. \A files : MessageClasses(config, files) = Of(files)
  BY DEF MessageClasses
<1>2. kind # "nothing"
  OBVIOUS
<1>. HIDE DEF path, kind
<1>3. Of(fs) \in {{}, Of(Files)}
  <2>1. CASE path \notin DOMAIN Files
    BY <1>2, <2>1 DEF FilesAreLost, Loads, At, Nothing
  <2>2. CASE path \in DOMAIN Files /\ fs[path] = Files[path]
    BY <2>2 DEF FilesAreLost, Loads, At
  <2>3. CASE path \in DOMAIN Files /\ fs[path] = Nothing
    BY <1>2, <2>3 DEF FilesAreLost, Loads, At, Nothing
  <2>. QED
    BY <2>1, <2>2, <2>3 DEF FilesAreLost
<1>. QED
  BY <1>1, <1>3

LEMMA NormalizedClasses ==
  ASSUME NEW config, NEW files, DOMAIN config \cap ProtobufSchemas # {}
  PROVE  MessageClasses(NormalizedChoices(config, Scopes(FRAMING)), files) = MessageClasses(config, files)
<1>. DEFINE normal == NormalizedChoices(config, Scopes(FRAMING))
            p == IF Global("source") \in DOMAIN config THEN Global("source") ELSE Global("descriptor")
<1>1. p \in ProtobufSchemas /\ p \in DOMAIN config
  BY DEF ProtobufSchemas
<1>2. DOMAIN normal = DOMAIN config /\ normal[p] = config[p]
  BY <1>1, FilesAreKept
<1>. QED
  BY <1>2 DEF MessageClasses

-----------------------------------------------------------------------------
\* The consumer: options that are accepted hold what reading wants of them.

LEMMA ConsumerHasOptions ==
  ASSUME NEW l, NEW formats, NEW files, DeserializerOptionsValid(Configs(l), formats, files)
  PROVE  ConsumerGets(DeserializerOptions(Configs(l)), formats)
<1>. DEFINE c == Configs(l)
<1>1. RequireConfigured(c, formats)
  BY DEF DeserializerOptionsValid
<1>2. IsConfig(c.avro) /\ IsConfig(c.registry) /\ IsConfig(c.protobuf)
  BY ConfigsAre
<1>. HIDE DEF c
<1>3. Uses(formats, "avro") => DeserializerOptions(c).avro # NoProperties
  BY <1>1, <1>2, GivenStaysGiven, OptionsAre DEF RequireConfigured
<1>4. Uses(formats, "registry") => DeserializerOptions(c).registry # NoProperties
  BY <1>1, <1>2, GivenStaysGiven, OptionsAre DEF RequireConfigured, NormalizedRegistry
<1>5. Uses(formats, "protobuf") => DeserializerOptions(c).protobuf # NoProperties
  BY <1>1, <1>2, GivenStaysGiven, OptionsAre DEF RequireConfigured
<1>6. ConsumerGets(DeserializerOptions(c), formats)
  BY <1>3, <1>4, <1>5 DEF ConsumerGets, Uses
<1>. QED
  BY <1>6 DEF c

\* What was compiled when the options were accepted, or is kept of a descriptor
\* set, is what the option names.
ClassesOf(config) ==
  /\ classes \in {{}, MessageClasses(config, Files)}
  /\ Global("source") \in DOMAIN config => classes = MessageClasses(config, Files)

LEMMA FramingIsKnown ==
  ASSUME NEW config, config # NoProperties => ChoicesValid(config, Scopes(FRAMING), FRAMINGS),
         NEW field \in Fields
  PROVE  FramingKnown(NormalizedChoices(config, Scopes(FRAMING)), field)
BY ChoiceIsKnown DEF FRAMINGS, FramingKnown

LEMMA ProtobufSuffices ==
  ASSUME NEW config, NEW formats, NEW field \in Fields, formats[field] = "protobuf",
         config # NoProperties, ProtobufValid(config, formats, Files),
         FilesAreLost, ClassesOf(NormalizedChoices(config, Scopes(FRAMING)))
  PROVE  LET normal == NormalizedChoices(config, Scopes(FRAMING))
         IN  /\ FileOf(field) \in DOMAIN normal
             /\ DOMAIN normal \cap ProtobufSchemas # {}
             /\ ClassesFor(normal) # {} => normal[FileOf(field)] \in ClassesFor(normal)
<1>. DEFINE normal == NormalizedChoices(config, Scopes(FRAMING))
<1>1. DOMAIN normal = DOMAIN config
  BY NormalizedIs
<1>2. FileOf(field) \in DOMAIN config /\ FileOf(field) \in SchemaFiles
  BY DEF ProtobufValid, FieldsProvided, FileOf, SchemaFiles, Fields
<1>3. normal[FileOf(field)] = config[FileOf(field)]
  BY <1>2, FilesAreKept
<1>4. DOMAIN config \cap ProtobufSchemas # {}
  BY DEF ProtobufValid, RequireProtobufSchema
<1>5. config[FileOf(field)] \in MessageClasses(config, Files)
  BY <1>2 DEF ProtobufValid, ProtobufMessagesFound
<1>6. MessageClasses(normal, Files) = MessageClasses(config, Files)
  BY <1>4, NormalizedClasses
<1>7. MessageClasses(normal, fs) \in {{}, MessageClasses(normal, Files)}
  BY ClassesAreLost
<1>8. ClassesOf(normal)
  OBVIOUS
<1>. HIDE DEF normal
<1>9. ClassesFor(normal) \in {{}, MessageClasses(config, Files)}
  BY <1>6, <1>7, <1>8 DEF ClassesFor, ClassesOf
<1>10. /\ FileOf(field) \in DOMAIN normal
       /\ DOMAIN normal \cap ProtobufSchemas # {}
       /\ ClassesFor(normal) # {} => normal[FileOf(field)] \in ClassesFor(normal)
  BY <1>1, <1>2, <1>3, <1>4, <1>5, <1>9
<1>. QED
  BY <1>10 DEF normal

LEMMA OptionsDoSuffice ==
  ASSUME NEW l, DeserializerOptionsValid(Configs(l), l.formats, Files), FilesAreLost,
         ClassesOf(DeserializerOptions(Configs(l)).protobuf),
         NEW field \in Fields
  PROVE  Suffices(DeserializerOptions(Configs(l)), field, l.formats[field])
<1>. DEFINE c == Configs(l)
            d == DeserializerOptions(c)
<1>1. /\ d.avro = NormalizedChoices(c.avro, Scopes(FRAMING))
      /\ d.json = NormalizedChoices(c.json, Scopes(FRAMING))
      /\ d.protobuf = NormalizedChoices(c.protobuf, Scopes(FRAMING))
  BY OptionsAre
<1>2. /\ RequireConfigured(c, l.formats)
      /\ JsonValid(c.json, l.formats, SchemaFiles \cup Scopes(FRAMING), Files)
      /\ AvroValid(c.avro, l.formats, Files)
      /\ ProtobufValid(c.protobuf, l.formats, Files)
      /\ ClassesOf(d.protobuf)
  BY DEF DeserializerOptionsValid
<1>. HIDE DEF c, d
<1>3. FramingKnown(d.json, field)
  BY <1>1, <1>2, FramingIsKnown DEF JsonValid
<1>4. ASSUME l.formats[field] = "avro"
      PROVE  FramingKnown(d.avro, field) /\ FileOf(field) \in DOMAIN d.avro
  <2>1. c.avro # NoProperties
    BY <1>2, <1>4 DEF RequireConfigured, Uses
  <2>2. FileOf(field) \in DOMAIN c.avro
    BY <1>2, <1>4, <2>1 DEF AvroValid, FieldsProvided
  <2>. QED
    BY <1>1, <1>2, <2>2, FramingIsKnown, NormalizedIs DEF AvroValid
<1>5. ASSUME l.formats[field] = "protobuf"
      PROVE  /\ FramingKnown(d.protobuf, field)
             /\ FileOf(field) \in DOMAIN d.protobuf
             /\ DOMAIN d.protobuf \cap ProtobufSchemas # {}
             /\ ClassesFor(d.protobuf) # {} => d.protobuf[FileOf(field)] \in ClassesFor(d.protobuf)
  <2>1. c.protobuf # NoProperties
    BY <1>2, <1>5 DEF RequireConfigured, Uses
  <2>2. FramingKnown(d.protobuf, field)
    BY <1>1, <1>2, FramingIsKnown DEF ProtobufValid
  <2>. QED
    BY <1>1, <1>2, <1>5, <2>1, <2>2, ProtobufSuffices
<1>6. Suffices(d, field, l.formats[field])
  BY <1>3, <1>4, <1>5 DEF Suffices
<1>. QED
  BY <1>6 DEF c, d

-----------------------------------------------------------------------------
\* The producer: the registry's properties fall into those of the client and
\* those by which a field gets its schema, and do so in the accepted copy too.

LEMMA RestrictIs ==
  ASSUME NEW f, NEW S
  PROVE  /\ DOMAIN Restrict(f, S) = S
         /\ \A x \in S : Restrict(f, S)[x] = f[x]
         /\ IsConfig(Restrict(f, S))
BY DEF Restrict, IsConfig

LEMMA SameConfig ==
  ASSUME NEW f, IsConfig(f), NEW g, IsConfig(g), DOMAIN f = DOMAIN g,
         \A x \in DOMAIN f : f[x] = g[x]
  PROVE  f = g
BY DEF IsConfig

LEMMA RegistryParts ==
  ASSUME NEW config
  PROVE  LET made == Over(NormalizedRegistry(ClientConfig(config)), SelectionConfig(config))
         IN  /\ ClientConfig(made) = NormalizedRegistry(ClientConfig(config))
             /\ SelectionConfig(made) = SelectionConfig(config)
<1>. DEFINE client == NormalizedRegistry(ClientConfig(config))
            selection == SelectionConfig(config)
            made == Over(client, selection)
<1>1. DOMAIN client = DOMAIN config \ AllSelection /\ IsConfig(client)
  BY NormalizedIs, RestrictIs DEF NormalizedRegistry, ClientConfig
<1>2. DOMAIN selection = DOMAIN config \cap AllSelection /\ IsConfig(selection)
  BY RestrictIs DEF SelectionConfig
<1>. HIDE DEF client, selection
<1>3. /\ DOMAIN made = DOMAIN client \cup DOMAIN selection
      /\ \A x \in DOMAIN client : made[x] = client[x]
      /\ \A x \in DOMAIN selection \ DOMAIN client : made[x] = selection[x]
  BY DEF Over
<1>. HIDE DEF made
<1>4. ClientConfig(made) = client
  <2>1. DOMAIN made \ AllSelection = DOMAIN client
    BY <1>1, <1>2, <1>3
  <2>. QED
    <3>1. ClientConfig(made) = Restrict(made, DOMAIN made \ AllSelection)
      BY DEF ClientConfig
    <3>2. /\ IsConfig(ClientConfig(made)) /\ DOMAIN ClientConfig(made) = DOMAIN client
          /\ \A x \in DOMAIN client : ClientConfig(made)[x] = made[x]
      BY <2>1, <3>1, RestrictIs
    <3>. HIDE DEF client
    <3>. QED  BY <1>1, <1>3, <3>2, SameConfig
<1>5. SelectionConfig(made) = selection
  <2>1. DOMAIN made \cap AllSelection = DOMAIN selection
    BY <1>1, <1>2, <1>3
  <2>2. \A x \in DOMAIN selection : made[x] = selection[x]
    BY <1>1, <1>2, <1>3
  <2>. QED
    BY <1>2, <2>1, <2>2 DEF SelectionConfig, Restrict, IsConfig
<1>. QED
  BY <1>4, <1>5 DEF client, selection, made

LEMMA LowerTwice == \A value : Lower(Lower(value)) = Lower(value)
BY DEF Lower, Spelled

LEMMA ProviderIsKept ==
  ASSUME NEW config
  PROVE  ProviderOf(NormalizedRegistry(config)) = ProviderOf(config)
<1>1. DOMAIN NormalizedRegistry(config) = DOMAIN config
  BY NormalizedIs DEF NormalizedRegistry
<1>2. Provider \in DOMAIN config => NormalizedRegistry(config)[Provider] = Lower(config[Provider])
  BY NormalizedIs DEF NormalizedRegistry
<1>. QED
  BY <1>1, <1>2, LowerTwice DEF ProviderOf

\* No properties choose the latest schema, which is always possible.
LEMMA NothingIsASelection ==
  ASSUME NEW provider, NEW field
  PROVE  SchemaSelectionValid(NoProperties, provider, field)
<1>1. DOMAIN NoProperties = {}
  BY DEF NoProperties
<1>2. \A name : Chosen(NoProperties, field, name) = "none"
  BY <1>1 DEF Chosen, ScopedProperty, None
<1>3. /\ \A names : FlagsValid(NoProperties, field, names)
      /\ ~AutoRegister(NoProperties, provider, field)
      /\ ~AutoRegister(NoProperties, "confluent", field)
      /\ ~AutoRegister(NoProperties, "apicurio", field)
  BY <1>2 DEF FlagsValid, AutoRegister, None
<1>4. ConfluentSelectionValid(NoProperties, field)
  BY <1>2, <1>3 DEF ConfluentSelectionValid, None
<1>5. ApicurioSelectionValid(NoProperties, field)
  BY <1>2, <1>3 DEF ApicurioSelectionValid, None
<1>. QED
  BY <1>1, <1>4, <1>5 DEF SchemaSelectionValid

LEMMA SelectionIsValid ==
  ASSUME NEW c, NEW formats, NEW files, ProducerRegistryValid(c, formats, files),
         NEW field \in Fields, formats[field] = "registry"
  PROVE  LET selection == SelectionConfig(c.registry)
             provider == ProviderOf(ClientConfig(c.registry))
         IN  SchemaSelectionValid(Restrict(selection, DOMAIN selection \cap SelectionScopes(provider)),
                                  provider, field)
<1>. DEFINE selection == SelectionConfig(c.registry)
            provider == ProviderOf(ClientConfig(c.registry))
<1>1. SchemaSelectionValid(selection, provider, field)
  BY NothingIsASelection DEF ProducerRegistryValid, ProducerSelection
<1>2. IsConfig(selection)
  BY RestrictIs DEF SelectionConfig
<1>. HIDE DEF selection, provider
<1>3. DOMAIN selection \cap SelectionScopes(provider) = DOMAIN selection
  BY <1>1 DEF SchemaSelectionValid
<1>4. Restrict(selection, DOMAIN selection \cap SelectionScopes(provider)) = selection
  BY <1>2, <1>3 DEF Restrict, IsConfig
<1>5. SchemaSelectionValid(Restrict(selection, DOMAIN selection \cap SelectionScopes(provider)),
                           provider, field)
  BY <1>1, <1>4
<1>. QED
  BY <1>5 DEF selection, provider

LEMMA SerializerOptionsAre ==
  ASSUME NEW c
  PROVE  /\ \A format \in FileFormats : SerializerOptions(c)[format] = c[format]
         /\ SerializerOptions(c).avro = c.avro /\ SerializerOptions(c).protobuf = c.protobuf
         /\ SerializerOptions(c).bytes = NormalizedChoices(c.bytes, Scopes(ENCODING))
         /\ SerializerOptions(c).registry =
              Over(NormalizedRegistry(ClientConfig(c.registry)), SelectionConfig(c.registry))
BY DEF SerializerOptions, FileFormats

LEMMA RegistryIsServed ==
  ASSUME NEW c, NEW formats, NEW files, SerializerOptionsValid(c, formats, files),
         NEW field \in Fields, formats[field] = "registry"
  PROVE  RegistrySerializer(SerializerOptions(c), field, files) # "options"
<1>. DEFINE d == SerializerOptions(c)
            selection == SelectionConfig(c.registry)
            provider == ProviderOf(ClientConfig(c.registry))
            known == SchemaSelectionValid(Restrict(selection, DOMAIN selection \cap
                                                              SelectionScopes(provider)),
                                          provider, field)
            lacks == /\ AutoRegister(selection, provider, field)
                     /\ \A format \in FileFormats : FileOf(field) \notin DOMAIN d[format]
<1>1. SelectionConfig(d.registry) = selection /\ ProviderOf(ClientConfig(d.registry)) = provider
  BY SerializerOptionsAre, RegistryParts, ProviderIsKept
<1>2. known
  BY SelectionIsValid DEF SerializerOptionsValid
<1>3. ~lacks
  <2>. SUFFICES ASSUME AutoRegister(selection, provider, field)
                PROVE  \E format \in FileFormats : FileOf(field) \in DOMAIN d[format]
    OBVIOUS
  <2>1. field \in Registering(c, formats)
    BY DEF Registering, ProducerSelection
  <2>2. PICK format \in FileFormats : Found(c, field) = {format}
    BY <2>1 DEF SerializerOptionsValid, SchemaFilesValid
  <2>3. FileOf(field) \in DOMAIN c[format]
    BY <2>2 DEF Found
  <2>. QED
    BY <2>3, SerializerOptionsAre
<1>. HIDE DEF d
<1>4. RegistrySerializer(d, field, files) # "options"
  BY <1>1, <1>2, <1>3 DEF RegistrySerializer
<1>. QED
  BY <1>4 DEF d

LEMMA SerializerIs ==
  ASSUME NEW c, NEW field, NEW files
  PROVE  /\ \A format \in Primitives : Serializer(c, format, field, files) = "built"
         /\ Serializer(c, "bytes", field, files) =
              IF ScopedProperty(c.bytes, ENCODING, field, "base64") \in BYTES_ENCODINGS
              THEN "built" ELSE "options"
         /\ Serializer(c, "json", field, files) # "options"
         /\ FileOf(field) \in DOMAIN c.avro => Serializer(c, "avro", field, files) # "options"
         /\ FileOf(field) \in DOMAIN c.protobuf => Serializer(c, "protobuf", field, files) # "options"
         /\ Serializer(c, "registry", field, files) = RegistrySerializer(c, field, files)
<1>1. ASSUME NEW format \in Primitives
      PROVE  Serializer(c, format, field, files) = "built"
  BY Zenon DEF Serializer, Primitives
<1>2. Serializer(c, "bytes", field, files) =
        IF ScopedProperty(c.bytes, ENCODING, field, "base64") \in BYTES_ENCODINGS
        THEN "built" ELSE "options"
  BY Zenon DEF Serializer, Primitives
<1>3. Serializer(c, "json", field, files) =
        IF FileOf(field) \in DOMAIN c.json => Loads(files, c.json[FileOf(field)], "json")
        THEN "built" ELSE "refused"
  BY Zenon DEF Serializer, Primitives
<1>4. Serializer(c, "avro", field, files) =
        IF FileOf(field) \notin DOMAIN c.avro THEN "options"
        ELSE IF Loads(files, c.avro[FileOf(field)], "avro") THEN "built" ELSE "refused"
  BY Zenon DEF Serializer, Primitives
<1>5. Serializer(c, "protobuf", field, files) =
        IF FileOf(field) \notin DOMAIN c.protobuf THEN "options"
        ELSE IF c.protobuf[FileOf(field)] \in MessageClasses(c.protobuf, files)
        THEN "built" ELSE "refused"
  BY Zenon DEF Serializer, Primitives
<1>6. Serializer(c, "registry", field, files) = RegistrySerializer(c, field, files)
  BY Zenon DEF Serializer, Primitives
<1>. QED
  BY <1>1, <1>2, <1>3, <1>4, <1>5, <1>6

\* Options that are accepted lack nothing that a serializer is made with.
LEMMA ProducerHasOptions ==
  ASSUME NEW c, NEW formats \in [Fields -> FieldFormats], NEW files,
         SerializerOptionsValid(c, formats, files), NEW field \in Fields
  PROVE  Serializer(SerializerOptions(c), formats[field], field, files) # "options"
<1>. DEFINE d == SerializerOptions(c)
            fileFormats == SchemaFileFormats(c, formats)
<1>1. /\ RequireConfigured(c, formats)
      /\ ProducerAvroValid(c.avro, fileFormats, files)
      /\ ProducerProtobufValid(c.protobuf, fileFormats, files)
      /\ BytesValid(c.bytes, formats)
  BY DEF SerializerOptionsValid
<1>2. d.avro = c.avro /\ d.protobuf = c.protobuf
      /\ d.bytes = NormalizedChoices(c.bytes, Scopes(ENCODING))
  BY SerializerOptionsAre
<1>3. formats[field] # "registry" => fileFormats[field] = formats[field]
  BY DEF SchemaFileFormats, Registering
<1>4. formats[field] = "registry" => RegistrySerializer(d, field, files) # "options"
  BY RegistryIsServed
<1>. HIDE DEF d, fileFormats
<1>5. CASE formats[field] \in Primitives
  BY <1>5, SerializerIs DEF d
<1>6. CASE formats[field] = "bytes"
  <2>1. ScopedProperty(d.bytes, ENCODING, field, "base64") \in BYTES_ENCODINGS
    BY <1>1, <1>2, ChoiceIsKnown DEF BytesValid, BYTES_ENCODINGS
  <2>. QED
    BY <1>6, <2>1, SerializerIs DEF d
<1>7. CASE formats[field] = "json"
  BY <1>7, SerializerIs DEF d
<1>8. CASE formats[field] = "avro"
  <2>1. c.avro # NoProperties
    BY <1>1, <1>8 DEF RequireConfigured, Uses
  <2>2. FileOf(field) \in DOMAIN c.avro
    BY <1>1, <1>3, <1>8, <2>1 DEF ProducerAvroValid, FieldsProvided
  <2>. QED
    BY <1>2, <1>8, <2>2, SerializerIs DEF d
<1>9. CASE formats[field] = "protobuf"
  <2>1. c.protobuf # NoProperties
    BY <1>1, <1>9 DEF RequireConfigured, Uses
  <2>2. FileOf(field) \in DOMAIN c.protobuf
    BY <1>1, <1>3, <1>9, <2>1 DEF ProducerProtobufValid, FieldsProvided
  <2>. QED
    BY <1>2, <1>9, <2>2, SerializerIs DEF d
<1>10. CASE formats[field] = "registry"
  BY <1>4, <1>10, SerializerIs DEF d
<1>. QED
  BY <1>5, <1>6, <1>7, <1>8, <1>9, <1>10 DEF FieldFormats

-----------------------------------------------------------------------------
\* So it is from the start, and stays so as files go away.

LEMMA StartsWithOptions ==
  ASSUME NEW i \in DOMAIN Lines
  PROVE  /\ PhaseOf(Lines[i], Files) # "misconfigured"
         /\ PhaseOf(Lines[i], Files) = "running" /\ Lines[i].mode = "consumer" =>
              DeserializerOptionsValid(Configs(Lines[i]), Lines[i].formats, Files)
<1>. DEFINE l == Lines[i]
<1>1. l.mode \in {"admin", "consumer", "producer"} /\ l.formats \in [Fields -> FieldFormats]
  BY LinesAssumption, TimeoutsAre
<1>. HIDE DEF l
<1>2. AdminPhase(l) # "misconfigured"
  BY DEF AdminPhase
<1>3. /\ ConsumerPhase(l, Files) # "misconfigured"
      /\ ConsumerPhase(l, Files) = "running" =>
           DeserializerOptionsValid(Configs(l), l.formats, Files)
  BY ConsumerHasOptions DEF ConsumerPhase
<1>4. ProducerPhase(l, Files) # "misconfigured"
  <2>1. SerializerOptionsValid(Configs(l), l.formats, Files) =>
          \A field \in Fields :
            Serializer(SerializerOptions(Configs(l)), l.formats[field], field, Files) # "options"
    BY <1>1, ProducerHasOptions
  <2>. QED
    BY <2>1 DEF ProducerPhase
<1>5. /\ PhaseOf(l, Files) # "misconfigured"
      /\ PhaseOf(l, Files) = "running" /\ l.mode = "consumer" =>
           DeserializerOptionsValid(Configs(l), l.formats, Files)
  BY <1>1, <1>2, <1>3, <1>4, PhaseIs
<1>. QED
  BY <1>5 DEF l

OptionsAreKept ==
  /\ FilesAreLost
  /\ session # NoSession /\ session.mode = "consumer" => ClassesOf(session.options.protobuf)
  /\ OptionsSuffice

LEMMA StartKeepsOptions ==
  ASSUME IInv, OptionsAreKept, Start
  PROVE  OptionsAreKept'
<1>1. PICK i \in DOMAIN Lines : line = Lines[i]
  BY DEF IInv, StartIsTrue
<1>2. /\ phase' = PhaseOf(line, Files) /\ fs = Files /\ fs' = fs /\ last' = last
      /\ session' = IF phase' = "running" THEN SessionOf(line) ELSE NoSession
      /\ classes' = IF /\ phase' = "running" /\ line.mode = "consumer"
                       /\ Global("source") \in DOMAIN session'.options.protobuf
                    THEN MessageClasses(session'.options.protobuf, Files) ELSE {}
  BY DEF IInv, StartIsTrue, Start
<1>3. FilesAreLost' /\ OptionsSuffice'
  BY <1>1, <1>2, StartsWithOptions DEF OptionsAreKept, FilesAreLost, OptionsSuffice
<1>4. ASSUME session' # NoSession, session'.mode = "consumer"
      PROVE  ClassesOf(session.options.protobuf)'
  <2>1. phase' = "running" /\ line.mode = "consumer"
    BY <1>1, <1>2, <1>4, SessionsAre
  <2>. QED
    BY <1>2, <2>1 DEF ClassesOf, MessageClasses
<1>. QED
  BY <1>3, <1>4 DEF OptionsAreKept

LEMMA ReadRecordKeepsOptions ==
  ASSUME IInv, OptionsAreKept, NEW i, NEW failing, ReadRecord(i, failing)
  PROVE  OptionsAreKept'
<1>. DEFINE outcomes == Outcomes(session.options, line.records[i], failing)
            record == line.records[i]
            header == IF record.header.null THEN NullRead
                      ELSE PrimitiveRead("string", record.header.data)
            options == session.options
<1>1. /\ session # NoSession /\ phase = "running"
      /\ options = DeserializerOptions(Configs(line)) /\ line.mode = "consumer"
      /\ \A field \in Fields :
           OutcomeOK(outcomes[field], options, field, line.formats[field], record[field])
  BY OutcomesAre
<1>2. /\ last' = Presented(i, failing, outcomes, header)
      /\ classes' = ClassesAfter(options, outcomes)
      /\ phase' \in {phase, "escaped"}
      /\ fs' = fs /\ session' = session /\ session.mode = "consumer"
  BY DEF ReadRecord, ReadAs
<1>3. header.kind # "options"
  <2>1. \A r : IsRead(r, "none") => r.kind # "options"
    BY DEF IsRead
  <2>. QED
    BY <2>1, ReadsAre DEF NullRead, PrimitiveRead
<1>. HIDE DEF outcomes, header, options
<1>4. ClassesOf(options.protobuf)
  BY <1>1, <1>2 DEF OptionsAreKept, options
<1>5. \A field \in Fields : Suffices(options, field, line.formats[field])
  <2>1. PICK n \in DOMAIN Lines : line = Lines[n]
    BY DEF IInv, StartIsTrue
  <2>2. PhaseOf(line, Files) = "running"
    BY <1>1 DEF IInv, StartIsTrue
  <2>3. DeserializerOptionsValid(Configs(line), line.formats, Files)
    BY <1>1, <2>1, <2>2, StartsWithOptions
  <2>. QED
    BY <1>1, <1>4, <2>3, OptionsDoSuffice DEF OptionsAreKept
<1>6. FilesAreLost'
  BY <1>2 DEF OptionsAreKept, FilesAreLost
<1>7. ClassesOf(options.protobuf)'
  <2>. DEFINE now == MessageClasses(options.protobuf, fs)
              all == MessageClasses(options.protobuf, Files)
  <2>1. now \in {{}, all}
    BY ClassesAreLost DEF OptionsAreKept
  <2>2. classes' = classes \/ (classes = {} /\ classes' = now)
    BY <1>2 DEF ClassesAfter
  <2>3. options' = options
    BY <1>2 DEF options
  <2>4. /\ classes' \in {{}, all}
        /\ Global("source") \in DOMAIN options.protobuf => classes' = all
    <3>. HIDE DEF now
    <3>1. /\ classes \in {{}, all}
          /\ Global("source") \in DOMAIN options.protobuf => classes = all
      BY <1>4 DEF ClassesOf
    <3>. QED
      BY <2>1, <2>2, <3>1
  <2>. QED
    BY <2>3, <2>4 DEF ClassesOf, MessageClasses, Loads, At
<1>8. OptionsSuffice'
  <2>1. phase' # "misconfigured"
    BY <1>1, <1>2
  <2>. SUFFICES ASSUME NEW field \in DOMAIN last'.outcomes
                PROVE  last'.outcomes[field].kind # "options"
    BY <2>1 DEF OptionsSuffice
  <2>2. DOMAIN last'.outcomes = Fields \cup {"header"}
    BY <1>2, PresentedIs
  <2>3. CASE field = "header"
    BY <1>2, <1>3, <2>3, PresentedIs
  <2>4. CASE field \in Fields
    <3>1. last'.outcomes[field] = outcomes[field].result
      BY <1>2, <2>4, PresentedIs
    <3>. QED
      BY <1>1, <1>5, <2>4, <3>1 DEF OutcomeOK
  <2>. QED
    BY <2>2, <2>3, <2>4
<1>. QED
  BY <1>2, <1>6, <1>7, <1>8 DEF OptionsAreKept, options

LEMMA FileLostKeepsOptions ==
  ASSUME OptionsAreKept, NEW path \in DOMAIN fs, FileLost(path)
  PROVE  OptionsAreKept'
<1>1. /\ fs' = [fs EXCEPT ![path] = Nothing]
      /\ phase' = phase /\ session' = session /\ classes' = classes /\ last' = last
  BY DEF FileLost, readerVars
<1>2. FilesAreLost'
  BY <1>1 DEF OptionsAreKept, FilesAreLost
<1>. QED
  BY <1>1, <1>2 DEF OptionsAreKept, OptionsSuffice, ClassesOf, MessageClasses, Loads, At

LEMMA OptionsStay == Spec => []OptionsAreKept
<1>1. Init => OptionsAreKept
  BY DEF Init, OptionsAreKept, FilesAreLost, OptionsSuffice, NothingRead
<1>2. IInv /\ OptionsAreKept /\ [Next]_vars => OptionsAreKept'
  <2>. SUFFICES ASSUME IInv, OptionsAreKept, [Next]_vars PROVE OptionsAreKept'
    OBVIOUS
  <2>1. CASE Start
    BY <2>1, StartKeepsOptions
  <2>2. CASE \E i \in DOMAIN line.records, failing \in RequestKinds \cup {"none"} : ReadRecord(i, failing)
    BY <2>2, ReadRecordKeepsOptions
  <2>3. CASE \E path \in DOMAIN fs : FileLost(path)
    BY <2>3, FileLostKeepsOptions
  <2>4. CASE UNCHANGED vars
    BY <2>4 DEF vars, readerVars, OptionsAreKept, FilesAreLost, OptionsSuffice, ClassesOf,
                MessageClasses, Loads, At
  <2>5. CASE \E id \in DOMAIN SchemaIds : RegistryAges(id)
    BY <2>5 DEF RegistryAges, OptionsAreKept, FilesAreLost, OptionsSuffice, ClassesOf,
                MessageClasses, Loads, At
  <2>. QED
    BY <2>1, <2>2, <2>3, <2>4, <2>5 DEF Next
<1>. QED
  BY <1>1, <1>2, Invariant, PTL DEF Spec

\* The options that were accepted are enough: no deserializer or serializer is
\* asked for without its options, and no record, whichever files went away in
\* the meantime, is answered with an option that is missing.
THEOREM OptionsAreEnough == Spec => []OptionsSuffice
BY OptionsStay, PTL DEF OptionsAreKept

-----------------------------------------------------------------------------
\* What was kept, and what failed, changes nothing of what is read.

SameRead(r, s) == r.kind = s.kind /\ r.reader = s.reader /\ r.payload = s.payload

\* Confluent's deserializer holds Protobuf schemas only in serialized form.
SerializedOK(c) ==
  \A id \in DOMAIN c.schemas : SchemaOf(id).type = "protobuf" => c.schemas[id] = "serialized"

LEMMA CacheFields ==
  ASSUME NEW c, IsCache(c), NEW x
  PROVE  /\ [c EXCEPT !.client = x].schemas = c.schemas
         /\ [c EXCEPT !.parsed = x].schemas = c.schemas
         /\ [c EXCEPT !.metadata = x].schemas = c.schemas
         /\ [c EXCEPT !.schemas = x].schemas = x
         /\ IsCache([c EXCEPT !.client = x])
BY CacheChanges DEF IsCache

LEMMA CollectedHolds ==
  ASSUME NEW c, IsCache(c), NEW id, NEW failing
  PROVE  /\ Collected(c, id, failing).cache.schemas = c.schemas
         /\ failing = "none" => Collected(c, id, failing).ok
<1>. DEFINE d == [c EXCEPT !.parsed = @ \cup {id}]
<1>1. d = [c EXCEPT !.parsed = c.parsed \cup {id}]
  BY DEF IsCache
<1>2. d.schemas = c.schemas
  BY <1>1, CacheFields
<1>. HIDE DEF d
<1>3. /\ Collected(c, id, failing) \in {Fetched(TRUE, c), Fetched(FALSE, c), Fetched(TRUE, d)}
      /\ failing = "none" => Collected(c, id, failing) \in {Fetched(TRUE, c), Fetched(TRUE, d)}
  BY DEF Collected, d
<1>. QED
  BY <1>2, <1>3 DEF Fetched

LEMMA LibrarySchemaHolds ==
  ASSUME NEW c, IsCache(c), NEW id, NEW failing
  PROVE  /\ LibrarySchema(c, id, failing).cache.schemas = c.schemas
         /\ failing = "none" => LibrarySchema(c, id, failing).ok
<1>. DEFINE d == [c EXCEPT !.client = With(@, id, "text")]
<1>1. d = [c EXCEPT !.client = With(c.client, id, "text")]
  BY DEF IsCache
<1>2. d.schemas = c.schemas /\ IsCache(d)
  BY <1>1, CacheFields
<1>. HIDE DEF d
<1>3. \/ LibrarySchema(c, id, failing) = Collected(c, id, failing)
      \/ LibrarySchema(c, id, failing) = Collected(d, id, failing)
      \/ failing = "schema" /\ LibrarySchema(c, id, failing) = Fetched(FALSE, c)
  BY DEF LibrarySchema, d
<1>4. CASE LibrarySchema(c, id, failing) = Collected(c, id, failing)
  BY <1>4, CollectedHolds
<1>5. CASE LibrarySchema(c, id, failing) = Collected(d, id, failing)
  BY <1>2, <1>5, CollectedHolds
<1>6. CASE failing = "schema" /\ LibrarySchema(c, id, failing) = Fetched(FALSE, c)
  BY <1>6 DEF Fetched
<1>. QED
  BY <1>3, <1>4, <1>5, <1>6

LEMMA ConfluentSchemaHolds ==
  ASSUME NEW c, CacheOK(c), SerializedOK(c), NEW id, NEW failing
  PROVE  LET fetched == ConfluentSchema(c, id, failing)
         IN  /\ SerializedOK(fetched.cache)
             /\ fetched.ok => /\ id \in DOMAIN SchemaIds
                              /\ SchemaOf(id).type = "protobuf" =>
                                   fetched.cache.schemas[id] = "serialized"
             /\ failing = "none" => (fetched.ok <=> id \in DOMAIN SchemaIds)
<1>. DEFINE client == Asked(c.client, id)
            text == [c EXCEPT !.client = client, !.schemas = With(@, id, client[id])]
            emptied == [c EXCEPT !.client = <<>>]
            serialized == [c EXCEPT !.client = With(<<>>, id, "serialized"),
                                    !.schemas = With(@, id, "serialized")]
            fetched == ConfluentSchema(c, id, failing)
            protobuf == SchemaOf(id).type = "protobuf"
<1>1. /\ IsCache(c) /\ DOMAIN c.schemas \subseteq DOMAIN SchemaIds
      /\ DOMAIN c.client \subseteq DOMAIN SchemaIds
  BY DEF CacheOK
<1>2. ASSUME NEW x, NEW y
      PROVE  [c EXCEPT !.client = x, !.schemas = With(@, id, y)].schemas = With(c.schemas, id, y)
  <2>. DEFINE z == With(c.schemas, id, y)
  <2>1. [c EXCEPT !.client = x, !.schemas = With(@, id, y)] = [c EXCEPT !.client = x, !.schemas = z]
    BY <1>1 DEF IsCache
  <2>. HIDE DEF z
  <2>2. [c EXCEPT !.client = x, !.schemas = z] =
          [client |-> x, schemas |-> z, parsed |-> c.parsed, metadata |-> c.metadata]
    BY <1>1, CacheChangesTwice
  <2>3. [c EXCEPT !.client = x, !.schemas = With(@, id, y)].schemas = z
    BY <2>1, <2>2
  <2>. QED
    BY <2>3 DEF z
<1>3. text.schemas = With(c.schemas, id, client[id])
  BY <1>2
<1>4. serialized.schemas = With(c.schemas, id, "serialized")
  BY <1>2
<1>5. emptied.schemas = c.schemas
  BY <1>1, CacheFields
<1>6. \/ id \in DOMAIN c.schemas /\ fetched = Fetched(TRUE, c)
      \/ (failing = "schema" \/ id \notin DOMAIN SchemaIds) /\ fetched = Fetched(FALSE, c)
      \/ id \in DOMAIN SchemaIds /\ ~protobuf /\ fetched = Fetched(TRUE, text)
      \/ failing = "serialized" /\ fetched = Fetched(FALSE, emptied)
      \/ id \in DOMAIN SchemaIds /\ fetched = Fetched(TRUE, serialized)
  <2>. HIDE DEF text, emptied, serialized, client, protobuf
  <2>. QED
    BY <1>1 DEF ConfluentSchema, text, emptied, serialized, client, protobuf
<1>. HIDE DEF text, emptied, serialized, client, fetched
<1>7. SerializedOK(text) \/ protobuf
  BY <1>3 DEF SerializedOK, With
<1>8. SerializedOK(serialized) /\ serialized.schemas[id] = "serialized"
  BY <1>4 DEF SerializedOK, With
<1>9. SerializedOK(emptied)
  BY <1>5 DEF SerializedOK
<1>10. /\ SerializedOK(fetched.cache)
       /\ fetched.ok => /\ id \in DOMAIN SchemaIds
                        /\ protobuf => fetched.cache.schemas[id] = "serialized"
       /\ failing = "none" => (fetched.ok <=> id \in DOMAIN SchemaIds)
  <2>1. CASE id \in DOMAIN c.schemas /\ fetched = Fetched(TRUE, c)
    BY <1>1, <2>1 DEF Fetched, SerializedOK
  <2>2. CASE (failing = "schema" \/ id \notin DOMAIN SchemaIds) /\ fetched = Fetched(FALSE, c)
    BY <2>2 DEF Fetched
  <2>3. CASE id \in DOMAIN SchemaIds /\ ~protobuf /\ fetched = Fetched(TRUE, text)
    BY <1>7, <2>3 DEF Fetched
  <2>4. CASE failing = "serialized" /\ fetched = Fetched(FALSE, emptied)
    BY <1>9, <2>4 DEF Fetched
  <2>5. CASE id \in DOMAIN SchemaIds /\ fetched = Fetched(TRUE, serialized)
    BY <1>8, <2>5 DEF Fetched
  <2>. QED
    BY <1>6, <2>1, <2>2, <2>3, <2>4, <2>5
<1>. QED
  BY <1>10 DEF fetched

LEMMA ConfluentContentHolds ==
  ASSUME NEW c, IsCache(c), NEW id, NEW data, NEW failing
  PROVE  ConfluentContent(c, id, data, failing).cache.schemas = c.schemas
<1>. DEFINE collected == Collected(c, id, failing).cache
            library == LibrarySchema(c, id, failing).cache
            content == ConfluentContent(c, id, data, failing)
<1>1. collected.schemas = c.schemas /\ library.schemas = c.schemas
  BY CollectedHolds, LibrarySchemaHolds
<1>2. \E r : content \in {Result(r, c), Result(r, collected), Result(r, library)}
  BY DEF ConfluentContent, ConfluentProtobuf
<1>. HIDE DEF content, collected, library
<1>3. content.cache.schemas = c.schemas
  BY <1>1, <1>2 DEF Result
<1>. QED
  BY <1>3 DEF content

\* A schema that is held in the form its kind wants is read in the same way
\* whatever else is kept.
LEMMA ConfluentContentIsTheSame ==
  ASSUME NEW c, IsCache(c), NEW d, IsCache(d), NEW id, NEW data,
         SchemaOf(id).type = "protobuf" =>
           c.schemas[id] = "serialized" /\ d.schemas[id] = "serialized"
  PROVE  ConfluentContent(c, id, data, "none").result = ConfluentContent(d, id, data, "none").result
<1>1. /\ Collected(c, id, "none").ok /\ Collected(d, id, "none").ok
      /\ LibrarySchema(c, id, "none").ok /\ LibrarySchema(d, id, "none").ok
  BY CollectedHolds, LibrarySchemaHolds
<1>2. CASE SchemaOf(id).type = "protobuf"
  <2>1. ConfluentProtobuf(c, id, data, "none").result = ConfluentProtobuf(d, id, data, "none").result
    BY <1>1, <1>2 DEF ConfluentProtobuf, Result
  <2>. QED
    BY <1>2, <2>1 DEF ConfluentContent
<1>3. CASE SchemaOf(id).type # "protobuf"
  BY <1>1, <1>3 DEF ConfluentContent, Result
<1>. QED
  BY <1>2, <1>3

LEMMA ApicurioContentIsTheSame ==
  ASSUME NEW c, IsCache(c), NEW d, IsCache(d), NEW id, NEW data
  PROVE  ApicurioContent(c, id, data, "none").result = ApicurioContent(d, id, data, "none").result
<1>. DEFINE type == SchemaOf(id).type
            json == ApicurioJson(data.payload, SchemaOf(id).name)
            avro == Decoded(Reader("avro", SchemaOf(id).name), data.payload)
            protobuf == ApicurioProtobuf(SchemaIds[id], data.payload)
            content == CASE type = "json" -> json [] type = "avro" -> avro
                         [] type = "protobuf" -> protobuf
            parseable == Parseable["apicurio"][SchemaIds[id]]
<1>1. ASSUME NEW b, IsCache(b)
      PROVE  ApicurioContent(b, id, data, "none").result = IF ~parseable THEN Raised("data") ELSE content
  <2>1. Collected(b, id, "none").ok
    BY <1>1, CollectedHolds
  <2>2. ~parseable => ApicurioContent(b, id, data, "none") = Result(Raised("data"), b)
    BY DEF ApicurioContent
  <2>3. parseable => ApicurioContent(b, id, data, "none") =
                       Result(content, Collected(b, id, "none").cache)
    BY <2>1 DEF ApicurioContent
  <2>. HIDE DEF content, parseable
  <2>. QED
    BY <2>2, <2>3 DEF Result
<1>. HIDE DEF content, parseable
<1>. QED
  BY <1>1

LEMMA DescribedIsTheSame ==
  ASSUME NEW r, IsResult(r), NEW c, NEW id, NEW field
  PROVE  SameRead(Described(r, c, id, field).result, r) /\ Described(r, c, id, field).cache = c
<1>. DEFINE schema == IF <<id, field>> \in DOMAIN c.metadata THEN c.metadata[<<id, field>>]
                      ELSE NoSchema
            d == [r EXCEPT !.schema = schema]
<1>1. Described(r, c, id, field) = Result(d, c)
  BY DEF Described
<1>. HIDE DEF schema
<1>2. d.kind = r.kind /\ d.reader = r.reader /\ d.payload = r.payload
  BY DEF IsResult
<1>. HIDE DEF d
<1>. QED
  BY <1>1, <1>2 DEF SameRead, Result

LEMMA ConfluentMetadataHolds ==
  ASSUME NEW c, IsCache(c), NEW id, NEW field, NEW failing
  PROVE  ConfluentMetadata(c, id, field, failing).schemas = c.schemas
<1>1. ASSUME NEW schema
      PROVE  [c EXCEPT !.metadata = With(@, <<id, field>>, schema)].schemas = c.schemas
  BY CacheFields DEF IsCache
<1>. QED
  BY <1>1 DEF ConfluentMetadata

\* What Confluent's deserializer reads is told by the data alone, and what it
\* holds stays in serialized form.
LEMMA ConfluentReadHolds ==
  ASSUME NEW c, CacheOK(c), SerializedOK(c), NEW field, NEW data, NEW failing
  PROVE  SerializedOK(ConfluentRead(c, field, data, failing).cache)
<1>. DEFINE fetched == ConfluentSchema(c, data.id, failing)
            content == ConfluentContent(fetched.cache, data.id, data, failing)
            found == ConfluentMetadata(content.cache, data.id, field, failing)
            described == Described(content.result, found, data.id, field)
            read == ConfluentRead(c, field, data, failing)
<1>1. /\ CacheOK(fetched.cache) /\ SerializedOK(fetched.cache)
      /\ fetched.ok => data.id \in DOMAIN SchemaIds
  BY ConfluentSchemaIs, ConfluentSchemaHolds
<1>. HIDE DEF fetched
<1>2. IsCache(fetched.cache)
  BY <1>1 DEF CacheOK
<1>3. fetched.ok => IsResult(content.result) /\ CacheOK(content.cache)
  BY <1>1, ConfluentContentIsOK DEF ReadOK, IsRead, IsResult
<1>4. content.cache.schemas = fetched.cache.schemas
  BY <1>2, ConfluentContentHolds
<1>. HIDE DEF content
<1>5. fetched.ok => /\ IsCache(content.cache) /\ IsResult(content.result)
                    /\ found.schemas = fetched.cache.schemas
  BY <1>3, <1>4, ConfluentMetadataHolds DEF CacheOK
<1>. HIDE DEF found
<1>6. fetched.ok => described.cache = found
  BY <1>5, DescribedIsTheSame
<1>7. \/ read = Result(Raised("data"), c)
      \/ read = Result(Raised("data"), fetched.cache)
      \/ fetched.ok /\ read = content
      \/ fetched.ok /\ read = described
  <2>. HIDE DEF described
  <2>. QED
    BY DEF ConfluentRead, Contents, WithMetadata, fetched, content, found, described
<1>. HIDE DEF described, read
<1>8. read.cache.schemas \in {c.schemas, fetched.cache.schemas}
  BY <1>4, <1>5, <1>6, <1>7 DEF Result
<1>9. SerializedOK(read.cache)
  BY <1>1, <1>8 DEF SerializedOK
<1>. QED
  BY <1>9 DEF read

LEMMA SameIsSame ==
  ASSUME NEW r, NEW s, NEW x
  PROVE  /\ SameRead(r, r)
         /\ SameRead(r, s) <=> SameRead(s, r)
         /\ SameRead(r, x) /\ SameRead(x, s) => SameRead(r, s)
BY DEF SameRead

LEMMA ConfluentReadIs ==
  ASSUME NEW c, CacheOK(c), SerializedOK(c), NEW field, NEW data
  PROVE  LET fetched == ConfluentSchema(c, data.id, "none")
         IN  SameRead(ConfluentRead(c, field, data, "none").result,
                      IF HasRegistryHeader(data) /\ data.id \in DOMAIN SchemaIds
                      THEN ConfluentContent(fetched.cache, data.id, data, "none").result
                      ELSE Raised("data"))
<1>. DEFINE fetched == ConfluentSchema(c, data.id, "none")
            content == ConfluentContent(fetched.cache, data.id, data, "none")
            found == ConfluentMetadata(content.cache, data.id, field, "none")
            described == Described(content.result, found, data.id, field)
            read == ConfluentRead(c, field, data, "none")
<1>1. CacheOK(fetched.cache) /\ (fetched.ok <=> data.id \in DOMAIN SchemaIds)
  BY ConfluentSchemaIs, ConfluentSchemaHolds
<1>. HIDE DEF fetched
<1>2. fetched.ok => IsResult(content.result)
  BY <1>1, ConfluentContentIsOK DEF ReadOK, IsRead, IsResult
<1>. HIDE DEF content, found
<1>3. fetched.ok => SameRead(described.result, content.result)
  BY <1>2, DescribedIsTheSame
<1>4. /\ ~HasRegistryHeader(data) => read = Result(Raised("data"), c)
      /\ HasRegistryHeader(data) /\ ~fetched.ok => read = Result(Raised("data"), fetched.cache)
      /\ HasRegistryHeader(data) /\ fetched.ok => read \in {content, described}
  <2>. HIDE DEF described
  <2>. QED
    BY DEF ConfluentRead, Contents, WithMetadata, fetched, content, found, described
<1>. HIDE DEF described, read
<1>5. SameRead(read.result, IF HasRegistryHeader(data) /\ data.id \in DOMAIN SchemaIds
                            THEN content.result ELSE Raised("data"))
  BY <1>1, <1>3, <1>4, SameIsSame DEF Result
<1>. QED
  BY <1>5 DEF read, content, fetched

LEMMA ConfluentReadIsTheSame ==
  ASSUME NEW c, CacheOK(c), SerializedOK(c), NEW d, CacheOK(d), SerializedOK(d), NEW field, NEW data
  PROVE  SameRead(ConfluentRead(c, field, data, "none").result,
                  ConfluentRead(d, field, data, "none").result)
<1>. DEFINE Fetch(b) == ConfluentSchema(b, data.id, "none").cache
            Content(b) == ConfluentContent(Fetch(b), data.id, data, "none").result
            Of(b) == IF HasRegistryHeader(data) /\ data.id \in DOMAIN SchemaIds
                     THEN Content(b) ELSE Raised("data")
<1>1. ASSUME NEW b, CacheOK(b), SerializedOK(b)
      PROVE  /\ SameRead(ConfluentRead(b, field, data, "none").result, Of(b))
             /\ IsCache(Fetch(b))
             /\ data.id \in DOMAIN SchemaIds /\ SchemaOf(data.id).type = "protobuf" =>
                  Fetch(b).schemas[data.id] = "serialized"
  <2>1. SameRead(ConfluentRead(b, field, data, "none").result, Of(b))
    BY <1>1, ConfluentReadIs
  <2>2. /\ CacheOK(Fetch(b))
        /\ data.id \in DOMAIN SchemaIds /\ SchemaOf(data.id).type = "protobuf" =>
             Fetch(b).schemas[data.id] = "serialized"
    BY <1>1, ConfluentSchemaIs, ConfluentSchemaHolds
  <2>. QED
    BY <2>1, <2>2 DEF CacheOK
<1>2. data.id \in DOMAIN SchemaIds => Content(c) = Content(d)
  <2>. HIDE DEF Fetch
  <2>. QED
    BY <1>1, ConfluentContentIsTheSame
<1>. HIDE DEF Content
<1>3. Of(c) = Of(d)
  BY <1>2
<1>. HIDE DEF Of
<1>. QED
  BY <1>1, <1>3, SameIsSame

LEMMA ApicurioArtifactHolds ==
  ASSUME NEW c, CacheOK(c), NEW id
  PROVE  ApicurioArtifact(c, id, "none").ok <=> id \in DOMAIN SchemaIds
<1>. DEFINE d == [c EXCEPT !.schemas = With(@, id, "text")]
<1>1. DOMAIN c.schemas \subseteq DOMAIN SchemaIds
  BY DEF CacheOK
<1>2. ApicurioArtifact(c, id, "none") =
        IF id \in DOMAIN c.schemas THEN Fetched(TRUE, c)
        ELSE IF id \notin DOMAIN SchemaIds THEN Fetched(FALSE, c) ELSE Fetched(TRUE, d)
  BY DEF ApicurioArtifact
<1>. HIDE DEF d
<1>. QED
  BY <1>1, <1>2 DEF Fetched

LEMMA ApicurioReadIs ==
  ASSUME NEW c, CacheOK(c), NEW field, NEW data
  PROVE  LET fetched == ApicurioArtifact(c, data.id, "none")
         IN  SameRead(ApicurioRead(c, field, data, "none").result,
                      IF HasRegistryHeader(data) /\ data.id \in DOMAIN SchemaIds
                      THEN ApicurioContent(fetched.cache, data.id, data, "none").result
                      ELSE Raised("data"))
<1>. DEFINE fetched == ApicurioArtifact(c, data.id, "none")
            content == ApicurioContent(fetched.cache, data.id, data, "none")
            found == ApicurioMetadata(content.cache, data.id, field, "none")
            described == Described(content.result, found, data.id, field)
            read == ApicurioRead(c, field, data, "none")
<1>1. CacheOK(fetched.cache) /\ (fetched.ok <=> data.id \in DOMAIN SchemaIds)
  BY ApicurioArtifactIs, ApicurioArtifactHolds
<1>. HIDE DEF fetched
<1>2. fetched.ok => IsResult(content.result)
  BY <1>1, ApicurioContentIsOK DEF ReadOK, IsRead, IsResult
<1>. HIDE DEF content, found
<1>3. fetched.ok => SameRead(described.result, content.result)
  BY <1>2, DescribedIsTheSame
<1>4. /\ ~HasRegistryHeader(data) => read = Result(Raised("data"), c)
      /\ HasRegistryHeader(data) /\ ~fetched.ok => read = Result(Raised("data"), fetched.cache)
      /\ HasRegistryHeader(data) /\ fetched.ok => read \in {content, described}
  <2>. HIDE DEF described
  <2>. QED
    BY DEF ApicurioRead, Contents, WithMetadata, fetched, content, found, described
<1>. HIDE DEF described, read
<1>5. SameRead(read.result, IF HasRegistryHeader(data) /\ data.id \in DOMAIN SchemaIds
                            THEN content.result ELSE Raised("data"))
  BY <1>1, <1>3, <1>4, SameIsSame DEF Result
<1>. QED
  BY <1>5 DEF read, content, fetched

LEMMA ApicurioReadIsTheSame ==
  ASSUME NEW c, CacheOK(c), NEW d, CacheOK(d), NEW field, NEW data
  PROVE  SameRead(ApicurioRead(c, field, data, "none").result,
                  ApicurioRead(d, field, data, "none").result)
<1>. DEFINE Fetch(b) == ApicurioArtifact(b, data.id, "none").cache
            Content(b) == ApicurioContent(Fetch(b), data.id, data, "none").result
            Of(b) == IF HasRegistryHeader(data) /\ data.id \in DOMAIN SchemaIds
                     THEN Content(b) ELSE Raised("data")
<1>1. ASSUME NEW b, CacheOK(b)
      PROVE  /\ SameRead(ApicurioRead(b, field, data, "none").result, Of(b))
             /\ IsCache(Fetch(b))
  <2>1. SameRead(ApicurioRead(b, field, data, "none").result, Of(b))
    BY <1>1, ApicurioReadIs
  <2>2. CacheOK(Fetch(b))
    BY <1>1, ApicurioArtifactIs
  <2>. QED
    BY <2>1, <2>2 DEF CacheOK
<1>2. Content(c) = Content(d)
  <2>. HIDE DEF Fetch
  <2>. QED
    BY <1>1, ApicurioContentIsTheSame
<1>. HIDE DEF Content
<1>3. Of(c) = Of(d)
  BY <1>2
<1>. HIDE DEF Of
<1>. QED
  BY <1>1, <1>3, SameIsSame

\* What a consumer that has just started reads of the data.
Afresh(config, field, data) ==
  IF ProviderOf(config) = "apicurio" THEN ApicurioRead(EmptyCache, field, data, "none")
  ELSE ConfluentRead(EmptyCache, field, data, "none")

FailuresAreForgotten ==
  last.record # 0 /\ last.failing = "none" =>
    \A field \in Fields :
      LET written == line.records[last.record][field]
      IN  line.formats[field] = "registry" /\ ~written.null =>
            SameRead(last.outcomes[field],
                     Afresh(session.options.registry, field, written.data).result)

\* What is held serves the provider that is asked.
HoldsFor(config, c) == ProviderOf(config) # "apicurio" => SerializedOK(c)

KeepsNoFailure ==
  /\ session = NoSession => cache = EmptyCache /\ last = NothingRead
  /\ session # NoSession /\ session.mode = "consumer" =>
       HoldsFor(session.options.registry, cache)
  /\ FailuresAreForgotten

LEMMA EmptyHolds == CacheOK(EmptyCache) /\ SerializedOK(EmptyCache)
BY DEF CacheOK, IsCache, SerializedOK, EmptyCache

LEMMA BackendIsAfresh ==
  ASSUME CacheOK(cache), NEW config, HoldsFor(config, cache), NEW field, NEW data
  PROVE  SameRead(Backend(config, field, data, "none").result, Afresh(config, field, data).result)
<1>1. CASE ProviderOf(config) = "apicurio"
  BY <1>1, EmptyHolds, ApicurioReadIsTheSame DEF Backend, Afresh
<1>2. CASE ProviderOf(config) # "apicurio"
  BY <1>2, EmptyHolds, ConfluentReadIsTheSame DEF Backend, Afresh, HoldsFor
<1>. QED
  BY <1>1, <1>2

LEMMA FieldHolds ==
  ASSUME CacheOK(cache), NEW c, HoldsFor(c.registry, cache), NEW field,
         NEW format \in FieldFormats, NEW written, NEW failing
  PROVE  HoldsFor(c.registry, FieldRead(c, field, format, written, failing).cache)
<1>. DEFINE read == FieldRead(c, field, format, written, failing)
<1>1. \A r : HoldsFor(c.registry, Result(r, cache).cache)
  BY DEF Result
<1>2. CASE written.null
  BY <1>1, <1>2, FieldReadIs
<1>3. CASE ~written.null /\ format \in Primitives
  BY <1>1, <1>3, PrimitiveFieldIs
<1>4. CASE ~written.null /\ format \in {"bytes", "json", "avro", "protobuf"}
  BY <1>1, <1>4, FieldReadIs
<1>5. CASE ~written.null /\ format = "registry"
  <2>1. read = Backend(c.registry, field, written.data, failing)
    BY <1>5, FieldReadIs
  <2>. QED
    BY <2>1, ConfluentReadHolds DEF HoldsFor, Backend
<1>. QED
  BY <1>2, <1>3, <1>4, <1>5 DEF FieldFormats

LEMMA ReadRecordForgets ==
  ASSUME IInv, KeepsNoFailure, NEW i, NEW failing, ReadRecord(i, failing)
  PROVE  KeepsNoFailure'
<1>. DEFINE outcomes == Outcomes(session.options, line.records[i], failing)
            record == line.records[i]
            header == IF record.header.null THEN NullRead
                      ELSE PrimitiveRead("string", record.header.data)
            given == {field \in Fields : ~record[field].null}
            config == session.options.registry
<1>1. /\ session # NoSession /\ session.mode = "consumer"
      /\ session.formats = line.formats /\ line.formats \in [Fields -> FieldFormats]
  BY OutcomesAre DEF ReadRecord
<1>2. CacheOK(cache) /\ HoldsFor(config, cache)
  BY <1>1 DEF IInv, KeepsNoFailure
<1>3. /\ last' = Presented(i, failing, outcomes, header)
      /\ cache' = IF given = {} THEN cache ELSE outcomes[CHOOSE field \in given : TRUE].cache
      /\ line' = line /\ session' = session
  BY DEF ReadRecord, ReadAs
<1>4. \A field \in Fields :
        outcomes[field] = FieldRead(session.options, field, line.formats[field], record[field], failing)
  BY <1>1 DEF Outcomes
<1>5. \A field \in Fields : HoldsFor(config, outcomes[field].cache)
  BY <1>1, <1>2, <1>4, FieldHolds
<1>6. ASSUME NEW field \in Fields, failing = "none", line.formats[field] = "registry",
             ~record[field].null
      PROVE  SameRead(outcomes[field].result, Afresh(config, field, record[field].data).result)
  <2>1. outcomes[field] = Backend(config, field, record[field].data, "none")
    BY <1>4, <1>6, FieldReadIs
  <2>. QED
    BY <1>2, <2>1, BackendIsAfresh
<1>. HIDE DEF outcomes, header
<1>7. /\ last'.record = i /\ last'.failing = failing
      /\ \A field \in Fields : last'.outcomes[field] = outcomes[field].result
  BY <1>3, PresentedIs DEF Presented
<1>8. FailuresAreForgotten'
  BY <1>3, <1>6, <1>7 DEF FailuresAreForgotten
<1>9. HoldsFor(config, cache')
  BY <1>2, <1>3, <1>5
<1>. QED
  BY <1>1, <1>3, <1>8, <1>9 DEF KeepsNoFailure

LEMMA FailuresStay == Spec => []KeepsNoFailure
<1>1. Init => KeepsNoFailure
  BY DEF Init, KeepsNoFailure, FailuresAreForgotten, NothingRead
<1>2. IInv /\ KeepsNoFailure /\ [Next]_vars => KeepsNoFailure'
  <2>. SUFFICES ASSUME IInv, KeepsNoFailure, [Next]_vars PROVE KeepsNoFailure'
    OBVIOUS
  <2>1. CASE Start
    <3>1. /\ session = NoSession /\ cache' = cache /\ last' = last
          /\ cache = EmptyCache /\ last = NothingRead
      BY <2>1 DEF IInv, StartIsTrue, Start, KeepsNoFailure
    <3>2. FailuresAreForgotten'
      BY <3>1 DEF FailuresAreForgotten, NothingRead
    <3>. QED
      BY <3>1, <3>2, EmptyHolds DEF KeepsNoFailure, HoldsFor
  <2>2. CASE \E i \in DOMAIN line.records, failing \in RequestKinds \cup {"none"} : ReadRecord(i, failing)
    BY <2>2, ReadRecordForgets
  <2>3. CASE \E path \in DOMAIN fs : FileLost(path)
    BY <2>3 DEF FileLost, readerVars, KeepsNoFailure, FailuresAreForgotten
  <2>4. CASE UNCHANGED vars
    BY <2>4 DEF vars, readerVars, KeepsNoFailure, FailuresAreForgotten
  <2>5. CASE \E id \in DOMAIN SchemaIds : RegistryAges(id)
    <3>1. /\ session.mode = "consumer" /\ ProviderOf(session.options.registry) = "apicurio"
          /\ phase = "running" /\ line' = line /\ session' = session /\ last' = last
      BY <2>5 DEF RegistryAges
    <3>2. session # NoSession
      BY <3>1 DEF IInv, StartIsTrue
    <3>. QED
      BY <3>1, <3>2 DEF KeepsNoFailure, HoldsFor, FailuresAreForgotten
  <2>. QED
    BY <2>1, <2>2, <2>3, <2>4, <2>5 DEF Next
<1>. QED
  BY <1>1, <1>2, Invariant, PTL DEF Spec

\* A record that is read while the registry answers gives what it would give to
\* a consumer that has just started: no failure that was met before, and nothing
\* that was kept, changes its content or makes it fail.
THEOREM ReadingsAreFresh == Spec => []FailuresAreForgotten
BY FailuresStay, PTL DEF KeepsNoFailure

-----------------------------------------------------------------------------
\* SchemaCollection: schemas, and what they reference.

\* The references of a schema, each one to a schema there is.
LEMMA ReferencesAre ==
  ASSUME NEW schemas, Acyclic(schemas), NEW s \in DOMAIN schemas
  PROVE  /\ References(schemas, s) \in Seq(AReference)
         /\ Len(References(schemas, s)) \in Nat
         /\ DOMAIN References(schemas, s) = 1..Len(References(schemas, s))
         /\ \A i \in 1..Len(References(schemas, s)) :
              /\ References(schemas, s)[i] \in AReference
              /\ References(schemas, s)[i] \in Range(References(schemas, s))
         /\ \A r \in Range(References(schemas, s)) :
              /\ r \in AReference /\ r.target \in DOMAIN schemas
              /\ \E i \in 1..Len(References(schemas, s)) : r = References(schemas, s)[i]
<1>. DEFINE refs == References(schemas, s)
<1>1. refs \in Seq(AReference) /\ \A r \in Range(refs) : r.target \in DOMAIN schemas
  BY DEF Acyclic
<1>. HIDE DEF refs
<1>2. /\ Len(refs) \in Nat /\ DOMAIN refs = 1..Len(refs)
      /\ \A i \in 1..Len(refs) : refs[i] \in AReference
  BY <1>1
<1>3. \A i \in 1..Len(refs) : refs[i] \in Range(refs)
  BY <1>2 DEF Range
<1>4. \A r \in Range(refs) : \E i \in 1..Len(refs) : r = refs[i]
  BY <1>2 DEF Range
<1>. QED  BY <1>1, <1>2, <1>3, <1>4 DEF refs

\* Each schema is of a higher rank than those it references, with their references.
Weight(schemas, rank, s) == rank[s] + Len(References(schemas, s))
IsRanked(schemas, set, rank, bound) ==
  /\ rank \in [set -> Nat] /\ bound \in Nat
  /\ \A s \in set : /\ Weight(schemas, rank, s) < bound
                    /\ \A r \in Range(References(schemas, s)) :
                         r.target \in set /\ Weight(schemas, rank, r.target) < rank[s]
IsRank(schemas, rank) == \E bound : IsRanked(schemas, DOMAIN schemas, rank, bound)

\* One more schema, above all that it references.
LEMMA RankGrows ==
  ASSUME NEW schemas, Acyclic(schemas), NEW set \in SUBSET DOMAIN schemas,
         NEW rank, NEW bound, IsRanked(schemas, set, rank, bound), set # DOMAIN schemas
  PROVE  \E s \in DOMAIN schemas \ set : \E more, b : IsRanked(schemas, set \cup {s}, more, b)
<1>1. PICK s \in DOMAIN schemas \ set :
        \A r \in Range(References(schemas, s)) : r.target \notin DOMAIN schemas \ set
  <2>. DEFINE others == DOMAIN schemas \ set
  <2>1. others \in (SUBSET DOMAIN schemas) \ {{}}
    OBVIOUS
  <2>. HIDE DEF others
  <2>2. \E s \in others : \A r \in Range(References(schemas, s)) : r.target \notin others
    BY <2>1, Zenon DEF Acyclic
  <2>. QED  BY <2>2 DEF others
<1>. DEFINE more == [x \in set \cup {s} |-> IF x = s THEN bound ELSE rank[x]]
            b == bound + Len(References(schemas, s)) + 1
<1>2. /\ \A r \in Range(References(schemas, s)) : r.target \in set
      /\ Len(References(schemas, s)) \in Nat
  BY <1>1, ReferencesAre
<1>3. /\ rank \in [set -> Nat] /\ bound \in Nat
      /\ \A x \in set : /\ Weight(schemas, rank, x) < bound
                        /\ \A r \in Range(References(schemas, x)) :
                             r.target \in set /\ Weight(schemas, rank, r.target) < rank[x]
  BY DEF IsRanked
<1>4. more \in [set \cup {s} -> Nat] /\ more[s] = bound /\ \A x \in set : more[x] = rank[x]
  BY <1>3
<1>. HIDE DEF more
<1>5. /\ b \in Nat /\ bound < b
      /\ \A x \in set : Weight(schemas, more, x) = Weight(schemas, rank, x)
      /\ Weight(schemas, more, s) < b
  BY <1>2, <1>3, <1>4 DEF Weight
<1>. HIDE DEF b
<1>6. \A x \in set : Weight(schemas, more, x) < b
  <2>1. \A x \in set : Weight(schemas, rank, x) \in Int
    <3>. SUFFICES ASSUME NEW x \in set PROVE Weight(schemas, rank, x) \in Int
      OBVIOUS
    <3>1. Len(References(schemas, x)) \in Nat /\ rank[x] \in Nat
      BY <1>3, ReferencesAre
    <3>. QED  BY <3>1 DEF Weight
  <2>. QED  BY <1>3, <1>5, <2>1
<1>7. \A x \in set \cup {s} : \A r \in Range(References(schemas, x)) :
        r.target \in set \cup {s} /\ Weight(schemas, more, r.target) < more[x]
  BY <1>2, <1>3, <1>4, <1>5
<1>8. IsRanked(schemas, set \cup {s}, more, b)
  BY <1>4, <1>5, <1>6, <1>7 DEF IsRanked
<1>. QED  BY <1>1, <1>8

\* Schemas whose references have no cycle have ranks.
LEMMA RankExists ==
  ASSUME NEW schemas, IsFiniteSet(DOMAIN schemas), Acyclic(schemas)
  PROVE  \E rank : IsRank(schemas, rank)
<1>. DEFINE D == DOMAIN schemas
            Some(k) == \E set \in SUBSET D : \E rank, bound :
                         Cardinality(set) = k /\ IsRanked(schemas, set, rank, bound)
            T == {k \in Nat : Some(k)}
            n == Cardinality(D)
<1>1. n \in Nat
  BY FS_CardinalityType
<1>2. 0 \in T
  <2>. DEFINE none == [x \in {} |-> 0]
  <2>1. IsRanked(schemas, {}, none, 0)
    BY DEF IsRanked
  <2>2. Cardinality({}) = 0 /\ {} \in SUBSET D
    BY FS_EmptySet
  <2>. HIDE DEF none
  <2>3. Some(0)
    BY <2>1, <2>2
  <2>. HIDE DEF Some
  <2>. QED  BY <2>3
<1>3. \A i \in 1..n : i - 1 \in T => i \in T
  <2>. SUFFICES ASSUME NEW i \in 1..n, i - 1 \in T PROVE i \in T
    OBVIOUS
  <2>1. PICK set \in SUBSET D : \E rank, bound :
               Cardinality(set) = i - 1 /\ IsRanked(schemas, set, rank, bound)
    <3>1. Some(i - 1)
      <4>. HIDE DEF Some
      <4>. QED  OBVIOUS
    <3>. QED  BY <3>1
  <2>2. PICK rank, bound : Cardinality(set) = i - 1 /\ IsRanked(schemas, set, rank, bound)
    BY <2>1
  <2>3. i - 1 < n /\ i \in Nat
    <3>. HIDE DEF n, T
    <3>. QED  BY <1>1
  <2>4. set # D
    BY <2>2, <2>3
  <2>5. PICK s \in D \ set : \E more, b : IsRanked(schemas, set \cup {s}, more, b)
    BY <2>2, <2>4, RankGrows
  <2>6. IsFiniteSet(set)
    BY FS_Subset
  <2>7. Cardinality(set \cup {s}) = (i - 1) + 1
    BY <2>2, <2>6, FS_AddElement
  <2>8. (i - 1) + 1 = i
    BY <2>3
  <2>9. Some(i)
    BY <2>5, <2>7, <2>8
  <2>. HIDE DEF Some
  <2>. QED  BY <2>3, <2>9
<1>. HIDE DEF T, n, Some
<1>4. \A i \in 0..n : i \in T
  BY <1>1, <1>2, <1>3, UpTo
<1>5. n \in T
  BY <1>1, <1>4
<1>6. PICK set \in SUBSET D : \E rank, bound :
             Cardinality(set) = n /\ IsRanked(schemas, set, rank, bound)
  BY <1>5, Zenon DEF T, Some
<1>7. set = D
  BY <1>6, FS_Subset DEF n
<1>. QED  BY <1>6, <1>7 DEF IsRank

-----------------------------------------------------------------------------
\* What a schema reaches.
LEMMA ReachableIs ==
  ASSUME NEW schemas, Acyclic(schemas), NEW root \in DOMAIN schemas
  PROVE  /\ Reachable(schemas, root) \in SUBSET DOMAIN schemas
         /\ root \in Reachable(schemas, root) /\ Closed(schemas, Reachable(schemas, root))
         /\ \A set \in SUBSET DOMAIN schemas :
              root \in set /\ Closed(schemas, set) => Reachable(schemas, root) \subseteq set
<1>1. ASSUME NEW s \in Reachable(schemas, root), NEW r \in Range(References(schemas, s))
      PROVE  r.target \in Reachable(schemas, root)
  <2>1. s \in DOMAIN schemas
    BY DEF Reachable
  <2>2. r.target \in DOMAIN schemas
    BY <2>1, ReferencesAre
  <2>3. ASSUME NEW set \in SUBSET DOMAIN schemas, root \in set, Closed(schemas, set)
        PROVE  r.target \in set
    <3>1. s \in set
      BY <2>3 DEF Reachable
    <3>. QED  BY <2>3, <3>1 DEF Closed
  <2>. QED  BY <2>2, <2>3 DEF Reachable
<1>2. Closed(schemas, Reachable(schemas, root))
  BY <1>1 DEF Closed
<1>. QED  BY <1>2 DEF Reachable

\* The places of a walk, the one before each, the reference between the two, and
\* where the walk over what that references ends.
Before(place) == <<place[1], place[2] - 1>>
Crossed(schemas, place) == References(schemas, place[1])[place[2]]
Beyond(schemas, place) == End(schemas, Crossed(schemas, place).target)
Distance(schemas, set, rank) == [place \in Places(schemas, set) |-> rank[place[1]] + place[2]]

\* The place before one, and the place at the end of what is crossed, are places.
LEMMA PlaceIs ==
  ASSUME NEW schemas, Acyclic(schemas), NEW set \in SUBSET DOMAIN schemas, Closed(schemas, set),
         NEW place \in Places(schemas, set)
  PROVE  /\ place[1] \in set /\ place[2] \in 0..Len(References(schemas, place[1]))
         /\ place = <<place[1], place[2]>>
         /\ Len(References(schemas, place[1])) \in Nat
         /\ place[2] # 0 =>
              /\ place[2] \in 1..Len(References(schemas, place[1]))
              /\ Before(place) \in Places(schemas, set)
              /\ Crossed(schemas, place) \in AReference
              /\ Crossed(schemas, place) \in Range(References(schemas, place[1]))
              /\ Crossed(schemas, place).target \in set
              /\ Beyond(schemas, place) \in Places(schemas, set)
<1>1. PICK s \in set : place \in {s} \X (0 .. Len(References(schemas, s)))
  BY DEF Places
<1>2. place[1] = s /\ place[2] \in 0..Len(References(schemas, s)) /\ place = <<place[1], place[2]>>
  BY <1>1
<1>3. /\ s \in DOMAIN schemas /\ Len(References(schemas, s)) \in Nat
      /\ \A i \in 1..Len(References(schemas, s)) :
           /\ References(schemas, s)[i] \in AReference
           /\ References(schemas, s)[i] \in Range(References(schemas, s))
  BY ReferencesAre
<1>4. ASSUME place[2] # 0
      PROVE  /\ place[2] \in 1..Len(References(schemas, place[1]))
             /\ Before(place) \in Places(schemas, set)
             /\ Crossed(schemas, place) \in AReference
             /\ Crossed(schemas, place) \in Range(References(schemas, place[1]))
             /\ Crossed(schemas, place).target \in set
             /\ Beyond(schemas, place) \in Places(schemas, set)
  <2>1. place[2] \in 1..Len(References(schemas, s))
        /\ place[2] - 1 \in 0..Len(References(schemas, s))
    BY <1>2, <1>3, <1>4
  <2>2. Before(place) \in {s} \X (0 .. Len(References(schemas, s)))
    BY <1>2, <2>1 DEF Before
  <2>3. Before(place) \in Places(schemas, set)
    BY <2>2, Zenon DEF Places
  <2>4. /\ Crossed(schemas, place) \in AReference
        /\ Crossed(schemas, place) \in Range(References(schemas, s))
    BY <1>2, <1>3, <2>1 DEF Crossed
  <2>5. Crossed(schemas, place).target \in set
    BY <2>4, Zenon DEF Closed
  <2>. DEFINE t == Crossed(schemas, place).target
  <2>6. Len(References(schemas, t)) \in Nat
    BY <2>5, ReferencesAre
  <2>7. Beyond(schemas, place) = <<t, Len(References(schemas, t))>>
    BY DEF Beyond, End
  <2>. HIDE DEF t
  <2>8. Beyond(schemas, place) \in {t} \X (0 .. Len(References(schemas, t)))
    BY <2>6, <2>7
  <2>9. Beyond(schemas, place) \in Places(schemas, set)
    BY <2>5, <2>8, Zenon DEF Places, t
  <2>. QED  BY <1>2, <2>1, <2>3, <2>4, <2>5, <2>9
<1>. QED  BY <1>2, <1>3, <1>4

\* The end of a schema's references is a place of it.
LEMMA EndIs ==
  ASSUME NEW schemas, Acyclic(schemas), NEW set \in SUBSET DOMAIN schemas, NEW s \in set
  PROVE  /\ End(schemas, s) \in Places(schemas, set)
         /\ End(schemas, s)[1] = s /\ End(schemas, s)[2] = Len(References(schemas, s))
<1>1. Len(References(schemas, s)) \in Nat
  BY ReferencesAre
<1>2. End(schemas, s) = <<s, Len(References(schemas, s))>>
  BY DEF End
<1>3. End(schemas, s) \in {s} \X (0 .. Len(References(schemas, s)))
  BY <1>1, <1>2
<1>4. End(schemas, s) \in Places(schemas, set)
  BY <1>3, Zenon DEF Places
<1>. QED  BY <1>2, <1>4

\* Either is nearer than the place itself.
LEMMA DistanceIs ==
  ASSUME NEW schemas, Acyclic(schemas), NEW set \in SUBSET DOMAIN schemas, Closed(schemas, set),
         NEW rank, IsRank(schemas, rank)
  PROVE  /\ Distance(schemas, set, rank) \in [Places(schemas, set) -> Nat]
         /\ \A place \in Places(schemas, set) : place[2] # 0 =>
              /\ Distance(schemas, set, rank)[Before(place)] < Distance(schemas, set, rank)[place]
              /\ Distance(schemas, set, rank)[Beyond(schemas, place)]
                   < Distance(schemas, set, rank)[place]
<1>. DEFINE m == Distance(schemas, set, rank)
<1>1. /\ rank \in [DOMAIN schemas -> Nat]
      /\ \A s \in DOMAIN schemas : \A r \in Range(References(schemas, s)) :
           r.target \in DOMAIN schemas /\ Weight(schemas, rank, r.target) < rank[s]
  BY DEF IsRank, IsRanked
<1>2. \A place \in Places(schemas, set) : m[place] = rank[place[1]] + place[2]
  BY DEF Distance
<1>3. \A place \in Places(schemas, set) : m[place] \in Nat /\ place[2] \in Nat /\ rank[place[1]] \in Nat
  BY <1>1, <1>2, PlaceIs
<1>4. m \in [Places(schemas, set) -> Nat]
  BY <1>3 DEF Distance
<1>5. ASSUME NEW place \in Places(schemas, set), place[2] # 0
      PROVE  m[Before(place)] < m[place] /\ m[Beyond(schemas, place)] < m[place]
  <2>1. Before(place) \in Places(schemas, set) /\ Beyond(schemas, place) \in Places(schemas, set)
    BY <1>5, PlaceIs
  <2>2. m[Before(place)] = rank[place[1]] + (place[2] - 1)
    BY <1>2, <2>1 DEF Before
  <2>. DEFINE t == Crossed(schemas, place).target
  <2>3. place[1] \in DOMAIN schemas /\ Crossed(schemas, place) \in Range(References(schemas, place[1]))
    BY <1>5, PlaceIs
  <2>4. Weight(schemas, rank, t) < rank[place[1]]
    BY <1>1, <2>3, Zenon
  <2>5. m[Beyond(schemas, place)] = Weight(schemas, rank, t)
    BY <1>2, <2>1 DEF Beyond, End, Weight
  <2>. HIDE DEF m, t
  <2>6. m[Beyond(schemas, place)] \in Nat
    BY <1>3, <2>1
  <2>. QED  BY <1>2, <1>3, <2>1, <2>2, <2>4, <2>5, <2>6
<1>. QED  BY <1>4, <1>5

-----------------------------------------------------------------------------
\* Walks.
Crossing(schemas, walk, place, identity, walked) ==
  IF place[2] = 0 THEN walked
  ELSE LET earlier == walk[Before(place)][walked]
           reference == Crossed(schemas, place)
       IN  IF reference[identity] \in earlier.visited THEN earlier
           ELSE Leave(walk[Beyond(schemas, place)][Meet(earlier, reference, identity)], reference)

IsWalk(schemas, set, identity, walk) ==
  walk = [place \in Places(schemas, set) |->
            [walked \in Walk |-> Crossing(schemas, walk, place, identity, walked)]]

\* Meeting a reference and leaving it keeps a walk a walk.
LEMMA MeetIs ==
  ASSUME NEW walked \in Walk, NEW reference \in AReference, NEW identity \in {ByName, ByVersion}
  PROVE  /\ Meet(walked, reference, identity) \in Walk
         /\ Leave(walked, reference) \in Walk
         /\ reference[identity] \in FileNames
<1>1. /\ walked.visited \in SUBSET FileNames /\ walked.before \in Seq(AReference)
      /\ walked.after \in Seq(AReference)
  BY DEF Walk
<1>2. reference[identity] \in FileNames
  BY DEF AReference, ByName, ByVersion, FileNames
<1>3. Append(walked.before, reference) \in Seq(AReference) /\ Append(walked.after, reference) \in Seq(AReference)
  BY <1>1
<1>4. walked.visited \cup {reference[identity]} \in SUBSET FileNames
  BY <1>1, <1>2
<1>5. Meet(walked, reference, identity) \in Walk
  BY <1>1, <1>3, <1>4 DEF Meet, Walk
<1>6. Leave(walked, reference) \in Walk
  BY <1>1, <1>3 DEF Leave, Walk
<1>. QED  BY <1>2, <1>5, <1>6

\* The recursion of a walk defines a function.
LEMMA WalkExists ==
  ASSUME NEW schemas, Acyclic(schemas), NEW set \in SUBSET DOMAIN schemas, Closed(schemas, set),
         NEW rank, IsRank(schemas, rank), NEW identity \in {ByName, ByVersion}
  PROVE  \E walk \in [Places(schemas, set) -> [Walk -> Walk]] :
           IsWalk(schemas, set, identity, walk)
<1>. DEFINE D == Places(schemas, set)
            V == [Walk -> Walk]
            m == Distance(schemas, set, rank)
            Onward(place, g, walked) == Crossing(schemas, g, place, identity, walked)
            B == [p \in D \X [D -> V] |-> [walked \in Walk |-> Onward(p[1], p[2], walked)]]
<1>1. ASSUME NEW place \in D, NEW g \in [D -> V], NEW walked \in Walk
      PROVE  Onward(place, g, walked) \in Walk
  <2>1. CASE place[2] = 0
    BY <2>1, Zenon DEF Crossing
  <2>2. CASE place[2] # 0
    <3>. DEFINE earlier == g[Before(place)][walked]
                reference == Crossed(schemas, place)
                met == Meet(earlier, reference, identity)
    <3>1. Before(place) \in D /\ Beyond(schemas, place) \in D /\ reference \in AReference
      BY <2>2, PlaceIs
    <3>2. g[Before(place)] \in V /\ g[Beyond(schemas, place)] \in V
      BY <3>1
    <3>3. earlier \in Walk
      BY <3>2
    <3>. HIDE DEF earlier, reference
    <3>4. met \in Walk
      BY <3>1, <3>3, MeetIs
    <3>5. g[Beyond(schemas, place)][met] \in Walk
      BY <3>2, <3>4
    <3>. HIDE DEF met
    <3>6. Leave(g[Beyond(schemas, place)][met], reference) \in Walk
      BY <3>1, <3>5, MeetIs
    <3>7. Onward(place, g, walked) = IF reference[identity] \in earlier.visited THEN earlier
                                    ELSE Leave(g[Beyond(schemas, place)][met], reference)
      BY <2>2, Zenon DEF Crossing, earlier, reference, met
    <3>. QED  BY <3>3, <3>6, <3>7, Zenon
  <2>. QED  BY <2>1, <2>2
<1>2. \A place \in D : place[2] # 0 =>
        /\ Before(place) \in D /\ m[Before(place)] < m[place]
        /\ Beyond(schemas, place) \in D /\ m[Beyond(schemas, place)] < m[place]
  BY PlaceIs, DistanceIs
<1>3. m \in [D -> Nat]
  BY DistanceIs
<1>4. \A place \in D : \A g \in [D -> V] : B[<<place, g>>] = [walked \in Walk |-> Onward(place, g, walked)]
  <2>. HIDE DEF D, V, Onward
  <2>. QED  OBVIOUS
<1>5. B \in [D \X [D -> V] -> V]
  <2>1. \A place \in D : \A g \in [D -> V] : [walked \in Walk |-> Onward(place, g, walked)] \in V
    BY <1>1, Zenon
  <2>. HIDE DEF D, V, Onward
  <2>. QED  BY <2>1
<1>6. ASSUME NEW place \in D, NEW g \in [D -> V], NEW h \in [D -> V],
             \A y \in D : m[y] < m[place] => g[y] = h[y]
      PROVE  B[<<place, g>>] = B[<<place, h>>]
  <2>1. place[2] # 0 => g[Before(place)] = h[Before(place)]
                        /\ g[Beyond(schemas, place)] = h[Beyond(schemas, place)]
    BY <1>2, <1>6, Zenon
  <2>2. \A walked \in Walk : Onward(place, g, walked) = Onward(place, h, walked)
    BY <2>1, Zenon DEF Crossing
  <2>3. [walked \in Walk |-> Onward(place, g, walked)] = [walked \in Walk |-> Onward(place, h, walked)]
    <3>. HIDE DEF Onward
    <3>. QED  BY <2>2, SMT
  <2>. HIDE DEF B, D, V, Onward
  <2>4. /\ B[<<place, g>>] = [walked \in Walk |-> Onward(place, g, walked)]
        /\ B[<<place, h>>] = [walked \in Walk |-> Onward(place, h, walked)]
    BY <1>4
  <2>. QED  BY <2>3, <2>4, Zenon
<1>7. V # {}
  <2>1. [walked \in Walk |-> walked] \in V
    OBVIOUS
  <2>. QED  BY <2>1
<1>8. Recursion(D, V, m, B)
  <2>. HIDE DEF D, V, m, B
  <2>. QED  BY <1>3, <1>5, <1>6, <1>7 DEF Recursion
<1>9. PICK walk \in [D -> V] : \A place \in D : walk[place] = B[<<place, walk>>]
  <2>. HIDE DEF D, V, m, B
  <2>. QED  BY <1>8, RecursionExists
<1>10. \A place \in D : walk[place] = [walked \in Walk |-> Onward(place, walk, walked)]
  <2>. HIDE DEF B, D, V
  <2>. QED  BY <1>4, <1>9, Zenon
<1>11. walk = [place \in D |-> [walked \in Walk |-> Onward(place, walk, walked)]]
  <2>. HIDE DEF D, V, Onward
  <2>. QED  BY <1>9, <1>10
<1>. QED  BY <1>9, <1>11, Zenon DEF IsWalk

\* A walk over the references of a schema.
TheWalk(schemas, root, identity) ==
  CHOOSE walk : IsWalk(schemas, Reachable(schemas, root), identity, walk)
Started(visitedAtFirst) == [visited |-> visitedAtFirst, before |-> <<>>, after |-> <<>>]

\* Walked is that walk, from the end of the root's references.
LEMMA WalkedIs ==
  ASSUME NEW schemas, NEW root, NEW identity, NEW visitedAtFirst
  PROVE  Walked(schemas, root, identity, visitedAtFirst)
           = TheWalk(schemas, root, identity)[End(schemas, root)][Started(visitedAtFirst)]
BY DEF Walked, TheWalk, IsWalk, Crossing, Before, Crossed, Beyond, Started

-----------------------------------------------------------------------------
\* What a walk visits.
LEMMA AppendedRange ==
  ASSUME NEW S, NEW s \in Seq(S), NEW x \in S
  PROVE  Range(Append(s, x)) = Range(s) \cup {x}
<1>1. /\ Len(s) \in Nat /\ DOMAIN s = 1..Len(s) /\ DOMAIN Append(s, x) = 1..Len(s) + 1
      /\ \A i \in 1..Len(s) : Append(s, x)[i] = s[i]
      /\ Append(s, x)[Len(s) + 1] = x
  OBVIOUS
<1>. DEFINE t == Append(s, x)
<1>. HIDE DEF t
<1>2. \A i \in 1..Len(s) + 1 : i \in 1..Len(s) \/ i = Len(s) + 1
  BY <1>1
<1>3. \A i \in 1..Len(s) : i \in 1..Len(s) + 1
  BY <1>1
<1>4. Len(s) + 1 \in 1..Len(s) + 1
  BY <1>1
<1>5. Range(t) \subseteq Range(s) \cup {x}
  BY <1>1, <1>2 DEF Range, t
<1>6. Range(s) \cup {x} \subseteq Range(t)
  BY <1>1, <1>3, <1>4 DEF Range, t
<1>. QED  BY <1>5, <1>6 DEF t

\* What is asked for by references of the schemas of a set.
RefersTo(schemas, set, r) == \E s \in set : r \in Range(References(schemas, s))
Identified(identity, references, x) == \E r \in references : r[identity] = x
IsDone(schemas, identity, r, visited) ==
  \A q \in Range(References(schemas, r.target)) : q[identity] \in visited

Grows(walked, later) ==
  /\ walked.visited \subseteq later.visited
  /\ Range(walked.before) \subseteq Range(later.before)
  /\ Range(walked.after) \subseteq Range(later.after)
Noted(identity, walked, later) ==
  \A x \in later.visited \ walked.visited :
    Identified(identity, Range(later.before), x) /\ Identified(identity, Range(later.after), x)
Belong(schemas, set, walked, later) ==
  /\ \A r \in Range(later.before) \ Range(walked.before) : RefersTo(schemas, set, r)
  /\ \A r \in Range(later.after) \ Range(walked.after) : RefersTo(schemas, set, r)
Done(schemas, identity, walked, later) ==
  \A r \in Range(later.after) \ Range(walked.after) : IsDone(schemas, identity, r, later.visited)
Seen(schemas, identity, place, later) ==
  \A i \in 1..place[2] : References(schemas, place[1])[i][identity] \in later.visited

\* What a walk up to a place adds to what was walked.
Visits(schemas, set, identity, place, walked, later) ==
  /\ later \in Walk
  /\ Grows(walked, later) /\ Noted(identity, walked, later)
  /\ Belong(schemas, set, walked, later)
  /\ Done(schemas, identity, walked, later)
  /\ Seen(schemas, identity, place, later)

\* One reference further, that leads to what is not visited yet.
Entry(schemas, set, identity, place, earlier, reference, inner, later) ==
  /\ earlier \in Walk /\ reference \in AReference
  /\ reference \in Range(References(schemas, place[1]))
  /\ reference[identity] \notin earlier.visited
  /\ Visits(schemas, set, identity, Beyond(schemas, place),
            Meet(earlier, reference, identity), inner)
  /\ later = Leave(inner, reference)

Gained(schemas, set, identity, place, earlier, reference, inner, later) ==
  /\ later \in Walk /\ inner \in Walk
  /\ later.visited = inner.visited
  /\ earlier.visited \cup {reference[identity]} \subseteq inner.visited
  /\ Range(later.before) = Range(inner.before)
  /\ Range(earlier.before) \cup {reference} \subseteq Range(inner.before)
  /\ Range(later.after) = Range(inner.after) \cup {reference}
  /\ Range(earlier.after) \subseteq Range(inner.after)
  /\ \A x \in inner.visited \ (earlier.visited \cup {reference[identity]}) :
       /\ Identified(identity, Range(inner.before), x)
       /\ Identified(identity, Range(inner.after), x)
  /\ \A r \in Range(inner.before) \ (Range(earlier.before) \cup {reference}) :
       RefersTo(schemas, set, r)
  /\ \A r \in Range(inner.after) \ Range(earlier.after) :
       RefersTo(schemas, set, r) /\ IsDone(schemas, identity, r, inner.visited)
  /\ Seen(schemas, identity, Beyond(schemas, place), inner)

\* What is gained by entering a reference.
LEMMA EntryIs ==
  ASSUME NEW schemas, NEW set, NEW identity \in {ByName, ByVersion}, NEW place, NEW earlier,
         NEW reference, NEW inner, NEW later,
         Entry(schemas, set, identity, place, earlier, reference, inner, later)
  PROVE  Gained(schemas, set, identity, place, earlier, reference, inner, later)
<1>. DEFINE met == Meet(earlier, reference, identity)
<1>1. /\ earlier \in Walk /\ reference \in AReference /\ later = Leave(inner, reference)
      /\ Visits(schemas, set, identity, Beyond(schemas, place), met, inner)
  BY Zenon DEF Entry
<1>2. inner \in Walk
  BY <1>1, Zenon DEF Visits
<1>3. later \in Walk
  BY <1>1, <1>2, MeetIs
<1>4. earlier.before \in Seq(AReference) /\ inner.after \in Seq(AReference)
  BY <1>1, <1>2 DEF Walk
<1>5. /\ met.visited = earlier.visited \cup {reference[identity]}
      /\ Range(met.before) = Range(earlier.before) \cup {reference}
      /\ met.after = earlier.after
  BY <1>1, <1>4, AppendedRange DEF Meet
<1>6. /\ later.visited = inner.visited
      /\ later.before = inner.before
      /\ Range(later.after) = Range(inner.after) \cup {reference}
  BY <1>1, <1>4, AppendedRange DEF Leave
<1>. HIDE DEF met
<1>7. /\ met.visited \subseteq inner.visited
      /\ Range(met.before) \subseteq Range(inner.before)
      /\ Range(met.after) \subseteq Range(inner.after)
  BY <1>1, Zenon DEF Visits, Grows
<1>8. /\ \A x \in inner.visited \ met.visited :
           Identified(identity, Range(inner.before), x) /\ Identified(identity, Range(inner.after), x)
      /\ \A r \in Range(inner.before) \ Range(met.before) : RefersTo(schemas, set, r)
      /\ \A r \in Range(inner.after) \ Range(met.after) : RefersTo(schemas, set, r)
      /\ \A r \in Range(inner.after) \ Range(met.after) : IsDone(schemas, identity, r, inner.visited)
      /\ Seen(schemas, identity, Beyond(schemas, place), inner)
  BY <1>1, Zenon DEF Visits, Noted, Belong, Done
<1>. QED  BY <1>2, <1>3, <1>5, <1>6, <1>7, <1>8 DEF Gained

\* A walk over what a reference leads to, and the reference itself, visit what
\* the walk up to that reference should.
LEMMA EntryVisits ==
  ASSUME NEW schemas, Acyclic(schemas), NEW set \in SUBSET DOMAIN schemas, Closed(schemas, set),
         NEW identity \in {ByName, ByVersion}, NEW place \in Places(schemas, set), place[2] # 0,
         NEW walked, NEW earlier, NEW inner, NEW later,
         Visits(schemas, set, identity, Before(place), walked, earlier),
         Entry(schemas, set, identity, place, earlier, Crossed(schemas, place), inner, later)
  PROVE  Visits(schemas, set, identity, place, walked, later)
<1>. DEFINE reference == Crossed(schemas, place)
            id == reference[identity]
<1>1. /\ later \in Walk /\ inner \in Walk
      /\ later.visited = inner.visited
      /\ earlier.visited \cup {id} \subseteq inner.visited
      /\ Range(later.before) = Range(inner.before)
      /\ Range(earlier.before) \cup {reference} \subseteq Range(inner.before)
      /\ Range(later.after) = Range(inner.after) \cup {reference}
      /\ Range(earlier.after) \subseteq Range(inner.after)
      /\ \A x \in inner.visited \ (earlier.visited \cup {id}) :
           /\ Identified(identity, Range(inner.before), x)
           /\ Identified(identity, Range(inner.after), x)
      /\ \A r \in Range(inner.before) \ (Range(earlier.before) \cup {reference}) :
           RefersTo(schemas, set, r)
      /\ \A r \in Range(inner.after) \ Range(earlier.after) :
           RefersTo(schemas, set, r) /\ IsDone(schemas, identity, r, inner.visited)
      /\ Seen(schemas, identity, Beyond(schemas, place), inner)
  <2>1. Entry(schemas, set, identity, place, earlier, reference, inner, later)
    OBVIOUS
  <2>. HIDE DEF reference
  <2>2. Gained(schemas, set, identity, place, earlier, reference, inner, later)
    BY <2>1, EntryIs, Zenon
  <2>. QED  BY <2>2, Zenon DEF Gained
<1>2. /\ walked.visited \subseteq earlier.visited
      /\ Range(walked.before) \subseteq Range(earlier.before)
      /\ Range(walked.after) \subseteq Range(earlier.after)
      /\ \A x \in earlier.visited \ walked.visited :
           Identified(identity, Range(earlier.before), x) /\ Identified(identity, Range(earlier.after), x)
      /\ \A r \in Range(earlier.before) \ Range(walked.before) : RefersTo(schemas, set, r)
      /\ \A r \in Range(earlier.after) \ Range(walked.after) :
           RefersTo(schemas, set, r) /\ IsDone(schemas, identity, r, earlier.visited)
      /\ Seen(schemas, identity, Before(place), earlier)
  BY Zenon DEF Visits, Grows, Noted, Belong, Done
<1>3. /\ place[1] \in set /\ reference \in Range(References(schemas, place[1]))
      /\ place[2] \in 1..Len(References(schemas, place[1]))
      /\ Len(References(schemas, place[1])) \in Nat
      /\ reference.target \in set
  BY PlaceIs
<1>4. RefersTo(schemas, set, reference)
  BY <1>3, Zenon DEF RefersTo
<1>5. Seen(schemas, identity, place, later)
  <2>1. Before(place)[1] = place[1] /\ Before(place)[2] = place[2] - 1
    BY DEF Before
  <2>2. \A i \in 1..place[2] - 1 : References(schemas, place[1])[i][identity] \in later.visited
    BY <1>1, <1>2, <2>1 DEF Seen
  <2>3. References(schemas, place[1])[place[2]][identity] \in later.visited
    BY <1>1 DEF Crossed
  <2>4. \A i \in 1..place[2] : i \in 1..place[2] - 1 \/ i = place[2]
    BY <1>3
  <2>. QED  BY <2>2, <2>3, <2>4, Zenon DEF Seen
<1>6. IsDone(schemas, identity, reference, later.visited)
  <2>. DEFINE t == reference.target
  <2>1. /\ Beyond(schemas, place)[1] = t
        /\ Beyond(schemas, place)[2] = Len(References(schemas, t))
    BY DEF Beyond, End
  <2>2. \A i \in 1..Len(References(schemas, t)) : References(schemas, t)[i][identity] \in later.visited
    BY <1>1, <2>1, Zenon DEF Seen
  <2>3. t \in DOMAIN schemas
    BY <1>3
  <2>4. \A q \in Range(References(schemas, t)) :
          \E i \in 1..Len(References(schemas, t)) : q = References(schemas, t)[i]
    BY <2>3, ReferencesAre
  <2>. QED  BY <2>2, <2>4, Zenon DEF IsDone
<1>. HIDE DEF reference
<1>7. Grows(walked, later)
  BY <1>1, <1>2 DEF Grows
<1>8. Noted(identity, walked, later)
  BY <1>1, <1>2 DEF Noted, Identified
<1>9. Belong(schemas, set, walked, later)
  BY <1>1, <1>2, <1>4 DEF Belong
<1>10. Done(schemas, identity, walked, later)
  <2>1. \A r : IsDone(schemas, identity, r, earlier.visited) => IsDone(schemas, identity, r, later.visited)
    BY <1>1, Zenon DEF IsDone
  <2>. QED  BY <1>1, <1>2, <1>6, <2>1 DEF Done
<1>. QED  BY <1>1, <1>5, <1>7, <1>8, <1>9, <1>10, Zenon DEF Visits

-----------------------------------------------------------------------------
\* Induction over the places of a walk.
Inductive(schemas, set, S) ==
  \A place \in Places(schemas, set) :
    (place[2] # 0 => Before(place) \in S /\ Beyond(schemas, place) \in S) => place \in S

\* What holds of a place when it does of the nearer two, holds of all.
LEMMA PlacesInduction ==
  ASSUME NEW schemas, Acyclic(schemas), NEW set \in SUBSET DOMAIN schemas, Closed(schemas, set),
         NEW rank, IsRank(schemas, rank), NEW S, Inductive(schemas, set, S)
  PROVE  \A place \in Places(schemas, set) : place \in S
<1>. DEFINE m == Distance(schemas, set, rank)
            Bad == {place \in Places(schemas, set) : place \notin S}
            T == {m[place] : place \in Bad}
<1>1. m \in [Places(schemas, set) -> Nat]
  BY DistanceIs
<1>2. \A place \in Places(schemas, set) : place[2] # 0 =>
        /\ Before(place) \in Places(schemas, set) /\ m[Before(place)] < m[place]
        /\ Beyond(schemas, place) \in Places(schemas, set) /\ m[Beyond(schemas, place)] < m[place]
  BY PlaceIs, DistanceIs
<1>. SUFFICES ASSUME Bad # {} PROVE FALSE
  OBVIOUS
<1>. HIDE DEF m
<1>3. T \in SUBSET Nat /\ T # {}
  <2>1. \A x \in Bad : m[x] \in Nat /\ m[x] \in T
    BY <1>1
  <2>2. \A t \in T : \E x \in Bad : t = m[x]
    OBVIOUS
  <2>. HIDE DEF T, Bad
  <2>. QED  BY <2>1, <2>2
<1>. HIDE DEF T
<1>4. PICK k \in T : \A j \in T : k <= j
  BY <1>3, LeastOf
<1>5. PICK x \in Bad : k = m[x]
  BY DEF T
<1>6. \A y \in Places(schemas, set) : m[y] < m[x] => y \in S
  <2>. SUFFICES ASSUME NEW y \in Places(schemas, set), m[y] < m[x], y \notin S PROVE FALSE
    OBVIOUS
  <2>1. m[y] \in T
    BY DEF T
  <2>2. m[x] \in Nat /\ m[y] \in Nat
    BY <1>1
  <2>. QED  BY <1>4, <1>5, <2>1, <2>2
<1>7. x[2] # 0 => Before(x) \in S /\ Beyond(schemas, x) \in S
  BY <1>2, <1>6
<1>8. x \in S
  BY <1>7, Zenon DEF Inductive
<1>. QED  BY <1>8

\* A walk from any place visits what it should.
LEMMA WalksVisit ==
  ASSUME NEW schemas, Acyclic(schemas), NEW set \in SUBSET DOMAIN schemas, Closed(schemas, set),
         NEW rank, IsRank(schemas, rank), NEW identity \in {ByName, ByVersion},
         NEW walk, IsWalk(schemas, set, identity, walk)
  PROVE  \A place \in Places(schemas, set) : \A walked \in Walk :
           Visits(schemas, set, identity, place, walked, walk[place][walked])
<1>. DEFINE Good(place) == \A walked \in Walk :
                             Visits(schemas, set, identity, place, walked, walk[place][walked])
            S == {place \in Places(schemas, set) : Good(place)}
<1>1. \A place \in Places(schemas, set) : \A walked \in Walk :
        walk[place][walked] = Crossing(schemas, walk, place, identity, walked)
  <2>1. \A place \in Places(schemas, set) :
          walk[place] = [walked \in Walk |-> Crossing(schemas, walk, place, identity, walked)]
    BY SMT DEF IsWalk
  <2>. SUFFICES ASSUME NEW place \in Places(schemas, set), NEW walked \in Walk
                PROVE  walk[place][walked] = Crossing(schemas, walk, place, identity, walked)
    OBVIOUS
  <2>. DEFINE f == walk[place]
              G(w) == Crossing(schemas, walk, place, identity, w)
  <2>2. f = [w \in Walk |-> G(w)]
    BY <2>1
  <2>. HIDE DEF f, G
  <2>3. f[walked] = G(walked)
    BY <2>2
  <2>. QED  BY <2>3 DEF f, G
<1>2. ASSUME NEW place \in Places(schemas, set),
             place[2] # 0 => Before(place) \in S /\ Beyond(schemas, place) \in S,
             NEW walked \in Walk
      PROVE  Visits(schemas, set, identity, place, walked, walk[place][walked])
  <2>1. CASE place[2] = 0
    <3>1. walk[place][walked] = walked
      BY <1>1, <2>1, Zenon DEF Crossing
    <3>2. 1..place[2] = {}
      BY <2>1
    <3>. QED  BY <3>1, <3>2 DEF Visits, Grows, Noted, Belong, Done, Seen
  <2>2. CASE place[2] # 0
    <3>. DEFINE earlier == walk[Before(place)][walked]
                reference == Crossed(schemas, place)
                met == Meet(earlier, reference, identity)
                inner == walk[Beyond(schemas, place)][met]
                later == walk[place][walked]
    <3>1. Visits(schemas, set, identity, Before(place), walked, earlier)
      BY <1>2, <2>2, Zenon
    <3>2. later = IF reference[identity] \in earlier.visited THEN earlier
                  ELSE Leave(inner, reference)
      BY <1>1, <2>2, Zenon DEF Crossing
    <3>3. earlier \in Walk
      BY <3>1, Zenon DEF Visits
    <3>4. /\ reference \in AReference /\ reference \in Range(References(schemas, place[1]))
          /\ place[2] \in 1..Len(References(schemas, place[1]))
      BY <2>2, PlaceIs
    <3>. HIDE DEF earlier
    <3>5. CASE reference[identity] \in earlier.visited
      <4>1. later = earlier
        BY <3>2, <3>5, Zenon
      <4>2. Seen(schemas, identity, place, earlier)
        <5>1. Seen(schemas, identity, Before(place), earlier)
          BY <3>1, Zenon DEF Visits
        <5>2. Before(place)[1] = place[1] /\ Before(place)[2] = place[2] - 1
          BY DEF Before
        <5>3. \A i \in 1..place[2] - 1 : References(schemas, place[1])[i][identity] \in earlier.visited
          BY <5>1, <5>2 DEF Seen
        <5>4. References(schemas, place[1])[place[2]][identity] \in earlier.visited
          BY <3>5 DEF Crossed
        <5>5. \A i \in 1..place[2] : i \in 1..place[2] - 1 \/ i = place[2]
          BY <3>4
        <5>. QED  BY <5>3, <5>4, <5>5, Zenon DEF Seen
      <4>3. Visits(schemas, set, identity, place, walked, earlier)
        BY <3>1, <4>2, Zenon DEF Visits
      <4>. HIDE DEF later
      <4>. QED  BY <4>1, <4>3 DEF later
    <3>6. CASE reference[identity] \notin earlier.visited
      <4>. HIDE DEF reference
      <4>1. met \in Walk
        BY <3>3, <3>4, MeetIs
      <4>2. Visits(schemas, set, identity, Beyond(schemas, place), met, inner)
        BY <1>2, <2>2, <4>1, Zenon
      <4>3. later = Leave(inner, reference)
        BY <3>2, <3>6, Zenon
      <4>. HIDE DEF inner, later
      <4>4. Entry(schemas, set, identity, place, earlier, reference, inner, later)
        BY <3>3, <3>4, <3>6, <4>2, <4>3, Zenon DEF Entry
      <4>5. Entry(schemas, set, identity, place, earlier, Crossed(schemas, place), inner, later)
        BY <4>4 DEF reference
      <4>6. Visits(schemas, set, identity, place, walked, later)
        BY <2>2, <3>1, <4>5, EntryVisits
      <4>. QED  BY <4>6 DEF later
    <3>. QED  BY <3>5, <3>6
  <2>. QED  BY <2>1, <2>2
<1>3. Inductive(schemas, set, S)
  <2>. SUFFICES ASSUME NEW place \in Places(schemas, set),
                       place[2] # 0 => Before(place) \in S /\ Beyond(schemas, place) \in S
                PROVE  place \in S
    BY Zenon DEF Inductive
  <2>1. Good(place)
    BY <1>2, Zenon
  <2>. HIDE DEF Good
  <2>. QED  BY <2>1
<1>. HIDE DEF S
<1>4. \A place \in Places(schemas, set) : place \in S
  BY <1>3, PlacesInduction
<1>. QED  BY <1>4, Zenon DEF S

-----------------------------------------------------------------------------
\* A walk from a schema meets everything that the schema references.
LEMMA OfIs ==
  ASSUME NEW schemas, NEW root, NEW r
  PROVE  RefersTo(schemas, Reachable(schemas, root), r) <=> r \in AllReferences(schemas, root)
BY DEF RefersTo, AllReferences

\* All references are those of the schemas that are reached.
LEMMA AllReferencesAre ==
  ASSUME NEW schemas, Acyclic(schemas), NEW root \in DOMAIN schemas,
         NEW r \in AllReferences(schemas, root)
  PROVE  r \in AReference /\ r.target \in Reachable(schemas, root) /\ r.target \in DOMAIN schemas
<1>1. PICK s \in Reachable(schemas, root) : r \in Range(References(schemas, s))
  BY DEF AllReferences
<1>2. s \in DOMAIN schemas /\ Closed(schemas, Reachable(schemas, root))
  BY ReachableIs
<1>3. r \in AReference /\ r.target \in DOMAIN schemas
  BY <1>1, <1>2, ReferencesAre
<1>. QED  BY <1>1, <1>2, <1>3, Zenon DEF Closed

\* No reference is taken for one that was visited, unless it is the same.
TellsApart(schemas, root, identity, visitedAtFirst) ==
  /\ visitedAtFirst \in SUBSET FileNames
  /\ \A r, q \in AllReferences(schemas, root) : r[identity] = q[identity] => r.target = q.target
  /\ \A r \in AllReferences(schemas, root) : r[identity] \notin visitedAtFirst

Covers(schemas, root, identity, references) ==
  /\ Range(references) \subseteq AllReferences(schemas, root)
  /\ \A q \in AllReferences(schemas, root) : Identified(identity, Range(references), q[identity])

\* A walk from the root exists, over what the root reaches.
LEMMA TheWalkIs ==
  ASSUME NEW schemas, IsFiniteSet(DOMAIN schemas), Acyclic(schemas), NEW root \in DOMAIN schemas,
         NEW identity \in {ByName, ByVersion}
  PROVE  IsWalk(schemas, Reachable(schemas, root), identity, TheWalk(schemas, root, identity))
<1>1. PICK rank : IsRank(schemas, rank)
  BY RankExists
<1>. DEFINE set == Reachable(schemas, root)
<1>2. set \in SUBSET DOMAIN schemas /\ Closed(schemas, set)
  BY ReachableIs
<1>3. \E walk \in [Places(schemas, set) -> [Walk -> Walk]] : IsWalk(schemas, set, identity, walk)
  <2>. HIDE DEF set
  <2>. QED  BY <1>1, <1>2, WalkExists
<1>. HIDE DEF set
<1>4. \E walk : IsWalk(schemas, set, identity, walk)
  BY <1>3
<1>. QED  BY <1>4, Zenon DEF TheWalk, set

\* The walk starts with nothing met.
LEMMA StartedIs ==
  ASSUME NEW visitedAtFirst \in SUBSET FileNames
  PROVE  /\ Started(visitedAtFirst) \in Walk /\ Started(visitedAtFirst).visited = visitedAtFirst
         /\ Range(Started(visitedAtFirst).before) = {} /\ Range(Started(visitedAtFirst).after) = {}
         /\ Started(visitedAtFirst).after = <<>>
<1>1. <<>> \in Seq(AReference) /\ Range(<<>>) = {}
  BY DEF Range
<1>. QED  BY <1>1 DEF Started, Walk

\* Every reference that is reached from the root is met, and left, by its
\* identity: by name for Confluent, by version for Apicurio.
LEMMA AllAreMet ==
  ASSUME NEW schemas, IsFiniteSet(DOMAIN schemas), Acyclic(schemas), NEW root \in DOMAIN schemas,
         NEW identity \in {ByName, ByVersion}, NEW visitedAtFirst,
         TellsApart(schemas, root, identity, visitedAtFirst)
  PROVE  /\ Walked(schemas, root, identity, visitedAtFirst) \in Walk
         /\ Covers(schemas, root, identity, Walked(schemas, root, identity, visitedAtFirst).before)
         /\ Covers(schemas, root, identity, Walked(schemas, root, identity, visitedAtFirst).after)
<1>. DEFINE set == Reachable(schemas, root)
            walk == TheWalk(schemas, root, identity)
            start == Started(visitedAtFirst)
            end == End(schemas, root)
            walked == walk[end][start]
            All == AllReferences(schemas, root)
<1>1. /\ set \in SUBSET DOMAIN schemas /\ root \in set /\ Closed(schemas, set)
      /\ \A s \in SUBSET DOMAIN schemas : root \in s /\ Closed(schemas, s) => set \subseteq s
  BY ReachableIs
<1>2. PICK rank : IsRank(schemas, rank)
  BY RankExists
<1>3. IsWalk(schemas, set, identity, walk)
  BY TheWalkIs
<1>4. visitedAtFirst \in SUBSET FileNames
  BY DEF TellsApart
<1>5. /\ start \in Walk /\ start.visited = visitedAtFirst
      /\ Range(start.before) = {} /\ Range(start.after) = {}
  BY <1>4, StartedIs
<1>6. Walked(schemas, root, identity, visitedAtFirst) = walked
  BY WalkedIs
<1>7. end \in Places(schemas, set) /\ end[1] = root /\ end[2] = Len(References(schemas, root))
  BY <1>1, EndIs
<1>8. \A r : RefersTo(schemas, set, r) <=> r \in All
  BY OfIs
<1>. HIDE DEF set, walk, start, end
<1>9. Visits(schemas, set, identity, end, start, walked)
  BY <1>1, <1>2, <1>3, <1>5, <1>7, WalksVisit
<1>. HIDE DEF walked
<1>10. /\ walked \in Walk
       /\ \A x \in walked.visited \ visitedAtFirst :
            Identified(identity, Range(walked.before), x) /\ Identified(identity, Range(walked.after), x)
       /\ \A r \in Range(walked.before) : r \in All
       /\ \A r \in Range(walked.after) : r \in All /\ IsDone(schemas, identity, r, walked.visited)
       /\ \A i \in 1..Len(References(schemas, root)) : References(schemas, root)[i][identity] \in walked.visited
  <2>1. /\ walked \in Walk
        /\ \A x \in walked.visited \ start.visited :
             Identified(identity, Range(walked.before), x) /\ Identified(identity, Range(walked.after), x)
        /\ \A r \in Range(walked.before) \ Range(start.before) : RefersTo(schemas, set, r)
        /\ \A r \in Range(walked.after) \ Range(start.after) : RefersTo(schemas, set, r)
        /\ \A r \in Range(walked.after) \ Range(start.after) : IsDone(schemas, identity, r, walked.visited)
        /\ \A i \in 1..end[2] : References(schemas, end[1])[i][identity] \in walked.visited
    BY <1>9, Zenon DEF Visits, Noted, Belong, Done, Seen
  <2>. QED  BY <1>5, <1>7, <1>8, <2>1
<1>11. /\ \A r, q \in All : r[identity] = q[identity] => r.target = q.target
       /\ \A r \in All : r[identity] \notin visitedAtFirst
  BY Zenon DEF TellsApart
<1>. DEFINE C == {s \in set : s = root \/ \E r \in Range(walked.after) : r.target = s}
<1>12. ASSUME NEW s \in C, NEW q \in Range(References(schemas, s))
       PROVE  q \in All /\ q[identity] \in walked.visited
  <2>1. q \in All
    <3>1. RefersTo(schemas, set, q)
      BY <1>12 DEF RefersTo
    <3>. QED  BY <1>8, <3>1
  <2>2. CASE s = root
    <3>1. \A r \in Range(References(schemas, root)) :
            \E i \in 1..Len(References(schemas, root)) : r = References(schemas, root)[i]
      BY ReferencesAre
    <3>. QED  BY <1>10, <1>12, <2>1, <2>2, <3>1
  <2>3. CASE s # root
    <3>1. PICK r \in Range(walked.after) : r.target = s
      BY <2>3
    <3>2. IsDone(schemas, identity, r, walked.visited)
      BY <1>10
    <3>. QED  BY <1>12, <2>1, <3>1, <3>2, Zenon DEF IsDone
  <2>. QED  BY <2>2, <2>3
<1>13. ASSUME NEW s \in C, NEW q \in Range(References(schemas, s)) PROVE q.target \in C
  <2>1. q \in All /\ q[identity] \in walked.visited
    BY <1>12, <1>13
  <2>2. Identified(identity, Range(walked.after), q[identity])
    BY <1>10, <1>11, <2>1
  <2>3. PICK r \in Range(walked.after) : r[identity] = q[identity]
    BY <2>2 DEF Identified
  <2>4. r.target = q.target
    BY <1>10, <1>11, <2>1, <2>3
  <2>5. q.target \in set
    BY <1>1, <1>13, Zenon DEF Closed
  <2>. QED  BY <2>4, <2>5
<1>14. Closed(schemas, C)
  <2>. HIDE DEF C
  <2>. QED  BY <1>13, Zenon DEF Closed
<1>15. set \subseteq C
  <2>1. root \in C /\ C \in SUBSET DOMAIN schemas
    BY <1>1
  <2>. HIDE DEF C
  <2>. QED  BY <1>1, <1>14, <2>1
<1>16. ASSUME NEW q \in All
       PROVE  /\ Identified(identity, Range(walked.before), q[identity])
              /\ Identified(identity, Range(walked.after), q[identity])
  <2>1. PICK s \in set : q \in Range(References(schemas, s))
    BY <1>8, Zenon DEF RefersTo
  <2>2. s \in C
    BY <1>15
  <2>3. q[identity] \in walked.visited
    <3>. HIDE DEF C
    <3>. QED  BY <1>12, <2>1, <2>2
  <2>. QED  BY <1>10, <1>11, <2>3
<1>17. Covers(schemas, root, identity, walked.before) /\ Covers(schemas, root, identity, walked.after)
  <2>1. Range(walked.before) \subseteq All /\ Range(walked.after) \subseteq All
    BY <1>10
  <2>. QED  BY <1>16, <2>1, Zenon DEF Covers
<1>. QED  BY <1>6, <1>10, <1>17

-----------------------------------------------------------------------------
\* Dependencies come first in what a walk over versions leaves.
Left(after) == {after[i].target : i \in DOMAIN after}
Sorted(schemas, after) ==
  \A i \in DOMAIN after :
    /\ \A q \in Range(References(schemas, after[i].target)) :
         \E j \in 1..i - 1 : after[j].target = q.target
    /\ \A j \in 1..i - 1 : after[j].target # after[i].target

\* A sorted sequence with one more whose dependencies are in it is sorted.
LEMMA SortedAppends ==
  ASSUME NEW schemas, NEW after \in Seq(AReference), Sorted(schemas, after), NEW r \in AReference,
         r.target \notin Left(after),
         \A q \in Range(References(schemas, r.target)) : q.target \in Left(after)
  PROVE  Sorted(schemas, Append(after, r)) /\ Left(Append(after, r)) = Left(after) \cup {r.target}
<1>. DEFINE more == Append(after, r)
            k == Len(after)
<1>1. /\ k \in Nat /\ DOMAIN after = 1..k /\ DOMAIN more = 1..k + 1
      /\ \A i \in 1..k : more[i] = after[i]
      /\ more[k + 1] = r
  OBVIOUS
<1>. HIDE DEF more, k
<1>2. \A i \in 1..k + 1 : i \in 1..k \/ i = k + 1
  BY <1>1
<1>3. \A i \in 1..k : i \in 1..k + 1 /\ \A j \in 1..i - 1 : j \in 1..k
  BY <1>1
<1>4. k + 1 \in 1..k + 1 /\ \A j : j \in 1..(k + 1) - 1 <=> j \in 1..k
  BY <1>1
<1>5. Left(more) = Left(after) \cup {r.target}
  <2>1. Left(more) \subseteq Left(after) \cup {r.target}
    BY <1>1, <1>2 DEF Left
  <2>2. Left(after) \cup {r.target} \subseteq Left(more)
    BY <1>1, <1>3, <1>4 DEF Left
  <2>. QED  BY <2>1, <2>2
<1>6. ASSUME NEW i \in 1..k
      PROVE  /\ \A q \in Range(References(schemas, more[i].target)) :
                  \E j \in 1..i - 1 : more[j].target = q.target
             /\ \A j \in 1..i - 1 : more[j].target # more[i].target
  <2>1. /\ \A q \in Range(References(schemas, after[i].target)) :
             \E j \in 1..i - 1 : after[j].target = q.target
        /\ \A j \in 1..i - 1 : after[j].target # after[i].target
    BY <1>1, Zenon DEF Sorted
  <2>2. more[i] = after[i] /\ \A j \in 1..i - 1 : more[j] = after[j]
    BY <1>1, <1>3
  <2>. QED  BY <2>1, <2>2
<1>7. /\ \A q \in Range(References(schemas, more[k + 1].target)) :
           \E j \in 1..(k + 1) - 1 : more[j].target = q.target
      /\ \A j \in 1..(k + 1) - 1 : more[j].target # more[k + 1].target
  BY <1>1, <1>4 DEF Left
<1>8. Sorted(schemas, more)
  <2>. SUFFICES ASSUME NEW i \in 1..k + 1
                PROVE  /\ \A q \in Range(References(schemas, more[i].target)) :
                            \E j \in 1..i - 1 : more[j].target = q.target
                       /\ \A j \in 1..i - 1 : more[j].target # more[i].target
    BY <1>1, Zenon DEF Sorted
  <2>. QED  BY <1>2, <1>6, <1>7, Zenon
<1>. QED  BY <1>5, <1>8 DEF more

\* What is visited and not left yet is on the way, above the schema of the walk.
OnTheWay(walked) == walked.visited \ Left(walked.after)
Below(schemas, rank, s, walked) ==
  /\ Sorted(schemas, walked.after) /\ Left(walked.after) \subseteq walked.visited
  /\ \A x \in OnTheWay(walked) : rank[x] \in Nat /\ rank[s] <= rank[x]
Sorts(schemas, rank, place, walked, later) ==
  /\ Sorted(schemas, later.after)
  /\ Left(walked.after) \subseteq Left(later.after) /\ Left(later.after) \subseteq later.visited
  /\ walked.visited \subseteq later.visited
  /\ OnTheWay(later) \subseteq OnTheWay(walked)
  /\ \A x \in Left(later.after) \ Left(walked.after) :
       x \notin walked.visited /\ rank[x] \in Nat /\ rank[x] < rank[place[1]]
  /\ \A i \in 1..place[2] : References(schemas, place[1])[i].target \in Left(later.after)

\* Entering a reference keeps what is left sorted, and leaves what was met.
LEMMA SortsInside ==
  ASSUME NEW schemas, Acyclic(schemas), NEW rank, IsRank(schemas, rank),
         NEW place \in Places(schemas, DOMAIN schemas), place[2] # 0,
         NEW walked \in Walk, NEW earlier \in Walk, NEW inner \in Walk, NEW later,
         Below(schemas, rank, place[1], walked),
         Sorts(schemas, rank, Before(place), walked, earlier),
         Crossed(schemas, place).target \notin earlier.visited,
         Below(schemas, rank, Crossed(schemas, place).target,
               Meet(earlier, Crossed(schemas, place), ByVersion)) =>
           Sorts(schemas, rank, Beyond(schemas, place),
                 Meet(earlier, Crossed(schemas, place), ByVersion), inner),
         later = Leave(inner, Crossed(schemas, place))
  PROVE  Sorts(schemas, rank, place, walked, later)
<1>. DEFINE r == Crossed(schemas, place)
            t == r.target
            s == place[1]
            met == Meet(earlier, r, ByVersion)
<1>1. /\ rank[s] \in Nat /\ rank[t] \in Nat /\ rank[t] < rank[s]
      /\ r \in AReference /\ r = References(schemas, s)[place[2]]
      /\ t \in DOMAIN schemas /\ place[2] \in 1..Len(References(schemas, s))
  <2>1. DOMAIN schemas \in SUBSET DOMAIN schemas /\ Closed(schemas, DOMAIN schemas)
    BY ReferencesAre DEF Closed
  <2>2. /\ s \in DOMAIN schemas /\ r \in AReference /\ r \in Range(References(schemas, s))
        /\ t \in DOMAIN schemas /\ place[2] \in 1..Len(References(schemas, s))
    BY <2>1, PlaceIs
  <2>3. rank \in [DOMAIN schemas -> Nat] /\ Weight(schemas, rank, t) < rank[s]
    BY <2>2, Zenon DEF IsRank, IsRanked
  <2>4. Len(References(schemas, t)) \in Nat
    BY <2>2, ReferencesAre
  <2>. HIDE DEF t, s, r
  <2>5. rank[s] \in Nat /\ rank[t] \in Nat
    BY <2>2, <2>3
  <2>6. rank[t] < rank[s]
    BY <2>3, <2>4, <2>5 DEF Weight
  <2>. QED  BY <2>2, <2>5, <2>6 DEF Crossed, r, s
<1>2. met.visited = earlier.visited \cup {t} /\ met.after = earlier.after
  BY DEF Meet, ByVersion
<1>3. later.visited = inner.visited /\ later.after = Append(inner.after, r)
  BY DEF Leave
<1>4. inner.after \in Seq(AReference)
  BY DEF Walk
<1>5. /\ Sorted(schemas, earlier.after)
      /\ Left(walked.after) \subseteq Left(earlier.after)
      /\ Left(earlier.after) \subseteq earlier.visited
      /\ walked.visited \subseteq earlier.visited
      /\ OnTheWay(earlier) \subseteq OnTheWay(walked)
      /\ \A x \in Left(earlier.after) \ Left(walked.after) :
           x \notin walked.visited /\ rank[x] \in Nat /\ rank[x] < rank[Before(place)[1]]
      /\ \A i \in 1..Before(place)[2] :
           References(schemas, Before(place)[1])[i].target \in Left(earlier.after)
  BY Zenon DEF Sorts
<1>6. Before(place)[1] = s /\ Before(place)[2] = place[2] - 1
  BY DEF Before
<1>7. t \notin earlier.visited
  OBVIOUS
<1>8. \A x \in OnTheWay(walked) : rank[x] \in Nat /\ rank[s] <= rank[x]
  BY Zenon DEF Below
<1>9. Beyond(schemas, place)[1] = t /\ Beyond(schemas, place)[2] = Len(References(schemas, t))
  BY DEF Beyond, End
<1>10. Below(schemas, rank, t, met) => Sorts(schemas, rank, Beyond(schemas, place), met, inner)
  OBVIOUS
<1>. HIDE DEF r, t, s, met
<1>11. Below(schemas, rank, t, met)
  <2>1. \A x \in OnTheWay(met) : x = t \/ x \in OnTheWay(walked)
    BY <1>2, <1>5 DEF OnTheWay
  <2>2. \A x \in OnTheWay(met) : rank[x] \in Nat /\ rank[t] <= rank[x]
    BY <1>1, <1>8, <2>1
  <2>3. Sorted(schemas, met.after) /\ Left(met.after) \subseteq met.visited
    BY <1>2, <1>5
  <2>. QED  BY <2>2, <2>3 DEF Below
<1>12. /\ Sorted(schemas, inner.after)
       /\ Left(earlier.after) \subseteq Left(inner.after) /\ Left(inner.after) \subseteq inner.visited
       /\ earlier.visited \cup {t} \subseteq inner.visited
       /\ OnTheWay(inner) \subseteq OnTheWay(met)
       /\ \A x \in Left(inner.after) \ Left(earlier.after) :
            x \notin earlier.visited \cup {t} /\ rank[x] \in Nat /\ rank[x] < rank[t]
       /\ \A i \in 1..Len(References(schemas, t)) :
            References(schemas, t)[i].target \in Left(inner.after)
  <2>1. Sorts(schemas, rank, Beyond(schemas, place), met, inner)
    BY <1>10, <1>11
  <2>2. /\ Sorted(schemas, inner.after)
        /\ Left(met.after) \subseteq Left(inner.after) /\ Left(inner.after) \subseteq inner.visited
        /\ met.visited \subseteq inner.visited
        /\ OnTheWay(inner) \subseteq OnTheWay(met)
        /\ \A x \in Left(inner.after) \ Left(met.after) :
             x \notin met.visited /\ rank[x] \in Nat /\ rank[x] < rank[Beyond(schemas, place)[1]]
        /\ \A i \in 1..Beyond(schemas, place)[2] :
             References(schemas, Beyond(schemas, place)[1])[i].target \in Left(inner.after)
    BY <2>1, Zenon DEF Sorts
  <2>. QED  BY <1>2, <1>9, <2>2
<1>13. Sorted(schemas, later.after) /\ Left(later.after) = Left(inner.after) \cup {t}
  <2>1. t \notin Left(inner.after)
    BY <1>5, <1>7, <1>12
  <2>2. \A q \in Range(References(schemas, t)) : q.target \in Left(inner.after)
    <3>1. \A q \in Range(References(schemas, t)) :
            \E i \in 1..Len(References(schemas, t)) : q = References(schemas, t)[i]
      BY <1>1, ReferencesAre
    <3>. QED  BY <1>12, <3>1
  <2>3. Sorted(schemas, inner.after) /\ inner.after \in Seq(AReference)
    BY <1>4, <1>12
  <2>4. r \in AReference /\ r.target = t /\ later.after = Append(inner.after, r)
    BY <1>1, <1>3 DEF t
  <2>5. r.target \notin Left(inner.after)
    BY <2>1, <2>4
  <2>6. \A q \in Range(References(schemas, r.target)) : q.target \in Left(inner.after)
    BY <2>2, <2>4
  <2>7. /\ Sorted(schemas, Append(inner.after, r))
        /\ Left(Append(inner.after, r)) = Left(inner.after) \cup {r.target}
    BY <2>3, <2>4, <2>5, <2>6, SortedAppends
  <2>. QED  BY <2>4, <2>7
<1>14. OnTheWay(later) \subseteq OnTheWay(walked)
  <2>1. OnTheWay(later) \subseteq OnTheWay(inner) \ {t}
    BY <1>3, <1>13 DEF OnTheWay
  <2>2. OnTheWay(met) \ {t} \subseteq OnTheWay(earlier)
    BY <1>2 DEF OnTheWay
  <2>. QED  BY <1>5, <1>12, <2>1, <2>2
<1>15. ASSUME NEW x \in Left(later.after) \ Left(walked.after)
       PROVE  x \notin walked.visited /\ rank[x] \in Nat /\ rank[x] < rank[s]
  <2>1. CASE x = t
    BY <1>1, <1>5, <1>7, <2>1
  <2>2. CASE x \in Left(earlier.after)
    BY <1>5, <1>6, <1>15, <2>2
  <2>3. CASE x \in Left(inner.after) \ Left(earlier.after)
    BY <1>1, <1>5, <1>12, <2>3
  <2>. QED  BY <1>13, <1>15, <2>1, <2>2, <2>3
<1>16. \A i \in 1..place[2] : References(schemas, s)[i].target \in Left(later.after)
  <2>1. \A i \in 1..place[2] - 1 : References(schemas, s)[i].target \in Left(earlier.after)
    BY <1>5, <1>6
  <2>2. References(schemas, s)[place[2]].target \in Left(later.after)
    BY <1>1, <1>13 DEF t
  <2>3. \A i \in 1..place[2] : i \in 1..place[2] - 1 \/ i = place[2]
    BY <1>1
  <2>. QED  BY <1>12, <1>13, <2>1, <2>2, <2>3
<1>. QED  BY <1>3, <1>5, <1>12, <1>13, <1>14, <1>15, <1>16 DEF Sorts, s

\* The walk at a place, by one crossing.
LEMMA WalkOf ==
  ASSUME NEW schemas, NEW set, NEW identity, NEW walk, IsWalk(schemas, set, identity, walk),
         NEW place \in Places(schemas, set), NEW walked \in Walk
  PROVE  walk[place][walked] = Crossing(schemas, walk, place, identity, walked)
<1>. DEFINE f == walk[place]
            G(w) == Crossing(schemas, walk, place, identity, w)
<1>1. f = [w \in Walk |-> G(w)]
  BY SMT DEF IsWalk
<1>. HIDE DEF f, G
<1>2. f[walked] = G(walked)
  BY <1>1
<1>. QED  BY <1>2 DEF f, G

\* The ranks of the places before one.
LEMMA PlacesAreLess ==
  ASSUME NEW schemas, NEW set \in SUBSET DOMAIN schemas, NEW place \in Places(schemas, set)
  PROVE  place \in Places(schemas, DOMAIN schemas)
BY Zenon DEF Places

\* From any place a walk leaves dependencies before what depends on them.
LEMMA WalksSort ==
  ASSUME NEW schemas, Acyclic(schemas), NEW set \in SUBSET DOMAIN schemas, Closed(schemas, set),
         NEW rank, IsRank(schemas, rank), NEW walk, IsWalk(schemas, set, ByVersion, walk)
  PROVE  \A place \in Places(schemas, set) : \A walked \in Walk :
           Below(schemas, rank, place[1], walked) =>
             Sorts(schemas, rank, place, walked, walk[place][walked])
<1>. DEFINE Good(place) == \A walked \in Walk :
                             Below(schemas, rank, place[1], walked) =>
                               Sorts(schemas, rank, place, walked, walk[place][walked])
            S == {place \in Places(schemas, set) : Good(place)}
<1>1. ByVersion \in {ByName, ByVersion} /\ ByVersion = "target"
  BY DEF ByVersion
<1>2. ASSUME NEW place \in Places(schemas, set),
             place[2] # 0 => Before(place) \in S /\ Beyond(schemas, place) \in S,
             NEW walked \in Walk, Below(schemas, rank, place[1], walked)
      PROVE  Sorts(schemas, rank, place, walked, walk[place][walked])
  <2>0. walk[place][walked] = Crossing(schemas, walk, place, ByVersion, walked)
    BY WalkOf
  <2>1. CASE place[2] = 0
    <3>1. walk[place][walked] = walked
      BY <2>0, <2>1, Zenon DEF Crossing
    <3>2. 1..place[2] = {}
      BY <2>1
    <3>3. Sorted(schemas, walked.after) /\ Left(walked.after) \subseteq walked.visited
      BY <1>2, Zenon DEF Below
    <3>. QED  BY <3>1, <3>2, <3>3 DEF Sorts
  <2>2. CASE place[2] # 0
    <3>. DEFINE earlier == walk[Before(place)][walked]
                r == Crossed(schemas, place)
                met == Meet(earlier, r, ByVersion)
                inner == walk[Beyond(schemas, place)][met]
                later == walk[place][walked]
    <3>1. Before(place)[1] = place[1] /\ Before(place)[2] = place[2] - 1
      BY DEF Before
    <3>2. Sorts(schemas, rank, Before(place), walked, earlier)
      BY <1>2, <2>2, <3>1, Zenon
    <3>3. later = IF r[ByVersion] \in earlier.visited THEN earlier ELSE Leave(inner, r)
      BY <2>0, <2>2, Zenon DEF Crossing
    <3>4. /\ r \in AReference /\ r \in Range(References(schemas, place[1]))
          /\ Before(place) \in Places(schemas, set) /\ Beyond(schemas, place) \in Places(schemas, set)
          /\ place[2] \in 1..Len(References(schemas, place[1]))
          /\ place[1] \in DOMAIN schemas /\ r.target \in DOMAIN schemas
      BY <2>2, PlaceIs
    <3>5. earlier \in Walk
      <4>1. Visits(schemas, set, ByVersion, Before(place), walked, earlier)
        BY <1>1, <3>4, WalksVisit
      <4>. QED  BY <4>1, Zenon DEF Visits
    <3>6. r[ByVersion] = r.target
      BY <1>1
    <3>7. r.target = References(schemas, place[1])[place[2]].target
      BY DEF Crossed
    <3>. HIDE DEF earlier, r
    <3>8. CASE r.target \in earlier.visited
      <4>1. later = earlier
        BY <3>3, <3>6, <3>8, Zenon
      <4>2. /\ OnTheWay(earlier) \subseteq OnTheWay(walked)
            /\ \A x \in OnTheWay(walked) : rank[x] \in Nat /\ rank[place[1]] <= rank[x]
            /\ \A i \in 1..Before(place)[2] :
                 References(schemas, Before(place)[1])[i].target \in Left(earlier.after)
        BY <1>2, <3>2, Zenon DEF Sorts, Below
      <4>3. rank[r.target] \in Nat /\ rank[place[1]] \in Nat /\ rank[r.target] < rank[place[1]]
        <5>1. rank \in [DOMAIN schemas -> Nat] /\ Weight(schemas, rank, r.target) < rank[place[1]]
          BY <3>4, Zenon DEF IsRank, IsRanked
        <5>2. Len(References(schemas, r.target)) \in Nat
          BY <3>4, ReferencesAre
        <5>3. rank[r.target] \in Nat /\ rank[place[1]] \in Nat
          BY <3>4, <5>1
        <5>. QED  BY <5>1, <5>2, <5>3 DEF Weight
      <4>4. r.target \notin OnTheWay(walked)
        BY <4>2, <4>3
      <4>5. r.target \in Left(earlier.after)
        BY <3>8, <4>2, <4>4 DEF OnTheWay
      <4>6. \A i \in 1..place[2] : References(schemas, place[1])[i].target \in Left(earlier.after)
        <5>1. \A i \in 1..place[2] : i \in 1..place[2] - 1 \/ i = place[2]
          BY <3>4
        <5>. QED  BY <3>1, <3>7, <4>2, <4>5, <5>1
      <4>7. Sorts(schemas, rank, place, walked, earlier)
        BY <3>1, <3>2, <4>6 DEF Sorts
      <4>. HIDE DEF later
      <4>. QED  BY <4>1, <4>7 DEF later
    <3>9. CASE r.target \notin earlier.visited
      <4>1. met \in Walk
        BY <1>1, <3>4, <3>5, MeetIs
      <4>2. inner \in Walk
        <5>1. Visits(schemas, set, ByVersion, Beyond(schemas, place), met, inner)
          BY <1>1, <3>4, <4>1, WalksVisit
        <5>. QED  BY <5>1, Zenon DEF Visits
      <4>3. Below(schemas, rank, Beyond(schemas, place)[1], met) =>
              Sorts(schemas, rank, Beyond(schemas, place), met, inner)
        BY <1>2, <2>2, <4>1, Zenon
      <4>4. Beyond(schemas, place)[1] = r.target
        BY DEF Beyond, End, r
      <4>5. later = Leave(inner, r)
        BY <3>3, <3>6, <3>9, Zenon
      <4>6. place \in Places(schemas, DOMAIN schemas)
        BY PlacesAreLess
      <4>. HIDE DEF inner, later
      <4>7. /\ Crossed(schemas, place).target \notin earlier.visited
            /\ later = Leave(inner, Crossed(schemas, place))
            /\ Below(schemas, rank, Crossed(schemas, place).target,
                     Meet(earlier, Crossed(schemas, place), ByVersion)) =>
                 Sorts(schemas, rank, Beyond(schemas, place),
                       Meet(earlier, Crossed(schemas, place), ByVersion), inner)
        BY <3>9, <4>3, <4>4, <4>5, Zenon DEF r
      <4>8. Sorts(schemas, rank, place, walked, later)
        BY <1>2, <2>2, <3>2, <3>5, <4>2, <4>6, <4>7, SortsInside
      <4>. QED  BY <4>8 DEF later
    <3>. QED  BY <3>8, <3>9
  <2>. QED  BY <2>1, <2>2
<1>3. Inductive(schemas, set, S)
  <2>. SUFFICES ASSUME NEW place \in Places(schemas, set),
                       place[2] # 0 => Before(place) \in S /\ Beyond(schemas, place) \in S
                PROVE  place \in S
    BY Zenon DEF Inductive
  <2>1. Good(place)
    BY <1>2, Zenon
  <2>. HIDE DEF Good
  <2>. QED  BY <2>1
<1>. HIDE DEF S
<1>4. \A place \in Places(schemas, set) : place \in S
  BY <1>3, PlacesInduction
<1>. QED  BY <1>4, Zenon DEF S

\* What Apicurio's walk leaves can be parsed in its order, the schema itself last.
LEMMA ContentsParse ==
  ASSUME NEW schemas, IsFiniteSet(DOMAIN schemas), Acyclic(schemas), NEW root \in DOMAIN schemas
  PROVE  AvroParses(schemas, ApicurioContents(schemas, root))
<1>. DEFINE set == Reachable(schemas, root)
            walk == TheWalk(schemas, root, ByVersion)
            start == Started({})
            end == End(schemas, root)
            walked == walk[end][start]
            after == walked.after
            k == Len(after)
            contents == Append(Targets(after), root)
<1>1. set \in SUBSET DOMAIN schemas /\ root \in set /\ Closed(schemas, set)
  BY ReachableIs
<1>2. PICK rank : IsRank(schemas, rank)
  BY RankExists
<1>3. ByVersion \in {ByName, ByVersion}
  OBVIOUS
<1>4. IsWalk(schemas, set, ByVersion, walk)
  BY <1>3, TheWalkIs
<1>5. start \in Walk /\ start.visited = {} /\ start.after = <<>>
  BY StartedIs
<1>6. ApicurioContents(schemas, root) = contents
  BY WalkedIs, Zenon DEF ApicurioContents
<1>7. end \in Places(schemas, set) /\ end[1] = root /\ end[2] = Len(References(schemas, root))
  BY <1>1, EndIs
<1>8. Below(schemas, rank, root, start) /\ Left(start.after) = {}
  BY <1>5 DEF Below, Sorted, Left, OnTheWay
<1>. HIDE DEF set, walk, start, end
<1>9. Sorts(schemas, rank, end, start, walked)
  BY <1>1, <1>2, <1>4, <1>5, <1>7, <1>8, WalksSort
<1>10. after \in Seq(AReference)
  <2>1. Visits(schemas, set, ByVersion, end, start, walked)
    BY <1>1, <1>2, <1>3, <1>4, <1>5, <1>7, WalksVisit
  <2>2. walked \in Walk
    BY <2>1, Zenon DEF Visits
  <2>. HIDE DEF walked
  <2>. QED  BY <2>2 DEF Walk
<1>. HIDE DEF walked
<1>11. /\ Sorted(schemas, after)
       /\ \A x \in Left(after) : rank[x] \in Nat /\ rank[x] < rank[root]
       /\ \A i \in 1..Len(References(schemas, root)) :
            References(schemas, root)[i].target \in Left(after)
  BY <1>7, <1>8, <1>9, Zenon DEF Sorts
<1>. HIDE DEF after
<1>12. k \in Nat /\ DOMAIN after = 1..k
  BY <1>10
<1>13. /\ DOMAIN contents = 1..k + 1 /\ contents[k + 1] = root
       /\ \A i \in 1..k : contents[i] = after[i].target
  <2>. DEFINE targets == Targets(after)
  <2>1. /\ targets = [i \in 1..k |-> after[i].target]
    BY <1>12 DEF Targets
  <2>2. \A i \in 1..k : after[i].target \in STRING
    <3>1. \A i \in 1..k : after[i] \in AReference
      BY <1>10, <1>12
    <3>. QED  BY <3>1 DEF AReference
  <2>3. targets \in Seq(STRING) /\ Len(targets) = k /\ \A i \in 1..k : targets[i] = after[i].target
    <3>. HIDE DEF k
    <3>. QED  BY <1>12, <2>1, <2>2
  <2>5. \E S : targets \in Seq(S) /\ root \in S
    <3>. DEFINE S == STRING \cup {root}
    <3>1. \A i \in 1..k : after[i].target \in S
      BY <2>2
    <3>. HIDE DEF S, k
    <3>2. targets \in Seq(S)
      BY <1>12, <2>1, <3>1
    <3>. QED  BY <3>2 DEF S
  <2>6. PICK S : targets \in Seq(S) /\ root \in S
    BY <2>5
  <2>. HIDE DEF targets
  <2>. QED  BY <1>12, <2>3, <2>6 DEF targets
<1>. HIDE DEF contents
<1>14. \A x \in Left(after) : x # root
  <2>1. rank[root] \in Nat
    BY <1>2 DEF IsRank, IsRanked
  <2>. QED  BY <1>11, <2>1
<1>. HIDE DEF k
<1>15. \A i \in 1..k + 1 : i \in 1..k \/ i = k + 1
  BY <1>12
<1>16. \A i \in 1..k : contents[i] \in Left(after)
  BY <1>12, <1>13 DEF Left
<1>17. IsInjective(contents)
  <2>1. \A i, j \in 1..k : j < i => after[j].target # after[i].target
    <3>1. \A i \in 1..k : \A j \in 1..i - 1 : after[j].target # after[i].target
      BY <1>11, <1>12, Zenon DEF Sorted
    <3>2. \A i, j \in 1..k : j < i => j \in 1..i - 1
      BY <1>12
    <3>. QED  BY <3>1, <3>2
  <2>2. \A i, j \in 1..k : i = j \/ i < j \/ j < i
    BY <1>12
  <2>3. \A i, j \in 1..k : contents[i] = contents[j] => i = j
    BY <1>13, <2>1, <2>2
  <2>4. \A i \in 1..k : contents[i] # root
    BY <1>14, <1>16
  <2>. QED  BY <1>13, <1>15, <2>3, <2>4 DEF IsInjective
<1>18. ASSUME NEW i \in 1..k + 1, NEW q \in Range(References(schemas, contents[i]))
       PROVE  \E j \in 1..i - 1 : contents[j] = q.target
  <2>1. CASE i = k + 1
    <3>1. \E n \in 1..Len(References(schemas, root)) : q = References(schemas, root)[n]
      BY <1>13, <1>18, <2>1, ReferencesAre
    <3>2. q.target \in Left(after)
      BY <1>11, <3>1
    <3>3. PICK j \in 1..k : after[j].target = q.target
      BY <1>12, <3>2 DEF Left
    <3>4. j \in 1..i - 1
      BY <1>12, <2>1
    <3>. QED  BY <1>13, <3>3, <3>4
  <2>2. CASE i \in 1..k
    <3>1. q \in Range(References(schemas, after[i].target))
      BY <1>13, <1>18, <2>2
    <3>2. PICK j \in 1..i - 1 : after[j].target = q.target
      BY <1>11, <1>12, <2>2, <3>1, Zenon DEF Sorted
    <3>3. j \in 1..k
      BY <1>12, <2>2
    <3>. QED  BY <1>13, <3>2, <3>3
  <2>. QED  BY <1>15, <2>1, <2>2
<1>19. AvroParses(schemas, contents)
  BY <1>13, <1>17, <1>18, Zenon DEF AvroParses
<1>. QED  BY <1>6, <1>19, Zenon DEF contents

-----------------------------------------------------------------------------
\* Pools of descriptors.
Adding(schemas, dictionary, pool, place, state) ==
  IF place[2] = 0 THEN state
  ELSE LET earlier == pool[Before(place)][state]
           name == Crossed(schemas, place).name
       IN  IF \/ ~earlier.ok \/ name \notin DOMAIN dictionary
              \/ name \in earlier.visiting THEN Rejected(earlier)
           ELSE IF name \in earlier.added THEN earlier
           ELSE Joined(pool[End(schemas, dictionary[name])][Waiting(earlier, name)],
                       dictionary, name)

IsPool(schemas, set, dictionary, pool) ==
  pool = [place \in Places(schemas, set) |->
            [state \in Pooling |-> Adding(schemas, dictionary, pool, place, state)]]

Resolved(schemas, set, dictionary) ==
  \A s \in set : \A r \in Range(References(schemas, s)) :
    r.name \in DOMAIN dictionary /\ dictionary[r.name] = r.target

\* A pool in the making, after what is done to it.
LEMMA PoolingIs ==
  ASSUME NEW state \in Pooling, NEW name \in FileNames, NEW dictionary
  PROVE  /\ Rejected(state) \in Pooling /\ Waiting(state, name) \in Pooling
         /\ Joined(state, dictionary, name) \in Pooling
<1>1. /\ state.ok \in BOOLEAN /\ state.added \in SUBSET FileNames /\ state.visiting \in SUBSET FileNames
  BY DEF Pooling
<1>2. Rejected(state) \in Pooling
  BY <1>1 DEF Rejected, Pooling
<1>3. Waiting(state, name) \in Pooling
  <2>1. state.visiting \cup {name} \in SUBSET FileNames
    BY <1>1
  <2>. QED  BY <1>1, <2>1 DEF Waiting, Pooling
<1>4. Joined(state, dictionary, name) \in Pooling
  <2>. DEFINE ok == state.ok /\ \A other \in state.added : dictionary[other] # dictionary[name]
  <2>1. ok \in BOOLEAN
    OBVIOUS
  <2>2. state.visiting \ {name} \in SUBSET FileNames /\ state.added \cup {name} \in SUBSET FileNames
    BY <1>1
  <2>3. Joined(state, dictionary, name)
          = [ok |-> ok, added |-> state.added \cup {name}, visiting |-> state.visiting \ {name}]
    BY Zenon DEF Joined
  <2>. HIDE DEF ok
  <2>. QED  BY <2>1, <2>2, <2>3 DEF Pooling
<1>. QED  BY <1>2, <1>3, <1>4

\* What adding an import makes of a state whose names are all known.
Imported(schemas, dictionary, pool, place, state) ==
  LET earlier == pool[Before(place)][state]
      name == Crossed(schemas, place).name
  IN  IF ~earlier.ok \/ name \in earlier.visiting THEN Rejected(earlier)
      ELSE IF name \in earlier.added THEN earlier
      ELSE Joined(pool[Beyond(schemas, place)][Waiting(earlier, name)], dictionary, name)

\* A reference of a closed set is in the dictionary, with its target, and is added as an import.
LEMMA AddingIs ==
  ASSUME NEW schemas, Acyclic(schemas), NEW set \in SUBSET DOMAIN schemas, Closed(schemas, set),
         NEW dictionary, Resolved(schemas, set, dictionary), NEW pool,
         NEW place \in Places(schemas, set), place[2] # 0, NEW state
  PROVE  /\ Crossed(schemas, place).name \in FileNames
         /\ Crossed(schemas, place).name \in DOMAIN dictionary
         /\ dictionary[Crossed(schemas, place).name] = Crossed(schemas, place).target
         /\ Adding(schemas, dictionary, pool, place, state)
              = Imported(schemas, dictionary, pool, place, state)
<1>. DEFINE r == Crossed(schemas, place)
            earlier == pool[Before(place)][state]
            name == r.name
<1>1. place[1] \in set /\ r \in AReference /\ r \in Range(References(schemas, place[1]))
  BY PlaceIs
<1>2. name \in FileNames
  <2>. HIDE DEF r
  <2>. QED  BY <1>1 DEF AReference, FileNames
<1>3. name \in DOMAIN dictionary /\ dictionary[name] = r.target
  BY <1>1, Zenon DEF Resolved
<1>4. End(schemas, dictionary[name]) = Beyond(schemas, place)
  BY <1>3, Zenon DEF Beyond
<1>5. Adding(schemas, dictionary, pool, place, state) =
        IF ~earlier.ok \/ name \notin DOMAIN dictionary \/ name \in earlier.visiting
        THEN Rejected(earlier)
        ELSE IF name \in earlier.added THEN earlier
        ELSE Joined(pool[End(schemas, dictionary[name])][Waiting(earlier, name)], dictionary, name)
  BY Zenon DEF Adding
<1>. HIDE DEF earlier
<1>6. Adding(schemas, dictionary, pool, place, state) =
        IF ~earlier.ok \/ name \in earlier.visiting THEN Rejected(earlier)
        ELSE IF name \in earlier.added THEN earlier
        ELSE Joined(pool[Beyond(schemas, place)][Waiting(earlier, name)], dictionary, name)
  <2>. HIDE DEF name
  <2>. QED  BY <1>3, <1>4, <1>5, Zenon
<1>7. Adding(schemas, dictionary, pool, place, state)
        = Imported(schemas, dictionary, pool, place, state)
  BY <1>6, Zenon DEF Imported, earlier, name, r
<1>. QED  BY <1>2, <1>3, <1>7, Zenon

\* The recursion of a pool defines a function.
LEMMA PoolExists ==
  ASSUME NEW schemas, Acyclic(schemas), NEW set \in SUBSET DOMAIN schemas, Closed(schemas, set),
         NEW rank, IsRank(schemas, rank), NEW dictionary, Resolved(schemas, set, dictionary)
  PROVE  \E pool : IsPool(schemas, set, dictionary, pool)
<1>. DEFINE D == Places(schemas, set)
            V == [Pooling -> Pooling]
            m == Distance(schemas, set, rank)
            Onward(place, g, state) == Adding(schemas, dictionary, g, place, state)
            B == [p \in D \X [D -> V] |-> [state \in Pooling |-> Onward(p[1], p[2], state)]]
<1>1. ASSUME NEW place \in D, NEW g \in [D -> V], NEW state \in Pooling
      PROVE  Onward(place, g, state) \in Pooling
  <2>1. CASE place[2] = 0
    BY <2>1, Zenon DEF Adding
  <2>2. CASE place[2] # 0
    <3>. DEFINE earlier == g[Before(place)][state]
                name == Crossed(schemas, place).name
                waiting == Waiting(earlier, name)
    <3>1. Before(place) \in D /\ Beyond(schemas, place) \in D
      BY <2>2, PlaceIs
    <3>2. g[Before(place)] \in V /\ g[Beyond(schemas, place)] \in V
      BY <3>1
    <3>3. earlier \in Pooling
      BY <3>2
    <3>4. /\ name \in FileNames
          /\ Onward(place, g, state) =
                  IF ~earlier.ok \/ name \in earlier.visiting THEN Rejected(earlier)
                  ELSE IF name \in earlier.added THEN earlier
                  ELSE Joined(g[Beyond(schemas, place)][waiting], dictionary, name)
      <4>1. name \in FileNames /\ Onward(place, g, state) = Imported(schemas, dictionary, g, place, state)
        BY <2>2, AddingIs
      <4>. QED  BY <4>1, Zenon DEF Imported
    <3>. HIDE DEF earlier, name
    <3>5. waiting \in Pooling
      BY <3>3, <3>4, PoolingIs
    <3>6. g[Beyond(schemas, place)][waiting] \in Pooling
      BY <3>2, <3>5
    <3>. HIDE DEF waiting, Onward
    <3>. QED  BY <3>3, <3>4, <3>6, PoolingIs
  <2>. QED  BY <2>1, <2>2
<1>2. \A place \in D : place[2] # 0 =>
        /\ Before(place) \in D /\ m[Before(place)] < m[place]
        /\ Beyond(schemas, place) \in D /\ m[Beyond(schemas, place)] < m[place]
  BY PlaceIs, DistanceIs
<1>3. m \in [D -> Nat]
  BY DistanceIs
<1>4. \A place \in D : \A g \in [D -> V] : B[<<place, g>>] = [state \in Pooling |-> Onward(place, g, state)]
  <2>. HIDE DEF D, V, Onward
  <2>. QED  OBVIOUS
<1>5. B \in [D \X [D -> V] -> V]
  <2>1. \A place \in D : \A g \in [D -> V] : [state \in Pooling |-> Onward(place, g, state)] \in V
    BY <1>1, Zenon
  <2>. HIDE DEF D, V, Onward
  <2>. QED  BY <2>1
<1>6. ASSUME NEW place \in D, NEW g \in [D -> V], NEW h \in [D -> V],
             \A y \in D : m[y] < m[place] => g[y] = h[y]
      PROVE  B[<<place, g>>] = B[<<place, h>>]
  <2>1. place[2] # 0 => g[Before(place)] = h[Before(place)]
                        /\ g[Beyond(schemas, place)] = h[Beyond(schemas, place)]
    BY <1>2, <1>6, Zenon
  <2>2. ASSUME NEW state \in Pooling PROVE Onward(place, g, state) = Onward(place, h, state)
    <3>1. CASE place[2] = 0
      BY <3>1, Zenon DEF Adding
    <3>2. CASE place[2] # 0
      <4>1. \A k : Onward(place, k, state) = Imported(schemas, dictionary, k, place, state)
        BY <3>2, AddingIs
      <4>2. Imported(schemas, dictionary, g, place, state)
              = Imported(schemas, dictionary, h, place, state)
        BY <2>1, <3>2, Zenon DEF Imported
      <4>. HIDE DEF Onward
      <4>. QED  BY <4>1, <4>2, Zenon
    <3>. QED  BY <3>1, <3>2
  <2>3. [state \in Pooling |-> Onward(place, g, state)] = [state \in Pooling |-> Onward(place, h, state)]
    <3>. HIDE DEF Onward
    <3>. QED  BY <2>2, SMT
  <2>. HIDE DEF B, D, V, Onward
  <2>4. /\ B[<<place, g>>] = [state \in Pooling |-> Onward(place, g, state)]
        /\ B[<<place, h>>] = [state \in Pooling |-> Onward(place, h, state)]
    BY <1>4
  <2>. QED  BY <2>3, <2>4, Zenon
<1>7. V # {}
  <2>1. [state \in Pooling |-> state] \in V
    OBVIOUS
  <2>. QED  BY <2>1
<1>8. Recursion(D, V, m, B)
  <2>. HIDE DEF D, V, m, B
  <2>. QED  BY <1>3, <1>5, <1>6, <1>7 DEF Recursion
<1>9. PICK pool \in [D -> V] : \A place \in D : pool[place] = B[<<place, pool>>]
  <2>. HIDE DEF D, V, m, B
  <2>. QED  BY <1>8, RecursionExists
<1>10. \A place \in D : pool[place] = [state \in Pooling |-> Onward(place, pool, state)]
  <2>. HIDE DEF B, D, V
  <2>. QED  BY <1>4, <1>9, Zenon
<1>11. pool = [place \in D |-> [state \in Pooling |-> Onward(place, pool, state)]]
  <2>. HIDE DEF D, V, Onward
  <2>. QED  BY <1>9, <1>10
<1>. QED  BY <1>11, Zenon DEF IsPool

\* The pool at a place, by one addition.
LEMMA PoolOf ==
  ASSUME NEW schemas, NEW set, NEW dictionary, NEW pool, IsPool(schemas, set, dictionary, pool),
         NEW place \in Places(schemas, set), NEW state \in Pooling
  PROVE  pool[place][state] = Adding(schemas, dictionary, pool, place, state)
<1>. DEFINE f == pool[place]
            G(w) == Adding(schemas, dictionary, pool, place, w)
<1>1. f = [w \in Pooling |-> G(w)]
  BY SMT DEF IsPool
<1>. HIDE DEF f, G
<1>2. f[state] = G(state)
  BY <1>1
<1>. QED  BY <1>2 DEF f, G

\* Whatever waits is above the schema that is being added.
Ready(rank, dictionary, s, state) ==
  /\ state.ok /\ state.added \subseteq DOMAIN dictionary
  /\ \A x \in state.visiting : rank[dictionary[x]] \in Nat /\ rank[s] <= rank[dictionary[x]]
HasPooled(dictionary, state, later) ==
  /\ later \in Pooling /\ later.ok
  /\ later.visiting = state.visiting
  /\ state.added \subseteq later.added /\ later.added \subseteq DOMAIN dictionary
  /\ \A x \in later.added \ state.added : x \notin state.visiting
OneToOne(dictionary) == \A x, y \in DOMAIN dictionary : dictionary[x] = dictionary[y] => x = y

\* From any place every import can be added, none waits for itself.
LEMMA AllArePooled ==
  ASSUME NEW schemas, Acyclic(schemas), NEW set \in SUBSET DOMAIN schemas, Closed(schemas, set),
         NEW rank, IsRank(schemas, rank), NEW dictionary, Resolved(schemas, set, dictionary),
         OneToOne(dictionary), NEW pool, IsPool(schemas, set, dictionary, pool)
  PROVE  \A place \in Places(schemas, set) : \A state \in Pooling :
           Ready(rank, dictionary, place[1], state) =>
             HasPooled(dictionary, state, pool[place][state])
<1>. DEFINE Good(place) == \A state \in Pooling :
                             Ready(rank, dictionary, place[1], state) =>
                               HasPooled(dictionary, state, pool[place][state])
            S == {place \in Places(schemas, set) : Good(place)}
<1>1. ASSUME NEW place \in Places(schemas, set),
             place[2] # 0 => Before(place) \in S /\ Beyond(schemas, place) \in S,
             NEW state \in Pooling, Ready(rank, dictionary, place[1], state)
      PROVE  HasPooled(dictionary, state, pool[place][state])
  <2>0. pool[place][state] = Adding(schemas, dictionary, pool, place, state)
    BY PoolOf
  <2>1. CASE place[2] = 0
    <3>1. pool[place][state] = state
      BY <2>0, <2>1, Zenon DEF Adding
    <3>. QED  BY <1>1, <3>1 DEF HasPooled, Ready
  <2>2. CASE place[2] # 0
    <3>. DEFINE earlier == pool[Before(place)][state]
                name == Crossed(schemas, place).name
                t == dictionary[name]
                waiting == Waiting(earlier, name)
                inner == pool[Beyond(schemas, place)][waiting]
                later == pool[place][state]
    <3>1. Before(place)[1] = place[1]
      BY DEF Before
    <3>2. HasPooled(dictionary, state, earlier)
      BY <1>1, <2>2, <3>1, Zenon
    <3>3. /\ name \in FileNames /\ name \in DOMAIN dictionary
          /\ t = Crossed(schemas, place).target
          /\ later = IF ~earlier.ok \/ name \in earlier.visiting THEN Rejected(earlier)
                     ELSE IF name \in earlier.added THEN earlier
                     ELSE Joined(inner, dictionary, name)
      <4>1. /\ name \in FileNames /\ name \in DOMAIN dictionary
            /\ t = Crossed(schemas, place).target
            /\ later = Imported(schemas, dictionary, pool, place, state)
        BY <2>0, <2>2, AddingIs
      <4>. QED  BY <4>1, Zenon DEF Imported
    <3>4. /\ Crossed(schemas, place) \in Range(References(schemas, place[1]))
          /\ place[1] \in DOMAIN schemas /\ t \in DOMAIN schemas
      BY <2>2, <3>3, PlaceIs
    <3>5. rank[t] \in Nat /\ rank[place[1]] \in Nat /\ rank[t] < rank[place[1]]
      <4>1. rank \in [DOMAIN schemas -> Nat] /\ Weight(schemas, rank, t) < rank[place[1]]
        BY <3>3, <3>4, Zenon DEF IsRank, IsRanked
      <4>2. Len(References(schemas, t)) \in Nat
        BY <3>4, ReferencesAre
      <4>. HIDE DEF t
      <4>3. rank[t] \in Nat /\ rank[place[1]] \in Nat
        BY <3>4, <4>1
      <4>. QED  BY <4>1, <4>2, <4>3 DEF Weight
    <3>6. Beyond(schemas, place)[1] = t
      BY <3>3 DEF Beyond, End
    <3>7. Ready(rank, dictionary, t, waiting) => HasPooled(dictionary, waiting, inner) \/ waiting \notin Pooling
      BY <1>1, <2>2, <3>6, Zenon
    <3>. HIDE DEF earlier
    <3>8. /\ earlier \in Pooling /\ earlier.ok /\ earlier.visiting = state.visiting
          /\ state.added \subseteq earlier.added /\ earlier.added \subseteq DOMAIN dictionary
          /\ \A x \in earlier.added \ state.added : x \notin state.visiting
      BY <3>2, Zenon DEF HasPooled
    <3>9. \A x \in state.visiting : rank[dictionary[x]] \in Nat /\ rank[place[1]] <= rank[dictionary[x]]
      BY <1>1, Zenon DEF Ready
    <3>10. name \notin state.visiting
      BY <3>5, <3>9
    <3>11. CASE name \in earlier.added
      <4>1. later = earlier
        BY <3>3, <3>8, <3>10, <3>11, Zenon
      <4>. HIDE DEF later
      <4>. QED  BY <3>2, <4>1 DEF later
    <3>12. CASE name \notin earlier.added
      <4>. HIDE DEF name
      <4>1. waiting \in Pooling
        BY <3>3, <3>8, PoolingIs
      <4>2. waiting.ok /\ waiting.added = earlier.added /\ waiting.visiting = state.visiting \cup {name}
        BY <3>8 DEF Waiting
      <4>3. Ready(rank, dictionary, t, waiting)
        <5>1. \A x \in waiting.visiting : rank[dictionary[x]] \in Nat /\ rank[t] <= rank[dictionary[x]]
          BY <3>5, <3>9, <4>2
        <5>. QED  BY <3>8, <4>2, <5>1 DEF Ready
      <4>4. HasPooled(dictionary, waiting, inner)
        BY <3>7, <4>1, <4>3, Zenon
      <4>5. later = Joined(inner, dictionary, name)
        BY <3>3, <3>8, <3>10, <3>12, Zenon
      <4>. HIDE DEF inner, later, waiting
      <4>6. /\ inner \in Pooling /\ inner.ok /\ inner.visiting = state.visiting \cup {name}
            /\ earlier.added \subseteq inner.added /\ inner.added \subseteq DOMAIN dictionary
            /\ \A x \in inner.added \ earlier.added : x \notin state.visiting \cup {name}
        BY <4>2, <4>4 DEF HasPooled
      <4>7. name \notin inner.added
        BY <3>12, <4>6
      <4>8. \A other \in inner.added : dictionary[other] # dictionary[name]
        BY <3>3, <4>6, <4>7 DEF OneToOne
      <4>9. later \in Pooling
        <5>1. inner \in Pooling /\ name \in FileNames
          BY <3>3, <4>6, Zenon
        <5>2. Joined(inner, dictionary, name) \in Pooling
          BY <5>1, PoolingIs
        <5>. QED  BY <4>5, <5>2, Zenon
      <4>10. later.ok /\ later.added = inner.added \cup {name} /\ later.visiting = inner.visiting \ {name}
        BY <4>5, <4>6, <4>8 DEF Joined
      <4>11. later.visiting = state.visiting
        BY <3>10, <4>6, <4>10
      <4>12. /\ state.added \subseteq later.added /\ later.added \subseteq DOMAIN dictionary
             /\ \A x \in later.added \ state.added : x \notin state.visiting
        BY <3>3, <3>8, <3>10, <4>6, <4>10
      <4>. QED  BY <4>9, <4>10, <4>11, <4>12 DEF HasPooled, later
    <3>. QED  BY <3>11, <3>12
  <2>. QED  BY <2>1, <2>2
<1>2. Inductive(schemas, set, S)
  <2>. SUFFICES ASSUME NEW place \in Places(schemas, set),
                       place[2] # 0 => Before(place) \in S /\ Beyond(schemas, place) \in S
                PROVE  place \in S
    BY Zenon DEF Inductive
  <2>1. Good(place)
    BY <1>1, Zenon
  <2>. HIDE DEF Good
  <2>. QED  BY <2>1
<1>. HIDE DEF S
<1>3. \A place \in Places(schemas, set) : place \in S
  BY <1>2, PlacesInduction
<1>. QED  BY <1>3, Zenon DEF S

-----------------------------------------------------------------------------
\* Dictionaries.
LEMMA LastOf ==
  ASSUME NEW k \in Nat, NEW S \in SUBSET (1..k), S # {}
  PROVE  Max(S) \in S
<1>. DEFINE T == {k - i : i \in S}
<1>1. T \in SUBSET Nat /\ T # {}
  <2>1. \A i \in S : i \in 1..k /\ k - i \in Nat
    OBVIOUS
  <2>2. \A i \in S : k - i \in T
    OBVIOUS
  <2>3. \A n \in T : \E i \in S : n = k - i
    OBVIOUS
  <2>. HIDE DEF T
  <2>. QED  BY <2>1, <2>2, <2>3
<1>. HIDE DEF T
<1>2. PICK n \in T : \A j \in T : n <= j
  BY <1>1, LeastOf
<1>3. PICK i \in S : n = k - i
  BY DEF T
<1>4. \A j \in S : k - i <= k - j
  BY <1>2, <1>3 DEF T
<1>5. \A j \in S : i >= j
  <2>1. \A j \in S : j \in Int
    OBVIOUS
  <2>. QED  BY <1>4, <2>1
<1>. QED  BY <1>5, Zenon DEF Max

\* A dictionary has, for each name, the target that was put last.
LEMMA DictionaryIs ==
  ASSUME NEW S, NEW references \in Seq(S)
  PROVE  /\ DOMAIN Dictionary(references) = {references[i].name : i \in 1..Len(references)}
         /\ \A name \in DOMAIN Dictionary(references) : \E i \in 1..Len(references) :
              references[i].name = name /\ Dictionary(references)[name] = references[i].target
<1>. DEFINE k == Len(references)
            d == Dictionary(references)
            Positions(name) == {i \in DOMAIN references : references[i].name = name}
<1>1. k \in Nat /\ DOMAIN references = 1..k
  OBVIOUS
<1>2. /\ DOMAIN d = {references[i].name : i \in DOMAIN references}
      /\ \A name \in DOMAIN d : d[name] = references[Max(Positions(name))].target
  BY DEF Dictionary
<1>. HIDE DEF d, k
<1>3. ASSUME NEW name \in DOMAIN d
      PROVE  \E i \in 1..k : references[i].name = name /\ d[name] = references[i].target
  <2>1. Positions(name) # {} /\ Positions(name) \in SUBSET (1..k)
    BY <1>1, <1>2
  <2>. DEFINE i == Max(Positions(name))
  <2>2. i \in Positions(name)
    <3>. HIDE DEF Positions
    <3>. QED  BY <1>1, <2>1, LastOf
  <2>3. d[name] = references[i].target
    BY <1>2
  <2>. HIDE DEF i
  <2>. QED  BY <1>1, <2>2, <2>3
<1>. QED  BY <1>1, <1>2, <1>3 DEF d, k

\* What a walk noted, and what else is in a dictionary, under names of its own.
Suits(schemas, root, identity, references, others) ==
  /\ \E S : references \in Seq(S)
  /\ Range(references) \subseteq AllReferences(schemas, root) \cup others
  /\ \A e \in others : \A q \in AllReferences(schemas, root) : e.name # q.name
  /\ \A q \in AllReferences(schemas, root) :
       \E r \in Range(references) : r \in AllReferences(schemas, root) /\ r[identity] = q[identity]

\* A dictionary with all that is referenced, each name once, resolves the
\* names of every schema it holds.
LEMMA NamesDoResolve ==
  ASSUME NEW schemas, NEW root, NEW identity \in {ByName, ByVersion}, NEW references, NEW others,
         Suits(schemas, root, identity, references, others),
         EachNameOnce(schemas, root), OneNameEach(schemas, root)
  PROVE  NamesResolve(schemas, root, Dictionary(references))
<1>. DEFINE All == AllReferences(schemas, root)
            d == Dictionary(references)
            k == Len(references)
<1>0. PICK S : references \in Seq(S)
  BY DEF Suits
<1>1. /\ Range(references) \subseteq All \cup others
      /\ \A e \in others : \A q \in All : e.name # q.name
      /\ \A q \in All : \E r \in Range(references) : r \in All /\ r[identity] = q[identity]
  BY Zenon DEF Suits
<1>2. \A r, q \in All : (r.name = q.name => r.target = q.target)
                        /\ (r.target = q.target => r.name = q.name)
  BY Zenon DEF EachNameOnce, OneNameEach
<1>3. k \in Nat /\ DOMAIN references = 1..k
  BY <1>0
<1>4. /\ DOMAIN d = {references[i].name : i \in 1..k}
      /\ \A name \in DOMAIN d : \E i \in 1..k :
           references[i].name = name /\ d[name] = references[i].target
  BY <1>0, DictionaryIs
<1>5. /\ \A i \in 1..k : references[i] \in Range(references)
      /\ \A r \in Range(references) : \E i \in 1..k : r = references[i]
  BY <1>3 DEF Range
<1>. HIDE DEF All, d, k
<1>6. ASSUME NEW q \in All PROVE q.name \in DOMAIN d /\ d[q.name] = q.target
  <2>1. PICK r \in Range(references) : r \in All /\ r[identity] = q[identity]
    BY <1>1
  <2>2. r.name = q.name
    BY <1>2, <2>1 DEF ByName, ByVersion
  <2>3. q.name \in DOMAIN d
    BY <1>4, <1>5, <2>1, <2>2
  <2>4. PICK i \in 1..k : references[i].name = q.name /\ d[q.name] = references[i].target
    BY <1>4, <2>3
  <2>5. references[i] \in All
    BY <1>1, <1>5, <2>4
  <2>. QED  BY <1>2, <2>3, <2>4, <2>5
<1>. QED  BY <1>6, Zenon DEF NamesResolve, All, d

\* The descriptors and the sources are under names of their own, the root too.
IsRooted(provider, schemas, root) ==
  \A r \in AllReferences(schemas, root) : r.name # RootName(provider)

\* What a schema reaches is below it.
LEMMA RanksFall ==
  ASSUME NEW schemas, Acyclic(schemas), NEW root \in DOMAIN schemas, NEW r \in AllReferences(schemas, root),
         NEW rank, IsRank(schemas, rank)
  PROVE  r.target # root
<1>. DEFINE low == {s \in DOMAIN schemas : rank[s] <= rank[root]}
            set == Reachable(schemas, root)
<1>1. rank \in [DOMAIN schemas -> Nat]
  BY DEF IsRank, IsRanked
<1>2. ASSUME NEW s \in DOMAIN schemas, NEW q \in Range(References(schemas, s))
      PROVE  q.target \in DOMAIN schemas /\ rank[q.target] < rank[s]
  <2>1. q.target \in DOMAIN schemas /\ Weight(schemas, rank, q.target) < rank[s]
    BY <1>2, Zenon DEF IsRank, IsRanked
  <2>. DEFINE t == q.target
  <2>2. Len(References(schemas, t)) \in Nat
    BY <2>1, ReferencesAre
  <2>. HIDE DEF t
  <2>3. rank[t] \in Nat /\ rank[s] \in Nat
    BY <1>1, <2>1 DEF t
  <2>4. rank[t] + Len(References(schemas, t)) < rank[s]
    BY <2>1 DEF Weight, t
  <2>5. rank[t] < rank[s]
    BY <2>2, <2>3, <2>4
  <2>. QED  BY <2>1, <2>5 DEF t
<1>3. Closed(schemas, low)
  <2>. SUFFICES ASSUME NEW s \in low, NEW q \in Range(References(schemas, s))
                PROVE  q.target \in low
    BY Zenon DEF Closed
  <2>1. s \in DOMAIN schemas /\ q.target \in DOMAIN schemas /\ rank[q.target] < rank[s] /\ rank[s] <= rank[root]
    BY <1>2
  <2>2. rank[q.target] \in Nat /\ rank[s] \in Nat /\ rank[root] \in Nat
    BY <1>1, <2>1
  <2>. QED  BY <2>1, <2>2
<1>4. root \in low /\ low \in SUBSET DOMAIN schemas
  BY <1>1
<1>. HIDE DEF low
<1>5. set \subseteq low
  BY <1>3, <1>4, ReachableIs
<1>6. PICK s \in set : r \in Range(References(schemas, s))
  BY DEF AllReferences
<1>7. s \in DOMAIN schemas /\ rank[s] <= rank[root]
  BY <1>5 DEF low
<1>8. rank[r.target] < rank[s]
  BY <1>2, <1>6, <1>7
<1>9. rank[r.target] \in Nat /\ rank[s] \in Nat /\ rank[root] \in Nat
  BY <1>1, <1>2, <1>6, <1>7
<1>. QED  BY <1>7, <1>8, <1>9

\* The root, under the provider's name for it, and what was collected.
LEMMA RootedIs ==
  ASSUME NEW schemas, IsFiniteSet(DOMAIN schemas), Acyclic(schemas), NEW root \in DOMAIN schemas,
         NEW provider \in {"confluent", "apicurio"},
         NEW identity \in {ByName, ByVersion},
         EachNameOnce(schemas, root), OneNameEach(schemas, root), IsRooted(provider, schemas, root),
         NEW references \in Seq(AReference), Covers(schemas, root, identity, references)
  PROVE  /\ NamesResolve(schemas, root, WithRoot(provider, root, references))
         /\ RootName(provider) \in DOMAIN WithRoot(provider, root, references)
         /\ WithRoot(provider, root, references)[RootName(provider)] = root
         /\ OneToOne(WithRoot(provider, root, references))
<1>. DEFINE first == [name |-> RootName(provider), target |-> root]
            all == <<first>> \o references
            All == AllReferences(schemas, root)
            d == Dictionary(all)
            k == Len(references)
<1>. DEFINE S == AReference \cup {first}
<1>1. first \in S /\ references \in Seq(S)
  OBVIOUS
<1>2. first.name = RootName(provider) /\ first.target = root
  OBVIOUS
<1>. HIDE DEF first, S
<1>3. /\ all \in Seq(S) /\ Len(all) = k + 1 /\ all[1] = first /\ k \in Nat
      /\ \A i \in 1..k : all[i + 1] = references[i]
      /\ DOMAIN references = 1..k
  BY <1>1
<1>. HIDE DEF all, k
<1>4. DOMAIN all = 1..k + 1
  BY <1>3
<1>5. \A i \in 1..k + 1 : i = 1 \/ \E j \in 1..k : i = j + 1
  <2>. SUFFICES ASSUME NEW i \in 1..k + 1, i # 1 PROVE \E j \in 1..k : i = j + 1
    OBVIOUS
  <2>1. i - 1 \in 1..k /\ i = (i - 1) + 1
    BY <1>3
  <2>. QED  BY <2>1
<1>6. /\ \A i \in 1..k : references[i] \in All
      /\ \A q \in All : \E i \in 1..k : references[i][identity] = q[identity]
  BY <1>3 DEF Covers, Identified, Range
<1>7. ASSUME NEW i \in 1..k + 1
      PROVE  all[i] = first \/ all[i] \in All
  <2>1. CASE i = 1
    BY <1>3, <2>1
  <2>2. CASE \E j \in 1..k : i = j + 1
    <3>1. PICK j \in 1..k : i = j + 1
      BY <2>2
    <3>. QED  BY <1>3, <1>6, <3>1, Zenon
  <2>. QED  BY <1>5, <2>1, <2>2
<1>8. \A q \in All : q.name # first.name
  BY <1>2, Zenon DEF IsRooted
<1>9. Suits(schemas, root, identity, all, {first})
  <2>1. Range(all) \subseteq All \cup {first}
    BY <1>4, <1>7 DEF Range
  <2>2. \A q \in All : \E r \in Range(all) : r \in All /\ r[identity] = q[identity]
    <3>. SUFFICES ASSUME NEW q \in All
                  PROVE  \E r \in Range(all) : r \in All /\ r[identity] = q[identity]
      OBVIOUS
    <3>1. PICK i \in 1..k : references[i][identity] = q[identity]
      BY <1>6
    <3>2. i + 1 \in 1..k + 1 /\ all[i + 1] = references[i]
      BY <1>3
    <3>3. all[i + 1] \in Range(all)
      BY <1>4, <3>2, Zenon DEF Range
    <3>. QED  BY <1>6, <3>1, <3>2, <3>3
  <2>. QED  BY <1>3, <1>8, <2>1, <2>2 DEF Suits
<1>10. WithRoot(provider, root, references) = d
  BY Zenon DEF WithRoot, all, first
<1>11. NamesResolve(schemas, root, d)
  BY <1>9, NamesDoResolve
<1>12. /\ DOMAIN d = {all[i].name : i \in 1..k + 1}
       /\ \A name \in DOMAIN d : \E i \in 1..k + 1 : all[i].name = name /\ d[name] = all[i].target
  <2>1. /\ DOMAIN d = {all[i].name : i \in 1..Len(all)}
        /\ \A name \in DOMAIN d : \E i \in 1..Len(all) : all[i].name = name /\ d[name] = all[i].target
    <3>1. all \in Seq(S)
      BY <1>3
    <3>2. d = Dictionary(all)
      OBVIOUS
    <3>. HIDE DEF all, d, S
    <3>. QED  BY <3>1, <3>2, DictionaryIs
  <2>. HIDE DEF d
  <2>. QED  BY <1>3, <2>1, Zenon
<1>. HIDE DEF d
<1>13. RootName(provider) \in DOMAIN d
  <2>1. 1 \in 1..k + 1
    BY <1>3
  <2>. QED  BY <1>2, <1>3, <1>12, <2>1
<1>14. d[RootName(provider)] = root
  <2>1. PICK i \in 1..k + 1 : all[i].name = RootName(provider) /\ d[RootName(provider)] = all[i].target
    BY <1>12, <1>13
  <2>2. all[i] = first
    BY <1>2, <1>7, <1>8, <2>1
  <2>. QED  BY <1>2, <2>1, <2>2
<1>15. \A q \in All : q.target # root
  <2>1. PICK rank : IsRank(schemas, rank)
    BY RankExists
  <2>. QED  BY <2>1, RanksFall
<1>16. \A r, q \in All : r.target = q.target => r.name = q.name
  BY Zenon DEF OneNameEach
<1>17. OneToOne(d)
  <2>. SUFFICES ASSUME NEW x \in DOMAIN d, NEW y \in DOMAIN d, d[x] = d[y] PROVE x = y
    BY Zenon DEF OneToOne
  <2>1. PICK i \in 1..k + 1 : all[i].name = x /\ d[x] = all[i].target
    BY <1>12
  <2>2. PICK j \in 1..k + 1 : all[j].name = y /\ d[y] = all[j].target
    BY <1>12
  <2>3. all[i].target = all[j].target
    BY <2>1, <2>2
  <2>4. CASE all[i] = first /\ all[j] = first
    BY <2>1, <2>2, <2>4, Zenon
  <2>5. CASE all[i] = first /\ all[j] \in All
    <3>1. all[j].target = root
      BY <1>2, <2>3, <2>5, Zenon
    <3>. QED  BY <1>15, <2>5, <3>1, Zenon
  <2>6. CASE all[i] \in All /\ all[j] = first
    <3>1. all[i].target = root
      BY <1>2, <2>3, <2>6, Zenon
    <3>. QED  BY <1>15, <2>6, <3>1, Zenon
  <2>7. CASE all[i] \in All /\ all[j] \in All
    <3>1. all[i].name = all[j].name
      BY <1>16, <2>3, <2>7, Zenon
    <3>. QED  BY <2>1, <2>2, <3>1, Zenon
  <2>. QED  BY <1>7, <2>4, <2>5, <2>6, <2>7, Zenon
<1>. QED  BY <1>10, <1>11, <1>13, <1>14, <1>17

\* What is collected for a file and its imports makes a pool.
LEMMA FilesPool ==
  ASSUME NEW schemas, IsFiniteSet(DOMAIN schemas), Acyclic(schemas), NEW root \in DOMAIN schemas,
         NEW dictionary, NEW name \in FileNames, name \in DOMAIN dictionary, dictionary[name] = root,
         NamesResolve(schemas, root, dictionary), OneToOne(dictionary)
  PROVE  Pooled(schemas, dictionary, name).ok
<1>. DEFINE set == Reachable(schemas, root)
            pool == CHOOSE pool : IsPool(schemas, set, dictionary, pool)
            nothing == [ok |-> TRUE, added |-> {}, visiting |-> {}]
            start == Waiting(nothing, name)
            end == End(schemas, root)
            later == pool[end][start]
<1>1. set \in SUBSET DOMAIN schemas /\ root \in set /\ Closed(schemas, set)
  BY ReachableIs
<1>2. PICK rank : IsRank(schemas, rank)
  BY RankExists
<1>3. Resolved(schemas, set, dictionary)
  BY Zenon DEF NamesResolve, Resolved, AllReferences
<1>4. IsPool(schemas, set, dictionary, pool)
  <2>1. \E p : IsPool(schemas, set, dictionary, p)
    <3>. HIDE DEF set
    <3>. QED  BY <1>1, <1>2, <1>3, PoolExists
  <2>. QED  BY <2>1, Zenon
<1>5. Pooled(schemas, dictionary, name) = Joined(later, dictionary, name)
  BY Zenon DEF Pooled, IsPool, Adding, Before, Crossed
<1>6. end \in Places(schemas, set) /\ end[1] = root
  BY <1>1, EndIs
<1>7. nothing \in Pooling
  BY DEF Pooling
<1>8. start \in Pooling /\ start.ok /\ start.added = {} /\ start.visiting = {name}
  <2>1. start \in Pooling
    <3>. HIDE DEF nothing
    <3>. QED  BY <1>7, PoolingIs
  <2>. QED  BY <2>1 DEF Waiting
<1>9. rank[root] \in Nat
  BY <1>2 DEF IsRank, IsRanked
<1>. HIDE DEF set, pool, start, end
<1>10. Ready(rank, dictionary, root, start)
  BY <1>8, <1>9 DEF Ready
<1>11. HasPooled(dictionary, start, later)
  BY <1>1, <1>2, <1>3, <1>4, <1>6, <1>8, <1>10, AllArePooled
<1>. HIDE DEF later
<1>12. later.ok /\ later.added \subseteq DOMAIN dictionary /\ \A x \in later.added : x # name
  BY <1>8, <1>11 DEF HasPooled
<1>13. \A other \in later.added : dictionary[other] # dictionary[name]
  BY <1>12, Zenon DEF OneToOne
<1>14. later.ok /\ \A other \in later.added : dictionary[other] # dictionary[name]
  BY <1>12, <1>13, Zenon
<1>15. Joined(later, dictionary, name).ok
         = (later.ok /\ \A other \in later.added : dictionary[other] # dictionary[name])
  BY DEF Joined
<1>. QED  BY <1>5, <1>14, <1>15, Zenon

\* Whatever is collected of schemas with unambiguous names, a parser can take.
LEMMA FilesParse ==
  ASSUME NEW schemas, IsFiniteSet(DOMAIN schemas), Acyclic(schemas), NEW root \in DOMAIN schemas,
         NEW provider \in {"confluent", "apicurio"},
         EachNameOnce(schemas, root), OneNameEach(schemas, root), IsRooted(provider, schemas, root)
  PROVE  LET files == IF provider = "confluent" THEN ConfluentDescriptors(schemas, root)
                      ELSE ApicurioSources(schemas, root)
         IN  /\ NamesResolve(schemas, root, files)
             /\ files[RootName(provider)] = root
             /\ Pooled(schemas, files, RootName(provider)).ok
<1>. DEFINE identity == IF provider = "confluent" THEN ByName ELSE ByVersion
            start == IF provider = "confluent" THEN {"default"} ELSE {}
            walked == Walked(schemas, root, identity, start)
            files == WithRoot(provider, root, walked.before)
            All == AllReferences(schemas, root)
<1>1. identity \in {ByName, ByVersion}
  OBVIOUS
<1>2. \A r, q \in All : (r.name = q.name => r.target = q.target)
  BY Zenon DEF EachNameOnce
<1>3. \A r \in All : r.name # RootName(provider)
  BY Zenon DEF IsRooted
<1>4. TellsApart(schemas, root, identity, start)
  <2>1. CASE provider = "confluent"
    <3>1. identity = "name" /\ start = {"default"} /\ RootName(provider) = "default"
      BY <2>1, Zenon DEF ByName, RootName
    <3>2. start \in SUBSET FileNames
      <4>1. RootName("confluent") = "default"
        BY DEF RootName
      <4>. QED  BY <3>1, <4>1 DEF FileNames
    <3>3. \A r, q \in All : r[identity] = q[identity] => r.target = q.target
      BY <1>2, <3>1
    <3>4. \A r \in All : r[identity] \notin start
      BY <1>3, <3>1
    <3>. HIDE DEF identity, start
    <3>. QED  BY <3>2, <3>3, <3>4, Zenon DEF TellsApart
  <2>2. CASE provider # "confluent"
    <3>1. identity = "target" /\ start = {}
      BY <2>2, Zenon DEF ByVersion
    <3>. HIDE DEF identity, start
    <3>2. \A r, q \in All : r[identity] = q[identity] => r.target = q.target
      BY <3>1
    <3>. QED  BY <3>1, <3>2 DEF TellsApart
  <2>. QED  BY <2>1, <2>2
<1>. HIDE DEF identity, start
<1>5. walked \in Walk /\ Covers(schemas, root, identity, walked.before)
  BY <1>1, <1>4, AllAreMet
<1>6. walked.before \in Seq(AReference)
  <2>. HIDE DEF walked
  <2>. QED  BY <1>5 DEF Walk
<1>7. /\ NamesResolve(schemas, root, files)
      /\ RootName(provider) \in DOMAIN files /\ files[RootName(provider)] = root
      /\ OneToOne(files)
  <2>. HIDE DEF walked
  <2>. QED  BY <1>1, <1>5, <1>6, RootedIs
<1>8. RootName(provider) \in FileNames
  BY DEF FileNames
<1>9. Pooled(schemas, files, RootName(provider)).ok
  <2>. HIDE DEF files
  <2>. QED  BY <1>7, <1>8, FilesPool
<1>10. (IF provider = "confluent" THEN ConfluentDescriptors(schemas, root)
        ELSE ApicurioSources(schemas, root)) = files
  <2>1. CASE provider = "confluent"
    BY <2>1, Zenon DEF ConfluentDescriptors, identity, start
  <2>2. CASE provider = "apicurio"
    <3>1. provider # "confluent"
      BY <2>2
    <3>. QED  BY <2>2, <3>1, Zenon DEF ApicurioSources, identity, start
  <2>. QED  BY <2>1, <2>2
<1>. HIDE DEF files
<1>. QED  BY <1>7, <1>9, <1>10

\* The resources of a JSON schema resolve every name that is referenced.
LEMMA ResourcesResolve ==
  ASSUME NEW schemas, IsFiniteSet(DOMAIN schemas), Acyclic(schemas), NEW root \in DOMAIN schemas,
         EachNameOnce(schemas, root), OneNameEach(schemas, root)
  PROVE  NamesResolve(schemas, root, ApicurioResources(schemas, root))
<1>. DEFINE start == {}
            walked == Walked(schemas, root, ByVersion, start)
            All == AllReferences(schemas, root)
<1>1. ByVersion \in {ByName, ByVersion} /\ ByVersion = "target"
  BY DEF ByVersion
<1>2. TellsApart(schemas, root, ByVersion, start)
  BY <1>1 DEF TellsApart
<1>3. walked \in Walk /\ Covers(schemas, root, ByVersion, walked.after)
  <2>. HIDE DEF start
  <2>. QED  BY <1>1, <1>2, AllAreMet
<1>4. ApicurioResources(schemas, root) = Dictionary(walked.after)
  BY Zenon DEF ApicurioResources
<1>. HIDE DEF walked
<1>. DEFINE after == walked.after
<1>5. after \in Seq(AReference)
  BY <1>3 DEF Walk
<1>6. Suits(schemas, root, ByVersion, after, {})
  <2>1. Range(after) \subseteq All /\ \A q \in All : \E r \in Range(after) : r[ByVersion] = q[ByVersion]
    BY <1>3, Zenon DEF Covers, Identified
  <2>. HIDE DEF after, All
  <2>2. \A q \in All : \E r \in Range(after) : r \in All /\ r[ByVersion] = q[ByVersion]
    BY <2>1
  <2>3. Range(after) \subseteq All \cup {}
    BY <2>1
  <2>. QED  BY <1>5, <2>2, <2>3, Zenon DEF Suits, All
<1>7. NamesResolve(schemas, root, Dictionary(after))
  <2>. HIDE DEF after
  <2>. QED  BY <1>1, <1>6, NamesDoResolve
<1>. QED  BY <1>4, <1>7

\* What a client collects of a schema with references is what a parser of the
\* schema needs: Avro's contents come with each named type before its uses, the
\* names of a JSON schema resolve, and the imports of a Protobuf file make a
\* pool.  It takes that no schema refers to itself, that a name stands for one
\* schema and a schema for one name, and that no file is imported by the name
\* that the client gives the root.
THEOREM CollectedParse ==
  ASSUME NEW schemas, IsFiniteSet(DOMAIN schemas), Acyclic(schemas), NEW root \in DOMAIN schemas,
         NEW provider \in {"confluent", "apicurio"},
         schemas[root].type \in {"avro", "json", "protobuf"},
         provider = "apicurio" \/ schemas[root].type = "protobuf",
         EachNameOnce(schemas, root), OneNameEach(schemas, root),
         schemas[root].type = "protobuf" => IsRooted(provider, schemas, root)
  PROVE  Parses(schemas, provider, root)
<1>1. CASE schemas[root].type = "avro"
  <2>1. AvroParses(schemas, ApicurioContents(schemas, root))
    BY ContentsParse
  <2>2. provider # "confluent"
    BY <1>1
  <2>. QED  BY <1>1, <2>1, <2>2, Zenon DEF Parses
<1>2. CASE schemas[root].type = "json"
  <2>1. NamesResolve(schemas, root, ApicurioResources(schemas, root))
    BY ResourcesResolve
  <2>2. provider # "confluent"
    BY <1>2
  <2>. QED  BY <1>2, <2>1, <2>2, Zenon DEF Parses
<1>3. CASE schemas[root].type = "protobuf"
  <2>. DEFINE files == IF provider = "confluent" THEN ConfluentDescriptors(schemas, root)
                       ELSE ApicurioSources(schemas, root)
  <2>1. NamesResolve(schemas, root, files) /\ Pooled(schemas, files, RootName(provider)).ok
    BY <1>3, FilesParse
  <2>. QED  BY <1>3, <2>1, Zenon DEF Parses
<1>. QED  BY <1>1, <1>2, <1>3

-----------------------------------------------------------------------------
\* Documents, and what is written before them.

\* The bytes of a document are bytes, and tell where it begins.
LEMMA BytesAre ==
  ASSUME NEW s \in Seq(NAME_BYTES)
  PROVE  s \in Seq(Nat) /\ \A i \in 1..Len(s) : s[i] \in Nat /\ s[i] < 128
<1>1. \A i \in 1..Len(s) : s[i] \in NAME_BYTES
  OBVIOUS
<1>2. \A x \in NAME_BYTES : x \in Nat /\ x < 128
  BY DEF NAME_BYTES
<1>3. \A i \in 1..Len(s) : s[i] \in Nat
  BY <1>1, <1>2
<1>4. Len(s) \in Nat /\ s = [i \in 1..Len(s) |-> s[i]]
  OBVIOUS
<1>5. s \in [1..Len(s) -> Nat]
  BY <1>3, <1>4
<1>6. s \in Seq(Nat)
  BY <1>4, <1>5
<1>. QED  BY <1>1, <1>2, <1>6

\* A document is read by its own schema as what was written.
LEMMA DocumentIs ==
  ASSUME NEW by, IsReader(by)
  PROVE  /\ Document(by) \in Seq(Nat) /\ Len(Document(by)) > 0
         /\ Tail(Document(by)) = by.name
         /\ by.kind = "json" =>
              /\ IsJson(Document(by))
              /\ \A k \in Nat : k >= 2 => ~IsJson(SubSeq(Document(by), k, Len(Document(by))))
<1>. DEFINE first == IF by.kind = "json" THEN OPEN_BRACE ELSE 8
            name == by.name
            document == Document(by)
<1>1. first \in Nat
  BY DEF OPEN_BRACE
<1>2. name \in Seq(Nat)
  BY BytesAre DEF IsReader
<1>3. document = <<first>> \o name
  BY DEF Document
<1>4. by.kind = "json" => first = OPEN_BRACE /\ \A i \in 1..Len(name) : name[i] # OPEN_BRACE
  BY DEF IsReader, Range
<1>. HIDE DEF first, name, document
<1>5. /\ document \in Seq(Nat) /\ Len(document) = Len(name) + 1
      /\ document[1] = first /\ Tail(document) = name
      /\ \A i \in 1..Len(name) : document[i + 1] = name[i]
  BY <1>1, <1>2, <1>3
<1>6. Len(name) \in Nat
  BY <1>2
<1>7. by.kind = "json" => IsJson(document)
  BY <1>4, <1>5, <1>6 DEF IsJson
<1>8. ASSUME by.kind = "json", NEW k \in Nat, k >= 2
      PROVE  ~IsJson(SubSeq(document, k, Len(document)))
  <2>. DEFINE part == SubSeq(document, k, Len(document))
  <2>1. CASE k > Len(document)
    <3>1. part = <<>>
      BY <1>5, <1>6, <1>8, <2>1
    <3>. QED  BY <3>1 DEF IsJson
  <2>2. CASE k <= Len(document)
    <3>1. part[1] = document[k]
      BY <1>5, <1>6, <1>8, <2>2
    <3>2. k - 1 \in 1..Len(name) /\ document[k] = name[k - 1]
      <4>1. k - 1 \in 1..Len(name) /\ (k - 1) + 1 = k
        BY <1>5, <1>6, <1>8, <2>2
      <4>. QED  BY <4>1, <1>5
    <3>. QED  BY <1>4, <1>8, <3>1, <3>2 DEF IsJson
  <2>. QED  BY <1>5, <1>6, <1>8, <2>1, <2>2
<1>9. Len(document) > 0
  BY <1>5, <1>6
<1>. QED  BY <1>5, <1>7, <1>8, <1>9 DEF document, name

\* The names that a reader has to look for.
LEMMA NamesAre ==
  ASSUME NEW by, IsReader(by), NEW n \in Nat
  PROVE  IsName(by.name) /\ IsName(SubSeq(by.name, n + 1, Len(by.name)))
<1>. DEFINE name == by.name
            part == SubSeq(name, n + 1, Len(name))
<1>1. name \in Seq(Nat) /\ \A i \in 1..Len(name) : name[i] < 128
  BY BytesAre DEF IsReader
<1>2. Len(name) <= INT32_MAX
  BY DEF IsReader
<1>3. \A m \in Nat : m <= INT32_MAX => IsLength(m + 6)
  BY SMT DEF INT32_MAX, IsLength, Has35Bits
<1>. HIDE DEF name
<1>4. Len(name) \in Nat
  BY <1>1
<1>5. part \in Seq(Nat) /\ Len(part) \in Nat /\ Len(part) <= Len(name)
      /\ \A i \in 1..Len(part) : i + n \in 1..Len(name) /\ part[i] = name[i + n]
  BY <1>1, <1>4
<1>6. INT32_MAX \in Nat
  BY SMT DEF INT32_MAX
<1>7. Len(part) <= INT32_MAX
  BY <1>2, <1>4, <1>5, <1>6
<1>8. \A i \in 1..Len(part) : part[i] < 128
  BY <1>1, <1>5
<1>9. IsName(name)
  BY <1>1, <1>2, <1>3, <1>4 DEF IsName
<1>10. IsName(part)
  <2>. HIDE DEF part
  <2>. QED  BY <1>3, <1>5, <1>7, <1>8 DEF IsName
<1>. QED  BY <1>9, <1>10 DEF name

\* What is presented of a record that was read as it was written.
IsDecoded(r, by) ==
  r.kind = "content" /\ r.reader = by /\ r.payload = Document(by)

\* What a read presents when the bytes are the document's.
LEMMA ReadIsDecoded ==
  ASSUME NEW by, IsReader(by)
  PROVE  IsDecoded(Read(Reader(by.kind, by.name), Document(by)), by)
BY DEF IsDecoded, Read, IsReader

\* A document is what its reader's library can make something of.
LEMMA DocumentRaisesNothing ==
  ASSUME NEW by, IsReader(by)
  PROVE  /\ by.kind = "json" => Raises(JSON, Document(by)) = "nothing"
         /\ by.kind # "json" =>
              Decoded(Reader(by.kind, by.name), Document(by)) = Read(Reader(by.kind, by.name), Document(by))
<1>1. by = Reader(by.kind, by.name)
  BY DEF IsReader
<1>2. ASSUME by.kind = "json", <<JSON, Document(by)>> \in DOMAIN Undecodable
      PROVE  FALSE
  <2>. DEFINE fault == <<JSON, Document(by)>>
  <2>1. fault[1].kind = "json" /\ fault[2] = Document(by)
    BY DEF JSON, Reader
  <2>2. fault[1].kind = "json" => ~IsJson(fault[2])
    BY <1>2, UndecodableAssumption
  <2>. HIDE DEF fault
  <2>. QED  BY <1>2, <2>1, <2>2, DocumentIs
<1>3. ASSUME by.kind # "json", <<by, Document(by)>> \in DOMAIN Undecodable
      PROVE  FALSE
  <2>. DEFINE fault == <<by, Document(by)>>
  <2>1. fault[1] = by /\ fault[2] = Document(by)
    OBVIOUS
  <2>2. fault[1].kind # "json" => fault[2] # Document(fault[1])
    BY <1>3, UndecodableAssumption
  <2>. HIDE DEF fault
  <2>. QED  BY <1>3, <2>1, <2>2
<1>4. by.kind # "json" => Raises(by, Document(by)) = "nothing"
  BY <1>3 DEF Raises
<1>. QED  BY <1>1, <1>2, <1>4, DecodedIs DEF Raises

\* JSON is presented as it was written, whoever reads it.
LEMMA JsonIsDecoded ==
  ASSUME NEW by, IsReader(by), by.kind = "json",
         NEW schemas, \A schema \in schemas : schema = by.name
  PROVE  IsDecoded(JsonWith(Document(by), schemas), by)
<1>1. IsJson(Document(by)) /\ Tail(Document(by)) = by.name
  BY DocumentIs
<1>2. JsonWith(Document(by), schemas) = Read(Reader("json", by.name), Document(by))
  BY <1>1, DocumentRaisesNothing DEF JsonWith, Matches
<1>. QED  BY <1>2, ReadIsDecoded

\* Apicurio's JSON, with or without a reference before it, unless what looks as
\* if it followed one cannot be shown.
LEMMA ApicurioJsonIsDecoded ==
  ASSUME NEW by, IsReader(by), by.kind = "json",
         NEW before \in {<<>>, TypeRef(by.name)}
  PROVE  \/ ApicurioJson(before \o Document(by), by.name).kind = "escape"
         \/ IsDecoded(ApicurioJson(before \o Document(by), by.name), by)
<1>. DEFINE document == Document(by)
            payload == before \o document
            rest == ParseTypeRef(payload).rest
<1>1. /\ document \in Seq(Nat) /\ IsJson(document)
      /\ \A k \in Nat : k >= 2 => ~IsJson(SubSeq(document, k, Len(document)))
  BY DocumentIs
<1>2. IsName(by.name)
  BY NamesAre
<1>. HIDE DEF document
<1>3. (IF IsJson(rest) THEN rest ELSE payload) = document
  <2>1. CASE before = <<>>
    <3>1. payload = document
      BY <1>1, <2>1
    <3>2. \/ ParseTypeRef(document).rest = document
          \/ \E k \in Nat : k >= 2 /\ ParseTypeRef(document).rest = SubSeq(document, k, Len(document))
      BY <1>1, RestOfTypeRef
    <3>. QED  BY <1>1, <3>1, <3>2
  <2>2. CASE before = TypeRef(by.name)
    <3>1. rest = document
      BY <1>1, <1>2, <2>2, TypeRefsAreReadBack
    <3>. QED  BY <1>1, <3>1
  <2>. QED  BY <2>1, <2>2
<1>4. Raises(JSON, rest) = "escape" => ApicurioJson(payload, by.name).kind = "escape"
  <2>. HIDE DEF payload
  <2>1. Raises(JSON, rest) = "escape" => ApicurioJson(payload, by.name) = Decoded(JSON, rest)
    BY DEF ApicurioJson, JsonWith
  <2>. HIDE DEF rest
  <2>2. Raises(JSON, rest) = "escape" => Decoded(JSON, rest).kind = "escape"
    BY DecodedIs
  <2>. QED  BY <2>1, <2>2
<1>5. Raises(JSON, rest) # "escape" => ApicurioJson(payload, by.name) = JsonWith(document, {by.name})
  BY <1>3 DEF ApicurioJson
<1>6. IsDecoded(JsonWith(Document(by), {by.name}), by)
  BY JsonIsDecoded
<1>. QED  BY <1>4, <1>5, <1>6 DEF document

-----------------------------------------------------------------------------
\* Messages of a Protobuf file.

\* A message that the file declares, by its path.
IsAt(file, indexes, name) ==
  /\ IsPath(indexes) /\ HasMessage(file, indexes)
  /\ indexes \in DOMAIN file.messages /\ MessageName(file, indexes) = name

\* The messages of a file are at paths that can be written.
LEMMA PathsAre ==
  ASSUME NEW file, WellFormed(file), NEW indexes \in DOMAIN file.messages
  PROVE  /\ IsAt(file, indexes, MessageName(file, indexes))
         /\ file.package \in Seq(NAME_BYTES)
         /\ [n \in DOMAIN indexes |-> file.messages[SubSeq(indexes, 1, n)]] \in Seq(NAME_BYTES)
<1>1. /\ indexes \in Seq(0 .. INT32_MAX) /\ Len(indexes) \in 1 .. MAX_MESSAGE_INDEXES
      /\ \A n \in 1 .. Len(indexes) : SubSeq(indexes, 1, n) \in DOMAIN file.messages
  BY DEF WellFormed
<1>2. \A n \in 1 .. Len(indexes) : file.messages[SubSeq(indexes, 1, n)] \in NAME_BYTES
  BY <1>1 DEF WellFormed
<1>3. MAX_MESSAGE_INDEXES \in Nat /\ INT32_MAX \in Nat
  BY SMT DEF MAX_MESSAGE_INDEXES, INT32_MAX
<1>4. Len(indexes) \in Nat /\ Len(indexes) > 0
  BY <1>1, <1>3
<1>5. \A i \in 1..Len(indexes) : indexes[i] \in Nat /\ indexes[i] <= INT32_MAX
  BY <1>1, <1>3
<1>6. indexes \in Seq(Nat)
  <2>1. indexes = [i \in 1..Len(indexes) |-> indexes[i]]
    BY <1>1
  <2>2. indexes \in [1..Len(indexes) -> Nat]
    BY <1>5, <2>1
  <2>. QED  BY <1>4, <2>2
<1>7. IsPath(indexes)
  BY <1>1, <1>5, <1>6 DEF IsPath
<1>8. HasMessage(file, indexes)
  <2>1. indexes # <<>>
    BY <1>4
  <2>. QED  BY <1>1, <2>1 DEF HasMessage
<1>9. [n \in DOMAIN indexes |-> file.messages[SubSeq(indexes, 1, n)]] \in Seq(NAME_BYTES)
  <2>1. DOMAIN indexes = 1..Len(indexes)
    BY <1>1
  <2>2. [n \in 1..Len(indexes) |-> file.messages[SubSeq(indexes, 1, n)]] \in [1..Len(indexes) -> NAME_BYTES]
    BY <1>2
  <2>. QED  BY <1>4, <2>1, <2>2
<1>. QED  BY <1>7, <1>8, <1>9 DEF IsAt, WellFormed

\* A message that a file declares has a path, and one name.
LEMMA DeclaredAre ==
  ASSUME NEW file, WellFormed(file), NEW name, Declares(file, name)
  PROVE  IsAt(file, MessageIndexes(file, name), name)
<1>. DEFINE indexes == MessageIndexes(file, name)
<1>1. indexes \in DOMAIN file.messages /\ MessageName(file, indexes) = name
  BY DEF Declares, MessageIndexes
<1>. HIDE DEF indexes
<1>2. IsAt(file, indexes, name)
  BY <1>1, PathsAre
<1>. QED  BY <1>2 DEF indexes

\* A name that begins with another is it and a rest.
LEMMA Parted ==
  ASSUME NEW s \in Seq(Nat), NEW t \in Seq(Nat)
  PROVE  /\ Len(s) \in Nat /\ Len(s \o t) \in Nat /\ Len(s \o t) >= Len(s)
         /\ SubSeq(s \o t, 1, Len(s)) = SubSeq(s, 1, Len(s))
         /\ SubSeq(s \o t, Len(s) + 1, Len(s \o t)) = t
<1>1. s \o t \in Seq(Nat) /\ Len(s \o t) = Len(s) + Len(t) /\ Len(s) \in Nat /\ Len(t) \in Nat
  BY Concatenated
<1>2. SubSeq(s \o t, 1, Len(s)) = SubSeq(s, 1, Len(s))
  <2>1. Len(SubSeq(s \o t, 1, Len(s))) = Len(s) /\ Len(SubSeq(s, 1, Len(s))) = Len(s)
    BY <1>1
  <2>. QED  BY <1>1, <2>1
<1>3. SubSeq(s \o t, Len(s) + 1, Len(s \o t)) = t
  BY <1>1
<1>. QED  BY <1>1, <1>2, <1>3

\* A name without the package is the rest of it.
LEMMA WithinPackage ==
  ASSUME NEW file, WellFormed(file), NEW name, Declares(file, name)
  PROVE  /\ name = file.package \o WithoutPackage(file, name)
         /\ \E n \in Nat : WithoutPackage(file, name) = SubSeq(name, n + 1, Len(name))
<1>. DEFINE indexes == MessageIndexes(file, name)
            package == file.package
            path == [n \in DOMAIN indexes |-> file.messages[SubSeq(indexes, 1, n)]]
<1>1. indexes \in DOMAIN file.messages /\ MessageName(file, indexes) = name
  BY DEF Declares, MessageIndexes
<1>2. package \in Seq(NAME_BYTES) /\ path \in Seq(NAME_BYTES)
  <2>. HIDE DEF indexes
  <2>. QED  BY <1>1, PathsAre
<1>3. name = package \o path
  BY <1>1 DEF MessageName
<1>4. package \in Seq(Nat) /\ path \in Seq(Nat)
  <2>. HIDE DEF path, package
  <2>. QED  BY <1>2, BytesAre
<1>. DEFINE k == Len(package)
            rest == SubSeq(name, k + 1, Len(name))
<1>5. /\ k \in Nat /\ rest = path /\ Len(name) >= k /\ Len(name) \in Nat
      /\ SubSeq(package, 1, k) = SubSeq(name, 1, k)
  <2>. HIDE DEF path, package
  <2>. QED  BY <1>3, <1>4, Parted
<1>. HIDE DEF path, indexes
<1>6. IsPrefix(package, name)
  BY <1>5 DEF IsPrefix
<1>7. WithoutPackage(file, name) = rest
  BY <1>6 DEF WithoutPackage
<1>. QED  BY <1>3, <1>5, <1>7

\* The pool of a schema has the messages of its own file.
LEMMA PoolHas ==
  ASSUME NEW schema \in DOMAIN Schemas, NEW name, Declares(Schemas[schema].file, name)
  PROVE  name \in Pool(schema)
<1>1. schema \in Reachable(Schemas, schema)
  BY SchemasAssumption, ReachableIs
<1>2. name \in MessagesOf(Schemas[schema].file)
  BY DEF Declares, MessagesOf
<1>. QED  BY <1>1, <1>2 DEF Pool, Pools

\* Where names are unambiguous a message is found by its name, and by the one
\* it has within its package.
LEMMA MessagesAreFound ==
  ASSUME NEW provider, NEW schema \in DOMAIN Schemas, Unambiguous(provider, schema),
         Schemas[schema].type = "protobuf",
         NEW name, Declares(Schemas[schema].file, name),
         NEW short, short = name \/ name = Schemas[schema].file.package \o short
  PROVE  FindMessage(Pool(schema), Schemas[schema].file, short) = [found |-> TRUE, name |-> name]
<1>. DEFINE file == Schemas[schema].file
<1>1. name \in Pool(schema)
  BY PoolHas
<1>2. short \in Pool(schema) /\ file.package \o short # short =>
        ~Declares(file, file.package \o short)
  BY DEF Unambiguous
<1>3. CASE short = name
  BY <1>1, <1>3 DEF FindMessage
<1>4. CASE name = file.package \o short /\ short \in Pool(schema)
  <2>1. short = name
    BY <1>2, <1>4
  <2>. QED  BY <1>3, <2>1
<1>5. CASE name = file.package \o short /\ short \notin Pool(schema)
  BY <1>1, <1>5 DEF FindMessage
<1>. QED  BY <1>3, <1>4, <1>5

\* Every schema that a record was written by can be parsed with what is
\* collected for it.
LEMMA SchemasParse ==
  ASSUME NEW provider \in REGISTRY_PROVIDERS, NEW schema \in DOMAIN Schemas,
         provider = "apicurio" \/ Schemas[schema].type = "protobuf",
         Unambiguous(provider, schema)
  PROVE  /\ Parseable[provider][schema]
         /\ Schemas[schema].type = "protobuf" /\ provider = "apicurio" => RootFiles[schema] = schema
<1>1. /\ IsFiniteSet(DOMAIN Schemas) /\ Acyclic(Schemas)
      /\ Schemas[schema].type \in {"avro", "json", "protobuf"}
      /\ provider \in {"confluent", "apicurio"}
  BY SchemasAssumption, RegistryAssumption DEF REGISTRY_PROVIDERS
<1>2. /\ EachNameOnce(Schemas, schema) /\ OneNameEach(Schemas, schema)
      /\ Schemas[schema].type = "protobuf" => IsRooted(provider, Schemas, schema)
  BY DEF Unambiguous, IsRooted
<1>3. Parses(Schemas, provider, schema)
  BY <1>1, <1>2, CollectedParse
<1>4. ASSUME Schemas[schema].type = "protobuf", provider = "apicurio"
      PROVE  ApicurioSources(Schemas, schema)[RootName("apicurio")] = schema
  <2>1. EachNameOnce(Schemas, schema) /\ OneNameEach(Schemas, schema) /\ IsRooted("apicurio", Schemas, schema)
    BY <1>2, <1>4
  <2>2. LET files == IF "apicurio" = "confluent" THEN ConfluentDescriptors(Schemas, schema)
                     ELSE ApicurioSources(Schemas, schema)
        IN  files[RootName("apicurio")] = schema
    BY <1>1, <2>1, FilesParse
  <2>. QED  BY <2>2
<1>5. Parseable[provider][schema] = Parses(Schemas, provider, schema)
  BY DEF Parseable
<1>6. RootFiles[schema] = ApicurioSources(Schemas, schema)[RootName("apicurio")]
  BY DEF RootFiles
<1>. QED  BY <1>3, <1>4, <1>5, <1>6

-----------------------------------------------------------------------------
\* Data as it was written.

\* What may stand before a document, framing by framing.
LEMMA PreamblesAre ==
  ASSUME NEW format, NEW framing, NEW by, NEW file
  PROVE  LET all == Preambles(format, framing, by, file)
         IN  /\ framing = "confluent" /\ by.kind = "protobuf" =>
                  all = {MessageIndexBytes(MessageIndexes(file, by.name))}
             /\ framing = "apicurio" /\ by.kind = "protobuf" =>
                  all = {TypeRef(by.name), TypeRef(WithoutPackage(file, by.name))}
                          \cup {none \in {<<>>} : Unreferenced(by, file)}
             /\ framing = "apicurio" /\ by.kind = "json" /\ format = "registry" =>
                  all = {<<>>, TypeRef(by.name)}
             /\ ~(framing \in {"confluent", "apicurio"} /\ by.kind = "protobuf")
                /\ ~(framing = "apicurio" /\ by.kind = "json" /\ format = "registry") => all = {<<>>}
<1>1. framing = "confluent" => framing # "apicurio"
  OBVIOUS
<1>2. by.kind = "protobuf" => by.kind # "json"
  OBVIOUS
<1>3. ASSUME framing = "confluent", by.kind = "protobuf"
      PROVE  Preambles(format, framing, by, file) = {MessageIndexBytes(MessageIndexes(file, by.name))}
  BY <1>1, <1>2, <1>3, Zenon DEF Preambles
<1>4. ASSUME framing = "apicurio", by.kind = "protobuf"
      PROVE  Preambles(format, framing, by, file) =
               {TypeRef(by.name), TypeRef(WithoutPackage(file, by.name))}
                 \cup {none \in {<<>>} : Unreferenced(by, file)}
  BY <1>1, <1>2, <1>4, Zenon DEF Preambles
<1>5. ASSUME framing = "apicurio", by.kind = "json", format = "registry"
      PROVE  Preambles(format, framing, by, file) = {<<>>, TypeRef(by.name)}
  BY <1>1, <1>2, <1>5, Zenon DEF Preambles
<1>6. ASSUME ~(framing \in {"confluent", "apicurio"} /\ by.kind = "protobuf"),
             ~(framing = "apicurio" /\ by.kind = "json" /\ format = "registry")
      PROVE  Preambles(format, framing, by, file) = {<<>>}
  <2>1. ~(framing = "confluent" /\ by.kind = "protobuf") /\ ~(framing = "apicurio" /\ by.kind = "protobuf")
    BY <1>6
  <2>. QED  BY <2>1, <1>6, Zenon DEF Preambles
<1>. QED  BY <1>3, <1>4, <1>5, <1>6

\* A message's bytes.
LEMMA MessageBytes ==
  ASSUME NEW file, WellFormed(file), NEW name, Declares(file, name)
  PROVE  IsPath(MessageIndexes(file, name)) /\ MessageIndexBytes(MessageIndexes(file, name)) \in Seq(Nat)
<1>1. IsAt(file, MessageIndexes(file, name), name)
  BY DeclaredAre
<1>2. IsPath(MessageIndexes(file, name))
  BY <1>1 DEF IsAt
<1>3. <<>> \in Seq(Nat)
  OBVIOUS
<1>. QED  BY <1>2, <1>3, IndexesAreReadBack

\* The bytes that a framing puts before a document.
LEMMA PreamblesAreBytes ==
  ASSUME NEW format, NEW framing, NEW by, IsReader(by), NEW file, WellFormed(file),
         by.kind = "protobuf" => Declares(file, by.name),
         NEW before \in Preambles(format, framing, by, file)
  PROVE  before \in Seq(Nat)
<1>1. <<>> \in Seq(Nat) /\ 0 \in Nat
  OBVIOUS
<1>2. IsName(by.name)
  BY <1>1, NamesAre
<1>3. TypeRef(by.name) \in Seq(Nat)
  BY <1>1, <1>2, TypeRefsAreReadBack
<1>4. CASE framing = "confluent" /\ by.kind = "protobuf"
  <2>1. before = MessageIndexBytes(MessageIndexes(file, by.name))
    BY <1>4, PreamblesAre
  <2>. QED  BY <1>4, <2>1, MessageBytes
<1>5. CASE framing = "apicurio" /\ by.kind = "protobuf"
  <2>1. before \in {TypeRef(by.name), TypeRef(WithoutPackage(file, by.name)), <<>>}
    BY <1>5, PreamblesAre
  <2>2. PICK n \in Nat : WithoutPackage(file, by.name) = SubSeq(by.name, n + 1, Len(by.name))
    BY <1>5, WithinPackage
  <2>3. IsName(WithoutPackage(file, by.name))
    BY <2>2, NamesAre
  <2>4. TypeRef(WithoutPackage(file, by.name)) \in Seq(Nat)
    BY <1>1, <2>3, TypeRefsAreReadBack
  <2>. QED  BY <1>1, <1>3, <2>1, <2>4
<1>6. CASE ~(framing \in {"confluent", "apicurio"} /\ by.kind = "protobuf")
  <2>1. before \in {<<>>, TypeRef(by.name)}
    BY <1>6, PreamblesAre
  <2>. QED  BY <1>1, <1>3, <2>1
<1>. QED  BY <1>4, <1>5, <1>6

\* Framed data: a header, what goes before the document, and the document.
IsFramed(written, format, schema, before) ==
  /\ before \in Preambles(format, written.framing, written.by, Schemas[schema].file)
  /\ written.by.kind = "protobuf" => Declares(Schemas[schema].file, written.by.name)
  /\ written.data.payload = before \o Document(written.by)
  /\ HasRegistryHeader(written.data)
  /\ before = <<>> => written.data.payload = Document(written.by)

\* The header of framed data is taken off: the schema that its ID names is left,
\* and what stands before the document.
LEMMA FramedIs ==
  ASSUME NEW written, IsReader(written.by), NEW format, written.framing # "raw",
         NEW schemas \in SUBSET DOMAIN Schemas, IsWritten(written, format, schemas)
  PROVE  \E schema \in schemas : \E before : IsFramed(written, format, schema, before)
<1>1. PICK schema \in schemas :
        /\ written.by.kind = "protobuf" => Declares(Schemas[schema].file, written.by.name)
        /\ \E before \in Preambles(format, written.framing, written.by, Schemas[schema].file) :
             written.data = Framed(written.data.id, before \o Document(written.by))
  BY DEF IsWritten
<1>2. PICK before \in Preambles(format, written.framing, written.by, Schemas[schema].file) :
        written.data = Framed(written.data.id, before \o Document(written.by))
  BY <1>1
<1>3. before \in Seq(Nat)
  BY <1>1, <1>2, PreamblesAreBytes, SchemasAssumption
<1>. DEFINE document == Document(written.by)
<1>4. document \in Seq(Nat) /\ Len(document) > 0
  BY DocumentIs
<1>5. written.data.payload = before \o Document(written.by) /\ written.data.magic = MAGIC
  BY <1>2 DEF Framed
<1>6. before \o document # <<>> /\ (before = <<>> => before \o document = document)
  <2>. HIDE DEF document
  <2>1. Len(before \o document) = Len(before) + Len(document) /\ Len(before) \in Nat /\ Len(document) \in Nat
    BY <1>3, <1>4, Concatenated
  <2>2. before = <<>> => before \o document = document
    BY <1>4
  <2>3. Len(before \o document) # 0
    BY <2>1, <1>4
  <2>. QED  BY <2>2, <2>3
<1>7. HasRegistryHeader(written.data)
  BY <1>5, <1>6 DEF HasRegistryHeader
<1>8. IsFramed(written, format, schema, before)
  BY <1>1, <1>2, <1>5, <1>6, <1>7, Zenon DEF IsFramed
<1>. QED  BY <1>8

\* Behind Confluent's message indexes, and Apicurio's reference, is the document.
LEMMA IndexesAreParsed ==
  ASSUME NEW written, IsReader(written.by), written.by.kind = "protobuf",
         written.framing = "confluent", NEW format, NEW schema \in DOMAIN Schemas,
         NEW before, IsFramed(written, format, schema, before)
  PROVE  /\ IsAt(Schemas[schema].file, MessageIndexes(Schemas[schema].file, written.by.name),
                 written.by.name)
         /\ ParseMessageIndexes(written.data.payload) =
              [ok |-> TRUE, indexes |-> MessageIndexes(Schemas[schema].file, written.by.name),
               rest |-> Document(written.by)]
<1>. DEFINE file == Schemas[schema].file
            indexes == MessageIndexes(file, written.by.name)
            document == Document(written.by)
<1>1. WellFormed(file) /\ Declares(file, written.by.name)
  BY SchemasAssumption DEF IsFramed
<1>2. IsAt(file, indexes, written.by.name) /\ IsPath(indexes)
  BY <1>1, DeclaredAre DEF IsAt
<1>3. before = MessageIndexBytes(indexes)
  BY PreamblesAre DEF IsFramed
<1>4. written.data.payload = before \o document
  BY DEF IsFramed
<1>5. document \in Seq(Nat)
  BY DocumentIs
<1>. HIDE DEF indexes, document
<1>6. ParseMessageIndexes(MessageIndexBytes(indexes) \o document) =
        [ok |-> TRUE, indexes |-> indexes, rest |-> document]
  BY <1>2, <1>5, IndexesAreReadBack
<1>. QED  BY <1>2, <1>3, <1>4, <1>6 DEF indexes, document

\* The reference names the message in full or within the package, or is left out.
IsReferred(reference, by, file) ==
  /\ reference.rest = Document(by)
  /\ IF reference.named
     THEN reference.name = by.name \/ by.name = file.package \o reference.name
     ELSE <<0>> \in DOMAIN file.messages /\ by.name = MessageName(file, <<0>>)

\* A reference that names the message, or none, leads to it.
LEMMA ReferencesAreParsed ==
  ASSUME NEW written, IsReader(written.by), written.by.kind = "protobuf",
         written.framing = "apicurio", NEW format, NEW schema \in DOMAIN Schemas,
         NEW before, IsFramed(written, format, schema, before)
  PROVE  IsReferred(ParseTypeRef(written.data.payload), written.by, Schemas[schema].file)
<1>. DEFINE file == Schemas[schema].file
            by == written.by
            document == Document(written.by)
            short == WithoutPackage(file, by.name)
<1>1. WellFormed(file) /\ Declares(file, by.name)
  BY SchemasAssumption DEF IsFramed
<1>2. /\ before \in {TypeRef(by.name), TypeRef(short)} \cup {none \in {<<>>} : Unreferenced(by, file)}
      /\ written.data.payload = before \o document
      /\ before = <<>> => written.data.payload = document
  BY PreamblesAre DEF IsFramed
<1>3. document \in Seq(Nat)
  BY DocumentIs
<1>4. by.name = file.package \o short /\ \E n \in Nat : short = SubSeq(by.name, n + 1, Len(by.name))
  BY <1>1, WithinPackage
<1>5. IsName(by.name) /\ IsName(short)
  <2>1. 0 \in Nat
    OBVIOUS
  <2>. QED  BY <1>4, <2>1, NamesAre
<1>. HIDE DEF file, document, short
<1>6. ASSUME NEW name, name = by.name \/ by.name = file.package \o name, IsName(name), before = TypeRef(name)
      PROVE  IsReferred(ParseTypeRef(written.data.payload), by, file)
  <2>1. ParseTypeRef(TypeRef(name) \o document) = [named |-> TRUE, name |-> name, rest |-> document]
    BY <1>3, <1>6, TypeRefsAreReadBack
  <2>. QED  BY <1>2, <1>6, <2>1 DEF IsReferred, document
<1>7. ASSUME before = <<>>, Unreferenced(by, file)
      PROVE  IsReferred(ParseTypeRef(written.data.payload), by, file)
  <2>1. written.data.payload = document /\ ~ParseTypeRef(document).named
    BY <1>2, <1>7 DEF Unreferenced, document
  <2>2. ParseTypeRef(document).rest = document
    <3>. DEFINE ref == Delimited(document, ReadVarint(document, 0), 1)
                name == NameIn(ReadVarint(ref.bytes, 0), ref.bytes)
    <3>1. ParseTypeRef(document) = Referenced(document, ref, name)
      BY Zenon DEF ParseTypeRef
    <3>. HIDE DEF ref, name
    <3>. QED  BY <2>1, <3>1 DEF Referenced
  <2>. QED  BY <1>7, <2>1, <2>2 DEF IsReferred, Unreferenced, document
<1>8. IsReferred(ParseTypeRef(written.data.payload), by, file)
  <2>1. CASE before = TypeRef(by.name)
    BY <1>5, <1>6, <2>1
  <2>2. CASE before = TypeRef(short)
    BY <1>4, <1>5, <1>6, <2>2
  <2>3. CASE before = <<>> /\ Unreferenced(by, file)
    BY <1>7, <2>3
  <2>. QED  BY <1>2, <2>1, <2>2, <2>3
<1>. QED  BY <1>8 DEF file

-----------------------------------------------------------------------------
\* The two registries.

\* Behind Confluent's header, each format.
LEMMA ConfluentIsDecoded ==
  ASSUME NEW c, IsCache(c), NEW written, IsReader(written.by), written.framing = "confluent",
         written.data.id \in DOMAIN SchemaIds,
         Unambiguous("confluent", SchemaIds[written.data.id]),
         IsWritten(written, "registry", {SchemaIds[written.data.id]}),
         SchemaOf(written.data.id).type = "protobuf" =>
           written.by.kind = "protobuf" /\ c.schemas[written.data.id] = "serialized",
         SchemaOf(written.data.id).type # "protobuf" =>
           written.by = Reader(SchemaOf(written.data.id).type, SchemaOf(written.data.id).name)
  PROVE  /\ HasRegistryHeader(written.data)
         /\ IsDecoded(ConfluentContent(c, written.data.id, written.data, "none").result, written.by)
<1>. DEFINE id == written.data.id
            schema == SchemaIds[id]
            file == Schemas[schema].file
            by == written.by
            payload == written.data.payload
            content == ConfluentContent(c, id, written.data, "none")
<1>1. schema \in DOMAIN Schemas /\ SchemaOf(id) = Schemas[schema]
      /\ Schemas[schema].type \in {"avro", "json", "protobuf"}
  BY RegistryAssumption DEF SchemaOf
<1>2. PICK before : IsFramed(written, "registry", schema, before)
  <2>1. \E s \in {schema} : \E before : IsFramed(written, "registry", s, before)
    BY <1>1, FramedIs
  <2>. QED  BY <2>1
<1>3. HasRegistryHeader(written.data)
  BY <1>2 DEF IsFramed
<1>4. Collected(c, id, "none").ok /\ LibrarySchema(c, id, "none").ok
  BY CollectedHolds, LibrarySchemaHolds
<1>5. CASE Schemas[schema].type = "protobuf"
  <2>. DEFINE indexes == ParseMessageIndexes(payload)
              message == FindMessage(Pool(schema), file, MessageName(file, indexes.indexes))
  <2>1. by.kind = "protobuf" /\ c.schemas[id] = "serialized"
    BY <1>1, <1>5
  <2>2. /\ indexes.ok /\ indexes.rest = Document(by)
        /\ HasMessage(file, indexes.indexes) /\ MessageName(file, indexes.indexes) = by.name
    <3>. DEFINE path == MessageIndexes(file, by.name)
    <3>1. IsAt(file, path, by.name)
          /\ indexes = [ok |-> TRUE, indexes |-> path, rest |-> Document(by)]
      BY <1>1, <1>2, <2>1, IndexesAreParsed
    <3>. HIDE DEF path, indexes
    <3>. QED  BY <3>1 DEF IsAt
  <2>3. Parseable["confluent"][schema]
    BY <1>1, <1>5, SchemasParse DEF REGISTRY_PROVIDERS
  <2>4. Declares(file, by.name)
    BY <1>2, <2>1 DEF IsFramed
  <2>5. FindMessage(Pool(schema), file, by.name) = [found |-> TRUE, name |-> by.name]
    BY <1>1, <1>5, <2>4, MessagesAreFound
  <2>6. message.found /\ message.name = by.name
    BY <2>2, <2>5
  <2>7. content = ConfluentProtobuf(c, id, written.data, "none")
    BY <1>1, <1>5 DEF ConfluentContent
  <2>8. content.result = Decoded(Reader("protobuf", by.name), Document(by))
    <3>. HIDE DEF indexes, message
    <3>1. ConfluentProtobuf(c, id, written.data, "none") =
            Result(Decoded(Reader("protobuf", message.name), indexes.rest), Collected(c, id, "none").cache)
      BY <1>1, <1>4, <2>1, <2>2, <2>3, <2>6 DEF ConfluentProtobuf, indexes, message
    <3>. QED  BY <2>2, <2>6, <2>7, <3>1 DEF Result
  <2>. HIDE DEF content
  <2>9. IsDecoded(content.result, by)
    BY <2>1, <2>8, ReadIsDecoded, DocumentRaisesNothing
  <2>. QED  BY <1>3, <2>9 DEF content
<1>6. CASE Schemas[schema].type # "protobuf"
  <2>1. by = Reader(Schemas[schema].type, Schemas[schema].name)
    BY <1>1, <1>6
  <2>2. by.kind = Schemas[schema].type /\ by.name = Schemas[schema].name
    BY <2>1 DEF Reader
  <2>3. before = <<>>
    BY <1>2, <1>6, <2>2, PreamblesAre DEF IsFramed
  <2>4. payload = Document(by)
    BY <1>2, <2>3 DEF IsFramed
  <2>5. content.result = IF by.kind = "json" THEN JsonWith(Document(by), {by.name})
                         ELSE Decoded(Reader("avro", by.name), Document(by))
    BY <1>1, <1>4, <1>6, <2>2, <2>4 DEF ConfluentContent, Result
  <2>6. CASE by.kind = "json"
    <3>1. IsDecoded(JsonWith(Document(by), {by.name}), by)
      BY <2>6, JsonIsDecoded
    <3>. QED  BY <1>3, <2>5, <2>6, <3>1
  <2>7. CASE by.kind = "avro"
    <3>1. IsDecoded(Decoded(Reader("avro", by.name), Document(by)), by)
      BY <2>7, ReadIsDecoded, DocumentRaisesNothing
    <3>. QED  BY <1>3, <2>5, <2>7, <3>1
  <2>. QED  BY <1>1, <1>6, <2>2, <2>6, <2>7
<1>. QED  BY <1>5, <1>6

\* Behind Apicurio's header, a Protobuf message.
LEMMA ApicurioMessageIsDecoded ==
  ASSUME NEW by, IsReader(by), by.kind = "protobuf",
         NEW schema \in DOMAIN Schemas, Schemas[schema].type = "protobuf",
         Unambiguous("apicurio", schema), Declares(Schemas[schema].file, by.name),
         NEW payload, IsReferred(ParseTypeRef(payload), by, Schemas[schema].file)
  PROVE  IsDecoded(ApicurioProtobuf(schema, payload), by)
<1>. DEFINE file == Schemas[schema].file
            reference == ParseTypeRef(payload)
            message == IF reference.named THEN FindMessage(Pool(schema), file, reference.name)
                       ELSE FirstMessage(Pool(schema), file)
            found == [found |-> TRUE, name |-> by.name]
<1>1. RootFiles[schema] = schema
  BY SchemasParse DEF REGISTRY_PROVIDERS
<1>. HIDE DEF reference
<1>2. /\ reference.rest = Document(by)
      /\ IF reference.named
         THEN reference.name = by.name \/ by.name = file.package \o reference.name
         ELSE <<0>> \in DOMAIN file.messages /\ by.name = MessageName(file, <<0>>)
  BY DEF IsReferred, reference
<1>3. ASSUME NEW short, short = by.name \/ by.name = file.package \o short
      PROVE  FindMessage(Pool(schema), file, short) = found
  BY <1>3, MessagesAreFound
<1>4. CASE reference.named
  <2>1. FindMessage(Pool(schema), file, reference.name) = found
    BY <1>2, <1>3, <1>4
  <2>. QED
    <3>1. message = found
      BY <1>4, <2>1
    <3>2. ApicurioProtobuf(schema, payload) = Decoded(Reader("protobuf", message.name), reference.rest)
      <4>1. message.found
        BY <3>1
      <4>. QED  BY <1>1, <4>1 DEF ApicurioProtobuf, reference
    <3>3. message.name = by.name
      BY <3>1
    <3>. QED  BY <1>2, <3>2, <3>3, ReadIsDecoded, DocumentRaisesNothing
<1>5. CASE ~reference.named
  <2>. DEFINE short == <<file.messages[<<0>>]>>
  <2>1. by.name = file.package \o short
    <3>. DEFINE path == <<0>>
    <3>1. SubSeq(path, 1, 1) = path /\ DOMAIN path = 1..1
      <4>1. path \in Seq(Nat) /\ Len(path) = 1
        OBVIOUS
      <4>. HIDE DEF path
      <4>2. SubSeq(path, 1, Len(path)) = path
        BY <4>1
      <4>. QED  BY <4>1, <4>2
    <3>2. [n \in DOMAIN path |-> file.messages[SubSeq(path, 1, n)]] = <<file.messages[path]>>
      <4>. HIDE DEF path
      <4>. DEFINE names == [n \in DOMAIN path |-> file.messages[SubSeq(path, 1, n)]]
                  name == file.messages[path]
      <4>1. DOMAIN names = 1..1 /\ names[1] = name /\ names = [n \in DOMAIN names |-> names[n]]
        <5>1. 1 \in DOMAIN path /\ DOMAIN names = DOMAIN path /\ names = [n \in DOMAIN names |-> names[n]]
          BY <3>1
        <5>2. names[1] = file.messages[SubSeq(path, 1, 1)]
          BY <5>1, Zenon
        <5>. QED  BY <3>1, <5>1, <5>2
      <4>. HIDE DEF names, name
      <4>2. names = <<name>>
        BY <4>1
      <4>. QED  BY <4>2 DEF names, name
    <3>3. MessageName(file, path) = file.package \o <<file.messages[path]>>
      BY <3>2 DEF MessageName
    <3>. QED  BY <1>2, <1>5, <3>3
  <2>2. FindMessage(Pool(schema), file, short) = found
    <3>. HIDE DEF short
    <3>. QED  BY <1>3, <2>1
  <2>3. message = found
    BY <1>2, <1>5, <2>2 DEF FirstMessage
  <2>4. ApicurioProtobuf(schema, payload) = Decoded(Reader("protobuf", message.name), reference.rest)
    <3>1. message.found
      BY <2>3
    <3>. QED  BY <1>1, <3>1 DEF ApicurioProtobuf, reference
  <2>5. message.name = by.name
    BY <2>3
  <2>. QED  BY <1>2, <2>4, <2>5, ReadIsDecoded, DocumentRaisesNothing
<1>. QED  BY <1>4, <1>5

\* Behind Apicurio's header, each format.
LEMMA ApicurioIsDecoded ==
  ASSUME NEW c, IsCache(c), NEW written, IsReader(written.by), written.framing = "apicurio",
         written.data.id \in DOMAIN SchemaIds,
         Unambiguous("apicurio", SchemaIds[written.data.id]),
         IsWritten(written, "registry", {SchemaIds[written.data.id]}),
         SchemaOf(written.data.id).type = "protobuf" => written.by.kind = "protobuf",
         SchemaOf(written.data.id).type # "protobuf" =>
           written.by = Reader(SchemaOf(written.data.id).type, SchemaOf(written.data.id).name)
  PROVE  /\ HasRegistryHeader(written.data)
         /\ \/ ApicurioContent(c, written.data.id, written.data, "none").result.kind = "escape"
            \/ IsDecoded(ApicurioContent(c, written.data.id, written.data, "none").result, written.by)
<1>. DEFINE id == written.data.id
            schema == SchemaIds[id]
            file == Schemas[schema].file
            by == written.by
            payload == written.data.payload
            type == Schemas[schema].type
            json == ApicurioJson(payload, Schemas[schema].name)
            avro == Decoded(Reader("avro", Schemas[schema].name), payload)
            protobuf == ApicurioProtobuf(schema, payload)
            result == ApicurioContent(c, id, written.data, "none").result
<1>1. schema \in DOMAIN Schemas /\ SchemaOf(id) = Schemas[schema] /\ type \in {"avro", "json", "protobuf"}
  BY RegistryAssumption DEF SchemaOf
<1>2. PICK before : IsFramed(written, "registry", schema, before)
  <2>1. \E s \in {schema} : \E before : IsFramed(written, "registry", s, before)
    BY <1>1, FramedIs
  <2>. QED  BY <2>1
<1>3. HasRegistryHeader(written.data)
  BY <1>2 DEF IsFramed
<1>4. /\ Collected(c, id, "none").ok /\ Parseable["apicurio"][schema]
  BY <1>1, CollectedHolds, SchemasParse DEF REGISTRY_PROVIDERS
<1>5. /\ type = "json" => result = json
      /\ type = "avro" => result = avro
      /\ type = "protobuf" => result = protobuf
  <2>1. result = CASE type = "json" -> json [] type = "avro" -> avro [] type = "protobuf" -> protobuf
    BY <1>1, <1>4 DEF ApicurioContent, Result
  <2>. HIDE DEF result, json, avro, protobuf, type
  <2>2. type = "json" => result = json
    BY <2>1, Zenon
  <2>3. type = "avro" => result = avro
    BY <2>1, Zenon
  <2>4. type = "protobuf" => result = protobuf
    BY <2>1, Zenon
  <2>. QED  BY <2>2, <2>3, <2>4
<1>6. CASE type = "protobuf"
  <2>1. by.kind = "protobuf" /\ Declares(file, by.name)
    BY <1>1, <1>2, <1>6 DEF IsFramed
  <2>2. IsReferred(ParseTypeRef(payload), by, file)
    BY <1>1, <1>2, <2>1, ReferencesAreParsed
  <2>3. IsDecoded(protobuf, by)
    BY <1>1, <1>6, <2>1, <2>2, ApicurioMessageIsDecoded
  <2>. QED  BY <1>3, <1>5, <1>6, <2>3
<1>7. CASE type = "json" \/ type = "avro"
  <2>1. by = Reader(type, Schemas[schema].name)
    BY <1>1, <1>7
  <2>2. by.kind = type /\ by.name = Schemas[schema].name
    BY <2>1 DEF Reader
  <2>3. CASE type = "avro"
    <3>1. before = <<>>
      BY <1>2, <2>2, <2>3, PreamblesAre DEF IsFramed
    <3>2. payload = Document(by)
      BY <1>2, <3>1 DEF IsFramed
    <3>3. IsDecoded(Decoded(Reader("avro", by.name), Document(by)), by)
      BY <2>2, <2>3, ReadIsDecoded, DocumentRaisesNothing
    <3>4. IsDecoded(avro, by)
      BY <2>2, <3>2, <3>3
    <3>. QED  BY <1>3, <1>5, <2>3, <3>4
  <2>4. CASE type = "json"
    <3>1. before \in {<<>>, TypeRef(by.name)} /\ payload = before \o Document(by)
      BY <1>2, <2>2, <2>4, PreamblesAre DEF IsFramed
    <3>2. \/ ApicurioJson(before \o Document(by), by.name).kind = "escape"
          \/ IsDecoded(ApicurioJson(before \o Document(by), by.name), by)
      BY <2>2, <2>4, <3>1, ApicurioJsonIsDecoded
    <3>. QED  BY <1>3, <1>5, <2>2, <2>4, <3>1, <3>2
  <2>. QED  BY <1>7, <2>3, <2>4
<1>. QED  BY <1>1, <1>6, <1>7

-----------------------------------------------------------------------------
\* The local formats.

\* The field's data was written with the framing that its option names.
FramedAs(config, field, written, format) ==
  /\ IsReader(written.by) /\ format # "registry"
  /\ written.framing = ScopedProperty(config, FRAMING, field, "raw") /\ FramingKnown(config, field)
  /\ IsWritten(written, format, DOMAIN Schemas)

\* Data without a framing is the document.
LEMMA RawIs ==
  ASSUME NEW config, NEW field, NEW format, NEW written, FramedAs(config, field, written, format),
         written.framing = "raw"
  PROVE  Payload(config, field, written.data) = Read(NoReader, Document(written.by))
<1>1. written.data = Unframed(Document(written.by))
  BY DEF FramedAs, IsWritten
<1>2. WholeOf(written.data) = Document(written.by)
  BY <1>1 DEF WholeOf, Unframed, MAGIC
<1>. QED  BY <1>2 DEF Payload, FramedAs

\* A local deserializer takes off the header that its framing says.
LEMMA FramedPayloadIs ==
  ASSUME NEW config, NEW field, NEW format, NEW written, FramedAs(config, field, written, format),
         written.framing # "raw"
  PROVE  /\ written.framing \in {"confluent", "apicurio"}
         /\ HasRegistryHeader(written.data)
         /\ Payload(config, field, written.data) = Read(NoReader, written.data.payload)
         /\ \E schema \in DOMAIN Schemas : \E before : IsFramed(written, format, schema, before)
<1>1. \E schema \in DOMAIN Schemas : \E before : IsFramed(written, format, schema, before)
  BY FramedIs DEF FramedAs
<1>2. written.framing \in REGISTRY_PROVIDERS
  BY DEF FramedAs, FramingKnown, FRAMINGS
<1>3. HasRegistryHeader(written.data)
  BY <1>1 DEF IsFramed
<1>. QED  BY <1>1, <1>2, <1>3 DEF Payload, FramedAs, REGISTRY_PROVIDERS

\* What a local deserializer hands on is the document, with what the framing puts
\* before it.
LEMMA PayloadIs ==
  ASSUME NEW config, NEW field, NEW format, NEW written, FramedAs(config, field, written, format),
         written.by.kind # "protobuf"
  PROVE  Payload(config, field, written.data) = Read(NoReader, Document(written.by))
<1>1. CASE written.framing = "raw"
  BY <1>1, RawIs
<1>2. CASE written.framing # "raw"
  <2>1. PICK schema \in DOMAIN Schemas : \E before : IsFramed(written, format, schema, before)
    BY <1>2, FramedPayloadIs
  <2>2. PICK before : IsFramed(written, format, schema, before)
    BY <2>1
  <2>3. before = <<>>
    <3>1. format # "registry"
      BY DEF FramedAs
    <3>. QED  BY <2>2, <3>1, PreamblesAre DEF IsFramed
  <2>4. written.data.payload = Document(written.by)
    BY <2>2, <2>3 DEF IsFramed
  <2>. QED  BY <1>2, <2>4, FramedPayloadIs
<1>. QED  BY <1>1, <1>2

\* For a message, also what the framing puts before it is taken off.
LEMMA ProtobufPayloadIs ==
  ASSUME NEW config, NEW field, NEW format, NEW written, FramedAs(config, field, written, format),
         written.by.kind = "protobuf"
  PROVE  ProtobufFramed(config, field, written.data) = Read(NoReader, Document(written.by))
<1>1. IsReader(written.by) /\ written.framing = ScopedProperty(config, FRAMING, field, "raw")
  BY DEF FramedAs
<1>2. CASE written.framing = "raw"
  <2>1. Payload(config, field, written.data) = Read(NoReader, Document(written.by))
    BY <1>2, RawIs
  <2>. QED  BY <1>1, <1>2, <2>1 DEF ProtobufFramed
<1>3. CASE written.framing # "raw"
  <2>1. /\ written.framing \in {"confluent", "apicurio"} /\ HasRegistryHeader(written.data)
        /\ Payload(config, field, written.data) = Read(NoReader, written.data.payload)
        /\ \E schema \in DOMAIN Schemas : \E before : IsFramed(written, format, schema, before)
    BY <1>3, FramedPayloadIs
  <2>2. PICK schema \in DOMAIN Schemas : \E before : IsFramed(written, format, schema, before)
    BY <2>1
  <2>3. PICK before : IsFramed(written, format, schema, before)
    BY <2>2
  <2>4. CASE written.framing = "confluent"
    <3>. DEFINE indexes == ParseMessageIndexes(written.data.payload)
    <3>. DEFINE path == MessageIndexes(Schemas[schema].file, written.by.name)
    <3>1. indexes.ok /\ indexes.rest = Document(written.by)
      <4>1. indexes = [ok |-> TRUE, indexes |-> path, rest |-> Document(written.by)]
        BY <1>1, <2>3, <2>4, IndexesAreParsed
      <4>. HIDE DEF indexes, path
      <4>. QED  BY <4>1
    <3>. HIDE DEF indexes
    <3>. QED  BY <1>1, <2>1, <2>4, <3>1 DEF ProtobufFramed, indexes
  <2>5. CASE written.framing = "apicurio"
    <3>. DEFINE reference == ParseTypeRef(written.data.payload)
    <3>1. reference.rest = Document(written.by)
      BY <1>1, <2>3, <2>5, ReferencesAreParsed DEF IsReferred
    <3>2. IsContent(Payload(config, field, written.data))
          /\ Payload(config, field, written.data).payload = written.data.payload
      BY <2>1 DEF IsContent, Read
    <3>. HIDE DEF reference
    <3>. QED  BY <1>1, <2>5, <3>1, <3>2 DEF ProtobufFramed, reference
  <2>. QED  BY <2>1, <2>4, <2>5
<1>. QED  BY <1>2, <1>3

\* The local JSON deserializer.
LEMMA LocalJsonIsDecoded ==
  ASSUME NEW config, NEW validators, NEW field, NEW written,
         FramedAs(config, field, written, "json"), written.by.kind = "json",
         field \in DOMAIN validators => validators[field] = {written.by.name}
  PROVE  IsDecoded(JsonRead(config, validators, field, written.data), written.by)
<1>. DEFINE schemas == IF field \in DOMAIN validators THEN validators[field] ELSE {}
<1>1. Payload(config, field, written.data) = Read(NoReader, Document(written.by))
  BY PayloadIs
<1>2. JsonRead(config, validators, field, written.data) = JsonWith(Document(written.by), schemas)
  BY <1>1 DEF JsonRead, IsContent, Read
<1>3. \A schema \in schemas : schema = written.by.name
  OBVIOUS
<1>. HIDE DEF schemas
<1>. QED  BY <1>2, <1>3, JsonIsDecoded DEF FramedAs

\* The local Avro deserializer.
LEMMA LocalAvroIsDecoded ==
  ASSUME NEW config, NEW files, NEW kept, NEW field, NEW written,
         FramedAs(config, field, written, "avro"), written.by.kind = "avro",
         FileOf(field) \in DOMAIN config,
         files[config[FileOf(field)]].schemas = {written.by.name},
         config[FileOf(field)] \in DOMAIN kept => kept[config[FileOf(field)]] = {written.by.name},
         AvroRead(config, files, kept, field, written.data).kind # "escape"
  PROVE  IsDecoded(AvroRead(config, files, kept, field, written.data), written.by)
<1>. DEFINE path == config[FileOf(field)]
            name == written.by.name
            read == AvroRead(config, files, kept, field, written.data)
<1>1. Payload(config, field, written.data) = Read(NoReader, Document(written.by))
  BY PayloadIs
<1>2. \/ path \in DOMAIN kept /\ read = Decoded(Reader("avro", CHOOSE s \in kept[path] : TRUE), Document(written.by))
      \/ read = Raised("escape")
      \/ path \notin DOMAIN kept
           /\ read = Decoded(Reader("avro", CHOOSE s \in files[path].schemas : TRUE), Document(written.by))
  <2>. DEFINE payload == Payload(config, field, written.data)
              keptOne == Decoded(Reader("avro", CHOOSE s \in kept[path] : TRUE), payload.payload)
              newOne == Decoded(Reader("avro", CHOOSE s \in files[path].schemas : TRUE), payload.payload)
  <2>1. IsContent(payload) /\ payload.payload = Document(written.by)
    BY <1>1 DEF IsContent, Read
  <2>. HIDE DEF payload
  <2>2. read = IF FileOf(field) \notin DOMAIN config THEN Raised("options")
               ELSE IF ~IsContent(payload) THEN payload
               ELSE IF path \in DOMAIN kept THEN keptOne
               ELSE IF At(files, path, FALSE).is # "avro" THEN Raised("escape")
               ELSE newOne
    BY Zenon DEF AvroRead, payload
  <2>3. \/ path \in DOMAIN kept /\ read = keptOne
        \/ read = Raised("escape")
        \/ path \notin DOMAIN kept /\ read = newOne
    <3>. HIDE DEF read, keptOne, newOne
    <3>. QED  BY <2>1, <2>2
  <2>. QED  BY <2>1, <2>3
<1>3. Raised("escape").kind = "escape"
  BY DEF Raised
<1>4. (CHOOSE s \in {name} : TRUE) = name
  OBVIOUS
<1>5. read = Decoded(Reader("avro", name), Document(written.by))
  <2>. HIDE DEF read
  <2>1. read # Raised("escape")
    BY <1>3 DEF read
  <2>. QED  BY <1>2, <1>4, <2>1
<1>. HIDE DEF read
<1>6. IsDecoded(read, written.by)
  BY <1>5, ReadIsDecoded, DocumentRaisesNothing DEF FramedAs
<1>. QED  BY <1>6 DEF read

\* The local Protobuf deserializer.
LEMMA LocalProtobufIsDecoded ==
  ASSUME NEW config, NEW files, NEW kept, NEW field, NEW written,
         FramedAs(config, field, written, "protobuf"),
         FileOf(field) \in DOMAIN config, DOMAIN config \cap ProtobufSchemas # {},
         written.by = Reader("protobuf", config[FileOf(field)]),
         config[FileOf(field)] \in IF Global("source") \in DOMAIN config \/ kept # {} THEN kept
                                   ELSE MessageClasses(config, files)
  PROVE  IsDecoded(ProtobufRead(config, files, kept, field, written.data), written.by)
<1>. DEFINE found == IF Global("source") \in DOMAIN config \/ kept # {} THEN kept
                     ELSE MessageClasses(config, files)
<1>1. written.by.kind = "protobuf" /\ written.by.name = config[FileOf(field)]
  BY DEF Reader
<1>2. ProtobufFramed(config, field, written.data) = Read(NoReader, Document(written.by))
  BY <1>1, ProtobufPayloadIs
<1>3. config[FileOf(field)] \in found /\ found # {}
  OBVIOUS
<1>. HIDE DEF found
<1>4. ProtobufRead(config, files, kept, field, written.data)
        = Decoded(Reader("protobuf", config[FileOf(field)]), Document(written.by))
  BY <1>2, <1>3 DEF ProtobufRead, IsContent, Read, found
<1>. QED  BY <1>1, <1>4, ReadIsDecoded, DocumentRaisesNothing DEF FramedAs

-----------------------------------------------------------------------------
\* A field whose record was written the way the options say.
ConfigFor(format) ==
  IF format \in DOMAIN session.options THEN session.options[format] ELSE NoProperties
Decodable(i, field) ==
  LET written == line.records[i][field]
      format == line.formats[field]
  IN  /\ ~written.null
      /\ format \in FileFormats \cup {"registry"}
      /\ Expected(ConfigFor(format), field, written)
      /\ Intended(ConfigFor(format), field, written)

\* What is expected of a field that can be decoded.
LEMMA ExpectedIs ==
  ASSUME NEW config, NEW field, NEW written, Expected(config, field, written)
  PROVE  /\ line.formats[field] = "registry" =>
              /\ written.framing = ProviderOf(config)
              /\ written.data.id \in DOMAIN SchemaIds
              /\ Unambiguous(ProviderOf(config), SchemaIds[written.data.id])
              /\ IsWritten(written, "registry", {SchemaIds[written.data.id]})
         /\ line.formats[field] \in FileFormats =>
              /\ written.framing = ScopedProperty(config, FRAMING, field, "raw")
              /\ IsWritten(written, line.formats[field], DOMAIN Schemas)
<1>1. ASSUME line.formats[field] = "registry"
      PROVE  /\ written.framing = ProviderOf(config)
             /\ written.data.id \in DOMAIN SchemaIds
             /\ Unambiguous(ProviderOf(config), SchemaIds[written.data.id])
             /\ IsWritten(written, "registry", {SchemaIds[written.data.id]})
  <2>1. line.formats[field] \notin FileFormats
    BY <1>1 DEF FileFormats
  <2>. QED  BY <1>1, <2>1, Zenon DEF Expected
<1>2. ASSUME line.formats[field] \in FileFormats
      PROVE  /\ written.framing = ScopedProperty(config, FRAMING, field, "raw")
             /\ IsWritten(written, line.formats[field], DOMAIN Schemas)
  <2>1. line.formats[field] # "registry"
    BY <1>2 DEF FileFormats
  <2>. QED  BY <1>2, <2>1, Zenon DEF Expected
<1>. QED  BY <1>1, <1>2

\* What was meant by a field that can be decoded: by a schema there is, in the
\* way its format is written.
LEMMA IntendedIs ==
  ASSUME NEW config, NEW field, NEW written, Intended(config, field, written)
  PROVE  /\ line.formats[field] = "registry" =>
              IF SchemaOf(written.data.id).type = "protobuf" THEN written.by.kind = "protobuf"
              ELSE written.by = Reader(SchemaOf(written.data.id).type, SchemaOf(written.data.id).name)
         /\ line.formats[field] = "protobuf" => written.by = Reader("protobuf", config[FileOf(field)])
         /\ line.formats[field] = "avro" =>
              written.by.kind = "avro" /\ Files[config[FileOf(field)]].schemas = {written.by.name}
         /\ line.formats[field] = "json" =>
              /\ written.by.kind = "json"
              /\ FileOf(field) \in DOMAIN config =>
                   Files[config[FileOf(field)]].schemas = {written.by.name}
<1>1. ASSUME line.formats[field] = "registry"
      PROVE  IF SchemaOf(written.data.id).type = "protobuf" THEN written.by.kind = "protobuf"
             ELSE written.by = Reader(SchemaOf(written.data.id).type, SchemaOf(written.data.id).name)
  BY <1>1, Zenon DEF Intended
<1>2. ASSUME line.formats[field] = "protobuf"
      PROVE  written.by = Reader("protobuf", config[FileOf(field)])
  BY <1>2, Zenon DEF Intended
<1>3. ASSUME line.formats[field] = "avro"
      PROVE  written.by.kind = "avro" /\ Files[config[FileOf(field)]].schemas = {written.by.name}
  BY <1>3, Zenon DEF Intended
<1>4. ASSUME line.formats[field] = "json"
      PROVE  /\ written.by.kind = "json"
             /\ FileOf(field) \in DOMAIN config =>
                  Files[config[FileOf(field)]].schemas = {written.by.name}
  BY <1>4, Zenon DEF Intended
<1>. QED  BY <1>1, <1>2, <1>3, <1>4

\* With either registry, whatever is kept of earlier reads.
LEMMA RegistryIsDecoded ==
  ASSUME CacheOK(cache), NEW config, HoldsFor(config, cache), ProviderOf(config) \in REGISTRY_PROVIDERS,
         NEW field, line.formats[field] = "registry", NEW written, IsReader(written.by),
         Expected(config, field, written), Intended(config, field, written),
         Backend(config, field, written.data, "none").result.kind # "escape"
  PROVE  IsDecoded(Backend(config, field, written.data, "none").result, written.by)
<1>. DEFINE id == written.data.id
            provider == ProviderOf(config)
            read == Backend(config, field, written.data, "none").result
<1>1. /\ written.framing = provider /\ id \in DOMAIN SchemaIds
      /\ Unambiguous(provider, SchemaIds[id])
      /\ IsWritten(written, "registry", {SchemaIds[id]})
  BY ExpectedIs
<1>2. /\ SchemaOf(id).type = "protobuf" => written.by.kind = "protobuf"
      /\ SchemaOf(id).type # "protobuf" => written.by = Reader(SchemaOf(id).type, SchemaOf(id).name)
  BY IntendedIs
<1>. read.kind # "escape"
  OBVIOUS
<1>. HIDE DEF read
<1>3. CASE provider = "apicurio"
  <2>. DEFINE fetched == ApicurioArtifact(cache, id, "none")
              content == ApicurioContent(fetched.cache, id, written.data, "none").result
  <2>1. IsCache(fetched.cache)
    BY ApicurioArtifactIs DEF CacheOK
  <2>2. /\ HasRegistryHeader(written.data)
        /\ content.kind = "escape" \/ IsDecoded(content, written.by)
    <3>. HIDE DEF fetched
    <3>. QED  BY <1>1, <1>2, <1>3, <2>1, ApicurioIsDecoded
  <2>3. SameRead(ApicurioRead(cache, field, written.data, "none").result,
                 IF HasRegistryHeader(written.data) /\ id \in DOMAIN SchemaIds
                 THEN content ELSE Raised("data"))
    BY ApicurioReadIs
  <2>4. read = ApicurioRead(cache, field, written.data, "none").result
    BY <1>3 DEF Backend, read
  <2>. HIDE DEF content, provider
  <2>5. SameRead(read, content)
    BY <1>1, <2>2, <2>3, <2>4
  <2>. QED  BY <2>2, <2>5 DEF SameRead, IsDecoded, read
<1>4. CASE provider = "confluent"
  <2>. DEFINE fetched == ConfluentSchema(cache, id, "none")
              content == ConfluentContent(fetched.cache, id, written.data, "none").result
  <2>1. SerializedOK(cache)
    BY <1>4 DEF HoldsFor
  <2>2. /\ IsCache(fetched.cache)
        /\ SchemaOf(id).type = "protobuf" => fetched.cache.schemas[id] = "serialized"
    BY <1>1, <2>1, ConfluentSchemaIs, ConfluentSchemaHolds DEF CacheOK
  <2>3. HasRegistryHeader(written.data) /\ IsDecoded(content, written.by)
    <3>. HIDE DEF fetched
    <3>. QED  BY <1>1, <1>2, <1>4, <2>2, ConfluentIsDecoded
  <2>4. SameRead(ConfluentRead(cache, field, written.data, "none").result,
                 IF HasRegistryHeader(written.data) /\ id \in DOMAIN SchemaIds
                 THEN content ELSE Raised("data"))
    BY <2>1, ConfluentReadIs
  <2>5. read = ConfluentRead(cache, field, written.data, "none").result
    BY <1>4 DEF Backend, read
  <2>. HIDE DEF content, provider
  <2>6. SameRead(read, content)
    BY <1>1, <2>3, <2>4, <2>5
  <2>. QED  BY <2>3, <2>6 DEF SameRead, IsDecoded, read
<1>. QED  BY <1>3, <1>4 DEF REGISTRY_PROVIDERS

\* A message that was found when the options were accepted is found again.
LEMMA MessageIsFound ==
  ASSUME NEW config, NEW formats, NEW field \in Fields, formats[field] = "protobuf",
         config # NoProperties, ProtobufValid(config, formats, Files),
         fs = Files, ClassesOf(NormalizedChoices(config, Scopes(FRAMING)))
  PROVE  LET normal == NormalizedChoices(config, Scopes(FRAMING))
         IN  /\ FileOf(field) \in DOMAIN normal
             /\ DOMAIN normal \cap ProtobufSchemas # {}
             /\ normal[FileOf(field)] \in IF Global("source") \in DOMAIN normal \/ classes # {}
                                          THEN classes ELSE MessageClasses(normal, fs)
<1>. DEFINE normal == NormalizedChoices(config, Scopes(FRAMING))
<1>1. DOMAIN normal = DOMAIN config
  BY NormalizedIs
<1>2. FileOf(field) \in DOMAIN config /\ FileOf(field) \in SchemaFiles
  BY DEF ProtobufValid, FieldsProvided, FileOf, SchemaFiles, Fields
<1>3. normal[FileOf(field)] = config[FileOf(field)]
  BY <1>2, FilesAreKept
<1>4. DOMAIN config \cap ProtobufSchemas # {}
  BY DEF ProtobufValid, RequireProtobufSchema
<1>5. config[FileOf(field)] \in MessageClasses(config, Files)
  BY <1>2 DEF ProtobufValid, ProtobufMessagesFound
<1>6. MessageClasses(normal, Files) = MessageClasses(config, Files)
  BY <1>4, NormalizedClasses
<1>7. ClassesOf(normal)
  OBVIOUS
<1>. HIDE DEF normal
<1>8. /\ FileOf(field) \in DOMAIN normal
      /\ DOMAIN normal \cap ProtobufSchemas # {}
      /\ normal[FileOf(field)] \in IF Global("source") \in DOMAIN normal \/ classes # {}
                                   THEN classes ELSE MessageClasses(normal, fs)
  BY <1>1, <1>2, <1>3, <1>4, <1>5, <1>6, <1>7 DEF ClassesOf
<1>. QED  BY <1>8 DEF normal

\* A format that was chosen has its options.
LEMMA OptionsFor ==
  ASSUME NEW c
  PROVE  LET options == DeserializerOptions(c)
         IN  /\ "registry" \in DOMAIN options /\ options["registry"] = NormalizedRegistry(c.registry)
             /\ "json" \in DOMAIN options /\ options["json"] = NormalizedChoices(c.json, Scopes(FRAMING))
             /\ "avro" \in DOMAIN options /\ options["avro"] = NormalizedChoices(c.avro, Scopes(FRAMING))
             /\ "protobuf" \in DOMAIN options
             /\ options["protobuf"] = NormalizedChoices(c.protobuf, Scopes(FRAMING))
BY DEF DeserializerOptions

\* What is kept of a local Avro schema is the file's.
LoadedIs == \A path \in DOMAIN loaded : loaded[path] = Files[path].schemas

\* A field that can be decoded is, unless the record ends the program.
LEMMA FieldIsDecoded ==
  ASSUME IInv, OptionsAreKept, HoldsFor(session.options.registry, cache), LoadedIs,
         NEW i \in DOMAIN line.records, ReadRecord(i, "none"), fs = Files,
         NEW field \in Fields, Decodable(i, field),
         Outcomes(session.options, line.records[i], "none")[field].result.kind # "escape"
  PROVE  IsDecoded(Outcomes(session.options, line.records[i], "none")[field].result,
                   line.records[i][field].by)
<1>. DEFINE c == Configs(line)
            d == session.options
            written == line.records[i][field]
            format == line.formats[field]
            result == Outcomes(session.options, line.records[i], "none")[field].result
<1>1. /\ session # NoSession /\ session = SessionOf(line) /\ phase = "running"
      /\ d = DeserializerOptions(c) /\ line.mode = "consumer" /\ session.formats = line.formats
  BY OutcomesAre
<1>2. PICK n \in DOMAIN Lines : line = Lines[n]
  BY DEF IInv, StartIsTrue
<1>3. DeserializerOptionsValid(c, line.formats, Files)
  <2>1. PhaseOf(line, Files) = "running"
    BY <1>1 DEF IInv, StartIsTrue
  <2>. QED  BY <1>1, <1>2, <2>1, StartsWithOptions
<1>4. IsReader(written.by)
  BY <1>2, RecordsAssumption
<1>5. ClassesOf(d.protobuf)
  <2>1. session.mode = "consumer"
    BY DEF ReadRecord
  <2>. QED  BY <1>1, <2>1 DEF OptionsAreKept
<1>6. Suffices(d, field, format)
  BY <1>1, <1>3, <1>5, OptionsDoSuffice DEF OptionsAreKept
<1>7. /\ ~written.null /\ format \in FileFormats \cup {"registry"}
      /\ Expected(ConfigFor(format), field, written)
      /\ Intended(ConfigFor(format), field, written)
  BY DEF Decodable
<1>8. /\ ConfigFor("registry") = d.registry /\ d.registry = NormalizedRegistry(c.registry)
      /\ ConfigFor("json") = d.json /\ ConfigFor("avro") = d.avro
      /\ ConfigFor("protobuf") = d.protobuf
      /\ d.protobuf = NormalizedChoices(c.protobuf, Scopes(FRAMING))
  BY <1>1, OptionsFor, OptionsAre DEF ConfigFor
<1>9. result = FieldRead(d, field, format, written, "none").result
  BY <1>1 DEF Outcomes
<1>. HIDE DEF c, d, result
<1>10. ASSUME format \in FileFormats, NEW config, config = ConfigFor(format), FramingKnown(config, field)
       PROVE  FramedAs(config, field, written, format)
  <2>1. format # "registry"
    BY <1>10 DEF FileFormats
  <2>2. /\ written.framing = ScopedProperty(config, FRAMING, field, "raw")
        /\ IsWritten(written, format, DOMAIN Schemas)
    BY <1>7, <1>10, ExpectedIs
  <2>. QED  BY <1>4, <1>10, <2>1, <2>2 DEF FramedAs
<1>11. CASE format = "registry"
  <2>1. c.registry # NoProperties
    BY <1>3, <1>11 DEF DeserializerOptionsValid, RequireConfigured, Uses
  <2>2. ProviderOf(c.registry) \in REGISTRY_PROVIDERS
    BY <1>3, <2>1 DEF DeserializerOptionsValid, RegistryValid
  <2>3. ProviderOf(d.registry) \in REGISTRY_PROVIDERS
    BY <1>8, <2>2, ProviderIsKept
  <2>4. CacheOK(cache) /\ HoldsFor(d.registry, cache)
    BY DEF IInv, d
  <2>5. result = Backend(d.registry, field, written.data, "none").result
    BY <1>7, <1>9, <1>11, FieldReadIs
  <2>6. Expected(d.registry, field, written) /\ Intended(d.registry, field, written)
    BY <1>7, <1>8, <1>11
  <2>7. result.kind # "escape"
    BY DEF result
  <2>. QED  BY <1>4, <1>11, <2>3, <2>4, <2>5, <2>6, <2>7, RegistryIsDecoded DEF result
<1>12. CASE format = "json"
  <2>. DEFINE validators == Validators(d.json, Files)
  <2>1. FramedAs(d.json, field, written, "json")
    BY <1>6, <1>8, <1>10, <1>12 DEF Suffices, FileFormats
  <2>2. /\ written.by.kind = "json"
        /\ FileOf(field) \in DOMAIN d.json => Files[d.json[FileOf(field)]].schemas = {written.by.name}
    BY <1>7, <1>8, <1>12, IntendedIs
  <2>3. field \in DOMAIN validators => validators[field] = {written.by.name}
    BY <2>2 DEF Validators
  <2>4. result = JsonRead(d.json, validators, field, written.data)
    BY <1>7, <1>9, <1>12, FieldReadIs DEF Result
  <2>. HIDE DEF validators, written
  <2>5. IsDecoded(JsonRead(d.json, validators, field, written.data), written.by)
    BY <2>1, <2>2, <2>3, LocalJsonIsDecoded
  <2>. QED  BY <2>4, <2>5 DEF result, written
<1>13. CASE format = "avro"
  <2>1. FramedAs(d.avro, field, written, "avro") /\ FileOf(field) \in DOMAIN d.avro
    BY <1>6, <1>8, <1>10, <1>13 DEF Suffices, FileFormats
  <2>2. written.by.kind = "avro" /\ fs[d.avro[FileOf(field)]].schemas = {written.by.name}
    BY <1>7, <1>8, <1>13, IntendedIs
  <2>3. d.avro[FileOf(field)] \in DOMAIN loaded => loaded[d.avro[FileOf(field)]] = {written.by.name}
    BY <2>2 DEF LoadedIs
  <2>4. result = AvroRead(d.avro, fs, loaded, field, written.data)
    BY <1>7, <1>9, <1>13, FieldReadIs DEF Result
  <2>5. AvroRead(d.avro, fs, loaded, field, written.data).kind # "escape"
    BY <2>4 DEF result
  <2>. HIDE DEF written
  <2>6. IsDecoded(AvroRead(d.avro, fs, loaded, field, written.data), written.by)
    BY <2>1, <2>2, <2>3, <2>5, LocalAvroIsDecoded
  <2>. QED  BY <2>4, <2>6 DEF result, written
<1>14. CASE format = "protobuf"
  <2>1. FramedAs(d.protobuf, field, written, "protobuf")
    BY <1>6, <1>8, <1>10, <1>14 DEF Suffices, FileFormats
  <2>2. written.by = Reader("protobuf", d.protobuf[FileOf(field)])
    BY <1>7, <1>8, <1>14, IntendedIs
  <2>3. c.protobuf # NoProperties /\ ProtobufValid(c.protobuf, line.formats, Files)
    BY <1>3, <1>14 DEF DeserializerOptionsValid, RequireConfigured, Uses
  <2>4. /\ FileOf(field) \in DOMAIN d.protobuf
        /\ DOMAIN d.protobuf \cap ProtobufSchemas # {}
        /\ d.protobuf[FileOf(field)] \in IF Global("source") \in DOMAIN d.protobuf \/ classes # {}
                                         THEN classes ELSE MessageClasses(d.protobuf, fs)
    BY <1>5, <1>8, <1>14, <2>3, MessageIsFound
  <2>5. result = ProtobufRead(d.protobuf, fs, classes, field, written.data)
    BY <1>7, <1>9, <1>14, FieldReadIs DEF Result
  <2>. QED  BY <2>1, <2>2, <2>4, <2>5, LocalProtobufIsDecoded DEF result
<1>. QED  BY <1>7, <1>11, <1>12, <1>13, <1>14 DEF FileFormats

\* A local Avro schema that was loaded was there.
LEMMA AvroWasThere ==
  ASSUME NEW config, NEW files, NEW kept, NEW field, NEW data,
         AvroRead(config, files, kept, field, data).reader.kind = "avro",
         config[FileOf(field)] \notin DOMAIN kept
  PROVE  At(files, config[FileOf(field)], FALSE).is = "avro"
<1>. DEFINE payload == Payload(config, field, data)
            read == AvroRead(config, files, kept, field, data)
            path == config[FileOf(field)]
<1>1. \A why : Raised(why).reader.kind # "avro"
  BY DEF Raised, NoReader, Reader
<1>2. \A bytes : Read(NoReader, bytes).reader.kind # "avro"
  BY DEF Read, NoReader, Reader
<1>3. (\E bytes : payload = Read(NoReader, bytes)) \/ \E why : payload = Raised(why)
  BY DEF Payload
<1>4. payload.reader.kind # "avro"
  <2>. HIDE DEF payload
  <2>. QED  BY <1>1, <1>2, <1>3
<1>5. SUFFICES ASSUME At(files, path, FALSE).is # "avro" PROVE FALSE
  OBVIOUS
<1>6. \/ read = payload
      \/ \E why : read = Raised(why)
  <2>. HIDE DEF payload
  <2>. QED  BY <1>5, Zenon DEF AvroRead, payload
<1>. HIDE DEF read, payload
<1>7. read.reader.kind # "avro"
  BY <1>1, <1>4, <1>6
<1>. QED  BY <1>7 DEF read

\* What is kept of a local schema is the file's, in every state.
LEMMA LoadedStays ==
  ASSUME IInv, OptionsAreKept, LoadedIs, NEW i, NEW failing, ReadRecord(i, failing)
  PROVE  LoadedIs'
<1>. DEFINE outcomes == Outcomes(session.options, line.records[i], failing)
            avro == session.options.avro
            now == {field \in Fields : /\ session.formats[field] = "avro"
                                       /\ outcomes[field].result.reader.kind = "avro"}
            paths == {avro[FileOf(field)] : field \in now}
<1>1. loaded' = [path \in DOMAIN loaded \cup paths |->
                   IF path \in DOMAIN loaded THEN loaded[path] ELSE fs[path].schemas]
  BY DEF ReadRecord, ReadAs, LoadedAfter
<1>2. ASSUME NEW field \in now, avro[FileOf(field)] \notin DOMAIN loaded
      PROVE  fs[avro[FileOf(field)]] = Files[avro[FileOf(field)]]
  <2>. DEFINE written == line.records[i][field]
              path == avro[FileOf(field)]
              read == AvroRead(avro, fs, loaded, field, written.data)
              result == outcomes[field].result
  <2>1. result = FieldRead(session.options, field, "avro", written, failing).result
    BY DEF Outcomes
  <2>2. result \in {NullRead, read}
    BY <2>1, FieldReadIs DEF Result
  <2>3. NullRead.reader.kind # "avro"
    BY DEF NullRead, Read, Reader
  <2>4. result.reader.kind = "avro"
    OBVIOUS
  <2>. HIDE DEF result, read
  <2>5. read.reader.kind = "avro"
    BY <2>2, <2>3, <2>4
  <2>6. At(fs, path, FALSE).is = "avro"
    <3>1. avro[FileOf(field)] \notin DOMAIN loaded
      BY <1>2
    <3>2. AvroRead(avro, fs, loaded, field, written.data).reader.kind = "avro"
      BY <2>5, Zenon DEF read
    <3>. HIDE DEF avro, written
    <3>. QED  BY <3>1, <3>2, AvroWasThere
  <2>7. path \in DOMAIN fs /\ fs[path] # Nothing
    BY <2>6 DEF At, Nothing
  <2>. QED  BY <2>7 DEF OptionsAreKept, FilesAreLost
<1>. HIDE DEF now, avro
<1>3. ASSUME NEW path \in DOMAIN loaded'
      PROVE  loaded'[path] = Files[path].schemas
  <2>1. CASE path \in DOMAIN loaded
    BY <1>1, <2>1 DEF LoadedIs
  <2>2. CASE path \notin DOMAIN loaded
    <3>1. PICK field \in now : path = avro[FileOf(field)]
      BY <1>1, <2>2
    <3>2. fs[path] = Files[path]
      BY <1>2, <2>2, <3>1
    <3>. QED  BY <1>1, <2>2, <3>2
  <2>. QED  BY <2>1, <2>2
<1>. QED  BY <1>3 DEF LoadedIs

\* The property, said with the names of these proofs.
DecodableAreDecoded ==
  (last.record # 0 /\ last.failing = "none" /\ fs = Files /\ phase = "running") =>
    \A field \in Fields :
      Decodable(last.record, field) =>
        IsDecoded(last.outcomes[field], line.records[last.record][field].by)

\* A step that leaves the page as it is leaves what it shows decoded.
LEMMA DecodableStays ==
  ASSUME line' = line, session' = session, NEW i, NEW field
  PROVE  Decodable(i, field)' <=> Decodable(i, field)
<1>1. ASSUME NEW config, NEW written
      PROVE  Expected(config, field, written)' <=> Expected(config, field, written)
  BY Zenon DEF Expected
<1>2. ASSUME NEW config, NEW written
      PROVE  Intended(config, field, written)' <=> Intended(config, field, written)
  BY Zenon DEF Intended
<1>3. \A format : ConfigFor(format)' = ConfigFor(format)
  BY DEF ConfigFor
<1>. QED  BY <1>1, <1>2, <1>3, Zenon DEF Decodable

\* A record that is read is shown as it was written, in every field.
LEMMA ReadRecordDecodes ==
  ASSUME IInv, OptionsAreKept, KeepsNoFailure, LoadedIs,
         NEW i \in DOMAIN line.records, NEW failing, ReadRecord(i, failing)
  PROVE  DecodableAreDecoded'
<1>. DEFINE outcomes == Outcomes(session.options, line.records[i], failing)
            header == IF line.records[i].header.null THEN NullRead
                      ELSE PrimitiveRead("string", line.records[i].header.data)
<1>1. /\ last' = Presented(i, failing, outcomes, header)
      /\ phase' = IF \E field \in Fields : outcomes[field].result.kind = "escape"
                  THEN "escaped" ELSE phase
      /\ line' = line /\ session' = session /\ fs' = fs
  BY DEF ReadRecord, ReadAs
<1>. HIDE DEF outcomes, header
<1>2. /\ last'.record = i /\ last'.failing = failing
      /\ \A field \in Fields : last'.outcomes[field] = outcomes[field].result
  BY <1>1, PresentedIs DEF Presented
<1>3. HoldsFor(session.options.registry, cache)
  <2>1. session.mode = "consumer" /\ session # NoSession
    BY OutcomesAre DEF ReadRecord
  <2>. QED  BY <2>1 DEF KeepsNoFailure
<1>4. ASSUME failing = "none", fs = Files, phase' = "running", NEW field \in Fields,
             Decodable(i, field)
      PROVE  IsDecoded(outcomes[field].result, line.records[i][field].by)
  <2>1. outcomes[field].result.kind # "escape"
    BY <1>1, <1>4
  <2>. QED  BY <1>3, <1>4, <2>1, FieldIsDecoded DEF outcomes
<1>5. \A field \in Fields : Decodable(last.record, field)' => Decodable(i, field)
  <2>1. \A field : Decodable(i, field)' <=> Decodable(i, field)
    BY <1>1, DecodableStays
  <2>. QED  BY <1>2, <2>1 DEF Decodable
<1>. QED  BY <1>1, <1>2, <1>4, <1>5 DEF DecodableAreDecoded

\* A record that was written the way the options say is presented as what was
\* written: by the schema that its ID, or the option, names, with the bytes of
\* the document alone, behind any header and any indexes or reference, from
\* either registry, however deep the schema's references go as long as their
\* names are unambiguous, and whichever requests failed for earlier records.
THEOREM WrittenRecordsAreDecoded == Spec => []DecodableIsDecoded
<1>. DEFINE Held == LoadedIs /\ DecodableAreDecoded
<1>1. Init => OptionsAreKept /\ KeepsNoFailure /\ Held
  BY DEF Init, OptionsAreKept, FilesAreLost, OptionsSuffice, NothingRead, KeepsNoFailure,
         FailuresAreForgotten, LoadedIs, DecodableAreDecoded, NoProperties
<1>2. IInv /\ OptionsAreKept /\ KeepsNoFailure /\ Held /\ [Next]_vars => Held'
  <2>. SUFFICES ASSUME IInv, OptionsAreKept, KeepsNoFailure, Held, [Next]_vars PROVE Held'
    OBVIOUS
  <2>1. CASE Start
    <3>1. session = NoSession /\ last' = last /\ loaded' = loaded /\ last = NothingRead
      BY <2>1 DEF IInv, StartIsTrue, Start, KeepsNoFailure
    <3>. QED  BY <3>1 DEF LoadedIs, DecodableAreDecoded, NothingRead
  <2>2. CASE \E i \in DOMAIN line.records, failing \in RequestKinds \cup {"none"} : ReadRecord(i, failing)
    BY <2>2, LoadedStays, ReadRecordDecodes
  <2>3. CASE \E path \in DOMAIN fs : FileLost(path)
    <3>1. PICK path \in DOMAIN fs : FileLost(path)
      BY <2>3
    <3>2. fs' = [fs EXCEPT ![path] = Nothing] /\ fs[path] # Nothing /\ loaded' = loaded
      BY <3>1 DEF FileLost, readerVars
    <3>3. fs' # Files
      BY <3>2 DEF OptionsAreKept, FilesAreLost
    <3>. QED  BY <3>2, <3>3 DEF LoadedIs, DecodableAreDecoded
  <2>4. CASE UNCHANGED vars
    <3>1. /\ line' = line /\ phase' = phase /\ fs' = fs /\ session' = session /\ last' = last
          /\ loaded' = loaded
      BY <2>4 DEF vars, readerVars
    <3>2. \A field : Decodable(last.record, field)' <=> Decodable(last.record, field)
      <4>1. \A i, field : Decodable(i, field)' <=> Decodable(i, field)
        BY <3>1, DecodableStays
      <4>. QED  BY <3>1, <4>1 DEF Decodable
    <3>. QED  BY <3>1, <3>2 DEF LoadedIs, DecodableAreDecoded
  <2>5. CASE \E id \in DOMAIN SchemaIds : RegistryAges(id)
    <3>1. /\ line' = line /\ phase' = phase /\ fs' = fs /\ session' = session /\ last' = last
          /\ loaded' = loaded
      BY <2>5 DEF RegistryAges
    <3>2. \A field : Decodable(last.record, field)' <=> Decodable(last.record, field)
      <4>1. \A i, field : Decodable(i, field)' <=> Decodable(i, field)
        BY <3>1, DecodableStays
      <4>. QED  BY <3>1, <4>1 DEF Decodable
    <3>. QED  BY <3>1, <3>2 DEF LoadedIs, DecodableAreDecoded
  <2>. QED  BY <2>1, <2>2, <2>3, <2>4, <2>5 DEF Next
<1>3. Held => DecodableIsDecoded
  <2>. SUFFICES ASSUME DecodableAreDecoded PROVE DecodableIsDecoded
    OBVIOUS
  <2>. QED
    BY Zenon DEF DecodableIsDecoded, DecodableAreDecoded, Decodable, IsDecoded, ConfigFor
<1>. QED
  BY <1>1, <1>2, <1>3, Invariant, OptionsStay, FailuresStay, PTL DEF Spec

-----------------------------------------------------------------------------
\* Copies: values and schemas, by how deep they are.

\* What is as deep as each number up to one.
AreValues(t, n) == t = [depth \in 0..n |-> IF depth = 0 THEN {} ELSE ValuesOf(t[depth - 1])]
AreSchemas(t, n) == t = [depth \in 0..n |-> IF depth = 0 THEN {} ELSE SchemasOf(t[depth - 1])]

LEMMA ValuesExist ==
  ASSUME NEW n \in Nat
  PROVE  \E t : AreValues(t, n)
<1>. DEFINE T == {k \in 0..n : \E t : AreValues(t, k)}
<1>1. 0 \in T
  <2>. DEFINE t == [depth \in 0..0 |-> {}]
  <2>1. t = [depth \in 0..0 |-> IF depth = 0 THEN {} ELSE ValuesOf(t[depth - 1])]
    OBVIOUS
  <2>. HIDE DEF t
  <2>. QED  BY <2>1 DEF AreValues
<1>2. ASSUME NEW k \in 1..n, k - 1 \in T PROVE k \in T
  <2>1. PICK t : AreValues(t, k - 1)
    BY <1>2
  <2>. DEFINE u == [depth \in 0..k |-> IF depth = k THEN ValuesOf(t[k - 1]) ELSE t[depth]]
  <2>2. \A depth \in 0..k - 1 : t[depth] = IF depth = 0 THEN {} ELSE ValuesOf(t[depth - 1])
    BY <2>1 DEF AreValues
  <2>3. \A depth \in 0..k : u[depth] = IF depth = 0 THEN {} ELSE ValuesOf(u[depth - 1])
    BY <2>2
  <2>4. u = [depth \in 0..k |-> u[depth]]
    OBVIOUS
  <2>. HIDE DEF u
  <2>5. u = [depth \in 0..k |-> IF depth = 0 THEN {} ELSE ValuesOf(u[depth - 1])]
    BY <2>3, <2>4, Zenon
  <2>. QED  BY <2>5 DEF AreValues
<1>. HIDE DEF T
<1>3. n \in T
  BY <1>1, <1>2, UpTo
<1>. QED  BY <1>3 DEF T

LEMMA SchemasExist ==
  ASSUME NEW n \in Nat
  PROVE  \E t : AreSchemas(t, n)
<1>. DEFINE T == {k \in 0..n : \E t : AreSchemas(t, k)}
<1>1. 0 \in T
  <2>. DEFINE t == [depth \in 0..0 |-> {}]
  <2>1. t = [depth \in 0..0 |-> IF depth = 0 THEN {} ELSE SchemasOf(t[depth - 1])]
    OBVIOUS
  <2>. HIDE DEF t
  <2>. QED  BY <2>1 DEF AreSchemas
<1>2. ASSUME NEW k \in 1..n, k - 1 \in T PROVE k \in T
  <2>1. PICK t : AreSchemas(t, k - 1)
    BY <1>2
  <2>. DEFINE u == [depth \in 0..k |-> IF depth = k THEN SchemasOf(t[k - 1]) ELSE t[depth]]
  <2>2. \A depth \in 0..k - 1 : t[depth] = IF depth = 0 THEN {} ELSE SchemasOf(t[depth - 1])
    BY <2>1 DEF AreSchemas
  <2>3. \A depth \in 0..k : u[depth] = IF depth = 0 THEN {} ELSE SchemasOf(u[depth - 1])
    BY <2>2
  <2>4. u = [depth \in 0..k |-> u[depth]]
    OBVIOUS
  <2>. HIDE DEF u
  <2>5. u = [depth \in 0..k |-> IF depth = 0 THEN {} ELSE SchemasOf(u[depth - 1])]
    BY <2>3, <2>4, Zenon
  <2>. QED  BY <2>5 DEF AreSchemas
<1>. HIDE DEF T
<1>3. n \in T
  BY <1>1, <1>2, UpTo
<1>. QED  BY <1>3 DEF T

LEMMA ValuesAre ==
  /\ MaxDepth \in Nat \ {0}
  /\ ValuesTo[0] = {}
  /\ \A n \in 1..MaxDepth : ValuesTo[n] = ValuesOf(ValuesTo[n - 1])
<1>1. MaxDepth \in Nat \ {0}
  BY CopiesAssumption
<1>. DEFINE t == CHOOSE t : AreValues(t, MaxDepth)
<1>2. ValuesTo = t
  BY DEF ValuesTo, AreValues
<1>3. AreValues(t, MaxDepth)
  BY <1>1, ValuesExist
<1>. HIDE DEF t
<1>4. \A n \in 0..MaxDepth : t[n] = IF n = 0 THEN {} ELSE ValuesOf(t[n - 1])
  BY <1>1, <1>3 DEF AreValues
<1>5. 0 \in 0..MaxDepth /\ \A n \in 1..MaxDepth : n \in 0..MaxDepth /\ n # 0
  BY <1>1
<1>. QED  BY <1>1, <1>2, <1>4, <1>5, Zenon

LEMMA SchemasAre ==
  /\ SchemasTo[0] = {}
  /\ \A n \in 1..MaxDepth : SchemasTo[n] = SchemasOf(SchemasTo[n - 1])
<1>1. MaxDepth \in Nat \ {0}
  BY CopiesAssumption
<1>. DEFINE t == CHOOSE t : AreSchemas(t, MaxDepth)
<1>2. SchemasTo = t
  BY DEF SchemasTo, AreSchemas
<1>3. AreSchemas(t, MaxDepth)
  BY <1>1, SchemasExist
<1>. HIDE DEF t
<1>4. \A n \in 0..MaxDepth : t[n] = IF n = 0 THEN {} ELSE SchemasOf(t[n - 1])
  BY <1>1, <1>3 DEF AreSchemas
<1>5. 0 \in 0..MaxDepth /\ \A n \in 1..MaxDepth : n \in 0..MaxDepth /\ n # 0
  BY <1>1
<1>. QED  BY <1>2, <1>4, <1>5, Zenon

\* What a value of a depth is made of.
LEMMA AvroValueIs ==
  ASSUME NEW n \in 1..MaxDepth, NEW value \in ValuesTo[n]
  PROVE  /\ n \in Nat \ {0} /\ n - 1 \in 0..MaxDepth
         /\ value.py \in PYS /\ value.form \in SUBSET FORMS /\ value.v \in Texts
         /\ value.branch \in Texts /\ value.items \in Seq(Texts \X ValuesTo[n - 1])
         /\ \A i \in DOMAIN value.items :
              /\ value.items[i][1] \in Texts /\ value.items[i][2] \in ValuesTo[n - 1]
              /\ value.items[i] = <<value.items[i][1], value.items[i][2]>>
         /\ value = Remade(value, value.py, value.branch, value.items)
<1>1. n \in Nat \ {0} /\ n - 1 \in 0..MaxDepth
  BY ValuesAre
<1>2. value \in ValuesOf(ValuesTo[n - 1])
  BY ValuesAre
<1>. DEFINE S == ValuesTo[n - 1]
<1>. HIDE DEF S
<1>3. value \in ValuesOf(S)
  BY <1>2 DEF S
<1>4. /\ value.py \in PYS /\ value.form \in SUBSET FORMS /\ value.v \in Texts
      /\ value.branch \in Texts /\ value.items \in Seq(Texts \X S)
  BY <1>3 DEF ValuesOf
<1>5. value = Remade(value, value.py, value.branch, value.items)
  BY <1>3 DEF ValuesOf, Remade
<1>6. \A i \in DOMAIN value.items : value.items[i] \in Texts \X S
  BY <1>4
<1>7. \A i \in DOMAIN value.items :
        /\ value.items[i][1] \in Texts /\ value.items[i][2] \in S
        /\ value.items[i] = <<value.items[i][1], value.items[i][2]>>
  BY <1>6
<1>. QED  BY <1>1, <1>4, <1>5, <1>7, Zenon DEF S

LEMMA ValueMade ==
  ASSUME NEW n \in 1..MaxDepth, NEW value, NEW py \in PYS, value.form \in SUBSET FORMS,
         value.v \in Texts, NEW branch \in Texts, NEW items \in Seq(Texts \X ValuesTo[n - 1])
  PROVE  Remade(value, py, branch, items) \in ValuesTo[n]
<1>1. Remade(value, py, branch, items) \in ValuesOf(ValuesTo[n - 1])
  <2>. DEFINE S == ValuesTo[n - 1]
  <2>. HIDE DEF S
  <2>1. items \in Seq(Texts \X S)
    BY DEF S
  <2>2. Remade(value, py, branch, items) \in ValuesOf(S)
    BY <2>1 DEF Remade, ValuesOf
  <2>. QED  BY <2>2 DEF S
<1>. QED  BY <1>1, ValuesAre

LEMMA ValuesGrow ==
  /\ \A n \in 1..MaxDepth : ValuesTo[n - 1] \subseteq ValuesTo[n]
  /\ \A n \in 0..MaxDepth : \A k \in 0..n : ValuesTo[k] \subseteq ValuesTo[n]
  /\ \A n \in 0..MaxDepth : ValuesTo[n] \subseteq AnyValue
<1>0. MaxDepth \in Nat \ {0}
  BY ValuesAre
<1>1. \A S, U : S \subseteq U => ValuesOf(S) \subseteq ValuesOf(U)
  <2>. SUFFICES ASSUME NEW S, NEW U, S \subseteq U, NEW value \in ValuesOf(S)
                PROVE  value \in ValuesOf(U)
    OBVIOUS
  <2>1. Seq(Texts \X S) \subseteq Seq(Texts \X U)
    <3>1. Texts \X S \subseteq Texts \X U
      OBVIOUS
    <3>. QED  BY <3>1
  <2>. QED  BY <2>1 DEF ValuesOf
<1>2. \A n \in 1..MaxDepth : ValuesTo[n - 1] \subseteq ValuesTo[n]
  <2>. DEFINE T == {n \in 0..MaxDepth : n = 0 \/ ValuesTo[n - 1] \subseteq ValuesTo[n]}
  <2>1. 0 \in T
    BY <1>0
  <2>2. ASSUME NEW n \in 1..MaxDepth, n - 1 \in T PROVE n \in T
    <3>1. CASE n = 1
      <4>1. ValuesTo[n - 1] = {}
        BY <3>1, ValuesAre
      <4>. QED  BY <4>1
    <3>2. CASE n # 1
      <4>1. n - 1 \in 1..MaxDepth /\ n - 1 # 0
        BY <1>0, <3>2
      <4>2. ValuesTo[(n - 1) - 1] \subseteq ValuesTo[n - 1]
        BY <2>2, <4>1
      <4>3. ValuesTo[n - 1] = ValuesOf(ValuesTo[(n - 1) - 1]) /\ ValuesTo[n] = ValuesOf(ValuesTo[n - 1])
        BY <4>1, ValuesAre
      <4>4. ValuesOf(ValuesTo[(n - 1) - 1]) \subseteq ValuesOf(ValuesTo[n - 1])
        BY <1>1, <4>2
      <4>5. ValuesTo[n - 1] \subseteq ValuesTo[n]
        BY <4>3, <4>4, Zenon
      <4>. QED  BY <4>5
    <3>. QED  BY <3>1, <3>2
  <2>. HIDE DEF T
  <2>3. \A n \in 0..MaxDepth : n \in T
    BY <1>0, <2>1, <2>2, UpTo
  <2>. QED  BY <2>3 DEF T
<1>3. ASSUME NEW n \in 0..MaxDepth, NEW k \in 0..n
      PROVE  ValuesTo[k] \subseteq ValuesTo[n]
  <2>. DEFINE T == {j \in 0..n : ValuesTo[n - j] \subseteq ValuesTo[n]}
  <2>0. n \in Nat
    BY <1>0
  <2>1. 0 \in T
    BY <2>0
  <2>2. ASSUME NEW j \in 1..n, j - 1 \in T PROVE j \in T
    <3>1. n - (j - 1) \in 1..MaxDepth /\ (n - (j - 1)) - 1 = n - j /\ j \in 0..n
      BY <1>0, <2>0
    <3>2. ValuesTo[(n - (j - 1)) - 1] \subseteq ValuesTo[n - (j - 1)]
      BY <1>2, <3>1, Zenon
    <3>. QED  BY <2>2, <3>1, <3>2
  <2>. HIDE DEF T
  <2>3. \A j \in 0..n : j \in T
    BY <2>0, <2>1, <2>2, UpTo
  <2>4. n - k \in 0..n /\ n - (n - k) = k
    BY <2>0
  <2>. QED  BY <2>3, <2>4 DEF T
<1>4. \A n \in 0..MaxDepth : n \in 0..MaxDepth /\ MaxDepth \in 0..MaxDepth /\ n \in 0..MaxDepth
  BY <1>0
<1>. QED  BY <1>2, <1>3, <1>4, Zenon DEF AnyValue

\* The schemas of at most a depth.
Shallow(n) == {schema \in AvroSchemas : \E depth \in 0..n : schema \in SchemasTo[depth]}

\* The parts of a schema are less deep.
LEMMA PartsAre ==
  ASSUME NEW n \in 0..MaxDepth, NEW schema \in Shallow(n)
  PROVE  /\ n \in Nat \ {0} /\ n - 1 \in 0..MaxDepth
         /\ schema \in AvroSchemas /\ IsSchema(schema)
         /\ schema.type \in TYPES /\ schema.logical \in LOGICALS
         /\ Len(schema.parts) \in Nat /\ DOMAIN schema.parts = 1..Len(schema.parts)
         /\ \A i \in DOMAIN schema.parts : /\ Part(schema.parts[i]) \in Shallow(n - 1)
                                           /\ schema.parts[i][1] \in Texts
<1>1. MaxDepth \in Nat \ {0}
  BY ValuesAre
<1>2. schema \in AvroSchemas /\ IsSchema(schema)
  BY CopiesAssumption DEF Shallow
<1>3. PICK depth \in 0..n : schema \in SchemasTo[depth]
  BY DEF Shallow
<1>4. depth # 0
  BY <1>3, SchemasAre
<1>5. depth \in 1..MaxDepth /\ depth - 1 \in 0..n - 1 /\ n \in Nat \ {0} /\ n - 1 \in 0..MaxDepth
  BY <1>1, <1>4
<1>. DEFINE S == SchemasTo[depth - 1]
<1>6. schema \in SchemasOf(S)
  BY <1>3, <1>5, SchemasAre
<1>. HIDE DEF S
<1>7. /\ schema.type \in TYPES /\ schema.logical \in LOGICALS
      /\ schema.parts \in Seq(Texts \X S \X BOOLEAN)
  BY <1>6 DEF SchemasOf
<1>8. /\ Len(schema.parts) \in Nat /\ DOMAIN schema.parts = 1..Len(schema.parts)
      /\ \A i \in DOMAIN schema.parts : schema.parts[i] \in Texts \X S \X BOOLEAN
  BY <1>7
<1>9. \A i \in DOMAIN schema.parts : schema.parts[i][2] \in S /\ schema.parts[i][1] \in Texts
  BY <1>8
<1>10. \A i \in DOMAIN schema.parts : Part(schema.parts[i]) \in AvroSchemas
  BY <1>2 DEF IsSchema
<1>11. \A i \in DOMAIN schema.parts : Part(schema.parts[i]) \in Shallow(n - 1)
  BY <1>5, <1>9, <1>10 DEF Part, Shallow, S
<1>. QED  BY <1>2, <1>5, <1>7, <1>8, <1>9, <1>11, Zenon

LEMMA ShallowAre ==
  /\ Shallow(0) = {} /\ Shallow(MaxDepth) = AvroSchemas
  /\ \A n \in 1..MaxDepth : Shallow(n - 1) \subseteq Shallow(n)
<1>1. MaxDepth \in Nat \ {0}
  BY ValuesAre
<1>2. Shallow(0) = {}
  BY SchemasAre DEF Shallow
<1>3. Shallow(MaxDepth) = AvroSchemas
  <2>1. \A schema \in AvroSchemas : schema \in SchemasTo[MaxDepth] /\ MaxDepth \in 0..MaxDepth
    <3>1. AvroSchemas \subseteq SchemasTo[MaxDepth]
      BY CopiesAssumption, Zenon
    <3>. QED  BY <1>1, <3>1
  <2>. QED  BY <2>1 DEF Shallow
<1>4. \A n \in 1..MaxDepth : 0..n - 1 \subseteq 0..n
  BY <1>1
<1>5. \A n \in 1..MaxDepth : Shallow(n - 1) \subseteq Shallow(n)
  BY <1>4 DEF Shallow
<1>. QED  BY <1>2, <1>3, <1>5

\* What an item of a value is of.
LEMMA ItemSchemaIs ==
  ASSUME NEW n \in 0..MaxDepth, NEW schema \in Shallow(n), NEW name,
         schema.type \in {"record", "array", "map"}, schema.type = "record" => name \in Names(schema)
  PROVE  \E i \in DOMAIN schema.parts :
           ItemSchema(schema, name) = Part(schema.parts[i]) /\ ItemSchema(schema, name) \in Shallow(n - 1)
<1>1. CASE schema.type = "record"
  <2>. DEFINE i == CHOOSE i \in DOMAIN schema.parts : schema.parts[i][1] = name
  <2>1. i \in DOMAIN schema.parts
    BY <1>1 DEF Names
  <2>2. ItemSchema(schema, name) = Part(schema.parts[i])
    BY <1>1, Zenon DEF ItemSchema
  <2>. HIDE DEF i
  <2>. QED  BY <2>1, <2>2, PartsAre, Zenon
<1>2. CASE schema.type # "record"
  <2>1. Len(schema.parts) = 1 /\ DOMAIN schema.parts = 1..Len(schema.parts)
    BY <1>2, PartsAre DEF IsSchema
  <2>2. 1 \in DOMAIN schema.parts
    BY <2>1
  <2>3. ItemSchema(schema, name) = Part(schema.parts[1])
    BY <1>2, Zenon DEF ItemSchema
  <2>. QED  BY <2>2, <2>3, PartsAre, Zenon
<1>. QED  BY <1>1, <1>2

-----------------------------------------------------------------------------
\* Copies: the functions that its recursions define.

\* What is done with the items of a value depends on the function's values for them alone,
\* and nests it no deeper.
LEMMA OnItemsIs ==
  ASSUME NEW n \in 1..MaxDepth, NEW value \in ValuesTo[n], NEW f, NEW g,
         \A item \in ValuesTo[n - 1] : f[item] = g[item] /\ f[item] \in ValuesTo[n - 1]
  PROVE  /\ OnItems(value, f) = OnItems(value, g)
         /\ OnItems(value, f) \in ValuesTo[n]
<1>. DEFINE Mapped(h) == [i \in DOMAIN value.items |-> <<value.items[i][1], h[value.items[i][2]]>>]
            S == ValuesTo[n - 1]
<1>1. \A i \in DOMAIN value.items :
        /\ value.items[i][1] \in Texts /\ f[value.items[i][2]] \in S
        /\ f[value.items[i][2]] = g[value.items[i][2]]
  BY AvroValueIs
<1>2. Mapped(f) = Mapped(g)
  BY <1>1
<1>3. Mapped(f) \in Seq(Texts \X S)
  <2>1. value.items \in Seq(Texts \X S)
    BY AvroValueIs
  <2>. HIDE DEF S
  <2>2. Len(value.items) \in Nat /\ DOMAIN value.items = 1..Len(value.items)
    BY <2>1
  <2>3. \A i \in 1..Len(value.items) : <<value.items[i][1], f[value.items[i][2]]>> \in Texts \X S
    BY <1>1, <2>2
  <2>4. Mapped(f) \in [1..Len(value.items) -> Texts \X S]
    BY <2>2, <2>3
  <2>. HIDE DEF Mapped
  <2>. QED  BY <2>2, <2>4
<1>. HIDE DEF Mapped
<1>4. OnItems(value, f) = Holding(value, Mapped(f)) /\ OnItems(value, g) = Holding(value, Mapped(g))
  BY Zenon DEF OnItems, Mapped
<1>5. Holding(value, Mapped(f)) \in ValuesTo[n]
  <2>1. "" \in Texts
    BY CopiesAssumption, Zenon
  <2>2. value.py \in PYS /\ value.form \in SUBSET FORMS /\ value.v \in Texts
    BY AvroValueIs
  <2>3. Remade(value, value.py, "", Mapped(f)) \in ValuesTo[n]
    BY <1>3, <2>1, <2>2, ValueMade
  <2>. QED  BY <2>3, Zenon DEF Holding
<1>. QED  BY <1>2, <1>4, <1>5, Zenon

\* What reads or shows a value: its items first, where it is of certain types.
ItemBody(P, value, f) == IF value.py \in P THEN OnItems(value, f) ELSE Typed(value, "str")
IsMapping(P, f, n) ==
  /\ f = [value \in ValuesTo[n] |-> ItemBody(P, value, f)]
  /\ \A k \in 0..n : \A value \in ValuesTo[k] : f[value] \in ValuesTo[k]

LEMMA MappingExists ==
  ASSUME NEW P
  PROVE  \E f : IsMapping(P, f, MaxDepth)
<1>. DEFINE T == {n \in 0..MaxDepth : \E f : IsMapping(P, f, n)}
<1>0. MaxDepth \in Nat \ {0}
  BY ValuesAre
<1>1. 0 \in T
  <2>. DEFINE f == [value \in {} |-> value]
  <2>1. ValuesTo[0] = {}
    BY ValuesAre
  <2>2. f = [value \in {} |-> ItemBody(P, value, f)]
    OBVIOUS
  <2>3. \A k \in 0..0 : k = 0
    OBVIOUS
  <2>. HIDE DEF f
  <2>4. f = [value \in ValuesTo[0] |-> ItemBody(P, value, f)]
    BY <2>1, <2>2, Zenon
  <2>5. \A k \in 0..0 : \A value \in ValuesTo[k] : f[value] \in ValuesTo[k]
    BY <2>1, <2>3
  <2>6. IsMapping(P, f, 0)
    BY <2>4, <2>5 DEF IsMapping
  <2>. QED  BY <1>0, <2>6
<1>2. ASSUME NEW n \in 1..MaxDepth, n - 1 \in T PROVE n \in T
  <2>1. PICK f : IsMapping(P, f, n - 1)
    BY <1>2
  <2>. DEFINE g == [value \in ValuesTo[n] |-> ItemBody(P, value, f)]
  <2>2. /\ n \in Nat \ {0} /\ n - 1 \in 0..n - 1 /\ n - 1 \in 0..MaxDepth /\ n \in 0..MaxDepth
        /\ \A k \in 0..n : k = n \/ k \in 0..n - 1
    BY <1>0
  <2>3. \A item \in ValuesTo[n - 1] : f[item] = ItemBody(P, item, f) /\ f[item] \in ValuesTo[n - 1]
    BY <2>1, <2>2 DEF IsMapping
  <2>4. ValuesTo[n - 1] \subseteq ValuesTo[n]
    BY ValuesGrow
  <2>5. \A item \in ValuesTo[n - 1] : f[item] = g[item]
    BY <2>3, <2>4
  <2>6. \A value \in ValuesTo[n] : g[value] = ItemBody(P, value, f)
    OBVIOUS
  <2>7. g = [value \in ValuesTo[n] |-> g[value]]
    OBVIOUS
  <2>. HIDE DEF g
  <2>8. ASSUME NEW value \in ValuesTo[n]
        PROVE  ItemBody(P, value, f) = ItemBody(P, value, g) /\ ItemBody(P, value, f) \in ValuesTo[n]
    <3>1. OnItems(value, f) = OnItems(value, g) /\ OnItems(value, f) \in ValuesTo[n]
      BY <2>3, <2>5, OnItemsIs
    <3>2. Typed(value, "str") \in ValuesTo[n]
      <4>1. "str" \in PYS
        BY DEF PYS
      <4>. QED  BY <4>1, AvroValueIs, ValueMade DEF Typed
    <3>. QED  BY <3>1, <3>2, Zenon DEF ItemBody
  <2>9. g = [value \in ValuesTo[n] |-> ItemBody(P, value, g)]
    <3>1. \A value \in ValuesTo[n] : g[value] = ItemBody(P, value, g)
      BY <2>6, <2>8
    <3>. QED  BY <2>7, <3>1, Zenon
  <2>10. ASSUME NEW k \in 0..n, NEW value \in ValuesTo[k] PROVE g[value] \in ValuesTo[k]
    <3>1. CASE k = n
      BY <2>6, <2>8, <3>1
    <3>2. CASE k \in 0..n - 1
      <4>1. f[value] \in ValuesTo[k]
        BY <2>1, <3>2 DEF IsMapping
      <4>2. value \in ValuesTo[n - 1]
        <5>1. ValuesTo[k] \subseteq ValuesTo[n - 1]
          BY <2>2, <3>2, ValuesGrow
        <5>. QED  BY <5>1
      <4>. QED  BY <2>5, <4>1, <4>2
    <3>. QED  BY <2>2, <3>1, <3>2
  <2>11. IsMapping(P, g, n)
    BY <2>9, <2>10 DEF IsMapping
  <2>. QED  BY <2>2, <2>11
<1>. HIDE DEF T
<1>3. MaxDepth \in T
  BY <1>0, <1>1, <1>2, UpTo
<1>. QED  BY <1>3 DEF T

IsAvroReading(f) == f = [data \in AnyValue |-> OnItems(data, f)]
IsShowing(f) ==
  f = [value \in AnyValue |-> IF value.py \in JsonTypes THEN OnItems(value, f) ELSE Typed(value, "str")]

LEMMA ReadsAvroIs ==
  \A n \in 1..MaxDepth : \A value \in ValuesTo[n] :
    ReadsAvro[value] = OnItems(value, ReadsAvro) /\ ReadsAvro[value] \in ValuesTo[n]
<1>0. MaxDepth \in 1..MaxDepth /\ \A n \in 1..MaxDepth : n \in 0..MaxDepth
  BY ValuesAre
<1>1. PICK f : IsMapping(PYS, f, MaxDepth)
  BY MappingExists
<1>2. \A value \in AnyValue : ItemBody(PYS, value, f) = OnItems(value, f)
  <2>1. \A value \in AnyValue : value.py \in PYS
    BY <1>0, AvroValueIs DEF AnyValue
  <2>. QED  BY <2>1, Zenon DEF ItemBody
<1>3. IsAvroReading(f)
  <2>1. f = [value \in AnyValue |-> ItemBody(PYS, value, f)]
    BY <1>1, Zenon DEF IsMapping, AnyValue
  <2>. QED  BY <1>2, <2>1, Zenon DEF IsAvroReading
<1>. DEFINE c == CHOOSE c : IsAvroReading(c)
<1>4. IsAvroReading(c) /\ ReadsAvro = c
  <2>1. IsAvroReading(c)
    BY <1>3
  <2>. QED  BY <2>1 DEF ReadsAvro, IsAvroReading
<1>. HIDE DEF c
<1>5. \A value \in AnyValue : ReadsAvro[value] = OnItems(value, ReadsAvro)
  BY <1>4 DEF IsAvroReading
<1>. DEFINE T == {n \in 0..MaxDepth : \A value \in ValuesTo[n] : ReadsAvro[value] \in ValuesTo[n]}
<1>6. 0 \in T
  BY <1>0, ValuesAre
<1>7. ASSUME NEW n \in 1..MaxDepth, n - 1 \in T PROVE n \in T
  <2>1. \A item \in ValuesTo[n - 1] : ReadsAvro[item] \in ValuesTo[n - 1]
    BY <1>7
  <2>2. \A value \in ValuesTo[n] : OnItems(value, ReadsAvro) \in ValuesTo[n]
    BY <2>1, OnItemsIs
  <2>3. ValuesTo[n] \subseteq AnyValue
    BY <1>0, ValuesGrow
  <2>. QED  BY <1>0, <1>5, <2>2, <2>3
<1>. HIDE DEF T
<1>8. \A n \in 0..MaxDepth : n \in T
  BY <1>0, <1>6, <1>7, UpTo
<1>9. \A n \in 1..MaxDepth : ValuesTo[n] \subseteq AnyValue
  BY <1>0, ValuesGrow
<1>. QED  BY <1>0, <1>5, <1>8, <1>9 DEF T

LEMMA ShownAsIs ==
  \A n \in 1..MaxDepth : \A value \in ValuesTo[n] :
    /\ ShownAs[value] = IF value.py \in JsonTypes THEN OnItems(value, ShownAs) ELSE Typed(value, "str")
    /\ ShownAs[value] \in ValuesTo[n]
<1>0. MaxDepth \in 1..MaxDepth /\ \A n \in 1..MaxDepth : n \in 0..MaxDepth
  BY ValuesAre
<1>1. PICK f : IsMapping(JsonTypes, f, MaxDepth)
  BY MappingExists
<1>2. IsShowing(f)
  BY <1>1, Zenon DEF IsMapping, AnyValue, IsShowing, ItemBody
<1>. DEFINE c == CHOOSE c : IsShowing(c)
<1>3. IsShowing(c) /\ ShownAs = c
  <2>1. IsShowing(c)
    BY <1>2
  <2>. QED  BY <2>1 DEF ShownAs, IsShowing
<1>. HIDE DEF c
<1>4. \A value \in AnyValue :
        ShownAs[value] = IF value.py \in JsonTypes THEN OnItems(value, ShownAs) ELSE Typed(value, "str")
  BY <1>3 DEF IsShowing
<1>. DEFINE T == {n \in 0..MaxDepth : \A value \in ValuesTo[n] : ShownAs[value] \in ValuesTo[n]}
<1>5. 0 \in T
  BY <1>0, ValuesAre
<1>6. ASSUME NEW n \in 1..MaxDepth, n - 1 \in T PROVE n \in T
  <2>1. \A item \in ValuesTo[n - 1] : ShownAs[item] \in ValuesTo[n - 1]
    BY <1>6
  <2>2. \A value \in ValuesTo[n] : OnItems(value, ShownAs) \in ValuesTo[n]
    BY <2>1, OnItemsIs
  <2>3. \A value \in ValuesTo[n] : Typed(value, "str") \in ValuesTo[n]
    <3>1. "str" \in PYS
      BY DEF PYS
    <3>. QED  BY <3>1, AvroValueIs, ValueMade DEF Typed
  <2>4. ValuesTo[n] \subseteq AnyValue
    BY <1>0, ValuesGrow
  <2>. QED  BY <1>0, <1>4, <2>2, <2>3, <2>4
<1>. HIDE DEF T
<1>7. \A n \in 0..MaxDepth : n \in T
  BY <1>0, <1>5, <1>6, UpTo
<1>8. \A n \in 1..MaxDepth : ValuesTo[n] \subseteq AnyValue
  BY <1>0, ValuesGrow
<1>. QED  BY <1>0, <1>4, <1>7, <1>8, Zenon DEF T

-----------------------------------------------------------------------------
\* What a conversion is made of, with the function that converts the parts.
LogicalRead(schema, json) == IF schema.logical = "" THEN json ELSE Logical(schema, json)
Fitting(f, schema, json) ==
  {i \in DOMAIN schema.parts : Fits(Part(schema.parts[i]), f[Part(schema.parts[i])][json])}
ConvertedItem(f, schema, value, i) ==
  IF schema.type = "record" /\ value.items[i][1] \notin Names(schema)
  THEN value.items[i][2]
  ELSE f[ItemSchema(schema, value.items[i][1])][value.items[i][2]]
ConvertedItems(f, schema, value) ==
  Holding(value, [i \in DOMAIN value.items |->
                    <<value.items[i][1], ConvertedItem(f, schema, value, i)>>])
ChosenBranch(f, schema, json) ==
  IF Fitting(f, schema, json) = {} THEN json
  ELSE f[Part(schema.parts[Min(Fitting(f, schema, json))])][json]
ConvertBody(f, schema, json) ==
  CASE schema.type = "union" -> ChosenBranch(f, schema, json)
    [] HasItems(schema, LogicalRead(schema, json)) -> ConvertedItems(f, schema, LogicalRead(schema, json))
    [] schema.type \in {"bytes", "fixed"} -> BytesLiteral(LogicalRead(schema, json))
    [] OTHER -> LogicalRead(schema, json)

\* The parts are all that is asked of it.
Agree(f, g, n) == \A schema \in Shallow(n) : f[schema] = g[schema]

LEMMA MinOf ==
  ASSUME NEW n \in Nat, NEW S \in SUBSET (1..n), S # {}
  PROVE  Min(S) \in S /\ \A i \in S : Min(S) <= i
<1>1. S \in SUBSET Nat
  OBVIOUS
<1>2. \E least \in S : \A i \in S : least <= i
  BY <1>1, LeastOf
<1>. QED  BY <1>2 DEF Min

LEMMA ConvertAgrees ==
  ASSUME NEW n \in 0..MaxDepth, NEW schema \in Shallow(n), NEW f, NEW g, Agree(f, g, n - 1), NEW json
  PROVE  ConvertBody(f, schema, json) = ConvertBody(g, schema, json)
<1>1. \A i \in DOMAIN schema.parts : f[Part(schema.parts[i])] = g[Part(schema.parts[i])]
  BY PartsAre DEF Agree
<1>2. Fitting(f, schema, json) = Fitting(g, schema, json)
  BY <1>1 DEF Fitting
<1>3. CASE schema.type = "union"
  <2>1. ChosenBranch(f, schema, json) = ChosenBranch(g, schema, json)
    <3>. DEFINE S == Fitting(g, schema, json)
    <3>1. CASE S = {}
      BY <1>2, <3>1, Zenon DEF ChosenBranch
    <3>2. CASE S # {}
      <4>1. S \in SUBSET (1..Len(schema.parts)) /\ Len(schema.parts) \in Nat
        BY PartsAre DEF Fitting
      <4>2. Min(S) \in DOMAIN schema.parts
        <5>1. DOMAIN schema.parts = 1..Len(schema.parts)
          BY PartsAre
        <5>. HIDE DEF S
        <5>2. Min(S) \in S
          BY <3>2, <4>1, MinOf
        <5>. QED  BY <4>1, <5>1, <5>2
      <4>. QED  BY <1>1, <1>2, <3>2, <4>2, Zenon DEF ChosenBranch
    <3>. QED  BY <3>1, <3>2
  <2>2. \A value : ~HasItems(schema, value)
    BY <1>3 DEF HasItems
  <2>3. schema.type \notin {"bytes", "fixed"}
    BY <1>3
  <2>. QED  BY <1>3, <2>1, <2>2, <2>3, Zenon DEF ConvertBody
<1>4. CASE schema.type # "union"
  <2>. DEFINE value == LogicalRead(schema, json)
  <2>1. CASE HasItems(schema, value)
    <3>1. schema.type \in {"record", "array", "map"}
      BY <2>1 DEF HasItems
    <3>2. ASSUME NEW i \in DOMAIN value.items
          PROVE  ConvertedItem(f, schema, value, i) = ConvertedItem(g, schema, value, i)
      <4>. DEFINE name == value.items[i][1]
      <4>1. CASE schema.type = "record" /\ name \notin Names(schema)
        BY <4>1, Zenon DEF ConvertedItem
      <4>2. CASE ~(schema.type = "record" /\ name \notin Names(schema))
        <5>. HIDE DEF name
        <5>1. ItemSchema(schema, name) \in Shallow(n - 1)
          BY <3>1, <4>2, ItemSchemaIs
        <5>2. f[ItemSchema(schema, name)] = g[ItemSchema(schema, name)]
          BY <5>1 DEF Agree
        <5>. QED  BY <5>2, Zenon DEF ConvertedItem, name
      <4>. QED  BY <4>1, <4>2
    <3>3. ConvertedItems(f, schema, value) = ConvertedItems(g, schema, value)
      <4>. HIDE DEF value
      <4>1. [i \in DOMAIN value.items |-> <<value.items[i][1], ConvertedItem(f, schema, value, i)>>]
              = [i \in DOMAIN value.items |-> <<value.items[i][1], ConvertedItem(g, schema, value, i)>>]
        BY <3>2, Zenon
      <4>. QED  BY <4>1, Zenon DEF ConvertedItems
    <3>4. schema.type \notin {"bytes", "fixed"}
      BY <3>1
    <3>. QED  BY <1>4, <2>1, <3>3, <3>4, Zenon DEF ConvertBody
  <2>2. CASE ~HasItems(schema, value)
    BY <1>4, <2>2, Zenon DEF ConvertBody
  <2>. QED  BY <2>1, <2>2
<1>. QED  BY <1>3, <1>4

IsConverting(f, n) ==
  f = [schema \in Shallow(n) |-> [json \in AnyValue |-> ConvertBody(f, schema, json)]]

LEMMA ConvertingExists == \E f : IsConverting(f, MaxDepth)
<1>. DEFINE T == {n \in 0..MaxDepth : \E f : IsConverting(f, n)}
<1>0. MaxDepth \in Nat \ {0} /\ 0 \in 0..MaxDepth
  BY ValuesAre
<1>1. 0 \in T
  <2>. DEFINE f == [schema \in {} |-> schema]
  <2>1. f = [schema \in {} |-> [json \in AnyValue |-> ConvertBody(f, schema, json)]]
    OBVIOUS
  <2>. HIDE DEF f
  <2>2. IsConverting(f, 0)
    BY <2>1, ShallowAre, Zenon DEF IsConverting
  <2>. QED  BY <1>0, <2>2
<1>2. ASSUME NEW n \in 1..MaxDepth, n - 1 \in T PROVE n \in T
  <2>1. PICK f : IsConverting(f, n - 1)
    BY <1>2
  <2>. DEFINE Of(h, schema) == [json \in AnyValue |-> ConvertBody(h, schema, json)]
              g == [schema \in Shallow(n) |-> Of(f, schema)]
  <2>2. n \in 0..MaxDepth
    BY <1>0
  <2>3. \A schema \in Shallow(n - 1) : f[schema] = Of(f, schema) /\ schema \in Shallow(n)
    <3>1. f = [schema \in Shallow(n - 1) |-> Of(f, schema)]
      BY <2>1, Zenon DEF IsConverting
    <3>. HIDE DEF Of
    <3>. QED  BY <3>1, ShallowAre
  <2>4. \A schema \in Shallow(n) : g[schema] = Of(f, schema)
    <3>. HIDE DEF Of
    <3>. QED  OBVIOUS
  <2>5. g = [schema \in Shallow(n) |-> g[schema]]
    <3>. HIDE DEF Of
    <3>. QED  OBVIOUS
  <2>. HIDE DEF g
  <2>6. Agree(f, g, n - 1)
    <3>. HIDE DEF Of
    <3>. QED  BY <2>3, <2>4 DEF Agree
  <2>7. ASSUME NEW schema \in Shallow(n) PROVE Of(f, schema) = Of(g, schema)
    <3>1. \A json \in AnyValue : ConvertBody(f, schema, json) = ConvertBody(g, schema, json)
      BY <2>2, <2>6, ConvertAgrees
    <3>. QED  BY <3>1, Zenon
  <2>8. g = [schema \in Shallow(n) |-> Of(g, schema)]
    <3>1. \A schema \in Shallow(n) : g[schema] = Of(g, schema)
      <4>. HIDE DEF Of
      <4>. QED  BY <2>4, <2>7
    <3>. HIDE DEF Of
    <3>. QED  BY <2>5, <3>1, Zenon
  <2>9. IsConverting(g, n)
    BY <2>8, Zenon DEF IsConverting
  <2>. QED  BY <2>2, <2>9
<1>. HIDE DEF T
<1>3. MaxDepth \in T
  BY <1>0, <1>1, <1>2, UpTo
<1>. QED  BY <1>3 DEF T

LEMMA ConvertIs ==
  \A schema \in AvroSchemas : \A json \in AnyValue :
    Convert[schema][json] = ConvertBody(Convert, schema, json)
<1>. DEFINE c == CHOOSE c : IsConverting(c, MaxDepth)
<1>1. IsConverting(c, MaxDepth)
  BY ConvertingExists
<1>2. Convert = c
  BY ShallowAre, Zenon DEF Convert, IsConverting, ConvertBody, ChosenBranch, Fitting, ConvertedItems, ConvertedItem, LogicalRead
<1>. HIDE DEF c
<1>3. Convert = [schema \in AvroSchemas |-> [json \in AnyValue |-> ConvertBody(Convert, schema, json)]]
  <2>1. c = [schema \in Shallow(MaxDepth) |-> [json \in AnyValue |-> ConvertBody(c, schema, json)]]
    BY <1>1, Zenon DEF IsConverting
  <2>2. Shallow(MaxDepth) = AvroSchemas
    BY ShallowAre
  <2>. QED  BY <1>2, <2>1, <2>2, Zenon
<1>. QED  BY <1>3

\* What is validated and written, with the function for the parts.
WritableBody(f, schema, value) ==
  CASE schema.type = "union" -> \E i \in DOMAIN schema.parts : f[Part(schema.parts[i])][value]
    [] schema.type \in {"record", "array", "map"} ->
         /\ Fits(schema, value)
         /\ \A i \in DOMAIN value.items : f[ItemSchema(schema, value.items[i][1])][value.items[i][2]]
    [] schema.logical # "" ->
         value.py = LogicalPy(schema.logical) \/ value.py \in BasePy(schema.type)
    [] OTHER -> Fits(schema, value)

\* The items of a value that fits are of parts of the schema.
LEMMA FittingItems ==
  ASSUME NEW n \in 0..MaxDepth, NEW schema \in Shallow(n), NEW value,
         schema.type \in {"record", "array", "map"}, Fits(schema, value),
         NEW i \in DOMAIN value.items
  PROVE  ItemSchema(schema, value.items[i][1]) \in Shallow(n - 1)
<1>1. schema.type = "record" => value.items[i][1] \in Names(schema)
  <2>. SUFFICES ASSUME schema.type = "record" PROVE value.items[i][1] \in Names(schema)
    OBVIOUS
  <2>1. schema.logical = ""
    BY PartsAre DEF IsSchema
  <2>2. BasePy(schema.type) = {}
    BY DEF BasePy
  <2>3. Keys(value) \subseteq Names(schema)
    BY <2>1, <2>2 DEF Fits
  <2>4. value.items[i][1] \in Keys(value)
    BY DEF Keys
  <2>. QED  BY <2>3, <2>4
<1>. DEFINE name == value.items[i][1]
<1>. HIDE DEF name
<1>2. ItemSchema(schema, name) \in Shallow(n - 1)
  BY <1>1, ItemSchemaIs DEF name
<1>. QED  BY <1>2 DEF name

LEMMA WritableAgrees ==
  ASSUME NEW n \in 0..MaxDepth, NEW schema \in Shallow(n), NEW f, NEW g, Agree(f, g, n - 1), NEW value
  PROVE  WritableBody(f, schema, value) = WritableBody(g, schema, value)
<1>1. \A i \in DOMAIN schema.parts : f[Part(schema.parts[i])] = g[Part(schema.parts[i])]
  BY PartsAre DEF Agree
<1>2. CASE schema.type = "union"
  <2>1. (\E i \in DOMAIN schema.parts : f[Part(schema.parts[i])][value])
          = (\E i \in DOMAIN schema.parts : g[Part(schema.parts[i])][value])
    BY <1>1, Zenon
  <2>2. schema.logical = "" /\ schema.type \notin {"record", "array", "map"}
    BY <1>2, PartsAre DEF IsSchema
  <2>. QED  BY <1>2, <2>1, <2>2, Zenon DEF WritableBody
<1>3. CASE schema.type \in {"record", "array", "map"}
  <2>1. schema.type # "union" /\ schema.logical = ""
    BY <1>3, PartsAre DEF IsSchema
  <2>2. (/\ Fits(schema, value)
         /\ \A i \in DOMAIN value.items : f[ItemSchema(schema, value.items[i][1])][value.items[i][2]])
        = (/\ Fits(schema, value)
           /\ \A i \in DOMAIN value.items : g[ItemSchema(schema, value.items[i][1])][value.items[i][2]])
    <3>1. CASE Fits(schema, value)
      <4>1. \A i \in DOMAIN value.items :
              f[ItemSchema(schema, value.items[i][1])] = g[ItemSchema(schema, value.items[i][1])]
        BY <1>3, <3>1, FittingItems DEF Agree
      <4>. QED  BY <4>1, Zenon
    <3>2. CASE ~Fits(schema, value)
      BY <3>2, Zenon
    <3>. QED  BY <3>1, <3>2
  <2>. QED  BY <1>3, <2>1, <2>2, Zenon DEF WritableBody
<1>4. CASE schema.type \notin {"union", "record", "array", "map"}
  <2>1. schema.type # "union"
    BY <1>4
  <2>. QED  BY <1>4, <2>1, Zenon DEF WritableBody
<1>. QED  BY <1>2, <1>3, <1>4

IsValidating(f, n) ==
  f = [schema \in Shallow(n) |-> [value \in AnyValue |-> WritableBody(f, schema, value)]]

LEMMA ValidatingExists == \E f : IsValidating(f, MaxDepth)
<1>. DEFINE T == {n \in 0..MaxDepth : \E f : IsValidating(f, n)}
<1>0. MaxDepth \in Nat \ {0} /\ 0 \in 0..MaxDepth
  BY ValuesAre
<1>1. 0 \in T
  <2>. DEFINE f == [schema \in {} |-> schema]
  <2>1. f = [schema \in {} |-> [value \in AnyValue |-> WritableBody(f, schema, value)]]
    OBVIOUS
  <2>. HIDE DEF f
  <2>2. IsValidating(f, 0)
    BY <2>1, ShallowAre, Zenon DEF IsValidating
  <2>. QED  BY <1>0, <2>2
<1>2. ASSUME NEW n \in 1..MaxDepth, n - 1 \in T PROVE n \in T
  <2>1. PICK f : IsValidating(f, n - 1)
    BY <1>2
  <2>. DEFINE Of(h, schema) == [value \in AnyValue |-> WritableBody(h, schema, value)]
              g == [schema \in Shallow(n) |-> Of(f, schema)]
  <2>2. n \in 0..MaxDepth
    BY <1>0
  <2>3. \A schema \in Shallow(n - 1) : f[schema] = Of(f, schema) /\ schema \in Shallow(n)
    <3>1. f = [schema \in Shallow(n - 1) |-> Of(f, schema)]
      BY <2>1, Zenon DEF IsValidating
    <3>. HIDE DEF Of
    <3>. QED  BY <3>1, ShallowAre
  <2>4. \A schema \in Shallow(n) : g[schema] = Of(f, schema)
    <3>. HIDE DEF Of
    <3>. QED  OBVIOUS
  <2>5. g = [schema \in Shallow(n) |-> g[schema]]
    <3>. HIDE DEF Of
    <3>. QED  OBVIOUS
  <2>. HIDE DEF g
  <2>6. Agree(f, g, n - 1)
    <3>. HIDE DEF Of
    <3>. QED  BY <2>3, <2>4 DEF Agree
  <2>7. ASSUME NEW schema \in Shallow(n) PROVE Of(f, schema) = Of(g, schema)
    <3>1. \A value \in AnyValue : WritableBody(f, schema, value) = WritableBody(g, schema, value)
      BY <2>2, <2>6, WritableAgrees
    <3>. QED  BY <3>1, Zenon
  <2>8. g = [schema \in Shallow(n) |-> Of(g, schema)]
    <3>1. \A schema \in Shallow(n) : g[schema] = Of(g, schema)
      <4>. HIDE DEF Of
      <4>. QED  BY <2>4, <2>7
    <3>. HIDE DEF Of
    <3>. QED  BY <2>5, <3>1, Zenon
  <2>9. IsValidating(g, n)
    BY <2>8, Zenon DEF IsValidating
  <2>. QED  BY <2>2, <2>9
<1>. HIDE DEF T
<1>3. MaxDepth \in T
  BY <1>0, <1>1, <1>2, UpTo
<1>. QED  BY <1>3 DEF T

LEMMA WritableIs ==
  \A schema \in AvroSchemas : \A value \in AnyValue :
    Writable[schema][value] = WritableBody(Writable, schema, value)
<1>. DEFINE c == CHOOSE c : IsValidating(c, MaxDepth)
<1>1. IsValidating(c, MaxDepth)
  BY ValidatingExists
<1>2. Writable = c
  BY ShallowAre, Zenon DEF Writable, IsValidating, WritableBody
<1>. HIDE DEF c
<1>3. Writable = [schema \in AvroSchemas |-> [value \in AnyValue |-> WritableBody(Writable, schema, value)]]
  <2>1. c = [schema \in Shallow(MaxDepth) |-> [value \in AnyValue |-> WritableBody(c, schema, value)]]
    BY <1>1, Zenon DEF IsValidating
  <2>2. Shallow(MaxDepth) = AvroSchemas
    BY ShallowAre
  <2>. QED  BY <1>2, <2>1, <2>2, Zenon
<1>. QED  BY <1>3

Valid(schema, value) == {i \in DOMAIN schema.parts : Writable[Part(schema.parts[i])][value]}
WrittenItems(f, schema, value) ==
  Holding(value, [i \in DOMAIN value.items |->
                    <<value.items[i][1],
                      f[ItemSchema(schema, value.items[i][1])][value.items[i][2]]>>])
WrittenAs(f, schema, value) ==
  LET branch == schema.parts[Min(Valid(schema, value))]
  IN  Branched(f[Part(branch)][value], branch[1])
WritesBody(f, schema, value) ==
  CASE schema.type = "union" /\ Valid(schema, value) # {} -> WrittenAs(f, schema, value)
    [] schema.type \in {"record", "array", "map"} /\ Fits(schema, value) -> WrittenItems(f, schema, value)
    [] OTHER -> value

LEMMA WritesAgrees ==
  ASSUME NEW n \in 0..MaxDepth, NEW schema \in Shallow(n), NEW f, NEW g, Agree(f, g, n - 1), NEW value
  PROVE  WritesBody(f, schema, value) = WritesBody(g, schema, value)
<1>1. \A i \in DOMAIN schema.parts : f[Part(schema.parts[i])] = g[Part(schema.parts[i])]
  BY PartsAre DEF Agree
<1>2. CASE schema.type = "union" /\ Valid(schema, value) # {}
  <2>. DEFINE S == Valid(schema, value)
  <2>1. S \in SUBSET (1..Len(schema.parts)) /\ Len(schema.parts) \in Nat
    BY PartsAre DEF Valid
  <2>2. Min(S) \in DOMAIN schema.parts
    <3>1. DOMAIN schema.parts = 1..Len(schema.parts) /\ S # {}
      BY <1>2, PartsAre
    <3>. HIDE DEF S
    <3>2. Min(S) \in S
      BY <2>1, <3>1, MinOf
    <3>. QED  BY <2>1, <3>1, <3>2
  <2>3. WrittenAs(f, schema, value) = WrittenAs(g, schema, value)
    BY <1>1, <2>2, Zenon DEF WrittenAs
  <2>4. schema.type \notin {"record", "array", "map"}
    BY <1>2
  <2>. QED  BY <1>2, <2>3, <2>4, Zenon DEF WritesBody
<1>3. CASE schema.type \in {"record", "array", "map"} /\ Fits(schema, value)
  <2>1. schema.type # "union"
    BY <1>3
  <2>2. WrittenItems(f, schema, value) = WrittenItems(g, schema, value)
    <3>1. \A i \in DOMAIN value.items :
            f[ItemSchema(schema, value.items[i][1])] = g[ItemSchema(schema, value.items[i][1])]
      BY <1>3, FittingItems DEF Agree
    <3>2. [i \in DOMAIN value.items |->
             <<value.items[i][1], f[ItemSchema(schema, value.items[i][1])][value.items[i][2]]>>]
          = [i \in DOMAIN value.items |->
             <<value.items[i][1], g[ItemSchema(schema, value.items[i][1])][value.items[i][2]]>>]
      BY <3>1, Zenon
    <3>. QED  BY <3>2, Zenon DEF WrittenItems
  <2>. QED  BY <1>3, <2>1, <2>2, Zenon DEF WritesBody
<1>4. CASE /\ ~(schema.type = "union" /\ Valid(schema, value) # {})
           /\ ~(schema.type \in {"record", "array", "map"} /\ Fits(schema, value))
  BY <1>4, Zenon DEF WritesBody
<1>. QED  BY <1>2, <1>3, <1>4

IsWriting(f, n) ==
  f = [schema \in Shallow(n) |-> [value \in AnyValue |-> WritesBody(f, schema, value)]]

LEMMA WritingExists == \E f : IsWriting(f, MaxDepth)
<1>. DEFINE T == {n \in 0..MaxDepth : \E f : IsWriting(f, n)}
<1>0. MaxDepth \in Nat \ {0} /\ 0 \in 0..MaxDepth
  BY ValuesAre
<1>1. 0 \in T
  <2>. DEFINE f == [schema \in {} |-> schema]
  <2>1. f = [schema \in {} |-> [value \in AnyValue |-> WritesBody(f, schema, value)]]
    OBVIOUS
  <2>. HIDE DEF f
  <2>2. IsWriting(f, 0)
    BY <2>1, ShallowAre, Zenon DEF IsWriting
  <2>. QED  BY <1>0, <2>2
<1>2. ASSUME NEW n \in 1..MaxDepth, n - 1 \in T PROVE n \in T
  <2>1. PICK f : IsWriting(f, n - 1)
    BY <1>2
  <2>. DEFINE Of(h, schema) == [value \in AnyValue |-> WritesBody(h, schema, value)]
              g == [schema \in Shallow(n) |-> Of(f, schema)]
  <2>2. n \in 0..MaxDepth
    BY <1>0
  <2>3. \A schema \in Shallow(n - 1) : f[schema] = Of(f, schema) /\ schema \in Shallow(n)
    <3>1. f = [schema \in Shallow(n - 1) |-> Of(f, schema)]
      BY <2>1, Zenon DEF IsWriting
    <3>. HIDE DEF Of
    <3>. QED  BY <3>1, ShallowAre
  <2>4. \A schema \in Shallow(n) : g[schema] = Of(f, schema)
    <3>. HIDE DEF Of
    <3>. QED  OBVIOUS
  <2>5. g = [schema \in Shallow(n) |-> g[schema]]
    <3>. HIDE DEF Of
    <3>. QED  OBVIOUS
  <2>. HIDE DEF g
  <2>6. Agree(f, g, n - 1)
    <3>. HIDE DEF Of
    <3>. QED  BY <2>3, <2>4 DEF Agree
  <2>7. ASSUME NEW schema \in Shallow(n) PROVE Of(f, schema) = Of(g, schema)
    <3>1. \A value \in AnyValue : WritesBody(f, schema, value) = WritesBody(g, schema, value)
      BY <2>2, <2>6, WritesAgrees
    <3>. QED  BY <3>1, Zenon
  <2>8. g = [schema \in Shallow(n) |-> Of(g, schema)]
    <3>1. \A schema \in Shallow(n) : g[schema] = Of(g, schema)
      <4>. HIDE DEF Of
      <4>. QED  BY <2>4, <2>7
    <3>. HIDE DEF Of
    <3>. QED  BY <2>5, <3>1, Zenon
  <2>9. IsWriting(g, n)
    BY <2>8, Zenon DEF IsWriting
  <2>. QED  BY <2>2, <2>9
<1>. HIDE DEF T
<1>3. MaxDepth \in T
  BY <1>0, <1>1, <1>2, UpTo
<1>. QED  BY <1>3 DEF T

LEMMA WritesIs ==
  \A schema \in AvroSchemas : \A value \in AnyValue :
    Writes[schema][value] = WritesBody(Writes, schema, value)
<1>. DEFINE c == CHOOSE c : IsWriting(c, MaxDepth)
<1>1. IsWriting(c, MaxDepth)
  BY WritingExists
<1>2. Writes = c
  BY ShallowAre, Zenon DEF Writes, IsWriting, WritesBody, WrittenAs, WrittenItems, Valid
<1>. HIDE DEF c
<1>3. Writes = [schema \in AvroSchemas |-> [value \in AnyValue |-> WritesBody(Writes, schema, value)]]
  <2>1. c = [schema \in Shallow(MaxDepth) |-> [value \in AnyValue |-> WritesBody(c, schema, value)]]
    BY <1>1, Zenon DEF IsWriting
  <2>2. Shallow(MaxDepth) = AvroSchemas
    BY ShallowAre
  <2>. QED  BY <1>2, <2>1, <2>2, Zenon
<1>. QED  BY <1>3

\* The branches that are told apart, with the function for the parts.
Apart(schema) ==
  schema.type = "union" =>
    \A i, j \in DOMAIN schema.parts :
      i < j => Takes(Part(schema.parts[i])) \cap Shows(Part(schema.parts[j])) = {}
ToldBody(f, schema) == (\A i \in DOMAIN schema.parts : f[Part(schema.parts[i])]) /\ Apart(schema)

LEMMA ToldAgrees ==
  ASSUME NEW n \in 0..MaxDepth, NEW schema \in Shallow(n), NEW f, NEW g, Agree(f, g, n - 1)
  PROVE  ToldBody(f, schema) = ToldBody(g, schema)
<1>1. \A i \in DOMAIN schema.parts : f[Part(schema.parts[i])] = g[Part(schema.parts[i])]
  BY PartsAre DEF Agree
<1>2. (\A i \in DOMAIN schema.parts : f[Part(schema.parts[i])])
        = (\A i \in DOMAIN schema.parts : g[Part(schema.parts[i])])
  BY <1>1, Zenon
<1>. QED  BY <1>2, Zenon DEF ToldBody

AreTelling(f, n) ==
  f = [schema \in Shallow(n) |-> ToldBody(f, schema)]

LEMMA TellingExists == \E f : AreTelling(f, MaxDepth)
<1>. DEFINE T == {n \in 0..MaxDepth : \E f : AreTelling(f, n)}
<1>0. MaxDepth \in Nat \ {0} /\ 0 \in 0..MaxDepth
  BY ValuesAre
<1>1. 0 \in T
  <2>. DEFINE f == [schema \in {} |-> schema]
  <2>1. f = [schema \in {} |-> ToldBody(f, schema)]
    OBVIOUS
  <2>. HIDE DEF f
  <2>2. AreTelling(f, 0)
    BY <2>1, ShallowAre, Zenon DEF AreTelling
  <2>. QED  BY <1>0, <2>2
<1>2. ASSUME NEW n \in 1..MaxDepth, n - 1 \in T PROVE n \in T
  <2>1. PICK f : AreTelling(f, n - 1)
    BY <1>2
  <2>. DEFINE Of(h, schema) == ToldBody(h, schema)
              g == [schema \in Shallow(n) |-> Of(f, schema)]
  <2>2. n \in 0..MaxDepth
    BY <1>0
  <2>3. \A schema \in Shallow(n - 1) : f[schema] = Of(f, schema) /\ schema \in Shallow(n)
    <3>1. f = [schema \in Shallow(n - 1) |-> Of(f, schema)]
      BY <2>1, Zenon DEF AreTelling
    <3>. HIDE DEF Of
    <3>. QED  BY <3>1, ShallowAre
  <2>4. \A schema \in Shallow(n) : g[schema] = Of(f, schema)
    <3>. HIDE DEF Of
    <3>. QED  OBVIOUS
  <2>5. g = [schema \in Shallow(n) |-> g[schema]]
    <3>. HIDE DEF Of
    <3>. QED  OBVIOUS
  <2>. HIDE DEF g
  <2>6. Agree(f, g, n - 1)
    <3>. HIDE DEF Of
    <3>. QED  BY <2>3, <2>4 DEF Agree
  <2>7. ASSUME NEW schema \in Shallow(n) PROVE Of(f, schema) = Of(g, schema)
    BY <2>2, <2>6, ToldAgrees
  <2>8. g = [schema \in Shallow(n) |-> Of(g, schema)]
    <3>1. \A schema \in Shallow(n) : g[schema] = Of(g, schema)
      <4>. HIDE DEF Of
      <4>. QED  BY <2>4, <2>7
    <3>. HIDE DEF Of
    <3>. QED  BY <2>5, <3>1, Zenon
  <2>9. AreTelling(g, n)
    BY <2>8, Zenon DEF AreTelling
  <2>. QED  BY <2>2, <2>9
<1>. HIDE DEF T
<1>3. MaxDepth \in T
  BY <1>0, <1>1, <1>2, UpTo
<1>. QED  BY <1>3 DEF T

LEMMA BranchesToldIs ==
  \A schema \in AvroSchemas :
    BranchesTold[schema] =>
      Apart(schema) /\ \A i \in DOMAIN schema.parts : BranchesTold[Part(schema.parts[i])]
<1>. DEFINE c == CHOOSE c : AreTelling(c, MaxDepth)
<1>1. AreTelling(c, MaxDepth)
  BY TellingExists
<1>2. BranchesTold = c
  BY ShallowAre, Zenon DEF BranchesTold, AreTelling, ToldBody, Apart
<1>. HIDE DEF c
<1>3. BranchesTold = [schema \in AvroSchemas |-> ToldBody(BranchesTold, schema)]
  <2>1. c = [schema \in Shallow(MaxDepth) |-> ToldBody(c, schema)]
    BY <1>1, Zenon DEF AreTelling
  <2>2. Shallow(MaxDepth) = AvroSchemas
    BY ShallowAre
  <2>. QED  BY <1>2, <2>1, <2>2, Zenon
<1>4. \A schema \in AvroSchemas : BranchesTold[schema] = ToldBody(BranchesTold, schema)
  BY <1>3
<1>. QED  BY <1>4, Zenon DEF ToldBody
-----------------------------------------------------------------------------
\* Copies: which branch takes what is shown.

\* What a value is shown as, to a branch that takes it.
Kinds(value) ==
  CASE value.py = "str"      -> {"text"} \cup value.form
    [] value.py \in NumberPys -> {"number"}
    [] value.py = "dict"     -> {"object"}
    [] value.py = "list"     -> {"array"}
    [] value.py = "none"     -> {"null"}
    [] value.py = "bool"     -> {"boolean"}
    [] OTHER                 -> {"text"} \cup value.form

\* A value that fits a type is taken by it.
LEMMA BaseTakes ==
  ASSUME NEW schema, schema.type \in TYPES, NEW value, value.py \in BasePy(schema.type),
         value.py = "bytes" => "bytes" \in value.form
  PROVE  Kinds(value) \cap BaseShows(schema.type) # {}
<1>1. CASE schema.type = "null"
  BY <1>1 DEF BasePy, Kinds, BaseShows, NumberPys
<1>2. CASE schema.type = "boolean"
  BY <1>2 DEF BasePy, Kinds, BaseShows, NumberPys
<1>3. CASE schema.type \in {"int", "long"}
  BY <1>3 DEF BasePy, Kinds, BaseShows, NumberPys
<1>4. CASE schema.type \in {"float", "double"}
  BY <1>4 DEF BasePy, Kinds, BaseShows, NumberPys
<1>5. CASE schema.type = "string"
  BY <1>5 DEF BasePy, Kinds, BaseShows, NumberPys
<1>6. CASE schema.type \in {"bytes", "fixed"}
  <2>1. value.py = "bytes" /\ BaseShows(schema.type) = {"bytes"}
    BY <1>6 DEF BasePy, BaseShows
  <2>2. Kinds(value) = {"text"} \cup value.form
    BY <2>1 DEF Kinds, NumberPys
  <2>. QED  BY <2>1, <2>2
<1>7. CASE schema.type = "array"
  BY <1>7 DEF BasePy, Kinds, BaseShows, NumberPys
<1>8. CASE schema.type = "map"
  BY <1>8 DEF BasePy, Kinds, BaseShows, NumberPys
<1>9. CASE schema.type \in {"enum", "record", "union"}
  BY <1>9 DEF BasePy
<1>. QED  BY <1>1, <1>2, <1>3, <1>4, <1>5, <1>6, <1>7, <1>8, <1>9 DEF TYPES

\* So is what fits a record or an enum.
LEMMA FittingIsTaken ==
  ASSUME NEW schema, schema.type \in TYPES, NEW value, Fits(schema, value),
         value.py = "bytes" => "bytes" \in value.form,
         schema.logical # "" => value.py \notin {"datetime", "date", "time", "decimal"}
  PROVE  Kinds(value) \cap BaseShows(schema.type) # {}
<1>1. CASE value.py \in BasePy(schema.type)
  BY <1>1, BaseTakes
<1>2. CASE schema.type = "enum" /\ value.py = "str"
  <2>1. "text" \in Kinds(value)
    BY <1>2 DEF Kinds, NumberPys
  <2>2. "text" \in BaseShows(schema.type)
    BY <1>2 DEF BaseShows
  <2>. QED  BY <2>1, <2>2
<1>3. CASE schema.type = "record" /\ value.py = "dict"
  <2>1. "object" \in Kinds(value)
    BY <1>3 DEF Kinds, NumberPys
  <2>2. "object" \in BaseShows(schema.type)
    BY <1>3 DEF BaseShows
  <2>. QED  BY <2>1, <2>2
<1>. QED  BY <1>1, <1>2, <1>3 DEF Fits

\* Read as its logical type, a value becomes of it, or stays as it is.
LEMMA LogicalIs ==
  ASSUME NEW schema, NEW value
  PROVE  \/ LogicalRead(schema, value) = value
         \/ /\ schema.logical # ""
            /\ Kinds(value) \cap Takes(schema) # {}
<1>. DEFINE py == LogicalPy(schema.logical)
<1>1. CASE schema.logical = ""
  BY <1>1, Zenon DEF LogicalRead
<1>2. CASE schema.logical # "" /\ value.py = "str" /\ py \in value.form
  <2>1. py \in Kinds(value)
    <3>1. Kinds(value) = {"text"} \cup value.form
      BY <1>2 DEF Kinds, NumberPys
    <3>. HIDE DEF py
    <3>. QED  BY <1>2, <3>1
  <2>2. py \in Takes(schema)
    <3>. HIDE DEF py
    <3>. QED  BY <1>2 DEF Takes, py
  <2>. QED  BY <1>2, <2>1, <2>2
<1>3. CASE schema.logical # "" /\ value.py \in NumberPys
  <2>1. "number" \in Kinds(value)
    BY <1>3 DEF Kinds, NumberPys
  <2>2. "number" \in Takes(schema)
    BY <1>3 DEF Takes
  <2>. QED  BY <1>3, <2>1, <2>2
<1>4. CASE schema.logical # "" /\ value.py \notin NumberPys /\ ~(value.py = "str" /\ py \in value.form)
  <2>1. Logical(schema, value) = value
    BY <1>4, Zenon DEF Logical
  <2>. QED  BY <1>4, <2>1, Zenon DEF LogicalRead
<1>. QED  BY <1>1, <1>2, <1>3, <1>4

\* A branch that fits what it converts takes it.
LEMMA ConvertedIsTaken ==
  ASSUME NEW schema \in AvroSchemas, schema.type # "union", NEW json \in AnyValue, json.py \in JsonTypes,
         Fits(schema, Convert[schema][json])
  PROVE  Kinds(json) \cap Takes(schema) # {}
<1>1. schema.type \in TYPES /\ IsSchema(schema)
  <2>1. schema \in Shallow(MaxDepth) /\ MaxDepth \in 0..MaxDepth
    BY ShallowAre, ValuesAre
  <2>. QED  BY <2>1, PartsAre
<1>2. Convert[schema][json] = ConvertBody(Convert, schema, json)
  BY ConvertIs
<1>3. BaseShows(schema.type) \subseteq Takes(schema)
  BY DEF Takes
<1>4. json.py \notin FORMS
  BY DEF JsonTypes, FORMS
<1>5. CASE LogicalRead(schema, json) = json
  <2>1. CASE HasItems(schema, json)
    <3>0. schema.type \notin {"bytes", "fixed"}
      BY <2>1 DEF HasItems
    <3>1. Fits(schema, ConvertedItems(Convert, schema, json))
      BY <1>2, <1>5, <2>1, <3>0, Zenon DEF ConvertBody
    <3>. DEFINE y == ConvertedItems(Convert, schema, json)
    <3>2. y.py = json.py /\ y.form = json.form
      BY DEF ConvertedItems, Holding, Remade
    <3>3. Kinds(y) = Kinds(json)
      <4>. HIDE DEF y
      <4>. QED  BY <3>2, Zenon DEF Kinds
    <3>4. y.py \notin FORMS
      BY <1>4, <3>2
    <3>5. Kinds(y) \cap BaseShows(schema.type) # {}
      <4>. HIDE DEF y
      <4>1. Fits(schema, y)
        BY <3>1 DEF y
      <4>2. y.py \notin {"bytes", "datetime", "date", "time", "decimal"}
        BY <3>4 DEF FORMS
      <4>. QED  BY <1>1, <4>1, <4>2, FittingIsTaken
    <3>. HIDE DEF y
    <3>. QED  BY <1>3, <3>3, <3>5
  <2>2. CASE ~HasItems(schema, json) /\ Convert[schema][json] = json
    <3>1. json.py \notin {"bytes", "datetime", "date", "time", "decimal"}
      BY <1>4 DEF FORMS
    <3>2. Kinds(json) \cap BaseShows(schema.type) # {}
      BY <1>1, <2>2, <3>1, FittingIsTaken
    <3>. QED  BY <1>3, <3>2
  <2>3. CASE ~HasItems(schema, json) /\ Convert[schema][json] # json
    <3>1. schema.type \in {"bytes", "fixed"} /\ BytesLiteral(json) # json
      BY <1>2, <1>5, <2>3, Zenon DEF ConvertBody
    <3>2. json.py = "str" /\ "bytes" \in json.form
      BY <3>1, Zenon DEF BytesLiteral
    <3>3. "bytes" \in Kinds(json)
      <4>1. Kinds(json) = {"text"} \cup json.form
        BY <3>2 DEF Kinds, NumberPys
      <4>. QED  BY <3>2, <4>1
    <3>4. "bytes" \in BaseShows(schema.type)
      BY <3>1 DEF BaseShows
    <3>. QED  BY <1>3, <3>3, <3>4
  <2>. QED  BY <2>1, <2>2, <2>3
<1>6. CASE LogicalRead(schema, json) # json
  BY <1>6, LogicalIs
<1>. QED  BY <1>5, <1>6

\* What is shown of a value is of its kinds: a type is lost, but not what the
\* text can be read as.
LEMMA ShownKinds ==
  ASSUME NEW value \in AnyValue
  PROVE  /\ ShownAs[value].py \in JsonTypes /\ Kinds(ShownAs[value]) = Kinds(value)
         /\ ShownAs[value] \in AnyValue
<1>1. MaxDepth \in 1..MaxDepth /\ value \in ValuesTo[MaxDepth]
  BY ValuesAre DEF AnyValue
<1>2. ShownAs[value] = IF value.py \in JsonTypes THEN OnItems(value, ShownAs) ELSE Typed(value, "str")
  BY <1>1, ShownAsIs, Zenon
<1>3. ShownAs[value] \in AnyValue
  BY <1>1, ShownAsIs, Zenon DEF AnyValue
<1>4. value.py \in PYS
  BY <1>1, AvroValueIs
<1>5. CASE value.py \in JsonTypes
  <2>. DEFINE x == OnItems(value, ShownAs)
  <2>1. x.py = value.py /\ x.form = value.form
    BY DEF OnItems, Holding, Remade
  <2>. HIDE DEF x
  <2>2. Kinds(x) = Kinds(value)
    BY <2>1, Zenon DEF Kinds
  <2>. QED  BY <1>2, <1>3, <1>5, <2>1, <2>2, Zenon DEF x
<1>6. CASE value.py \notin JsonTypes
  <2>. DEFINE x == Typed(value, "str")
  <2>1. x.py = "str" /\ x.form = value.form
    BY DEF Typed, Remade
  <2>. HIDE DEF x
  <2>2. "str" \in JsonTypes /\ value.py \notin {"str", "int", "float", "dict", "list", "none", "bool"}
    BY <1>6 DEF JsonTypes
  <2>3. Kinds(x) = {"text"} \cup value.form
    BY <2>1 DEF Kinds, NumberPys
  <2>4. Kinds(value) = {"text"} \cup value.form
    BY <2>2 DEF Kinds, NumberPys
  <2>. QED  BY <1>2, <1>3, <1>6, <2>1, <2>2, <2>3, <2>4, Zenon DEF x
<1>. QED  BY <1>5, <1>6

\* What a text of a type can be read as is that type too.
LEMMA FormsAre ==
  ASSUME NEW value, value.form \in Forms(value.py)
  PROVE  value.py \in FORMS => value.py \in value.form
<1>1. CASE value.py \in {"datetime", "time", "bytes"}
  BY <1>1 DEF Forms
<1>2. CASE value.py = "date"
  BY <1>2 DEF Forms
<1>3. CASE value.py = "decimal"
  BY <1>3 DEF Forms
<1>4. CASE value.py \notin FORMS
  BY <1>4
<1>. QED  BY <1>1, <1>2, <1>3, <1>4 DEF FORMS

LEMMA LogicalPys ==
  ASSUME NEW logical \in LOGICALS, logical # ""
  PROVE  LogicalPy(logical) \in {"datetime", "date", "time", "decimal"}
<1>1. CASE logical \in DATETIME_LOGICAL_TYPES
  BY <1>1 DEF LogicalPy
<1>2. CASE logical \in TIME_LOGICAL_TYPES
  <2>1. logical \notin DATETIME_LOGICAL_TYPES
    BY <1>2 DEF TIME_LOGICAL_TYPES, DATETIME_LOGICAL_TYPES
  <2>. QED  BY <1>2, <2>1 DEF LogicalPy
<1>3. CASE logical \notin DATETIME_LOGICAL_TYPES \cup TIME_LOGICAL_TYPES
  <2>1. logical \in {"date", "decimal"}
    BY <1>3 DEF LOGICALS
  <2>2. LogicalPy(logical) = logical
    BY <1>3 DEF LogicalPy
  <2>. QED  BY <2>1, <2>2
<1>. QED  BY <1>1, <1>2, <1>3

\* A branch for which a value is valid takes it, and it fits there.
LEMMA WritableIsTaken ==
  ASSUME NEW schema \in AvroSchemas, schema.type # "union", NEW value \in AnyValue,
         value.form \in Forms(value.py), Writable[schema][value]
  PROVE  Kinds(value) \cap Takes(schema) # {} /\ Fits(schema, value)
<1>1. schema.type \in TYPES /\ schema.logical \in LOGICALS /\ IsSchema(schema)
  <2>1. schema \in Shallow(MaxDepth) /\ MaxDepth \in 0..MaxDepth
    BY ShallowAre, ValuesAre
  <2>. QED  BY <2>1, PartsAre
<1>2. WritableBody(Writable, schema, value)
  BY WritableIs
<1>3. BaseShows(schema.type) \subseteq Takes(schema)
  BY DEF Takes
<1>4. value.py \in FORMS => value.py \in value.form
  BY FormsAre
<1>5. value.py = "bytes" => "bytes" \in value.form
  BY <1>4 DEF FORMS
<1>6. CASE schema.logical = ""
  <2>1. Fits(schema, value)
    BY <1>2, <1>6, Zenon DEF WritableBody
  <2>2. Kinds(value) \cap BaseShows(schema.type) # {}
    BY <1>1, <1>5, <1>6, <2>1, FittingIsTaken
  <2>. QED  BY <1>3, <2>1, <2>2
<1>7. CASE schema.logical # ""
  <2>1. schema.type \notin {"record", "array", "map"}
    BY <1>1, <1>7 DEF IsSchema
  <2>2. value.py = LogicalPy(schema.logical) \/ value.py \in BasePy(schema.type)
    BY <1>2, <1>7, <2>1, Zenon DEF WritableBody
  <2>3. CASE value.py \in BasePy(schema.type)
    <3>1. Kinds(value) \cap BaseShows(schema.type) # {}
      BY <1>1, <1>5, <2>3, BaseTakes
    <3>2. Fits(schema, value)
      BY <2>3, Zenon DEF Fits
    <3>. QED  BY <1>3, <3>1, <3>2
  <2>4. CASE value.py = LogicalPy(schema.logical)
    <3>1. value.py \in {"datetime", "date", "time", "decimal"}
      BY <1>1, <1>7, <2>4, LogicalPys
    <3>2. Fits(schema, value)
      BY <1>7, <3>1 DEF Fits
    <3>3. value.py \in value.form
      BY <1>4, <3>1 DEF FORMS
    <3>4. Kinds(value) = {"text"} \cup value.form
      BY <3>1 DEF Kinds, NumberPys
    <3>5. value.py \in Takes(schema)
      BY <1>7, <2>4 DEF Takes
    <3>. QED  BY <3>2, <3>3, <3>4, <3>5
  <2>. QED  BY <2>2, <2>3, <2>4
<1>. QED  BY <1>6, <1>7

\* Data of a schema is shown as the schema shows it.
LEMMA DataShows ==
  ASSUME NEW schema, schema.type \in TYPES, schema.logical \in LOGICALS, schema.type # "union",
         schema.logical # "" => schema.type \in {"int", "long", "bytes", "fixed"},
         NEW data, IsDataOf(schema, data)
  PROVE  Kinds(data) \subseteq Shows(schema)
<1>1. data.form \in Forms(data.py)
  BY DEF IsDataOf
<1>2. CASE schema.type \in {"record", "map", "array"}
  <2>1. schema.logical = "" /\ Shows(schema) = BaseShows(schema.type)
    BY <1>2 DEF Shows
  <2>2. HasItems(schema, data)
    BY <1>2 DEF IsDataOf
  <2>3. CASE schema.type = "array"
    BY <2>1, <2>2, <2>3 DEF HasItems, Kinds, NumberPys, BaseShows
  <2>4. CASE schema.type # "array"
    <3>1. Kinds(data) = {"object"}
      BY <2>2, <2>4 DEF HasItems, Kinds, NumberPys
    <3>2. BaseShows(schema.type) = {"object"}
      BY <1>2, <2>4 DEF BaseShows
    <3>. QED  BY <2>1, <3>1, <3>2
  <2>. QED  BY <2>3, <2>4
<1>3. CASE schema.logical # ""
  <2>1. data.py = LogicalPy(schema.logical)
    BY <1>3 DEF IsDataOf
  <2>2. data.py \in {"datetime", "date", "time", "decimal"}
    BY <1>3, <2>1, LogicalPys
  <2>3. Kinds(data) = {"text"} \cup data.form
    BY <2>2 DEF Kinds, NumberPys
  <2>4. data.form \subseteq UNION Forms(LogicalPy(schema.logical))
    BY <1>1, <2>1
  <2>5. Shows(schema) = {"text"} \cup UNION Forms(LogicalPy(schema.logical))
    BY <1>3 DEF Shows
  <2>. QED  BY <2>3, <2>4, <2>5
<1>4. CASE schema.logical = "" /\ schema.type \notin {"record", "map", "array"}
  <2>1. \/ data.py \in BasePy(schema.type)
        \/ schema.type = "enum" /\ data.py = "str"
    BY <1>4 DEF IsDataOf
  <2>2. CASE schema.type \in {"string", "enum"}
    <3>1. data.py = "str"
      BY <2>1, <2>2 DEF BasePy
    <3>2. Kinds(data) = {"text"} \cup data.form
      BY <3>1 DEF Kinds, NumberPys
    <3>3. data.form \subseteq FORMS
      BY <1>1, <3>1 DEF Forms
    <3>4. Shows(schema) = {"text"} \cup FORMS
      BY <1>4, <2>2 DEF Shows
    <3>. QED  BY <3>2, <3>3, <3>4
  <2>3. CASE schema.type \in {"bytes", "fixed"}
    <3>1. data.py = "bytes"
      BY <2>1, <2>3 DEF BasePy
    <3>2. Kinds(data) = {"text"} \cup data.form
      BY <3>1 DEF Kinds, NumberPys
    <3>3. data.form = {"bytes"}
      BY <1>1, <3>1 DEF Forms
    <3>4. Shows(schema) = {"text", "bytes"}
      BY <1>4, <2>3 DEF Shows
    <3>. QED  BY <3>2, <3>3, <3>4
  <2>4. CASE schema.type \in {"null", "boolean", "int", "long", "float", "double"}
    <3>1. Shows(schema) = BaseShows(schema.type)
      BY <1>4, <2>4 DEF Shows
    <3>2. CASE schema.type = "null"
      BY <2>1, <3>1, <3>2 DEF BasePy, Kinds, NumberPys, BaseShows
    <3>3. CASE schema.type = "boolean"
      BY <2>1, <3>1, <3>3 DEF BasePy, Kinds, NumberPys, BaseShows
    <3>4. CASE schema.type \notin {"null", "boolean"}
      <4>1. data.py \in NumberPys
        BY <2>1, <2>4, <3>4 DEF BasePy, NumberPys
      <4>2. Kinds(data) = {"number"}
        BY <4>1 DEF Kinds, NumberPys
      <4>3. BaseShows(schema.type) = {"number"}
        BY <2>4, <3>4 DEF BaseShows
      <4>. QED  BY <3>1, <4>2, <4>3
    <3>. QED  BY <3>2, <3>3, <3>4
  <2>. QED  BY <1>4, <2>2, <2>3, <2>4 DEF TYPES
<1>. QED  BY <1>2, <1>3, <1>4

-----------------------------------------------------------------------------
\* Copies: what is read, shown, read back and written is what was written.

IsSame(schema, data) ==
  /\ Convert[schema][ShownAs[ReadsAvro[data]]] = ReadsAvro[data]
  /\ Writable[schema][ReadsAvro[data]]
  /\ Writes[schema][ReadsAvro[data]] = data
Keeps(schema) == \A data \in AvroData(schema) : IsSame(schema, data)

\* What is read of data is of its type; its items are what is read of its items.
LEMMA ReadIs ==
  ASSUME NEW data \in AnyValue
  PROVE  LET r == ReadsAvro[data]
         IN  /\ r \in AnyValue /\ r.py = data.py /\ r.form = data.form /\ r.v = data.v
             /\ r = Remade(data, data.py, "", r.items)
             /\ DOMAIN r.items = DOMAIN data.items
             /\ \A i \in DOMAIN data.items :
                  r.items[i] = <<data.items[i][1], ReadsAvro[data.items[i][2]]>>
<1>1. MaxDepth \in 1..MaxDepth /\ data \in ValuesTo[MaxDepth]
  BY ValuesAre DEF AnyValue
<1>2. ReadsAvro[data] = OnItems(data, ReadsAvro) /\ ReadsAvro[data] \in AnyValue
  BY <1>1, ReadsAvroIs, Zenon DEF AnyValue
<1>. DEFINE items == [i \in DOMAIN data.items |-> <<data.items[i][1], ReadsAvro[data.items[i][2]]>>]
<1>3. /\ DOMAIN items = DOMAIN data.items
      /\ \A i \in DOMAIN data.items : items[i] = <<data.items[i][1], ReadsAvro[data.items[i][2]]>>
  OBVIOUS
<1>4. OnItems(data, ReadsAvro) = Remade(data, data.py, "", items)
  BY Zenon DEF OnItems, Holding
<1>. HIDE DEF items
<1>. DEFINE r == Remade(data, data.py, "", items)
<1>5. r.py = data.py /\ r.form = data.form /\ r.v = data.v /\ r.items = items
  BY DEF Remade
<1>6. ReadsAvro[data] = r
  BY <1>2, <1>4
<1>. HIDE DEF r
<1>7. r = Remade(data, data.py, "", r.items)
  BY <1>5, Zenon DEF r
<1>. QED  BY <1>2, <1>3, <1>5, <1>6, <1>7, Zenon

\* A datum of a type without parts.
LEMMA LeavesAreKept ==
  ASSUME NEW schema \in AvroSchemas, schema.type \notin {"union", "record", "array", "map"}
  PROVE  Keeps(schema)
<1>. SUFFICES ASSUME NEW data \in AvroData(schema) PROVE IsSame(schema, data)
  BY DEF Keeps
<1>1. /\ schema.type \in TYPES /\ schema.logical \in LOGICALS
      /\ schema.logical # "" => schema.type \in {"int", "long", "bytes", "fixed"}
  <2>1. schema \in Shallow(MaxDepth) /\ MaxDepth \in 0..MaxDepth
    BY ShallowAre, ValuesAre
  <2>. QED  BY <2>1, PartsAre DEF IsSchema
<1>2. data \in AnyValue /\ IsDataOf(schema, data)
  BY CopiesAssumption
<1>3. MaxDepth \in 1..MaxDepth /\ data \in ValuesTo[MaxDepth]
  BY <1>2, ValuesAre DEF AnyValue
<1>4. /\ data.form \in Forms(data.py) /\ data.branch = "" /\ data.items = <<>>
      /\ schema.logical # "" => data.py = LogicalPy(schema.logical)
      /\ schema.logical = "" => \/ data.py \in BasePy(schema.type)
                                \/ schema.type = "enum" /\ data.py = "str" /\ data.v \in Names(schema)
  BY <1>2 DEF IsDataOf
<1>5. data = Remade(data, data.py, "", <<>>)
  BY <1>3, <1>4, AvroValueIs
<1>6. \A f : OnItems(data, f) = data
  <2>. TAKE f
  <2>1. [i \in DOMAIN data.items |-> <<data.items[i][1], f[data.items[i][2]]>>] = <<>>
    <3>1. [i \in DOMAIN <<>> |-> <<data.items[i][1], f[data.items[i][2]]>>] = <<>>
      OBVIOUS
    <3>. QED  BY <1>4, <3>1, Zenon
  <2>. QED  BY <1>5, <2>1, Zenon DEF OnItems, Holding
<1>7. ReadsAvro[data] = data
  BY <1>3, <1>6, ReadsAvroIs, Zenon
<1>. DEFINE x == ShownAs[data]
<1>8. x = (IF data.py \in JsonTypes THEN data ELSE Typed(data, "str")) /\ x \in AnyValue
  BY <1>2, <1>3, <1>6, ShownAsIs, ShownKinds, Zenon
<1>. HIDE DEF x
<1>9. Convert[schema][x] = ConvertBody(Convert, schema, x)
  BY <1>8, ConvertIs
<1>10. \A value : ~HasItems(schema, value)
  BY DEF HasItems
<1>11. \A py \in PYS : py \notin JsonTypes =>
         Typed(Typed(data, "str"), py) = Remade(data, py, data.branch, data.items)
  BY DEF Typed, Remade
<1>12. Convert[schema][x] = data
  <2>1. CASE schema.logical # ""
    <3>1. data.py \in {"datetime", "date", "time", "decimal"} /\ data.py = LogicalPy(schema.logical)
      BY <1>1, <1>4, <2>1, LogicalPys
    <3>2. data.py \in PYS /\ data.py \notin JsonTypes /\ data.py \in FORMS /\ data.py # "str"
      BY <3>1 DEF PYS, JsonTypes, FORMS
    <3>3. x = Typed(data, "str")
      BY <1>8, <3>2
    <3>4. x.py = "str" /\ x.form = data.form
      BY <3>3 DEF Typed, Remade
    <3>5. data.py \in x.form
      BY <1>4, <3>2, <3>4, FormsAre
    <3>6. Logical(schema, x) = Typed(x, data.py)
      BY <3>1, <3>4, <3>5, Zenon DEF Logical
    <3>7. Typed(x, data.py) = data
      BY <1>4, <1>5, <1>11, <3>2, <3>3
    <3>8. LogicalRead(schema, x) = data
      BY <2>1, <3>6, <3>7, Zenon DEF LogicalRead
    <3>9. BytesLiteral(data) = data
      BY <3>2, Zenon DEF BytesLiteral
    <3>10. schema.type # "union"
      OBVIOUS
    <3>11. CASE schema.type \in {"bytes", "fixed"}
      BY <1>9, <1>10, <3>8, <3>9, <3>10, <3>11, Zenon DEF ConvertBody
    <3>12. CASE schema.type \notin {"bytes", "fixed"}
      BY <1>9, <1>10, <3>8, <3>10, <3>12, Zenon DEF ConvertBody
    <3>. QED  BY <3>11, <3>12
  <2>2. CASE schema.logical = "" /\ schema.type \in {"bytes", "fixed"}
    <3>1. data.py = "bytes"
      BY <1>4, <2>2 DEF BasePy
    <3>2. data.py \in PYS /\ data.py \notin JsonTypes /\ data.py \in FORMS
      BY <3>1 DEF PYS, JsonTypes, FORMS
    <3>3. x = Typed(data, "str")
      BY <1>8, <3>2
    <3>4. x.py = "str" /\ x.form = data.form
      BY <3>3 DEF Typed, Remade
    <3>5. "bytes" \in x.form
      BY <1>4, <3>1, <3>2, <3>4, FormsAre
    <3>6. BytesLiteral(x) = Typed(x, "bytes")
      BY <3>4, <3>5, Zenon DEF BytesLiteral
    <3>7. Typed(x, "bytes") = data
      BY <1>4, <1>5, <1>11, <3>1, <3>2, <3>3
    <3>8. LogicalRead(schema, x) = x
      BY <2>2, Zenon DEF LogicalRead
    <3>9. schema.type # "union"
      OBVIOUS
    <3>. QED  BY <1>9, <1>10, <2>2, <3>6, <3>7, <3>8, <3>9, Zenon DEF ConvertBody
  <2>3. CASE schema.logical = "" /\ schema.type \notin {"bytes", "fixed"}
    <3>1. data.py \in JsonTypes
      <4>1. CASE schema.type = "enum"
        <5>1. data.py = "str"
          BY <1>4, <2>3, <4>1 DEF BasePy
        <5>. QED  BY <5>1 DEF JsonTypes
      <4>2. CASE schema.type # "enum"
        <5>1. data.py \in {"none", "bool", "int", "float", "str"}
          BY <1>1, <1>4, <2>3, <4>2 DEF BasePy, NumberPys, TYPES
        <5>. QED  BY <5>1 DEF JsonTypes
      <4>. QED  BY <4>1, <4>2
    <3>2. x = data
      BY <1>8, <3>1
    <3>3. LogicalRead(schema, x) = data
      BY <2>3, <3>2, Zenon DEF LogicalRead
    <3>4. schema.type # "union"
      OBVIOUS
    <3>. QED  BY <1>9, <1>10, <2>3, <3>3, <3>4, Zenon DEF ConvertBody
  <2>. QED  BY <2>1, <2>2, <2>3
<1>13. Writable[schema][data]
  <2>1. Writable[schema][data] = WritableBody(Writable, schema, data)
    BY <1>2, WritableIs
  <2>2. schema.type # "union"
    OBVIOUS
  <2>3. CASE schema.logical # ""
    BY <1>4, <2>1, <2>2, <2>3, Zenon DEF WritableBody
  <2>4. CASE schema.logical = ""
    <3>1. Fits(schema, data)
      BY <1>4, <2>4, Zenon DEF Fits
    <3>. QED  BY <2>1, <2>2, <2>4, <3>1, Zenon DEF WritableBody
  <2>. QED  BY <2>3, <2>4
<1>14. Writes[schema][data] = data
  <2>1. Writes[schema][data] = WritesBody(Writes, schema, data)
    BY <1>2, WritesIs
  <2>2. schema.type # "union"
    OBVIOUS
  <2>. QED  BY <2>1, <2>2, Zenon DEF WritesBody
<1>. QED  BY <1>7, <1>12, <1>13, <1>14, Zenon DEF IsSame, x

\* A record, an array or a map of data that are kept.
LEMMA ItemsAreKept ==
  ASSUME NEW n \in 0..MaxDepth, NEW schema \in Shallow(n), schema.type \in {"record", "array", "map"},
         \A i \in DOMAIN schema.parts : Keeps(Part(schema.parts[i]))
  PROVE  Keeps(schema)
<1>. SUFFICES ASSUME NEW data \in AvroData(schema) PROVE IsSame(schema, data)
  BY DEF Keeps
<1>1. schema \in AvroSchemas /\ schema.logical = "" /\ schema.type \notin {"union", "bytes", "fixed"}
  BY PartsAre DEF IsSchema
<1>2. data \in AnyValue /\ IsDataOf(schema, data)
  BY <1>1, CopiesAssumption
<1>3. MaxDepth \in 1..MaxDepth /\ data \in ValuesTo[MaxDepth]
  BY <1>2, ValuesAre DEF AnyValue
<1>4. /\ data.branch = "" /\ HasItems(schema, data)
      /\ schema.type = "record" => Keys(data) = Names(schema)
      /\ \A i \in DOMAIN data.items :
           data.items[i][2] \in AvroData(ItemSchema(schema, data.items[i][1]))
  BY <1>1, <1>2 DEF IsDataOf
<1>5. data.py \in {"dict", "list"} /\ data.py \in JsonTypes
  BY <1>4 DEF HasItems, JsonTypes
<1>. DEFINE Name(i) == data.items[i][1]
            Of(i) == ItemSchema(schema, data.items[i][1])
            item(i) == data.items[i][2]
<1>6. ASSUME NEW i \in DOMAIN data.items
      PROVE  /\ IsSame(Of(i), item(i))
             /\ schema.type = "record" => Name(i) \in Names(schema)
             /\ data.items[i] = <<Name(i), item(i)>>
  <2>1. schema.type = "record" => Name(i) \in Names(schema)
    <3>1. Name(i) \in Keys(data)
      BY DEF Keys
    <3>. QED  BY <1>4, <3>1
  <2>. DEFINE name == Name(i)
  <2>. HIDE DEF name
  <2>2. PICK j \in DOMAIN schema.parts : ItemSchema(schema, name) = Part(schema.parts[j])
    BY <2>1, ItemSchemaIs DEF name
  <2>3. Keeps(Of(i))
    BY <2>2 DEF name
  <2>4. item(i) \in AvroData(Of(i))
    BY <1>4
  <2>5. data.items[i] = <<Name(i), item(i)>>
    BY <1>3, AvroValueIs, Zenon
  <2>. QED  BY <2>1, <2>3, <2>4, <2>5, Zenon DEF Keeps
<1>. DEFINE r == ReadsAvro[data]
            x == ShownAs[r]
<1>7. /\ r \in AnyValue /\ r.py = data.py /\ r.form = data.form /\ r.v = data.v
      /\ r = Remade(data, data.py, "", r.items)
      /\ DOMAIN r.items = DOMAIN data.items
      /\ \A i \in DOMAIN data.items : r.items[i] = <<Name(i), ReadsAvro[item(i)]>>
  BY <1>2, ReadIs, Zenon
<1>. HIDE DEF r
<1>8. /\ x \in AnyValue /\ x.py = data.py /\ x.form = data.form /\ x.v = data.v
      /\ DOMAIN x.items = DOMAIN data.items
      /\ \A i \in DOMAIN data.items : x.items[i] = <<Name(i), ShownAs[ReadsAvro[item(i)]]>>
  <2>. DEFINE items == [i \in DOMAIN r.items |-> <<r.items[i][1], ShownAs[r.items[i][2]]>>]
  <2>1. DOMAIN items = DOMAIN data.items
    BY <1>7
  <2>2. \A i \in DOMAIN data.items : items[i] = <<Name(i), ShownAs[ReadsAvro[item(i)]]>>
    <3>. TAKE i \in DOMAIN data.items
    <3>. HIDE DEF Name, item
    <3>1. r.items[i] = <<Name(i), ReadsAvro[item(i)]>> /\ i \in DOMAIN r.items
      BY <1>7
    <3>2. r.items[i][1] = Name(i) /\ r.items[i][2] = ReadsAvro[item(i)]
      BY <3>1
    <3>. QED  BY <3>1, <3>2
  <2>. HIDE DEF items
  <2>3. x = OnItems(r, ShownAs)
    <3>1. r \in ValuesTo[MaxDepth] /\ r.py \in JsonTypes
      BY <1>5, <1>7, Zenon DEF AnyValue
    <3>. QED  BY <1>3, <3>1, ShownAsIs, Zenon
  <2>4. x = Remade(r, r.py, "", items)
    BY <2>3, Zenon DEF OnItems, Holding, items
  <2>5. x.py = r.py /\ x.form = r.form /\ x.v = r.v /\ x.items = items
    <3>. HIDE DEF x
    <3>. QED  BY <2>4 DEF Remade
  <2>6. x \in AnyValue
    BY <1>7, ShownKinds
  <2>. QED  BY <1>7, <2>1, <2>2, <2>5, <2>6, Zenon
<1>. HIDE DEF x
<1>. HIDE DEF Name, Of, item
<1>9. Convert[schema][x] = r
  <2>1. Convert[schema][x] = ConvertBody(Convert, schema, x)
    BY <1>1, <1>8, ConvertIs
  <2>2. LogicalRead(schema, x) = x
    BY <1>1, Zenon DEF LogicalRead
  <2>3. HasItems(schema, x)
    BY <1>4, <1>8, Zenon DEF HasItems
  <2>4. Convert[schema][x] = ConvertedItems(Convert, schema, x)
    BY <1>1, <2>1, <2>2, <2>3, Zenon DEF ConvertBody
  <2>. DEFINE items == [i \in DOMAIN x.items |-> <<x.items[i][1], ConvertedItem(Convert, schema, x, i)>>]
  <2>5. ASSUME NEW i \in DOMAIN data.items
        PROVE  <<x.items[i][1], ConvertedItem(Convert, schema, x, i)>> = r.items[i]
    <3>1. x.items[i] = <<Name(i), ShownAs[ReadsAvro[item(i)]]>>
      BY <1>8
    <3>2. x.items[i][1] = Name(i) /\ x.items[i][2] = ShownAs[ReadsAvro[item(i)]]
      BY <3>1
    <3>3. ConvertedItem(Convert, schema, x, i) = Convert[ItemSchema(schema, Name(i))][ShownAs[ReadsAvro[item(i)]]]
      BY <1>6, <3>2, Zenon DEF ConvertedItem
    <3>4. ConvertedItem(Convert, schema, x, i) = ReadsAvro[item(i)]
      BY <1>6, <3>3, Zenon DEF IsSame, Of, Name
    <3>. QED  BY <1>7, <3>2, <3>4, Zenon
  <2>6. items = [i \in DOMAIN data.items |-> r.items[i]]
    BY <1>8, <2>5, Zenon
  <2>7. r.items = [i \in DOMAIN data.items |-> r.items[i]]
    <3>1. r.items \in Seq(Texts \X ValuesTo[MaxDepth - 1])
      BY <1>3, <1>7, AvroValueIs DEF AnyValue
    <3>. DEFINE S == Texts \X ValuesTo[MaxDepth - 1]
    <3>. HIDE DEF S
    <3>2. r.items \in Seq(S)
      BY <3>1 DEF S
    <3>3. r.items = [i \in DOMAIN r.items |-> r.items[i]]
      BY <3>2
    <3>. QED  BY <1>7, <3>3, Zenon
  <2>. HIDE DEF items
  <2>8. ConvertedItems(Convert, schema, x) = Remade(x, x.py, "", r.items)
    BY <2>6, <2>7, Zenon DEF ConvertedItems, Holding, items
  <2>9. Remade(x, x.py, "", r.items) = Remade(data, data.py, "", r.items)
    BY <1>8, Zenon DEF Remade
  <2>. QED  BY <1>7, <2>4, <2>8, <2>9, Zenon
<1>10. Fits(schema, r)
  <2>1. CASE schema.type = "record"
    <3>1. Keys(r) = Keys(data)
      <4>1. \A i \in DOMAIN data.items : r.items[i][1] = data.items[i][1]
        <5>. TAKE i \in DOMAIN data.items
        <5>1. r.items[i] = <<Name(i), ReadsAvro[item(i)]>>
          BY <1>7
        <5>2. r.items[i][1] = Name(i)
          BY <5>1
        <5>. QED  BY <5>2 DEF Name
      <4>. QED  BY <1>7, <4>1 DEF Keys
    <3>2. r.py = "dict"
      BY <1>4, <1>7, <2>1 DEF HasItems
    <3>3. Required(schema) \subseteq Names(schema)
      BY DEF Required, Names
    <3>4. Keys(r) = Names(schema)
      BY <1>4, <2>1, <3>1
    <3>. QED  BY <2>1, <3>2, <3>3, <3>4 DEF Fits
  <2>2. CASE schema.type # "record"
    <3>1. r.py \in BasePy(schema.type)
      BY <1>4, <1>7, <2>2 DEF HasItems, BasePy
    <3>. QED  BY <3>1, Zenon DEF Fits
  <2>. QED  BY <2>1, <2>2
<1>11. \A i \in DOMAIN r.items :
         /\ ItemSchema(schema, r.items[i][1]) = Of(i) /\ r.items[i][2] = ReadsAvro[item(i)]
         /\ r.items[i][1] = Name(i)
  <2>. TAKE i \in DOMAIN r.items
  <2>1. r.items[i] = <<Name(i), ReadsAvro[item(i)]>> /\ i \in DOMAIN data.items
    BY <1>7
  <2>2. r.items[i][1] = Name(i) /\ r.items[i][2] = ReadsAvro[item(i)]
    BY <2>1
  <2>. QED  BY <2>2, Zenon DEF Of, Name
<1>12. Writable[schema][r]
  <2>1. Writable[schema][r] = WritableBody(Writable, schema, r)
    BY <1>1, <1>7, WritableIs
  <2>2. \A i \in DOMAIN r.items : Writable[ItemSchema(schema, r.items[i][1])][r.items[i][2]]
    BY <1>6, <1>7, <1>11, Zenon DEF IsSame
  <2>. QED  BY <1>1, <1>10, <2>1, <2>2, Zenon DEF WritableBody
<1>13. Writes[schema][r] = data
  <2>1. Writes[schema][r] = WritesBody(Writes, schema, r)
    BY <1>1, <1>7, WritesIs
  <2>2. Writes[schema][r] = WrittenItems(Writes, schema, r)
    BY <1>1, <1>10, <2>1, Zenon DEF WritesBody
  <2>. DEFINE items == [i \in DOMAIN r.items |->
                          <<r.items[i][1], Writes[ItemSchema(schema, r.items[i][1])][r.items[i][2]]>>]
  <2>3. ASSUME NEW i \in DOMAIN data.items
        PROVE  <<r.items[i][1], Writes[ItemSchema(schema, r.items[i][1])][r.items[i][2]]>> = data.items[i]
    <3>1. Writes[ItemSchema(schema, r.items[i][1])][r.items[i][2]] = item(i)
      BY <1>6, <1>7, <1>11, Zenon DEF IsSame
    <3>. QED  BY <1>6, <1>7, <1>11, <3>1, Zenon
  <2>4. items = [i \in DOMAIN data.items |-> data.items[i]]
    BY <1>7, <2>3, Zenon
  <2>5. data.items = [i \in DOMAIN data.items |-> data.items[i]]
    <3>1. data.items \in Seq(Texts \X ValuesTo[MaxDepth - 1])
      BY <1>3, AvroValueIs
    <3>. DEFINE S == Texts \X ValuesTo[MaxDepth - 1]
    <3>. HIDE DEF S
    <3>2. data.items \in Seq(S)
      BY <3>1 DEF S
    <3>. QED  BY <3>2
  <2>. HIDE DEF items
  <2>6. WrittenItems(Writes, schema, r) = Remade(r, r.py, "", data.items)
    BY <2>4, <2>5, Zenon DEF WrittenItems, Holding, items
  <2>7. Remade(r, r.py, "", data.items) = Remade(data, data.py, data.branch, data.items)
    BY <1>4, <1>7, Zenon DEF Remade
  <2>8. data = Remade(data, data.py, data.branch, data.items)
    BY <1>3, AvroValueIs, Zenon
  <2>. QED  BY <2>2, <2>6, <2>7, <2>8, Zenon
<1>. QED  BY <1>9, <1>12, <1>13, Zenon DEF IsSame, r, x

\* A union of data that are kept, with branches that are told apart: an
\* earlier branch that fits would take what is shown of this one.
LEMMA UnionsAreKept ==
  ASSUME NEW n \in 0..MaxDepth, NEW schema \in Shallow(n), schema.type = "union", Apart(schema),
         \A i \in DOMAIN schema.parts : Keeps(Part(schema.parts[i]))
  PROVE  Keeps(schema)
<1>. SUFFICES ASSUME NEW data \in AvroData(schema) PROVE IsSame(schema, data)
  BY DEF Keeps
<1>. DEFINE Branch(i) == Part(schema.parts[i])
<1>1. /\ schema \in AvroSchemas /\ schema.type \notin {"record", "array", "map"}
      /\ Len(schema.parts) \in Nat /\ DOMAIN schema.parts = 1..Len(schema.parts)
  BY PartsAre
<1>2. \A i \in DOMAIN schema.parts :
        /\ Branch(i) \in AvroSchemas /\ Branch(i).type # "union" /\ Branch(i).type \in TYPES
        /\ Branch(i).logical \in LOGICALS
        /\ Branch(i).logical # "" => Branch(i).type \in {"int", "long", "bytes", "fixed"}
  <2>. TAKE i \in DOMAIN schema.parts
  <2>1. Branch(i) \in AvroSchemas /\ Branch(i).type # "union"
    BY PartsAre DEF IsSchema
  <2>2. Branch(i) \in Shallow(MaxDepth) /\ MaxDepth \in 0..MaxDepth
    BY <2>1, ShallowAre, ValuesAre
  <2>. DEFINE part == Branch(i)
  <2>. HIDE DEF part
  <2>3. /\ part.type \in TYPES /\ part.logical \in LOGICALS
        /\ part.logical # "" => part.type \in {"int", "long", "bytes", "fixed"}
    BY <2>2, PartsAre DEF IsSchema, part
  <2>. QED  BY <2>1, <2>3 DEF part
<1>3. data \in AnyValue /\ IsDataOf(schema, data)
  BY <1>1, CopiesAssumption
<1>4. MaxDepth \in 1..MaxDepth /\ data \in ValuesTo[MaxDepth]
  BY <1>3, ValuesAre DEF AnyValue
<1>5. PICK j \in DOMAIN schema.parts :
        data.branch = schema.parts[j][1] /\ Branched(data, "") \in AvroData(Branch(j))
  BY <1>3 DEF IsDataOf
<1>. DEFINE e == Branched(data, "")
            r == ReadsAvro[data]
            x == ShownAs[r]
<1>6. e \in AnyValue /\ IsDataOf(Branch(j), e) /\ IsSame(Branch(j), e)
  <2>1. Branch(j) \in AvroSchemas /\ e \in AvroData(Branch(j)) /\ Keeps(Branch(j))
    BY <1>2, <1>5
  <2>. HIDE DEF e, Branch
  <2>2. e \in AnyValue /\ IsDataOf(Branch(j), e)
    BY <2>1, CopiesAssumption
  <2>. QED  BY <2>1, <2>2 DEF Keeps
<1>7. e.py = data.py /\ e.form = data.form /\ e.v = data.v /\ e.items = data.items
  BY DEF Branched, Remade
<1>. HIDE DEF e
<1>8. ReadsAvro[e] = r
  <2>1. OnItems(e, ReadsAvro) = OnItems(data, ReadsAvro)
    BY <1>7, Zenon DEF OnItems, Holding, Remade
  <2>2. ReadsAvro[data] = OnItems(data, ReadsAvro)
    BY <1>4, ReadsAvroIs, Zenon
  <2>3. ReadsAvro[e] = OnItems(e, ReadsAvro)
    BY <1>4, <1>6, ReadsAvroIs, Zenon DEF AnyValue
  <2>. QED  BY <2>1, <2>2, <2>3, Zenon
<1>9. Convert[Branch(j)][x] = r /\ Writable[Branch(j)][r] /\ Writes[Branch(j)][r] = e
  BY <1>6, <1>8, Zenon DEF IsSame
<1>10. r \in AnyValue /\ r.py = e.py /\ r.form = e.form
  BY <1>3, <1>7, ReadIs, Zenon
<1>. HIDE DEF r
<1>11. x \in AnyValue /\ x.py \in JsonTypes /\ Kinds(x) = Kinds(r)
  BY <1>10, ShownKinds
<1>. HIDE DEF x
<1>12. r.form \in Forms(r.py)
  <2>1. e.form \in Forms(e.py)
    BY <1>6 DEF IsDataOf
  <2>. QED  BY <1>10, <2>1
<1>13. Kinds(r) \subseteq Shows(Branch(j))
  <2>1. Kinds(e) \subseteq Shows(Branch(j))
    <3>. DEFINE part == Branch(j)
    <3>. HIDE DEF part
    <3>1. /\ part.type # "union" /\ part.type \in TYPES /\ part.logical \in LOGICALS
          /\ part.logical # "" => part.type \in {"int", "long", "bytes", "fixed"}
          /\ IsDataOf(part, e)
      BY <1>2, <1>6 DEF part
    <3>2. Kinds(e) \subseteq Shows(part)
      BY <3>1, DataShows
    <3>. QED  BY <3>2 DEF part
  <2>2. Kinds(r) = Kinds(e)
    BY <1>10, Zenon DEF Kinds
  <2>. QED  BY <2>1, <2>2
<1>14. \A i \in DOMAIN schema.parts : i < j => Kinds(r) \cap Takes(Branch(i)) = {}
  <2>. TAKE i \in DOMAIN schema.parts
  <2>. HAVE i < j
  <2>1. Takes(Branch(i)) \cap Shows(Branch(j)) = {}
    BY Zenon DEF Apart
  <2>. HIDE DEF Branch
  <2>. QED  BY <1>13, <2>1
<1>. HIDE DEF Branch
<1>15. Convert[schema][x] = r
  <2>. DEFINE S == Fitting(Convert, schema, x)
  <2>1. S \in SUBSET (1..Len(schema.parts))
    BY <1>1 DEF Fitting
  <2>2. j \in S
    <3>1. Fits(Branch(j), r)
      BY <1>2, <1>9, <1>10, <1>12, WritableIsTaken
    <3>. QED  BY <1>9, <3>1 DEF Fitting, Branch
  <2>3. \A i \in S : ~(i < j)
    <3>. SUFFICES ASSUME NEW i \in S, i < j PROVE FALSE
      OBVIOUS
    <3>1. i \in DOMAIN schema.parts /\ Fits(Branch(i), Convert[Branch(i)][x])
      BY DEF Fitting, Branch
    <3>2. Kinds(x) \cap Takes(Branch(i)) # {}
      BY <1>2, <1>11, <3>1, ConvertedIsTaken
    <3>. QED  BY <1>11, <1>14, <3>1, <3>2
  <2>. HIDE DEF S
  <2>4. Min(S) = j
    <3>1. Min(S) \in S /\ \A i \in S : Min(S) <= i
      BY <1>1, <2>1, <2>2, MinOf
    <3>. QED  BY <1>1, <2>1, <2>2, <2>3, <3>1
  <2>5. ChosenBranch(Convert, schema, x) = r
    <3>1. S # {}
      BY <2>2
    <3>. QED  BY <1>9, <2>4, <3>1, Zenon DEF ChosenBranch, S, Branch
  <2>6. Convert[schema][x] = ConvertBody(Convert, schema, x)
    BY <1>1, <1>11, ConvertIs
  <2>7. ~HasItems(schema, LogicalRead(schema, x)) /\ schema.type \notin {"bytes", "fixed"}
    BY DEF HasItems
  <2>. QED  BY <2>5, <2>6, <2>7, Zenon DEF ConvertBody
<1>16. Writable[schema][r]
  <2>1. Writable[schema][r] = WritableBody(Writable, schema, r)
    BY <1>1, <1>10, WritableIs
  <2>2. \E i \in DOMAIN schema.parts : Writable[Part(schema.parts[i])][r]
    BY <1>9, Zenon DEF Branch
  <2>3. schema.logical = ""
    BY PartsAre DEF IsSchema
  <2>. QED  BY <1>1, <2>1, <2>2, <2>3, Zenon DEF WritableBody
<1>17. Writes[schema][r] = data
  <2>. DEFINE S == Valid(schema, r)
  <2>1. S \in SUBSET (1..Len(schema.parts))
    BY <1>1 DEF Valid
  <2>2. j \in S
    BY <1>9 DEF Valid, Branch
  <2>3. \A i \in S : ~(i < j)
    <3>. SUFFICES ASSUME NEW i \in S, i < j PROVE FALSE
      OBVIOUS
    <3>1. i \in DOMAIN schema.parts /\ Writable[Branch(i)][r]
      BY DEF Valid, Branch
    <3>2. Kinds(r) \cap Takes(Branch(i)) # {}
      BY <1>2, <1>10, <1>12, <3>1, WritableIsTaken
    <3>. QED  BY <1>14, <3>1, <3>2
  <2>. HIDE DEF S
  <2>4. Min(S) = j /\ S # {}
    <3>1. Min(S) \in S /\ \A i \in S : Min(S) <= i
      BY <1>1, <2>1, <2>2, MinOf
    <3>. QED  BY <1>1, <2>1, <2>2, <2>3, <3>1
  <2>5. WrittenAs(Writes, schema, r) = Branched(e, data.branch)
    BY <1>5, <1>9, <2>4, Zenon DEF WrittenAs, S, Branch
  <2>6. Branched(e, data.branch) = data
    <3>1. Branched(e, data.branch) = Remade(data, data.py, data.branch, data.items)
      BY <1>7, Zenon DEF Branched, Remade
    <3>. QED  BY <1>4, <3>1, AvroValueIs, Zenon
  <2>7. Writes[schema][r] = WritesBody(Writes, schema, r)
    BY <1>1, <1>10, WritesIs
  <2>. QED  BY <1>1, <2>4, <2>5, <2>6, <2>7, Zenon DEF WritesBody, S
<1>. QED  BY <1>15, <1>16, <1>17, Zenon DEF IsSame, r, x

LEMMA ToldIsKept ==
  \A schema \in AvroSchemas : BranchesTold[schema] => Keeps(schema)
<1>. DEFINE T == {n \in 0..MaxDepth : \A schema \in Shallow(n) : BranchesTold[schema] => Keeps(schema)}
<1>0. MaxDepth \in Nat \ {0} /\ 0 \in 0..MaxDepth
  BY ValuesAre
<1>1. 0 \in T
  BY <1>0, ShallowAre
<1>2. ASSUME NEW n \in 1..MaxDepth, n - 1 \in T PROVE n \in T
  <2>1. n \in 0..MaxDepth
    BY <1>0
  <2>2. ASSUME NEW schema \in Shallow(n), BranchesTold[schema] PROVE Keeps(schema)
    <3>1. schema \in AvroSchemas /\ \A i \in DOMAIN schema.parts : Part(schema.parts[i]) \in Shallow(n - 1)
      BY <2>1, PartsAre
    <3>2. Apart(schema) /\ \A i \in DOMAIN schema.parts : BranchesTold[Part(schema.parts[i])]
      BY <2>2, <3>1, BranchesToldIs
    <3>3. \A i \in DOMAIN schema.parts : Keeps(Part(schema.parts[i]))
      BY <1>2, <3>1, <3>2
    <3>4. CASE schema.type = "union"
      BY <2>1, <3>2, <3>3, <3>4, UnionsAreKept
    <3>5. CASE schema.type \in {"record", "array", "map"}
      BY <2>1, <3>3, <3>5, ItemsAreKept
    <3>6. CASE schema.type \notin {"union", "record", "array", "map"}
      BY <3>1, <3>6, LeavesAreKept
    <3>. QED  BY <3>4, <3>5, <3>6
  <2>. QED  BY <2>1, <2>2
<1>. HIDE DEF T
<1>3. MaxDepth \in T
  BY <1>0, <1>1, <1>2, UpTo
<1>. QED  BY <1>3, ShallowAre DEF T

\* A Key or Value of Avro that is copied from the consumer and produced again
\* is the same data, at any depth, where the shown forms tell the branches of
\* every union apart; and bytes shown escaped are read back as they were.
THEOREM CopiesStayTheSame == CopySpec => []CopiesAreTheSame
<1>1. CopyInit => CopiesAreTheSame
  <2>1. NoCopy.produced = NoCopy.data /\ NoCopy.again = NoCopy.bytes
    BY DEF NoCopy
  <2>. QED  BY <2>1, Zenon DEF CopyInit, CopiesAreTheSame
<1>2. CopiesAreTheSame /\ [CopyNext]_copy => CopiesAreTheSame'
  <2>. SUFFICES ASSUME CopiesAreTheSame, [CopyNext]_copy PROVE CopiesAreTheSame'
    OBVIOUS
  <2>1. CASE CopyAvro
    <3>. DEFINE Produced(schema, data) == EncodeAvro(schema, ShownAs[ReadsAvro[data]])
    <3>0. PICK schema \in AvroSchemas : \E data \in AvroData(schema) :
            copy' = [NoCopy EXCEPT !.schema = schema, !.data = data, !.produced = Produced(schema, data)]
      BY <2>1 DEF CopyAvro
    <3>. HIDE DEF Produced
    <3>1. PICK data \in AvroData(schema) :
            /\ copy'.schema = schema /\ copy'.data = data
            /\ copy'.produced = Produced(schema, data)
            /\ copy'.bytes = <<>> /\ copy'.again = <<>>
      BY <3>0 DEF NoCopy
    <3>2. BranchesTold[schema] => copy'.produced = data
      <4>. SUFFICES ASSUME BranchesTold[schema] PROVE copy'.produced = data
        OBVIOUS
      <4>1. IsSame(schema, data)
        BY ToldIsKept DEF Keeps
      <4>. QED  BY <3>1, <4>1, Zenon DEF IsSame, EncodeAvro, Produced
    <3>. QED  BY <3>1, <3>2 DEF CopiesAreTheSame
  <2>2. CASE CopyBytes
    <3>1. PICK bytes \in ByteStrings :
            /\ copy'.schema = NoCopy.schema /\ copy'.data = NoDatum /\ copy'.produced = NoDatum
            /\ copy'.bytes = bytes /\ copy'.again = Unescaped(Escaped(bytes))
      BY <2>2 DEF CopyBytes, NoCopy
    <3>2. bytes \in Seq(BYTES)
      BY CopiesAssumption
    <3>3. copy'.again = bytes
      BY <3>1, <3>2, EscapesAreReadBack
    <3>. QED  BY <3>1, <3>3 DEF CopiesAreTheSame
  <2>3. CASE UNCHANGED copy
    BY <2>3 DEF CopiesAreTheSame
  <2>. QED  BY <2>1, <2>2, <2>3 DEF CopyNext
<1>. QED  BY <1>1, <1>2, PTL DEF CopySpec

=============================================================================

-------------------------- MODULE SchemaResolution --------------------------
(***************************************************************************)
(* How the producer finds or registers the Registry schemas of a record's  *)
(* fields: resolve_schemas() of kaskade/producer/composer.py, and under it *)
(* RegistrySerializer and ApicurioSchemaResolver of                        *)
(* kaskade/serializers/registry.py and ApicurioSchemas of                  *)
(* kaskade/schemas/apicurio.py, which recur over the references between    *)
(* schemas and ask RegistryClient for everything.                          *)
(*                                                                         *)
(* One thread runs at a time; its calls are frames, the top one first.     *)
(* The ids are content ids.  A schema is read as for Avro; closing the     *)
(* composer is RecordDelivery's subject.                                   *)
(***************************************************************************)
EXTENDS RegistryClient

CONSTANTS
  Setups,       \* options and registries to begin with
  Artifacts,    \* the names of the registry's artifacts
  Docs,         \* the schemas' contents
  DocRefs,      \* the documents a local document refers to, in order
  TypeTold,     \* per content: what the answer with it, or it itself, tells of its type
  ArtifactType, \* the types of the registry's artifacts
  PageSize,     \* the limit of /search/versions
  MaxLookups,   \* bound: how often resolve_schemas() is started
  MaxTroubles,  \* bound: how often something goes wrong, or on, around it
  NoDoc, None

VARIABLES
  setup,       \* per field: its artifact, local document and version; the registry to
               \* begin with, and the artifacts others publish to; never changes
  pending,     \* the fields the loop of resolve_schemas() has still to do
  lookups,     \* how often it was started
  frames,      \* the calls of the lookup thread
  visited,     \* the references a schema's reading has met
  collected,   \* the contents it has gathered
  cache,       \* ApicurioClient._cache
  registered,  \* ApicurioSchemaResolver._registered
  parsed,      \* ApicurioSchemas._avro: per content id, what it was parsed with
  resolved,    \* per field: RegistrySerializer._resolved
  problem,     \* per field: RegistrySerializer._problem
  troubles     \* how often something went wrong, or on, around the lookup

walk == <<visited, collected>>
kept == <<cache, registered, parsed>>
composer == <<pending, lookups, resolved, problem>>
vars == <<clientVars, setup, composer, frames, walk, kept, troubles>>

FIELDS == <<"key", "value">>
Field == {"key", "value"}

Reference == [artifact : Artifacts, version : Nat \ {0}]
Content == [doc : Docs, refs : Seq(Reference)]
LogEntry == [artifact : Artifacts, id : Nat, at : Nat]
Answered == [version : Nat, id : Nat]

\* What get_artifact() knows of a type: nothing yet, or whether SchemaType has it.
Typed == {"untold", "supported", "unsupported"}

\* A registry before the start.
GivenRegistry(r) ==
  /\ r \in [contents : Seq(Content), log : Seq(LogEntry)]
  /\ \A i \in DOMAIN r.log : r.log[i].id \in DOMAIN r.contents /\ r.log[i].at = 0

\* A SchemaDocument is immutable and has those it refers to in it, so that
\* following them comes to an end.
ASSUME DocumentsAreTrees ==
  \A some \in SUBSET Docs : some # {} => \E d \in some : ToSet(DocRefs[d]) \cap some = {}

ASSUME ResolutionAssumption ==
  /\ NoDoc \notin Docs
  /\ None \notin Reference \cup Content \cup Answered
  /\ Docs \subseteq Artifacts
  /\ DocRefs \in [Docs -> Seq(Docs)]
  /\ TypeTold \in [Docs -> Typed]
  /\ PageSize \in Nat \ {0}
  /\ \A s \in Setups :
       /\ s.artifact \in [Field -> Artifacts]
       /\ s.document \in [Field -> Docs \cup {NoDoc}]
       /\ s.version \in [Field -> Nat]
       /\ s.others \subseteq Artifacts
       /\ GivenRegistry(s.registry)

is_resolving == pending # <<>>
Idle == request.phase = "idle"

Init ==
  /\ setup \in Setups
  /\ registry = setup.registry
  /\ ClientInit
  /\ pending = FIELDS /\ lookups = 1
  /\ frames = <<>>
  /\ visited = {} /\ collected = <<>>
  /\ cache = <<>>
  /\ registered = <<>> /\ parsed = <<>>
  /\ resolved = [f \in Field |-> None]
  /\ problem = [f \in Field |-> "none"]
  /\ troubles = 0
----------------------------------------------------------------------------
(* Calls.                                                                  *)

Top == Head(frames)
Running(op) == frames # <<>> /\ Top.op = op

Call(frame) == frames' = <<frame>> \o frames
Update(frame) == frames' = <<frame>> \o Tail(frames)

SchemaType == {"AVRO", "JSON", "PROTOBUF"}

\* The artifacts of the versions found all have one type.
TypeOf(versions) ==
  IF \E type \in SchemaType :
       versions # <<>> /\ \A v \in ToSet(versions) : ArtifactType[v.artifact] = type
  THEN "supported" ELSE "unsupported"

\* What a caller does with the value its call returns.
Resumed(frame, value) ==
  CASE frame.op = "register" -> [frame EXCEPT !.got = Append(@, value.version)]
    [] frame.op = "artifact" -> [frame EXCEPT !.typed = TypeOf(value)]
    [] frame.op = "collect" /\ frame.found = None -> [frame EXCEPT !.found = value]
    [] frame.op = "collect" /\ frame.found # None -> [frame EXCEPT !.found = None, !.next = @ + 1]
    [] frame.op = "resolve" /\ frame.version = None -> [frame EXCEPT !.version = value]
    [] frame.op = "resolve" /\ frame.version # None -> [frame EXCEPT !.artifact = value]

Return(value) == frames' = <<Resumed(frames[2], value)>> \o Tail(Tail(frames))

\* What is raised becomes the problem of the field that is looked up.
Fail(reason) ==
  /\ frames' = <<>>
  /\ pending' = Tail(pending)
  /\ problem' = [problem EXCEPT ![Head(pending)] = reason]
  /\ UNCHANGED <<setup, lookups, resolved, walk, kept>>

TakeAnswer == Done /\ UNCHANGED <<registry, now, token, reply>>

\* A dictionary with one more entry, or another value in it.
Entered(dict, key, value) ==
  [k \in DOMAIN dict \cup {key} |-> IF k = key THEN value ELSE dict[k]]

RegisterCall(artifact, doc) ==
  [op |-> "register", artifact |-> artifact, doc |-> doc, got |-> <<>>]
VersionCall(artifact, version) ==
  [op |-> "version", artifact |-> artifact, version |-> version]
ArtifactCall(source) ==
  [op |-> "artifact", source |-> source, doc |-> NoDoc, typed |-> "untold"]
MetadataCall(id) == [op |-> "metadata", id |-> id, values |-> <<>>]
CollectCall(ref, content) ==
  [op |-> "collect", ref |-> ref, doc |-> content.doc, refs |-> content.refs,
   next |-> 1, found |-> None]
----------------------------------------------------------------------------
(* The composer, and RegistrySerializer.resolve().                         *)

\* action_produce() with a schema missing tries the lookup again.
Produce ==
  /\ ~is_resolving
  /\ \E f \in Field : resolved[f] = None
  /\ lookups < MaxLookups
  /\ lookups' = lookups + 1
  /\ pending' = FIELDS
  /\ UNCHANGED <<clientVars, setup, resolved, problem, frames, walk, kept>>

NeedsSchema(f) == resolved[f] = None

\* resolve(): a local document is registered, any other field's schema is
\* the latest or the chosen version of its artifact.
NextField ==
  /\ is_resolving /\ frames = <<>>
  /\ LET f == Head(pending) IN
     IF NeedsSchema(f)
     THEN /\ frames' = <<IF setup.document[f] # NoDoc
                         THEN RegisterCall(setup.artifact[f], setup.document[f])
                         ELSE VersionCall(setup.artifact[f], setup.version[f]),
                         [op |-> "resolve", field |-> f, version |-> None, artifact |-> None]>>
          /\ UNCHANGED pending
     ELSE pending' = Tail(pending) /\ UNCHANGED frames
  /\ UNCHANGED <<clientVars, setup, lookups, resolved, problem, walk, kept>>

\* A request that failed ends the lookup of its field.
Raise ==
  /\ frames # <<>>
  /\ request.phase = "failed"
  /\ TakeAnswer
  /\ Fail(reply.failure)

\* get_artifact() with the version's content id.
ReadArtifact ==
  /\ Running("resolve") /\ Idle
  /\ Top.artifact = None
  /\ Call(ArtifactCall([id |-> Top.version.id]))
  /\ UNCHANGED <<clientVars, setup, composer, walk, kept>>

\* avro_schema(): what was parsed before is not read again.
ReadSchema ==
  /\ Running("resolve") /\ Idle
  /\ Top.artifact # None
  /\ Top.version.id \notin DOMAIN parsed
  /\ Call(CollectCall(None, Top.artifact))
  /\ visited' = {} /\ collected' = <<>>
  /\ UNCHANGED <<clientVars, setup, composer, kept>>

Resolve ==
  /\ Running("resolve") /\ Idle
  /\ Top.artifact # None
  /\ Top.version.id \in DOMAIN parsed
  /\ resolved' = [resolved EXCEPT ![Top.field] =
       [version |-> Top.version.version, id |-> Top.version.id, doc |-> Top.artifact.doc,
        contents |-> parsed[Top.version.id]]]
  /\ problem' = [problem EXCEPT ![Top.field] = "none"]
  /\ frames' = <<>>
  /\ pending' = Tail(pending)
  /\ UNCHANGED <<clientVars, setup, lookups, walk, kept>>
----------------------------------------------------------------------------
(* _register() and _version()                                              *)

\* A defect, of Registration: a document is registered once, wherever it goes.
RegistrationAnywhere(artifact, doc) == doc

\* The key of _registered.
Registration(artifact, doc) == <<artifact, doc>>

\* A reference is an artifact of its own, named after the document.
References(doc, got) ==
  [i \in 1..Len(DocRefs[doc]) |-> [artifact |-> DocRefs[doc][i], version |-> got[i]]]

\* A defect, of CreateVersion: the registry's default, a version per request.
CreateVersionAlways(frame) ==
  [kind |-> "create", artifact |-> frame.artifact, doc |-> frame.doc,
   refs |-> References(frame.doc, frame.got), ifExists |-> "CREATE_VERSION"]

CreateVersion(frame) ==
  [kind |-> "create", artifact |-> frame.artifact, doc |-> frame.doc,
   refs |-> References(frame.doc, frame.got), ifExists |-> "FIND_OR_CREATE_VERSION"]

Register ==
  /\ Running("register") /\ Idle
  /\ LET key == Registration(Top.artifact, Top.doc)
         next == Len(Top.got) + 1
     IN
     \/ /\ key \in DOMAIN registered
        /\ Return(registered[key])
        /\ UNCHANGED clientVars
     \/ /\ key \notin DOMAIN registered
        /\ next <= Len(DocRefs[Top.doc])
        /\ Call(RegisterCall(DocRefs[Top.doc][next], DocRefs[Top.doc][next]))
        /\ UNCHANGED clientVars
     \/ /\ key \notin DOMAIN registered
        /\ next > Len(DocRefs[Top.doc])
        /\ Begin(CreateVersion(Top))
        /\ UNCHANGED frames
  /\ UNCHANGED <<setup, composer, walk, kept>>

Registered ==
  /\ Running("register") /\ request.phase = "answered"
  /\ TakeAnswer
  /\ registered' = Entered(registered, Registration(Top.artifact, Top.doc), reply)
  /\ Return(reply)
  /\ UNCHANGED <<setup, composer, walk, cache, parsed>>

VersionKey(frame) ==
  [kind |-> "version", artifact |-> frame.artifact, version |-> frame.version]

GetVersion ==
  /\ Running("version") /\ Idle
  /\ cache' = Looked(cache, VersionKey(Top))
  /\ IF Valid(cache, VersionKey(Top))
     THEN Return(ItemOf(cache, VersionKey(Top)).value) /\ UNCHANGED clientVars
     ELSE /\ Begin([kind |-> "version", artifact |-> Top.artifact, version |-> Top.version])
          /\ UNCHANGED frames
  /\ UNCHANGED <<setup, composer, walk, registered, parsed>>

GotVersion ==
  /\ Running("version") /\ request.phase = "answered"
  /\ TakeAnswer
  /\ cache' = Stored(cache, VersionKey(Top), reply)
  /\ Return(reply)
  /\ UNCHANGED <<setup, composer, walk, registered, parsed>>
----------------------------------------------------------------------------
(* get_artifact() and get_referenced_artifact(): the content, its type,    *)
(* then its references; kept when all are there.                           *)

ByReference(frame) == "artifact" \in DOMAIN frame.source

\* Whoever names an artifact knows its type; for an id the answer or the
\* content tells it, or else the artifacts that have it.
TypeToldOf(frame, doc) == IF ByReference(frame) THEN "supported" ELSE TypeTold[doc]

GetContent ==
  /\ Running("artifact") /\ Idle
  /\ Top.doc = NoDoc
  /\ cache' = Looked(cache, Top.source)
  /\ IF Valid(cache, Top.source)
     THEN Return(ItemOf(cache, Top.source).value) /\ UNCHANGED clientVars
     ELSE Begin([kind |-> "content", source |-> Top.source]) /\ UNCHANGED frames
  /\ UNCHANGED <<setup, composer, walk, registered, parsed>>

\* A defect, of GotContent: it is kept before its references are read.
GotContentKept ==
  /\ Running("artifact") /\ request.phase = "answered"
  /\ Top.doc = NoDoc
  /\ TakeAnswer
  /\ Update([Top EXCEPT !.doc = reply.doc, !.typed = TypeToldOf(Top, reply.doc)])
  /\ cache' = Stored(cache, Top.source, [doc |-> reply.doc, refs |-> <<>>])
  /\ UNCHANGED <<setup, composer, walk, registered, parsed>>

GotContent ==
  /\ Running("artifact") /\ request.phase = "answered"
  /\ Top.doc = NoDoc
  /\ TakeAnswer
  /\ Update([Top EXCEPT !.doc = reply.doc, !.typed = TypeToldOf(Top, reply.doc)])
  /\ UNCHANGED <<setup, composer, walk, kept>>

\* The versions with this content tell its type.
AskMetadata ==
  /\ Running("artifact") /\ Idle
  /\ Top.doc # NoDoc /\ Top.typed = "untold"
  /\ Call(MetadataCall(Top.source.id))
  /\ UNCHANGED <<clientVars, setup, composer, walk, kept>>

\* A type that SchemaType does not have, or none, ends the lookup.
RefuseType ==
  /\ Running("artifact") /\ Idle
  /\ Top.doc # NoDoc /\ Top.typed = "unsupported"
  /\ Fail("unsupported type")
  /\ UNCHANGED clientVars

GetReferences ==
  /\ Running("artifact") /\ Idle
  /\ Top.doc # NoDoc /\ Top.typed = "supported"
  /\ Begin([kind |-> "references", source |-> Top.source])
  /\ UNCHANGED <<setup, composer, frames, walk, kept>>

GotReferences ==
  /\ Running("artifact") /\ request.phase = "answered"
  /\ Top.doc # NoDoc
  /\ TakeAnswer
  /\ LET content == [doc |-> Top.doc, refs |-> reply.refs] IN
       cache' = Stored(cache, Top.source, content) /\ Return(content)
  /\ UNCHANGED <<setup, composer, walk, registered, parsed>>
----------------------------------------------------------------------------
(* get_metadata()                                                          *)

MetadataKey(frame) == [kind |-> "metadata", id |-> frame.id]

\* The loop begins with a look into the cache; offset counts the values.
Search ==
  /\ Running("metadata") /\ Idle
  /\ cache' = IF Top.values = <<>> THEN Looked(cache, MetadataKey(Top)) ELSE cache
  /\ IF Top.values = <<>> /\ Valid(cache, MetadataKey(Top))
     THEN Return(ItemOf(cache, MetadataKey(Top)).value.values) /\ UNCHANGED clientVars
     ELSE /\ Begin([kind |-> "search", id |-> Top.id, offset |-> Len(Top.values),
                  limit |-> PageSize])
          /\ UNCHANGED frames
  /\ UNCHANGED <<setup, composer, walk, registered, parsed>>

\* A defect, of LastPage: a page's own length is taken for the count.
FirstPageIsLast(offset, answer) == offset >= Len(answer.page)

\* A defect, of LastPage: one value more is waited for.
PagesForEver(offset, answer) == offset > answer.count

LastPage(offset, answer) ==
  \/ answer.page = <<>>
  \/ offset >= answer.count
  \/ Len(answer.page) < PageSize

Found ==
  /\ Running("metadata") /\ request.phase = "answered"
  /\ TakeAnswer
  /\ LET values == Top.values \o reply.page IN
     IF LastPage(Len(values), reply)
     THEN cache' = Stored(cache, MetadataKey(Top), [values |-> values]) /\ Return(values)
     ELSE Update([Top EXCEPT !.values = values]) /\ UNCHANGED cache
  /\ UNCHANGED <<setup, composer, walk, registered, parsed>>
----------------------------------------------------------------------------
(* _collect_contents()                                                     *)

Met(ref) == ref \in visited

Collect ==
  /\ Running("collect") /\ Idle
  /\ Top.found = None /\ Top.next <= Len(Top.refs)
  /\ LET ref == Top.refs[Top.next] IN
     IF Met(ref)
     THEN Update([Top EXCEPT !.next = @ + 1]) /\ UNCHANGED visited
     ELSE visited' = visited \cup {ref} /\ Call(ArtifactCall(ref))
  /\ UNCHANGED <<clientVars, setup, composer, collected, kept>>

Descend ==
  /\ Running("collect") /\ Idle
  /\ Top.found # None
  /\ Call(CollectCall(Top.refs[Top.next], Top.found))
  /\ UNCHANGED <<clientVars, setup, composer, walk, kept>>

Gathered(frame) == Append(collected, [ref |-> frame.ref, doc |-> frame.doc, refs |-> frame.refs])

CollectedAll == Top.found = None /\ Top.next > Len(Top.refs)

\* A reference's content follows those it refers to.
Collected ==
  /\ Running("collect") /\ Idle
  /\ CollectedAll /\ Top.ref # None
  /\ collected' = Gathered(Top)
  /\ Return("collected")
  /\ UNCHANGED <<clientVars, setup, composer, visited, kept>>

\* Each content comes after those it refers to.
InOrder(contents) ==
  \A i \in DOMAIN contents : \A ref \in ToSet(contents[i].refs) :
    \E j \in 1..(i - 1) : contents[j].ref = ref

\* With the schema's own call over it is parsed and kept.  parse_schema() knows
\* the names of what it was given before, no others.
Parse ==
  /\ Running("collect") /\ Idle
  /\ CollectedAll /\ Top.ref = None
  /\ IF InOrder(collected)
     THEN /\ parsed' = Entered(parsed, frames[2].version.id, collected)
          /\ frames' = Tail(frames)
          /\ UNCHANGED <<setup, composer, walk, cache, registered>>
     ELSE Fail("unparsed")
  /\ UNCHANGED clientVars
----------------------------------------------------------------------------
LookupStep ==
  \/ NextField \/ Raise \/ ReadArtifact \/ ReadSchema \/ Resolve
  \/ Register \/ Registered \/ GetVersion \/ GotVersion
  \/ GetContent \/ GotContent \/ AskMetadata \/ RefuseType
  \/ GetReferences \/ GotReferences
  \/ Search \/ Found \/ Collect \/ Descend \/ Collected \/ Parse

resolution == <<setup, composer, frames, walk, kept>>

ClientStep ==
  /\ FetchToken \/ Respond \/ Refuse
  /\ UNCHANGED <<resolution, troubles>>

\* What goes wrong, or on, around the lookup.  Time passes while a request
\* waits, or while nothing is looked up.
Trouble ==
  /\ troubles < MaxTroubles
  /\ troubles' = troubles + 1
  /\ \/ FailToken \/ Lose \/ Overload \/ Forbid
     \/ Revoke
     \/ Tick /\ (is_resolving => ~Idle)
     \/ \E artifact \in setup.others, id \in DOMAIN registry.contents :
          Publish(artifact, id)
  /\ UNCHANGED resolution

Next ==
  \/ (LookupStep \/ Produce) /\ UNCHANGED troubles
  \/ ClientStep
  \/ Trouble

Spec == Init /\ [][Next]_vars

\* The thread runs, and every request has some end: httpx gives up after a
\* time.  Nothing is assumed of the user, of the registry or of the clock.
FairSpec == Spec /\ WF_vars((LookupStep /\ UNCHANGED troubles) \/ ClientStep)
----------------------------------------------------------------------------
\* What the registry has of the contents it had to begin with.
Given == DOMAIN setup.registry.contents

DocOf(ref) ==
  registry.contents[VersionsOf(registry, ref.artifact)[ref.version].id].doc

\* No artifact gets a content twice, however often a registration's answer is
\* lost and the request sent again, and however often the lookup is started.
RegisteredOnce ==
  \A i, j \in DOMAIN registry.log :
    /\ registry.log[i].artifact = registry.log[j].artifact
    /\ registry.log[i].id = registry.log[j].id
    => i = j

\* What _register() puts into the registry refers to versions that are there,
\* each with the very document the local schema refers to, and to all of them.
ReferencesFirst ==
  \A id \in DOMAIN registry.contents \ Given :
    LET content == registry.contents[id] IN
    /\ Len(content.refs) = Len(DocRefs[content.doc])
    /\ \A i \in DOMAIN content.refs :
         /\ content.refs[i].artifact = DocRefs[content.doc][i]
         /\ content.refs[i].version > 0
         /\ HasVersion(registry, content.refs[i].artifact, content.refs[i].version)
         /\ DocOf(content.refs[i]) = DocRefs[content.doc][i]

\* The schema a field is encoded with is a version of the field's own
\* artifact: the local document's where it was registered, the chosen one
\* where one was chosen.  _registered is shared by the fields.
SchemaOfTheField ==
  \A f \in Field :
    LET schema == resolved[f]
        all == VersionsOf(registry, setup.artifact[f])
    IN schema # None =>
         /\ schema.version \in DOMAIN all
         /\ all[schema.version].id = schema.id
         /\ registry.contents[schema.id].doc = schema.doc
         /\ setup.document[f] # NoDoc => schema.doc = setup.document[f]
         /\ setup.document[f] = NoDoc /\ setup.version[f] # Latest
              => schema.version = setup.version[f]

Refs(contents) == {contents[i].ref : i \in DOMAIN contents}

\* A resolved schema was parsed with everything it refers to, directly or not,
\* and each content read once, also when several schemas refer to it.
ParsedWhole ==
  \A f \in Field : resolved[f] # None =>
    LET contents == resolved[f].contents
        refs == registry.contents[resolved[f].id].refs
    IN /\ ToSet(refs) \subseteq Refs(contents)
       /\ \A i, j \in DOMAIN contents : contents[i].ref = contents[j].ref => i = j
       /\ \A i \in DOMAIN contents :
            /\ contents[i].doc = DocOf(contents[i].ref)
            /\ ToSet(contents[i].refs) \subseteq Refs(contents)

\* Some of the contents refer to each other in turns.
IsCyclic(contents) ==
  \E refs \in SUBSET {e.ref : e \in contents} :
    /\ refs # {}
    /\ \A e \in contents : e.ref \in refs => ToSet(e.refs) \cap refs # {}

\* When everything is gathered it can be parsed, each content after those it
\* refers to.  Only contents that refer to each other in turns have no such
\* order, which those of a local document never do.
OnlyCyclesFail ==
  Running("collect") /\ CollectedAll /\ Top.ref = None =>
    \/ InOrder(collected)
    \/ setup.document[Head(pending)] = NoDoc /\ IsCyclic(ToSet(collected))

\* A schema is whole, in the registry as for the serializer.
SchemaIsWhole == ReferencesFirst /\ ParsedWhole /\ OnlyCyclesFail

\* What is kept under an id or a version is what the registry has there, with
\* all its references: a request that fails half-way leaves nothing behind.
\* What is kept of a search has every version that was there when the registry
\* answered it last, though others were created between its pages.
CacheIsTrue ==
  \A i \in DOMAIN cache :
    LET item == cache[i] IN
    IF "kind" \notin DOMAIN item.key
    THEN item.value = registry.contents[ContentAt(registry, item.key)]
    ELSE IF "artifact" \in DOMAIN item.key
    THEN /\ VersionsOf(registry, item.key.artifact)[item.value.version].id = item.value.id
         /\ item.key.version # Latest => item.value.version = item.key.version
    ELSE \A v \in ToSet(registry.log) :
           v.id = item.key.id /\ v.at < item.at - Latency => v \in ToSet(item.value.values)

\* The version a lookup takes for the latest was the latest less than the
\* check period ago, and the time an answer is on its way.
LatestIsFresh ==
  [][\A f \in Field :
       Running("version") /\ frames' # <<>> /\ Head(frames').op = "resolve"
         /\ Top.version = Latest /\ f = Head(frames').field
       => LET all == VersionsOf(registry, setup.artifact[f])
              taken == Head(frames').version.version
          IN taken < Len(all) =>
               \/ all[taken + 1].at >= now - Latency
               \/ all[taken + 1].at > now - CheckPeriod - Latency]_vars

\* resolve_schemas() ends, whatever the registry answers or fails to.
LookupsEnd == is_resolving ~> ~is_resolving
=============================================================================

-------------------------- MODULE SchemaCollection --------------------------
(***************************************************************************)
(* A schema of the registry together with everything it references: what   *)
(* the consumer and the composer collect before a parser sees it, for both *)
(* providers and the three kinds of schema; and the documents that a local *)
(* schema file and its imports become before they are registered.          *)
(*                                                                         *)
(* `schemas` maps each registered schema to the record of its type and of  *)
(* its references, a sequence of [name, target].  A schema is registered   *)
(* after those it references, so the references have no cycle.             *)
(***************************************************************************)
EXTENDS Integers, Sequences, SequencesExt, Functions

AReference == [name : STRING, target : STRING]
References(schemas, schema) == schemas[schema].references

\* References lead to schemas that are there, and never back.
Acyclic(schemas) ==
  /\ \A schema \in DOMAIN schemas :
       /\ References(schemas, schema) \in Seq(AReference)
       /\ \A reference \in Range(References(schemas, schema)) : reference.target \in DOMAIN schemas
  /\ \A set \in (SUBSET DOMAIN schemas) \ {{}} : \E schema \in set :
       \A reference \in Range(References(schemas, schema)) : reference.target \notin set

\* Everything that a schema references, and the references among them.
Closed(schemas, set) ==
  \A schema \in set : \A reference \in Range(References(schemas, schema)) : reference.target \in set
Reachable(schemas, root) ==
  {schema \in DOMAIN schemas :
     \A set \in SUBSET DOMAIN schemas : root \in set /\ Closed(schemas, set) => schema \in set}
AllReferences(schemas, root) ==
  UNION {Range(References(schemas, s)) : s \in Reachable(schemas, root)}

\* How far a walk over a set of schemas has come: behind the first n references
\* of one of them.
Places(schemas, set) ==
  UNION {{schema} \X (0 .. Len(References(schemas, schema))) : schema \in set}
End(schemas, schema) == <<schema, Len(References(schemas, schema))>>

\* The files of a root have names of their own, the others those of references.
RootName(provider) == IF provider = "confluent" THEN "default" ELSE "root.proto"
FileNames == {RootName("confluent"), RootName("apicurio")} \cup STRING

\* A walk over the references that visits each one once.  Confluent tells them
\* apart by name and Apicurio by the artifact's version; `before` has them in
\* the order they were met, `after` with dependencies first.
ByName == "name"
ByVersion == "target"

Walk == [visited : SUBSET FileNames, before : Seq(AReference), after : Seq(AReference)]

Meet(walked, reference, identity) ==
  [visited |-> walked.visited \cup {reference[identity]},
   before  |-> Append(walked.before, reference), after |-> walked.after]
Leave(walked, reference) ==
  [visited |-> walked.visited, before |-> walked.before, after |-> Append(walked.after, reference)]

Walked(schemas, root, identity, visitedAtFirst) ==
  LET walk[place \in Places(schemas, Reachable(schemas, root))] ==
        [walked \in Walk |->
           IF place[2] = 0 THEN walked
           ELSE LET earlier == walk[<<place[1], place[2] - 1>>][walked]
                    reference == References(schemas, place[1])[place[2]]
                IN  IF reference[identity] \in earlier.visited THEN earlier
                    ELSE Leave(walk[End(schemas, reference.target)][Meet(earlier, reference, identity)],
                               reference)]
  IN  walk[End(schemas, root)][[visited |-> visitedAtFirst, before |-> <<>>, after |-> <<>>]]

\* A dictionary filled in the order of a sequence of references.
Dictionary(references) ==
  [name \in {references[i].name : i \in DOMAIN references} |->
     references[Max({i \in DOMAIN references : references[i].name = name})].target]

Targets(references) == [i \in DOMAIN references |-> references[i].target]

\* Avro: the contents in the order they are parsed, the schema itself last.
ConfluentContents(schemas, root) ==
  Append(Targets(Walked(schemas, root, ByName, {}).after), root)
ApicurioContents(schemas, root) ==
  Append(Targets(Walked(schemas, root, ByVersion, {}).after), root)

\* JSON: the schema that each reference's name resolves to.
ConfluentResources(schemas, root) == Dictionary(Walked(schemas, root, ByName, {}).before)
ApicurioResources(schemas, root) == Dictionary(Walked(schemas, root, ByVersion, {}).after)

\* Protobuf: the file behind each import.  The root is the first of the files,
\* as the descriptor "default" of Confluent and as Apicurio's source root.proto.
WithRoot(provider, root, references) ==
  Dictionary(<<[name |-> RootName(provider), target |-> root]>> \o references)
ConfluentDescriptors(schemas, root) ==
  WithRoot("confluent", root, Walked(schemas, root, ByName, {"default"}).before)
ApicurioSources(schemas, root) ==
  WithRoot("apicurio", root, Walked(schemas, root, ByVersion, {}).before)

\* Named types are defined once, and before the schemas that use them.
AvroParses(schemas, contents) ==
  /\ IsInjective(contents)
  /\ \A i \in DOMAIN contents : \A reference \in Range(References(schemas, contents[i])) :
       \E j \in 1 .. i - 1 : contents[j] = reference.target

\* Every name that a collected schema uses is found, and is the schema meant.
NamesResolve(schemas, root, dictionary) ==
  \A reference \in AllReferences(schemas, root) :
    /\ reference.name \in DOMAIN dictionary
    /\ dictionary[reference.name] = reference.target

\* A descriptor joins the pool after those it imports; one that is met again
\* while it waits for its imports makes a cycle.  The same file under another
\* name is refused, as the messages it declares are there already.
Pooling == [ok : BOOLEAN, added : SUBSET FileNames, visiting : SUBSET FileNames]

Rejected(state) == [ok |-> FALSE, added |-> state.added, visiting |-> state.visiting]
Waiting(state, name) ==
  [ok |-> state.ok, added |-> state.added, visiting |-> state.visiting \cup {name}]
Joined(state, dictionary, name) ==
  [ok       |-> state.ok /\ \A other \in state.added : dictionary[other] # dictionary[name],
   added    |-> state.added \cup {name},
   visiting |-> state.visiting \ {name}]

Pooled(schemas, dictionary, root) ==
  LET pool[place \in Places(schemas, Reachable(schemas, dictionary[root]))] ==
        [state \in Pooling |->
           IF place[2] = 0 THEN state
           ELSE LET earlier == pool[<<place[1], place[2] - 1>>][state]
                    name == References(schemas, place[1])[place[2]].name
                IN  IF \/ ~earlier.ok \/ name \notin DOMAIN dictionary
                       \/ name \in earlier.visiting THEN Rejected(earlier)
                    ELSE IF name \in earlier.added THEN earlier
                    ELSE Joined(pool[End(schemas, dictionary[name])][Waiting(earlier, name)],
                                dictionary, name)]
      nothing == [ok |-> TRUE, added |-> {}, visiting |-> {}]
  IN  Joined(pool[End(schemas, dictionary[root])][Waiting(nothing, root)], dictionary, root)

\* The schema with its references, as the provider's parser gets it.
Parses(schemas, provider, root) ==
  LET type == schemas[root].type
      confluent == provider = "confluent"
      contents == IF confluent THEN ConfluentContents(schemas, root)
                  ELSE ApicurioContents(schemas, root)
      resources == IF confluent THEN ConfluentResources(schemas, root)
                   ELSE ApicurioResources(schemas, root)
      files == IF confluent THEN ConfluentDescriptors(schemas, root)
               ELSE ApicurioSources(schemas, root)
  IN  CASE type = "avro"     -> AvroParses(schemas, contents)
        [] type = "json"     -> NamesResolve(schemas, root, resources)
        [] type = "protobuf" -> /\ NamesResolve(schemas, root, files)
                                /\ Pooled(schemas, files, RootName(provider)).ok
        [] OTHER -> FALSE

\* Each name is one schema's; each schema goes by one name.
EachNameOnce(schemas, root) ==
  \A r, s \in AllReferences(schemas, root) : r.name = s.name => r.target = s.target
OneNameEach(schemas, root) ==
  \A r, s \in AllReferences(schemas, root) : r.target = s.target => r.name = s.name

-----------------------------------------------------------------------------
\* A local schema file with the files it imports, before they are registered:
\* `imports` gives each file's imports in order.  Imports that lead back to a
\* file being read are refused; another file is read once.

Failed == [ok |-> FALSE, loaded |-> <<>>]

Documents(imports, root) ==
  LET load[file \in DOMAIN imports, visiting \in SUBSET STRING,
           loaded \in Seq(DOMAIN imports)] ==
        FoldLeft(LAMBDA l, name :
                   IF ~l.ok \/ name \notin DOMAIN imports \/ name \in visiting THEN Failed
                   ELSE IF name \in Range(l.loaded) THEN l
                   ELSE LET deeper == load[name, visiting \cup {name}, l.loaded]
                        IN  IF deeper.ok THEN [deeper EXCEPT !.loaded = Append(@, name)] ELSE Failed,
                 [ok |-> TRUE, loaded |-> loaded], imports[file])
  IN  load[root, {root}, <<>>]
=============================================================================

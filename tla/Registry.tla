------------------------------ MODULE Registry ------------------------------
(***************************************************************************)
(* Apicurio Registry, outside the program: what its Core API v3 does for   *)
(* the requests of kaskade/apicurio.py.  A content is stored once, under   *)
(* its id, and never changes; the log holds the versions that artifacts    *)
(* were given, in the order of their creation.                             *)
(***************************************************************************)
EXTENDS Selection

VARIABLE registry   \* contents: Seq([doc, refs]), log: Seq([artifact, id, at])

Latest == 0   \* the version expression branch=latest

VersionsOf(r, artifact) == Kept(r.log, {v \in ToSet(r.log) : v.artifact = artifact})

Numbered(r, artifact, version) ==
  IF version = Latest THEN Len(VersionsOf(r, artifact)) ELSE version

HasVersion(r, artifact, version) ==
  Numbered(r, artifact, version) \in DOMAIN VersionsOf(r, artifact)

\* The newest version of an artifact that has this content.
VersionWith(r, artifact, id) ==
  LET all == VersionsOf(r, artifact)
      same == {k \in DOMAIN all : all[k].id = id}
  IN CHOOSE k \in same : \A j \in same : j <= k

VersionsWith(r, id) == Kept(r.log, {v \in ToSet(r.log) : v.id = id})

\* A path names a content by its id or by an artifact's version.
ContentAt(r, source) ==
  IF "id" \in DOMAIN source THEN source.id
  ELSE VersionsOf(r, source.artifact)[source.version].id

Missing(r, op) ==
  \/ op.kind = "version" /\ ~HasVersion(r, op.artifact, op.version)
  \/ op.kind \in {"content", "references"} /\ "artifact" \in DOMAIN op.source
     /\ ~HasVersion(r, op.source.artifact, op.source.version)

ContentId(r, content) ==
  IF \E i \in DOMAIN r.contents : r.contents[i] = content
  THEN CHOOSE i \in DOMAIN r.contents : r.contents[i] = content
  ELSE Len(r.contents) + 1

\* POST /groups/{group}/artifacts: whether a version with the same content is
\* used again is the request's choice.
Created(r, op, at) ==
  LET content == [doc |-> op.doc, refs |-> op.refs]
      id == ContentId(r, content)
      used == \E v \in ToSet(r.log) : v.artifact = op.artifact /\ v.id = id
  IN [contents |-> IF id \in DOMAIN r.contents THEN r.contents ELSE Append(r.contents, content),
      log |-> IF used /\ op.ifExists = "FIND_OR_CREATE_VERSION" THEN r.log
              ELSE Append(r.log, [artifact |-> op.artifact, id |-> id, at |-> at])]

Handled(r, op, at) == IF op.kind = "create" THEN Created(r, op, at) ELSE r

VersionAnswer(r, artifact, k) == [version |-> k, id |-> VersionsOf(r, artifact)[k].id]

\* One page of /search/versions, and the number of all matches.
SearchAnswer(r, op) ==
  LET all == VersionsWith(r, op.id)
      last == IF op.offset + op.limit < Len(all) THEN op.offset + op.limit ELSE Len(all)
  IN [page |-> SubSeq(all, op.offset + 1, last), count |-> Len(all)]

Answer(r, op) ==
  CASE op.kind = "create" ->
         VersionAnswer(r, op.artifact, VersionWith(r, op.artifact,
           ContentId(r, [doc |-> op.doc, refs |-> op.refs])))
    [] op.kind = "version" ->
         VersionAnswer(r, op.artifact, Numbered(r, op.artifact, op.version))
    [] op.kind = "content" -> [doc |-> r.contents[ContentAt(r, op.source)].doc]
    [] op.kind = "references" -> [refs |-> r.contents[ContentAt(r, op.source)].refs]
    [] op.kind = "search" -> SearchAnswer(r, op)
=============================================================================

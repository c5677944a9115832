------------------------- MODULE MCSchemaResolution -------------------------
(***************************************************************************)
(* Three producers: one registers the key and the value, whose references  *)
(* meet again and one of whose artifacts already has another version; the  *)
(* second looks both up, the key's type being told by its versions alone,  *)
(* the value's references meeting again; for the third there is no key,    *)
(* the value's versions have different types, and what others publish      *)
(* refers to itself.                                                       *)
(***************************************************************************)
EXTENDS SchemaResolution

MCDocs == {"order", "user", "money", "older", "enum", "note", "left", "right"}

MCArtifacts == MCDocs \cup {"t-key", "t-value", "old-key", "old-note"}

MCDocRefs ==
  [d \in MCDocs |->
     CASE d = "order" -> <<"money", "user">>
       [] d = "user" -> <<"money">>
       [] OTHER -> <<>>]

\* Neither is a record, nor did the registry say what it is.
MCTypeTold ==
  [d \in MCDocs |-> IF d \in {"enum", "note"} THEN "untold" ELSE "supported"]

MCArtifactType ==
  [a \in MCArtifacts |-> IF a = "old-note" THEN "OPENAPI" ELSE "AVRO"]

Version(artifact, id) == [artifact |-> artifact, id |-> id, at |-> 0]
Ref(artifact) == [artifact |-> artifact, version |-> 1]

Registering ==
  [artifact |-> [f \in Field |-> IF f = "key" THEN "t-key" ELSE "t-value"],
   document |-> [f \in Field |-> IF f = "key" THEN "money" ELSE "order"],
   version  |-> [f \in Field |-> 0],
   others |-> {"t-value"},
   registry |-> [contents |-> <<[doc |-> "older", refs |-> <<>>]>>,
                 log |-> <<Version("money", 1)>>]]

LookingUp ==
  [artifact |-> [f \in Field |-> IF f = "key" THEN "t-key" ELSE "t-value"],
   document |-> [f \in Field |-> NoDoc],
   version  |-> [f \in Field |-> IF f = "key" THEN 1 ELSE 0],
   others |-> {"t-key"},
   registry |-> [contents |-> <<[doc |-> "enum", refs |-> <<>>],
                                [doc |-> "right", refs |-> <<>>],
                                [doc |-> "left", refs |-> <<Ref("right")>>],
                                [doc |-> "order", refs |-> <<Ref("left"), Ref("right")>>]>>,
                 log |-> <<Version("t-key", 1), Version("old-key", 1), Version("right", 2),
                           Version("left", 3), Version("t-value", 4)>>]]

Failing ==
  [artifact |-> [f \in Field |-> IF f = "key" THEN "t-key" ELSE "t-value"],
   document |-> [f \in Field |-> NoDoc],
   version  |-> [f \in Field |-> 0],
   others |-> {"t-key", "t-value"},
   registry |-> [contents |-> <<[doc |-> "note", refs |-> <<>>],
                                [doc |-> "left", refs |-> <<Ref("left")>>]>>,
                 log |-> <<Version("old-note", 1), Version("t-value", 1), Version("left", 2)>>]]

MCSetups == {Registering, LookingUp, Failing}
=============================================================================

--------------------------- MODULE RegistryOptions ---------------------------
(***************************************************************************)
(* The properties of --registry: those of the two providers' clients, and  *)
(* those by which the producer chooses or registers a schema, which either *)
(* hold for both fields or are scoped with key. or value..                 *)
(*                                                                         *)
(* Apicurio's own properties are named without their common prefix         *)
(* apicurio.registry., but for the url, which both providers have; `files` *)
(* tells what each path names.                                             *)
(***************************************************************************)
EXTENDS Properties

Provider == Global("provider")
ProviderOf(config) ==
  IF Provider \in DOMAIN config THEN Lower(config[Provider]) ELSE "confluent"
REGISTRY_PROVIDERS == {"apicurio", "confluent"}

Text(config, name) == IF Global(name) \in DOMAIN config THEN config[Global(name)] ELSE ""
Supplied(config, names) == \E name \in names : Global(name) \in DOMAIN config

\* int() of the texts an instance uses; a text outside is no integer.
Numerals == ("-1" :> -1) @@ ("0" :> 0) @@ ("3" :> 3) @@ ("8081" :> 8081) @@ ("70000" :> 70000)

CountValid(config, name) ==
  Global(name) \in DOMAIN config =>
    /\ Text(config, name) \in DOMAIN Numerals
    /\ Numerals[Text(config, name)] >= 0
FlagValid(config, name) ==
  Global(name) \in DOMAIN config => Text(config, name) \in {"true", "false"}

\* Names that go together: none of them, or each with a text.
CompleteSet(config, names) ==
  Supplied(config, names) => \A name \in names : Text(config, name) # ""

BasicNames == {"auth.username", "auth.password"}
OAuthNames == {"auth.service.token.endpoint", "auth.client.id", "auth.client.secret"}
ProxyNames == {"proxy.host", "proxy.port"}
ProxyUser == {"proxy.username", "proxy.password"}
ClientIdentity == {"tls.client-certificate", "tls.client-key"}
ApicurioNames ==
  {"apicurio.registry.url", "use-id", "check-period-ms", "retry-count", "retry-backoff-ms", "auth.client.scope",
   "tls.certificates", "tls.trust-all", "tls.verify-host"}
  \cup BasicNames \cup OAuthNames \cup ProxyNames \cup ProxyUser \cup ClientIdentity
APICURIO_PROPERTIES == {Global(name) : name \in ApicurioNames}

Together(config, names) ==
  (\E name \in names : Text(config, name) # "") => (\A name \in names : Text(config, name) # "")

AuthValid(config) ==
  /\ CompleteSet(config, BasicNames)
  /\ CompleteSet(config, OAuthNames)
  /\ ~(Supplied(config, BasicNames) /\ Supplied(config, OAuthNames))
  /\ Supplied(config, {"auth.client.scope"}) =>
       Supplied(config, OAuthNames) /\ Text(config, "auth.client.scope") # ""

ProxyValid(config) ==
  /\ CompleteSet(config, ProxyNames)
  /\ Together(config, ProxyUser)
  /\ (\E name \in ProxyUser : Text(config, name) # "") => Supplied(config, ProxyNames)
  /\ Supplied(config, ProxyNames) =>
       /\ Text(config, "proxy.port") \in DOMAIN Numerals
       /\ Numerals[Text(config, "proxy.port")] \in 1 .. 65535

\* The trusted certificates are loaded while the options are checked, for the
\* token endpoint even where the registry is trusted without them.
TlsValid(config, files) ==
  /\ FlagValid(config, "tls.trust-all") /\ FlagValid(config, "tls.verify-host")
  /\ Together(config, ClientIdentity)
  /\ Text(config, "tls.certificates") # "" =>
       files[Text(config, "tls.certificates")].is = "certificates"

ApicurioConfigValid(config, files) ==
  /\ DOMAIN config \subseteq APICURIO_PROPERTIES \cup {Provider}
  /\ Text(config, "apicurio.registry.url") = "http"
  /\ Supplied(config, {"use-id"}) => Text(config, "use-id") \in {"contentId", "globalId"}
  /\ AuthValid(config)
  /\ ProxyValid(config)
  /\ TlsValid(config, files)
  /\ \A name \in {"check-period-ms", "retry-count", "retry-backoff-ms"} : CountValid(config, name)

ApicurioConfig(config) ==
  [use_id      |-> IF Supplied(config, {"use-id"}) THEN Text(config, "use-id") ELSE "contentId",
   retry_count |-> IF Supplied(config, {"retry-count"})
                   THEN Numerals[Text(config, "retry-count")] ELSE 3,
   proxy       |-> Supplied(config, ProxyNames)]

-----------------------------------------------------------------------------
\* How the producer's fields get their schema.

SELECTION_PROPERTIES ==
  [confluent |-> {"auto.register.schemas", "normalize.schemas", "use.latest.version",
                  "use.schema.id", "protobuf.message"},
   apicurio  |-> {"auto-register", "find-latest", "artifact.group-id", "artifact.artifact-id",
                  "artifact.version", "protobuf.message"}]
\* Names that start with apicurio.registry..
ApicurioPrefixed ==
  APICURIO_PROPERTIES \cup {Global(name) : name \in SELECTION_PROPERTIES.apicurio \ {"protobuf.message"}}
SelectionScopes(provider) == UNION {Scopes(name) : name \in SELECTION_PROPERTIES[provider]}
AllSelection == SelectionScopes("confluent") \cup SelectionScopes("apicurio")

ClientConfig(config) == Restrict(config, DOMAIN config \ AllSelection)
SelectionConfig(config) == Restrict(config, DOMAIN config \cap AllSelection)

\* None stands for a property that is not given; a flag is given as a text.
None == "none"
Chosen(selection, field, name) == ScopedProperty(selection, name, field, None)
FlagsValid(selection, field, names) ==
  \A name \in names : Chosen(selection, field, name) \in {None, "true", "false"}
Registers(provider) == IF provider = "confluent" THEN "auto.register.schemas" ELSE "auto-register"
AutoRegister(selection, provider, field) == Chosen(selection, field, Registers(provider)) = "true"

ConfluentSelectionValid(selection, field) ==
  LET Given(name) == Chosen(selection, field, name)
      id == Given("use.schema.id")
  IN  /\ FlagsValid(selection, field,
                    {"auto.register.schemas", "use.latest.version", "normalize.schemas"})
      /\ id # None => id \in DOMAIN Numerals /\ Numerals[id] > 0
      /\ IF AutoRegister(selection, "confluent", field)
         THEN Given("use.latest.version") # "true" /\ id = None
         ELSE Given("use.latest.version") # "false"

ApicurioSelectionValid(selection, field) ==
  LET Given(name) == Chosen(selection, field, name)
  IN  /\ FlagsValid(selection, field, {"auto-register", "find-latest"})
      /\ \A name \in {"artifact.group-id", "artifact.artifact-id", "artifact.version"} :
           Given(name) # ""
      /\ IF AutoRegister(selection, "apicurio", field)
         THEN Given("find-latest") # "true" /\ Given("artifact.version") = None
         ELSE Given("find-latest") = "false" => Given("artifact.version") # None

SchemaSelectionValid(selection, provider, field) ==
  /\ DOMAIN selection \subseteq SelectionScopes(provider)
  /\ IF provider = "confluent" THEN ConfluentSelectionValid(selection, field)
     ELSE ApicurioSelectionValid(selection, field)
=============================================================================

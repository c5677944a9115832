----------------------------- MODULE Properties -----------------------------
(***************************************************************************)
(* What every mode of the command line does with the properties it is      *)
(* given before it starts: options of the form property=value are read,    *)
(* the configuration file, the options and the Amazon MSK section are      *)
(* merged into a connection, and settings.yaml and --timeout give the      *)
(* operation deadlines.                                                    *)
(*                                                                         *)
(* A property is a pair <<scope, name>>: <<"key", "framing">> is           *)
(* key.framing, and <<"", "framing">> the unscoped one.  A configuration   *)
(* is a function from properties to values.  An operator named ...Valid is *)
(* FALSE where the code ends with a message for the user; which of several *)
(* mistakes that message names is left out.                                *)
(***************************************************************************)
EXTENDS Integers, Sequences, SequencesExt, Functions

Fields == {"key", "value"}

Global(name) == <<"", name>>
Scoped(field, name) == <<field, name>>
Scopes(name) == {Global(name), Scoped("key", name), Scoped("value", name)}

NoProperties == <<>>

\* The values of one configuration where it has them, else of the other; the
\* module TLC's @@ and :> are none the provers know.
Over(f, g) == [x \in DOMAIN f \cup DOMAIN g |-> IF x \in DOMAIN f THEN f[x] ELSE g[x]]
With(f, x, y) == [z \in DOMAIN f \cup {x} |-> IF z = x THEN y ELSE f[z]]

\* A property given twice has the value given last.  An item is a pair, or a
\* one-element tuple where the user wrote no "=".
Parsed(items) ==
  [p \in {items[i][1] : i \in DOMAIN items} |->
     items[Max({i \in DOMAIN items : items[i][1] = p})][2]]

ItemsValid(items) == \A i \in DOMAIN items : Len(items[i]) = 2

\* Repeated, comma-separated entries become one list without blanks or repeats.
Entries(lists) == FlattenSeq(lists)
EntriesValid(lists) ==
  /\ IsInjective(Entries(lists))
  /\ "" \notin Range(Entries(lists))

\* The include folders of --protobuf accumulate; every other property is
\* replaced by its last value.
Include == Global("include")
IncludeLists(items) ==
  LET given == SelectSeq(items, LAMBDA item : item[1] = Include)
  IN  [i \in DOMAIN given |-> given[i][2]]

ProtobufParsed(items) ==
  IF IncludeLists(items) = <<>>
  THEN Parsed(items)
  ELSE With(Parsed(items), Include, Entries(IncludeLists(items)))

ProtobufItemsValid(items) == ItemsValid(items) /\ EntriesValid(IncludeLists(items))

\* A scoped property hides the global one.
ScopedProperty(config, name, field, default) ==
  IF Scoped(field, name) \in DOMAIN config THEN config[Scoped(field, name)]
  ELSE IF Global(name) \in DOMAIN config THEN config[Global(name)]
  ELSE default

\* Values are compared without regard to case, and with "_" for "-".
Spelled == [Confluent |-> "confluent", Apicurio |-> "apicurio", HEX |-> "hex",
            byte_array |-> "byte-array"]
Lower(value) == IF value \in DOMAIN Spelled THEN Spelled[value] ELSE value

\* Values of `names` become lower case in the copy; other values are kept.
NormalizedChoices(config, names) ==
  [p \in DOMAIN config |-> IF p \in names THEN Lower(config[p]) ELSE config[p]]
ChoicesValid(config, names, choices) ==
  \A p \in names \cap DOMAIN config : Lower(config[p]) \in choices

-----------------------------------------------------------------------------
\* The connection.  The configuration file is absent, cannot be read as an INI
\* file, or has sections; the value of bootstrap.servers is the list of brokers.

Bootstrap == Global("bootstrap.servers")
AwsRegion == Global("region")
CONFIG_FILE_SECTIONS == {"kafka", "registry", "aws"}

ConfigFileValid(file) ==
  \/ file.kind = "absent"
  \/ /\ file.kind = "sections"
     /\ DOMAIN file.sections \subseteq CONFIG_FILE_SECTIONS
     /\ DOMAIN file.sections # {}

Section(file, name) ==
  IF file.kind = "sections" /\ name \in DOMAIN file.sections
  THEN file.sections[name] ELSE NoProperties

\* -b wins over --kafka, which wins over the file.
KafkaConfig(file, kafka, brokers) ==
  LET merged == Over(kafka, Section(file, "kafka"))
  IN  IF brokers = <<>> THEN merged ELSE With(merged, Bootstrap, brokers)
KafkaConfigValid(config) == Bootstrap \in DOMAIN config /\ config[Bootstrap] # <<>>

RegistryConfig(file, registry) == Over(registry, Section(file, "registry"))
AwsConfig(file, aws) == Over(aws, Section(file, "aws"))

\* A region, and credentials that sign a token now; `signs` says whether the
\* signer of the environment does.
AwsConfigValid(config, signs) ==
  config # NoProperties =>
    /\ DOMAIN config \subseteq {AwsRegion}
    /\ config[AwsRegion] # ""
    /\ signs

\* Amazon MSK IAM replaces the authentication that other properties ask for.
WithAwsIam(config, aws) ==
  IF aws = NoProperties THEN config
  ELSE With(With(With(config, Global("security.protocol"), "SASL_SSL"),
                 Global("sasl.mechanism"), "OAUTHBEARER"),
            Global("oauth_cb"), aws[AwsRegion])

ConnectionValid(line, signs) ==
  /\ ConfigFileValid(line.file)
  /\ ItemsValid(line.kafka) /\ ItemsValid(line.registry) /\ ItemsValid(line.aws)
  /\ EntriesValid(line.brokers)
  /\ KafkaConfigValid(KafkaConfig(line.file, Parsed(line.kafka), Entries(line.brokers)))
  /\ AwsConfigValid(AwsConfig(line.file, Parsed(line.aws)), signs)

Connection(line) ==
  [kafka    |-> WithAwsIam(KafkaConfig(line.file, Parsed(line.kafka), Entries(line.brokers)),
                           AwsConfig(line.file, Parsed(line.aws))),
   registry |-> RegistryConfig(line.file, Parsed(line.registry))]

-----------------------------------------------------------------------------
\* Deadlines.  A timeout is <<mode, name>>; its value is a number of seconds,
\* or a record whose kind says why it is none.

TimeoutNames == [consumer |-> {"poll", "idle", "assignment", "request"},
                 admin    |-> {"read", "write"},
                 producer |-> {"delivery", "flush"}]
TimeoutsOf(mode) == {<<mode, name>> : name \in TimeoutNames[mode]}
AllTimeouts == UNION {TimeoutsOf(mode) : mode \in DOMAIN TimeoutNames}

\* In milliseconds; zero and less are refused.
DefaultTimeouts ==
  LET default == [consumer |-> [poll |-> 500, idle |-> 2500, assignment |-> 15000, request |-> 10000],
                  admin    |-> [read |-> 10000, write |-> 60000],
                  producer |-> [delivery |-> 45000, flush |-> 5000]]
  IN  [t \in AllTimeouts |-> default[t[1]][t[2]]]

IsTimeout(value) == value.kind = "number" /\ value.ms > 0

\* settings.yaml: what cannot be used is ignored with a warning.  `settings` is
\* absent, unreadable, no text, a text with a bad value, no mapping, or has the
\* sections of the three modes, each a mapping or not, with timeouts that are a
\* mapping or not.
SettingsSection(settings, mode) ==
  IF settings.kind = "mapping" /\ mode \in DOMAIN settings.sections
     /\ settings.sections[mode].kind = "mapping"
  THEN settings.sections[mode].values ELSE NoProperties

\* A defect, of IsTimeoutSetting: any number is taken.
IsNumber(value) == value.kind = "number"
IsTimeoutSetting(value) == IsTimeout(value)

TimeoutSettings(settings, mode) ==
  LET section == SettingsSection(settings, mode)
  IN  IF "timeouts" \in DOMAIN section /\ section["timeouts"].kind = "mapping"
      THEN section["timeouts"].values ELSE NoProperties

ConfiguredTimeouts(settings, mode) ==
  LET given == TimeoutSettings(settings, mode)
  IN  [t \in {t \in TimeoutsOf(mode) : t[2] \in DOMAIN given /\ IsTimeoutSetting(given[t[2]])} |->
         given[t[2]].ms]

SettingsTimeouts(settings) ==
  Over(ConfiguredTimeouts(settings, "admin"),
       Over(ConfiguredTimeouts(settings, "consumer"),
            Over(ConfiguredTimeouts(settings, "producer"), DefaultTimeouts)))

\* What ends the program as the settings are loaded.  Reading the file handles
\* what the file system and the YAML parser report, not bytes that are no UTF-8
\* text, nor a text that the YAML reader refuses otherwise: a date that does not
\* exist, a number of too many digits, lists nested too deeply.  float() raises
\* what is not handled for a deadline that is an integer too large for it, and
\* so would a deadline that is accepted and is none.
SettingsEscape(settings) ==
  \/ settings.kind \in {"no_text", "bad_value"}
  \/ \E t \in AllTimeouts :
       LET given == TimeoutSettings(settings, t[1])
       IN  t[2] \in DOMAIN given /\ given[t[2]].kind = "too_large"
  \/ \E t \in AllTimeouts : SettingsTimeouts(settings)[t] <= 0

DEFAULT_ADMIN_REFRESH_INTERVAL_SECONDS == 30
MIN_ADMIN_REFRESH_INTERVAL_SECONDS == 5
is_valid_admin_refresh_interval(value) ==
  value = 0 \/ value >= MIN_ADMIN_REFRESH_INTERVAL_SECONDS

SettingsRefreshInterval(settings) ==
  LET section == SettingsSection(settings, "admin")
  IN  IF /\ "refresh-interval" \in DOMAIN section
         /\ section["refresh-interval"].kind = "number"
         /\ is_valid_admin_refresh_interval(section["refresh-interval"].seconds)
      THEN section["refresh-interval"].seconds
      ELSE DEFAULT_ADMIN_REFRESH_INTERVAL_SECONDS

SettingsReadOnly(settings) ==
  LET section == SettingsSection(settings, "admin")
  IN  /\ "read-only" \in DOMAIN section
      /\ section["read-only"].kind = "flag"
      /\ section["read-only"].set

\* --timeout over settings.yaml over the defaults; the properties of another
\* mode are refused, and so are unknown ones and values that are no deadline.
TimeoutsValid(mode, items) ==
  /\ ItemsValid(items)
  /\ DOMAIN Parsed(items) \subseteq TimeoutsOf(mode)
  /\ \A t \in DOMAIN Parsed(items) : IsTimeout(Parsed(items)[t])

Timeouts(settings, items) ==
  [t \in AllTimeouts |-> IF t \in DOMAIN Parsed(items) THEN Parsed(items)[t].ms
                         ELSE SettingsTimeouts(settings)[t]]
=============================================================================

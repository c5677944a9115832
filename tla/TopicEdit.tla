----------------------------- MODULE TopicEdit -----------------------------
(***************************************************************************)
(* Creating and editing a topic in admin mode: the two forms of            *)
(* kaskade/admin/forms.py, the review of kaskade/admin/screens.py, and the *)
(* calls update_topic() and create_topic() make through TopicService.      *)
(*                                                                         *)
(* A form knows the topic as the list and describe_configs() last saw it;  *)
(* other clients go on changing the topic while the form is filled, while  *)
(* its review is read and between the two calls of one update.             *)
(*                                                                         *)
(* The text of an input is one of a few: empty, "one" and "two" for these  *)
(* numbers, "plus" for "+1" or "01", "minus" for "-1", or no number.       *)
(***************************************************************************)
EXTENDS Integers, FiniteSets

CONSTANTS
  Numbers,        \* the numeric settings: "retention.ms" and "min.insync.replicas"
  MaxPartitions,  \* bound: the partitions of a topic
  OtherChanges    \* bound: changes by other clients while a form is open

ASSUME EditAssumption ==
  /\ Numbers \subseteq {"retention.ms", "min.insync.replicas"}
  /\ MaxPartitions \in Nat \ {0}
  /\ OtherChanges \in Nat

VARIABLES
  topic,    \* in Kafka
  listed,   \* its partitions in the list; 0: the list does not have it
  form,     \* the form, with what it was opened for
  update,   \* the worker of update_topic() or create_topic()
  changes   \* changes by other clients since the form was opened

editVars == <<topic, listed, form, update, changes>>

Settings == Numbers \cup {"cleanup.policy"}
Count == 1..MaxPartitions
Text == {"", "one", "two", "plus", "minus", "junk"}

\* int(): what the text stands for, as Kafka writes it.
Canonical(text) == IF text = "plus" THEN "one" ELSE text
IsNumber(text) == text \in {"one", "two", "plus", "minus"}
Positive(text) == text \in {"one", "two", "plus"}

\* What Kafka holds of a setting; "compact,delete" is a policy too.
Values(s) == IF s = "cleanup.policy" THEN {"delete", "compact", "compact,delete"}
             ELSE {"one", "two"} \cup (IF s = "retention.ms" THEN {"minus"} ELSE {})
Inherited(s) == [value |-> IF s = "cleanup.policy" THEN "delete" ELSE "two",
                 overridden |-> FALSE]
Override(v) == [value |-> v, overridden |-> TRUE]
Held(s) == {Inherited(s)} \cup {Override(v) : v \in Values(s)}
Configs == {c \in [Settings -> UNION {Held(s) : s \in Settings}] :
              \A s \in Settings : c[s] \in Held(s)}
Defaults == [s \in Settings |-> Inherited(s)]
NoTopic == [exists |-> FALSE, partitions |-> 1, config |-> Defaults]
Topic == {t \in [exists : BOOLEAN, partitions : Count, config : Configs] :
            ~t.exists => t = NoTopic}

\* The inputs. Of the policy it is the button that is pressed, if any.
Input == [partitions : Count, policy : {"none", "delete", "compact"},
          number : [Numbers -> Text], replicas : Text]
NoInput == [partitions |-> 1, policy |-> "none", number |-> [s \in Numbers |-> ""],
            replicas |-> ""]
FormOf(stage, partitions, config, input) ==
  [stage |-> stage, partitions |-> partitions, config |-> config, input |-> input]
NoForm == FormOf("closed", 1, Defaults, NoInput)

\* stage: the call under way, and whether Kafka has executed it; changed and
\* title: of the mutation; told: what the user was told; done: what Kafka has
\* executed; form: what the command is made of.
NewUpdate(stage, reviewed) ==
  [stage |-> stage, changed |-> FALSE, title |-> "failed", told |-> "nothing", done |-> {},
   form |-> reviewed]
NoUpdate == NewUpdate("idle", NoForm)

EditInit ==
  /\ topic \in {NoTopic} \cup
       {[exists |-> TRUE, partitions |-> 1, config |-> c] : c \in Configs}
  /\ listed = IF topic.exists THEN topic.partitions ELSE 0
  /\ form = NoForm
  /\ update = NoUpdate
  /\ changes = 0
----------------------------------------------------------------------------
(* The edit form.                                                          *)

Idle == update.stage \in {"idle", "told"}

\* The list is refreshed.
ListRefreshed ==
  /\ form.stage = "closed" /\ Idle
  /\ listed' = IF topic.exists THEN topic.partitions ELSE 0
  /\ listed' # listed
  /\ UNCHANGED <<topic, form, update, changes>>

\* action_edit(): the topic is the list's, its configuration is still to come.
ActionEdit ==
  /\ form.stage = "closed" /\ Idle
  /\ listed > 0
  /\ form' = FormOf("loading", listed, Defaults, NoInput)
  /\ update' = NoUpdate
  /\ changes' = 0
  /\ UNCHANGED <<topic, listed>>

\* The text an input of the edit form starts with.
Shown(config, s) == config[s].value
Pressed(value) == IF value \in {"delete", "compact"} THEN value ELSE "none"
InitialInput(partitions, config) ==
  [partitions |-> partitions, policy |-> Pressed(config["cleanup.policy"].value),
   number |-> [s \in Numbers |-> Shown(config, s)], replicas |-> ""]

ConfigsLoaded ==
  /\ form.stage = "loading"
  /\ form' = IF topic.exists
             THEN FormOf("edit", form.partitions, topic.config,
                         InitialInput(form.partitions, topic.config))
             ELSE NoForm
  /\ UNCHANGED <<topic, listed, update, changes>>

LoadFails ==
  /\ form.stage = "loading"
  /\ form' = NoForm
  /\ UNCHANGED <<topic, listed, update, changes>>

\* The validators of the edit form.
ValidEdit(f, input) ==
  /\ input.partitions >= f.partitions
  /\ input.replicas = ""
  /\ \A s \in Numbers :
       \/ input.number[s] = "" \/ Positive(input.number[s])
       \/ s = "retention.ms" /\ IsNumber(input.number[s])

NoChange == "none"
Reset == "reset"

\* A defect: a setting is written unless it has the cluster's default.
WrittenUnlessDefault(f, s) ==
  LET value == IF s # "cleanup.policy" THEN Canonical(f.input.number[s])
               ELSE IF f.input.policy = "none" THEN f.config[s].value
               ELSE f.input.policy
  IN  IF value = Inherited(s).value THEN NoChange
      ELSE IF value # "" THEN value
      ELSE IF f.config[s].overridden THEN Reset ELSE NoChange

\* update_command(), _config_change(): a new value, a reset of an overridden
\* one whose input was cleared, or no change.
ConfigChange(f, s) ==
  LET current == f.config[s].value
      value == IF s # "cleanup.policy" THEN Canonical(f.input.number[s])
               ELSE IF f.input.policy = "none" THEN current
               ELSE f.input.policy
  IN  IF value = current THEN NoChange
      ELSE IF value # "" THEN value
      ELSE IF f.config[s].overridden THEN Reset ELSE NoChange

ChangedSettings(f) == {s \in Settings : ConfigChange(f, s) # NoChange}
MorePartitions(f) == f.input.partitions > f.partitions
Changed(f) == MorePartitions(f) \/ ChangedSettings(f) # {}

\* action_edit() of the form: invalid inputs are reported and the form stays.
Save ==
  /\ form.stage = "edit"
  /\ \E input \in Input :
       /\ ValidEdit(form, input)
       /\ LET filled == FormOf("review", form.partitions, form.config, input)
          IN  form' = IF Changed(filled) THEN filled ELSE NoForm
  /\ UNCHANGED <<topic, listed, update, changes>>

\* Back, from the review to the form and from the form to the list.
Back ==
  /\ form.stage \in {"edit", "review", "create", "delete"}
  /\ form' = IF form.stage = "review" THEN [form EXCEPT !.stage = "edit"] ELSE NoForm
  /\ UNCHANGED <<topic, listed, update, changes>>

\* Apply: both screens close, and update_topic() starts with its first call.
ApplyChanges ==
  /\ form.stage = "review"
  /\ form' = NoForm
  /\ update' = NewUpdate(IF MorePartitions(form) THEN "add" ELSE "alter", form)
  /\ UNCHANGED <<topic, listed, changes>>
----------------------------------------------------------------------------
(* The create form.                                                        *)

ActionNew ==
  /\ form.stage = "closed" /\ Idle
  /\ form' = [NoForm EXCEPT !.stage = "create"]
  /\ update' = NoUpdate
  /\ changes' = 0
  /\ UNCHANGED <<topic, listed>>

\* validated_inputs() and cross_field_failures(): Retention may not be empty,
\* and fewer replicas than in-sync ones are refused when both are given.
ValidCreate(input) ==
  /\ input.policy # "none"
  /\ input.replicas = "" \/ Positive(input.replicas)
  /\ \A s \in Numbers :
       IF s = "retention.ms" THEN IsNumber(input.number[s])
       ELSE /\ input.number[s] = "" \/ Positive(input.number[s])
            /\ ~(input.number[s] = "two" /\ Canonical(input.replicas) = "one")

ActionCreate ==
  /\ form.stage = "create"
  /\ \E input \in Input :
       /\ ValidCreate(input)
       /\ update' = NewUpdate("create", FormOf("closed", 1, Defaults, input))
  /\ form' = NoForm
  /\ UNCHANGED <<topic, listed, changes>>

\* Deleting: the name is typed to confirm it.
ActionDelete ==
  /\ form.stage = "closed" /\ Idle
  /\ listed > 0
  /\ form' = [NoForm EXCEPT !.stage = "delete"]
  /\ update' = NoUpdate
  /\ changes' = 0
  /\ UNCHANGED <<topic, listed>>

ConfirmDeletion ==
  /\ form.stage = "delete"
  /\ form' = NoForm
  /\ update' = NewUpdate("delete", NoForm)
  /\ UNCHANGED <<topic, listed, changes>>

\* create(): the policy and the retention are always set.
NewConfig(input) ==
  [s \in Settings |->
     IF s = "cleanup.policy" THEN Override(input.policy)
     ELSE IF input.number[s] = "" THEN Inherited(s)
     ELSE Override(Canonical(input.number[s]))]
----------------------------------------------------------------------------
(* The calls, in a thread: Kafka executes one, and its answer may be lost. *)

Updated(stage, changed, title, told, done) ==
  [stage |-> stage, changed |-> changed, title |-> title, told |-> told, done |-> done,
   form |-> update.form]

Executes(stage, done) ==
  Updated(stage, update.changed, update.title, update.told, update.done \cup done)

KafkaCreates ==
  /\ update.stage = "create"
  /\ ~topic.exists
  /\ topic' = [exists |-> TRUE, partitions |-> update.form.input.partitions,
               config |-> NewConfig(update.form.input)]
  /\ update' = Executes("created", {"topic"})
  /\ UNCHANGED <<listed, form, changes>>

\* add_partitions(): Kafka takes a higher count only.
KafkaAdds ==
  /\ update.stage = "add"
  /\ topic.exists /\ update.form.input.partitions > topic.partitions
  /\ topic' = [topic EXCEPT !.partitions = update.form.input.partitions]
  /\ update' = Executes("added", {"partitions"})
  /\ UNCHANGED <<listed, form, changes>>

\* edit(): SET the changed settings, DELETE the reset ones, leave the others.
Altered(config, f) ==
  [s \in Settings |->
     IF ConfigChange(f, s) = NoChange THEN config[s]
     ELSE IF ConfigChange(f, s) = Reset THEN Inherited(s)
     ELSE Override(ConfigChange(f, s))]

KafkaAlters ==
  /\ update.stage = "alter"
  /\ topic.exists
  /\ topic' = [topic EXCEPT !.config = Altered(@, update.form)]
  /\ update' = Executes("altered", ChangedSettings(update.form))
  /\ UNCHANGED <<listed, form, changes>>

\* delete().
KafkaDeletes ==
  /\ update.stage = "delete"
  /\ topic.exists
  /\ topic' = NoTopic
  /\ update' = Executes("deleted", {"topic"})
  /\ UNCHANGED <<listed, form, changes>>

\* A call returns: the next call, or the notification that all is done.
CallReturns ==
  /\ update.stage \in {"created", "added", "altered", "deleted"}
  /\ LET more == update.stage = "added" /\ ChangedSettings(update.form) # {} IN
     update' = Updated(IF more THEN "alter" ELSE "told", TRUE,
                       IF update.stage = "added" THEN "partial" ELSE update.title,
                       IF more THEN update.told ELSE "done", update.done)
  /\ UNCHANGED <<topic, listed, form, changes>>

\* A defect: the title of an update which has changed nothing.
TitleOfNothing == "failed"

\* The title of the error of the call that raised.
ErrorTitle == update.title

\* A call raises, whether Kafka refused it, has executed it, or will not.
CallRaises ==
  /\ ~Idle
  /\ update' = Updated("told", update.changed, update.title, ErrorTitle, update.done)
  /\ UNCHANGED <<topic, listed, form, changes>>
----------------------------------------------------------------------------
(* The topic's other clients.                                              *)

OthersChange ==
  /\ form.stage \notin {"closed", "create"} \/ ~Idle
  /\ changes < OtherChanges
  /\ changes' = changes + 1
  /\ topic.exists
  /\ \/ topic' = NoTopic
     \/ \E n \in topic.partitions + 1 .. MaxPartitions : topic' = [topic EXCEPT !.partitions = n]
     \/ \E s \in Settings : \E held \in Held(s) \ {topic.config[s]} :
          topic' = [topic EXCEPT !.config[s] = held]
  /\ UNCHANGED <<listed, form, update>>
----------------------------------------------------------------------------
EditNext ==
  \/ ListRefreshed
  \/ ActionEdit \/ ConfigsLoaded \/ LoadFails \/ Save \/ Back \/ ApplyChanges
  \/ ActionNew \/ ActionCreate
  \/ ActionDelete \/ ConfirmDeletion
  \/ KafkaCreates \/ KafkaAdds \/ KafkaAlters \/ KafkaDeletes
  \/ CallReturns \/ CallRaises
  \/ OthersChange

EditSpec == EditInit /\ [][EditNext]_editVars
----------------------------------------------------------------------------
\* What the user left an input with, as the text Kafka would show.
Left(f, s) ==
  IF s # "cleanup.policy" THEN Canonical(f.input.number[s])
  ELSE IF f.input.policy = "none" THEN f.config[s].value
  ELSE f.input.policy

\* Cleared, a setting that was not overridden is what it was.
LeftAlone(f, s) ==
  \/ Left(f, s) = f.config[s].value
  \/ Left(f, s) = "" /\ ~f.config[s].overridden

\* An update writes a setting only if the user changed it in the form that was
\* reviewed, and then to what the form was left with, or to the cluster default
\* if it was cleared; whatever other clients changed since the form was opened
\* stays as they left it.
OthersChangesAreKept ==
  [][update.stage = "alter" /\ update'.stage = "altered" =>
       /\ topic'.partitions = topic.partitions
       /\ \A s \in Settings :
            topic'.config[s] = IF LeftAlone(update.form, s) THEN topic.config[s]
                               ELSE IF Left(update.form, s) = "" THEN Inherited(s)
                               ELSE Override(Left(update.form, s))]_<<topic, update>>

\* What the user is told of a change of two calls: "updated" says that Kafka
\* has executed all of the reviewed changes, "Topic Partially Updated" that it
\* has added the partitions, and a plain error that no call of it returned.
UpdateIsTold ==
  update.stage = "told" =>
    /\ update.told = "done" =>
         \/ "topic" \in update.done
         \/ update.done = ChangedSettings(update.form)
                            \cup (IF MorePartitions(update.form) THEN {"partitions"} ELSE {})
    /\ update.told = "partial" => "partitions" \in update.done
    /\ update.told = "failed" => ~update.changed
============================================================================

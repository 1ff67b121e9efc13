------------------------ MODULE BuildDefinitionContents ------------------------
(***************************************************************************)
(* What a BuildDefinition's parameters make of a definition, and when a    *)
(* definition counts as up to date with them                               *)
(* (internal/controller/builddefinition/builddefinition.go).  The type is  *)
(* left out: it is "build" in all the controller makes.  Of a repository's *)
(* name, default branch and URL, which are treated alike, the branch is    *)
(* kept.                                                                   *)
(***************************************************************************)
EXTENDS Spellings, Sequences, SequencesExt

CONSTANT MaxGroups   \* bound: variable groups linked to a definition

Root == "\\"
TriggerTypes == {"ci", "pr", "schedule"}

GroupTexts == BoundedSeq(NumberTexts, MaxGroups)
GroupIds == {s \in BoundedSeq(Numbers, MaxGroups) : IsInjective(s)}

\* By field, the values it may have in a CR.  repositoryRef stands for the
\* GitRepository the CR refers to: its default branch, which may be empty.
Parameters == [
  name |-> Texts, path |-> Texts \cup {Empty, Root}, project |-> GuidTexts36,
  repository |-> GuidTexts36, repositoryRef |-> Texts \cup {None, Empty},
  yamlPath |-> Texts, groups |-> GroupTexts, ci |-> BOOLEAN, pr |-> BOOLEAN]

\* By field, what an administrator may make of it.  A definition without a
\* YAML file has a process of another type; rest is all there is besides.
Fields == [
  name |-> Texts, path |-> Texts \cup {Root},
  repository |-> [id : Guids, branch : Texts], yamlFile |-> Texts \cup {None},
  triggers |-> SUBSET TriggerTypes, groups |-> GroupIds, rest |-> Texts]

\* By field, what it may hold, made by the controller or by an administrator.
Definition == [
  name |-> Texts, path |-> Texts \cup {Root}, project |-> Guids,
  repository |-> [id : Guids, branch : Texts \cup {Empty}], yamlFile |-> Texts \cup {None},
  triggers |-> SUBSET TriggerTypes, groups |-> Seq(Numbers), rest |-> Texts \cup {Empty}]

NormalizePath(path) == IF path = Empty THEN Root ELSE path

DesiredTriggers(p) == {t \in {"ci", "pr"} : p[t]}

\* The parameters can be sent: current is None when the definition is created.
Accepted(p, current) ==
  /\ current # None => GuidString(current.project) = p.project
  /\ \A i \in DOMAIN p.groups : IsNumber(p.groups[i])

\* Seeded fault: the branch is not carried over.
DesiredRepository_Afresh(p, current) ==
  [id |-> ParseUUID(p.repository),
   branch |-> IF p.repositoryRef = None THEN Empty ELSE p.repositoryRef]

\* A repository that stays keeps what the spec does not say of it, unless the
\* referenced GitRepository says it.
DesiredRepository(p, current) ==
  LET stays == current # None /\ GuidString(current.repository.id) = p.repository
      kept == IF stays THEN current.repository.branch ELSE Empty
  IN [id |-> ParseUUID(p.repository),
      branch |-> IF p.repositoryRef \in {None, Empty} THEN kept ELSE p.repositoryRef]

\* The definition sent to Azure DevOps: a copy of the current one, changed
\* where the spec has a word for it.
Desired(p, current) ==
  [name |-> p.name,
   path |-> NormalizePath(p.path),
   project |-> ParseUUID(p.project),
   repository |-> DesiredRepository(p, current),
   yamlFile |-> p.yamlPath,
   triggers |-> DesiredTriggers(p),
   groups |-> [i \in DOMAIN p.groups |-> Atoi(p.groups[i])],
   rest |-> IF current = None THEN Empty ELSE current.rest]

\* Seeded fault: groups are found by their numbers, however many there are.
GroupsMatch_AnyOf(texts, groups) ==
  \A i \in DOMAIN texts : \E j \in DOMAIN groups : Itoa(groups[j]) = texts[i]

GroupsMatch(texts, groups) ==
  /\ Len(texts) = Len(groups)
  /\ \A i \in DOMAIN texts : \E j \in DOMAIN groups : Itoa(groups[j]) = texts[i]

TriggersMatch(p, triggers) == triggers = DesiredTriggers(p)

\* None, a process without a YAML file, is no path.
YamlProcessMatches(path, yamlFile) == yamlFile = path

IsUpToDate(p, definition) ==
  /\ definition.name = p.name
  /\ definition.path = NormalizePath(p.path)
  /\ GuidString(definition.project) = p.project
  /\ GuidString(definition.repository.id) = p.repository
  /\ YamlProcessMatches(p.yamlPath, definition.yamlFile)
  /\ TriggersMatch(p, definition.triggers)
  /\ GroupsMatch(p.groups, definition.groups)

-----------------------------------------------------------------------------
(* What the two stand for, whatever the spelling *)

Asked(p) ==
  [name |-> p.name, folder |-> IF p.path \in {Empty, Root} THEN Root ELSE p.path,
   repository |-> p.repository.guid, yamlFile |-> p.yamlPath,
   ci |-> p.ci, pr |-> p.pr, schedule |-> FALSE,
   groups |-> {p.groups[i].value : i \in DOMAIN p.groups}]

Meaning(definition) ==
  [name |-> definition.name, folder |-> definition.path,
   repository |-> definition.repository.id, yamlFile |-> definition.yamlFile,
   ci |-> "ci" \in definition.triggers, pr |-> "pr" \in definition.triggers,
   schedule |-> "schedule" \in definition.triggers,
   groups |-> {definition.groups[i] : i \in DOMAIN definition.groups}]

\* Spellings Azure DevOps does not answer with: never found up to date, and a
\* project's is taken for a change of project.
Canonical(p) ==
  /\ p.project.form = "canonical" /\ p.repository.form = "canonical"
  /\ \A i \in DOMAIN p.groups : p.groups[i].form = "plain"

\* A group named twice hides that another one is linked.
Distinct(p) == IsInjective(p.groups)

\* What the spec has no word for is the same in two definitions.
SameRest(p, before, after) ==
  /\ after.rest = before.rest
  /\ p.repositoryRef \in {None, Empty} /\ before.repository.id = p.repository.guid
       => after.repository.branch = before.repository.branch
================================================================================

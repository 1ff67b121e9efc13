------------------------- MODULE VariableGroupContents -------------------------
(***************************************************************************)
(* What a VariableGroup's parameters make of a group of several variables, *)
(* and when a group counts as up to date with them                         *)
(* (internal/controller/variablegroup/variablegroup.go); that the values   *)
(* of secrets are compared by digests is in VariableGroupController.       *)
(***************************************************************************)
EXTENDS Spellings

CONSTANT Names   \* of variables

\* A variable as the user writes it: value is the plain text, from the content
\* of the Secret's key it is copied from, None without valueFrom.
Variables == [value : Texts \cup {Empty}, isSecret : BOOLEAN, from : Texts \cup {None, Empty}]

KeyVaults == [endpoint : GuidTexts, vault : Texts]

\* By field, the values it may have in a CR, besides its variables.  Names tell
\* those apart: the CRD makes them a map.
Parameters == [
  name |-> Texts, description |-> Texts \cup {Empty}, project |-> GuidTexts, keyVault |-> KeyVaults \cup {None}]

\* All of them.
ParametersAndVariables == [
  name |-> Texts, description |-> Texts \cup {Empty}, project |-> GuidTexts, keyVault |-> KeyVaults \cup {None},
  variables |-> [Names -> Variables \cup {None}]]

\* What an edit makes of a CR.
Edits(p) ==
  Changed(p, Parameters) \cup {[p EXCEPT !.variables[n] = v] : n \in Names, v \in Variables \cup {None}}

\* A variable as Azure DevOps has it.
Values == [value : Texts \cup {Empty}, isSecret : BOOLEAN]

\* By field, what an administrator may make of it.
Fields == [
  name |-> Texts, description |-> Texts \cup {Empty}, projects |-> (SUBSET Guids) \ {{}},
  content |-> [type : {"Vsts"}, variables : [Names -> Values \cup {None}]]
              \cup [type : {"AzureKeyVault"}, endpoint : Guids, vault : Texts]]

\* By field, what it may hold, made by the controller or by an administrator.
Group == [
  name |-> Texts, description |-> Texts \cup {Empty}, projects |-> SUBSET Guids,
  content |-> [type : {"Vsts", Empty}, variables : [Names -> Values \cup {None}]]
              \cup [type : {"AzureKeyVault"}, endpoint : Guids, vault : Texts]]

NoVariables == [n \in Names |-> None]

ValidVariable(v) ==
  /\ v.value = Empty \/ v.from = None
  /\ v.isSecret => v.from # None

Accepted(p) ==
  /\ \A n \in Names : p.variables[n] # None => ValidVariable(p.variables[n])
  /\ p.keyVault # None => p.variables = NoVariables

ResolveVariables(variables) ==
  [n \in Names |->
     LET v == variables[n]
     IN IF v = None THEN None
        ELSE [value |-> IF v.from = None THEN v.value ELSE v.from, isSecret |-> v.isSecret]]

\* The group sent to Azure DevOps, which the current one has no part in.
Desired(p) ==
  [name |-> p.name,
   description |-> p.description,
   projects |-> {ParseUUID(p.project)},
   content |->
     IF p.keyVault # None
     THEN [type |-> "AzureKeyVault", endpoint |-> ParseUUID(p.keyVault.endpoint), vault |-> p.keyVault.vault]
     ELSE [type |-> "Vsts", variables |-> ResolveVariables(p.variables)]]

\* Azure DevOps may leave the type of a group of variables out.
Answers(sent) ==
  {sent} \cup (IF sent.content.type = "Vsts" THEN {[sent EXCEPT !.content.type = Empty]} ELSE {})

\* Seeded fault: a type that is left out is no type.
NormalizeType_Strict(type) == type

NormalizeType(type) == IF type = Empty THEN "Vsts" ELSE type

KeyVaultUpToDate(keyVault, content) ==
  /\ NormalizeType(content.type) = "AzureKeyVault"
  /\ content.vault = keyVault.vault
  /\ GuidString(content.endpoint) = keyVault.endpoint

\* Seeded fault: variables the spec does not name are left out of account.
VariablesUpToDate_Named(variables, content) ==
  /\ NormalizeType(content.type) = "Vsts"
  /\ \A n \in {m \in Names : variables[m] # None} :
       /\ content.variables[n] # None
       /\ content.variables[n].isSecret = variables[n].isSecret
       /\ variables[n].isSecret \/ content.variables[n].value = variables[n].value

\* The values of secrets are not to be seen.
VariablesUpToDate(variables, content) ==
  LET named == {n \in Names : variables[n] # None}
  IN /\ NormalizeType(content.type) = "Vsts"
     /\ {n \in Names : content.variables[n] # None} = named
     /\ \A n \in named :
          /\ content.variables[n].isSecret = variables[n].isSecret
          /\ variables[n].isSecret \/ content.variables[n].value = variables[n].value

ProjectReferencesMatch(project, projects) == \E g \in Guids : projects = {g} /\ EqualFold(g, project)

IsUpToDate(p, group) ==
  /\ group.name = p.name /\ group.description = p.description
  /\ ProjectReferencesMatch(p.project, group.projects)
  /\ IF p.keyVault # None THEN KeyVaultUpToDate(p.keyVault, group.content)
     ELSE VariablesUpToDate(p.variables, group.content)

-----------------------------------------------------------------------------
(* What the two stand for, whatever the spelling and but for secret values *)

Shown(variables) ==
  {[name |-> n, value |-> IF variables[n].isSecret THEN None ELSE variables[n].value] :
     n \in {m \in Names : variables[m] # None}}

Asked(p) ==
  [name |-> p.name, description |-> p.description, projects |-> {p.project.guid},
   vault |-> IF p.keyVault = None THEN None ELSE <<p.keyVault.endpoint.guid, p.keyVault.vault>>,
   variables |-> IF p.keyVault = None THEN Shown(ResolveVariables(p.variables)) ELSE {}]

Meaning(group) ==
  LET vault == group.content.type = "AzureKeyVault"
  IN [name |-> group.name, description |-> group.description, projects |-> group.projects,
      vault |-> IF vault THEN <<group.content.endpoint, group.content.vault>> ELSE None,
      variables |-> IF vault THEN {} ELSE Shown(group.content.variables)]

\* Spellings Azure DevOps does not answer with, which are never found up to
\* date.  A project's may be in upper case.
Canonical(p) ==
  /\ p.project.form # "braced"
  /\ p.keyVault # None => p.keyVault.endpoint.form = "canonical"

\* A variable copied from a Secret without being one: its text is compared
\* with the value of the spec, which is empty.
CopiesNone(p) ==
  \A n \in Names : p.variables[n] = None \/ p.variables[n].isSecret \/ p.variables[n].from = None
================================================================================

--------------------------- MODULE ResourceContents ---------------------------
(***************************************************************************)
(* One CR of one of four kinds and its resource, as far as what they say:  *)
(* the user edits the CR field by field, administrators edit or delete the *)
(* resource, and the controller makes, compares and updates it.  How the   *)
(* resource is found, and what becomes of calls that fail, is in the       *)
(* kinds' own modules.                                                     *)
(***************************************************************************)
EXTENDS Spellings, Sequences

CONSTANTS
  Kinds,        \* the kinds of this instance
  Names,        \* of variables
  MaxGroups,    \* bound: variable groups linked to a definition
  MaxChanges    \* bound: edits by the user and by administrators

BD == INSTANCE BuildDefinitionContents
BP == INSTANCE BranchPolicyContents
VG == INSTANCE VariableGroupContents
ARM == INSTANCE ServiceEndpointAzureRMContents

AllKinds == {"builddefinition", "branchpolicy", "variablegroup", "azurerm"}

ASSUME ContentsAssumption ==
  /\ Kinds \subseteq AllKinds
  /\ Texts # {} /\ Guids # {} /\ 1 \in Numbers
  /\ None \notin VG!Values \cup VG!KeyVaults
  /\ MaxGroups \in Nat \ {0} /\ MaxChanges \in Nat

VARIABLES
  kind,       \* of the CR
  asked,      \* the parameters as the user gave them
  spec,       \* the parameters as the API server has them
  resource,   \* what Azure DevOps has, or None
  reconcile,  \* where it is, its copy of the parameters, and of the resource
  changes     \* what counts towards MaxChanges so far

contentsVars == <<kind, asked, spec, resource, reconcile, changes>>

NoReconcile == [pc |-> "idle"]

\* Kinds whose Update reads the resource before it writes it.
Reads == kind \in {"builddefinition", "branchpolicy"}

Change == changes < MaxChanges /\ changes' = changes + 1

-----------------------------------------------------------------------------
(* The user, administrators, and Azure DevOps *)

SomeText == CHOOSE t \in Texts : TRUE
SomeGuid == [guid |-> CHOOSE g \in Guids : TRUE, form |-> "canonical"]

\* CRs to begin with: most of what tells CRs apart is left to edits.
FirstAsked(k) ==
  CASE k = "builddefinition" ->
         [name : {SomeText}, path : {Empty}, project : {SomeGuid}, repository : {SomeGuid}, repositoryRef : {None},
          yamlPath : {SomeText}, groups : {<<>>, <<Itoa(1)>>}, ci : BOOLEAN, pr : BOOLEAN]
    [] k = "branchpolicy" ->
         [repository : {SomeGuid}, branch : {[stem |-> SomeText, form |-> f] : f \in {"exact", "prefix"}},
          minimumApproverCount : {1}, flags : {{}}, enabled : BOOLEAN, blocking : BOOLEAN]
    [] k = "variablegroup" ->
         [name : {SomeText}, description : {Empty}, project : {SomeGuid},
          variables : [Names -> {None, [value |-> SomeText, isSecret |-> FALSE, from |-> None],
                                 [value |-> Empty, isSecret |-> TRUE, from |-> SomeText]}], keyVault : {None}]
    [] k = "azurerm" ->
         [name : {SomeText}, subscription : {SomeText}, tenant : {SomeText}, resourceGroup : {Empty, SomeText},
          schemes : {{"ServicePrincipal"}, {"WorkloadIdentityFederation"}}, client : {SomeText}, key : {SomeText}]

Edit ==
  /\ Change
  /\ \E p \in CASE kind = "builddefinition" -> Changed(asked, BD!Parameters)
                [] kind = "branchpolicy"    -> Changed(asked, BP!Parameters)
                [] kind = "variablegroup"   -> VG!Edits(asked)
                [] kind = "azurerm"         -> Changed(asked, ARM!Parameters) :
       /\ asked' = p /\ spec' = p
  /\ UNCHANGED <<kind, resource, reconcile>>

Administer ==
  /\ Change /\ resource # None
  /\ resource' \in {None} \cup
       CASE kind = "builddefinition" -> Changed(resource, BD!Fields)
         [] kind = "branchpolicy"    -> Changed(resource, BP!Fields)
         [] kind = "variablegroup"   -> Changed(resource, VG!Fields)
         [] kind = "azurerm"         -> Changed(resource, ARM!Fields)
  /\ UNCHANGED <<kind, asked, spec, reconcile>>

\* What a payload may become in Azure DevOps.
Answers(sent) ==
  CASE kind = "builddefinition" -> {sent}
    [] kind = "branchpolicy"    -> BP!Answers(sent)
    [] kind = "variablegroup"   -> VG!Answers(sent)
    [] kind = "azurerm"         -> ARM!Answers(sent)

\* A definition is taken only if it is of the latest revision.
Latest == kind = "builddefinition" => resource = reconcile.resource

-----------------------------------------------------------------------------
(* The controller *)

Written(p) == IF kind = "branchpolicy" THEN BP!Written(p) ELSE p

Accepted(p, current) ==
  CASE kind = "builddefinition" -> BD!Accepted(p, current)
    [] kind = "branchpolicy"    -> BP!Accepted(p, current)
    [] kind = "variablegroup"   -> VG!Accepted(p)
    [] kind = "azurerm"         -> ARM!Accepted(p)

Desired(p, current) ==
  CASE kind = "builddefinition" -> BD!Desired(p, current)
    [] kind = "branchpolicy"    -> BP!Desired(p, current)
    [] kind = "variablegroup"   -> VG!Desired(p)
    [] kind = "azurerm"         -> ARM!Desired(p)

\* A policy that is not Managed is an error of Observe.
Comparable == kind = "branchpolicy" => BP!Managed(resource)

IsUpToDate(p, r) ==
  CASE kind = "builddefinition" -> BD!IsUpToDate(p, r)
    [] kind = "branchpolicy"    -> BP!IsUpToDate(p, r)
    [] kind = "variablegroup"   -> VG!IsUpToDate(p, r)
    [] kind = "azurerm"         -> ARM!IsUpToDate(p, r)

\* Observe finds nothing; the CR is marked, all of it being written, and
\* created from what the API server made of it.
MarkPending ==
  /\ reconcile.pc = "idle" /\ resource = None
  /\ spec' = Written(spec)
  /\ reconcile' = [pc |-> "create", spec |-> spec']
  /\ UNCHANGED <<kind, asked, resource, changes>>

Create ==
  /\ reconcile.pc = "create" /\ resource = None
  /\ Accepted(reconcile.spec, None)
  /\ resource' \in Answers(Desired(reconcile.spec, None))
  /\ reconcile' = NoReconcile
  /\ UNCHANGED <<kind, asked, spec, changes>>

Observe ==
  /\ reconcile.pc = "idle" /\ resource # None
  /\ Comparable /\ ~IsUpToDate(spec, resource)
  /\ reconcile' = IF Reads THEN [pc |-> "read", spec |-> spec] ELSE [pc |-> "update", spec |-> spec, resource |-> None]
  /\ UNCHANGED <<kind, asked, spec, resource, changes>>

ReadCurrent ==
  /\ reconcile.pc = "read" /\ resource # None
  /\ reconcile' = [pc |-> "update", spec |-> reconcile.spec, resource |-> resource]
  /\ UNCHANGED <<kind, asked, spec, resource, changes>>

Update ==
  /\ reconcile.pc = "update" /\ resource # None /\ Latest
  /\ Accepted(reconcile.spec, reconcile.resource)
  /\ resource' \in Answers(Desired(reconcile.spec, reconcile.resource))
  /\ reconcile' = NoReconcile
  /\ UNCHANGED <<kind, asked, spec, changes>>

\* A call or a check that fails, or a crash.
GiveUp ==
  /\ reconcile.pc # "idle"
  /\ reconcile' = NoReconcile
  /\ UNCHANGED <<kind, asked, spec, resource, changes>>

ContentsInit ==
  /\ kind \in Kinds
  /\ asked \in FirstAsked(kind)
  /\ spec = asked
  /\ resource = None
  /\ reconcile = NoReconcile
  /\ changes = 0

ContentsNext == Edit \/ Administer \/ MarkPending \/ Create \/ Observe \/ ReadCurrent \/ Update \/ GiveUp

ContentsSpec == ContentsInit /\ [][ContentsNext]_contentsVars

-----------------------------------------------------------------------------
(* Properties *)

ParametersOf(k) ==
  CASE k = "builddefinition" -> BD!Parameters
    [] k = "branchpolicy"    -> BP!Parameters
    [] k = "variablegroup"   -> VG!ParametersAndVariables
    [] k = "azurerm"         -> ARM!Parameters

FieldsOf(k) ==
  CASE k = "builddefinition" -> BD!Definition
    [] k = "branchpolicy"    -> BP!Policy
    [] k = "variablegroup"   -> VG!Group
    [] k = "azurerm"         -> ARM!Endpoint

ContentsTypeOK ==
  /\ kind \in Kinds
  /\ IsRecord(asked, ParametersOf(kind)) /\ IsRecord(spec, ParametersOf(kind))
  /\ resource # None => IsRecord(resource, FieldsOf(kind))
  /\ reconcile.pc \in {"idle", "create", "read", "update"}
  /\ reconcile.pc # "idle" => IsRecord(reconcile.spec, ParametersOf(kind))
  /\ changes \in Nat

\* What the API server has is what the user gave, but for the defaults that it
\* put in when the CR was written as a whole.
Stored == spec \in {asked, Written(asked)}

\* The inductive invariant. The properties below follow from it for any copy a
\* reconcile works on, however old.
ContentsInv == ContentsTypeOK /\ Stored

\* An Observe that finds the resource up to date is right about it: the
\* resource is what the user's parameters stand for, whichever of the two was
\* changed, and in any spelling.  Not so where a variable's value is copied
\* from a Secret, or a variable group is linked twice (isUpToDate of each kind).
NoticesEdits ==
  resource # None /\ Comparable /\ IsUpToDate(spec, resource) =>
    CASE kind = "builddefinition" -> BD!Distinct(spec) => BD!Meaning(resource) = BD!Asked(spec)
      [] kind = "branchpolicy"    -> BP!Meaning(resource) = BP!Asked(spec)
      [] kind = "variablegroup"   -> VG!CopiesNone(spec) => VG!Meaning(resource) = VG!Asked(spec)
      [] kind = "azurerm"         -> ARM!Meaning(resource) = ARM!Asked(spec)

\* The parameters are spelled as Azure DevOps answers, where texts are compared.
Settleable(p) ==
  CASE kind = "builddefinition" -> BD!Canonical(p)
    [] kind = "branchpolicy"    -> BP!Canonical(p)
    [] kind = "variablegroup"   -> VG!Canonical(p) /\ VG!CopiesNone(p)
    [] kind = "azurerm"         -> TRUE

\* What a Create or an Update has sent, and Azure DevOps has taken, is found up
\* to date from then on, however it is written down there: the controller does
\* not update a resource again and again that nobody touches.
SettlesOnce == [][(Create \/ Update) /\ Settleable(reconcile.spec) => IsUpToDate(reconcile.spec, resource')]_contentsVars

\* An Update leaves alone what the parameters have no word for, also what an
\* administrator changes between the Update's read and its write: a definition
\* is then refused for its revision, a policy is only as good as its read.
KeepsTheRest ==
  [][Update /\ Settleable(reconcile.spec) =>
       CASE kind = "builddefinition" -> BD!SameRest(reconcile.spec, resource, resource')
         [] kind = "branchpolicy"    -> reconcile.resource = resource => BP!SameRest(resource, resource')
         [] OTHER                    -> TRUE]_contentsVars

\* A policy that is found up to date is active and blocking where the user
\* asked for that: the defaults that the API server puts in are the stricter ones.
AtLeastAsAsked ==
  kind = "branchpolicy" /\ resource # None /\ Comparable /\ IsUpToDate(spec, resource) =>
    /\ asked.enabled => resource.enabled
    /\ asked.blocking => resource.blocking

\* A policy that is found up to date is active if the user asked for an active
\* one: "Enabled controls whether the policy is active"
\* (branchpolicyminreviewers_types.go).  It does not hold: a CR that asks for a
\* policy that is not active is written as a whole before the policy is made,
\* without the field, and the API server puts its default in.
ActiveAsAsked ==
  kind = "branchpolicy" /\ resource # None /\ Comparable /\ IsUpToDate(spec, resource) => resource.enabled = asked.enabled
================================================================================

------------------------ MODULE VariableGroupController ------------------------
(***************************************************************************)
(* The VariableGroup controller (internal/controller/variablegroup): one   *)
(* VariableGroup CR, the variable groups of Azure DevOps, which are known  *)
(* by the numbers Azure DevOps gives them, and the Kubernetes Secret a     *)
(* variable may take its value from.  The Secret's value is not readable   *)
(* in Azure DevOps again, so the CR carries a digest of what was sent in   *)
(* an annotation (ann).                                                    *)
(***************************************************************************)
EXTENDS ManagedReconciler, Sequences

CONSTANTS
  Projects,    \* project GUIDs
  GroupNames,  \* variable group names
  Values,      \* what the Secret may hold under the referenced key
  Forms        \* the forms the spec's variables take here

VARIABLES
  groups,   \* groups[i]: the variable group with number i
  secret,   \* the referenced Secret's value; None while it or its key is missing
  payload,  \* the value the running reconcile resolved, to be sent
  moved     \* history: the user has moved the spec to another project

serviceVars == <<groups, secret, payload, moved>>
vars == <<runtimeVars, serviceVars>>

(***************************************************************************)
(* The forms of a variable: "plain" has no Secret behind it (inline values *)
(* or a key vault), "secret" is isSecret with valueFrom, "copied" has      *)
(* valueFrom without isSecret, and "invalid" is isSecret without           *)
(* valueFrom, one of the things validateParameters refuses.                *)
(***************************************************************************)
VariableForms == {"plain", "secret", "copied", "invalid"}

VariableGroupParameters == [project : Projects, name : GroupNames, form : Forms]

ASSUME VariableGroupAssumption ==
  /\ Forms \subseteq VariableForms
  /\ None \notin Values \cup Nat \cup VariableGroupParameters

Numbers == DOMAIN groups

\* owner: who the group is for.  "us": the controller created it; "named": the
\* user gave its number to the CR; "others": neither.  heard: the response to
\* its creation reached the controller.
NewGroup(p, value) ==
  [there |-> TRUE, project |-> p.project, name |-> p.name, form |-> p.form,
   value |-> value, owner |-> "us", heard |-> FALSE]

ForeignGroup(project, name, owner) ==
  [NewGroup([project |-> project, name |-> name, form |-> "plain"], None)
     EXCEPT !.owner = owner]

Kept(i) == groups[i].there /\ groups[i].owner = "us" /\ groups[i].heard

\* Names are unique in a project.
Taken(project, name) ==
  {i \in Numbers : groups[i].there /\ groups[i].project = project /\ groups[i].name = name}

-----------------------------------------------------------------------------
(* The handlers *)

\* The external-name if there is one, else the number in the status.
VariableGroupIDFrom(object) == IF object.name # None THEN object.name ELSE object.status

\* A request finds a group only in the project it names.
Get(project, i) == i \in Numbers /\ groups[i].there /\ groups[i].project = project

\* A value copied from the Secret without isSecret is compared with the spec's
\* own, empty, value and never found up to date; an invalid variable never is
\* either.
IsUpToDate(p, group) == group.name = p.name /\ group.form = p.form /\ p.form # "copied"

Resolves(form) == form \in {"secret", "copied"}

\* What validateParameters lets through.
Valid(p) == p.form # "invalid"

\* What a digest tells: whether it was made of a value.  Each is salted anew.
Hash(value) == [madeOf |-> value]
Matches(value, digest) == digest = Hash(value)

SecretsUpToDate(object) == object.spec.form = "secret" => Matches(secret, object.ann)

\* Seeded fault: an unreadable Secret counts as a group that is missing.
Observe_SecretMissing ==
  LET i == VariableGroupIDFrom(mem)
      p == mem.spec
      found == Get(p.project, i)
      blind == p.form = "secret" /\ secret = None
      seen == [mem EXCEPT !.status = i]
  IN /\ ObserveReturns(IF found THEN seen ELSE mem,
           CASE ~found \/ blind -> "missing"
             [] ~blind /\ found /\ IsUpToDate(p, groups[i]) /\ SecretsUpToDate(mem) -> "current"
             [] OTHER -> "stale")
     /\ UNCHANGED <<faults, serviceVars>>

(***************************************************************************)
(* The Secret is read only when everything else is up to date, and then    *)
(* also for a CR that is being deleted; without it Observe fails, after it *)
(* has set the status.                                                     *)
(***************************************************************************)
Observe ==
  LET i == VariableGroupIDFrom(mem)
      p == mem.spec
      seen == [mem EXCEPT !.status = i]
  IN /\ \/ /\ Fault
           /\ ObserveReturns(mem, "status")
        \/ /\ ~Get(p.project, i)
           /\ ObserveReturns(mem, "missing")
           /\ UNCHANGED faults
        \/ /\ Get(p.project, i) /\ ~IsUpToDate(p, groups[i])
           /\ ObserveReturns(seen, "stale")
           /\ UNCHANGED faults
        \/ /\ Get(p.project, i) /\ IsUpToDate(p, groups[i])
           /\ IF p.form = "secret" /\ secret = None
                THEN ObserveReturns(seen, "status")
                ELSE ObserveReturns(seen, IF SecretsUpToDate(mem) THEN "current" ELSE "stale")
           /\ UNCHANGED faults
     /\ UNCHANGED serviceVars

\* Seeded fault: the spec is not validated.
BuildVariableGroupParameters_Unvalidated(next, failed) ==
  /\ Resolves(mem.spec.form) => secret # None
  /\ payload' = IF Resolves(mem.spec.form) THEN secret ELSE None
  /\ pc' = next
  /\ UNCHANGED <<api, cache, mem, fresh, edits, faults, groups, secret, moved>>

\* Validate the spec and resolve the Secret; the value is on its way from here
\* on, whatever becomes of the Secret.
BuildVariableGroupParameters(next, failed) ==
  /\ \/ /\ ~Valid(mem.spec) \/ (Resolves(mem.spec.form) /\ secret = None)
        /\ pc' = failed
        /\ UNCHANGED <<payload, faults>>
     \/ /\ Fault
        /\ pc' = failed
        /\ UNCHANGED payload
     \/ /\ Valid(mem.spec)
        /\ Resolves(mem.spec.form) => secret # None
        /\ payload' = IF Resolves(mem.spec.form) THEN secret ELSE None
        /\ pc' = next
        /\ UNCHANGED faults
  /\ UNCHANGED <<api, cache, mem, fresh, edits, groups, secret, moved>>

\* Seeded fault: the digest is taken of the Secret as it is by now.
SetSecretsHashAnnotation_Now(object) ==
  IF object.spec.form = "secret" THEN [object EXCEPT !.ann = Hash(secret)] ELSE object

\* The digest is of what was sent.  Without secret variables there is none, and
\* the one an earlier spec left stays.
SetSecretsHashAnnotation(object) ==
  IF object.spec.form = "secret" THEN [object EXCEPT !.ann = Hash(payload)] ELSE object

\* Seeded fault: a group that has the name already is taken over.
AddVariableGroup_Adopts ==
  /\ pc = "add"
  /\ \/ /\ \E i \in Taken(mem.spec.project, mem.spec.name) : mem' = [mem EXCEPT !.name = i]
        /\ UNCHANGED groups
     \/ /\ Taken(mem.spec.project, mem.spec.name) = {}
        /\ groups' = Append(groups, [NewGroup(mem.spec, payload) EXCEPT !.heard = TRUE])
        /\ mem' = [mem EXCEPT !.name = Len(groups')]
  /\ pc' = "created" /\ payload' = None
  /\ UNCHANGED <<api, cache, fresh, edits, faults, secret, moved>>

\* Seeded fault: the external-name is set after the digest.
AddVariableGroup_NameLast ==
  /\ pc = "add" /\ Taken(mem.spec.project, mem.spec.name) = {}
  /\ groups' = Append(groups, [NewGroup(mem.spec, payload) EXCEPT !.heard = TRUE])
  /\ \/ Fault /\ pc' = "createFailed" /\ UNCHANGED mem
     \/ /\ mem' = SetSecretsHashAnnotation([mem EXCEPT !.name = Len(groups')])
        /\ pc' = "created" /\ UNCHANGED faults
  /\ payload' = None
  /\ UNCHANGED <<api, cache, fresh, edits, secret, moved>>

(***************************************************************************)
(* The rest of Create.  The request is refused when the name is taken; it  *)
(* or its response may be lost.  The digest comes after the external-name, *)
(* so that a digest that fails leaves the number recorded.                 *)
(***************************************************************************)
AddVariableGroup ==
  LET i == Len(groups) + 1
      group == NewGroup(mem.spec, payload)
      created == [mem EXCEPT !.name = i, !.status = i]
  IN /\ pc = "add"
     /\ \/ /\ Taken(mem.spec.project, mem.spec.name) # {}
           /\ pc' = "createFailed"
           /\ UNCHANGED <<mem, groups, faults>>
        \/ /\ Fault
           /\ groups' \in {groups} \cup
                IF Taken(mem.spec.project, mem.spec.name) = {} THEN {Append(groups, group)} ELSE {}
           /\ pc' = "createFailed"
           /\ UNCHANGED mem
        \/ /\ Taken(mem.spec.project, mem.spec.name) = {}
           /\ groups' = Append(groups, [group EXCEPT !.heard = TRUE])
           /\ \/ /\ mem' = SetSecretsHashAnnotation(created)
                 /\ pc' = "created" /\ UNCHANGED faults
              \/ /\ mem.spec.form = "secret" /\ Fault
                 /\ mem' = created
                 /\ pc' = "createFailed"
     /\ payload' = None
     /\ UNCHANGED <<api, cache, fresh, edits, secret, moved>>

Create ==
  \/ pc = "create" /\ BuildVariableGroupParameters("add", "createFailed")
  \/ AddVariableGroup

\* Seeded fault: nothing is sent.
UpdateVariableGroup_Skipped ==
  /\ pc = "update"
  /\ pc' = "status" /\ payload' = None
  /\ UNCHANGED <<api, cache, mem, fresh, edits, faults, groups, secret, moved>>

\* The whole group is replaced, wherever it is.  The new digest is set on a copy
\* of the CR whose annotations nobody stores.
UpdateVariableGroup ==
  LET i == VariableGroupIDFrom(mem)
      p == mem.spec
      accepted == i \in Numbers /\ groups[i].there /\ Taken(p.project, p.name) \subseteq {i}
      updated == [groups EXCEPT ![i].project = p.project, ![i].name = p.name,
                                ![i].form = p.form, ![i].value = payload]
  IN /\ pc = "update"
     /\ \/ /\ ~accepted
           /\ UNCHANGED <<groups, mem, faults>>
        \/ /\ Fault
           /\ groups' \in {groups} \cup IF accepted THEN {updated} ELSE {}
           /\ UNCHANGED mem
        \/ /\ accepted
           /\ groups' = updated
           /\ mem' = SetSecretsHashAnnotation([mem EXCEPT !.status = i])
           /\ UNCHANGED faults
     /\ pc' = "status" /\ payload' = None
     /\ UNCHANGED <<api, cache, fresh, edits, secret, moved>>

Update ==
  \/ /\ MayUpdate /\ VariableGroupIDFrom(mem) # None
     /\ BuildVariableGroupParameters("update", "status")
  \/ UpdateVariableGroup

\* Seeded fault: nothing is deleted.
Delete_Skipped ==
  /\ MayDelete
  /\ pc' = "status"
  /\ UNCHANGED <<api, cache, mem, fresh, edits, faults, serviceVars>>

\* The Secret is not read here.  A group that is gone is a success.
Delete ==
  LET i == VariableGroupIDFrom(mem)
      deleted == IF Get(mem.spec.project, i) THEN [groups EXCEPT ![i].there = FALSE] ELSE groups
  IN /\ MayDelete
     /\ \/ groups' = deleted /\ UNCHANGED faults
        \/ Fault /\ groups' \in {groups, deleted}
     /\ pc' = "status"
     /\ UNCHANGED <<api, cache, mem, fresh, edits, secret, payload, moved>>

\* This kind is set up without initializers: a CR has no external-name until
\* its group has a number.
ControllerStep ==
  \/ ReconcilerStep(FALSE) /\ UNCHANGED serviceVars
  \/ Observe \/ Create \/ Update \/ Delete

-----------------------------------------------------------------------------
(* Faults, the user and the organisation's administrators *)

Crash == Abort /\ payload' = None /\ UNCHANGED <<groups, secret, moved>>

UserStep ==
  \/ /\ \E p \in VariableGroupParameters :
          EditSpec(p) /\ moved' = (moved \/ p.project # api.spec.project)
     /\ UNCHANGED <<groups, secret, payload>>
  \/ RequestDelete /\ UNCHANGED serviceVars

RotateSecret ==
  /\ Edit
  /\ secret' \in (Values \cup {None}) \ {secret}
  /\ UNCHANGED <<api, cache, mem, fresh, pc, faults, groups, payload, moved>>

AdminCreates(project, name) ==
  /\ Taken(project, name) = {}
  /\ groups' = Append(groups, ForeignGroup(project, name, "others"))

AdminChanges(i) ==
  /\ groups[i].there
  /\ \/ groups' = [groups EXCEPT ![i].there = FALSE]
     \/ \E name \in GroupNames :
          /\ Taken(groups[i].project, name) = {}
          /\ groups' = [groups EXCEPT ![i].name = name]

AdminStep ==
  /\ Edit
  /\ \/ \E project \in Projects, name \in GroupNames : AdminCreates(project, name)
     \/ \E i \in Numbers : AdminChanges(i)
  /\ UNCHANGED <<api, cache, mem, fresh, pc, faults, secret, payload, moved>>

-----------------------------------------------------------------------------

\* Which project a CR starts in makes no difference, nor which name it asks for.
FirstProject == CHOOSE project \in Projects : TRUE

\* A new CR, or one whose user gave it the number of an existing group.
Init ==
  /\ LET first == {p \in VariableGroupParameters :
                     p.project = FirstProject /\ p.name = CHOOSE name \in GroupNames : TRUE}
     IN \/ /\ groups = <<>>
           /\ RuntimeInit({NewObject(p, None) : p \in first})
        \/ \E name \in GroupNames :
             /\ groups = <<ForeignGroup(FirstProject, name, "named")>>
             /\ RuntimeInit({NewObject(p, 1) : p \in first})
  /\ secret \in Values \cup {None}
  /\ payload = None /\ moved = FALSE

Next ==
  \/ ControllerStep
  \/ CacheSync /\ UNCHANGED serviceVars
  \/ Crash \/ UserStep \/ RotateSecret \/ AdminStep

Spec == Init /\ [][Next]_vars

\* As for the project controller: the work queue keeps handing the CR out, the
\* informer catches up and the creation grace period ends.
Fairness ==
  /\ WF_vars(ControllerStep)
  /\ WF_vars(CacheSync /\ UNCHANGED serviceVars)
  /\ SF_vars((RemoveFinalizer \/ MarkPending) /\ UNCHANGED serviceVars)

FairSpec == Spec /\ Fairness

-----------------------------------------------------------------------------
(* Properties *)

Object == Objects(Nat, {Hash(v) : v \in Values}, Nat, VariableGroupParameters)

Group ==
  [there : BOOLEAN, project : Projects, name : GroupNames, form : VariableForms \ {"invalid"},
   value : Values \cup {None}, owner : {"us", "named", "others"}, heard : BOOLEAN]

TypeOK ==
  /\ RuntimeTypeOK(Object, {"add", "update"})
  /\ groups \in Seq(Group)
  /\ secret \in Values \cup {None} /\ payload \in Values \cup {None}
  /\ moved \in BOOLEAN

\* A group is looked for in the spec's project only: one whose CR was moved is
\* lost to the controller, which creates another.
Held == {i \in Numbers : Kept(i) /\ ~moved}

Lifecycle == INSTANCE ExternalLifecycle
  WITH cr <- Stage, held <- Held, leaving <- {}

\* The promise of ExternalLifecycle for the groups whose creation the controller
\* heard of: whatever crashes, stale reads, failing digests, lost requests and
\* missing Secrets come between, it makes no second one and does not release a CR
\* whose group lives on (Observe, Create, Delete) -- unless the CR was moved.
KeepsLifecycle == Lifecycle!LifecycleSpec

\* The controller never comes to hold a group that the user did not name and
\* it did not create, not even when the name it asks for is taken (Create).
OwnGroup ==
  \A i \in Numbers : i \in {api.name, api.status} => groups[i].owner # "others"

\* The digest recorded with a creation is of the value Azure DevOps was sent,
\* also when the Secret is rotated while the request is on its way: the rotation
\* is seen at the next Observe instead of being taken for applied.
DigestOfSent ==
  pc = "created" /\ mem.spec.form = "secret" /\ groups[mem.name].there =>
    Matches(groups[mem.name].value, mem.ann)

\* Why the three hold: a number on any copy of the CR is that of a group the user
\* named or the controller made; what is sent was resolved for the spec at hand;
\* and a CR that was not moved is, in every copy, in the project of its group.
OwnNumbers == {i \in Numbers : groups[i].owner # "others"}

NamesOwn ==
  \A object \in {api, cache, mem} :
    {object.name, object.status} \subseteq OwnNumbers \cup {None}

Resolved ==
  pc \in {"add", "update"} =>
    Valid(mem.spec) /\ (mem.spec.form = "secret" => payload \in Values)

Numbered == pc = "created" => mem.name \in Numbers

InPlace ==
  ~moved => /\ \A object \in {api, cache, mem} :
                 object.spec # None => object.spec.project = FirstProject
            /\ \A i \in Held : groups[i].project = FirstProject

IInv ==
  /\ TypeOK /\ Attached(Held)
  /\ NamesOwn /\ Resolved /\ Numbered /\ InPlace /\ DigestOfSent

\* When the user asks for deletion, the CR is eventually gone -- unless a crash
\* left its creation pending, or the Secret it needs to be observed is missing.
DeletionCompletes ==
  api.del ~> \/ ~api.exists \/ api.create = "pending"
             \/ api.spec.form = "secret" /\ secret = None

\* Nothing the controller cannot help stands in the way of the spec: it is valid,
\* the Secret is there and nobody else has the name.
Possible ==
  /\ api.exists /\ ~api.del /\ api.create # "pending"
  /\ Valid(api.spec)
  /\ Resolves(api.spec.form) => secret # None
  /\ Taken(api.spec.project, api.spec.name) \subseteq {api.name}

\* Once nobody interferes any more, the group of a CR that is kept ends up and
\* stays with the name, the form and the readable value the spec gives it.
Converges ==
  <>[](Possible =>
    /\ Get(api.spec.project, api.name)
    /\ groups[api.name].name = api.spec.name /\ groups[api.name].form = api.spec.form
    /\ api.spec.form = "copied" => groups[api.name].value = secret)

\* What annotationSecretsHash is said to be for: when Observe finds everything up
\* to date, Azure DevOps holds the value the Secret holds.
RotationDetected ==
  [][pc = "observe" /\ pc' = "current" /\ mem.spec.form = "secret" =>
       groups[VariableGroupIDFrom(mem)].value = secret]_vars

\* CRs whose group the controller is to create.
CreatedSpec == Init /\ groups = <<>> /\ [][Next]_vars
=============================================================================

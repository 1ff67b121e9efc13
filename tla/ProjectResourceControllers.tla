----------------------- MODULE ProjectResourceControllers -----------------------
(***************************************************************************)
(* The six controllers of resources that live in a project and are known   *)
(* by an id: internal/controller/{team, gitrepository, environment,        *)
(* agentqueue, branchpolicyminreviewers, builddefinition}.  One CR of one  *)
(* kind and the resources of that kind in the organisation's projects.     *)
(* Azure DevOps looks a resource up in the project a request names, so all *)
(* depends on which project that is when the spec is moved to another one: *)
(* two of the six remember in an annotation (ann) where they found or made *)
(* theirs.                                                                 *)
(*                                                                         *)
(* The six are separate code of one shape.  The shape is stated once, in   *)
(* ...Item(...), and below it each controller with what is its own.        *)
(***************************************************************************)
EXTENDS ManagedReconciler, Sequences

CONSTANTS
  Projects,    \* ids of projects
  Names,       \* names of resources; the CR's own name may be one of them
  Values,      \* values of a setting; None is "not given", or an empty repository
  Origins,     \* what some are made of: a parent repository, an agent pool
  Unsupported  \* a policy setting the controller does not know

VARIABLES
  kind,   \* which of the six controllers this is
  items,  \* items[i]: the resource with the i-th id
  read,   \* what the running Update, or the end of Create, has read; or None
  moved   \* history: the user has moved the spec to another project

serviceVars == <<kind, items, read, moved>>
vars == <<runtimeVars, serviceVars>>

\* Those that remember the project.
Pinning == {"environment", "branchpolicy"}

Kinds == {"team", "gitrepository", "environment", "agentqueue", "branchpolicy", "builddefinition"}

\* setting: a team's or an environment's description, a repository's default
\* branch, the settings of a policy or a definition.  origin: see Origins.
ResourceParameters ==
  [project : Projects, name : Names, setting : Values \cup {None},
   origin : Origins \cup {None}]

ASSUME ProjectResourceAssumption ==
  /\ None \notin Projects \cup Names \cup Values \cup Origins \cup Nat \cup ResourceParameters
  /\ Unsupported \notin Values \cup {None}
  /\ MetaName \notin Nat \cup {None}

Ids == DOMAIN items

\* owner: "us" if the controller created the resource, "named" if the user gave
\* its id to the CR, else "others".  heard: the response to its creation arrived.
NewItem(p, setting) ==
  [there |-> TRUE, project |-> p.project, name |-> p.name, setting |-> setting,
   origin |-> p.origin, owner |-> "us", heard |-> FALSE]

Kept(i) == items[i].there /\ items[i].owner = "us" /\ items[i].heard

\* Names are unique in a project; policies have none.
Taken(project, name) ==
  {i \in Ids : /\ kind # "branchpolicy" /\ items[i].there
               /\ items[i].project = project /\ items[i].name = name}

\* Teams and repositories can be asked for by name as well.
Found(id, project) ==
  {i \in Ids : /\ items[i].there /\ items[i].project = project
               /\ i = id \/ (kind \in {"team", "gitrepository"} /\ items[i].name = id)}

Absent(project) == Found(mem.name, project) = {}
Here(project) == CHOOSE i \in Found(mem.name, project) : TRUE
The(project) == items[Here(project)]

-----------------------------------------------------------------------------
(* What the controllers have in common *)

\* strconv.Atoi, uuid.Parse: only the CR's own name may be something else.
IsId(name) == name # MetaName

(***************************************************************************)
(* project: where the resource is looked for.  refused: the CR or what was *)
(* found makes no sense to this controller.  orphan: it must not be taken  *)
(* for missing.  same: it is as the spec wants it.  ann: the annotation.   *)
(***************************************************************************)
ObserveItem(project, refused, orphan, same, ann) ==
  /\ pc = "observe"
  /\ \/ /\ Fault
        /\ ObserveReturns(mem, "status")
     \/ /\ refused
        /\ ObserveReturns(mem, "status")
        /\ UNCHANGED faults
     \/ /\ ~refused /\ Absent(project)
        /\ ObserveReturns(mem, IF orphan THEN "status" ELSE "missing")
        /\ UNCHANGED faults
     \/ /\ ~refused /\ ~Absent(project)
        /\ ObserveReturns([mem EXCEPT !.status = Here(project), !.ann = ann],
                          IF same THEN "current" ELSE "stale")
        /\ UNCHANGED faults
  /\ UNCHANGED serviceVars

\* A context that ended before the first attempt at reading: Retry reports no
\* error, and what nobody has seen is taken to be there, and not as it should be.
ObserveUnseen(refused, ann) ==
  /\ pc = "observe" /\ ~refused /\ Fault
  /\ ObserveReturns([mem EXCEPT !.status = None, !.ann = ann], "stale")
  /\ UNCHANGED serviceVars

\* Seeded fault: the id is recorded only once the repository is set up.
CreateItem_IdLast(refused, retries, settings, ann, next) ==
  LET p == mem.spec
      made(setting) == Append(items, [NewItem(p, setting) EXCEPT !.heard = TRUE])
  IN /\ pc = "create" /\ ~refused /\ Taken(p.project, p.name) = {}
     /\ \E setting \in settings : items' = made(setting)
     /\ \/ Fault /\ pc' = "createFailed" /\ UNCHANGED <<mem, read>>
        \/ /\ mem' = [mem EXCEPT !.name = Len(items'), !.status = Len(items'), !.ann = ann]
           /\ pc' = next
           /\ read' = IF next = "amend" THEN items'[Len(items')] ELSE None
           /\ UNCHANGED faults
     /\ UNCHANGED <<api, cache, fresh, edits, kind, moved>>

(***************************************************************************)
(* One request of Create, in the spec's project.  retries: the kind uses   *)
(* Retry (module Retry counts its attempts).  settings: what the setting   *)
(* may come out as.  next: "created", or "amend" where more is to be done. *)
(***************************************************************************)
CreateItem(refused, retries, settings, ann, next) ==
  LET p == mem.spec
      free == Taken(p.project, p.name) = {}
      made == {Append(items, NewItem(p, setting)) : setting \in settings}
      id == Len(items) + 1
  IN /\ pc = "create"
     /\ \/ /\ refused \/ ~free
           /\ pc' = "createFailed"
           /\ UNCHANGED <<mem, items, read, faults>>
        \/ /\ ~refused /\ Fault
           /\ items' \in {items} \cup IF free THEN made ELSE {}
           /\ \/ retries /\ UNCHANGED pc
              \/ pc' = "createFailed"
           /\ UNCHANGED <<mem, read>>
        \/ /\ ~refused /\ free
           /\ \E made1 \in made : items' = [made1 EXCEPT ![id].heard = TRUE]
           /\ mem' = [mem EXCEPT !.name = id, !.status = id, !.ann = ann]
           /\ read' = IF next = "amend" THEN items'[id] ELSE None
           /\ pc' = next
           /\ UNCHANGED faults
     /\ UNCHANGED <<api, cache, fresh, edits, kind, moved>>

\* Update reads the resource again.  refused: the CR, or what was read, forbids
\* the update.  idle: there is nothing to send.
ReadItem(project, refused, idle) ==
  /\ MayUpdate
  /\ \/ /\ refused \/ Absent(project)
        /\ pc' = "status"
        /\ UNCHANGED <<read, faults>>
     \/ /\ Fault
        /\ pc' = "status"
        /\ UNCHANGED read
     \/ /\ ~refused /\ ~Absent(project)
        /\ IF idle THEN pc' = "status" /\ UNCHANGED read
                   ELSE pc' = "patch" /\ read' = The(project)
        /\ UNCHANGED faults
  /\ UNCHANGED <<api, cache, mem, fresh, edits, kind, items, moved>>

\* Seeded fault: the name is sent, the setting is not.
SendItem_NameOnly(project, settled, guarded, next, failed) ==
  /\ pc \in {"patch", "amend"}
  /\ IF Absent(project) \/ ~(Taken(project, mem.spec.name) \subseteq {Here(project)})
       THEN UNCHANGED items
       ELSE items' = [items EXCEPT ![Here(project)].name = mem.spec.name]
  /\ pc' = next /\ read' = None
  /\ UNCHANGED <<api, cache, mem, fresh, edits, faults, kind, moved>>

\* Seeded fault: what was read for one request is kept for the next.
SendItem_Kept(project, settled, guarded, next, failed) ==
  /\ pc \in {"patch", "amend"}
  /\ IF Absent(project) \/ guarded THEN pc' = failed /\ UNCHANGED items
     ELSE /\ pc' = next
          /\ items' = [items EXCEPT ![Here(project)].setting = IF settled THEN @ ELSE mem.spec.setting]
  /\ UNCHANGED <<api, cache, mem, fresh, edits, faults, kind, read, moved>>

\* What was read may have changed since; guarded: then the request is refused.
SendItem(project, settled, guarded, next, failed) ==
  LET p == mem.spec
      i == Here(project)
      name == IF read.name = p.name THEN items[i].name ELSE p.name
      accepted == /\ ~Absent(project)
                  /\ Taken(project, name) \subseteq {i}
                  /\ guarded => items[i] = read
      changed == [items EXCEPT ![i].name = name,
                               ![i].setting = IF settled THEN @ ELSE p.setting]
  IN /\ pc \in {"patch", "amend"}
     /\ \/ /\ accepted
           /\ items' = changed /\ pc' = next
           /\ UNCHANGED faults
        \/ /\ ~accepted
           /\ pc' = failed
           /\ UNCHANGED <<items, faults>>
        \/ /\ Fault
           /\ items' \in {items} \cup IF accepted THEN {changed} ELSE {}
           /\ pc' = failed
     /\ read' = None
     /\ UNCHANGED <<api, cache, mem, fresh, edits, kind, moved>>

\* A resource that is gone is a success.
DeleteItem(project, refused) ==
  LET deleted == IF Absent(project) THEN items
                 ELSE [items EXCEPT ![Here(project)].there = FALSE]
  IN /\ MayDelete
     /\ \/ /\ refused
           /\ UNCHANGED <<items, faults>>
        \/ /\ ~refused
           /\ items' = deleted
           /\ UNCHANGED faults
        \/ /\ ~refused /\ Fault
           /\ items' \in {items, deleted}
     /\ pc' = "status"
     /\ UNCHANGED <<api, cache, mem, fresh, edits, kind, read, moved>>

-----------------------------------------------------------------------------
(* Team *)

GivenSettingSame(p, item) == p.setting \in {None, item.setting}

IsUpToDateTeam(p, item) ==
  item.name = p.name /\ item.project = p.project /\ GivenSettingSame(p, item)

ObserveTeam ==
  LET project == mem.spec.project
  IN \/ ObserveItem(project, FALSE, FALSE, IsUpToDateTeam(mem.spec, The(project)), mem.ann)
     \/ ObserveUnseen(FALSE, mem.ann)

CreateTeam == CreateItem(FALSE, TRUE, {mem.spec.setting}, mem.ann, "created")

UpdateTeam ==
  LET project == mem.spec.project
  IN \/ ReadItem(project, FALSE, IsUpToDateTeam(mem.spec, The(project)))
     \/ SendItem(project, GivenSettingSame(mem.spec, read), FALSE, "status", "status")

DeleteTeam == DeleteItem(mem.spec.project, FALSE)

Team == kind = "team" /\ (ObserveTeam \/ CreateTeam \/ UpdateTeam \/ DeleteTeam)

-----------------------------------------------------------------------------
(* GitRepository *)

\* A repository without a commit has no default branch, and takes none.
IsRepositoryEmpty(item) == item.setting = None

IsUpToDateGitRepository(p, item) ==
  /\ item.name = p.name /\ item.project = p.project
  /\ item.origin = p.origin
  /\ GivenSettingSame(p, item)

ValidGitRepositoryUpdate(p, item) == item.project = p.project /\ item.origin = p.origin

ObserveGitRepository ==
  LET project == mem.spec.project
  IN ObserveItem(project, FALSE, FALSE, IsUpToDateGitRepository(mem.spec, The(project)), mem.ann)

\* Only a fork has a branch from the start.  The id is in mem before a default
\* branch is asked for, so it is recorded even if that fails.
CreateGitRepository ==
  LET p == mem.spec
  IN CreateItem(FALSE, FALSE, IF p.origin = None THEN {None} ELSE Values, mem.ann,
                IF p.setting = None THEN "created" ELSE "amend")

BranchSettled == GivenSettingSame(mem.spec, read) \/ IsRepositoryEmpty(read)

AmendGitRepository ==
  /\ pc = "amend"
  /\ IF BranchSettled
       THEN /\ pc' = "created" /\ read' = None
            /\ UNCHANGED <<api, cache, mem, fresh, edits, faults, kind, items, moved>>
       ELSE SendItem(mem.spec.project, FALSE, FALSE, "created", "createFailed")

UpdateGitRepository ==
  LET p == mem.spec
      item == The(p.project)
      invalid == ~Absent(p.project) /\ ~ValidGitRepositoryUpdate(p, item)
      idle == item.name = p.name /\ (GivenSettingSame(p, item) \/ IsRepositoryEmpty(item))
  IN \/ ReadItem(p.project, ~IsId(mem.name) \/ invalid, idle)
     \/ pc = "patch" /\ SendItem(p.project, BranchSettled, FALSE, "status", "status")

DeleteGitRepository == DeleteItem(mem.spec.project, ~IsId(mem.name))

GitRepository ==
  /\ kind = "gitrepository"
  /\ \/ ObserveGitRepository \/ CreateGitRepository \/ AmendGitRepository
     \/ UpdateGitRepository \/ DeleteGitRepository

-----------------------------------------------------------------------------
(* Environment *)

IsUpToDateEnvironment(p, item) ==
  item.name = p.name /\ item.setting = p.setting /\ item.project = p.project

\* The project of an environment that was found or made is remembered -- or, if
\* it was not even looked at, the one it would have been looked for in.
ProjectIDForAPI(object) == IF object.ann # None THEN object.ann ELSE object.spec.project

VerifiedProjectIDForMutation(object) == object.ann = object.spec.project

\* Not found where it was last seen, and nothing says it was ever elsewhere.
MissingEnvironment(object) == object.ann = object.spec.project

ObserveEnvironment ==
  LET project == ProjectIDForAPI(mem)
  IN \/ ObserveItem(project, ~IsId(mem.name), ~MissingEnvironment(mem),
                    IsUpToDateEnvironment(mem.spec, The(project)), The(project).project)
     \/ ObserveUnseen(~IsId(mem.name), project)

CreateEnvironment ==
  CreateItem(FALSE, TRUE, {mem.spec.setting}, mem.spec.project, "created")

UpdateEnvironment ==
  LET p == mem.spec
      item == The(p.project)
  IN \/ ReadItem(p.project, ~VerifiedProjectIDForMutation(mem),
                 item.name = p.name /\ item.setting = p.setting)
     \/ SendItem(p.project, read.setting = p.setting, FALSE, "status", "status")

\* An environment whose CR was moved is not deleted, even on request.
DeleteEnvironment == DeleteItem(mem.ann, ~VerifiedProjectIDForMutation(mem))

Environment ==
  /\ kind = "environment"
  /\ ObserveEnvironment \/ CreateEnvironment \/ UpdateEnvironment \/ DeleteEnvironment

-----------------------------------------------------------------------------
(* AgentQueue *)

\* Only the pool counts, and nothing can change it.
IsUpToDateAgentQueue(p, item) == item.origin = p.origin

ObserveAgentQueue ==
  LET project == mem.spec.project
  IN \/ ObserveItem(project, ~IsId(mem.name), FALSE,
                    IsUpToDateAgentQueue(mem.spec, The(project)), mem.ann)
     \/ ObserveUnseen(~IsId(mem.name), mem.ann)

CreateAgentQueue ==
  CreateItem(mem.spec.origin = None, TRUE, {mem.spec.setting}, mem.ann, "created")

UpdateAgentQueue ==
  /\ MayUpdate
  /\ pc' = "status"
  /\ UNCHANGED <<api, cache, mem, fresh, edits, faults, serviceVars>>

DeleteAgentQueue == DeleteItem(mem.spec.project, FALSE)

AgentQueue ==
  /\ kind = "agentqueue"
  /\ ObserveAgentQueue \/ CreateAgentQueue \/ UpdateAgentQueue \/ DeleteAgentQueue

-----------------------------------------------------------------------------
(* BranchPolicyMinReviewers *)

IsUpToDateBranchPolicy(p, item) == item.setting = p.setting

\* validateManagedPolicyConfiguration: an administrator may give a policy a scope
\* or settings this kind cannot express.
Managed(item) == item.setting # Unsupported

\* Seeded fault: the remembered project is not used for the deletion.
ProjectIDForExternalOperations_Spec(object) == object.spec.project

\* The project that was remembered counts only once the CR is being deleted.
ProjectIDForExternalOperations(object) ==
  IF object.del /\ object.ann # None THEN object.ann ELSE object.spec.project

\* Seeded fault: the remembered project is not looked at.
ValidateImmutableProjectID_Never(object) == TRUE

ValidateImmutableProjectID(object) == object.ann \in {None, object.spec.project}

\* Seeded fault: a policy that was moved is refused even in deletion.
ObserveBranchPolicy_Always ==
  LET project == ProjectIDForExternalOperations(mem)
      refused == ~ValidateImmutableProjectID([mem EXCEPT !.del = FALSE]) \/ ~IsId(mem.name)
  IN ObserveItem(project, refused, mem.ann = None,
                 IsUpToDateBranchPolicy(mem.spec, The(project)), project)

ObserveBranchPolicy ==
  LET project == ProjectIDForExternalOperations(mem)
      refused == \/ ~mem.del /\ ~ValidateImmutableProjectID(mem)
                 \/ ~IsId(mem.name)
                 \/ ~Absent(project) /\ ~Managed(The(project))
  IN ObserveItem(project, refused, mem.ann = None,
                 IsUpToDateBranchPolicy(mem.spec, The(project)), project)

CreateBranchPolicy ==
  CreateItem(FALSE, TRUE, {mem.spec.setting}, mem.spec.project, "created")

UpdateBranchPolicy ==
  LET project == ProjectIDForExternalOperations(mem)
      refused == \/ ~ValidateImmutableProjectID(mem)
                 \/ ~Absent(project) /\ ~Managed(The(project))
  IN \/ ReadItem(project, refused, FALSE)
     \/ SendItem(project, FALSE, FALSE, "status", "status")

DeleteBranchPolicy == DeleteItem(ProjectIDForExternalOperations(mem), FALSE)

BranchPolicyMinReviewers ==
  /\ kind = "branchpolicy"
  /\ ObserveBranchPolicy \/ CreateBranchPolicy \/ UpdateBranchPolicy \/ DeleteBranchPolicy

-----------------------------------------------------------------------------
(* BuildDefinition *)

IsUpToDateBuildDefinition(p, item) ==
  item.name = p.name /\ item.project = p.project /\ item.setting = p.setting

ObserveBuildDefinition ==
  LET project == mem.spec.project
  IN ObserveItem(project, ~IsId(mem.name), FALSE,
                 IsUpToDateBuildDefinition(mem.spec, The(project)), mem.ann)

CreateBuildDefinition == CreateItem(FALSE, FALSE, {mem.spec.setting}, mem.ann, "created")

\* The revision that was read is sent along: a definition that has changed since
\* is not overwritten.
UpdateBuildDefinition ==
  \/ ReadItem(mem.spec.project, FALSE, FALSE)
  \/ SendItem(mem.spec.project, FALSE, TRUE, "status", "status")

DeleteBuildDefinition == DeleteItem(mem.spec.project, FALSE)

BuildDefinition ==
  /\ kind = "builddefinition"
  /\ \/ ObserveBuildDefinition \/ CreateBuildDefinition
     \/ UpdateBuildDefinition \/ DeleteBuildDefinition

-----------------------------------------------------------------------------

ControllerStep ==
  \/ ReconcilerStep(TRUE) /\ UNCHANGED serviceVars
  \/ Team \/ GitRepository \/ Environment \/ AgentQueue
  \/ BranchPolicyMinReviewers \/ BuildDefinition

-----------------------------------------------------------------------------
(* Faults, the user and the projects' administrators *)

Crash == Abort /\ read' = None /\ UNCHANGED <<kind, items, moved>>

\* The specs a kind's CRD can express, as far as it matters: a policy has no name,
\* and nothing looks at a queue's settings again.
Parameters ==
  {p \in ResourceParameters :
     /\ kind = "branchpolicy" => p.name = CHOOSE name \in Names : TRUE
     /\ p.origin # None => kind \in {"gitrepository", "agentqueue"}
     /\ p.setting # None => kind # "agentqueue"
     /\ kind \in {"branchpolicy", "builddefinition"} => p.setting # None}

UserStep ==
  \/ /\ \E p \in Parameters :
          EditSpec(p) /\ moved' = (moved \/ p.project # api.spec.project)
     /\ UNCHANGED <<kind, items, read>>
  \/ RequestDelete /\ UNCHANGED serviceVars

Settings ==
  CASE kind = "branchpolicy" -> Values \cup {Unsupported}
    [] kind = "agentqueue" -> {}
    [] OTHER -> Values

ForeignItem(p, owner) == [NewItem(p, p.setting) EXCEPT !.owner = owner]

AdminStep ==
  /\ Edit
  /\ \/ \E p \in {p \in Parameters : p.origin = None} :
          /\ Taken(p.project, p.name) = {} /\ kind # "branchpolicy"
          /\ items' = Append(items, ForeignItem(p, "others"))
     \/ \E i \in Ids :
          /\ items[i].there
          /\ \/ items' = [items EXCEPT ![i].there = FALSE]
             \/ \E setting \in Settings \ {items[i].setting} :
                  items' = [items EXCEPT ![i].setting = setting]
             \/ \E name \in Names :
                  /\ kind # "branchpolicy" /\ Taken(items[i].project, name) = {}
                  /\ items' = [items EXCEPT ![i].name = name]
  /\ UNCHANGED <<api, cache, mem, fresh, pc, faults, kind, read, moved>>

-----------------------------------------------------------------------------

\* Which project a CR starts in makes no difference.
FirstProject == CHOOSE project \in Projects : TRUE

\* A CR that was just applied, one whose user gave it the id of a resource, or one
\* restored with the id and annotation of a resource that is gone.  Which name it
\* starts with matters only where ids can be names.
Init ==
  /\ kind \in Kinds
  /\ LET first == {p \in Parameters :
                    /\ p.project = FirstProject
                    /\ \/ kind \in {"team", "gitrepository"}
                       \/ p.name = CHOOSE name \in Names : TRUE}
         restored(p) == [NewObject(p, 0) EXCEPT !.ann = IF kind \in Pinning THEN p.project ELSE None]
     IN \/ /\ items = <<>>
           /\ \/ RuntimeInit({NewObject(p, None) : p \in first})
              \/ kind \notin {"team", "gitrepository"} /\ RuntimeInit({restored(p) : p \in first})
        \/ \E p \in first :
             /\ items = <<ForeignItem(p, "named")>>
             /\ RuntimeInit({NewObject(p, 1)})
  /\ read = None /\ moved = FALSE

Next ==
  \/ ControllerStep
  \/ CacheSync /\ UNCHANGED serviceVars
  \/ Crash \/ UserStep \/ AdminStep

Spec == Init /\ [][Next]_vars

\* As for the other kinds: the work queue hands the CR out again, the informer
\* catches up and the creation grace period ends.
Fairness ==
  /\ WF_vars(ControllerStep)
  /\ WF_vars(CacheSync /\ UNCHANGED serviceVars)
  /\ SF_vars((RemoveFinalizer \/ MarkPending) /\ UNCHANGED serviceVars)

FairSpec == Spec /\ Fairness

-----------------------------------------------------------------------------
(* Properties *)

Object == Objects(Nat \cup {MetaName}, Projects, Nat, ResourceParameters)

Item ==
  [there : BOOLEAN, project : Projects, name : Names,
   setting : Values \cup {None, Unsupported}, origin : Origins \cup {None},
   owner : {"us", "named", "others"}, heard : BOOLEAN]

TypeOK ==
  /\ RuntimeTypeOK(Object, {"amend", "patch"})
  /\ kind \in Kinds
  /\ items \in Seq(Item)
  /\ read \in IF pc \in {"patch", "amend"} THEN Item ELSE {None}
  /\ moved \in BOOLEAN

Abandons == moved /\ kind \notin Pinning

Held == {i \in Ids : Kept(i) /\ ~Abandons}

Lifecycle == INSTANCE ExternalLifecycle
  WITH cr <- Stage, held <- Held, leaving <- {}

\* The promise of ExternalLifecycle for the resources whose creation the
\* controller heard of: though requests are repeated and a repository's set-up
\* fails half-way, it makes no second one and does not release a CR whose
\* resource lives on (Observe, Create) -- not even if the CR was moved to another
\* project, where its kind remembers the project; the others lose it then.
KeepsLifecycle == Lifecycle!LifecycleSpec

\* The annotation of this environment names a project it never was in.
Misled(id, ann) == kind = "environment" /\ ann \notin {None, items[id].project}

\* While the resource a CR is about lives, its id is not exchanged for another's,
\* be it imported or created, however the spec is moved between the reads and
\* writes of a reconcile; only kinds that do not remember the project do so -- and
\* the code in one case more: an environment its user named, whose CR was moved
\* before the first look at it, and whose project was then noted unseen.
KeepsResource ==
  [][api.name \in Ids /\ items[api.name].there /\ api'.exists =>
       Abandons \/ Misled(api.name, api.ann) \/ api'.name = api.name]_vars

\* Why the two hold: an id on any copy of the CR is that of a resource the user
\* named or the controller made, or of none (0); a CR that was not moved is, in
\* every copy, in the project of its resource; the annotation is the project of
\* the resource, which may be missing or, for an environment, wrong if the user
\* named it; and what Observe did not find there is gone for good while its
\* replacement is made.
OwnIds == {i \in Ids : items[i].owner # "others"}

NamesOwn == \A object \in {api, cache, mem} : object.name \in OwnIds \cup {0, MetaName, None}

InPlace ==
  ~moved => /\ \A object \in {api, cache, mem} :
                 object.spec # None => object.spec.project = FirstProject
            /\ \A i \in OwnIds : items[i].project = FirstProject

Noted(id, ann) ==
  id \in Ids =>
    (ann = items[id].project \/ (items[id].owner = "named" /\ (ann = None \/ kind = "environment")))

Remembered ==
  kind \in Pinning => \A object \in {api, cache, mem} : Noted(object.name, object.ann)

Lost(id, ann) == id \in Ids /\ items[id].there => Abandons \/ Misled(id, ann)

Missed ==
  /\ pc = "missing" => Lost(mem.name, mem.ann)
  /\ pc \in Creating => Lost(api.name, api.ann)

\* Only a repository takes more than one request to make.
Amending == pc = "amend" => kind = "gitrepository"

IInv == TypeOK /\ Attached(Held) /\ NamesOwn /\ InPlace /\ Remembered /\ Missed /\ Amending

\* The controller refuses to act for this CR until the user or an administrator
\* has put something right.
Refused ==
  LET found == Found(api.name, api.spec.project)
  IN \/ ~IsId(api.name) /\ kind \notin {"team", "gitrepository"}
     \/ ~IsId(api.name) /\ kind = "gitrepository" /\ found # {}
     \/ kind = "environment" /\ api.ann # api.spec.project
     \/ kind = "branchpolicy" /\ \E i \in Found(api.name, api.ann) : ~Managed(items[i])

\* When the user asks for deletion, the CR is eventually gone -- unless a crash
\* left its creation pending or the controller refuses to act, as it does for an
\* environment, but not for a policy, that was moved.
DeletionCompletes == api.del ~> ~api.exists \/ api.create = "pending" \/ Refused

\* Nothing the controller cannot help stands in the way of the spec.
Possible ==
  /\ api.exists /\ ~api.del /\ api.create # "pending" /\ ~Refused
  /\ kind \in Pinning => api.ann = api.spec.project
  /\ kind = "agentqueue" => api.spec.origin # None
  /\ Taken(api.spec.project, api.spec.name) \subseteq Found(api.name, api.spec.project)

IsUpToDate(p, item) ==
  CASE kind = "team" -> IsUpToDateTeam(p, item)
    [] kind = "gitrepository" -> IsUpToDateGitRepository(p, item)
    [] kind = "environment" -> IsUpToDateEnvironment(p, item)
    [] kind = "agentqueue" -> IsUpToDateAgentQueue(p, item)
    [] kind = "branchpolicy" -> IsUpToDateBranchPolicy(p, item)
    [] kind = "builddefinition" -> IsUpToDateBuildDefinition(p, item)

\* Once nobody interferes any more, the CR that is kept has a resource in the
\* project of its spec that is as the spec wants it, but for the origin, which
\* nothing can change, and the branch of a repository that stays empty.
Converges ==
  <>[](Possible =>
    \E i \in Found(api.name, api.spec.project) :
      \/ items[i].origin # api.spec.origin
      \/ kind = "gitrepository" /\ IsRepositoryEmpty(items[i]) /\ items[i].name = api.spec.name
      \/ IsUpToDate(api.spec, items[i]))
=============================================================================

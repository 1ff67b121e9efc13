# A model of provider-azuredevops

provider-azuredevops is a Crossplane provider: for every kind of Azure DevOps
resource it runs a controller that makes Azure DevOps agree with a Kubernetes
custom resource (CR). These modules model its controllers, what they make of a
CR's parameters and how they come by their credentials, together with what
surrounds them -- the reconciler of crossplane-runtime that calls them, the API
server with its lagging cache, Azure DevOps with its asynchronous operations,
lost responses and administrators, and users who edit and delete CRs and
rotate Secrets -- and check and prove what a user of the provider relies on.
All line references are to `src/`.

## 1. The system

### Parts, state and operations

| Part | State it keeps | Operations |
| --- | --- | --- |
| managed reconciler (crossplane-runtime, not in `src/`) | the CR in the API server: finalizer, deletion, creation annotations, external-name, status; an informer cache; the copy of the running reconcile | initialise, connect, observe, then create, update, delete or nothing; record a creation; store the status |
| 17 resource controllers (`internal/controller/<kind>`) | none of their own: everything is in the CR (external-name, an annotation, status) and in Azure DevOps | `Observe`, `Create`, `Update`, `Delete` |
| `Retry`, `IsNotFound`, `IsRetryable` (`internal/clients/azuredevops`) | attempts left, last error | send a request up to four times |
| secret digests (`internal/secrethash`) | a salted digest in an annotation | `Hash`, `Matches` |
| ProviderConfig resolution and usage (`internal/clients/azuredevops/config.go`, `internal/controller/config`) | ProviderConfigUsage objects | track a usage, read the config and its Secret; hold a used config back |
| `ListAll` (`pagination.go`) | none | called by no controller |
| process (`cmd/provider/main.go`, `internal/controller/azuredevops.go`) | manager, work queues, gates | start each controller once its CRD is there |

The controllers fall into families, by how a resource is identified and by what
cannot be read back from Azure DevOps:

| Family | Kinds | Identity | Peculiarity |
| --- | --- | --- | --- |
| Project | Project | external-name = name; GUID in the status | create, update and delete are queued operations that are polled |
| with a Secret | VariableGroup; ServiceEndpoint Generic, GitHub, AzureRM, Kubernetes, DockerRegistry | number; GUID | the Secret's value cannot be read back: a digest annotation |
| organisation | AgentPool | number | an update reads and sends only what differs |
| in a project | Team, GitRepository, Environment, AgentQueue, BranchPolicyMinReviewers, BuildDefinition | GUID or number within a project | Environment and BranchPolicyMinReviewers remember their project in an annotation |
| identities | Group, GroupMembership, UserEntitlement | descriptor; the pair of descriptors; GUID | a membership is idempotent; a user's assignments are patched one by one |

### How the parts interact

The reconciler reads the CR from the informer cache and hands a copy to the
handlers. Handlers change that copy. The reconciler writes it back in three
ways, and what survives differs: an update of the whole object (initialiser,
finalizer, creation-pending) stores annotations and not status;
`UpdateCriticalAnnotations` after Create stores annotations, retrying on
conflict; the last write of a reconcile stores the status alone. **Annotations
that Observe or Update set are therefore lost unless another write follows**,
which several controllers do not reckon with. All calls to Azure DevOps are
remote: they may be refused, fail, or be carried out with the response lost. The
only channel between two reconciles is what was stored.

### What is hard here

* a crash, a lost response or a lapse of the operation poll between Azure
  DevOps accepting a creation and the CR saying so (leaks and doubles);
* reconciles that start from a cached CR older than the stored one, and edits
  that overtake a running reconcile (conflicts);
* administrators who change or delete a resource between the read and the write of
  an Update;
* Secrets rotated, emptied or removed while a request is on its way, or before the
  CR that needs them is deleted;
* specs edited after creation: renamed, moved to another project, invalid;
* external-names that are no identifiers, because the reconciler's default
  initialiser writes `metadata.name` there;
* deletions that can never come to their end because Observe, which runs first,
  fails;
* informers that lag several versions behind, for the CR and for its usage apart, while
  the CR is moved to another config and back;
* a context that ends before `Retry` has called anything: nothing was done, no error comes
  back, and the handler goes on as if all was well.

`hazards` in PROJECT.json lists them at the lines where they bite.

### What makes a controller correct

1. *No leak*: a CR leaves the API server only when the resource its controller knows
   to have created is gone.
2. *No double*: one CR never holds two resources its controller knows to have created.
3. *No theft*: the controller does not come to hold what neither it nor the user made
   the CR's own.
4. *Deletion completes* and *the CR converges*, once nobody interferes.
5. *Secrets*: a digest is of what was sent, so a rotation is noticed.
6. *Contents*: a resource that is found up to date is what the user asked for, an update
   settles the matter, and it leaves alone what the spec has no word for.
7. *Config*: a ProviderConfig that CRs rely on stays until they are gone -- without it
   they cannot be deleted -- and goes when no CR refers to it any more.

## 2. Modules

| Module | Models | Variables beyond the reconciler's |
| --- | --- | --- |
| `ManagedReconciler` | the runtime (external): `Begin`, `Initialize`, `AddFinalizer`, `MarkPending`, `RecordCreate`, `RemoveFinalizer`, `PersistStatus`, `Conflict`, `WaitOutGrace`; the cache; users; crashes | `api`, `cache`, `mem`, `fresh`, `pc`, `edits`, `faults` |
| `ExternalLifecycle` | the promise about a CR and its resource, abstractly (1 and 2 above; for Project also that nothing is deleted unasked) | `cr`, `held`, `leaving` |
| `ProjectController` | `project.go`, with the queued operations of Azure DevOps | `projects`, `nextId`, `op` |
| `VariableGroupController` | `variablegroup.go`, `secrethash.go` | `groups`, `secret`, `payload`, `moved` |
| `ServiceEndpointControllers` | the five `serviceendpoint*.go` | `kind`, `endpoints`, `secret`, `payload` |
| `AgentPoolController` | `agentpool.go` | `pools`, `tries`, `patch` |
| `ProjectResourceControllers` | `team.go`, `gitrepository.go`, `environment.go`, `agentqueue.go`, `branchpolicyminreviewers.go`, `builddefinition.go` | `kind`, `items`, `read`, `moved` |
| `IdentityControllers` | `group.go`, `groupmembership.go`, `userentitlement.go` | `kind`, `items`, `patch` |
| `Retry` | `retry.go`, `errors.go` | `left`, `calls`, `lastErr`, `cancelled`, `made`, `lost`, `unique` |
| `ProviderConfigUsage` | `config.go` of the clients and of the controllers: several CRs, their usages, the configs, the informers in between | its own: `crs`, `run`, `usages`, `configs`, `relied`, `upsets` |
| `MCProviderConfigUsage` | where TLC starts on `ProviderConfigUsage` | |
| `BuildDefinitionContents`, `BranchPolicyContents`, `VariableGroupContents`, `ServiceEndpointAzureRMContents` | what these kinds send for given parameters and when they call a resource up to date (`desired...`, `validate...`, `isUpToDate`) | none: operators |
| `Spellings` | GUIDs and numbers as texts: the spellings the CRDs admit, `uuid.Parse`, `strconv.Atoi`, `strings.EqualFold` | none |
| `ResourceContents` | one CR of one of the four kinds, edited field by field, and its resource | its own: `kind`, `asked`, `spec`, `resource`, `reconcile`, `changes` |
| `ManagedReconciler_proofs` | lemmas on the reconciler's, the informer's and the users' steps, which the controllers' proofs share | |
| `ProjectController_proofs` ... `IdentityControllers_proofs` | theorems on the controller module of that name | |
| `ClientsAndContents_proofs` | theorems on `Retry`, `ProviderConfigUsage` and `ResourceContents` | |

The controller modules are `ProjectController` to `IdentityControllers`. Each EXTENDS `ManagedReconciler` and adds its handlers as
actions of the same names (`Observe`, `Create`, `Update`, `Delete`, or
`ObserveTeam` and so on). `ControllerStep` is one step of the one worker that
has the CR: of the reconciler or of a handler. A handler is split where a second
remote call lets others in between: Update's read and its request (`ReadItem`,
`SendItem`), resolving a Secret and sending it (`Build`, `Add`), queueing an operation
and polling it (`Create`, `WaitForOperation`). Azure DevOps is a function or a
sequence of records; besides what the handlers can see, a record has two history
fields, `owner` (who made it, or gave it to the CR) and `heard` (the response
reached the controller), which only the properties read.

`ManagedReconciler` also states, over the set `held` a kind gives it, what all
controllers' properties rest on (`Attached`, section 4), and what the types of its
variables are. `Retry` and `ResourceContents` keep names of their own (`RetrySpec`,
`ContentsSpec`, ...) so that they can stand beside another module.

Each controller module shows that it implements `ExternalLifecycle` by a refinement mapping
(`KeepsLifecycle`): `cr` is read off the API server (`Stage`), `held` is what is still
there of the resources whose creation the controller heard of, `leaving` those whose
queued deletion is running. Only Project's deletions run for a while, so for the other kinds
`leaving` is empty, and a resource the controller deletes goes like one that an
administrator takes (`ResourceVanishes`): that it is deleted on request only is checked
of Project, and is read off the guard of `Delete` (`MayDelete`) elsewhere. A membership has no id; there `held` is told by what the CR
holds it under (`Identity`). Left out of `held` is what a CR that was moved to another
project has lost, where the kind does not remember its project (`moved`, `Abandons`).

Two questions are asked of modules of their own, as they need other detail. In the
controller modules a spec keeps one setting or two, for what matters there is who
changed what and when; `ResourceContents` has the fields of the four kinds whose
comparison is more than equality, and a reconcile that fails by `GiveUp`. And the CRs of
`ProviderConfigUsage` keep only their reference and their stage, for what matters
there is the config they share. There the API server's objects are sequences of
versions, from the one the informer shows to the one that is stored, for CRs and for usages
apart: a reconcile begins with whatever version the informer of the CRs shows (`Begin`),
and looks its usage up in whatever the other informer shows (`Track`).

Where kinds are separate code of one shape, the shape is stated once
(`ObserveItem`, `CreateItem`, ...) and each kind states what is its own; the variable
`kind`, fixed by `Init`, says which controller the behaviour is about, and one
run covers them all. Seeded faults stand beside the definitions they mutate, under
their names with a suffix (`Create_NameLast`); no specification uses them.

Abstractions: a spec keeps the fields some branch of the code tells apart; the rest of a
description, a process or a policy stands as one value. Names and ids are model
values and numbers, `MetaName` is the CR's own name. A digest is a record of the
value it was made of: the salt makes equal values' digests differ as strings,
which no code compares. Connect is part of Observe: its failures are among
Observe's. Retry's attempts are repetitions of the
request within one handler, and a context that ended before the first of them is a fault
of its own: an Observe that has seen nothing and finds the resource there and stale
(`ObserveUnseen` and its likes), a Create that succeeds without a request. Azure DevOps refuses names that are taken, gives every resource a new
id and looks a resource up within the project of the request.

## 3. Runs

All runs set `CHECK_DEADLOCK FALSE`: when the CR is gone and the bounds on edits
and faults are used up the system rightly stops.

| Run | Distinct states | Checks (besides `TypeOK`) | Shows |
| --- | --- | --- | --- |
| `project` | 231 786 | `NoLeak`, `OneProject`, `KeepsLifecycle`, `DeletionCompletes`, `Converges` | a creation that is lost, slow, refused or repeated leaves no project behind and makes no second; the controller creates one resource at a time, deletes only on request and lets go only of what is gone |
| `retry` | 882 | `Settled`, `RepeatsOnlyLost`, `OnlyRetryableAgain` | as long as its context lasts the loop hands back a final answer, and it never repeats one; it makes nothing twice but where a response was lost |
| `vg` | 488 606 | `KeepsLifecycle`, `OwnGroup`, `DigestOfSent`, `DeletionCompletes`, `Converges` | a digest that fails or a Secret rotated in mid-request costs neither the group nor the notice of the rotation; a CR that was moved gets its group in the new project and can still be deleted |
| `agentpool` | 334 842 | `KeepsLifecycle`, `OwnPool`, `OnlyWhatIsGiven`, `DeletionCompletes`, `Converges` | a repeated creation does not take somebody else's pool; what the spec leaves open stays the administrators' |
| `endpoints` | 583 481 | `KeepsLifecycle`, `DigestOfSent`, `DeletionCompletes`, `Converges` | the same for the five kinds, each with its own validation and its own time to read the Secret |
| `project_resources` | 642 298 | `KeepsLifecycle`, `KeepsResource`, `DeletionCompletes`, `Converges` | environments and policies whose spec is moved keep their one resource, and a moved policy can still be deleted; one environment is excused, see below |
| `identities` | 389 479 | `KeepsLifecycle`, `DeletionCompletes`, `Converges` | a patch computed from a read that was overtaken comes right in the end; a deletion goes by what the CR holds, not by what its spec was edited to |
| `providerconfig` | 185 334 | `Protected`, `Secured`, `Released` | whatever the order in which CRs and configs are deleted, CRs retargeted there and back and however old what the informers show, no CR is left without the config it has come to rely on; every CR that stays as it is does come to rely on its config; and no config is held for ever by CRs that are gone or were moved to another, existing or not |
| `contents` | 583 893 | `NoticesEdits`, `SettlesOnce`, `KeepsTheRest` | for all edits of any field by the user or an administrator: "up to date" is never wrong about what was asked, whatever Azure DevOps leaves out or spells its own way; what an Update sent is up to date; what a spec has no word for -- a definition's default branch and further settings, a policy's flags of other kinds and its enterprise mark -- is not written over |

Runs that find a disagreement between the code and what the repository says of it:

| Run | What it shows |
| --- | --- |
| `vg_rotation` | Update's digest is never stored: a Secret rotated to v2 and back to v1 counts as up to date while Azure DevOps holds v2 (`variablegroup.go:248`) |
| `agentpool_applied` | the default initialiser stays in place, so an applied AgentPool has an external-name that is no number and is never created (`agentpool.go:58`); the same wiring is in all kinds but VariableGroup, and stops those that parse their external-name |
| `policy_default` | a policy the user wants inactive is made active: `enabled` is a bool with `omitempty` and the default true, so that the writes of the whole CR before the creation drop the `false` (`branchpolicyminreviewers_types.go:94`; `blocking` goes the same way) |

Three more disagreements have no run of their own; the properties excuse them.

* `Retry` drops the error of the backoff loop, and with a context that has ended before the
  first attempt it returns nil without having called anything (`retry.go:33`), of which the
  comment at `retry.go:23` says nothing; `Settled` is of contexts that last. Its callers take nil
  for a success: a service endpoint's or a membership's Create then succeeds with nothing made (an
  endpoint's without an external-name), and every Observe whose read goes through Retry finds
  the resource there and, but for a membership, out of date, without having seen it
  (BranchPolicyMinReviewers takes such an answer for an error). Creates for which a response
  without an id is an error, and Updates that read again, fail instead; the Updates
  of AgentPool and Environment dereference the response that is not there (`agentpool.go:279`,
  `environment.go:372`), a panic that the runtime recovers from and that counts as a failed
  call here. All this is part of the
  models, and undoes none of the properties but one: an Environment's Observe notes the
  project it would have looked in (`environment.go:147`), and if the CR was moved before
  anybody looked, the environment its user named is afterwards taken for missing and a
  second one made (`Misled`, which `KeepsResource` excuses).
* A VariableGroup's Delete takes care not to read Secrets, but Observe, which runs first, reads
  them, and a CR that outlives its Secret is stuck (`variablegroup.go:174`;
  `DeletionCompletes`).
* A UserEntitlement whose projectId has an upper-case digit, which the CRD admits, loses and
  regains the project for ever (`userentitlement.go:461`; `Converges`).

### What the properties excuse, and why

The liveness properties name the states in which the code refuses to go on:

* `api.create = "pending"`: a crash between a creation and its record. The runtime
  refuses such a CR until a person looks at it, on purpose.
* an external-name that is no identifier (the finding of `agentpool_applied`), a spec the
  kind's validation refuses, a missing Secret (`variablegroup.go:174`), an environment
  that was moved, a policy with settings this kind cannot express, an edited
  membership: `Refused`, `Valid`, `Possible` of each module.
* a name somebody else has (`Taken(...)`).
* `Abandons`, `moved`: a spec moved to another project, for the five kinds that look for
  their resource in the spec's project alone and remember no other (VariableGroup, and
  four of `ProjectResourceControllers`). They make a
  second resource there and leave the first. GitRepository's own comment
  (`gitrepository.go:120`) says this is refused; whether it can happen depends
  on Azure DevOps not finding a repository through another project's URL, which is
  outside `src/`, so it is a hazard here and not a finding.
* `Misled`: an environment whose project was noted by an Observe that saw nothing, as said
  above.
* `spelling`: the upper-case projectId of `userentitlement.go:461`.

Where the code goes wrong by itself -- updates that never end, resources nobody can find
again -- no property asks for the contrary; such hazards are in PROJECT.json with no
property and a note.

The properties of `ResourceContents` are about what the comparison can see:

* `Settleable` leaves out spellings the kind compares as texts and Azure DevOps does not answer
  with: such a CR is updated at every poll (or, a BuildDefinition's projectId in upper case,
  refused at every Update); and variables copied from a Secret without being secret,
  whose text is compared with the spec's empty value (`variablegroup.go:630`).
* `NoticesEdits` leaves out those variables, and a variable group linked twice, which
  hides that another one is linked (`variableGroupsMatch` of `builddefinition.go`); secrets and
  keys cannot be read back and are no part of it.
* `KeepsTheRest` asks of a policy only what its read can give: the policy is written without
  a revision, where Azure DevOps refuses a definition whose revision is old.

`Protected` begins for a CR once a reconcile has found its usage to be right and left it as it
was, while the user was not deleting the config and neither informer had any other
version to deliver (`BeginsToRely`). It cannot begin before: `GetConfig` goes by what the informers
show (`config.go:62`). A CR that is moved from A to B and back is seen with A, then with B, then
with A: a reconcile in the middle rewrites the usage to B, and A, which the stored CR names
again, has nothing to hold it; and a usage an informer still shows as right may just have
been changed. So a CR has no protection while such versions are on their way, and the theorem says
none. `Secured` says that this passes: a CR that keeps its reference to a kept config comes to rely
on it, without anybody's help.

### Bounds

`MaxEdits` and `MaxFaults` bound what users, administrators and the environment do
between them; `RequestDelete` and the controller's own steps are not bounded, nor is
how often a reconcile is repeated. One edit and one fault already give every
ordering of a rename, move, rotation or administrator's change with a crash, a lost
response or a failed call, of a deletion and of a lagging cache (depths of 33 to 51
steps); AgentPool has two faults, to exhaust `Attempts = 2` within one Create.
During development the safety properties of `project_resources` were also run with two
edits and no fault (3.9 million states) without a violation. Two names, two projects,
two values are what it takes to rename, move or rotate; where names are
interchangeable `Init` starts with one of them. In `ProjectController`, and for teams and
repositories, which can be looked up by name, `MetaName` is one of the names, so
that the CR's own name can collide with a foreign resource. `Retry` runs with the
real four steps.

`ProviderConfigUsage` has a config of each kind under one name, so that the kind in the usage
matters, and either one CR with two upsets (`MaxUpsets`: a CR moved or a reconcile cut
short, so that it can be moved there and back) or two CRs with none (`MCInit`); deletions are
not bounded. Both together are out of TLC's reach; the CRs share nothing but the configs, whose
controllers only ask whether there is a usage that names them, and the proof of `Protected` is
for any number of either. `MaxLag = 2` lets an informer have two versions yet to deliver,
which is what it takes to see A, B, A one after the other; a third version waits until one
is delivered. `ResourceContents` allows two changes
(`MaxChanges`) of any one field each: an edit against an administrator's change,
between any two steps of a reconcile; a definition has up to two linked variable groups
(`MaxGroups`), so that one can be missing, changed places or be taken for the other. The CRs it starts from (`FirstAsked`) are few, as edits reach the others, which are one
field away; GUIDs, numbers and texts are two of each, and a GUID or a number has all
the spellings its CRD admits.

### Fairness

* weak fairness of `ControllerStep`: the work queue hands the CR out again after every
  reconcile (poll interval, requeue on error), and a running reconcile goes on;
* weak fairness of `CacheSync`: the informer catches up;
* strong fairness of `RemoveFinalizer \/ MarkPending`: `WaitOutGrace` makes a reconcile
  look again while a resource was created less than half a minute ago; the grace
  period ends, so a resource that stays missing is acted on in some reconcile;
* for Project, weak fairness of each queued operation: Azure DevOps ends it, by success
  or, where it may fail, by failure.

* for `ProviderConfigUsage`, weak fairness for each CR of its reconciles, of the deliveries of
  either informer and of the collection of its usage (owner references), and for each config
  of its controller's steps.

Users, administrators, crashes and lost responses get none. `ResourceContents` is about safety and has
no fairness.

## 4. Proofs

Checked by TLAPS for all values of the constants that meet the modules' assumptions:
any set of names, projects, ids and settings, any number of edits and faults, any
schedule, any number of CRs, configs and linked variable groups. Every `IInv` was first model-checked as an
invariant of its module's run.

**Assumptions.** `BoundAssumption` (the bounds are numbers) and one assumption per module: the
sentinel `None` is no name, id, value or parameter, the CR's own name is no number,
HTTP codes are in their ranges, Retry's schedule has a length; for `ResourceContents`
(`ContentsAssumption`) also that no record is `None`, and that there is something to
make the first CRs of: a text, an id, the number 1 and room for one variable group.
Nothing else is assumed of how many names, ids or values there are.

**What is proved of every controller** (`ProjectController`, `VariableGroupController`,
`AgentPoolController`, `ServiceEndpointControllers`, `ProjectResourceControllers`,
`IdentityControllers`: 17 controllers):

| Theorem | States |
| --- | --- |
| `TypeCorrect` | `Spec => []TypeOK` |
| `Implements` | `Spec => KeepsLifecycle`: it implements `ExternalLifecycle` |
| `LeakFree` | a CR that is gone holds nothing: no resource the controller knew to have made is left behind |
| `NoDouble` (`AtMostOneProject`) | a CR holds one resource at most |

and of some of them

| Theorem | States |
| --- | --- |
| `ProjectController`: `AlwaysFindable` | a project the controller made is under the stored external-name or its creation is pending |
| `VariableGroupController`, `AgentPoolController`: `NeverForeign` | `OwnGroup`, `OwnPool`: the number on the CR was made for it or given by the user |
| `VariableGroupController`, `ServiceEndpointControllers`: `DigestIsOfSent` | `DigestOfSent`: the digest recorded with a creation is of the value that was sent |
| `AgentPoolController`: `SetsOnlyWhatIsGiven` | `OnlyWhatIsGiven`: the step that sets a flag sets it to what the spec at hand gives |
| `ProjectResourceControllers`: `KeepsItsResource` | `KeepsResource`: the id of a living resource is not given up for another's (but for `Abandons` and `Misled`) |

**The inductive invariant.** None of these is inductive: what prevents a leak is that the
resource can be found, and what prevents a double that a reconcile which found nothing
knows that there is nothing. `Attached(held)` says why, for any kind:

* `FreshCopy`: a copy that is fresh agrees with the stored CR on all that decides;
* `HeldWhileCreating`: between the pending mark and the record of the outcome the
  stored CR has its finalizer and the mark, so that nobody else acts for it;
* `DeletionSeen`: no copy shows a deletion that was not asked for;
* `Findable`: what is held is under the stored external-name, or the creation is pending;
* `AtMostOne`: no two resources are held;
* `NothingToFind`: a reconcile that is about to create, on a fresh copy, leaves nothing
  behind by doing so, for a CR whose creation is pending is never reconciled.

Each controller adds what its own properties and its finding need, and `IInv` is the whole:

| Module | `IInv` = `TypeOK`, `Attached(Held)` and | Why |
| --- | --- | --- |
| `ProjectController`, `IdentityControllers` | nothing more | |
| `AgentPoolController` | `NamesOwn`, `PatchGiven` | numbers reach all copies, not only the stored CR; a patch goes by the spec it was computed from |
| `VariableGroupController` | `NamesOwn`, `Resolved`, `Numbered`, `InPlace`, `DigestOfSent` | what is sent was resolved; a group that was made has a number; a CR that was not moved and its group are in one project |
| `ServiceEndpointControllers` | `Sent`, `Numbered`, `DigestOfSent` | nothing is sent unresolved |
| `ProjectResourceControllers` | `NamesOwn`, `InPlace`, `Remembered`, `Missed`, `Amending` | the kinds that remember their project remember the right one of what they made (`Noted`), so that a resource missed where it was looked for is gone or given up (`Lost`) |

**The argument.** One lemma per action says that it keeps `IInv` and maps to a step of
`ExternalLifecycle` or to none. The steps of the reconciler, the informer, users and crashes
are the same for all kinds; `ManagedReconciler_proofs` does them once, for any `held`
(`RuntimeAttaches`, `OutsideAttaches`, `LossAttaches`). A handler only has to show how it
changes `held` (`HandlerStep`): not at all, by what it has just made, or by what it deletes on a CR
that is leaving; `HandlerAttaches` gives the rest. `StepsOfLifecycle` then reads the step of
`ExternalLifecycle` off the stored CR before and after. `Attached` is thus used twice: to keep
itself, and to show that the abstract step is allowed, which only makes for a CR that holds
nothing and only lets go of one that holds nothing. The theorems follow by PTL.

**Retry.** `WithinSchedule`, `SettledAnswer` (`Settled`), `NoNeedlessDoubles` (`RepeatsOnlyLost`) and
`FinalIsFinal` (`OnlyRetryableAgain`), for every schedule and set of codes meeting
`RetryAssumption`. None says that a nil means a success: with an ended context it does
not. The strengthening in `RetryInv` is `Accounted`: calls made and steps left
add up to `Steps`, and only an error worth it is waited for.

**ProviderConfigUsage.** `ConfigsStay` (`Protected`) and `TypeCorrect`, for any number of CRs and
configs, any number of upsets and any lag. `Relied` is inductive with the types: of a CR that
relies on a config *every* version that is stored or yet to be delivered refers to it, every
such version of its usage names it, and a reconcile that is at work has a copy that refers to it
too, so that its write changes nothing and the next reconcile, whatever version it
begins with, is of the same reference. Neither collection nor the config's controller can
then take the last of these away.

**ResourceContents.** `ContentsTypeCorrect`, `EditsAreNoticed` (`NoticesEdits`), `UpdatesSettle`
(`SettlesOnce`) and `TheRestIsKept` (`KeepsTheRest`), for any texts, ids, numbers, variables and
edits. The invariant, `ContentsInv`, is plain: every record -- the CR as asked, as stored and
as copied, and the resource -- is over the fields of its kind, and what is stored is what was asked
but for the API server's defaults. The work is in lemmas on operators that mention no
state, four or five for each kind:

| Lemma | States |
| --- | --- |
| `...Noticed` | `IsUpToDate(p, r)` gives `Meaning(r) = Asked(p)` |
| `...Settles` | whatever Azure DevOps makes of `Desired(p, current)` is up to date with `p`, for *any* `current`: how old the read is does not matter |
| `...Kept` | `Desired(p, current)` has all of `current` that `p` has no word for |
| `...Types` | what Azure DevOps makes of `Desired(p, current)` is a record of the kind |

The one that is not straightforward is `GroupsNoticed`: `variableGroupsMatch` counts the linked
groups and looks each one the spec names up in the definition, which is enough because an
injective match between two lists of one length is onto (`Surjective`), and it is injective
just where the spec names no group twice -- the premise `Distinct` of `NoticesEdits` is needed.

`DefaultsAreStricter` bounds the finding of `policy_default`: a policy found up to date is active
and blocking wherever the user asked for that (`AtLeastAsAsked`). The `false` that is
lost on the way to the API server makes a policy stricter than asked, and never
switches one off.

**Only model-checked.** Liveness (`DeletionCompletes`, `Converges`, `Secured`, `Released`: fairness and
ENABLED are beyond TLAPS); and the findings, which are violations. Every other property
of a run is a theorem. No module a proof uses declares a RECURSIVE operator.

## 5. Not modelled

* Several CRs at once that meet in Azure DevOps, such as two that ask for the same name, or a membership and its
  group: the other CR's effects are those of administrators here.
* Two processes at once. Leader election is off by default (`cmd/provider/main.go:60`);
  one worker per CR is assumed.
* Moves of a ServiceEndpoint to another project; `VariableGroupController` and
  `ProjectResourceControllers` show what comes of them.
* The contents of the other kinds, which are compared field by field for equality, and the
  selected variables of a Key Vault group.
* A project renamed by its administrators, or a creation refused because the name is
  taken (`project.go:145`, `project.go:214`): the code takes names for immutable and for its own.
* A project that a UserEntitlement lists twice; the scope of a Group; reference
  resolution (generated, done by the runtime before the handlers run).
* `ListAll`, which nothing calls; the process's start-up, management policies, metrics,
  generated code; that a controller starts only once its CRD is there.

## 6. Plan

Done: the modules of section 2, in the order Project, Retry, VariableGroup, AgentPool,
ServiceEndpoint, in-project kinds, identities, `ExternalLifecycle` for all of them,
`ProviderConfigUsage`, the contents; the proofs of section 4, for all of these, with each
safety and action property a run checks among the theorems.

What is left is of another kind: liveness stays with TLC's instances, and what section 5
leaves out -- several CRs that meet in Azure DevOps first of all -- would need Azure DevOps
as a module of its own that the CRs share.

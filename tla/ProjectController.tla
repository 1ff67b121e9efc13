--------------------------- MODULE ProjectController ---------------------------
(***************************************************************************)
(* The Project controller (internal/controller/project): one Project CR,   *)
(* the projects of the organisation whose names it may come to hold, and   *)
(* the asynchronous operations with which Azure DevOps creates, updates    *)
(* and deletes them.  A project is found by its name, which the controller *)
(* keeps as the CR's external-name, and changed by its id, which it keeps  *)
(* in the CR's status.                                                     *)
(***************************************************************************)
EXTENDS ManagedReconciler

CONSTANTS
  Names,     \* project names: MetaName and those spec.forProvider.name takes
  Settings   \* values of description and visibility; None is "not given"

VARIABLES
  projects,  \* by name: what Azure DevOps has under that name
  nextId,    \* the next project GUID
  op         \* the operation the running reconcile waits for

serviceVars == <<projects, nextId, op>>
vars == <<runtimeVars, serviceVars>>

ProjectParameters == [name: Names, settings: Settings \cup {None}]

ASSUME ProjectAssumption ==
  /\ MetaName \in Names
  /\ None \notin Names \cup Settings \cup Nat \cup ProjectParameters

\* mine: this CR's controller created it.  wanted: the settings an update
\* operation still has to apply.
NoProject == [state |-> "absent", id |-> None, settings |-> None,
              wanted |-> None, mine |-> FALSE]

ForeignProject(id, settings) ==
  [NoProject EXCEPT !.state = "wellFormed", !.id = id, !.settings = settings]

Exists(n) == projects[n].state # "absent"

Mine(n) == Exists(n) /\ projects[n].mine

Operation == {"none", "create", "update", "delete", "done", "failed"}

\* An operation of this kind reached a terminal state: whoever waits sees it.
Completes(kind, outcome) == op' = IF op = kind THEN outcome ELSE op

-----------------------------------------------------------------------------
(* What Azure DevOps does with the operations it has queued *)

AssignId(n) ==
  /\ projects[n].state = "creating" /\ projects[n].id = None
  /\ projects' = [projects EXCEPT ![n].id = nextId]
  /\ nextId' = nextId + 1
  /\ UNCHANGED <<runtimeVars, op>>

FinishCreate(n) ==
  /\ projects[n].state = "creating" /\ projects[n].id # None
  /\ projects' = [projects EXCEPT ![n].state = "wellFormed"]
  /\ Completes("create", "done")
  /\ UNCHANGED <<runtimeVars, nextId>>

FinishUpdate(n) ==
  /\ projects[n].wanted # None
  /\ projects' = [projects EXCEPT ![n].settings = projects[n].wanted, ![n].wanted = None]
  /\ Completes("update", "done")
  /\ UNCHANGED <<runtimeVars, nextId>>

FinishDelete(n) ==
  /\ projects[n].state = "deleting"
  /\ projects' = [projects EXCEPT ![n] = NoProject]
  /\ Completes("delete", "done")
  /\ UNCHANGED <<runtimeVars, nextId>>

FailOperation(n) ==
  /\ Fault
  /\ \/ /\ projects[n].state = "creating"
        /\ projects' = [projects EXCEPT ![n] = NoProject]
        /\ Completes("create", "failed")
     \/ /\ projects[n].wanted # None
        /\ projects' = [projects EXCEPT ![n].wanted = None]
        /\ Completes("update", "failed")
     \/ /\ projects[n].state = "deleting"
        /\ projects' = [projects EXCEPT ![n].state = "wellFormed"]
        /\ Completes("delete", "failed")
  /\ UNCHANGED <<api, cache, mem, fresh, pc, edits, nextId>>

ServiceStep ==
  \E n \in Names : AssignId(n) \/ FinishCreate(n) \/ FinishUpdate(n) \/ FinishDelete(n)

-----------------------------------------------------------------------------
(* The handlers *)

IsUpToDate(p, project) == p.settings # None => project.settings = p.settings

\* Seeded fault: a project counts as existing only once it is well formed.
Observe_OnlyWellFormed ==
  LET n == mem.name
      ready == IF n = None THEN FALSE ELSE projects[n].state = "wellFormed"
      seen == [mem EXCEPT !.status = projects[n].id]
  IN /\ ObserveReturns(IF ready THEN seen ELSE mem,
           CASE ~ready -> "missing"
             [] ready /\ IsUpToDate(mem.spec, projects[n]) -> "current"
             [] OTHER -> "stale")
     /\ UNCHANGED <<faults, serviceVars>>

\* Seeded fault: the GUID is not taken over into the status.
Observe_WithoutId ==
  LET n == mem.name
      ready == IF n = None THEN FALSE ELSE Exists(n)
  IN /\ ObserveReturns(mem,
           CASE ~ready -> "missing"
             [] ready /\ \/ projects[n].state # "wellFormed"
                         \/ IsUpToDate(mem.spec, projects[n]) -> "current"
             [] OTHER -> "stale")
     /\ UNCHANGED <<faults, serviceVars>>

\* A project Azure DevOps is still building or tearing down counts as existing
\* and up to date: nothing is done to it until its state settles.
Observe ==
  LET n == mem.name
      seen == [mem EXCEPT !.status = projects[n].id]
  IN \/ /\ Fault
        /\ ObserveReturns(mem, "status")
        /\ UNCHANGED serviceVars
     \/ /\ IF n = None THEN TRUE ELSE ~Exists(n)
        /\ ObserveReturns(mem, "missing")
        /\ UNCHANGED <<faults, serviceVars>>
     \/ /\ n # None /\ Exists(n)
        /\ IF projects[n].state # "wellFormed" \/ IsUpToDate(mem.spec, projects[n])
             THEN ObserveReturns(seen, "current")
             ELSE ObserveReturns(seen, "stale")
        /\ UNCHANGED <<faults, serviceVars>>

\* Wait for the operation just queued; Azure DevOps may also answer without
\* naming one, and then there is nothing to wait for.
Queued(kind) == op' \in {kind, "done"}

NewProject(p) == [NoProject EXCEPT !.state = "creating", !.settings = p.settings, !.mine = TRUE]

\* The request is refused when the name is taken.  Its response may be lost.
QueueCreateProject(p) ==
  \/ /\ Exists(p.name)
     /\ pc' = "createFailed"
     /\ UNCHANGED <<projects, op, faults>>
  \/ /\ Fault
     /\ pc' = "createFailed"
     /\ UNCHANGED <<projects, op>>
  \/ /\ ~Exists(p.name)
     /\ projects' = [projects EXCEPT ![p.name] = NewProject(p)]
     /\ \/ Queued("create") /\ pc' = "waitCreate" /\ UNCHANGED faults
        \/ Fault /\ pc' = "createFailed" /\ UNCHANGED op

\* Seeded fault: the external-name is set once the project is there.
Create_NameLast ==
  /\ pc = "create"
  /\ QueueCreateProject(mem.spec)
  /\ mem' = [mem EXCEPT !.name = IF pc' = "waitCreate" /\ op' = "done"
                                   THEN mem.spec.name ELSE mem.name]
  /\ UNCHANGED <<api, cache, fresh, edits, nextId>>

\* The name becomes the external-name before the request goes out; only a
\* failure to resolve the process template comes earlier.
Create ==
  /\ pc = "create"
  /\ \/ /\ Fault /\ pc' = "createFailed"
        /\ UNCHANGED <<mem, projects, op>>
     \/ /\ mem' = [mem EXCEPT !.name = mem.spec.name]
        /\ QueueCreateProject(mem.spec)
  /\ UNCHANGED <<api, cache, fresh, edits, nextId>>

\* The project an id names, if Azure DevOps (still) has it.
WithId(id) == {n \in Names : Exists(n) /\ projects[n].id = id}

\* Seeded fault: the update does not carry the desired settings.
Update_SendsNothing ==
  /\ MayUpdate
  /\ pc' = "status"
  /\ UNCHANGED <<api, cache, mem, fresh, edits, faults, serviceVars>>

Update ==
  /\ MayUpdate
  /\ \/ /\ mem.status = None
        /\ pc' = "status"
        /\ UNCHANGED <<projects, op, faults>>
     \/ /\ mem.status # None
        /\ \A n \in WithId(mem.status) : projects[n].state # "wellFormed"
        /\ pc' = "status"
        /\ UNCHANGED <<projects, op, faults>>
     \/ /\ mem.status # None /\ Fault
        /\ pc' = "status"
        /\ UNCHANGED <<projects, op>>
     \/ /\ \E n \in WithId(mem.status) :
             /\ projects[n].state = "wellFormed"
             /\ projects' = [projects EXCEPT ![n].wanted = mem.spec.settings]
        /\ Queued("update")
        /\ pc' = "wait"
        /\ UNCHANGED faults
  /\ UNCHANGED <<api, cache, mem, fresh, edits, nextId>>

\* Seeded fault: the project is deleted without regard to the CR's deletion.
Delete_OnDrift ==
  /\ MayDelete \/ MayUpdate
  /\ \E n \in WithId(mem.status) :
       projects' = [projects EXCEPT ![n].state = "deleting", ![n].wanted = None]
  /\ Queued("delete")
  /\ pc' = "wait"
  /\ UNCHANGED <<api, cache, mem, fresh, edits, faults, nextId>>

\* Without an id there is nothing to ask Azure DevOps to delete yet, and a
\* project that is gone is a success.
Delete ==
  /\ MayDelete
  /\ \/ /\ mem.status = None \/ WithId(mem.status) = {}
        /\ pc' = "status"
        /\ UNCHANGED <<projects, op, faults>>
     \/ /\ \E n \in WithId(mem.status) : projects[n].state # "wellFormed"
        /\ pc' = "status"
        /\ UNCHANGED <<projects, op, faults>>
     \/ /\ mem.status # None /\ Fault
        /\ pc' = "status"
        /\ UNCHANGED <<projects, op>>
     \/ /\ mem.status # None
        /\ \E n \in WithId(mem.status) :
             projects' = [projects EXCEPT ![n].state = "deleting", ![n].wanted = None]
        /\ Queued("delete")
        /\ pc' = "wait"
        /\ UNCHANGED faults
  /\ UNCHANGED <<api, cache, mem, fresh, edits, nextId>>

\* Seeded fault: the operation's status is handed on as if it were an error.
WaitForOperation_Status(ok, err) ==
  /\ pc' = IF op = "done" THEN ok ELSE op
  /\ op' = "none"
  /\ UNCHANGED <<api, cache, mem, fresh, edits, faults, projects, nextId>>

\* Poll until the operation ends, the backoff is exhausted or a poll fails.
WaitForOperation(ok, err) ==
  /\ \/ op = "done" /\ pc' = ok /\ UNCHANGED faults
     \/ op # "done" /\ pc' = err /\ UNCHANGED faults
     \/ Fault /\ pc' = err
  /\ op' = "none"
  /\ UNCHANGED <<api, cache, mem, fresh, edits, projects, nextId>>

Wait ==
  \/ pc = "waitCreate" /\ WaitForOperation("created", "createFailed")
  \/ pc = "wait" /\ WaitForOperation("status", "status")

ControllerStep ==
  \/ ReconcilerStep(TRUE) /\ UNCHANGED serviceVars
  \/ Observe \/ Create \/ Update \/ Delete \/ Wait

-----------------------------------------------------------------------------
(* Faults, the user and the organisation's administrators *)

Crash == Abort /\ op' = "none" /\ UNCHANGED <<projects, nextId>>

UserStep ==
  /\ \/ \E p \in ProjectParameters : EditSpec(p)
     \/ RequestDelete
  /\ UNCHANGED serviceVars

AdminCreates(n, s) ==
  /\ ~Exists(n) /\ Edit
  /\ projects' = [projects EXCEPT ![n] = ForeignProject(nextId, s)]
  /\ nextId' = nextId + 1
  /\ UNCHANGED <<api, cache, mem, fresh, pc, faults, op>>

AdminChanges(n, s) ==
  /\ projects[n].state = "wellFormed" /\ s # projects[n].settings /\ Edit
  /\ projects' = [projects EXCEPT ![n].settings = s]
  /\ UNCHANGED <<api, cache, mem, fresh, pc, faults, nextId, op>>

AdminDeletes(n) ==
  /\ projects[n].state = "wellFormed" /\ Edit
  /\ projects' = [projects EXCEPT ![n] = NoProject]
  /\ UNCHANGED <<api, cache, mem, fresh, pc, faults, nextId, op>>

AdminStep ==
  \E n \in Names :
    \/ AdminDeletes(n)
    \/ \E s \in Settings : AdminCreates(n, s) \/ AdminChanges(n, s)

-----------------------------------------------------------------------------

Init ==
  /\ RuntimeInit({NewObject(p, n) : p \in ProjectParameters, n \in Names \cup {None}})
  /\ projects = [n \in Names |-> NoProject]
  /\ nextId = 1
  /\ op = "none"

Next ==
  \/ ControllerStep
  \/ CacheSync /\ UNCHANGED serviceVars
  \/ ServiceStep
  \/ \E n \in Names : FailOperation(n)
  \/ Crash \/ UserStep \/ AdminStep

Spec == Init /\ [][Next]_vars

(***************************************************************************)
(* What the scheduling grants: the work queue keeps handing the CR to the  *)
(* one worker it has and the worker goes on, the informer catches up, and  *)
(* Azure DevOps ends every operation.  The creation grace period is half a *)
(* minute long, so a resource that stays missing is not waited for for     *)
(* ever: that takes strong fairness.  Nothing is asked of users, admins or *)
(* faults.                                                                 *)
(***************************************************************************)
Fairness ==
  /\ WF_vars(ControllerStep)
  /\ WF_vars(CacheSync /\ UNCHANGED serviceVars)
  /\ SF_vars((RemoveFinalizer \/ MarkPending) /\ UNCHANGED serviceVars)
  /\ \A n \in Names : /\ WF_vars(AssignId(n) \/ FinishCreate(n) \/ FinishDelete(n))
                      /\ WF_vars(FinishUpdate(n))

FairSpec == Spec /\ Fairness

-----------------------------------------------------------------------------
(* Properties *)

Object == Objects(Names, {}, Nat, ProjectParameters)

Project ==
  [state : {"absent", "creating", "wellFormed", "deleting"}, id : Nat \cup {None},
   settings : Settings \cup {None}, wanted : Settings \cup {None}, mine : BOOLEAN]

TypeOK ==
  /\ RuntimeTypeOK(Object, {"waitCreate", "wait"})
  /\ projects \in [Names -> Project]
  /\ nextId \in Nat
  /\ op \in Operation

Held == {n \in Names : Mine(n)}

Leaving == {n \in Held : projects[n].state = "deleting"}

\* Whatever crashes, stale reads, lost responses and unfinished operations come
\* between, a CR does not leave the API server while a project its controller
\* created lives on: no project is left that nobody manages (Delete, Observe).
NoLeak == ~api.exists => \A n \in Names : ~Mine(n)

\* One CR never holds two projects, though its spec.name may change and any
\* creation may time out, fail late or be reported as failed and be repeated.
OneProject == \A m, n \in Names : Mine(m) /\ Mine(n) => m = n

\* Why NoLeak and OneProject hold.
IInv == TypeOK /\ Attached(Held)

\* When the user asks for deletion, the CR is eventually gone, with the project
\* it held -- unless a crash left its creation pending (Delete, Observe).
DeletionCompletes == api.del ~> ~api.exists \/ api.create = "pending"

\* The external-name's project is settled as the spec wants it.
Converged ==
  /\ Exists(api.name) /\ projects[api.name].state = "wellFormed"
  /\ api.spec.settings \in {None, projects[api.name].settings}

\* Once nobody interferes any more, the project of a CR that is kept ends up and
\* stays as its spec wants it -- again unless its creation is left pending.
Converges ==
  <>[](api.exists /\ ~api.del /\ api.create # "pending" => api.name # None /\ Converged)

(***************************************************************************)
(* The controller keeps the promise of ExternalLifecycle for the projects  *)
(* it creates: the CR's stages are read off the API server, what it holds  *)
(* off the projects of Azure DevOps.                                       *)
(***************************************************************************)
Lifecycle == INSTANCE ExternalLifecycle
  WITH cr <- Stage, held <- Held, leaving <- Leaving

\* Every step of the controller, of Azure DevOps and of the people around them
\* is a step of the lifecycle or leaves it as it is: no second project, no
\* deletion nobody asked for, no CR released over a project that lives on.
KeepsLifecycle == Lifecycle!LifecycleSpec
=============================================================================

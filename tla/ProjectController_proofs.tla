------------------------ MODULE ProjectController_proofs ------------------------
(***************************************************************************)
(* Proofs about ProjectController, for any sets of names and settings and  *)
(* any number of edits and faults.  Each lemma about actions says that     *)
(* they keep the inductive invariant and that they are steps of            *)
(* ExternalLifecycle; the theorems follow.                                 *)
(***************************************************************************)
EXTENDS ProjectController, ManagedReconciler_proofs

USE DEF Fault, Edit, Finish, Observed

(***************************************************************************)
(* The projects, one of which changes at a time.                           *)
(***************************************************************************)

\* A project whose fields are replaced by values of their types is a project.
LEMMA ProjectTypes ==
  ASSUME NEW q \in Project
  PROVE  /\ \A t \in {"absent", "creating", "wellFormed", "deleting"} :
              /\ [q EXCEPT !.state = t] \in Project
              /\ [q EXCEPT !.state = t, !.wanted = None] \in Project
         /\ \A i \in Nat \cup {None} : [q EXCEPT !.id = i] \in Project
         /\ \A v \in Settings \cup {None} : /\ [q EXCEPT !.settings = v] \in Project
                                            /\ [q EXCEPT !.settings = v, !.wanted = None] \in Project
                                            /\ [q EXCEPT !.wanted = v] \in Project
  BY DEF Project

\* So is one that is not there, one the controller creates and a foreign one.
LEMMA NewProjectTypes ==
  /\ NoProject \in Project
  /\ \A p \in ProjectParameters : NewProject(p) \in Project
  /\ \A i \in Nat, v \in Settings : ForeignProject(i, v) \in Project
  BY DEF Project, NoProject, NewProject, ForeignProject, ProjectParameters

\* What becomes of the held and the leaving projects when one project changes.
LEMMA ReplaceProject ==
  ASSUME projects \in [Names -> Project], NEW n \in Names, NEW q \in Project,
         projects' = [projects EXCEPT ![n] = q]
  PROVE  /\ projects' \in [Names -> Project]
         /\ Held' \ {n} = Held \ {n} /\ Leaving' \ {n} = Leaving \ {n}
         /\ n \in Held' <=> q.state # "absent" /\ q.mine
         /\ n \in Leaving' <=> q.state = "deleting" /\ q.mine
<1>1. projects'[n] = q /\ \A k \in Names \ {n} : projects'[k] = projects[k]
  OBVIOUS
<1>2. n \in Held' <=> q.state # "absent" /\ q.mine
  BY <1>1 DEF Held, Mine, Exists
<1>3. Held' \ {n} = Held \ {n}
  BY <1>1 DEF Held, Mine, Exists
<1>4. n \in Leaving' <=> q.state = "deleting" /\ q.mine
  BY <1>1, <1>2 DEF Leaving
<1>5. Leaving' \ {n} = Leaving \ {n}
  <2>1. \A k \in Names \ {n} : k \in Leaving' <=> k \in Leaving
    BY <1>1, <1>3 DEF Leaving
  <2>2. Leaving \subseteq Names /\ Leaving' \subseteq Names
    BY DEF Leaving, Held
  <2>3. QED  BY <2>1, <2>2
<1>6. QED  BY <1>2, <1>3, <1>4, <1>5

\* A project that stays what it was to the lifecycle.
LEMMA SameProject ==
  ASSUME projects \in [Names -> Project], NEW n \in Names, NEW q \in Project,
         projects' = [projects EXCEPT ![n] = q], q.mine = projects[n].mine,
         q.state = "absent" <=> projects[n].state = "absent",
         q.state = "deleting" <=> projects[n].state = "deleting"
  PROVE  projects' \in [Names -> Project] /\ Held' = Held /\ Leaving' = Leaving
<1>1. /\ n \in Held <=> projects[n].state # "absent" /\ projects[n].mine
      /\ n \in Leaving <=> projects[n].state = "deleting" /\ projects[n].mine
  BY DEF Held, Leaving, Mine, Exists
<1>2. /\ projects' \in [Names -> Project]
      /\ Held' \ {n} = Held \ {n} /\ Leaving' \ {n} = Leaving \ {n}
      /\ n \in Held' <=> q.state # "absent" /\ q.mine
      /\ n \in Leaving' <=> q.state = "deleting" /\ q.mine
  BY ReplaceProject
<1>3. (n \in Held' <=> n \in Held) /\ (n \in Leaving' <=> n \in Leaving)
  BY <1>1, <1>2
<1>4. QED  BY <1>2, <1>3

\* Without a change of the projects nothing is held or leaving that was not.
LEMMA SameProjects ==
  ASSUME UNCHANGED projects
  PROVE  Held' = Held /\ Leaving' = Leaving
<1>1. Held' = Held
  BY DEF Held, Mine, Exists
<1>2. \A n \in Held : n \in Leaving' <=> n \in Leaving
  BY <1>1 DEF Leaving
<1>3. Leaving \subseteq Held /\ Leaving' \subseteq Held
  BY <1>1 DEF Leaving
<1>4. QED  BY <1>1, <1>2, <1>3

(***************************************************************************)
(* What steps of the lifecycle look like to the controller.                *)
(***************************************************************************)

\* A step of the reconciler's shape, in which nothing starts or stops leaving but
\* what goes, is a step of the lifecycle.
LEMMA StepsOfLifecycle ==
  ASSUME NEW before, NEW after, Held = before, Held' = after, HoldsStep(before, after),
         after = before => Leaving' = Leaving,
         before = {} => Leaving' = {}
  PROVE  [Lifecycle!LifecycleNext]_(Lifecycle!lifecycleVars)
<1> USE DEF HoldsStep, Lifecycle!LifecycleNext
<1>0. Leaving \subseteq before /\ Leaving' \subseteq after
  BY DEF Leaving
<1>1. CASE after = before /\ Stage' = Stage
  BY <1>1 DEF Lifecycle!lifecycleVars
<1>2. CASE after = before /\ Stage = "live" /\ Stage' = "deleting"
  BY <1>2 DEF Lifecycle!RequestDeletion
<1>3. CASE after = before /\ Stage \in {"live", "deleting"} /\ Stage' = "gone" /\ before = {}
  BY <1>3 DEF Lifecycle!RequestDeletion, Lifecycle!Release
<1>4. CASE Stage' = Stage /\ before # {} /\ after = {}
  BY <1>0, <1>4 DEF Lifecycle!ResourceVanishes
<1>5. CASE Stage' = Stage /\ Stage # "gone" /\ before = {} /\ \E id : after = {id}
  BY <1>0, <1>5 DEF Lifecycle!CreateResource, Stage
<1>6. QED  BY <1>1, <1>2, <1>3, <1>4, <1>5

\* A project begins to go while its CR is being deleted, or goes on to live.
LEMMA LeavingSteps ==
  ASSUME Held' = Held, Stage' = Stage,
         \/ Stage = "deleting" /\ Held # {} /\ Leaving = {} /\ Leaving' = Held
         \/ Leaving # {} /\ Leaving' = {}
  PROVE  [Lifecycle!LifecycleNext]_(Lifecycle!lifecycleVars)
  BY DEF Lifecycle!LifecycleNext, Lifecycle!DeleteResource, Lifecycle!DeletionFails

\* The set of held projects may be given by its value.
LEMMA AttachedSubst ==
  ASSUME NEW after, Held' = after, Attached(after)'
  PROVE  Attached(Held)'
  BY DEF Attached, Findable, AtMostOne, NothingToFind

\* A reconcile has a CR at hand, with a spec.
LEMMA SpecTypes ==
  ASSUME TypeOK, Attached(Held), pc # "idle"
  PROVE  /\ mem.spec \in ProjectParameters
         /\ mem.spec.name \in Names /\ mem.spec.settings \in Settings \cup {None}
<1>1. mem.exists /\ mem.spec # None
  BY DEF Attached, HeldWhileCreating, Specified
<1>2. mem.spec \in ProjectParameters \cup {None}
  BY FieldTypes DEF TypeOK, RuntimeTypeOK, Object
<1>3. QED  BY <1>1, <1>2 DEF ProjectParameters

\* What is held has a name, and the CR it is held for is there.
LEMMA HeldTypes ==
  ASSUME IInv
  PROVE  None \notin Held /\ (Held # {} => api.exists)
<1>1. None \notin Held
  BY ProjectAssumption DEF Held
<1>2. QED  BY <1>1, NothingLeftBehind DEF IInv

(***************************************************************************)
(* The reconciler, the informer, the user and a crash touch no project.    *)
(***************************************************************************)
LEMMA RuntimeKeeps ==
  ASSUME IInv,
         \/ ReconcilerStep(TRUE) /\ UNCHANGED serviceVars
         \/ CacheSync /\ UNCHANGED serviceVars
         \/ Crash \/ UserStep
  PROVE  IInv' /\ [Lifecycle!LifecycleNext]_(Lifecycle!lifecycleVars)
<1> PICK held : held = Held
  OBVIOUS
<1>1. UNCHANGED <<projects, nextId>> /\ (op' = op \/ op' = "none")
  BY DEF Crash, UserStep, serviceVars
<1>2. Held' = held /\ Leaving' = Leaving
  BY <1>1, SameProjects
<1>3. TypeOK /\ Attached(held) /\ None \notin held /\ None \notin ProjectParameters /\ MetaName \in Names
  BY HeldTypes, ProjectAssumption DEF IInv
<1>4. RuntimeTypeOK(Object, {"waitCreate", "wait"})' /\ Attached(held)' /\ HoldsStep(held, held)
  <2>1. CASE ReconcilerStep(TRUE) \/ CacheSync
    BY <1>3, <2>1, RuntimeTypes, RuntimeAttaches DEF TypeOK, Object
  <2>2. CASE (\E p \in ProjectParameters : EditSpec(p)) \/ RequestDelete \/ Abort
    BY <1>3, <2>2, OutsideTypes, OutsideAttaches DEF TypeOK, Object
  <2>3. QED  BY <2>1, <2>2 DEF Crash, UserStep
<1>5. TypeOK'
  BY <1>1, <1>3, <1>4 DEF TypeOK, Operation
<1>6. Attached(Held)'
  BY <1>2, <1>4, AttachedSubst
<1>7. Leaving' = {} \/ held # {}
  BY <1>2 DEF Leaving
<1>8. [Lifecycle!LifecycleNext]_(Lifecycle!lifecycleVars)
  BY <1>2, <1>4, <1>7, StepsOfLifecycle
<1>9. QED  BY <1>5, <1>6, <1>8 DEF IInv

(***************************************************************************)
(* The handlers.  What is to be shown of each: it treats what is held as   *)
(* HandlerStep says, and the types stand.                                  *)
(***************************************************************************)
LEMMA HandlerKeeps ==
  ASSUME IInv, NEW held, NEW after, held = Held, after = Held', HandlerStep(held, after),
         mem' \in Object, UNCHANGED <<edits, nextId>>, faults' \in Nat,
         pc' \in Observed \cup {"waitCreate", "wait", "created", "createFailed", "status"},
         projects' \in [Names -> Project], op' \in Operation
  PROVE  IInv' /\ HoldsStep(held, after) /\ Stage' = Stage
<1>1. UNCHANGED <<api, cache, fresh>>
  BY DEF HandlerStep
<1>2. TypeOK'
  BY <1>1 DEF IInv, TypeOK, RuntimeTypeOK
<1>3. Attached(after)' /\ HoldsStep(held, after)
  BY HandlerAttaches DEF IInv
<1>4. Stage' = Stage
  BY <1>1 DEF Stage
<1>5. QED  BY <1>2, <1>3, <1>4, AttachedSubst DEF IInv

\* Observe changes no project and finds what is held under the CR's name.
LEMMA ObserveKeeps ==
  ASSUME IInv, Observe
  PROVE  IInv' /\ [Lifecycle!LifecycleNext]_(Lifecycle!lifecycleVars)
<1> PICK held : held = Held
  OBVIOUS
<1>1. /\ TypeOK /\ mem \in Object /\ mem.name \in Names \cup {None}
      /\ projects \in [Names -> Project] /\ nextId \in Nat /\ op \in Operation
      /\ \A n \in Names : projects[n].id \in Nat \cup {None}
  BY FieldTypes DEF IInv, TypeOK, RuntimeTypeOK, Object, Project
<1>2. /\ UNCHANGED <<api, cache, fresh, edits, projects, nextId, op>>
      /\ pc = "observe" /\ pc' \in Observed \cup {"status"} /\ faults' \in Nat
      /\ \/ mem' = mem
         \/ mem.name \in Names /\ mem' = [mem EXCEPT !.status = projects[mem.name].id]
      /\ pc' = "missing" => IF mem.name = None THEN TRUE ELSE ~Exists(mem.name)
  BY <1>1 DEF Observe, ObserveReturns, serviceVars, IInv, TypeOK, RuntimeTypeOK
<1>3. Held' = held /\ Leaving' = Leaving
  BY <1>2, SameProjects
<1>4. mem' \in Object /\ mem'.name = mem.name
      /\ mem'.exists = mem.exists /\ mem'.fin = mem.fin /\ mem'.del = mem.del
      /\ mem'.create = mem.create /\ mem'.spec = mem.spec
  <2>1. CASE mem' = mem  BY <1>1, <2>1
  <2>2. CASE mem.name \in Names /\ mem' = [mem EXCEPT !.status = projects[mem.name].id]
    <3>1. mem' \in Object
      BY <1>1, <2>2, ObjectTypes DEF Object
    <3>2. QED  BY <1>1, <2>2, <3>1 DEF Object, Objects
  <2>3. QED  BY <1>2, <2>1, <2>2
<1>5. pc' = "missing" => mem.name \notin held
  BY <1>1, <1>2, HeldTypes DEF Held, Mine
<1>6. HandlerStep(held, held)
  BY <1>2, <1>4, <1>5 DEF HandlerStep, Creating
<1>7. IInv' /\ HoldsStep(held, held)
  BY <1>1, <1>2, <1>3, <1>4, <1>6, HandlerKeeps
<1>8. QED  BY <1>3, <1>7, StepsOfLifecycle DEF Leaving

\* Create makes at most the project of the name it has put on the CR.
LEMMA CreateKeeps ==
  ASSUME IInv, Create
  PROVE  IInv' /\ [Lifecycle!LifecycleNext]_(Lifecycle!lifecycleVars)
<1> PICK held, after : held = Held /\ after = Held'
  OBVIOUS
<1>1. /\ TypeOK /\ mem \in Object /\ projects \in [Names -> Project] /\ op \in Operation
      /\ pc = "create" /\ held = {} /\ Leaving = {}
      /\ mem.spec \in ProjectParameters /\ mem.spec.name \in Names
  BY SpecTypes DEF IInv, TypeOK, RuntimeTypeOK, Create, Attached, NothingToFind, Leaving
<1>2. /\ UNCHANGED <<api, cache, fresh, edits, nextId>>
      /\ pc' \in {"createFailed", "waitCreate"} /\ faults' \in Nat /\ op' \in Operation
  BY <1>1 DEF Create, QueueCreateProject, Queued, TypeOK, RuntimeTypeOK, Operation
<1>3. /\ mem' \in Object
      /\ mem'.exists = mem.exists /\ mem'.fin = mem.fin /\ mem'.del = mem.del
      /\ mem'.create = mem.create /\ mem'.spec = mem.spec
  <2>1. mem' = mem \/ mem' = [mem EXCEPT !.name = mem.spec.name]
    BY DEF Create
  <2>2. mem' \in Object
    <3>1. [mem EXCEPT !.name = mem.spec.name] \in Object
      BY <1>1, ObjectTypes DEF Object
    <3>2. QED  BY <1>1, <2>1, <3>1
  <2>3. CASE mem' = mem
    BY <2>2, <2>3
  <2>4. CASE mem' = [mem EXCEPT !.name = mem.spec.name]
    BY <1>1, <2>2, <2>4 DEF Object, Objects
  <2>5. QED  BY <2>1, <2>3, <2>4
<1>4. /\ projects' \in [Names -> Project] /\ Leaving' = {}
      /\ after \subseteq Names /\ \A n \in after : n = mem'.name
  <2>1. CASE projects' = projects
    BY <1>1, <2>1, SameProjects
  <2>2. CASE projects' # projects
    <3>1. /\ projects' = [projects EXCEPT ![mem.spec.name] = NewProject(mem.spec)]
          /\ mem' = [mem EXCEPT !.name = mem.spec.name]
      BY <2>2 DEF Create, QueueCreateProject
    <3>2. mem'.name = mem.spec.name
      BY <1>1, <3>1 DEF Object, Objects
    <3>3. NewProject(mem.spec) \in Project /\ NewProject(mem.spec).state # "deleting"
      BY <1>1, NewProjectTypes DEF NewProject, NoProject
    <3>4. /\ projects' \in [Names -> Project]
          /\ after \ {mem.spec.name} = {} /\ Leaving' \ {mem.spec.name} = {}
          /\ mem.spec.name \notin Leaving'
      BY <1>1, <3>1, <3>3, ReplaceProject
    <3>5. QED  BY <1>1, <3>2, <3>4
  <2>3. QED  BY <2>1, <2>2
<1>5. HandlerStep(held, after)
  BY <1>1, <1>2, <1>3, <1>4 DEF HandlerStep, Creating
<1>6. IInv' /\ HoldsStep(held, after)
  BY <1>2, <1>3, <1>4, <1>5, HandlerKeeps
<1>7. QED  BY <1>1, <1>4, <1>6, StepsOfLifecycle

\* Update gives a project new settings to come, and Wait looks at an operation.
LEMMA UpdateAndWaitKeep ==
  ASSUME IInv, Update \/ Wait
  PROVE  IInv' /\ [Lifecycle!LifecycleNext]_(Lifecycle!lifecycleVars)
<1> PICK held : held = Held
  OBVIOUS
<1>1. /\ TypeOK /\ Attached(held) /\ mem \in Object
      /\ projects \in [Names -> Project] /\ op \in Operation
  BY DEF IInv, TypeOK, RuntimeTypeOK
<1>2. /\ UNCHANGED <<api, cache, mem, fresh, edits, nextId>>
      /\ faults' \in Nat /\ op' \in Operation
      /\ \/ pc = "stale" /\ pc' \in {"status", "wait"}
         \/ pc = "waitCreate" /\ pc' \in {"created", "createFailed"}
         \/ pc = "wait" /\ pc' = "status"
  BY <1>1 DEF Update, MayUpdate, Wait, WaitForOperation, Queued, TypeOK, RuntimeTypeOK, Operation
<1>3. projects' \in [Names -> Project] /\ Held' = held /\ Leaving' = Leaving
  <2>1. CASE projects' = projects
    BY <1>1, <2>1, SameProjects
  <2>2. CASE projects' # projects
    <3>1. PICK n \in Names :
            projects' = [projects EXCEPT ![n] = [projects[n] EXCEPT !.wanted = mem.spec.settings]]
      BY <2>2 DEF Update, Wait, WaitForOperation, WithId
    <3>2. mem.spec.settings \in Settings \cup {None}
      BY <1>2, SpecTypes DEF IInv
    <3>3. [projects[n] EXCEPT !.wanted = mem.spec.settings] \in Project
      BY <1>1, <3>2, ProjectTypes
    <3>4. /\ [projects[n] EXCEPT !.wanted = mem.spec.settings].mine = projects[n].mine
          /\ [projects[n] EXCEPT !.wanted = mem.spec.settings].state = projects[n].state
      BY <1>1 DEF Project
    <3>5. QED  BY <1>1, <3>1, <3>3, <3>4, SameProject
  <2>3. QED  BY <2>1, <2>2
<1>4. HandlerStep(held, held)
  BY <1>1, <1>2 DEF HandlerStep, Creating, Attached, NothingToFind
<1>5. IInv' /\ HoldsStep(held, held)
  BY <1>1, <1>2, <1>3, <1>4, HandlerKeeps
<1>6. QED  BY <1>3, <1>5, StepsOfLifecycle DEF Leaving

\* Delete makes at most one project leave, for a CR whose deletion was asked for.
LEMMA DeleteKeeps ==
  ASSUME IInv, Delete
  PROVE  IInv' /\ [Lifecycle!LifecycleNext]_(Lifecycle!lifecycleVars)
<1> PICK held : held = Held
  OBVIOUS
<1>1. /\ TypeOK /\ Attached(held) /\ mem \in Object
      /\ projects \in [Names -> Project] /\ op \in Operation
  BY DEF IInv, TypeOK, RuntimeTypeOK
<1>2. /\ UNCHANGED <<api, cache, mem, fresh, edits, nextId>>
      /\ faults' \in Nat /\ op' \in Operation
      /\ pc \in {"current", "stale"} /\ mem.del /\ pc' \in {"status", "wait"}
  BY <1>1 DEF Delete, MayDelete, Queued, TypeOK, RuntimeTypeOK, Operation
<1>3. held # {} => Stage = "deleting"
  BY <1>1, <1>2, HeldTypes DEF Attached, DeletionSeen, Stage
<1>4. /\ projects' \in [Names -> Project] /\ Held' = held
      /\ Leaving' = Leaving \/ (held # {} /\ Leaving = {} /\ Leaving' = held)
  <2>1. CASE projects' = projects
    BY <1>1, <2>1, SameProjects
  <2>2. CASE projects' # projects
    <3>1. PICK n \in Names :
            /\ Exists(n)
            /\ projects' = [projects EXCEPT ![n] = [projects[n] EXCEPT !.state = "deleting", !.wanted = None]]
      BY <1>1, <2>2 DEF Delete, WithId
    <3> DEFINE q == [projects[n] EXCEPT !.state = "deleting", !.wanted = None]
    <3>2. q \in Project /\ q.state = "deleting" /\ q.mine = projects[n].mine
      <4>1. projects[n] \in Project
        BY <1>1
      <4>2. q \in Project
        BY <4>1, ProjectTypes
      <4>3. QED  BY <4>1, <4>2 DEF Project
    <3>3. n \in held <=> q.mine
      BY <3>1, <3>2 DEF Held, Mine
    <3>4. /\ projects' \in [Names -> Project]
          /\ Held' \ {n} = held \ {n} /\ Leaving' \ {n} = Leaving \ {n}
          /\ n \in Held' <=> q.mine
          /\ n \in Leaving' <=> q.mine
      BY <1>1, <3>1, <3>2, ReplaceProject
    <3>5. Leaving \subseteq held /\ \A m, k \in held : m = k
      BY <1>1 DEF Leaving, Attached, AtMostOne
    <3> HIDE DEF q
    <3>6. QED  BY <3>3, <3>4, <3>5
  <2>3. QED  BY <2>1, <2>2
<1>5. HandlerStep(held, held)
  BY <1>1, <1>2 DEF HandlerStep, Creating
<1>6. IInv' /\ HoldsStep(held, held) /\ Stage' = Stage
  BY <1>1, <1>2, <1>4, <1>5, HandlerKeeps
<1>7. CASE Leaving' = Leaving
  BY <1>4, <1>6, <1>7, StepsOfLifecycle DEF Leaving
<1>8. CASE held # {} /\ Leaving = {} /\ Leaving' = held
  BY <1>3, <1>4, <1>6, <1>8, LeavingSteps
<1>9. QED  BY <1>4, <1>6, <1>7, <1>8

(***************************************************************************)
(* Azure DevOps gives a project its id and settles its state, and          *)
(* administrators add foreign projects and take or change those there are. *)
(***************************************************************************)

\* What a change of one project may be that is not the controller's.
Turns(n, q) ==
  /\ projects' = [projects EXCEPT ![n] = q]
  /\ \/ q.state = "absent"
     \/ projects[n].state = "absent" /\ ~q.mine /\ q.state # "deleting"
     \/ /\ projects[n].state # "absent" /\ q.mine = projects[n].mine
        /\ q.state = "deleting" => projects[n].state = "deleting"

\* Each is the loss of a project, the end of its leaving, or none of the
\* lifecycle's business.
LEMMA TurnKeeps ==
  ASSUME IInv, NEW n \in Names, NEW q \in Project, Turns(n, q),
         UNCHANGED <<api, cache, mem, fresh, pc>>,
         edits' \in Nat, faults' \in Nat, nextId' \in Nat, op' \in Operation
  PROVE  IInv' /\ [Lifecycle!LifecycleNext]_(Lifecycle!lifecycleVars)
<1> PICK held, after : held = Held /\ after = Held'
  OBVIOUS
<1>1. TypeOK /\ Attached(held) /\ projects \in [Names -> Project]
  BY DEF IInv, TypeOK
<1>2. /\ projects' \in [Names -> Project]
      /\ after \ {n} = held \ {n} /\ Leaving' \ {n} = Leaving \ {n}
      /\ n \in after <=> q.state # "absent" /\ q.mine
      /\ n \in Leaving' <=> q.state = "deleting" /\ q.mine
  BY <1>1, ReplaceProject DEF Turns
<1>3. /\ n \in held <=> projects[n].state # "absent" /\ projects[n].mine
      /\ n \in Leaving <=> projects[n].state = "deleting" /\ projects[n].mine
      /\ Leaving \subseteq held /\ Leaving' \subseteq after
      /\ \A m, k \in held : m = k
  BY <1>1 DEF Held, Leaving, Mine, Exists, Attached, AtMostOne
<1>4. after \subseteq held /\ Leaving' \subseteq Leaving
  BY <1>2, <1>3 DEF Turns
<1>5. Attached(after)' /\ HoldsStep(held, after) /\ Stage' = Stage
  BY <1>1, <1>4, LossAttaches DEF Stage
<1>6. TypeOK'
  BY <1>1, <1>2 DEF TypeOK, RuntimeTypeOK
<1>7. after = held => Leaving' = Leaving \/ (Leaving # {} /\ Leaving' = {})
  BY <1>3, <1>4
<1>8. [Lifecycle!LifecycleNext]_(Lifecycle!lifecycleVars)
  <2>1. CASE after = held /\ Leaving # {} /\ Leaving' = {}
    BY <1>5, <2>1, LeavingSteps
  <2>2. CASE after = held => Leaving' = Leaving
    BY <1>3, <1>4, <1>5, <2>2, StepsOfLifecycle
  <2>3. QED  BY <1>7, <2>1, <2>2
<1>9. QED  BY <1>5, <1>6, <1>8, AttachedSubst DEF IInv

\* Azure DevOps goes on with an operation or gives it up.
LEMMA ServiceKeeps ==
  ASSUME IInv, ServiceStep \/ \E n \in Names : FailOperation(n)
  PROVE  IInv' /\ [Lifecycle!LifecycleNext]_(Lifecycle!lifecycleVars)
<1>1. PICK n \in Names : \/ AssignId(n) \/ FinishCreate(n) \/ FinishUpdate(n)
                         \/ FinishDelete(n) \/ FailOperation(n)
  BY DEF ServiceStep
<1>2. /\ projects \in [Names -> Project] /\ projects[n] \in Project
      /\ nextId \in Nat /\ op \in Operation /\ faults \in Nat /\ edits \in Nat
  BY DEF IInv, TypeOK, RuntimeTypeOK
<1>3. /\ UNCHANGED <<api, cache, mem, fresh, pc, edits>>
      /\ op' \in Operation /\ nextId' \in Nat /\ faults' \in Nat
  BY <1>1, <1>2 DEF AssignId, FinishCreate, FinishUpdate, FinishDelete, FailOperation,
     Completes, Operation, runtimeVars
<1>4. \E q \in Project : Turns(n, q)
  <2> USE DEF Turns
  <2>0. /\ NoProject \in Project /\ NoProject.state = "absent"
        /\ projects[n].wanted \in Settings \cup {None}
    BY <1>2, NewProjectTypes DEF NoProject, Project
  <2>1. CASE projects' = [projects EXCEPT ![n] = NoProject]
    BY <2>0, <2>1
  <2>2. CASE /\ projects[n].state = "creating"
             /\ projects' = [projects EXCEPT ![n].id = nextId]
    <3>1. [projects[n] EXCEPT !.id = nextId] \in Project
      BY <1>2, ProjectTypes
    <3>2. QED  BY <1>2, <2>2, <3>1 DEF Project
  <2>3. CASE /\ projects[n].state \in {"creating", "deleting"}
             /\ projects' = [projects EXCEPT ![n].state = "wellFormed"]
    <3>1. [projects[n] EXCEPT !.state = "wellFormed"] \in Project
      BY <1>2, ProjectTypes
    <3>2. QED  BY <1>2, <2>3, <3>1 DEF Project
  <2>4. CASE projects' = [projects EXCEPT ![n].settings = projects[n].wanted, ![n].wanted = None]
    <3> DEFINE q == [projects[n] EXCEPT !.settings = projects[n].wanted, !.wanted = None]
    <3>1. q \in Project
      BY <1>2, <2>0, ProjectTypes
    <3>2. projects' = [projects EXCEPT ![n] = q]
      BY <1>2, <2>4
    <3>3. q.state = projects[n].state /\ q.mine = projects[n].mine
      BY <1>2 DEF Project
    <3>4. QED  BY <3>1, <3>2, <3>3
  <2>5. CASE projects' = [projects EXCEPT ![n].wanted = None]
    <3>1. [projects[n] EXCEPT !.wanted = None] \in Project
      BY <1>2, ProjectTypes
    <3>2. QED  BY <1>2, <2>5, <3>1 DEF Project
  <2>6. QED
    BY <1>1, <2>1, <2>2, <2>3, <2>4, <2>5
    DEF AssignId, FinishCreate, FinishUpdate, FinishDelete, FailOperation
<1>5. QED  BY <1>2, <1>3, <1>4, TurnKeeps

\* So do the people at work in the organisation.
LEMMA AdminKeeps ==
  ASSUME IInv, AdminStep
  PROVE  IInv' /\ [Lifecycle!LifecycleNext]_(Lifecycle!lifecycleVars)
<1>1. PICK n \in Names : \/ AdminDeletes(n)
                         \/ \E s \in Settings : AdminCreates(n, s) \/ AdminChanges(n, s)
  BY DEF AdminStep
<1>2. /\ projects \in [Names -> Project] /\ projects[n] \in Project
      /\ nextId \in Nat /\ op \in Operation /\ faults \in Nat /\ edits \in Nat
  BY DEF IInv, TypeOK, RuntimeTypeOK
<1>3. /\ UNCHANGED <<api, cache, mem, fresh, pc, faults, op>>
      /\ nextId' \in Nat /\ edits' \in Nat
  BY <1>1, <1>2 DEF AdminDeletes, AdminCreates, AdminChanges
<1>4. \E q \in Project : Turns(n, q)
  <2>1. CASE AdminDeletes(n)
    <3>1. NoProject \in Project /\ NoProject.state = "absent"
      BY NewProjectTypes DEF NoProject
    <3>2. QED  BY <2>1, <3>1 DEF AdminDeletes, Turns
  <2>2. ASSUME NEW s \in Settings, AdminCreates(n, s) PROVE \E q \in Project : Turns(n, q)
    <3>1. /\ ForeignProject(nextId, s) \in Project
          /\ ForeignProject(nextId, s).state = "wellFormed" /\ ~ForeignProject(nextId, s).mine
      BY <1>2, NewProjectTypes DEF ForeignProject, NoProject
    <3>2. QED  BY <2>2, <3>1 DEF AdminCreates, Turns, Exists
  <2>3. ASSUME NEW s \in Settings, AdminChanges(n, s) PROVE \E q \in Project : Turns(n, q)
    <3>1. [projects[n] EXCEPT !.settings = s] \in Project
      BY <1>2, ProjectTypes
    <3>2. /\ [projects[n] EXCEPT !.settings = s].state = projects[n].state
          /\ [projects[n] EXCEPT !.settings = s].mine = projects[n].mine
      BY <1>2 DEF Project
    <3>3. QED  BY <1>2, <2>3, <3>1, <3>2 DEF AdminChanges, Turns
  <2>4. QED  BY <1>1, <2>1, <2>2, <2>3
<1>5. QED  BY <1>2, <1>3, <1>4, TurnKeeps

\* A CR that was just applied holds no project.
LEMMA InitKeeps ==
  ASSUME Init
  PROVE  IInv /\ Lifecycle!LifecycleInit
<1> DEFINE objects == {NewObject(p, n) : p \in ProjectParameters, n \in Names \cup {None}}
<1>1. RuntimeInit(objects) /\ None \notin ProjectParameters
  BY ProjectAssumption DEF Init
<1>2. \A o \in objects : \E p \in ProjectParameters, n \in Names \cup {None} : o = NewObject(p, n)
  OBVIOUS
<1> HIDE DEF objects
<1>3. RuntimeTypeOK(Object, {"waitCreate", "wait"}) /\ Attached({}) /\ Stage = "live"
  BY <1>1, <1>2, RuntimeStarts DEF Object
<1>4. Held = {} /\ Leaving = {}
  <2>1. Held = {}
    BY DEF Init, Held, Mine, Exists, NoProject
  <2>2. QED  BY <2>1 DEF Leaving
<1>5. TypeOK
  BY <1>3, NewProjectTypes DEF TypeOK, Init, Operation
<1>6. QED  BY <1>3, <1>4, <1>5 DEF IInv, Lifecycle!LifecycleInit

(***************************************************************************)
(* The invariant is inductive, and every step of the system is one of the  *)
(* lifecycle.                                                              *)
(***************************************************************************)
LEMMA StepKeeps ==
  ASSUME IInv, [Next]_vars
  PROVE  IInv' /\ [Lifecycle!LifecycleNext]_(Lifecycle!lifecycleVars)
<1>1. CASE UNCHANGED vars
  <2>1. UNCHANGED <<Stage, api, cache, mem, fresh, pc, edits, faults, projects, nextId, op>>
    BY <1>1 DEF vars, runtimeVars, serviceVars, Stage
  <2>2. UNCHANGED <<Held, Leaving>>
    BY <2>1, SameProjects
  <2>3. IInv'
    BY <2>1, <2>2 DEF IInv, TypeOK, RuntimeTypeOK, Attached, FreshCopy, HeldWhileCreating,
       DeletionSeen, Specified, Findable, AtMostOne, NothingToFind
  <2>4. QED  BY <2>1, <2>2, <2>3 DEF Lifecycle!lifecycleVars
<1>2. CASE Next
  BY <1>2, RuntimeKeeps, ObserveKeeps, CreateKeeps, UpdateAndWaitKeep, DeleteKeeps, ServiceKeeps,
     AdminKeeps
  DEF Next, ControllerStep
<1>3. QED  BY <1>1, <1>2

(***************************************************************************)
(* The invariant holds in every reachable state.                           *)
(***************************************************************************)
THEOREM Inductive == Spec => []IInv
<1>1. QED  BY InitKeeps, StepKeeps, PTL DEF Spec

(***************************************************************************)
(* Every reachable state is well typed.                                    *)
(***************************************************************************)
THEOREM TypeCorrect == Spec => []TypeOK
<1>1. IInv => TypeOK  BY DEF IInv
<1>2. QED  BY <1>1, Inductive, PTL

(***************************************************************************)
(* The controller implements the lifecycle: whatever fails, crashes or     *)
(* comes late, it makes one project at a time, deletes it only when asked  *)
(* to and leaves none behind.                                              *)
(***************************************************************************)
THEOREM Implements == Spec => KeepsLifecycle
<1>1. QED
  BY InitKeeps, StepKeeps, Inductive, PTL DEF Spec, KeepsLifecycle, Lifecycle!LifecycleSpec

(***************************************************************************)
(* A project the controller created is always to be found again: through   *)
(* the stored external-name, or the CR waits for its user.                 *)
(***************************************************************************)
THEOREM AlwaysFindable == Spec => []Findable(Held)
<1>1. IInv => Findable(Held)  BY DEF IInv, Attached
<1>2. QED  BY <1>1, Inductive, PTL

(***************************************************************************)
(* No CR leaves a project behind.                                          *)
(***************************************************************************)
THEOREM LeakFree == Spec => []NoLeak
<1>1. IInv => NoLeak
  BY HeldTypes DEF NoLeak, Held
<1>2. QED  BY <1>1, Inductive, PTL

(***************************************************************************)
(* No CR has two projects.                                                 *)
(***************************************************************************)
THEOREM AtMostOneProject == Spec => []OneProject
<1>1. IInv => OneProject  BY DEF IInv, Attached, AtMostOne, Held, OneProject
<1>2. QED  BY <1>1, Inductive, PTL
=============================================================================

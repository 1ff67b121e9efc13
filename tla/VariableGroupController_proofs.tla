--------------------- MODULE VariableGroupController_proofs ---------------------
(***************************************************************************)
(* Proofs about VariableGroupController, for any sets of projects, names   *)
(* and values of the Secret, any forms of variables, any number of edits   *)
(* and faults and any number of groups.  Each lemma about actions says     *)
(* that they keep the inductive invariant and that they are steps of       *)
(* ExternalLifecycle; the theorems follow.                                 *)
(***************************************************************************)
EXTENDS VariableGroupController, ManagedReconciler_proofs

USE DEF Fault, Edit, Finish, Observed, Numbers

(***************************************************************************)
(* The groups: one changes at a time, or one more is added.                *)
(***************************************************************************)

\* Groups are of their type, and what is held is among the controller's own.
LEMMA GroupTypes ==
  ASSUME groups \in Seq(Group)
  PROVE  /\ \A i \in Numbers : groups[i] \in Group
         /\ Numbers \subseteq Nat \ {0}
         /\ Held \subseteq OwnNumbers /\ OwnNumbers \subseteq Numbers /\ None \notin Numbers
<1>1. Held \subseteq OwnNumbers /\ OwnNumbers \subseteq Numbers
  BY DEF Held, OwnNumbers, Kept
<1>2. None \notin Nat
  BY VariableGroupAssumption
<1>3. QED  BY <1>1, <1>2, Elements

\* A group that changes without changing hands is held as before, unless it goes.
LEMMA ReplaceGroup ==
  ASSUME groups \in Seq(Group), NEW i \in Numbers, NEW q \in Group,
         groups' = [groups EXCEPT ![i] = q], UNCHANGED moved,
         q.owner = groups[i].owner, q.heard = groups[i].heard, q.there => groups[i].there
  PROVE  /\ groups' \in Seq(Group) /\ Numbers' = Numbers /\ OwnNumbers' = OwnNumbers
         /\ Held' \subseteq Held /\ Held \ {i} \subseteq Held'
         /\ q.there = groups[i].there => Held' = Held
         /\ groups'[i] = q
         /\ \A j \in Numbers \ {i} : groups'[j] = groups[j]
<1>1. /\ groups' \in Seq(Group) /\ Numbers' = Numbers /\ groups'[i] = q
      /\ \A j \in Numbers \ {i} : groups'[j] = groups[j]
  BY Replaced
<1>2. OwnNumbers' = OwnNumbers
  BY <1>1 DEF OwnNumbers
<1>3. /\ \A j \in Numbers : Kept(j)' => Kept(j)
      /\ \A j \in Numbers \ {i} : Kept(j)' <=> Kept(j)
      /\ q.there = groups[i].there => (Kept(i)' <=> Kept(i))
  BY <1>1 DEF Kept
<1>4. Held' \subseteq Held /\ Held \ {i} \subseteq Held'
  BY <1>1, <1>3 DEF Held
<1>5. q.there = groups[i].there => Held' = Held
  BY <1>1, <1>3 DEF Held
<1>6. QED  BY <1>1, <1>2, <1>4, <1>5

\* A group that is added is held if the controller made it and heard of it.
LEMMA AddGroup ==
  ASSUME groups \in Seq(Group), NEW q \in Group, groups' = Append(groups, q), UNCHANGED moved,
         NEW n, n = Len(groups) + 1
  PROVE  /\ groups' \in Seq(Group) /\ n \in Nat \ Numbers /\ Numbers' = Numbers \cup {n}
         /\ groups'[n] = q /\ \A j \in Numbers : groups'[j] = groups[j]
         /\ OwnNumbers \subseteq OwnNumbers' /\ (q.owner = "us" => n \in OwnNumbers')
         /\ ~(q.owner = "us" /\ q.heard) => Held' = Held
         /\ q.there /\ q.owner = "us" /\ q.heard /\ ~moved => Held' = Held \cup {n}
         /\ moved => Held' = {} /\ Held = {}
<1>1. /\ groups' \in Seq(Group) /\ n \in Nat \ Numbers /\ Numbers' = Numbers \cup {n}
      /\ groups'[n] = q /\ \A j \in Numbers : groups'[j] = groups[j]
  BY Appended
<1>2. OwnNumbers \subseteq OwnNumbers' /\ (q.owner = "us" => n \in OwnNumbers')
  BY <1>1 DEF OwnNumbers
<1>3. /\ \A j \in Numbers : Kept(j)' <=> Kept(j)
      /\ Kept(n)' <=> q.there /\ q.owner = "us" /\ q.heard
  BY <1>1 DEF Kept
<1>4. moved => Held' = {} /\ Held = {}
  BY DEF Held
<1>5. ~(q.owner = "us" /\ q.heard) => Held' = Held
  BY <1>1, <1>3 DEF Held
<1>6. q.there /\ q.owner = "us" /\ q.heard /\ ~moved => Held' = Held \cup {n}
  BY <1>1, <1>3 DEF Held
<1>7. QED  BY <1>1, <1>2, <1>4, <1>5, <1>6

\* Without a change of the groups nothing is held that was not, and all is in place.
LEMMA SameGroups ==
  ASSUME UNCHANGED <<groups, moved>>
  PROVE  Held' = Held /\ OwnNumbers' = OwnNumbers
  BY DEF Held, Kept, OwnNumbers

\* A group as the service makes it, for a spec that was found valid or a foreigner.
LEMMA NewGroupTypes ==
  /\ \A p \in VariableGroupParameters, v \in Values \cup {None} :
       Valid(p) => /\ NewGroup(p, v) \in Group
                   /\ [NewGroup(p, v) EXCEPT !.heard = TRUE] \in Group
  /\ \A project \in Projects, name \in GroupNames, owner \in {"named", "others"} :
       ForeignGroup(project, name, owner) \in Group
  BY VariableGroupAssumption
  DEF NewGroup, ForeignGroup, Group, VariableGroupParameters, VariableForms, Valid

\* To replace several fields of a group is to replace the group.
LEMMA Rewritten ==
  ASSUME NEW t \in Seq(Group), NEW i \in DOMAIN t, NEW a, NEW b, NEW c, NEW d
  PROVE  [t EXCEPT ![i].project = a, ![i].name = b, ![i].form = c, ![i].value = d]
         = [t EXCEPT ![i] = [t[i] EXCEPT !.project = a, !.name = b, !.form = c, !.value = d]]
  OBVIOUS

\* A group one of whose fields is changed is still a group.
LEMMA GroupChanges ==
  ASSUME NEW q \in Group
  PROVE  /\ [q EXCEPT !.there = FALSE] \in Group
         /\ \A name \in GroupNames : [q EXCEPT !.name = name] \in Group
         /\ \A p \in VariableGroupParameters, v \in Values \cup {None} :
              Valid(p) => [q EXCEPT !.project = p.project, !.name = p.name,
                                    !.form = p.form, !.value = v] \in Group
  BY VariableGroupAssumption DEF Group, VariableGroupParameters, VariableForms, Valid

(***************************************************************************)
(* What steps of the lifecycle look like to the controller.                *)
(***************************************************************************)

\* A step of the reconciler's shape is a step of the lifecycle.
LEMMA StepsOfLifecycle ==
  ASSUME NEW before, NEW after, Held = before, Held' = after, HoldsStep(before, after)
  PROVE  [Lifecycle!LifecycleNext]_(Lifecycle!lifecycleVars)
<1> USE DEF HoldsStep, Lifecycle!LifecycleNext
<1>1. CASE after = before /\ Stage' = Stage
  BY <1>1 DEF Lifecycle!lifecycleVars
<1>2. CASE after = before /\ Stage = "live" /\ Stage' = "deleting"
  BY <1>2 DEF Lifecycle!RequestDeletion
<1>3. CASE after = before /\ Stage \in {"live", "deleting"} /\ Stage' = "gone" /\ before = {}
  BY <1>3 DEF Lifecycle!RequestDeletion, Lifecycle!Release
<1>4. CASE Stage' = Stage /\ before # {} /\ after = {}
  BY <1>4 DEF Lifecycle!ResourceVanishes
<1>5. CASE Stage' = Stage /\ Stage # "gone" /\ before = {} /\ \E id : after = {id}
  BY <1>5 DEF Lifecycle!CreateResource, Stage
<1>6. QED  BY <1>1, <1>2, <1>3, <1>4, <1>5

\* The set of held groups may be given by its value.
LEMMA AttachedSubst ==
  ASSUME NEW after, Held' = after, Attached(after)'
  PROVE  Attached(Held)'
  BY DEF Attached, Findable, AtMostOne, NothingToFind

\* A reconcile has a CR at hand, with a spec.
LEMMA SpecTypes ==
  ASSUME TypeOK, Attached(Held), pc # "idle"
  PROVE  mem.exists /\ mem.spec # None /\ mem.spec \in VariableGroupParameters
<1>1. mem.exists /\ mem.spec # None
  BY DEF Attached, HeldWhileCreating, Specified
<1>2. mem.spec \in VariableGroupParameters \cup {None}
  BY FieldTypes DEF TypeOK, RuntimeTypeOK, Object
<1>3. QED  BY <1>1, <1>2

(***************************************************************************)
(* The reconciler, the informer, the user and a crash.                     *)
(***************************************************************************)
USE DEF Object

Digests == {Hash(v) : v \in Values}

FirstParameters == {p \in VariableGroupParameters : p.project = FirstProject}

\* A CR whose numbers are the controller's own is one with smaller types.
LEMMA OwnTypes ==
  ASSUME NEW own
  PROVE  TypeOK /\ (\A object \in {api, cache, mem} : {object.name, object.status} \subseteq own \cup {None})
         => RuntimeTypeOK(Objects(own, Digests, own, VariableGroupParameters), {"add", "update"})
  BY DEF TypeOK, RuntimeTypeOK, Objects, Digests

\* So is one that was not moved.
LEMMA FirstTypes ==
  ASSUME NEW o \in Object
  PROVE  (o.spec # None => o.spec.project = FirstProject)
         <=> o \in Objects(Nat, Digests, Nat, FirstParameters)
<1>1. None \notin VariableGroupParameters
  BY VariableGroupAssumption
<1>2. QED  BY <1>1 DEF Objects, Digests, FirstParameters

\* Steps that change nothing of the groups or of which project the CR is in.
LEMMA CalmKeeps ==
  ASSUME IInv, UNCHANGED <<groups, secret, moved>>,
         \/ (ReconcilerStep(FALSE) \/ CacheSync \/ RequestDelete) /\ UNCHANGED payload
         \/ Abort /\ payload' = None
         \/ \E p \in VariableGroupParameters :
              EditSpec(p) /\ (~moved => p.project = FirstProject) /\ UNCHANGED payload
  PROVE  IInv' /\ [Lifecycle!LifecycleNext]_(Lifecycle!lifecycleVars)
<1> PICK held, own : held = Held /\ own = OwnNumbers
  OBVIOUS
<1> DEFINE First == Objects(Nat, Digests, Nat, FirstParameters)
           Own == Objects(own, Digests, own, VariableGroupParameters)
<1>1. /\ TypeOK /\ Attached(held) /\ None \notin held
      /\ None \notin VariableGroupParameters /\ None \notin FirstParameters
      /\ groups \in Seq(Group) /\ RuntimeTypeOK(Object, {"add", "update"})
      /\ payload' \in Values \cup {None}
  BY GroupTypes, VariableGroupAssumption DEF IInv, TypeOK, FirstParameters
<1>2. Held' = held /\ OwnNumbers' = own
  BY SameGroups
<1>3. RuntimeTypeOK(Own, {"add", "update"})
  BY <1>1, OwnTypes DEF IInv, NamesOwn
<1>4. ~moved => RuntimeTypeOK(First, {"add", "update"})
  BY <1>1, FirstTypes DEF IInv, InPlace, RuntimeTypeOK
<1>5. /\ RuntimeTypeOK(Object, {"add", "update"})' /\ RuntimeTypeOK(Own, {"add", "update"})'
      /\ ~moved => RuntimeTypeOK(First, {"add", "update"})'
      /\ Attached(held)' /\ HoldsStep(held, held)
  <2>1. CASE ReconcilerStep(FALSE) \/ CacheSync
    <3>1. /\ RuntimeTypeOK(Object, {"add", "update"})' /\ RuntimeTypeOK(Own, {"add", "update"})'
          /\ ~moved => RuntimeTypeOK(First, {"add", "update"})'
      BY <1>1, <1>3, <1>4, <2>1, RuntimeTypes DEF Digests
    <3>2. Attached(held)' /\ HoldsStep(held, held)
      BY <1>1, <2>1, RuntimeAttaches
    <3>3. QED  BY <3>1, <3>2
  <2>2. CASE RequestDelete \/ Abort
    BY <1>1, <1>3, <1>4, <2>2, OutsideTypes, OutsideAttaches DEF Digests
  <2>3. ASSUME NEW p \in VariableGroupParameters, EditSpec(p), ~moved => p.project = FirstProject
        PROVE  /\ RuntimeTypeOK(Object, {"add", "update"})' /\ RuntimeTypeOK(Own, {"add", "update"})'
               /\ ~moved => RuntimeTypeOK(First, {"add", "update"})'
               /\ Attached(held)' /\ HoldsStep(held, held)
    <3>1. ~moved => p \in FirstParameters
      BY <2>3 DEF FirstParameters
    <3>2. QED  BY <1>1, <1>3, <1>4, <2>3, <3>1, OutsideTypes, OutsideAttaches DEF Digests
  <2>4. QED  BY <2>1, <2>2, <2>3
<1>6. Resolved' /\ Numbered' /\ DigestOfSent'
  <2>1. CASE ReconcilerStep(FALSE)
    BY <2>1, RuntimeSteps DEF Resolved, Numbered, DigestOfSent
  <2>2. CASE Abort
    BY <2>2 DEF Resolved, Numbered, DigestOfSent, Abort
  <2>3. CASE /\ CacheSync \/ RequestDelete \/ \E p \in VariableGroupParameters : EditSpec(p)
             /\ UNCHANGED payload
    <3>1. UNCHANGED <<mem, pc, groups, payload>>
      BY <2>3 DEF CacheSync, RequestDelete, EditSpec
    <3>2. QED  BY <3>1 DEF IInv, Resolved, Numbered, DigestOfSent
  <2>4. QED  BY <2>1, <2>2, <2>3
<1>7. NamesOwn'
  BY <1>2, <1>5 DEF NamesOwn, RuntimeTypeOK, Objects
<1>8. InPlace'
  <2>1. ~moved => \A object \in {api, cache, mem}' : object.spec # None => object.spec.project = FirstProject
    BY <1>5, FirstTypes DEF RuntimeTypeOK
  <2>2. ~moved => \A i \in Held' : groups'[i].project = FirstProject
    BY <1>2 DEF IInv, InPlace
  <2>3. QED  BY <2>1, <2>2 DEF InPlace
<1>9. TypeOK'
  BY <1>1, <1>5 DEF TypeOK
<1>10. Attached(Held)' /\ [Lifecycle!LifecycleNext]_(Lifecycle!lifecycleVars)
  BY <1>2, <1>5, AttachedSubst, StepsOfLifecycle
<1>11. QED  BY <1>6, <1>7, <1>8, <1>9, <1>10 DEF IInv

\* A CR that is moved to another project lets go of its group.
LEMMA MoveKeeps ==
  ASSUME IInv, NEW p \in VariableGroupParameters, EditSpec(p), moved' = TRUE,
         UNCHANGED <<groups, secret, payload>>
  PROVE  IInv' /\ [Lifecycle!LifecycleNext]_(Lifecycle!lifecycleVars)
<1> PICK held, own : held = Held /\ own = OwnNumbers
  OBVIOUS
<1> DEFINE Own == Objects(own, Digests, own, VariableGroupParameters)
<1>1. /\ TypeOK /\ Attached(held) /\ None \notin VariableGroupParameters
      /\ groups \in Seq(Group) /\ RuntimeTypeOK(Object, {"add", "update"})
  BY VariableGroupAssumption DEF IInv, TypeOK
<1>2. Held' = {} /\ OwnNumbers' = own
  BY DEF Held, OwnNumbers
<1>3. RuntimeTypeOK(Own, {"add", "update"})
  BY <1>1, OwnTypes DEF IInv, NamesOwn
<1>4. /\ RuntimeTypeOK(Object, {"add", "update"})' /\ RuntimeTypeOK(Own, {"add", "update"})'
      /\ Attached(held)'
  BY <1>1, <1>3, OutsideTypes, OutsideAttaches DEF Digests
<1>5. Attached({})'
  BY <1>4 DEF Attached, Findable, AtMostOne, NothingToFind
<1>6. Stage' = Stage
  <2>1. api'.exists = api.exists /\ api'.del = api.del
    BY <1>1 DEF EditSpec, RuntimeTypeOK, Objects
  <2>2. QED  BY <2>1 DEF Stage
<1>7. HoldsStep(held, {})
  BY <1>6 DEF HoldsStep
<1>8. Resolved' /\ Numbered' /\ DigestOfSent'
  BY DEF IInv, Resolved, Numbered, DigestOfSent, EditSpec
<1>9. NamesOwn' /\ InPlace'
  BY <1>2, <1>4 DEF NamesOwn, RuntimeTypeOK, Objects, InPlace
<1>10. TypeOK'
  BY <1>1, <1>4 DEF TypeOK
<1>11. QED
  BY <1>2, <1>5, <1>7, <1>8, <1>9, <1>10, AttachedSubst, StepsOfLifecycle DEF IInv

\* The reconciler, the informer, the user and a crash take one or the other.
LEMMA RuntimeKeeps ==
  ASSUME IInv,
         \/ ReconcilerStep(FALSE) /\ UNCHANGED serviceVars
         \/ CacheSync /\ UNCHANGED serviceVars
         \/ Crash \/ UserStep
  PROVE  IInv' /\ [Lifecycle!LifecycleNext]_(Lifecycle!lifecycleVars)
<1>1. ASSUME NEW p \in VariableGroupParameters, EditSpec(p), UNCHANGED <<groups, secret, payload>>,
             moved' = (moved \/ p.project # api.spec.project)
      PROVE  IInv' /\ [Lifecycle!LifecycleNext]_(Lifecycle!lifecycleVars)
  <2>1. moved \in BOOLEAN
    BY DEF IInv, TypeOK
  <2>2. api.exists /\ (~moved => api.spec.project = FirstProject)
    BY <1>1 DEF EditSpec, IInv, InPlace, Attached, Specified
  <2>3. CASE moved' = TRUE
    BY <1>1, <2>3, MoveKeeps
  <2>4. CASE moved' = moved /\ (~moved => p.project = FirstProject)
    BY <1>1, <2>4, CalmKeeps
  <2>5. QED  BY <1>1, <2>1, <2>2, <2>3, <2>4
<1>2. QED
  BY <1>1, CalmKeeps DEF Crash, UserStep, serviceVars

(***************************************************************************)
(* The handlers.  What is to be shown of each: it treats what is held as   *)
(* HandlerStep says, and the rest of the invariant stands.                 *)
(***************************************************************************)
LEMMA HandlerKeeps ==
  ASSUME IInv, NEW held, NEW after, held = Held, after = Held', HandlerStep(held, after),
         mem' \in Object, UNCHANGED <<edits, secret, moved>>,
         faults' \in Nat, payload' \in Values \cup {None},
         pc' \in Observed \cup {"add", "created", "createFailed", "update", "status"},
         groups' \in Seq(Group), OwnNumbers \subseteq OwnNumbers',
         {mem'.name, mem'.status} \subseteq OwnNumbers' \cup {None},
         ~moved => \A i \in after : groups'[i].project = FirstProject,
         Resolved', Numbered', DigestOfSent'
  PROVE  IInv' /\ [Lifecycle!LifecycleNext]_(Lifecycle!lifecycleVars)
<1>1. UNCHANGED <<api, cache, fresh>> /\ mem'.exists = mem.exists /\ mem'.spec = mem.spec
  BY DEF HandlerStep
<1>2. TypeOK'
  BY <1>1 DEF IInv, TypeOK, RuntimeTypeOK
<1>3. NamesOwn'
  BY <1>1 DEF IInv, NamesOwn
<1>4. InPlace'
  BY <1>1 DEF IInv, InPlace
<1>5. Attached(after)' /\ HoldsStep(held, after)
  BY HandlerAttaches DEF IInv
<1>6. QED
  BY <1>2, <1>3, <1>4, <1>5, AttachedSubst, StepsOfLifecycle DEF IInv

\* What the handlers find.
LEMMA HandlerTypes ==
  ASSUME IInv, pc # "idle"
  PROVE  /\ TypeOK /\ Attached(Held) /\ mem \in Object /\ groups \in Seq(Group)
         /\ {mem.name, mem.status} \subseteq OwnNumbers \cup {None}
         /\ mem.spec \in VariableGroupParameters
         /\ payload \in Values \cup {None} /\ secret \in Values \cup {None}
         /\ faults \in Nat
         /\ ~moved => /\ mem.spec.project = FirstProject
                      /\ \A i \in Held : groups[i].project = FirstProject
  BY SpecTypes DEF IInv, TypeOK, RuntimeTypeOK, NamesOwn, InPlace

\* Observe changes no group, notes only a number that it was led by, and finds
\* what is held in the project of a CR that was not moved.
LEMMA ObserveKeeps ==
  ASSUME IInv, Observe
  PROVE  IInv' /\ [Lifecycle!LifecycleNext]_(Lifecycle!lifecycleVars)
<1> PICK held : held = Held
  OBVIOUS
<1> DEFINE i == VariableGroupIDFrom(mem)
<1>1. /\ UNCHANGED <<api, cache, fresh, edits, groups, secret, payload, moved>>
      /\ pc = "observe" /\ pc' \in Observed \cup {"status"} /\ faults' \in Nat
      /\ mem' = mem \/ (Get(mem.spec.project, i) /\ mem' = [mem EXCEPT !.status = i])
      /\ pc' = "missing" => ~Get(mem.spec.project, i)
  BY DEF Observe, ObserveReturns, serviceVars, IInv, TypeOK, RuntimeTypeOK
<1>2. Held' = held /\ OwnNumbers' = OwnNumbers
  BY <1>1, SameGroups
<1>3. /\ mem \in Object /\ groups \in Seq(Group)
      /\ {mem.name, mem.status} \subseteq OwnNumbers \cup {None}
      /\ payload \in Values \cup {None}
      /\ ~moved => /\ mem.spec.project = FirstProject
                   /\ \A k \in held : groups[k].project = FirstProject
  BY <1>1, HandlerTypes
<1>4. ASSUME Get(mem.spec.project, i)
      PROVE  i \in OwnNumbers /\ [mem EXCEPT !.status = i] \in Object
  <2>1. i \in Numbers /\ i \in {mem.name, mem.status}
    BY <1>4 DEF Get, VariableGroupIDFrom
  <2>2. i \in Nat /\ i # None
    BY <1>3, <2>1, GroupTypes
  <2>3. QED  BY <1>3, <2>1, <2>2, ObjectTypes
<1>5. mem' \in Object /\ mem'.name = mem.name
      /\ {mem'.name, mem'.status} \subseteq OwnNumbers \cup {None}
      /\ mem'.exists = mem.exists /\ mem'.fin = mem.fin /\ mem'.del = mem.del
      /\ mem'.create = mem.create /\ mem'.spec = mem.spec
  <2>1. CASE mem' = mem
    BY <1>3, <2>1
  <2>2. CASE Get(mem.spec.project, i) /\ mem' = [mem EXCEPT !.status = i]
    BY <1>3, <1>4, <2>2 DEF Objects
  <2>3. QED  BY <1>1, <2>1, <2>2
<1>6. pc' = "missing" => mem.name \notin held
  BY <1>1, <1>3, GroupTypes DEF VariableGroupIDFrom, Get, Held, Kept
<1>7. HandlerStep(held, held)
  BY <1>1, <1>5, <1>6 DEF HandlerStep, Creating
<1>8. Resolved' /\ Numbered' /\ DigestOfSent'
  BY <1>1 DEF Resolved, Numbered, DigestOfSent
<1>9. ~moved => \A k \in held : groups'[k].project = FirstProject
  BY <1>1, <1>3
<1>10. QED
  BY <1>1, <1>2, <1>3, <1>5, <1>7, <1>8, <1>9, HandlerKeeps

\* What is on its way was resolved for the spec at hand.
LEMMA BuildKeeps ==
  ASSUME IInv, NEW next, NEW failed, BuildVariableGroupParameters(next, failed),
         \/ pc = "create" /\ next = "add" /\ failed = "createFailed"
         \/ pc = "stale" /\ next = "update" /\ failed = "status"
  PROVE  IInv' /\ [Lifecycle!LifecycleNext]_(Lifecycle!lifecycleVars)
<1> PICK held : held = Held
  OBVIOUS
<1>1. /\ Attached(held) /\ mem \in Object /\ groups \in Seq(Group)
      /\ {mem.name, mem.status} \subseteq OwnNumbers \cup {None}
      /\ payload \in Values \cup {None} /\ secret \in Values \cup {None} /\ faults \in Nat
      /\ ~moved => \A k \in held : groups[k].project = FirstProject
  BY HandlerTypes
<1>2. /\ UNCHANGED <<api, cache, mem, fresh, edits, groups, secret, moved>>
      /\ pc' \in {next, failed} /\ payload' \in {payload, secret, None}
      /\ faults' \in Nat
      /\ pc' = next => /\ Valid(mem.spec)
                       /\ mem.spec.form = "secret" => secret # None /\ payload' = secret
  BY <1>1 DEF BuildVariableGroupParameters, Resolves
<1>3. Held' = held /\ OwnNumbers' = OwnNumbers
  BY <1>2, SameGroups
<1>4. HandlerStep(held, held)
  BY <1>1, <1>2 DEF HandlerStep, Creating, Attached, NothingToFind
<1>5. Resolved' /\ Numbered' /\ DigestOfSent'
  BY <1>1, <1>2 DEF Resolved, Numbered, DigestOfSent, Valid
<1>6. ~moved => \A k \in held : groups'[k].project = FirstProject
  BY <1>1, <1>2
<1>7. QED
  BY <1>1, <1>2, <1>3, <1>4, <1>5, <1>6, HandlerKeeps

\* Delete takes away at most the group under the CR's number.
LEMMA DeleteKeeps ==
  ASSUME IInv, Delete
  PROVE  IInv' /\ [Lifecycle!LifecycleNext]_(Lifecycle!lifecycleVars)
<1> PICK held, after : held = Held /\ after = Held'
  OBVIOUS
<1> DEFINE i == VariableGroupIDFrom(mem)
<1>1. pc \in {"current", "stale"} /\ pc' = "status"
  BY DEF Delete, MayDelete
<1>2. /\ Attached(held) /\ mem \in Object /\ groups \in Seq(Group)
      /\ {mem.name, mem.status} \subseteq OwnNumbers \cup {None}
      /\ payload \in Values \cup {None} /\ faults \in Nat
      /\ ~moved => \A k \in held : groups[k].project = FirstProject
  BY <1>1, HandlerTypes
<1>3. /\ UNCHANGED <<api, cache, mem, fresh, edits, secret, payload, moved>>
      /\ faults' \in Nat
      /\ \/ groups' = groups
         \/ i \in Numbers /\ groups' = [groups EXCEPT ![i].there = FALSE]
  BY <1>2 DEF Delete, Get
<1>4. /\ groups' \in Seq(Group) /\ after \subseteq held /\ OwnNumbers' = OwnNumbers
      /\ ~moved => \A k \in after : groups'[k].project = FirstProject
  <2>1. CASE groups' = groups
    BY <1>2, <1>3, <2>1, SameGroups
  <2>2. CASE i \in Numbers /\ groups' = [groups EXCEPT ![i].there = FALSE]
    <3> DEFINE q == [groups[i] EXCEPT !.there = FALSE]
    <3>1. groups[i] \in Group
      BY <1>2, <2>2, GroupTypes
    <3>2. q \in Group
      BY <3>1, GroupChanges
    <3>3. q.owner = groups[i].owner /\ q.heard = groups[i].heard /\ ~q.there
          /\ q.project = groups[i].project
      BY <3>1, <3>2 DEF Group
    <3>4. groups' = [groups EXCEPT ![i] = q]
      BY <2>2
    <3> HIDE DEF q
    <3>5. /\ groups' \in Seq(Group) /\ after \subseteq held /\ OwnNumbers' = OwnNumbers
          /\ groups'[i] = q /\ \A j \in Numbers \ {i} : groups'[j] = groups[j]
      BY <1>2, <1>3, <2>2, <3>2, <3>3, <3>4, ReplaceGroup
    <3>6. held \subseteq Numbers
      BY DEF Held
    <3>7. QED  BY <1>2, <3>3, <3>5, <3>6
  <2>3. QED  BY <1>3, <2>1, <2>2
<1>5. HandlerStep(held, after)
  BY <1>1, <1>3, <1>4 DEF HandlerStep, Creating
<1>6. Resolved' /\ Numbered' /\ DigestOfSent'
  BY <1>1 DEF Resolved, Numbered, DigestOfSent
<1>7. QED
  BY <1>1, <1>2, <1>3, <1>4, <1>5, <1>6, HandlerKeeps

\* The digest is put on a copy of the CR, of which it changes nothing else.
LEMMA DigestTypes ==
  ASSUME NEW o \in Object, o.spec.form = "secret" => payload \in Values
  PROVE  LET object == SetSecretsHashAnnotation(o)
         IN /\ object \in Object
            /\ object.exists = o.exists /\ object.fin = o.fin /\ object.del = o.del
            /\ object.create = o.create /\ object.spec = o.spec
            /\ object.name = o.name /\ object.status = o.status
            /\ o.spec.form = "secret" => object.ann = Hash(payload)
<1>1. CASE o.spec.form = "secret"
  <2>1. Hash(payload) \in {Hash(v) : v \in Values}
    BY <1>1
  <2>2. [o EXCEPT !.ann = Hash(payload)] \in Object
    BY <2>1, ObjectTypes
  <2>3. QED  BY <1>1, <2>2 DEF SetSecretsHashAnnotation, Objects
<1>2. CASE o.spec.form # "secret"
  BY <1>2 DEF SetSecretsHashAnnotation
<1>3. QED  BY <1>1, <1>2

\* A creation adds at most one group, and its number to the CR when it is heard of.
LEMMA AddKeeps ==
  ASSUME IInv, AddVariableGroup
  PROVE  IInv' /\ [Lifecycle!LifecycleNext]_(Lifecycle!lifecycleVars)
<1> PICK held, after, n : held = Held /\ after = Held' /\ n = Len(groups) + 1
  OBVIOUS
<1> DEFINE group == NewGroup(mem.spec, payload)
           heard == [group EXCEPT !.heard = TRUE]
           created == [mem EXCEPT !.name = n, !.status = n]
<1>1. pc = "add" /\ pc' \in {"created", "createFailed"}
  BY DEF AddVariableGroup
<1>2. /\ Attached(held) /\ mem \in Object /\ groups \in Seq(Group) /\ held = {}
      /\ {mem.name, mem.status} \subseteq OwnNumbers \cup {None}
      /\ mem.spec \in VariableGroupParameters
      /\ payload \in Values \cup {None} /\ faults \in Nat
      /\ ~moved => mem.spec.project = FirstProject
      /\ Valid(mem.spec) /\ (mem.spec.form = "secret" => payload \in Values)
  BY <1>1, HandlerTypes DEF IInv, Resolved, Attached, NothingToFind
<1>3. /\ UNCHANGED <<api, cache, fresh, edits, secret, moved>>
      /\ payload' = None /\ faults' \in Nat
  BY <1>2 DEF AddVariableGroup
<1>4. group \in Group /\ heard \in Group
  BY <1>2, NewGroupTypes
<1>5. /\ group.project = mem.spec.project /\ group.owner = "us" /\ ~group.heard
      /\ heard.project = mem.spec.project /\ heard.owner = "us" /\ heard.heard /\ heard.there
      /\ heard.value = payload
  BY DEF NewGroup
<1> HIDE DEF group, heard
<1>6. CASE mem' = mem /\ pc' = "createFailed" /\ (groups' = groups \/ groups' = Append(groups, group))
  <2>1. groups' \in Seq(Group) /\ after = {} /\ OwnNumbers \subseteq OwnNumbers'
    <3>1. CASE groups' = groups
      BY <1>2, <1>3, <3>1, SameGroups
    <3>2. CASE groups' = Append(groups, group)
      BY <1>2, <1>3, <1>4, <1>5, <3>2, AddGroup
    <3>3. QED  BY <1>6, <3>1, <3>2
  <2>2. HandlerStep(held, {})
    BY <1>1, <1>2, <1>3, <1>6 DEF HandlerStep, Creating
  <2>3. Resolved' /\ Numbered' /\ DigestOfSent'
    BY <1>6 DEF Resolved, Numbered, DigestOfSent
  <2>4. QED
    BY <1>2, <1>3, <1>6, <2>1, <2>2, <2>3, HandlerKeeps
<1>7. CASE /\ groups' = Append(groups, heard)
           /\ \/ mem' = SetSecretsHashAnnotation(created) /\ pc' = "created"
              \/ mem' = created /\ pc' = "createFailed"
  <2>1. /\ groups' \in Seq(Group) /\ n \in Nat \ Numbers /\ Numbers' = Numbers \cup {n}
        /\ groups'[n] = heard
        /\ OwnNumbers \subseteq OwnNumbers' /\ n \in OwnNumbers'
        /\ after = IF moved THEN {} ELSE {n}
    BY <1>2, <1>3, <1>4, <1>5, <1>7, AddGroup DEF IInv, TypeOK
  <2>2. created \in Object
    BY <1>2, <2>1, ObjectTypes
  <2>3. /\ created.exists = mem.exists /\ created.fin = mem.fin /\ created.del = mem.del
        /\ created.create = mem.create /\ created.spec = mem.spec
        /\ created.name = n /\ created.status = n
    BY <1>2, <2>2 DEF Objects
  <2> HIDE DEF created
  <2>4. /\ mem' \in Object
        /\ mem'.exists = mem.exists /\ mem'.fin = mem.fin /\ mem'.del = mem.del
        /\ mem'.create = mem.create /\ mem'.spec = mem.spec
        /\ mem'.name = n /\ mem'.status = n
        /\ pc' = "created" /\ mem.spec.form = "secret" => mem'.ann = Hash(payload)
    BY <1>2, <1>7, <2>2, <2>3, DigestTypes
  <2>5. HandlerStep(held, after)
    BY <1>1, <1>2, <1>3, <2>1, <2>4 DEF HandlerStep, Creating
  <2>6. Resolved' /\ Numbered'
    BY <1>1, <2>1, <2>4 DEF Resolved, Numbered
  <2>7. DigestOfSent'
    BY <1>5, <2>1, <2>4 DEF DigestOfSent, Matches
  <2>8. ~moved => \A i \in after : groups'[i].project = FirstProject
    BY <1>2, <1>5, <2>1
  <2>9. QED
    BY <1>1, <1>3, <2>1, <2>4, <2>5, <2>6, <2>7, <2>8, HandlerKeeps
<1>8. QED
  <2>1. \/ /\ mem' = mem /\ pc' = "createFailed"
           /\ groups' = groups \/ groups' = Append(groups, group)
        \/ /\ groups' = Append(groups, heard)
           /\ \/ mem' = SetSecretsHashAnnotation(created) /\ pc' = "created"
              \/ mem' = created /\ pc' = "createFailed"
    BY DEF AddVariableGroup, group, heard
  <2>2. QED  BY <1>6, <1>7, <2>1

\* An update changes at most the group under the CR's number, which stays where a
\* CR that was not moved is.
LEMMA UpdateKeeps ==
  ASSUME IInv, UpdateVariableGroup
  PROVE  IInv' /\ [Lifecycle!LifecycleNext]_(Lifecycle!lifecycleVars)
<1> PICK held : held = Held
  OBVIOUS
<1> DEFINE i == VariableGroupIDFrom(mem)
           p == mem.spec
           q == [groups[i] EXCEPT !.project = p.project, !.name = p.name,
                                  !.form = p.form, !.value = payload]
<1>1. pc = "update" /\ pc' = "status"
  BY DEF UpdateVariableGroup
<1>2. /\ Attached(held) /\ mem \in Object /\ groups \in Seq(Group)
      /\ {mem.name, mem.status} \subseteq OwnNumbers \cup {None}
      /\ p \in VariableGroupParameters
      /\ payload \in Values \cup {None} /\ faults \in Nat
      /\ ~moved => p.project = FirstProject /\ \A k \in held : groups[k].project = FirstProject
      /\ Valid(p) /\ (p.form = "secret" => payload \in Values)
  BY <1>1, HandlerTypes DEF IInv, Resolved
<1>3. /\ UNCHANGED <<api, cache, fresh, edits, secret, moved>>
      /\ payload' = None /\ faults' \in Nat
      /\ groups' = groups \/ (i \in Numbers /\ groups' = [groups EXCEPT ![i] = q])
      /\ mem' = mem \/ (i \in Numbers /\ mem' = SetSecretsHashAnnotation([mem EXCEPT !.status = i]))
  <2> DEFINE updated == [groups EXCEPT ![i].project = p.project, ![i].name = p.name,
                                       ![i].form = p.form, ![i].value = payload]
  <2>1. i \in Numbers => updated = [groups EXCEPT ![i] = q]
    BY <1>2, Rewritten
  <2>2. /\ groups' = groups \/ (i \in Numbers /\ groups' = updated)
        /\ mem' = mem \/ (i \in Numbers /\ mem' = SetSecretsHashAnnotation([mem EXCEPT !.status = i]))
    BY DEF UpdateVariableGroup
  <2>3. /\ UNCHANGED <<api, cache, fresh, edits, secret, moved>>
        /\ payload' = None /\ faults' \in Nat
    BY <1>2 DEF UpdateVariableGroup
  <2> HIDE DEF q, updated
  <2>4. QED  BY <2>1, <2>2, <2>3
<1>4. ASSUME i \in Numbers
      PROVE  i \in Nat /\ i \in OwnNumbers /\ groups[i] \in Group /\ q \in Group
  <2>1. i \in Nat /\ i # None /\ groups[i] \in Group
    BY <1>2, <1>4, GroupTypes
  <2>2. i \in OwnNumbers
    BY <1>2, <2>1 DEF VariableGroupIDFrom
  <2>3. q \in Group
    BY <1>2, <2>1, GroupChanges
  <2>4. QED  BY <2>1, <2>2, <2>3
<1>5. /\ groups' \in Seq(Group) /\ Held' = held /\ OwnNumbers' = OwnNumbers
      /\ ~moved => \A k \in held : groups'[k].project = FirstProject
  <2>1. CASE groups' = groups
    BY <1>2, <1>3, <2>1, SameGroups
  <2>2. CASE i \in Numbers /\ groups' = [groups EXCEPT ![i] = q]
    <3>1. /\ q.owner = groups[i].owner /\ q.heard = groups[i].heard /\ q.there = groups[i].there
          /\ q.project = p.project
      BY <1>4, <2>2 DEF Group
    <3>2. q \in Group
      BY <1>4, <2>2
    <3> HIDE DEF q
    <3>3. /\ groups' \in Seq(Group) /\ Held' = held /\ OwnNumbers' = OwnNumbers
          /\ groups'[i] = q /\ \A j \in Numbers \ {i} : groups'[j] = groups[j]
      BY <1>2, <1>3, <2>2, <3>1, <3>2, ReplaceGroup
    <3>4. held \subseteq Numbers
      BY DEF Held
    <3>5. QED  BY <1>2, <3>1, <3>3, <3>4
  <2>3. QED  BY <1>3, <2>1, <2>2
<1>6. /\ mem' \in Object /\ mem'.name = mem.name
      /\ {mem'.name, mem'.status} \subseteq OwnNumbers \cup {None}
      /\ mem'.exists = mem.exists /\ mem'.fin = mem.fin /\ mem'.del = mem.del
      /\ mem'.create = mem.create /\ mem'.spec = mem.spec
  <2>1. CASE mem' = mem
    BY <1>2, <2>1
  <2>2. CASE i \in Numbers /\ mem' = SetSecretsHashAnnotation([mem EXCEPT !.status = i])
    <3> DEFINE seen == [mem EXCEPT !.status = i]
    <3>1. seen \in Object
      BY <1>2, <1>4, <2>2, ObjectTypes
    <3>2. /\ seen.exists = mem.exists /\ seen.fin = mem.fin /\ seen.del = mem.del
          /\ seen.create = mem.create /\ seen.spec = p
          /\ seen.name = mem.name /\ seen.status = i
      BY <1>2, <3>1 DEF Objects
    <3> HIDE DEF seen
    <3>3. mem' = SetSecretsHashAnnotation(seen)
      BY <2>2 DEF seen
    <3>4. QED  BY <1>2, <1>4, <2>2, <3>1, <3>2, <3>3, DigestTypes
  <2>3. QED  BY <1>3, <2>1, <2>2
<1>7. HandlerStep(held, held)
  BY <1>1, <1>2, <1>3, <1>6 DEF HandlerStep, Creating
<1>8. Resolved' /\ Numbered' /\ DigestOfSent'
  BY <1>1 DEF Resolved, Numbered, DigestOfSent
<1>9. QED
  BY <1>1, <1>3, <1>5, <1>6, <1>7, <1>8, HandlerKeeps

(***************************************************************************)
(* The Secret is rotated, and administrators add foreign groups and rename *)
(* or take those there are.                                                *)
(***************************************************************************)
LEMMA AroundKeeps ==
  ASSUME IInv, UNCHANGED <<api, cache, mem, fresh, pc, faults, payload, moved>>, edits' \in Nat,
         secret' \in Values \cup {None},
         \/ groups' = groups
         \/ \E q \in Group : q.owner = "others" /\ groups' = Append(groups, q)
         \/ \E i \in Numbers, q \in Group :
              /\ q.owner = groups[i].owner /\ q.heard = groups[i].heard
              /\ q.value = groups[i].value /\ q.project = groups[i].project
              /\ q.there => groups[i].there
              /\ groups' = [groups EXCEPT ![i] = q]
  PROVE  IInv' /\ [Lifecycle!LifecycleNext]_(Lifecycle!lifecycleVars)
<1> PICK held, after : held = Held /\ after = Held'
  OBVIOUS
<1>1. /\ TypeOK /\ Attached(held) /\ groups \in Seq(Group)
      /\ \A i \in Numbers : groups[i] \in Group
      /\ held \subseteq Numbers
  BY GroupTypes DEF IInv, TypeOK, Held
<1> DEFINE Little ==
      /\ groups' \in Seq(Group) /\ after \subseteq held /\ OwnNumbers \subseteq OwnNumbers'
      /\ Numbers \subseteq Numbers'
      /\ \A i \in Numbers : /\ groups'[i].value = groups[i].value
                            /\ groups'[i].project = groups[i].project
                            /\ groups'[i].there => groups[i].there
<1>2. Little
  <2>1. CASE groups' = groups
    BY <1>1, <2>1, SameGroups
  <2>2. ASSUME NEW q \in Group, q.owner = "others", groups' = Append(groups, q)
        PROVE  Little
    BY <1>1, <2>2, AddGroup
  <2>3. ASSUME NEW i \in Numbers, NEW q \in Group,
               q.owner = groups[i].owner, q.heard = groups[i].heard,
               q.value = groups[i].value, q.project = groups[i].project,
               q.there => groups[i].there, groups' = [groups EXCEPT ![i] = q]
        PROVE  Little
    BY <1>1, <2>3, ReplaceGroup
  <2>4. QED  BY <2>1, <2>2, <2>3
<1>3. Attached(after)' /\ HoldsStep(held, after)
  BY <1>1, <1>2, LossAttaches
<1>4. TypeOK'
  BY <1>2 DEF IInv, TypeOK, RuntimeTypeOK
<1>5. NamesOwn' /\ Resolved' /\ Numbered'
  BY <1>2 DEF IInv, NamesOwn, Resolved, Numbered
<1>6. DigestOfSent'
  <2>1. pc = "created" => mem.name \in Numbers
    BY DEF IInv, Numbered
  <2>2. QED  BY <1>2, <2>1 DEF IInv, DigestOfSent
<1>7. InPlace'
  BY <1>1, <1>2 DEF IInv, InPlace
<1>8. QED
  BY <1>3, <1>4, <1>5, <1>6, <1>7, AttachedSubst, StepsOfLifecycle DEF IInv

\* The Secret's owner and the administrators do no more than that.
LEMMA PeopleKeep ==
  ASSUME IInv, RotateSecret \/ AdminStep
  PROVE  IInv' /\ [Lifecycle!LifecycleNext]_(Lifecycle!lifecycleVars)
<1>1. /\ groups \in Seq(Group) /\ \A i \in Numbers : groups[i] \in Group
      /\ secret \in Values \cup {None} /\ edits \in Nat
  BY GroupTypes DEF IInv, TypeOK, RuntimeTypeOK
<1>2. /\ UNCHANGED <<api, cache, mem, fresh, pc, faults, payload, moved>> /\ edits' \in Nat
      /\ secret' \in Values \cup {None}
  BY <1>1 DEF RotateSecret, AdminStep
<1>3. CASE groups' = groups
  BY <1>2, <1>3, AroundKeeps
<1>4. ASSUME NEW project \in Projects, NEW name \in GroupNames,
             groups' = Append(groups, ForeignGroup(project, name, "others"))
      PROVE  IInv' /\ [Lifecycle!LifecycleNext]_(Lifecycle!lifecycleVars)
  <2>1. /\ ForeignGroup(project, name, "others") \in Group
        /\ ForeignGroup(project, name, "others").owner = "others"
    BY NewGroupTypes DEF ForeignGroup, NewGroup
  <2>2. QED  BY <1>2, <1>4, <2>1, AroundKeeps
<1>5. ASSUME NEW i \in Numbers, NEW q \in Group, groups' = [groups EXCEPT ![i] = q],
             \/ q = [groups[i] EXCEPT !.there = FALSE]
             \/ \E name \in GroupNames : q = [groups[i] EXCEPT !.name = name]
      PROVE  IInv' /\ [Lifecycle!LifecycleNext]_(Lifecycle!lifecycleVars)
  <2>1. /\ q.owner = groups[i].owner /\ q.heard = groups[i].heard
        /\ q.value = groups[i].value /\ q.project = groups[i].project
        /\ q.there => groups[i].there
    BY <1>1, <1>5 DEF Group
  <2>2. QED  BY <1>2, <1>5, <2>1, AroundKeeps
<1>6. ASSUME NEW i \in Numbers, AdminChanges(i)
      PROVE  IInv' /\ [Lifecycle!LifecycleNext]_(Lifecycle!lifecycleVars)
  <2>1. /\ [groups[i] EXCEPT !.there = FALSE] \in Group
        /\ \A name \in GroupNames : [groups[i] EXCEPT !.name = name] \in Group
    BY <1>1, GroupChanges
  <2>2. \/ groups' = [groups EXCEPT ![i] = [groups[i] EXCEPT !.there = FALSE]]
        \/ \E name \in GroupNames : groups' = [groups EXCEPT ![i] = [groups[i] EXCEPT !.name = name]]
    BY <1>6 DEF AdminChanges
  <2>3. QED  BY <1>5, <2>1, <2>2
<1>7. QED
  BY <1>3, <1>4, <1>6 DEF RotateSecret, AdminStep, AdminCreates

\* A CR that was just applied has at most a group its user named.
LEMMA InitKeeps ==
  ASSUME Init
  PROVE  IInv /\ Lifecycle!LifecycleInit
<1>1. PICK p \in VariableGroupParameters, n \in {None, 1} :
        /\ api = NewObject(p, n) /\ p.project = FirstProject
        /\ \/ groups = <<>> /\ n = None
           \/ \E name \in GroupNames : groups = <<ForeignGroup(p.project, name, "named")>> /\ n = 1
  BY DEF Init, RuntimeInit
<1>2. RuntimeInit({NewObject(p, n)})
  BY <1>1 DEF Init, RuntimeInit
<1>3. RuntimeTypeOK(Object, {"add", "update"}) /\ Attached({}) /\ Stage = "live"
  BY <1>2, RuntimeStarts, VariableGroupAssumption
<1>4. /\ api.name = n /\ api.status = None /\ api.spec = p /\ cache = api
      /\ mem.name = None /\ mem.status = None /\ mem.spec = None /\ pc = "idle"
  BY <1>1, <1>2 DEF RuntimeInit, NewObject, NoObject
<1> DEFINE Given ==
      /\ groups \in Seq(Group) /\ \A i \in Numbers : groups[i].owner = "named"
      /\ n \in Numbers \cup {None}
<1>5. Given
  <2>1. CASE groups = <<>> /\ n = None
    BY <2>1
  <2>2. ASSUME NEW name \in GroupNames, groups = <<ForeignGroup(p.project, name, "named")>>, n = 1
        PROVE  Given
    <3>1. /\ ForeignGroup(p.project, name, "named") \in Group
          /\ ForeignGroup(p.project, name, "named").owner = "named"
      BY NewGroupTypes DEF ForeignGroup, NewGroup, VariableGroupParameters
    <3>2. QED  BY <2>2, <3>1
  <2>3. QED  BY <1>1, <2>1, <2>2
<1>6. Held = {} /\ OwnNumbers = Numbers
  BY <1>5 DEF Held, Kept, OwnNumbers
<1>7. NamesOwn /\ Resolved /\ Numbered /\ DigestOfSent
  BY <1>4, <1>5, <1>6 DEF NamesOwn, Resolved, Numbered, DigestOfSent
<1>8. InPlace
  BY <1>1, <1>4, <1>6 DEF InPlace
<1>9. TypeOK
  BY <1>3, <1>5 DEF TypeOK, Init
<1>10. QED
  BY <1>3, <1>6, <1>7, <1>8, <1>9 DEF IInv, Lifecycle!LifecycleInit

(***************************************************************************)
(* The invariant is inductive, and every step of the system is one of the  *)
(* lifecycle.                                                              *)
(***************************************************************************)
LEMMA StepKeeps ==
  ASSUME IInv, [Next]_vars
  PROVE  IInv' /\ [Lifecycle!LifecycleNext]_(Lifecycle!lifecycleVars)
<1>1. CASE UNCHANGED vars
  <2>1. UNCHANGED <<Stage, api, cache, mem, fresh, pc, edits, faults, groups, secret, payload, moved>>
    BY <1>1 DEF vars, runtimeVars, serviceVars, Stage
  <2>2. UNCHANGED <<Held, OwnNumbers>>
    BY <2>1, SameGroups
  <2>3. IInv'
    BY <2>1, <2>2 DEF IInv, TypeOK, RuntimeTypeOK, Attached, FreshCopy, HeldWhileCreating,
       DeletionSeen, Specified, Findable, AtMostOne, NothingToFind, NamesOwn, Resolved,
       Numbered, InPlace, DigestOfSent
  <2>4. QED  BY <2>1, <2>2, <2>3 DEF Lifecycle!lifecycleVars
<1>2. CASE ControllerStep
  <2>1. CASE Create
    BY <2>1, BuildKeeps, AddKeeps DEF Create
  <2>2. CASE Update
    BY <2>2, BuildKeeps, UpdateKeeps DEF Update, MayUpdate
  <2>3. QED
    BY <1>2, <2>1, <2>2, RuntimeKeeps, ObserveKeeps, DeleteKeeps DEF ControllerStep
<1>3. CASE Next
  BY <1>2, <1>3, RuntimeKeeps, PeopleKeep DEF Next
<1>4. QED  BY <1>1, <1>3

(***************************************************************************)
(* The invariant holds in every reachable state.                           *)
(***************************************************************************)
THEOREM Inductive == Spec => []IInv
<1>1. QED  BY InitKeeps, StepKeeps, PTL DEF Spec

(***************************************************************************)
(* Every reachable state is well typed.                                    *)
(***************************************************************************)
THEOREM TypeCorrect == Spec => []TypeOK
<1>1. IInv => TypeOK  BY DEF IInv
<1>2. QED  BY <1>1, Inductive, PTL

(***************************************************************************)
(* The controller implements the lifecycle: whatever fails, crashes or is  *)
(* rotated, it makes one group at a time and leaves none behind of a CR    *)
(* that stayed in its project.                                             *)
(***************************************************************************)
THEOREM Implements == Spec => KeepsLifecycle
<1>1. QED
  BY InitKeeps, StepKeeps, Inductive, PTL DEF Spec, KeepsLifecycle, Lifecycle!LifecycleSpec

(***************************************************************************)
(* No number the CR carries is that of a foreign group.                    *)
(***************************************************************************)
THEOREM NeverForeign == Spec => []OwnGroup
<1>1. IInv => OwnGroup
  <2> SUFFICES ASSUME IInv, NEW i \in Numbers, i \in {api.name, api.status}
               PROVE  i \in OwnNumbers
    BY DEF OwnGroup, OwnNumbers
  <2>1. i # None
    BY GroupTypes DEF IInv, TypeOK
  <2>2. QED  BY <2>1 DEF IInv, NamesOwn
<1>2. QED  BY <1>1, Inductive, PTL

(***************************************************************************)
(* The digest recorded with a creation is of the value that was sent.      *)
(***************************************************************************)
THEOREM DigestIsOfSent == Spec => []DigestOfSent
<1>1. IInv => DigestOfSent  BY DEF IInv
<1>2. QED  BY <1>1, Inductive, PTL

(***************************************************************************)
(* A CR that is gone has left no variable group behind that its controller *)
(* knew to have created, whatever crashed and however old its copies were  *)
(* -- unless the CR was moved.                                             *)
(***************************************************************************)
THEOREM LeakFree == Spec => [](~api.exists => Held = {})
<1>1. IInv => (~api.exists => Held = {})  BY NothingLeftBehind DEF IInv
<1>2. QED  BY <1>1, Inductive, PTL

(***************************************************************************)
(* One CR never holds two: not even when a Secret was missing or a digest  *)
(* failed and the CR was reconciled again -- unless the CR was moved.      *)
(***************************************************************************)
THEOREM NoDouble == Spec => []AtMostOne(Held)
<1>1. IInv => AtMostOne(Held)  BY DEF IInv, Attached
<1>2. QED  BY <1>1, Inductive, PTL
=============================================================================

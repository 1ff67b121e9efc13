------------------- MODULE ProjectResourceControllers_proofs -------------------
(***************************************************************************)
(* Proofs about ProjectResourceControllers, for each of the six kinds, any *)
(* sets of projects, names, values and origins, any number of edits and    *)
(* faults and any number of resources.  The lemmas about the shape the six *)
(* share come first; of each kind there is left where it looks for its     *)
(* resource, and what it then notes.                                       *)
(***************************************************************************)
EXTENDS ProjectResourceControllers, ManagedReconciler_proofs

USE DEF Fault, Edit, Finish, Observed, Ids

Settable == Values \cup {None}

(***************************************************************************)
(* The resources: one changes at a time, or one more is added.             *)
(***************************************************************************)

\* Resources are of their type, and what is held is among the controller's own.
LEMMA ItemTypes ==
  ASSUME items \in Seq(Item)
  PROVE  /\ \A i \in Ids : items[i] \in Item /\ items[i].project \in Projects
         /\ Ids \subseteq Nat \ {0}
         /\ Held \subseteq OwnIds /\ OwnIds \subseteq Ids /\ None \notin Ids /\ None \notin Held
<1>1. Held \subseteq OwnIds /\ OwnIds \subseteq Ids
  BY DEF Held, OwnIds, Kept
<1>2. None \notin Nat
  BY ProjectResourceAssumption
<1>3. (\A i \in Ids : items[i] \in Item) /\ Ids \subseteq Nat \ {0}
  BY Elements
<1>4. QED  BY <1>1, <1>2, <1>3 DEF Item

\* A resource that changes without changing hands or projects is held as before,
\* unless it goes.
LEMMA OneChanges ==
  ASSUME items \in Seq(Item), NEW i \in Ids, NEW q \in Item,
         items' = [items EXCEPT ![i] = q], UNCHANGED <<kind, moved>>,
         q.owner = items[i].owner, q.heard = items[i].heard, q.project = items[i].project,
         q.there => items[i].there
  PROVE  /\ items' \in Seq(Item) /\ Ids' = Ids /\ OwnIds' = OwnIds
         /\ Held' \subseteq Held
         /\ q.there = items[i].there => Held' = Held
         /\ \A j \in Ids : /\ items'[j].project = items[j].project
                           /\ items'[j].owner = items[j].owner
                           /\ items'[j].there => items[j].there
<1>1. /\ items' \in Seq(Item) /\ Ids' = Ids /\ items'[i] = q
      /\ \A j \in Ids \ {i} : items'[j] = items[j]
  BY Replaced
<1>2. \A j \in Ids : /\ items'[j].project = items[j].project
                     /\ items'[j].owner = items[j].owner
                     /\ items'[j].heard = items[j].heard
                     /\ items'[j].there => items[j].there
                     /\ q.there = items[i].there => items'[j].there = items[j].there
  BY <1>1
<1>3. OwnIds' = OwnIds
  BY <1>1, <1>2 DEF OwnIds
<1>4. Held' \subseteq Held /\ (q.there = items[i].there => Held' = Held)
  BY <1>1, <1>2 DEF Held, Kept, Abandons
<1>5. QED  BY <1>1, <1>2, <1>3, <1>4

\* A resource that is added is held if the controller made it, heard of it and
\* does not look elsewhere.
LEMMA OneMore ==
  ASSUME items \in Seq(Item), NEW q \in Item, items' = Append(items, q),
         UNCHANGED <<kind, moved>>, q.there, NEW n, n = Len(items) + 1
  PROVE  /\ items' \in Seq(Item) /\ n \in Nat \ Ids /\ n # 0 /\ Ids' = Ids \cup {n}
         /\ items'[n] = q /\ \A j \in Ids : items'[j] = items[j]
         /\ OwnIds' = IF q.owner = "others" THEN OwnIds ELSE OwnIds \cup {n}
         /\ ~(q.owner = "us" /\ q.heard) => Held' = Held
         /\ q.owner = "us" /\ q.heard => Held' = Held \cup IF Abandons THEN {} ELSE {n}
<1>1. /\ items' \in Seq(Item) /\ n \in Nat \ Ids /\ Ids' = Ids \cup {n}
      /\ items'[n] = q /\ \A j \in Ids : items'[j] = items[j]
  BY Appended
<1>2. n # 0
  BY DEF Ids
<1>3. OwnIds' = IF q.owner = "others" THEN OwnIds ELSE OwnIds \cup {n}
  <2>1. CASE q.owner = "others"
    BY <1>1, <2>1 DEF OwnIds
  <2>2. CASE q.owner # "others"
    BY <1>1, <2>2 DEF OwnIds
  <2>3. QED  BY <2>1, <2>2
<1>4. /\ \A j \in Ids : Kept(j)' <=> Kept(j)
      /\ Kept(n)' <=> q.owner = "us" /\ q.heard
      /\ Abandons' = Abandons
  BY <1>1 DEF Kept, Abandons
<1>5. ~(q.owner = "us" /\ q.heard) => Held' = Held
  BY <1>1, <1>4 DEF Held
<1>6. q.owner = "us" /\ q.heard => Held' = Held \cup IF Abandons THEN {} ELSE {n}
  <2>1. CASE Abandons
    BY <1>1, <1>4, <2>1 DEF Held
  <2>2. CASE ~Abandons
    BY <1>1, <1>4, <2>2 DEF Held
  <2>3. QED  BY <2>1, <2>2
<1>7. QED  BY <1>1, <1>2, <1>3, <1>5, <1>6

\* Without a change of the resources or of the CR's project, all is as it was.
LEMMA SameItems ==
  ASSUME UNCHANGED <<kind, items, moved>>
  PROVE  Held' = Held /\ OwnIds' = OwnIds /\ Abandons' = Abandons
  BY DEF Held, Kept, OwnIds, Abandons

\* A resource as the service makes it.
LEMMA NewItemTypes ==
  \A p \in ResourceParameters, s \in Settable :
    /\ NewItem(p, s) \in Item
    /\ [NewItem(p, s) EXCEPT !.heard = TRUE] \in Item
    /\ ForeignItem(p, "named") \in Item /\ ForeignItem(p, "others") \in Item
  BY DEF NewItem, ForeignItem, Item, ResourceParameters, Settable

\* A resource some of whose fields are changed is still a resource.
LEMMA ItemChanges ==
  ASSUME NEW q \in Item
  PROVE  /\ [q EXCEPT !.there = FALSE] \in Item
         /\ \A name \in Names : [q EXCEPT !.name = name] \in Item
         /\ \A s \in Settable \cup {Unsupported} : [q EXCEPT !.setting = s] \in Item
         /\ \A name \in Names, s \in Settable \cup {Unsupported} :
              [q EXCEPT !.name = name, !.setting = s] \in Item
  BY DEF Item, Settable

\* To replace two fields of a resource is to replace the resource.
LEMMA Rewritten ==
  ASSUME NEW t \in Seq(Item), NEW i \in DOMAIN t, NEW a, NEW settled, NEW b
  PROVE  [t EXCEPT ![i].name = a, ![i].setting = IF settled THEN @ ELSE b]
         = [t EXCEPT ![i] = [t[i] EXCEPT !.name = a,
                                         !.setting = IF settled THEN t[i].setting ELSE b]]
  OBVIOUS

\* To hear of a resource that was just added is to add one that is heard of.
LEMMA HeardOf ==
  ASSUME NEW t \in Seq(Item), NEW q \in Item
  PROVE  [Append(t, q) EXCEPT ![Len(t) + 1].heard = TRUE] = Append(t, [q EXCEPT !.heard = TRUE])
<1> PICK n, r, u : /\ n = Len(t) + 1 /\ r = [q EXCEPT !.heard = TRUE]
                   /\ u = Append(t, q)
  OBVIOUS
<1>1. r \in Item
  BY DEF Item
<1>2. n \in DOMAIN u /\ u[n] = q /\ [u EXCEPT ![n] = r] = Append(t, r)
  BY <1>1, AppendedReplaced
<1>3. [u EXCEPT ![n].heard = TRUE] = [u EXCEPT ![n] = r]
  BY <1>2
<1>4. QED  BY <1>2, <1>3

(***************************************************************************)
(* What steps of the lifecycle look like to the controllers.               *)
(***************************************************************************)

\* A step of the reconciler's shape is a step of the lifecycle.
LEMMA StepsOfLifecycle ==
  ASSUME NEW before, NEW after, Held = before, Held' = after, HoldsStep(before, after)
  PROVE  [Lifecycle!LifecycleNext]_(Lifecycle!lifecycleVars)
<1> USE DEF HoldsStep, Lifecycle!LifecycleNext
<1>1. CASE after = before /\ Stage' = Stage
  BY <1>1 DEF Lifecycle!lifecycleVars
<1>2. CASE after = before /\ Stage = "live" /\ Stage' = "deleting"
  BY <1>2 DEF Lifecycle!RequestDeletion
<1>3. CASE after = before /\ Stage \in {"live", "deleting"} /\ Stage' = "gone" /\ before = {}
  BY <1>3 DEF Lifecycle!RequestDeletion, Lifecycle!Release
<1>4. CASE Stage' = Stage /\ before # {} /\ after = {}
  BY <1>4 DEF Lifecycle!ResourceVanishes
<1>5. CASE Stage' = Stage /\ Stage # "gone" /\ before = {} /\ \E id : after = {id}
  BY <1>5 DEF Lifecycle!CreateResource, Stage
<1>6. QED  BY <1>1, <1>2, <1>3, <1>4, <1>5

\* The set of held resources may be given by its value.
LEMMA AttachedSubst ==
  ASSUME NEW after, Held' = after, Attached(after)'
  PROVE  Attached(Held)'
  BY DEF Attached, Findable, AtMostOne, NothingToFind

\* What a step may not do to the id of a resource that lives.
ResourceKept ==
  api.name \in Ids /\ items[api.name].there /\ api'.exists =>
    Abandons \/ Misled(api.name, api.ann) \/ api'.name = api.name

\* What is shown of every step.
GoodStep ==
  /\ IInv'
  /\ [Lifecycle!LifecycleNext]_(Lifecycle!lifecycleVars)
  /\ ResourceKept

(***************************************************************************)
(* The reconciler, the informer, the user and a crash.                     *)
(***************************************************************************)
USE DEF Object

FirstParameters == {p \in ResourceParameters : p.project = FirstProject}

\* A CR whose name is one of a set has a smaller type.
LEMMA OwnTypes ==
  ASSUME NEW own, TypeOK, \A object \in {api, cache, mem} : object.name \in own \cup {None}
  PROVE  RuntimeTypeOK(Objects(own, Projects, Nat, ResourceParameters), {"amend", "patch"})
  BY DEF TypeOK, RuntimeTypeOK, Objects

\* So has one that was not moved.
LEMMA FirstTypes ==
  ASSUME NEW o \in Object
  PROVE  (o.spec # None => o.spec.project = FirstProject)
         <=> o \in Objects(Nat \cup {MetaName}, Projects, Nat, FirstParameters)
<1>1. None \notin ResourceParameters
  BY ProjectResourceAssumption
<1>2. QED  BY <1>1 DEF Objects, FirstParameters

\* What holds of the external-name and the annotation together.
Notes ==
  {w \in (Nat \cup {MetaName, None}) \X (Projects \cup {None}) :
     Noted(w[1], w[2])}

\* It is what Remembered says.
LEMMA NotesTypes ==
  ASSUME NEW o \in Object
  PROVE  <<o.name, o.ann>> \in Notes
         <=> Noted(o.name, o.ann)
<1> PICK w : w = <<o.name, o.ann>>
  OBVIOUS
<1>1. o.name \in Nat \cup {MetaName, None} /\ o.ann \in Projects \cup {None}
  BY FieldTypes
<1>2. w[1] = o.name /\ w[2] = o.ann /\ w \in (Nat \cup {MetaName, None}) \X (Projects \cup {None})
  BY <1>1
<1>3. QED  BY <1>2 DEF Notes

\* Steps that change nothing of the resources or of which project the CR is in.
LEMMA CalmKeeps ==
  ASSUME IInv, UNCHANGED <<kind, items, moved>>,
         \/ (ReconcilerStep(TRUE) \/ CacheSync \/ RequestDelete) /\ UNCHANGED read
         \/ Abort /\ read' = None
         \/ \E p \in ResourceParameters :
              EditSpec(p) /\ (~moved => p.project = FirstProject) /\ UNCHANGED read
  PROVE  GoodStep
<1> PICK held, own, notes :
      held = Held /\ own = OwnIds \cup {0, MetaName} /\ notes = Notes
  OBVIOUS
<1> DEFINE First == Objects(Nat \cup {MetaName}, Projects, Nat, FirstParameters)
           Own == Objects(own, Projects, Nat, ResourceParameters)
           Steps == {"amend", "patch"}
<1>1. /\ TypeOK /\ Attached(held) /\ None \notin held
      /\ None \notin ResourceParameters /\ None \notin FirstParameters
      /\ items \in Seq(Item) /\ RuntimeTypeOK(Object, Steps)
      /\ MetaName \in own
  BY ItemTypes, ProjectResourceAssumption DEF IInv, TypeOK, FirstParameters
<1>2. Held' = held /\ OwnIds' \cup {0, MetaName} = own /\ Abandons' = Abandons /\ Notes' = notes
      /\ \A id, ann : Noted(id, ann)' <=> Noted(id, ann)
  BY SameItems DEF Notes, Noted
<1>3. RuntimeTypeOK(Own, Steps)
  BY <1>1, OwnTypes DEF IInv, NamesOwn
<1>4. ~moved => RuntimeTypeOK(First, Steps)
  BY <1>1, FirstTypes DEF IInv, InPlace, RuntimeTypeOK
<1>5. /\ RuntimeTypeOK(Object, Steps)' /\ RuntimeTypeOK(Own, Steps)'
      /\ ~moved => RuntimeTypeOK(First, Steps)'
      /\ Attached(held)' /\ HoldsStep(held, held)
  <2>1. CASE ReconcilerStep(TRUE) \/ CacheSync
    <3>1. /\ RuntimeTypeOK(Object, Steps)' /\ RuntimeTypeOK(Own, Steps)'
          /\ ~moved => RuntimeTypeOK(First, Steps)'
      BY <1>1, <1>3, <1>4, <2>1, RuntimeTypes
    <3>2. Attached(held)' /\ HoldsStep(held, held)
      BY <1>1, <2>1, RuntimeAttaches
    <3>3. QED  BY <3>1, <3>2
  <2>2. CASE RequestDelete \/ Abort
    BY <1>1, <1>3, <1>4, <2>2, OutsideTypes, OutsideAttaches
  <2>3. ASSUME NEW p \in ResourceParameters, EditSpec(p), ~moved => p.project = FirstProject
        PROVE  /\ RuntimeTypeOK(Object, Steps)' /\ RuntimeTypeOK(Own, Steps)'
               /\ ~moved => RuntimeTypeOK(First, Steps)'
               /\ Attached(held)' /\ HoldsStep(held, held)
    <3>1. ~moved => p \in FirstParameters
      BY <2>3 DEF FirstParameters
    <3>2. QED  BY <1>1, <1>3, <1>4, <2>3, <3>1, OutsideTypes, OutsideAttaches
  <2>4. QED  BY <2>1, <2>2, <2>3
<1>6. NamesOwn'
  BY <1>2, <1>5 DEF NamesOwn, RuntimeTypeOK, Objects
<1>7. InPlace'
  <2>1. ~moved => \A object \in {api, cache, mem}' : object.spec # None => object.spec.project = FirstProject
    BY <1>5, FirstTypes DEF RuntimeTypeOK
  <2>2. ~moved => \A i \in OwnIds' : items'[i].project = FirstProject
    BY SameItems DEF IInv, InPlace
  <2>3. QED  BY <2>1, <2>2 DEF InPlace
<1>8. Remembered'
  <2>1. CASE kind \notin Pinning
    BY <2>1 DEF Remembered
  <2>2. CASE kind \in Pinning
    <3>1. /\ \A o \in {api, cache, mem} : o \in Object
          /\ \A o \in {api, cache, mem}' : o \in Object
      BY <1>1, <1>5 DEF RuntimeTypeOK
    <3>2. \A o \in {api, cache, mem} : <<o.name, o.ann>> \in notes
      BY <2>2, <3>1, NotesTypes DEF IInv, Remembered
    <3>3. <<None, None>> \in notes /\ \A a \in Projects \cup {None} : <<MetaName, a>> \in notes
      <4>1. None \notin Ids /\ MetaName \notin Ids
        BY <1>1, ItemTypes, ProjectResourceAssumption
      <4>2. QED  BY <4>1 DEF Notes, Noted
    <3>4. \A o \in {api, cache, mem}' : <<o.name, o.ann>> \in notes
      BY <1>1, <3>2, <3>3, NotesStay
    <3>5. \A o \in Object : <<o.name, o.ann>> \in notes => Noted(o.name, o.ann)
      BY NotesTypes
    <3>6. \A o \in {api, cache, mem}' : Noted(o.name, o.ann)
      BY <3>1, <3>4, <3>5
    <3>7. QED  BY <1>2, <3>6 DEF Remembered
  <2>3. QED  BY <2>1, <2>2
<1>9. read' \in IF pc' \in {"patch", "amend"} THEN Item ELSE {None}
  <2>1. read \in IF pc \in {"patch", "amend"} THEN Item ELSE {None}
    BY <1>1 DEF TypeOK
  <2>2. CASE ReconcilerStep(TRUE)
    <3>1. pc \notin {"patch", "amend"} /\ pc' \notin {"patch", "amend"}
      BY <2>2, RuntimeSteps
    <3>2. read' \in {read, None}
      OBVIOUS
    <3>3. QED  BY <2>1, <3>1, <3>2
  <2>3. CASE Abort /\ read' = None
    BY <2>3 DEF Abort
  <2>4. CASE UNCHANGED <<pc, read>>
    BY <2>1, <2>4
  <2>5. QED  BY <2>2, <2>3, <2>4 DEF CacheSync, RequestDelete, EditSpec
<1>10. TypeOK'
  BY <1>1, <1>5, <1>9 DEF TypeOK
<1>11. Missed' /\ Amending' /\ ResourceKept
  <2>1. \A id, ann : Lost(id, ann) => Lost(id, ann)'
    BY <1>2 DEF Lost, Misled
  <2>2. CASE ReconcilerStep(TRUE)
    <3>1. /\ pc' = "missing" => pc = "missing" /\ mem'.name = mem.name /\ mem'.ann = mem.ann
          /\ pc' \in Creating => pc = "missing" /\ api'.name = mem.name /\ api'.ann = mem.ann
          /\ api'.name = api.name \/ ~api'.exists \/ api.name = None \/ pc \in Creating
          /\ pc' # "amend"
      BY <1>1, <2>2, NameStays, RuntimeSteps
    <3>2. /\ pc = "missing" => Lost(mem.name, mem.ann)
          /\ pc \in Creating => Lost(api.name, api.ann)
      BY DEF IInv, Missed
    <3>3. Missed' /\ Amending'
      BY <2>1, <3>1, <3>2 DEF Missed, Amending, Lost, Misled
    <3>4. ResourceKept
      BY <1>1, <3>1, <3>2, ItemTypes DEF ResourceKept, Lost
    <3>5. QED  BY <3>3, <3>4
  <2>3. CASE Abort
    BY <2>3 DEF Abort, Missed, Amending, ResourceKept, Creating
  <2>4. CASE CacheSync \/ RequestDelete \/ \E p \in ResourceParameters : EditSpec(p)
    <3>1. /\ UNCHANGED <<mem, pc>>
          /\ (api'.name = api.name /\ api'.ann = api.ann) \/ (~api.fin /\ ~api'.exists)
      <4>1. api \in Object
        BY <1>1 DEF RuntimeTypeOK
      <4>2. QED  BY <2>4, <4>1 DEF CacheSync, RequestDelete, EditSpec, Objects, NoObject
    <3>2. pc \in Creating => api.fin
      BY <1>1 DEF Attached, HeldWhileCreating
    <3>3. QED  BY <2>1, <3>1, <3>2 DEF IInv, Missed, Amending, ResourceKept, Lost, Misled
  <2>5. QED  BY <2>2, <2>3, <2>4
<1>12. Attached(Held)' /\ [Lifecycle!LifecycleNext]_(Lifecycle!lifecycleVars)
  BY <1>2, <1>5, AttachedSubst, StepsOfLifecycle
<1>13. QED  BY <1>6, <1>7, <1>8, <1>10, <1>11, <1>12 DEF IInv, GoodStep

\* A kind that does not remember the project lets go of its resource when the CR
\* is moved.
LEMMA MoveKeeps ==
  ASSUME IInv, NEW p \in ResourceParameters, EditSpec(p), moved' = TRUE,
         UNCHANGED <<kind, items, read>>
  PROVE  GoodStep
<1> PICK held, after : held = Held /\ after = Held'
  OBVIOUS
<1>1. /\ TypeOK /\ Attached(held) /\ None \notin ResourceParameters
      /\ items \in Seq(Item) /\ RuntimeTypeOK(Object, {"amend", "patch"})
  BY ProjectResourceAssumption DEF IInv, TypeOK
<1>2. /\ RuntimeTypeOK(Object, {"amend", "patch"})' /\ Attached(held)' /\ HoldsStep(held, held)
  BY <1>1, OutsideTypes, OutsideAttaches
<1>3. /\ UNCHANGED <<cache, mem, pc>> /\ api'.name = api.name /\ api'.ann = api.ann
      /\ api'.exists = api.exists /\ api'.del = api.del
  BY <1>1 DEF EditSpec, RuntimeTypeOK, Objects
<1>4. Abandons => Abandons'
  BY DEF Abandons
<1>5. OwnIds' = OwnIds /\ (after = held \/ after = {})
  BY <1>1 DEF OwnIds, Held, Kept, Abandons, TypeOK
<1>6. Attached(after)'
  BY <1>2, <1>5 DEF Attached, Findable, AtMostOne, NothingToFind
<1>7. HoldsStep(held, after)
  <2>1. Stage' = Stage
    BY <1>3 DEF Stage
  <2>2. CASE after = held
    BY <1>2, <2>2
  <2>3. CASE after = {} /\ after # held
    BY <2>1, <2>3 DEF HoldsStep
  <2>4. QED  BY <1>5, <2>2, <2>3
<1>8. TypeOK'
  BY <1>1, <1>2, <1>3 DEF TypeOK
<1>9. NamesOwn' /\ InPlace' /\ Remembered'
  BY <1>3, <1>5 DEF IInv, NamesOwn, InPlace, Remembered, Noted
<1>10. Missed' /\ Amending'
  BY <1>3, <1>4 DEF IInv, Missed, Amending, Lost, Misled
<1>11. ResourceKept
  BY <1>3 DEF ResourceKept
<1>12. Attached(Held)' /\ [Lifecycle!LifecycleNext]_(Lifecycle!lifecycleVars)
  BY <1>6, <1>7, AttachedSubst, StepsOfLifecycle
<1>13. QED  BY <1>8, <1>9, <1>10, <1>11, <1>12 DEF IInv, GoodStep

\* The reconciler, the informer, the user and a crash take one or the other.
LEMMA RuntimeKeeps ==
  ASSUME IInv,
         \/ ReconcilerStep(TRUE) /\ UNCHANGED serviceVars
         \/ CacheSync /\ UNCHANGED serviceVars
         \/ Crash \/ UserStep
  PROVE  GoodStep
<1>1. ASSUME NEW p \in Parameters, EditSpec(p), UNCHANGED <<kind, items, read>>,
             moved' = (moved \/ p.project # api.spec.project)
      PROVE  GoodStep
  <2>1. moved \in BOOLEAN /\ p \in ResourceParameters
    BY DEF IInv, TypeOK, Parameters
  <2>2. api.exists /\ (~moved => api.spec.project = FirstProject)
    BY <1>1 DEF EditSpec, IInv, InPlace, Attached, Specified
  <2>3. CASE moved' = TRUE
    BY <1>1, <2>1, <2>3, MoveKeeps
  <2>4. CASE moved' = moved /\ (~moved => p.project = FirstProject)
    BY <1>1, <2>1, <2>4, CalmKeeps
  <2>5. QED  BY <1>1, <2>1, <2>2, <2>3, <2>4
<1>2. CASE ReconcilerStep(TRUE) /\ UNCHANGED serviceVars
  BY <1>2, CalmKeeps DEF serviceVars
<1>3. CASE CacheSync /\ UNCHANGED serviceVars
  BY <1>3, CalmKeeps DEF serviceVars
<1>4. CASE RequestDelete /\ UNCHANGED serviceVars
  BY <1>4, CalmKeeps DEF serviceVars
<1>5. CASE Crash
  BY <1>5, CalmKeeps DEF Crash
<1>6. QED
  BY <1>1, <1>2, <1>3, <1>4, <1>5 DEF UserStep

(***************************************************************************)
(* The handlers.  What is to be shown of each: it treats what is held as   *)
(* HandlerStep says, and the rest of the invariant stands.                 *)
(***************************************************************************)

\* Resources are added and may go, but none comes back, moves or changes hands.
Grows ==
  /\ items' \in Seq(Item) /\ Ids \subseteq Ids' /\ OwnIds \subseteq OwnIds'
  /\ \A i \in Ids : /\ items'[i].project = items[i].project
                    /\ items'[i].owner = items[i].owner
                    /\ items'[i].there => items[i].there
  /\ ~moved => \A i \in OwnIds' \ OwnIds : items'[i].project = FirstProject

\* Then the ids that a copy of the CR may have mean what they meant.
LEMMA GrowsKeeps ==
  ASSUME IInv, Grows, UNCHANGED <<kind, moved>>,
         NEW id \in OwnIds \cup {0, MetaName, None}
  PROVE  /\ id \in OwnIds' \cup {0, MetaName, None}
         /\ \A ann : Lost(id, ann) => Lost(id, ann)'
         /\ \A ann : Noted(id, ann) => Noted(id, ann)'
<1>1. {0, MetaName, None} \cap Ids' = {}
  <2>1. Ids' \subseteq Nat \ {0}
    BY Elements DEF Grows
  <2>2. QED  BY <2>1, ProjectResourceAssumption
<1>2. OwnIds \subseteq Ids
  BY DEF OwnIds
<1>3. QED  BY <1>1, <1>2 DEF Grows, Lost, Misled, Noted, Abandons

\* What a handler has to do to keep the rest of the invariant.
LEMMA HandlerKeeps ==
  ASSUME IInv, NEW held, NEW after, held = Held, after = Held', HandlerStep(held, after),
         mem' \in Object, UNCHANGED <<edits, kind, moved>>,
         faults' \in Nat, read' \in IF pc' \in {"patch", "amend"} THEN Item ELSE {None},
         pc' \in Observed \cup {"create", "amend", "patch", "created", "createFailed", "status"},
         Grows, mem'.name \in OwnIds' \cup {0, MetaName, None},
         kind \in Pinning => Noted(mem.name, mem.ann)',
         pc' = "missing" => mem'.ann = mem.ann /\ Lost(mem.name, mem.ann),
         pc' = "amend" => kind = "gitrepository"
  PROVE  GoodStep
<1>1. UNCHANGED <<api, cache, fresh>> /\ mem'.exists = mem.exists /\ mem'.spec = mem.spec
  BY DEF HandlerStep
<1>2. TypeOK'
  BY <1>1 DEF IInv, TypeOK, RuntimeTypeOK, Grows
<1>3. NamesOwn'
  BY <1>1, GrowsKeeps DEF IInv, NamesOwn
<1>4. InPlace'
  <2>1. ~moved => \A object \in {api, cache, mem}' :
                    object.spec # None => object.spec.project = FirstProject
    BY <1>1 DEF IInv, InPlace
  <2>2. ~moved => \A i \in OwnIds' : items'[i].project = FirstProject
    BY DEF IInv, InPlace, Grows, OwnIds
  <2>3. QED  BY <2>1, <2>2 DEF InPlace
<1>5. Remembered'
  <2>1. kind \in Pinning => Noted(api.name, api.ann)' /\ Noted(cache.name, cache.ann)'
    <3> PICK a, c : a = api /\ c = cache
      OBVIOUS
    <3>1. {a.name, c.name} \subseteq OwnIds \cup {0, MetaName, None}
      BY DEF IInv, NamesOwn
    <3>2. kind \in Pinning => Noted(a.name, a.ann) /\ Noted(c.name, c.ann)
      BY DEF IInv, Remembered
    <3>3. kind \in Pinning => Noted(a.name, a.ann)' /\ Noted(c.name, c.ann)'
      BY <3>1, <3>2, GrowsKeeps
    <3>4. QED  BY <1>1, <3>3 DEF Noted
  <2>2. QED  BY <1>1, <2>1 DEF Remembered
<1>6. Missed'
  <2> PICK m, a : m = mem /\ a = api
    OBVIOUS
  <2>1. pc' = "missing" => mem'.name = m.name /\ mem'.ann = m.ann /\ Lost(m.name, m.ann)
    BY DEF HandlerStep, Creating
  <2>2. pc' \in Creating => Lost(a.name, a.ann)
    BY DEF HandlerStep, IInv, Missed
  <2>3. {m.name, a.name} \subseteq OwnIds \cup {0, MetaName, None}
    BY DEF IInv, NamesOwn
  <2>4. /\ Lost(m.name, m.ann) => Lost(m.name, m.ann)'
        /\ Lost(a.name, a.ann) => Lost(a.name, a.ann)'
    BY <2>3, GrowsKeeps
  <2>5. QED  BY <1>1, <2>1, <2>2, <2>4 DEF Missed, Lost, Misled
<1>7. Attached(after)' /\ HoldsStep(held, after)
  BY HandlerAttaches DEF IInv
<1>8. Amending' /\ ResourceKept
  BY <1>1 DEF Amending, ResourceKept
<1>9. QED
  BY <1>2, <1>3, <1>4, <1>5, <1>6, <1>7, <1>8, AttachedSubst, StepsOfLifecycle DEF IInv, GoodStep

\* What the handlers find.
LEMMA HandlerTypes ==
  ASSUME IInv, pc # "idle"
  PROVE  /\ TypeOK /\ Attached(Held) /\ mem \in Object /\ items \in Seq(Item)
         /\ mem.name \in OwnIds \cup {0, MetaName, None}
         /\ mem.spec \in ResourceParameters /\ mem.spec.project \in Projects
         /\ mem.spec.name \in Names /\ mem.spec.setting \in Settable
         /\ mem.ann \in Projects \cup {None} /\ mem.status \in Nat \cup {None}
         /\ faults \in Nat /\ kind \in Kinds
         /\ ~moved => mem.spec.project = FirstProject
         /\ kind \in Pinning => Noted(mem.name, mem.ann)
         /\ pc \notin {"patch", "amend"} => read = None
         /\ pc \in {"patch", "amend"} => read \in Item
         /\ None \notin Projects
<1>1. mem \in Object /\ mem.exists /\ mem.spec # None
  BY DEF IInv, TypeOK, RuntimeTypeOK, Attached, HeldWhileCreating, Specified
<1>2. mem.spec \in ResourceParameters
  BY <1>1 DEF Objects
<1>3. /\ mem.spec.project \in Projects
      /\ mem.spec.name \in Names /\ mem.spec.setting \in Settable
  BY <1>2 DEF ResourceParameters, Settable
<1>4. mem.ann \in Projects \cup {None} /\ mem.status \in Nat \cup {None}
  BY <1>1, FieldTypes
<1>5. QED
  BY <1>1, <1>2, <1>3, <1>4, ProjectResourceAssumption
     DEF IInv, TypeOK, RuntimeTypeOK, NamesOwn, InPlace, Remembered

\* A handler that changes neither resources nor its copy of the CR.
LEMMA QuietKeeps ==
  ASSUME IInv, UNCHANGED <<api, cache, mem, fresh, edits, kind, items, moved>>,
         faults' \in Nat, read' \in IF pc' \in {"patch", "amend"} THEN Item ELSE {None},
         \/ pc \in {"stale", "patch"} /\ pc' \in {"status", "patch"}
         \/ pc \in {"create", "amend"} /\ pc' \in {"created", "createFailed"}
  PROVE  GoodStep
<1> PICK held : held = Held
  OBVIOUS
<1>1. Attached(held) /\ mem \in Object /\ items \in Seq(Item)
  BY HandlerTypes
<1>2. Held' = held /\ OwnIds' = OwnIds
  BY SameItems
<1>3. HandlerStep(held, held)
  BY <1>1 DEF HandlerStep, Creating, Attached, NothingToFind
<1>4. Grows
  BY <1>1, <1>2 DEF Grows
<1>5. kind \in Pinning => Noted(mem.name, mem.ann)'
  BY HandlerTypes DEF Noted
<1>6. QED
  BY <1>1, <1>2, <1>3, <1>4, <1>5, HandlerTypes, HandlerKeeps

\* What is found is a resource of the project it is looked for in; a kind that
\* remembers the project finds only what it asks for by id.
LEMMA HereTypes ==
  ASSUME items \in Seq(Item), NEW project, ~Absent(project)
  PROVE  /\ Here(project) \in Ids /\ Here(project) \in Nat
         /\ items[Here(project)] \in Item /\ items[Here(project)].there
         /\ items[Here(project)].project = project
         /\ kind \in Pinning => Here(project) = mem.name
<1>1. Here(project) \in Found(mem.name, project)
  BY DEF Absent, Here
<1>2. QED  BY <1>1, ItemTypes DEF Found, Pinning

\* Observe changes no resource; what it reports missing is lost, and what it notes
\* of a project is where the resource is.
LEMMA ObserveKeeps ==
  ASSUME IInv, NEW project, NEW refused, NEW orphan, NEW same, NEW ann,
         ObserveItem(project, refused, orphan, same, ann),
         ~refused /\ Absent(project) /\ ~orphan => Lost(mem.name, mem.ann),
         ~refused /\ ~Absent(project) =>
           /\ ann \in Projects \cup {None}
           /\ kind \in Pinning => Noted(mem.name, ann)
  PROVE  GoodStep
<1> PICK held : held = Held
  OBVIOUS
<1> DEFINE seen == [mem EXCEPT !.status = Here(project), !.ann = ann]
<1>1. /\ UNCHANGED <<api, cache, fresh, edits, kind, items, read, moved>>
      /\ pc = "observe"
      /\ \/ mem' = mem /\ pc' \in {"status", "missing"}
         \/ ~refused /\ ~Absent(project) /\ mem' = seen /\ pc' \in {"current", "stale"}
      /\ pc' = "missing" => Lost(mem.name, mem.ann)
  BY DEF ObserveItem, ObserveReturns, serviceVars
<1>2. /\ mem \in Object /\ items \in Seq(Item) /\ faults' \in Nat /\ read = None
      /\ mem.name \in OwnIds \cup {0, MetaName, None}
  BY <1>1, HandlerTypes DEF ObserveItem
<1>3. Held' = held /\ OwnIds' = OwnIds
  BY <1>1, SameItems
<1>4. CASE mem' = mem
  <2>1. HandlerStep(held, held)
    <3>1. pc' = "missing" => mem.name \notin held
      <4>1. kind \in Pinning => Noted(mem.name, mem.ann)
        BY <1>1, HandlerTypes
      <4>2. QED  BY <1>1, <4>1 DEF Lost, Misled, Noted, Pinning, Held, Kept
    <3>2. QED  BY <1>1, <1>4, <3>1 DEF HandlerStep, Creating
  <2>2. kind \in Pinning => Noted(mem.name, mem.ann)'
    BY <1>1, <1>4, HandlerTypes DEF Noted
  <2>3. Grows
    BY <1>1, <1>2, <1>3 DEF Grows
  <2>4. QED
    BY <1>1, <1>2, <1>3, <1>4, <2>1, <2>2, <2>3, HandlerKeeps
<1>5. CASE ~refused /\ ~Absent(project) /\ mem' = seen /\ pc' \in {"current", "stale"}
  <2>1. Here(project) \in Nat
    BY <1>2, <1>5, HereTypes
  <2>2. seen \in Object
    BY <1>2, <1>5, <2>1 DEF Objects
  <2>3. /\ mem' \in Object /\ mem'.name = mem.name /\ mem'.ann = ann
        /\ mem'.exists = mem.exists /\ mem'.fin = mem.fin /\ mem'.del = mem.del
        /\ mem'.create = mem.create /\ mem'.spec = mem.spec
    BY <1>2, <1>5, <2>2 DEF Objects
  <2> HIDE DEF seen
  <2>4. HandlerStep(held, held)
    BY <1>1, <1>5, <2>3 DEF HandlerStep, Creating
  <2>5. kind \in Pinning => Noted(mem.name, mem.ann)'
    BY <1>1, <1>5, <2>3 DEF Noted
  <2>6. Grows
    BY <1>1, <1>2, <1>3 DEF Grows
  <2>7. QED
    BY <1>1, <1>2, <1>3, <1>5, <2>3, <2>4, <2>5, <2>6, HandlerKeeps
<1>6. QED  BY <1>1, <1>4, <1>5

\* Nor does Observe when nothing was looked at; the project is then noted unseen.
LEMMA UnseenKeeps ==
  ASSUME IInv, NEW refused, NEW ann, ObserveUnseen(refused, ann),
         ann \in Projects \cup {None}, kind \in Pinning => Noted(mem.name, ann)
  PROVE  GoodStep
<1> PICK held : held = Held
  OBVIOUS
<1> DEFINE unseen == [mem EXCEPT !.status = None, !.ann = ann]
<1>1. /\ UNCHANGED <<api, cache, fresh, edits, kind, items, read, moved>>
      /\ pc = "observe" /\ mem' = unseen /\ pc' = "stale"
  BY DEF ObserveUnseen, ObserveReturns, serviceVars
<1>2. /\ mem \in Object /\ items \in Seq(Item) /\ faults' \in Nat /\ read = None
      /\ mem.name \in OwnIds \cup {0, MetaName, None}
  BY <1>1, HandlerTypes DEF ObserveUnseen
<1>3. Held' = held /\ OwnIds' = OwnIds
  BY <1>1, SameItems
<1>4. /\ mem' \in Object /\ mem'.name = mem.name /\ mem'.ann = ann
      /\ mem'.exists = mem.exists /\ mem'.fin = mem.fin /\ mem'.del = mem.del
      /\ mem'.create = mem.create /\ mem'.spec = mem.spec
  BY <1>1, <1>2 DEF Objects
<1> HIDE DEF unseen
<1>5. HandlerStep(held, held)
  BY <1>1, <1>4 DEF HandlerStep, Creating
<1>6. kind \in Pinning => Noted(mem.name, mem.ann)'
  BY <1>1, <1>4 DEF Noted
<1>7. Grows
  BY <1>1, <1>2, <1>3 DEF Grows
<1>8. QED
  BY <1>1, <1>2, <1>3, <1>4, <1>5, <1>6, <1>7, HandlerKeeps

\* A creation adds at most one resource, and its id to the CR when it is heard of.
LEMMA CreateKeeps ==
  ASSUME IInv, NEW refused, NEW retries, NEW settings \in SUBSET Settable, NEW ann, NEW next,
         CreateItem(refused, retries, settings, ann, next),
         ann \in Projects \cup {None}, kind \in Pinning => ann = mem.spec.project,
         next = "created" \/ (next = "amend" /\ kind = "gitrepository")
  PROVE  GoodStep
<1> PICK held, after, n : held = Held /\ after = Held' /\ n = Len(items) + 1
  OBVIOUS
<1> DEFINE p == mem.spec
           heard(s) == [NewItem(p, s) EXCEPT !.heard = TRUE]
           created == [mem EXCEPT !.name = n, !.status = n, !.ann = ann]
<1>1. pc = "create" /\ UNCHANGED <<api, cache, fresh, edits, kind, moved>>
  BY DEF CreateItem
<1>2. /\ Attached(held) /\ mem \in Object /\ items \in Seq(Item) /\ held = {} /\ read = None
      /\ mem.name \in OwnIds \cup {0, MetaName, None}
      /\ p \in ResourceParameters /\ faults \in Nat
      /\ ~moved => p.project = FirstProject
      /\ kind \in Pinning => Noted(mem.name, mem.ann)
  BY <1>1, HandlerTypes DEF Attached, NothingToFind
<1>3. \/ mem' = mem /\ items' = items /\ read' = read /\ pc' \in {"create", "createFailed"}
      \/ \E s \in settings :
           /\ mem' = mem /\ items' = Append(items, NewItem(p, s)) /\ read' = read
           /\ pc' \in {"create", "createFailed"}
      \/ \E s \in settings :
           /\ items' = [Append(items, NewItem(p, s)) EXCEPT ![n].heard = TRUE]
           /\ mem' = created /\ pc' = next
           /\ read' = IF next = "amend" THEN items'[n] ELSE None
  <2> DEFINE made == {Append(items, NewItem(p, s)) : s \in settings}
  <2>1. \/ /\ pc' = "createFailed" /\ UNCHANGED <<mem, items, read>>
        \/ /\ items' \in {items} \cup made /\ pc' \in {pc, "createFailed"}
           /\ UNCHANGED <<mem, read>>
        \/ /\ \E made1 \in made : items' = [made1 EXCEPT ![n].heard = TRUE]
           /\ mem' = created
           /\ read' = IF next = "amend" THEN items'[n] ELSE None
           /\ pc' = next
    BY DEF CreateItem
  <2> HIDE DEF created
  <2>2. CASE pc' = "createFailed" /\ UNCHANGED <<mem, items, read>>
    BY <2>2
  <2>3. CASE items' \in {items} \cup made /\ pc' \in {pc, "createFailed"} /\ UNCHANGED <<mem, read>>
    BY <1>1, <2>3
  <2>4. CASE /\ \E made1 \in made : items' = [made1 EXCEPT ![n].heard = TRUE]
             /\ mem' = created
             /\ read' = IF next = "amend" THEN items'[n] ELSE None
             /\ pc' = next
    <3>1. PICK s \in settings : items' = [Append(items, NewItem(p, s)) EXCEPT ![n].heard = TRUE]
      BY <2>4
    <3>2. QED  BY <2>4, <3>1
  <2>5. QED  BY <2>1, <2>2, <2>3, <2>4
<1>faults. faults' \in Nat
  BY <1>2 DEF CreateItem
<1>4. \A s \in settings : NewItem(p, s) \in Item /\ heard(s) \in Item
  BY <1>2, NewItemTypes
<1>5. \A s \in settings :
        /\ NewItem(p, s).there /\ NewItem(p, s).owner = "us" /\ ~NewItem(p, s).heard
        /\ NewItem(p, s).project = p.project
        /\ heard(s).there /\ heard(s).owner = "us" /\ heard(s).heard
        /\ heard(s).project = p.project
  BY DEF NewItem
<1> HIDE DEF heard
<1>6. CASE mem' = mem /\ items' = items /\ read' = read /\ pc' \in {"create", "createFailed"}
  <2>1. Held' = held /\ OwnIds' = OwnIds
    BY <1>1, <1>6, SameItems
  <2>2. HandlerStep(held, held)
    BY <1>1, <1>2, <1>6 DEF HandlerStep, Creating
  <2>3. kind \in Pinning => Noted(mem.name, mem.ann)'
    BY <1>1, <1>2, <1>6 DEF Noted
  <2>4. Grows
    BY <1>1, <1>2, <1>6, <2>1 DEF Grows
  <2>5. QED
    BY <1>1, <1>2, <1>faults, <1>6, <2>1, <2>2, <2>3, <2>4, HandlerKeeps
<1>7. ASSUME NEW s \in settings, mem' = mem, items' = Append(items, NewItem(p, s)),
             read' = read, pc' \in {"create", "createFailed"}
      PROVE  GoodStep
  <2> PICK q : q = NewItem(p, s)
    OBVIOUS
  <2>1. /\ items' \in Seq(Item) /\ n \in Nat \ Ids /\ n # 0 /\ Ids' = Ids \cup {n}
        /\ items'[n] = q /\ \A j \in Ids : items'[j] = items[j]
        /\ OwnIds' = OwnIds \cup {n} /\ after = {} /\ q.project = p.project
    BY <1>1, <1>2, <1>4, <1>5, <1>7, OneMore
  <2>2. HandlerStep(held, {})
    BY <1>1, <1>2, <1>7 DEF HandlerStep, Creating
  <2>3. Grows
    BY <1>2, <2>1 DEF Grows
  <2>4. kind \in Pinning => Noted(mem.name, mem.ann)'
    <3> PICK m : m = mem
      OBVIOUS
    <3>1. kind \in Pinning => Noted(m.name, m.ann)'
      BY <1>1, <1>2, <2>3, GrowsKeeps
    <3>2. QED  BY <1>7, <3>1 DEF Noted
  <2>5. QED
    BY <1>1, <1>2, <1>faults, <1>7, <2>1, <2>2, <2>3, <2>4, HandlerKeeps
<1>8. ASSUME NEW s \in settings, mem' = created, pc' = next,
             items' = [Append(items, NewItem(p, s)) EXCEPT ![n].heard = TRUE],
             read' = IF next = "amend" THEN items'[n] ELSE None
      PROVE  GoodStep
  <2> PICK q : q = heard(s)
    OBVIOUS
  <2>1. items' = Append(items, q)
    BY <1>2, <1>4, <1>8, HeardOf DEF heard
  <2>2. /\ items' \in Seq(Item) /\ n \in Nat \ Ids /\ n # 0 /\ Ids' = Ids \cup {n}
        /\ items'[n] = q /\ \A j \in Ids : items'[j] = items[j]
        /\ OwnIds' = OwnIds \cup {n} /\ (after = {} \/ after = {n})
        /\ q \in Item /\ q.project = p.project
    BY <1>1, <1>2, <1>4, <1>5, <2>1, OneMore
  <2>3. created \in Object
    BY <1>2, <2>2 DEF Objects
  <2>4. /\ mem' \in Object /\ mem'.name = n /\ mem'.ann = ann
        /\ mem'.exists = mem.exists /\ mem'.fin = mem.fin /\ mem'.del = mem.del
        /\ mem'.create = mem.create /\ mem'.spec = mem.spec
    BY <1>2, <1>8, <2>3 DEF Objects
  <2>5. HandlerStep(held, after)
    BY <1>1, <1>2, <1>8, <2>2, <2>4 DEF HandlerStep, Creating
  <2>6. Grows
    BY <1>2, <2>2 DEF Grows
  <2>7. read' \in IF pc' \in {"patch", "amend"} THEN Item ELSE {None}
    BY <1>8, <2>2
  <2>8. kind \in Pinning => Noted(mem.name, mem.ann)'
    BY <2>2, <2>4 DEF Noted
  <2>9. QED
    <3> HIDE DEF created
    <3>1. pc' \in {"created", "amend"} /\ (pc' = "amend" => kind = "gitrepository")
      BY <1>8
    <3>2. mem'.name \in OwnIds'
      BY <2>2, <2>4
    <3>3. QED
      BY <1>1, <1>faults, <2>4, <2>5, <2>6, <2>7, <2>8, <3>1, <3>2, HandlerKeeps
<1>9. QED  BY <1>3, <1>6, <1>7, <1>8

\* Update reads, and goes on or not.
LEMMA ReadKeeps ==
  ASSUME IInv, NEW project, NEW refused, NEW idle, ReadItem(project, refused, idle)
  PROVE  GoodStep
<1>1. /\ UNCHANGED <<api, cache, mem, fresh, edits, kind, items, moved>>
      /\ pc = "stale"
      /\ \/ pc' = "status" /\ read' = read
         \/ ~Absent(project) /\ pc' = "patch" /\ read' = The(project)
  BY DEF ReadItem, MayUpdate
<1>2. faults' \in Nat /\ read = None /\ items \in Seq(Item)
  BY <1>1, HandlerTypes DEF ReadItem
<1>3. ~Absent(project) => The(project) \in Item
  BY <1>2, HereTypes DEF The
<1>4. QED  BY <1>1, <1>2, <1>3, QuietKeeps

\* A handler that changes at most one resource, which keeps its owner and project
\* and does not come back.
LEMMA TouchKeeps ==
  ASSUME IInv, UNCHANGED <<api, cache, mem, fresh, edits, kind, moved>>,
         faults' \in Nat, read' = None,
         \/ pc \in {"current", "stale", "patch"} /\ pc' = "status"
         \/ pc = "amend" /\ pc' \in {"created", "createFailed"},
         \/ items' = items
         \/ \E i \in Ids, q \in Item :
              /\ items' = [items EXCEPT ![i] = q]
              /\ q.owner = items[i].owner /\ q.heard = items[i].heard
              /\ q.project = items[i].project /\ (q.there => items[i].there)
  PROVE  GoodStep
<1> PICK held, after : held = Held /\ after = Held'
  OBVIOUS
<1>1. /\ Attached(held) /\ mem \in Object /\ items \in Seq(Item)
      /\ mem.name \in OwnIds \cup {0, MetaName, None}
      /\ kind \in Pinning => Noted(mem.name, mem.ann)
  BY HandlerTypes
<1>2. after \subseteq held /\ Grows /\ Ids' = Ids
  <2>1. CASE items' = items
    BY <1>1, <2>1, SameItems DEF Grows
  <2>2. ASSUME NEW i \in Ids, NEW q \in Item, items' = [items EXCEPT ![i] = q],
               q.owner = items[i].owner, q.heard = items[i].heard,
               q.project = items[i].project, q.there => items[i].there
        PROVE  after \subseteq held /\ Grows /\ Ids' = Ids
    BY <1>1, <2>2, OneChanges DEF Grows
  <2>3. QED  BY <2>1, <2>2
<1>3. HandlerStep(held, after)
  BY <1>1, <1>2 DEF HandlerStep, Creating, Attached, NothingToFind
<1>4. mem.name \in OwnIds' \cup {0, MetaName, None}
  BY <1>1, <1>2 DEF Grows
<1>5. kind \in Pinning => Noted(mem.name, mem.ann)'
  BY <1>1, <1>2 DEF Grows, Noted
<1>6. QED
  BY <1>1, <1>2, <1>3, <1>4, <1>5, HandlerKeeps

\* A request changes at most the resource that was found.
LEMMA SendKeeps ==
  ASSUME IInv, NEW project, NEW settled, NEW guarded, NEW next, NEW failed,
         SendItem(project, settled, guarded, next, failed),
         \/ pc = "patch" /\ next = "status" /\ failed = "status"
         \/ pc = "amend" /\ next = "created" /\ failed = "createFailed"
  PROVE  GoodStep
<1> DEFINE p == mem.spec
           i == Here(project)
           name == IF read.name = p.name THEN items[i].name ELSE p.name
           q == [items[i] EXCEPT !.name = name,
                                 !.setting = IF settled THEN items[i].setting ELSE p.setting]
           changed == [items EXCEPT ![i].name = name,
                                    ![i].setting = IF settled THEN @ ELSE p.setting]
<1>1. /\ UNCHANGED <<api, cache, mem, fresh, edits, kind, moved>>
      /\ read' = None /\ pc' \in {next, failed}
      /\ items' = items \/ (~Absent(project) /\ items' = changed)
  BY DEF SendItem
<1>2. /\ items \in Seq(Item) /\ p.name \in Names /\ p.setting \in Settable /\ faults \in Nat
  BY HandlerTypes
<1>3. faults' \in Nat
  BY <1>2 DEF SendItem
<1>4. ASSUME ~Absent(project)
      PROVE  /\ i \in Ids /\ changed = [items EXCEPT ![i] = q]
             /\ q \in Item /\ q.owner = items[i].owner /\ q.heard = items[i].heard
             /\ q.project = items[i].project /\ (q.there => items[i].there)
  <2>1. i \in Ids /\ items[i] \in Item
    BY <1>2, <1>4, HereTypes
  <2>2. changed = [items EXCEPT ![i] = q]
    BY <1>2, <2>1, Rewritten
  <2>3. /\ name \in Names
        /\ (IF settled THEN items[i].setting ELSE p.setting) \in Settable \cup {Unsupported}
    BY <1>2, <2>1 DEF Item, Settable
  <2>4. q \in Item
    <3> HIDE DEF name
    <3>1. QED  BY <2>1, <2>3, ItemChanges
  <2>5. /\ q.owner = items[i].owner /\ q.heard = items[i].heard
        /\ q.project = items[i].project /\ q.there = items[i].there
    BY <2>1 DEF Item
  <2>6. QED  BY <2>1, <2>2, <2>4, <2>5
<1> HIDE DEF q, changed, name
<1>5. QED  BY <1>1, <1>3, <1>4, TouchKeeps

\* A deletion takes at most the resource that was found.
LEMMA DeleteKeeps ==
  ASSUME IInv, NEW project, NEW refused, DeleteItem(project, refused)
  PROVE  GoodStep
<1> DEFINE i == Here(project)
           q == [items[i] EXCEPT !.there = FALSE]
<1>1. /\ UNCHANGED <<api, cache, mem, fresh, edits, kind, read, moved>>
      /\ pc \in {"current", "stale"} /\ pc' = "status"
      /\ items' = items \/ (~Absent(project) /\ items' = [items EXCEPT ![i].there = FALSE])
  BY DEF DeleteItem, MayDelete
<1>2. items \in Seq(Item) /\ faults' \in Nat /\ read = None
  BY <1>1, HandlerTypes DEF DeleteItem
<1>3. ASSUME ~Absent(project)
      PROVE  /\ i \in Ids /\ [items EXCEPT ![i].there = FALSE] = [items EXCEPT ![i] = q]
             /\ q \in Item /\ q.owner = items[i].owner /\ q.heard = items[i].heard
             /\ q.project = items[i].project /\ (q.there => items[i].there)
  <2>1. i \in Ids /\ items[i] \in Item
    BY <1>2, <1>3, HereTypes
  <2>2. q \in Item
    BY <2>1, ItemChanges
  <2>3. /\ q.owner = items[i].owner /\ q.heard = items[i].heard
        /\ q.project = items[i].project /\ ~q.there
    BY <2>1 DEF Item
  <2>4. QED  BY <2>1, <2>2, <2>3
<1> HIDE DEF q
<1>4. QED  BY <1>1, <1>2, <1>3, TouchKeeps

(***************************************************************************)
(* Where the six controllers look for their resource.                      *)
(***************************************************************************)

\* What a kind that does not remember the project misses in that of the spec is
\* gone, unless the CR was moved.
LEMMA MissedInSpec ==
  ASSUME IInv, pc # "idle", kind \notin Pinning, Absent(mem.spec.project)
  PROVE  Lost(mem.name, mem.ann)
<1> SUFFICES ASSUME mem.name \in Ids, items[mem.name].there, ~Abandons
             PROVE  FALSE
  BY DEF Lost
<1>1. ~moved /\ mem.spec.project = FirstProject
  BY HandlerTypes DEF Abandons
<1>2. mem.name \in OwnIds
  <2>1. {0, MetaName, None} \cap Ids = {}
    BY HandlerTypes, ItemTypes, ProjectResourceAssumption
  <2>2. QED  BY <2>1, HandlerTypes
<1>3. items[mem.name].project = FirstProject
  BY <1>1, <1>2 DEF IInv, InPlace
<1>4. QED  BY <1>1, <1>3 DEF Absent, Found

\* What a kind that remembers the project misses there is gone.
LEMMA MissedInNote ==
  ASSUME IInv, pc # "idle", kind \in Pinning, mem.ann # None, Absent(mem.ann)
  PROVE  Lost(mem.name, mem.ann)
  BY HandlerTypes DEF Lost, Misled, Noted, Pinning, Absent, Found

\* Only a repository's set-up sends a request while the CR is being created.
LEMMA OnlyPatched ==
  ASSUME IInv, NEW project, NEW settled, NEW guarded,
         SendItem(project, settled, guarded, "status", "status"),
         kind # "gitrepository" \/ pc = "patch"
  PROVE  GoodStep
<1>1. pc = "patch"
  BY DEF SendItem, IInv, Amending
<1>2. QED  BY <1>1, SendKeeps

\* The kinds that look in the project of the spec.
LEMMA PlainKeeps ==
  ASSUME IInv, kind \notin Pinning,
         NEW refused, NEW same, NEW retries, NEW settings \in SUBSET Settable, NEW next,
         NEW project, NEW idle, NEW settled, NEW guarded,
         next = "created" \/ (next = "amend" /\ kind = "gitrepository"),
         \/ ObserveItem(mem.spec.project, refused, FALSE, same, mem.ann)
         \/ ObserveUnseen(refused, mem.ann)
         \/ CreateItem(refused, retries, settings, mem.ann, next)
         \/ ReadItem(project, refused, idle)
         \/ /\ SendItem(project, settled, guarded, "status", "status")
            /\ kind # "gitrepository" \/ pc = "patch"
         \/ DeleteItem(project, refused)
  PROVE  GoodStep
<1>1. CASE ObserveItem(mem.spec.project, refused, FALSE, same, mem.ann)
  <2>1. pc # "idle"
    BY <1>1 DEF ObserveItem
  <2>2. mem.ann \in Projects \cup {None}
    BY <2>1, HandlerTypes
  <2>3. QED  BY <1>1, <2>1, <2>2, MissedInSpec, ObserveKeeps
<1>2. CASE CreateItem(refused, retries, settings, mem.ann, next)
  <2>1. mem.ann \in Projects \cup {None}
    BY <1>2, HandlerTypes DEF CreateItem
  <2>2. QED  BY <1>2, <2>1, CreateKeeps
<1>3. CASE ObserveUnseen(refused, mem.ann)
  <2>1. mem.ann \in Projects \cup {None}
    BY <1>3, HandlerTypes DEF ObserveUnseen
  <2>2. QED  BY <1>3, <2>1, UnseenKeeps
<1>4. QED  BY <1>1, <1>2, <1>3, ReadKeeps, OnlyPatched, DeleteKeeps

\* Team, AgentQueue and BuildDefinition are of that kind.
LEMMA PlainKindsKeep ==
  ASSUME IInv, Team \/ AgentQueue \/ BuildDefinition
  PROVE  GoodStep
<1>setting. pc # "idle" => {mem.spec.setting} \in SUBSET Settable
  BY HandlerTypes
<1>busy. pc = "create" => pc # "idle"
  OBVIOUS
<1>1. CASE Team
  <2>1. CASE CreateTeam
    BY <1>1, <1>setting, <2>1, PlainKeeps DEF Team, CreateTeam, CreateItem, Pinning
  <2>2. QED
    BY <1>1, <2>1, PlainKeeps DEF Team, ObserveTeam, UpdateTeam, DeleteTeam, Pinning
<1>2. CASE AgentQueue
  <2>1. CASE CreateAgentQueue
    BY <1>2, <1>setting, <2>1, PlainKeeps DEF AgentQueue, CreateAgentQueue, CreateItem, Pinning
  <2>2. CASE UpdateAgentQueue
    <3>1. pc = "stale" /\ pc' = "status"
          /\ UNCHANGED <<api, cache, mem, fresh, edits, faults, kind, items, read, moved>>
      BY <2>2 DEF UpdateAgentQueue, MayUpdate, serviceVars
    <3>2. read = None /\ faults \in Nat
      BY <3>1, HandlerTypes
    <3>3. QED  BY <3>1, <3>2, QuietKeeps
  <2>3. QED
    BY <1>2, <2>1, <2>2, PlainKeeps DEF AgentQueue, ObserveAgentQueue, DeleteAgentQueue, Pinning
<1>3. CASE BuildDefinition
  <2>1. CASE CreateBuildDefinition
    BY <1>3, <1>setting, <2>1, PlainKeeps
       DEF BuildDefinition, CreateBuildDefinition, CreateItem, Pinning
  <2>2. QED
    BY <1>3, <2>1, PlainKeeps
       DEF BuildDefinition, ObserveBuildDefinition, UpdateBuildDefinition,
           DeleteBuildDefinition, Pinning
<1>4. QED  BY <1>1, <1>2, <1>3

\* So is GitRepository, whose creation takes up to two requests.
LEMMA GitRepositoryKeeps ==
  ASSUME IInv, GitRepository
  PROVE  GoodStep
<1>0. kind = "gitrepository" /\ kind \notin Pinning
  BY DEF GitRepository, Pinning
<1>1. CASE CreateGitRepository
  <2> DEFINE settings == IF mem.spec.origin = None THEN {None} ELSE Values
             next == IF mem.spec.setting = None THEN "created" ELSE "amend"
  <2>1. settings \in SUBSET Settable /\ (next = "created" \/ next = "amend")
    BY DEF Settable
  <2>2. CreateItem(FALSE, FALSE, settings, mem.ann, next)
    BY <1>1 DEF CreateGitRepository
  <2> HIDE DEF settings, next
  <2>3. QED  BY <1>0, <2>1, <2>2, PlainKeeps
<1>2. CASE AmendGitRepository
  <2>1. CASE BranchSettled
    <3>1. /\ pc = "amend" /\ pc' = "created" /\ read' = None
          /\ UNCHANGED <<api, cache, mem, fresh, edits, faults, kind, items, moved>>
      BY <1>2, <2>1 DEF AmendGitRepository
    <3>2. faults \in Nat
      BY <3>1, HandlerTypes
    <3>3. QED  BY <3>1, <3>2, QuietKeeps
  <2>2. CASE ~BranchSettled
    BY <1>2, <2>2, SendKeeps DEF AmendGitRepository
  <2>3. QED  BY <2>1, <2>2
<1>3. CASE ObserveGitRepository \/ DeleteGitRepository
  BY <1>0, <1>3, PlainKeeps DEF ObserveGitRepository, DeleteGitRepository
<1>4. CASE UpdateGitRepository
  BY <1>4, ReadKeeps, OnlyPatched DEF UpdateGitRepository
<1>5. QED  BY <1>1, <1>2, <1>3, <1>4 DEF GitRepository

\* An environment is reported missing only where it was last seen.
LEMMA EnvironmentKeeps ==
  ASSUME IInv, Environment
  PROVE  GoodStep
<1>0. kind = "environment" /\ kind \in Pinning
  BY DEF Environment, Pinning
<1>1. CASE ObserveEnvironment /\ ~ObserveUnseen(~IsId(mem.name), ProjectIDForAPI(mem))
  <2> DEFINE project == ProjectIDForAPI(mem)
             ann == The(project).project
             orphan == ~MissingEnvironment(mem)
             refused == ~IsId(mem.name)
             same == IsUpToDateEnvironment(mem.spec, The(project))
  <2>1. ObserveItem(project, refused, orphan, same, ann)
    BY <1>1 DEF ObserveEnvironment
  <2>2. pc # "idle"
    BY <2>1 DEF ObserveItem
  <2>3. ~refused /\ Absent(project) /\ ~orphan => Lost(mem.name, mem.ann)
    <3> SUFFICES ASSUME Absent(project), ~orphan
                 PROVE  Lost(mem.name, mem.ann)
      OBVIOUS
    <3>1. mem.ann # None /\ project = mem.ann
      BY <2>2, HandlerTypes DEF MissingEnvironment, ProjectIDForAPI
    <3>2. QED  BY <1>0, <2>2, <3>1, MissedInNote
  <2>4. ~refused /\ ~Absent(project) =>
          /\ ann \in Projects \cup {None}
          /\ kind \in Pinning => Noted(mem.name, ann)
    <3>1. items \in Seq(Item)
      BY <2>2, HandlerTypes
    <3>2. ~Absent(project) => Here(project) \in Ids /\ Here(project) = mem.name
      BY <1>0, <3>1, HereTypes
    <3>3. QED  BY <3>1, <3>2, ItemTypes DEF The, Noted
  <2> HIDE DEF project, ann, orphan, refused, same
  <2>5. QED  BY <2>1, <2>3, <2>4, ObserveKeeps
<1>2. CASE CreateEnvironment
  <2>1. pc # "idle"
    BY <1>2 DEF CreateEnvironment, CreateItem
  <2>2. {mem.spec.setting} \in SUBSET Settable /\ mem.spec.project \in Projects \cup {None}
    BY <2>1, HandlerTypes
  <2>3. QED  BY <1>2, <2>2, CreateKeeps DEF CreateEnvironment
<1>3. CASE UpdateEnvironment
  BY <1>0, <1>3, ReadKeeps, OnlyPatched DEF UpdateEnvironment
<1>4. CASE DeleteEnvironment
  BY <1>4, DeleteKeeps DEF DeleteEnvironment
<1>5. CASE ObserveUnseen(~IsId(mem.name), ProjectIDForAPI(mem))
  <2>1. pc # "idle"
    BY <1>5 DEF ObserveUnseen
  <2>2. ProjectIDForAPI(mem) \in Projects \cup {None}
    BY <2>1, HandlerTypes DEF ProjectIDForAPI
  <2>3. Noted(mem.name, ProjectIDForAPI(mem))
    BY <1>0, <2>1, HandlerTypes, ItemTypes DEF ProjectIDForAPI, Noted
  <2>4. QED  BY <1>5, <2>2, <2>3, UnseenKeeps
<1>6. QED  BY <1>1, <1>2, <1>3, <1>4, <1>5 DEF Environment

\* A policy is reported missing only where it was last seen, too.
LEMMA BranchPolicyKeeps ==
  ASSUME IInv, BranchPolicyMinReviewers
  PROVE  GoodStep
<1>0. kind = "branchpolicy" /\ kind \in Pinning
  BY DEF BranchPolicyMinReviewers, Pinning
<1>1. CASE ObserveBranchPolicy
  <2> DEFINE project == ProjectIDForExternalOperations(mem)
             orphan == mem.ann = None
             refused == \/ ~mem.del /\ ~ValidateImmutableProjectID(mem)
                        \/ ~IsId(mem.name)
                        \/ ~Absent(project) /\ ~Managed(The(project))
             same == IsUpToDateBranchPolicy(mem.spec, The(project))
  <2>1. ObserveItem(project, refused, orphan, same, project)
    BY <1>1 DEF ObserveBranchPolicy
  <2>2. pc # "idle"
    BY <2>1 DEF ObserveItem
  <2>3. ~refused /\ Absent(project) /\ ~orphan => Lost(mem.name, mem.ann)
    <3> SUFFICES ASSUME ~refused, Absent(project), ~orphan
                 PROVE  Lost(mem.name, mem.ann)
      OBVIOUS
    <3>1. mem.ann # None /\ project = mem.ann
      BY DEF ValidateImmutableProjectID, ProjectIDForExternalOperations
    <3>2. QED  BY <1>0, <2>2, <3>1, MissedInNote
  <2>4. ~refused /\ ~Absent(project) =>
          /\ project \in Projects \cup {None}
          /\ kind \in Pinning => Noted(mem.name, project)
    <3>1. items \in Seq(Item)
      BY <2>2, HandlerTypes
    <3>2. ~Absent(project) => items[mem.name].project = project
      BY <1>0, <3>1, HereTypes
    <3>3. project \in Projects \cup {None}
      BY <2>2, HandlerTypes DEF ProjectIDForExternalOperations
    <3>4. QED  BY <3>2, <3>3 DEF Noted
  <2> HIDE DEF project, orphan, refused, same
  <2>5. QED  BY <2>1, <2>3, <2>4, ObserveKeeps
<1>2. CASE CreateBranchPolicy
  <2>1. pc # "idle"
    BY <1>2 DEF CreateBranchPolicy, CreateItem
  <2>2. {mem.spec.setting} \in SUBSET Settable /\ mem.spec.project \in Projects \cup {None}
    BY <2>1, HandlerTypes
  <2>3. QED  BY <1>2, <2>2, CreateKeeps DEF CreateBranchPolicy
<1>3. CASE UpdateBranchPolicy
  BY <1>0, <1>3, ReadKeeps, OnlyPatched DEF UpdateBranchPolicy
<1>4. CASE DeleteBranchPolicy
  BY <1>4, DeleteKeeps DEF DeleteBranchPolicy
<1>5. QED  BY <1>1, <1>2, <1>3, <1>4 DEF BranchPolicyMinReviewers

(***************************************************************************)
(* Administrators add foreign resources and rename, change or take those   *)
(* there are.                                                              *)
(***************************************************************************)
LEMMA AroundKeeps ==
  ASSUME IInv, UNCHANGED <<api, cache, mem, fresh, pc, faults, kind, read, moved>>,
         edits' \in Nat,
         \/ \E q \in Item : q.owner = "others" /\ q.there /\ items' = Append(items, q)
         \/ \E i \in Ids, q \in Item :
              /\ q.owner = items[i].owner /\ q.heard = items[i].heard
              /\ q.project = items[i].project
              /\ q.there => items[i].there
              /\ items' = [items EXCEPT ![i] = q]
  PROVE  GoodStep
<1> PICK held, after, m, a, c : held = Held /\ after = Held' /\ m = mem /\ a = api /\ c = cache
  OBVIOUS
<1>1. TypeOK /\ Attached(held) /\ items \in Seq(Item)
  BY DEF IInv, TypeOK
<1>2. Grows /\ after \subseteq held
  <2>1. ASSUME NEW q \in Item, q.owner = "others", q.there, items' = Append(items, q)
        PROVE  Grows /\ after \subseteq held
    <3> PICK n : n = Len(items) + 1
      OBVIOUS
    <3>1. /\ items' \in Seq(Item) /\ Ids' = Ids \cup {n}
          /\ \A j \in Ids : items'[j] = items[j]
          /\ OwnIds' = OwnIds /\ after = held
      BY <1>1, <2>1, OneMore
    <3>2. QED  BY <3>1 DEF Grows
  <2>2. ASSUME NEW i \in Ids, NEW q \in Item,
               q.owner = items[i].owner, q.heard = items[i].heard,
               q.project = items[i].project, q.there => items[i].there,
               items' = [items EXCEPT ![i] = q]
        PROVE  Grows /\ after \subseteq held
    BY <1>1, <2>2, OneChanges DEF Grows
  <2>3. QED  BY <2>1, <2>2
<1>3. Attached(after)' /\ HoldsStep(held, after)
  BY <1>1, <1>2, LossAttaches
<1>4. TypeOK'
  BY <1>1, <1>2 DEF TypeOK, RuntimeTypeOK, Grows
<1>own. {m.name, a.name, c.name} \subseteq OwnIds \cup {0, MetaName, None}
  BY DEF IInv, NamesOwn
<1>5. NamesOwn'
  BY <1>2, GrowsKeeps DEF IInv, NamesOwn
<1>noted. Remembered'
  <2>1. kind \in Pinning => Noted(m.name, m.ann) /\ Noted(a.name, a.ann) /\ Noted(c.name, c.ann)
    BY DEF IInv, Remembered
  <2>2. kind \in Pinning => Noted(m.name, m.ann)' /\ Noted(a.name, a.ann)' /\ Noted(c.name, c.ann)'
    BY <1>2, <1>own, <2>1, GrowsKeeps
  <2>3. QED  BY <2>2 DEF Remembered
<1>6. InPlace'
  BY <1>2 DEF IInv, InPlace, Grows, OwnIds
<1>7. Missed'
  <2>1. /\ Lost(m.name, m.ann) => Lost(m.name, m.ann)'
        /\ Lost(a.name, a.ann) => Lost(a.name, a.ann)'
    BY <1>2, <1>own, GrowsKeeps
  <2>2. QED  BY <2>1 DEF IInv, Missed
<1>8. Amending' /\ ResourceKept
  BY DEF IInv, Amending, ResourceKept
<1>9. QED
  BY <1>3, <1>4, <1>5, <1>noted, <1>6, <1>7, <1>8, AttachedSubst, StepsOfLifecycle DEF IInv, GoodStep

\* They do no more than that.
LEMMA AdminKeeps ==
  ASSUME IInv, AdminStep
  PROVE  GoodStep
<1>1. items \in Seq(Item) /\ edits \in Nat /\ \A i \in Ids : items[i] \in Item
  BY ItemTypes DEF IInv, TypeOK, RuntimeTypeOK
<1>2. UNCHANGED <<api, cache, mem, fresh, pc, faults, kind, read, moved>> /\ edits' \in Nat
  BY <1>1 DEF AdminStep
<1>3. ASSUME NEW p \in ResourceParameters, items' = Append(items, ForeignItem(p, "others"))
      PROVE  GoodStep
  <2>1. /\ ForeignItem(p, "others") \in Item /\ ForeignItem(p, "others").owner = "others"
        /\ ForeignItem(p, "others").there
    <3>1. p.setting \in Settable
      BY DEF ResourceParameters, Settable
    <3>2. QED  BY <3>1, NewItemTypes DEF ForeignItem, NewItem
  <2>2. QED  BY <1>2, <1>3, <2>1, AroundKeeps
<1>4. ASSUME NEW i \in Ids, NEW q, items' = [items EXCEPT ![i] = q],
             \/ q = [items[i] EXCEPT !.there = FALSE]
             \/ \E name \in Names : q = [items[i] EXCEPT !.name = name]
             \/ \E setting \in Settable \cup {Unsupported} :
                  q = [items[i] EXCEPT !.setting = setting]
      PROVE  GoodStep
  <2>1. q \in Item
    BY <1>1, <1>4, ItemChanges
  <2>2. /\ q.owner = items[i].owner /\ q.heard = items[i].heard
        /\ q.project = items[i].project /\ (q.there => items[i].there)
    BY <1>1, <1>4 DEF Item
  <2>3. QED  BY <1>2, <1>4, <2>1, <2>2, AroundKeeps
<1>5. Settings \subseteq Settable \cup {Unsupported}
  BY DEF Settings, Settable
<1>6. \/ \E p \in ResourceParameters : items' = Append(items, ForeignItem(p, "others"))
      \/ \E i \in Ids :
           \/ items' = [items EXCEPT ![i] = [items[i] EXCEPT !.there = FALSE]]
           \/ \E setting \in Settings :
                items' = [items EXCEPT ![i] = [items[i] EXCEPT !.setting = setting]]
           \/ \E name \in Names :
                items' = [items EXCEPT ![i] = [items[i] EXCEPT !.name = name]]
  BY DEF AdminStep, Parameters
<1>7. QED  BY <1>3, <1>4, <1>5, <1>6

(***************************************************************************)
(* A CR that was just applied has at most a resource its user named; one   *)
(* that was restored has none.                                             *)
(***************************************************************************)
LEMMA InitKeeps ==
  ASSUME Init
  PROVE  IInv /\ Lifecycle!LifecycleInit
<1> DEFINE restored(p) ==
      [NewObject(p, 0) EXCEPT !.ann = IF kind \in Pinning THEN p.project ELSE None]
<1>1. PICK p, o :
        /\ p \in ResourceParameters /\ p.project = FirstProject
        /\ RuntimeInit({o})
        /\ \/ items = <<>> /\ o \in {NewObject(p, None), restored(p)}
           \/ items = <<ForeignItem(p, "named")>> /\ o = NewObject(p, 1)
  <2>1. PICK p \in ResourceParameters :
          /\ p.project = FirstProject
          /\ \/ items = <<>> /\ RuntimeInit({api}) /\ api = NewObject(p, None)
             \/ items = <<>> /\ RuntimeInit({api}) /\ api = restored(p)
             \/ items = <<ForeignItem(p, "named")>> /\ RuntimeInit({NewObject(p, 1)})
    BY DEF Init, RuntimeInit, Parameters
  <2> HIDE DEF restored
  <2>2. QED  BY <2>1
<1>2. /\ o.exists /\ ~o.fin /\ ~o.del /\ o.spec = p /\ o.name \in {None, 0, 1}
      /\ o.ann \in {None, p.project} /\ o \in Object
  <2>1. p.project \in Projects
    BY <1>1 DEF ResourceParameters
  <2>2. NewObject(p, None) \in Object /\ NewObject(p, 0) \in Object /\ NewObject(p, 1) \in Object
    BY <1>1, NewObjectTypes
  <2>3. restored(p) \in Object
    BY <2>1, <2>2, ObjectTypes
  <2>4. QED  BY <1>1, <2>1, <2>2, <2>3 DEF NewObject, NoObject
<1>3. RuntimeTypeOK(Object, {"amend", "patch"}) /\ Attached({}) /\ Stage = "live"
  <2> PICK objects : objects = {o}
    OBVIOUS
  <2>1. p # None
    BY <1>1, ProjectResourceAssumption
  <2>2. RuntimeInit(objects) /\ objects \subseteq Object
        /\ \A r \in objects : r.exists /\ ~r.fin /\ ~r.del /\ r.spec # None
    BY <1>1, <1>2, <2>1
  <2>3. QED  BY <2>2, AppliedStarts
<1>4. api = o /\ cache = o /\ mem = NoObject /\ pc = "idle"
  BY <1>1 DEF RuntimeInit
<1>5. /\ items \in Seq(Item)
      /\ \A i \in Ids : items[i].owner = "named" /\ items[i].project = FirstProject
      /\ o.name \in Ids \cup {0, None}
      /\ o.name \in Ids => o.ann = None
  <2>1. CASE items = <<>> /\ o \in {NewObject(p, None), restored(p)}
    <3>1. items = <<>> /\ Ids = {}
      BY <2>1
    <3>2. o.name \in {0, None}
      BY <2>1 DEF NewObject, NoObject
    <3>3. QED  BY <3>1, <3>2
  <2>2. CASE items = <<ForeignItem(p, "named")>> /\ o = NewObject(p, 1)
    <3> PICK q : q = ForeignItem(p, "named")
      OBVIOUS
    <3>1. p.setting \in Settable
      BY <1>1 DEF ResourceParameters, Settable
    <3>2. q \in Item /\ q.owner = "named" /\ q.project = FirstProject
      BY <1>1, <3>1, NewItemTypes DEF ForeignItem, NewItem
    <3>3. items \in Seq(Item) /\ Ids = {1} /\ items[1] = q
      BY <2>2, <3>2
    <3>4. o.name = 1 /\ o.ann = None
      BY <2>2 DEF NewObject, NoObject
    <3>5. QED  BY <3>2, <3>3, <3>4
  <2>3. QED  BY <1>1, <2>1, <2>2
<1>6. Held = {} /\ OwnIds = Ids
  BY <1>5 DEF Held, Kept, OwnIds
<1>7. NoObject.name = None /\ NoObject.spec = None /\ None \notin Ids
  BY <1>5, ItemTypes DEF NoObject
<1>8. NamesOwn /\ InPlace /\ Remembered
  BY <1>1, <1>2, <1>4, <1>5, <1>6, <1>7 DEF NamesOwn, InPlace, Remembered, Noted
<1>9. Missed /\ Amending
  BY <1>4 DEF Missed, Amending, Creating
<1>10. TypeOK
  BY <1>3, <1>4, <1>5 DEF TypeOK, Init
<1>11. QED
  BY <1>3, <1>6, <1>8, <1>9, <1>10 DEF IInv, Lifecycle!LifecycleInit

(***************************************************************************)
(* The invariant is inductive, every step of the system is one of the      *)
(* lifecycle, and none takes the id of a resource that lives from a CR.    *)
(***************************************************************************)
LEMMA StepKeeps ==
  ASSUME IInv, [Next]_vars
  PROVE  GoodStep
<1>1. CASE UNCHANGED vars
  <2>1. UNCHANGED <<Stage, api, cache, mem, fresh, pc, edits, faults, kind, items, read, moved>>
    BY <1>1 DEF vars, runtimeVars, serviceVars, Stage
  <2>2. UNCHANGED <<Held, OwnIds>>
    BY <2>1, SameItems
  <2>3. IInv'
    <3>1. TypeOK' /\ Attached(Held)'
      BY <2>1, <2>2 DEF IInv, TypeOK, RuntimeTypeOK, Attached, FreshCopy, HeldWhileCreating,
         DeletionSeen, Specified, Findable, AtMostOne, NothingToFind
    <3>2. NamesOwn' /\ InPlace' /\ Remembered' /\ Missed' /\ Amending'
      BY <2>1, <2>2 DEF IInv, NamesOwn, InPlace, Remembered, Noted, Missed, Lost, Misled,
                              Abandons, Amending
    <3>3. QED  BY <3>1, <3>2 DEF IInv
  <2>4. QED  BY <2>1, <2>2, <2>3 DEF Lifecycle!lifecycleVars, GoodStep, ResourceKept
<1>2. CASE ControllerStep
  BY <1>2, RuntimeKeeps, PlainKindsKeep, GitRepositoryKeeps, EnvironmentKeeps, BranchPolicyKeeps
     DEF ControllerStep
<1>3. CASE Next
  BY <1>2, <1>3, RuntimeKeeps, AdminKeeps DEF Next
<1>4. QED  BY <1>1, <1>3

(***************************************************************************)
(* The invariant holds in every reachable state.                           *)
(***************************************************************************)
THEOREM Inductive == Spec => []IInv
<1>1. IInv /\ [Next]_vars => IInv'
  BY StepKeeps DEF GoodStep
<1>2. QED  BY <1>1, InitKeeps, PTL DEF Spec

(***************************************************************************)
(* Every reachable state is well typed; above all, a request is sent only  *)
(* with what the service answered before it.                               *)
(***************************************************************************)
THEOREM TypeCorrect == Spec => []TypeOK
<1>1. IInv => TypeOK  BY DEF IInv
<1>2. QED  BY <1>1, Inductive, PTL

(***************************************************************************)
(* The six controllers implement the lifecycle: whatever fails, crashes or *)
(* is repeated, and however the CR is moved between projects, they make    *)
(* one resource at a time and release no CR whose resource lives on --     *)
(* unless the CR was moved and its kind does not remember the project.     *)
(***************************************************************************)
THEOREM Implements == Spec => KeepsLifecycle
<1>1. IInv /\ [Next]_vars => [Lifecycle!LifecycleNext]_(Lifecycle!lifecycleVars)
  BY StepKeeps DEF GoodStep
<1>2. QED
  BY <1>1, InitKeeps, Inductive, PTL DEF Spec, KeepsLifecycle, Lifecycle!LifecycleSpec

(***************************************************************************)
(* The id of a resource that lives is not taken from its CR, except by     *)
(* kinds that do not remember the project of a CR that was moved, and for  *)
(* an environment the user named whose project was noted unseen: what is   *)
(* missed is gone before a replacement is made and its id recorded.        *)
(***************************************************************************)
THEOREM KeepsItsResource == Spec => KeepsResource
<1>1. IInv /\ [Next]_vars => [ResourceKept]_vars
  BY StepKeeps DEF GoodStep
<1>2. KeepsResource <=> [][ResourceKept]_vars
  BY PTL DEF KeepsResource, ResourceKept
<1>3. QED
  BY <1>1, <1>2, Inductive, PTL DEF Spec

(***************************************************************************)
(* A CR that is gone has left no resource behind that its controller knew  *)
(* to have created, whatever crashed and however old its copies were --    *)
(* unless the CR was moved and its kind forgot the project.                *)
(***************************************************************************)
THEOREM LeakFree == Spec => [](~api.exists => Held = {})
<1>1. IInv => (~api.exists => Held = {})  BY NothingLeftBehind DEF IInv
<1>2. QED  BY <1>1, Inductive, PTL

(***************************************************************************)
(* One CR never holds two: not even when a request was repeated or a set-  *)
(* up failed half-way and the CR was reconciled again -- unless the CR was *)
(* moved and its kind forgot the project.                                  *)
(***************************************************************************)
THEOREM NoDouble == Spec => []AtMostOne(Held)
<1>1. IInv => AtMostOne(Held)  BY DEF IInv, Attached
<1>2. QED  BY <1>1, Inductive, PTL
=============================================================================

---------------------- MODULE IdentityControllers_proofs ----------------------
(***************************************************************************)
(* Proofs about IdentityControllers, for each of the three kinds, any      *)
(* keys, settings, projects and group types, any number of edits and       *)
(* faults and any number of groups, memberships or users.  What is held is *)
(* known by its identity: a number, or, of a membership, its key.          *)
(***************************************************************************)
EXTENDS IdentityControllers, ManagedReconciler_proofs

USE DEF Fault, Edit, Finish, Observed, Object, Ids

(***************************************************************************)
(* What is held, of any sequence of items.                                 *)
(***************************************************************************)
IdentityIn(s, i) == IF kind = "groupmembership" THEN s[i].key ELSE i

KeptIn(s) == {i \in DOMAIN s : s[i].there /\ s[i].owner = "us" /\ s[i].heard}

HeldIn(s) == {IdentityIn(s, i) : i \in KeptIn(s)}

\* Held is what is held of the items.
LEMMA HeldNowAndThen ==
  /\ Held = HeldIn(items)
  /\ kind' = kind => Held' = HeldIn(items')
  BY DEF Held, HeldIn, KeptIn, Kept, Identity, IdentityIn

\* Items are of their type, and what is held has an identity.
LEMMA ItemTypes ==
  ASSUME NEW s \in Seq(Item)
  PROVE  /\ \A i \in DOMAIN s : s[i] \in Item /\ s[i].key \in Keys
         /\ DOMAIN s \subseteq Nat
         /\ None \notin HeldIn(s)
<1>1. (\A i \in DOMAIN s : s[i] \in Item) /\ DOMAIN s \subseteq Nat
  BY Elements
<1>2. \A i \in DOMAIN s : s[i].key \in Keys
  BY <1>1 DEF Item
<1>3. None \notin Keys \cup Nat
  BY IdentityAssumption
<1>4. QED  BY <1>1, <1>2, <1>3 DEF HeldIn, KeptIn, IdentityIn

\* An item that changes without changing hands is held as before, unless it goes.
LEMMA OneChanges ==
  ASSUME NEW s \in Seq(Item), NEW i \in DOMAIN s, NEW q \in Item,
         NEW t, t = [s EXCEPT ![i] = q],
         q.owner = s[i].owner, q.heard = s[i].heard, q.there => s[i].there,
         kind = "groupmembership" => q.key = s[i].key
  PROVE  t \in Seq(Item) /\ HeldIn(t) \subseteq HeldIn(s)
<1>1. /\ t \in Seq(Item) /\ DOMAIN t = DOMAIN s /\ t[i] = q
      /\ \A j \in DOMAIN s \ {i} : t[j] = s[j]
  BY Replaced
<1>2. KeptIn(t) \subseteq KeptIn(s)
  BY <1>1 DEF KeptIn
<1>3. \A j \in DOMAIN s : IdentityIn(t, j) = IdentityIn(s, j)
  BY <1>1 DEF IdentityIn
<1>4. KeptIn(s) \subseteq DOMAIN s
  BY DEF KeptIn
<1>5. \A j \in KeptIn(t) : j \in KeptIn(s) /\ IdentityIn(t, j) = IdentityIn(s, j)
  BY <1>2, <1>3, <1>4
<1>6. HeldIn(t) \subseteq HeldIn(s)
  BY ONLY <1>5 DEF HeldIn
<1>7. QED  BY <1>1, <1>6

\* An item somebody else made, or whose making the controller did not hear of, is
\* not held.
LEMMA OneMore ==
  ASSUME NEW s \in Seq(Item), NEW q \in Item, q.owner = "us" => ~q.heard,
         NEW t, t = Append(s, q)
  PROVE  t \in Seq(Item) /\ HeldIn(t) = HeldIn(s)
<1> PICK n : n = Len(s) + 1
  OBVIOUS
<1>1. /\ t \in Seq(Item) /\ n \notin DOMAIN s /\ DOMAIN t = DOMAIN s \cup {n}
      /\ t[n] = q /\ \A j \in DOMAIN s : t[j] = s[j]
  BY Appended
<1>2. KeptIn(t) = KeptIn(s)
  BY <1>1 DEF KeptIn
<1>3. \A j \in DOMAIN s : IdentityIn(t, j) = IdentityIn(s, j)
  BY <1>1 DEF IdentityIn
<1>4. KeptIn(s) \subseteq DOMAIN s
  BY DEF KeptIn
<1>5. \A j \in KeptIn(s) : IdentityIn(t, j) = IdentityIn(s, j)
  BY <1>3, <1>4
<1>6. HeldIn(t) = HeldIn(s)
  BY ONLY <1>2, <1>5 DEF HeldIn
<1>7. QED  BY <1>1, <1>6

\* Where nothing was held, only what the controller hears of comes to be.
LEMMA OneHeard ==
  ASSUME NEW s \in Seq(Item), NEW i \in DOMAIN s, HeldIn(s) = {},
         NEW t, t = [s EXCEPT ![i].heard = TRUE]
  PROVE  t \in Seq(Item) /\ HeldIn(t) \subseteq {IdentityIn(s, i)}
<1> PICK q : q = [s[i] EXCEPT !.heard = TRUE]
  OBVIOUS
<1>1. s[i] \in Item
  BY ItemTypes
<1>2. q \in Item /\ q.key = s[i].key
  BY <1>1 DEF Item
<1>3. t = [s EXCEPT ![i] = q]
  OBVIOUS
<1>4. /\ t \in Seq(Item) /\ DOMAIN t = DOMAIN s /\ t[i] = q
      /\ \A j \in DOMAIN s \ {i} : t[j] = s[j]
  BY <1>2, <1>3, Replaced
<1>5. KeptIn(s) = {}
  BY DEF HeldIn
<1>6. KeptIn(t) \subseteq {i}
  BY <1>4, <1>5 DEF KeptIn
<1>7. IdentityIn(t, i) = IdentityIn(s, i)
  BY <1>2, <1>4 DEF IdentityIn
<1>8. QED  BY <1>4, <1>6, <1>7 DEF HeldIn

(***************************************************************************)
(* The parameters, and items as they are made and changed.                 *)
(***************************************************************************)

\* Whatever the kind, its parameters are among those of all kinds.
LEMMA ParameterTypes ==
  ASSUME kind \in Kinds
  PROVE  /\ Parameters \subseteq IdentityParameters
         /\ None \notin IdentityParameters
         /\ kind = "userentitlement" => \A p \in Parameters : p.setting \in Values
<1>1. NoGrants \in Grants
  BY DEF NoGrants, Grants
<1>2. Parameters \subseteq IdentityParameters
  BY <1>1 DEF Parameters, IdentityParameters, Kinds
<1>3. kind = "userentitlement" => \A p \in Parameters : p.setting \in Values
  BY DEF Parameters
<1>4. QED  BY <1>2, <1>3, IdentityAssumption

\* An item as the service makes it.
LEMMA NewItemTypes ==
  ASSUME NEW p \in IdentityParameters, NEW owner \in {"us", "named", "others"}
  PROVE  /\ NewItem(p) \in Item /\ ForeignItem(p, owner) \in Item
         /\ ~NewItem(p).heard /\ NewItem(p).there /\ NewItem(p).key = p.key
         /\ ForeignItem(p, owner).owner = owner
  BY DEF NewItem, ForeignItem, Item, IdentityParameters

\* An item some of whose fields are changed is still an item.
LEMMA ItemChanges ==
  ASSUME NEW q \in Item
  PROVE  /\ [q EXCEPT !.there = FALSE] \in Item
         /\ \A key \in Keys, v \in Values \cup {None} :
              [q EXCEPT !.key = key, !.setting = v] \in Item
         /\ \A key \in Keys, v \in Values \cup {None}, g \in Grants :
              [q EXCEPT !.key = key, !.setting = v, !.grants = g] \in Item
         /\ \A v \in Values \cup {None}, g \in Grants :
              [q EXCEPT !.setting = v, !.grants = g] \in Item
  BY DEF Item

\* To replace several fields of an item is to replace the item.
LEMMA Rewritten ==
  ASSUME NEW s \in Seq(Item), NEW i \in DOMAIN s, NEW a, NEW b, NEW c
  PROVE  /\ [s EXCEPT ![i].key = a, ![i].setting = b]
            = [s EXCEPT ![i] = [s[i] EXCEPT !.key = a, !.setting = b]]
         /\ [s EXCEPT ![i].key = a, ![i].setting = b, ![i].grants = c]
            = [s EXCEPT ![i] = [s[i] EXCEPT !.key = a, !.setting = b, !.grants = c]]
  OBVIOUS

(***************************************************************************)
(* What steps of the lifecycle look like to the controllers.               *)
(***************************************************************************)

\* A step of the reconciler's shape is a step of the lifecycle.
LEMMA StepsOfLifecycle ==
  ASSUME NEW before, NEW after, Held = before, Held' = after, HoldsStep(before, after)
  PROVE  [Lifecycle!LifecycleNext]_(Lifecycle!lifecycleVars)
<1> USE DEF HoldsStep, Lifecycle!LifecycleNext
<1>1. CASE after = before /\ Stage' = Stage
  BY <1>1 DEF Lifecycle!lifecycleVars
<1>2. CASE after = before /\ Stage = "live" /\ Stage' = "deleting"
  BY <1>2 DEF Lifecycle!RequestDeletion
<1>3. CASE after = before /\ Stage \in {"live", "deleting"} /\ Stage' = "gone" /\ before = {}
  BY <1>3 DEF Lifecycle!RequestDeletion, Lifecycle!Release
<1>4. CASE Stage' = Stage /\ before # {} /\ after = {}
  BY <1>4 DEF Lifecycle!ResourceVanishes
<1>5. CASE Stage' = Stage /\ Stage # "gone" /\ before = {} /\ \E id : after = {id}
  BY <1>5 DEF Lifecycle!CreateResource, Stage
<1>6. QED  BY <1>1, <1>2, <1>3, <1>4, <1>5

\* What is held may be given by its value.
LEMMA AttachedSubst ==
  ASSUME NEW after, Held' = after, Attached(after)'
  PROVE  Attached(Held)'
  BY DEF Attached, Findable, AtMostOne, NothingToFind

(***************************************************************************)
(* The reconciler, the informer, the user and a crash.                     *)
(***************************************************************************)

\* They change no item and know of no patch.
LEMMA RuntimeKeeps ==
  ASSUME IInv,
         \/ ReconcilerStep(TRUE) /\ UNCHANGED serviceVars
         \/ CacheSync /\ UNCHANGED serviceVars
         \/ Crash \/ UserStep
  PROVE  IInv' /\ [Lifecycle!LifecycleNext]_(Lifecycle!lifecycleVars)
<1> PICK held : held = Held
  OBVIOUS
<1>1. /\ TypeOK /\ kind \in Kinds /\ Attached(held) /\ items \in Seq(Item)
      /\ None \notin held /\ None \notin Parameters
      /\ RuntimeTypeOK(Object, {"patch"})
  BY ParameterTypes, HeldNowAndThen, ItemTypes DEF IInv, TypeOK
<1>2. UNCHANGED <<kind, items>>
  BY DEF serviceVars, Crash, UserStep
<1>3. Held' = held /\ Parameters' = Parameters
  BY <1>2, HeldNowAndThen DEF Parameters
<1>4. RuntimeTypeOK(Object, {"patch"})' /\ Attached(held)' /\ HoldsStep(held, held)
  <2> PICK specs : specs = Parameters
    OBVIOUS
  <2> DEFINE names == Nat \cup Keys \cup {MetaName}
  <2>1. Object = Objects(names, {}, Nat, specs) /\ Object' = Object
    BY <1>3
  <2>2. RuntimeTypeOK(Objects(names, {}, Nat, specs), {"patch"})
    BY <1>1
  <2> HIDE DEF names
  <2>3. CASE ReconcilerStep(TRUE) \/ CacheSync
    <3>1. RuntimeTypeOK(Objects(names, {}, Nat, specs), {"patch"})'
      BY <2>2, <2>3, RuntimeTypes DEF names
    <3>2. Attached(held)' /\ HoldsStep(held, held)
      BY <1>1, <2>2, <2>3, RuntimeAttaches
    <3>3. QED  BY <1>3, <3>1, <3>2 DEF names
  <2>4. CASE Crash \/ UserStep
    <3>1. (\E p \in specs : EditSpec(p)) \/ RequestDelete \/ Abort
      BY <2>4 DEF Crash, UserStep
    <3>2. RuntimeTypeOK(Objects(names, {}, Nat, specs), {"patch"})'
      BY <2>2, <3>1, OutsideTypes
    <3>3. Attached(held)' /\ HoldsStep(held, held)
      BY <1>1, <2>2, <3>1, OutsideAttaches
    <3>4. QED  BY <1>3, <3>2, <3>3 DEF names
  <2>5. QED  BY <2>3, <2>4
<1>5. IF pc' = "patch" THEN patch' \in Patch ELSE patch' = None
  <2>1. CASE ReconcilerStep(TRUE) /\ UNCHANGED serviceVars
    BY <1>1, <2>1, RuntimeSteps DEF TypeOK, serviceVars
  <2>2. CASE Crash
    BY <2>2 DEF Crash, Abort
  <2>3. CASE (CacheSync /\ UNCHANGED serviceVars) \/ UserStep
    <3>1. UNCHANGED <<pc, patch>>
      BY <2>3 DEF CacheSync, UserStep, RequestDelete, EditSpec, serviceVars
    <3>2. QED  BY <1>1, <3>1 DEF TypeOK
  <2>4. QED  BY <2>1, <2>2, <2>3
<1>6. TypeOK'
  BY <1>1, <1>2, <1>4, <1>5 DEF TypeOK
<1>7. QED
  BY <1>3, <1>4, <1>6, AttachedSubst, StepsOfLifecycle DEF IInv

(***************************************************************************)
(* What is to be shown of each handler: it treats what is held as          *)
(* HandlerStep says, and the types stand.                                  *)
(***************************************************************************)
LEMMA HandlerKeeps ==
  ASSUME IInv, NEW held, NEW after, held = Held, after = Held', HandlerStep(held, after),
         mem' \in Object, UNCHANGED <<edits, kind>>, faults' \in Nat,
         pc' \in Observed \cup {"create", "created", "createFailed", "patch", "status"},
         items' \in Seq(Item),
         IF pc' = "patch" THEN patch' \in Patch ELSE patch' = None
  PROVE  IInv' /\ [Lifecycle!LifecycleNext]_(Lifecycle!lifecycleVars)
<1>1. UNCHANGED <<api, cache, fresh>> /\ Object' = Object
  BY DEF HandlerStep, Parameters
<1>2. TypeOK'
  BY <1>1 DEF IInv, TypeOK, RuntimeTypeOK
<1>3. Attached(after)' /\ HoldsStep(held, after)
  BY HandlerAttaches DEF IInv
<1>4. QED
  BY <1>2, <1>3, AttachedSubst, StepsOfLifecycle DEF IInv

\* What the handlers work with.
LEMMA HandlerTypes ==
  ASSUME IInv
  PROVE  /\ kind \in Kinds /\ Attached(Held) /\ mem \in Object /\ items \in Seq(Item)
         /\ pc # "idle" => mem.spec \in Parameters /\ mem.spec \in IdentityParameters
         /\ faults \in Nat /\ edits \in Nat
         /\ pc # "patch" => patch = None
         /\ pc = "patch" => patch \in Patch
<1>1. TypeOK /\ Attached(Held) /\ mem \in Object
  BY DEF IInv, TypeOK, RuntimeTypeOK
<1>2. pc # "idle" => mem.exists /\ mem.spec # None
  BY <1>1 DEF Attached, HeldWhileCreating, Specified
<1>3. mem.spec \in Parameters \cup {None}
  BY <1>1, FieldTypes
<1>4. kind \in Kinds
  BY <1>1 DEF TypeOK
<1>5. QED  BY <1>1, <1>2, <1>3, <1>4, ParameterTypes DEF TypeOK, RuntimeTypeOK

\* What they find under the CR's external-name, and what is not held if they find
\* nothing.
LEMMA HereTypes ==
  ASSUME items \in Seq(Item)
  PROVE  /\ ~Absent => /\ Here \in Ids /\ Here \in Nat /\ items[Here] \in Item
                       /\ items[Here].there /\ Identity(Here) = mem.name
         /\ Absent => mem.name \notin Held
<1>1. ~Absent => Here \in Found(mem.name)
  BY DEF Absent, Here
<1>2. Absent => mem.name \notin Held
  BY DEF Absent, Found, Held, Kept
<1>3. QED  BY <1>1, <1>2, ItemTypes DEF Found

\* Observe changes no item and reports as missing only what it looked for under
\* the CR's external-name.
LEMMA ObserveKeeps ==
  ASSUME IInv, NEW refused, NEW same, ObserveItem(refused, same)
  PROVE  IInv' /\ [Lifecycle!LifecycleNext]_(Lifecycle!lifecycleVars)
<1> PICK held : held = Held
  OBVIOUS
<1>1. /\ UNCHANGED <<api, cache, fresh, edits, kind, items, patch>>
      /\ pc = "observe" /\ pc' \in Observed \cup {"status"} /\ faults' \in Nat
      /\ \/ mem' = mem /\ pc' = "status"
         \/ (Absent \/ pc' # "missing") /\ mem' = [mem EXCEPT !.status = None]
         \/ ~Absent /\ mem' = [mem EXCEPT !.status = Here] /\ pc' # "missing"
  BY HandlerTypes DEF ObserveItem, ObserveReturns, serviceVars
<1>2. /\ mem \in Object /\ items \in Seq(Item) /\ patch = None
      /\ ~Absent => Here \in Nat
      /\ Absent => mem.name \notin held
  BY <1>1, HandlerTypes, HereTypes
<1>3. Held' = held
  BY <1>1, HeldNowAndThen
<1>4. /\ mem' \in Object /\ mem'.name = mem.name
      /\ mem'.exists = mem.exists /\ mem'.fin = mem.fin /\ mem'.del = mem.del
      /\ mem'.create = mem.create /\ mem'.spec = mem.spec
  <2>1. ASSUME NEW status \in Nat \cup {None}, mem' = [mem EXCEPT !.status = status]
        PROVE  /\ mem' \in Object /\ mem'.name = mem.name
               /\ mem'.exists = mem.exists /\ mem'.fin = mem.fin /\ mem'.del = mem.del
               /\ mem'.create = mem.create /\ mem'.spec = mem.spec
    <3>1. mem' \in Object
      BY <1>2, <2>1, ObjectTypes
    <3>2. QED  BY <1>2, <2>1, <3>1 DEF Objects
  <2>2. CASE mem' = mem
    BY <1>2, <2>2
  <2>3. QED  BY <1>1, <1>2, <2>1, <2>2
<1>5. pc' = "missing" => mem.name \notin held
  BY <1>1, <1>2
<1>6. HandlerStep(held, held)
  BY <1>1, <1>4, <1>5 DEF HandlerStep, Creating
<1>7. QED
  BY <1>1, <1>2, <1>3, <1>4, <1>6, HandlerKeeps

\* Create comes to hold at most what it puts on the CR.
LEMMA CreateKeeps ==
  ASSUME IInv, NEW again, CreateItem(again)
  PROVE  IInv' /\ [Lifecycle!LifecycleNext]_(Lifecycle!lifecycleVars)
<1> PICK held, after : held = Held /\ after = Held'
  OBVIOUS
<1> DEFINE p == mem.spec
           made == IF Taken(p.key) = {} THEN Append(items, NewItem(p)) ELSE items
           id == CHOOSE i \in DOMAIN made : made[i].there /\ made[i].key = p.key
           named == [mem EXCEPT !.name = IF kind = "groupmembership" THEN p.key ELSE id,
                                !.status = id]
           heard == [made EXCEPT ![id].heard = TRUE]
           unsent == [mem EXCEPT !.name = p.key, !.status = None]
<1>1. pc = "create" /\ UNCHANGED <<api, cache, fresh, edits, kind, patch>>
  BY DEF CreateItem
<1>2. /\ Attached(held) /\ mem \in Object /\ items \in Seq(Item) /\ patch = None
      /\ p \in IdentityParameters /\ faults \in Nat
  BY <1>1, HandlerTypes
<1>3. held = {} /\ HeldIn(items) = {}
  BY <1>1, <1>2, HeldNowAndThen DEF Attached, NothingToFind
<1>4. /\ made \in Seq(Item) /\ HeldIn(made) = {}
      /\ id \in DOMAIN made /\ made[id].key = p.key
  <2>1. CASE Taken(p.key) = {}
    <3> PICK q, n : q = NewItem(p) /\ n = Len(items) + 1
      OBVIOUS
    <3>1. q \in Item /\ ~q.heard /\ q.there /\ q.key = p.key
      BY <1>2, NewItemTypes
    <3>2. made = Append(items, q)
      BY <2>1
    <3>3. made \in Seq(Item) /\ HeldIn(made) = {}
      BY <1>2, <1>3, <3>1, <3>2, OneMore
    <3>4. n \in DOMAIN made /\ made[n] = q
      BY <1>2, <3>1, <3>2, Appended
    <3> HIDE DEF made
    <3>5. \E i \in DOMAIN made : made[i].there /\ made[i].key = p.key
      BY <3>1, <3>4
    <3>6. id \in DOMAIN made /\ made[id].key = p.key
      BY <3>5
    <3>7. QED  BY <3>3, <3>6
  <2>2. CASE Taken(p.key) # {}
    <3>1. PICK j \in Ids : items[j].there /\ items[j].key = p.key
      BY <2>2 DEF Taken
    <3>2. QED  BY <1>2, <1>3, <2>2, <3>1
  <2>3. QED  BY <2>1, <2>2
<1>5. /\ faults' \in Nat
      /\ \/ pc' \in {"create", "createFailed"} /\ items' \in {items, made} /\ mem' = mem
         \/ pc' = "created" /\ items' = heard /\ mem' = named
         \/ pc' = "created" /\ items' = items /\ mem' = unsent
  <2>1. faults' = faults \/ faults' = faults + 1
    BY Zenon DEF CreateItem
  <2>2. \/ pc' \in {"create", "createFailed"} /\ items' \in {items, made} /\ mem' = mem
        \/ pc' = "created" /\ items' = heard /\ mem' = named
        \/ pc' = "created" /\ items' = items /\ mem' = unsent
    BY Zenon DEF CreateItem
  <2> HIDE DEF made, named, heard, unsent
  <2>3. QED  BY <1>2, <2>1, <2>2
<1> HIDE DEF p, made, id
<1>6. /\ id \in Nat /\ IdentityIn(made, id) \in Nat \cup Keys
      /\ named = [mem EXCEPT !.name = IdentityIn(made, id), !.status = id]
  <2>1. id \in Nat /\ made[id].key \in Keys
    BY <1>4, ItemTypes
  <2>2. IdentityIn(made, id) = IF kind = "groupmembership" THEN p.key ELSE id
    BY <1>4 DEF IdentityIn
  <2>3. QED  BY <1>4, <2>1, <2>2
<1>7. heard \in Seq(Item) /\ HeldIn(heard) \subseteq {IdentityIn(made, id)}
  BY <1>4, OneHeard
<1> HIDE DEF named, heard
<1>8. CASE pc' \in {"create", "createFailed"} /\ items' \in {items, made} /\ mem' = mem
  <2>1. items' \in Seq(Item) /\ after = {}
    BY <1>1, <1>2, <1>3, <1>4, <1>8, HeldNowAndThen
  <2>2. HandlerStep(held, after)
    BY <1>1, <1>8, <2>1 DEF HandlerStep, Creating
  <2>3. QED  BY <1>1, <1>2, <1>5, <1>8, <2>1, <2>2, HandlerKeeps
<1>9. CASE pc' = "created" /\ items' = heard /\ mem' = named
  <2> PICK name : name = IdentityIn(made, id)
    OBVIOUS
  <2>1. items' \in Seq(Item) /\ after \subseteq {name}
    BY <1>1, <1>7, <1>9, HeldNowAndThen
  <2>2. mem' \in Object
    BY <1>2, <1>6, <1>9, ObjectTypes
  <2>3. /\ mem'.name = name
        /\ mem'.exists = mem.exists /\ mem'.fin = mem.fin /\ mem'.del = mem.del
        /\ mem'.create = mem.create /\ mem'.spec = mem.spec
    BY <1>2, <1>6, <1>9 DEF Objects
  <2>4. HandlerStep(held, after)
    BY <1>1, <1>3, <1>9, <2>1, <2>3 DEF HandlerStep, Creating
  <2>5. QED  BY <1>1, <1>2, <1>5, <1>9, <2>1, <2>2, <2>4, HandlerKeeps
<1>10. CASE pc' = "created" /\ items' = items /\ mem' = unsent
  <2>1. after = {}
    BY <1>1, <1>3, <1>10, HeldNowAndThen
  <2>2. unsent \in Object
    BY <1>2, ObjectTypes DEF p, Objects, IdentityParameters
  <2>3. /\ mem'.exists = mem.exists /\ mem'.fin = mem.fin /\ mem'.del = mem.del
        /\ mem'.create = mem.create /\ mem'.spec = mem.spec
    BY <1>2, <1>10, <2>2 DEF Objects
  <2> HIDE DEF unsent
  <2>4. HandlerStep(held, after)
    BY <1>1, <1>3, <1>10, <2>1, <2>3 DEF HandlerStep, Creating
  <2>5. QED  BY <1>1, <1>2, <1>5, <1>10, <2>1, <2>2, <2>4, HandlerKeeps
<1>11. QED  BY <1>5, <1>8, <1>9, <1>10

\* Update and Delete leave the CR alone and come to hold nothing.
LEMMA QuietKeeps ==
  ASSUME IInv, pc \in {"current", "stale", "patch"}, pc' \in {"patch", "status"},
         UNCHANGED <<api, cache, mem, fresh, edits, kind>>, faults' \in Nat,
         items' \in Seq(Item), HeldIn(items') \subseteq HeldIn(items),
         IF pc' = "patch" THEN patch' \in Patch ELSE patch' = None
  PROVE  IInv' /\ [Lifecycle!LifecycleNext]_(Lifecycle!lifecycleVars)
<1> PICK held, after : held = Held /\ after = Held'
  OBVIOUS
<1>1. after \subseteq held
  BY HeldNowAndThen
<1>2. HandlerStep(held, after)
  BY <1>1 DEF HandlerStep, Creating
<1>3. mem' \in Object
  BY HandlerTypes
<1>4. QED  BY <1>2, <1>3, HandlerKeeps

\* Delete takes away at most what is under the CR's external-name.
LEMMA DeleteKeeps ==
  ASSUME IInv, DeleteItem
  PROVE  IInv' /\ [Lifecycle!LifecycleNext]_(Lifecycle!lifecycleVars)
<1>1. /\ pc \in {"current", "stale"} /\ pc' = "status"
      /\ UNCHANGED <<api, cache, mem, fresh, edits, kind, patch>>
  BY DEF DeleteItem, MayDelete
<1>2. items \in Seq(Item) /\ faults \in Nat /\ patch = None
  BY <1>1, HandlerTypes
<1>3. /\ faults' \in Nat
      /\ \/ items' = items
         \/ ~Absent /\ items' = [items EXCEPT ![Here].there = FALSE]
  BY <1>2 DEF DeleteItem
<1>4. CASE items' = items
  BY <1>1, <1>2, <1>3, <1>4, QuietKeeps
<1>5. CASE ~Absent /\ items' = [items EXCEPT ![Here].there = FALSE]
  <2> PICK i, q : i = Here /\ q = [items[i] EXCEPT !.there = FALSE]
    OBVIOUS
  <2>1. i \in DOMAIN items /\ items[i] \in Item
    BY <1>2, <1>5, HereTypes
  <2>2. q \in Item
    BY <2>1, ItemChanges
  <2>3. q.owner = items[i].owner /\ q.heard = items[i].heard /\ q.key = items[i].key /\ ~q.there
    BY <2>1 DEF Item
  <2>4. items' = [items EXCEPT ![i] = q]
    BY <1>5
  <2>5. items' \in Seq(Item) /\ HeldIn(items') \subseteq HeldIn(items)
    BY <1>2, <2>1, <2>2, <2>3, <2>4, OneChanges
  <2>6. QED  BY <1>1, <1>2, <1>3, <2>5, QuietKeeps
<1>6. QED  BY <1>3, <1>4, <1>5

\* An update of a group changes its name and description.
LEMMA UpdateGroupKeeps ==
  ASSUME IInv, kind = "group", UpdateGroup
  PROVE  IInv' /\ [Lifecycle!LifecycleNext]_(Lifecycle!lifecycleVars)
<1> DEFINE p == mem.spec
           changed == [items EXCEPT ![Here].key = p.key, ![Here].setting = p.setting]
<1>1. /\ pc = "stale" /\ pc' = "status"
      /\ UNCHANGED <<api, cache, mem, fresh, edits, kind, patch>>
  BY DEF UpdateGroup, MayUpdate
<1>2. /\ items \in Seq(Item) /\ faults \in Nat /\ patch = None
      /\ p.key \in Keys /\ p.setting \in Values \cup {None}
  BY <1>1, HandlerTypes DEF IdentityParameters
<1>3. /\ faults' \in Nat
      /\ items' = items \/ (~Absent /\ items' = changed)
  <2>1. faults' = faults \/ faults' = faults + 1
    BY DEF UpdateGroup
  <2>2. items' = items \/ (~Absent /\ items' = changed)
    BY Zenon DEF UpdateGroup
  <2> HIDE DEF changed
  <2>3. QED  BY <1>2, <2>1, <2>2
<1>4. CASE items' = items
  BY <1>1, <1>2, <1>3, <1>4, QuietKeeps
<1>5. CASE ~Absent /\ items' = changed
  <2> PICK i, q : i = Here /\ q = [items[i] EXCEPT !.key = p.key, !.setting = p.setting]
    OBVIOUS
  <2>1. i \in DOMAIN items /\ items[i] \in Item
    BY <1>2, <1>5, HereTypes
  <2>2. q \in Item
    BY <1>2, <2>1, ItemChanges
  <2>3. q.owner = items[i].owner /\ q.heard = items[i].heard /\ (q.there => items[i].there)
    BY <2>1 DEF Item
  <2>4. items' = [items EXCEPT ![i] = q]
    BY <1>2, <1>5, <2>1, Rewritten
  <2>5. items' \in Seq(Item) /\ HeldIn(items') \subseteq HeldIn(items)
    BY <1>2, <2>1, <2>2, <2>3, <2>4, OneChanges
  <2>6. QED  BY <1>1, <1>2, <1>3, <2>5, QuietKeeps
<1>6. QED  BY <1>3, <1>4, <1>5

\* The patch of a user is made for the level the spec asks for and for projects.
LEMMA ReadKeeps ==
  ASSUME IInv, kind = "userentitlement", ReadUserEntitlement
  PROVE  IInv' /\ [Lifecycle!LifecycleNext]_(Lifecycle!lifecycleVars)
<1>1. /\ pc = "stale" /\ pc' \in {"patch", "status"}
      /\ UNCHANGED <<api, cache, mem, fresh, edits, kind, items>>
      /\ \/ pc' = "status" /\ patch' = patch
         \/ pc' = "patch" /\ patch' = PatchForUpdate(mem.spec, It)
  BY DEF ReadUserEntitlement, MayUpdate
<1>2. items \in Seq(Item) /\ faults \in Nat /\ patch = None /\ mem.spec.setting \in Values
  BY <1>1, HandlerTypes, ParameterTypes
<1>3. faults' \in Nat
  BY <1>2 DEF ReadUserEntitlement
<1>4. PatchForUpdate(mem.spec, It) \in Patch
  BY <1>2 DEF PatchForUpdate, Patch, AddProjectEntitlementOps, RemoveProjectEntitlementOps
<1>5. QED  BY <1>1, <1>2, <1>3, <1>4, QuietKeeps

\* Sending it changes the user's level and assignments.
LEMMA SendKeeps ==
  ASSUME IInv, kind = "userentitlement", SendUserEntitlementPatch
  PROVE  IInv' /\ [Lifecycle!LifecycleNext]_(Lifecycle!lifecycleVars)
<1> PICK q : q = Patched(It, mem.spec)
  OBVIOUS
<1>1. /\ pc = "patch" /\ pc' = "status" /\ patch' = None
      /\ UNCHANGED <<api, cache, mem, fresh, edits, kind>>
  BY DEF SendUserEntitlementPatch
<1>2. items \in Seq(Item) /\ faults \in Nat /\ patch \in Patch /\ mem.spec \in IdentityParameters
  BY <1>1, HandlerTypes
<1>3. /\ faults' \in Nat
      /\ items' = items \/ (~Absent /\ items' = [items EXCEPT ![Here] = q])
  BY <1>2 DEF SendUserEntitlementPatch
<1>4. CASE items' = items
  BY <1>1, <1>2, <1>3, <1>4, QuietKeeps
<1>5. CASE ~Absent /\ items' = [items EXCEPT ![Here] = q]
  <2> PICK i : i = Here
    OBVIOUS
  <2>1. i \in DOMAIN items /\ items[i] \in Item /\ It = items[i]
    BY <1>2, <1>5, HereTypes DEF It
  <2> DEFINE grants == [project \in Projects |->
                         CASE project \in patch.remove -> None
                           [] project \in patch.add \ patch.remove -> mem.spec.grants[project]
                           [] OTHER -> items[i].grants[project]]
  <2>2. grants \in Grants
    <3>1. items[i].grants \in Grants /\ mem.spec.grants \in Grants
      BY <1>2, <2>1 DEF Item, IdentityParameters
    <3>2. ASSUME NEW project \in Projects
          PROVE  /\ items[i].grants[project] \in GroupTypes \cup {None}
                 /\ mem.spec.grants[project] \in GroupTypes \cup {None}
      BY <3>1 DEF Grants
    <3>3. QED  BY <3>2 DEF Grants
  <2>3. patch.level \in Values
    BY <1>2 DEF Patch
  <2>4. q = [items[i] EXCEPT !.setting = patch.level, !.grants = grants]
    BY <2>1 DEF Patched
  <2> HIDE DEF grants
  <2>5. q \in Item
    BY <2>1, <2>2, <2>3, <2>4 DEF Item
  <2>6. q.owner = items[i].owner /\ q.heard = items[i].heard /\ (q.there => items[i].there)
    BY <2>1, <2>4 DEF Item
  <2>7. items' \in Seq(Item) /\ HeldIn(items') \subseteq HeldIn(items)
    BY <1>2, <1>5, <2>1, <2>5, <2>6, OneChanges
  <2>8. QED  BY <1>1, <1>2, <1>3, <2>7, QuietKeeps
<1>6. QED  BY <1>3, <1>4, <1>5

\* So each of the three controllers keeps the invariant.
LEMMA KindsKeep ==
  ASSUME IInv, Group \/ GroupMembership \/ UserEntitlement
  PROVE  IInv' /\ [Lifecycle!LifecycleNext]_(Lifecycle!lifecycleVars)
<1>1. CASE Group
  BY <1>1, ObserveKeeps, CreateKeeps, UpdateGroupKeeps, DeleteKeeps
     DEF Group, ObserveGroup, CreateGroup
<1>2. CASE GroupMembership
  BY <1>2, ObserveKeeps, CreateKeeps, DeleteKeeps
     DEF GroupMembership, ObserveGroupMembership, CreateGroupMembership
<1>3. CASE UserEntitlement
  BY <1>3, ObserveKeeps, CreateKeeps, ReadKeeps, SendKeeps, DeleteKeeps
     DEF UserEntitlement, ObserveUserEntitlement, CreateUserEntitlement, UpdateUserEntitlement
<1>4. QED  BY <1>1, <1>2, <1>3

(***************************************************************************)
(* The administrators add what is nobody's here, take items away or change *)
(* them.                                                                   *)
(***************************************************************************)
LEMMA AdminKeeps ==
  ASSUME IInv, AdminStep
  PROVE  IInv' /\ [Lifecycle!LifecycleNext]_(Lifecycle!lifecycleVars)
<1> PICK held, after : held = Held /\ after = Held'
  OBVIOUS
<1>1. /\ UNCHANGED <<api, cache, mem, fresh, pc, faults, kind, patch>> /\ edits' \in Nat
      /\ Object' = Object
  <2>1. UNCHANGED <<api, cache, mem, fresh, pc, faults, kind, patch>> /\ edits' = edits + 1
    BY DEF AdminStep
  <2>2. Object' = Object
    BY <2>1 DEF Parameters
  <2>3. QED  BY <2>1, <2>2, HandlerTypes
<1>2. TypeOK /\ Attached(held) /\ items \in Seq(Item) /\ kind \in Kinds
  BY HandlerTypes DEF IInv
<1>3. Parameters \subseteq IdentityParameters
  BY <1>2, ParameterTypes
<1>4. ASSUME NEW p \in Parameters, items' = Append(items, ForeignItem(p, "others"))
      PROVE  items' \in Seq(Item) /\ HeldIn(items') \subseteq HeldIn(items)
  <2> PICK q : q = ForeignItem(p, "others")
    OBVIOUS
  <2>1. q \in Item /\ q.owner = "others"
    BY <1>3, <1>4, NewItemTypes
  <2>2. QED  BY <1>2, <1>4, <2>1, OneMore
<1>5. ASSUME NEW i \in Ids, items' = [items EXCEPT ![i].there = FALSE]
      PROVE  items' \in Seq(Item) /\ HeldIn(items') \subseteq HeldIn(items)
  <2> PICK q : q = [items[i] EXCEPT !.there = FALSE]
    OBVIOUS
  <2>1. items[i] \in Item
    BY <1>2, ItemTypes
  <2>2. q \in Item
    BY <2>1, ItemChanges
  <2>3. q.owner = items[i].owner /\ q.heard = items[i].heard /\ q.key = items[i].key /\ ~q.there
    BY <2>1 DEF Item
  <2>4. items' = [items EXCEPT ![i] = q]
    BY <1>5
  <2>5. QED  BY <1>2, <2>2, <2>3, <2>4, OneChanges
<1>6. ASSUME NEW i \in Ids, NEW p \in Parameters, items[i].there,
             p.key = items[i].key \/ kind = "group",
             items' = [items EXCEPT ![i].key = p.key, ![i].setting = p.setting,
                                    ![i].grants = p.grants]
      PROVE  items' \in Seq(Item) /\ HeldIn(items') \subseteq HeldIn(items)
  <2> PICK q : q = [items[i] EXCEPT !.key = p.key, !.setting = p.setting, !.grants = p.grants]
    OBVIOUS
  <2>1. items[i] \in Item
    BY <1>2, ItemTypes
  <2>2. p.key \in Keys /\ p.setting \in Values \cup {None} /\ p.grants \in Grants
    BY <1>3 DEF IdentityParameters
  <2>3. q \in Item
    BY <2>1, <2>2, ItemChanges
  <2>4. /\ q.owner = items[i].owner /\ q.heard = items[i].heard
        /\ (q.there => items[i].there) /\ q.key = p.key
    BY <1>6, <2>1 DEF Item
  <2>5. items' = [items EXCEPT ![i] = q]
    BY <1>2, <1>6, Rewritten
  <2>6. kind = "groupmembership" => q.key = items[i].key
    BY <1>6, <2>4
  <2>7. QED  BY <1>2, <2>3, <2>4, <2>5, <2>6, OneChanges
<1>7. items' \in Seq(Item) /\ HeldIn(items') \subseteq HeldIn(items)
  BY <1>4, <1>5, <1>6 DEF AdminStep
<1>8. after \subseteq held
  BY <1>1, <1>7, HeldNowAndThen
<1>9. Attached(after)' /\ HoldsStep(held, after)
  BY <1>1, <1>2, <1>8, LossAttaches
<1>10. TypeOK'
  BY <1>1, <1>2, <1>7 DEF TypeOK, RuntimeTypeOK
<1>11. QED
  BY <1>9, <1>10, AttachedSubst, StepsOfLifecycle DEF IInv

\* A CR that was just applied has at most what its user named.
LEMMA InitKeeps ==
  ASSUME Init
  PROVE  IInv /\ Lifecycle!LifecycleInit
<1>1. kind \in Kinds /\ patch = None /\ pc = "idle"
  BY DEF Init, RuntimeInit
<1>2. Parameters \subseteq IdentityParameters /\ None \notin Parameters
  BY <1>1, ParameterTypes
<1> PICK specs, names : specs = Parameters /\ names = Nat \cup Keys \cup {MetaName}
  OBVIOUS
<1>3. /\ items \in Seq(Item) /\ \A i \in Ids : items[i].owner = "named"
      /\ \E p \in specs, n \in names \cup {None} : RuntimeInit({NewObject(p, n)})
  <2>1. \/ /\ items = <<>>
           /\ \E p \in specs : \/ RuntimeInit({NewObject(p, None)})
                               \/ RuntimeInit({NewObject(p, 0)})
                               \/ RuntimeInit({NewObject(p, p.key)})
        \/ \E p \in specs, q \in specs :
             /\ items = <<ForeignItem(p, "named")>>
             /\ RuntimeInit({NewObject(q, Identity(1))})
    BY DEF Init, RuntimeInit
  <2>2. CASE /\ items = <<>>
             /\ \E p \in specs : \/ RuntimeInit({NewObject(p, None)})
                                 \/ RuntimeInit({NewObject(p, 0)})
                                 \/ RuntimeInit({NewObject(p, p.key)})
    <3>1. items \in Seq(Item) /\ Ids = {}
      BY <2>2
    <3>2. \A p \in specs : p.key \in names
      BY <1>2 DEF IdentityParameters
    <3>3. QED  BY <2>2, <3>1, <3>2
  <2>3. ASSUME NEW p \in specs, NEW q \in specs,
               items = <<ForeignItem(p, "named")>>, RuntimeInit({NewObject(q, Identity(1))})
        PROVE  <1>3
    <3> PICK item : item = ForeignItem(p, "named")
      OBVIOUS
    <3>1. item \in Item /\ item.owner = "named" /\ item.key \in Keys
      BY <1>2, NewItemTypes DEF Item
    <3>2. items \in Seq(Item) /\ Ids = {1} /\ items[1] = item
      BY <2>3, <3>1
    <3>3. Identity(1) \in names
      BY <3>1, <3>2 DEF Identity
    <3>4. QED  BY <2>3, <3>1, <3>2, <3>3
  <2>4. QED  BY <2>1, <2>2, <2>3
<1>4. RuntimeTypeOK(Object, {"patch"}) /\ Attached({}) /\ Stage = "live"
  <2>1. PICK p \in specs, n \in names \cup {None} : RuntimeInit({NewObject(p, n)})
    BY <1>3
  <2>2. /\ RuntimeTypeOK(Objects(names, {}, Nat, specs), {"patch"})
        /\ Attached({}) /\ Stage = "live"
    BY <1>2, <2>1, RuntimeStarts
  <2>3. QED  BY <2>2
<1>5. Held = {}
  BY <1>3 DEF Held, Kept
<1>6. TypeOK
  BY <1>1, <1>3, <1>4 DEF TypeOK
<1>7. QED
  BY <1>4, <1>5, <1>6 DEF IInv, Lifecycle!LifecycleInit

(***************************************************************************)
(* The invariant is inductive, and every step of the system is one of the  *)
(* lifecycle.                                                              *)
(***************************************************************************)
LEMMA StepKeeps ==
  ASSUME IInv, [Next]_vars
  PROVE  IInv' /\ [Lifecycle!LifecycleNext]_(Lifecycle!lifecycleVars)
<1>1. CASE UNCHANGED vars
  <2>1. UNCHANGED <<Stage, api, cache, mem, fresh, pc, edits, faults, kind, items, patch>>
    BY <1>1 DEF vars, runtimeVars, serviceVars, Stage
  <2>2. UNCHANGED <<Held, Object>>
    BY <2>1, HeldNowAndThen DEF Parameters
  <2>3. IInv'
    BY <2>1, <2>2 DEF IInv, TypeOK, RuntimeTypeOK, Attached, FreshCopy, HeldWhileCreating,
       DeletionSeen, Specified, Findable, AtMostOne, NothingToFind
  <2>4. QED  BY <2>1, <2>2, <2>3 DEF Lifecycle!lifecycleVars
<1>2. CASE Next
  BY <1>2, RuntimeKeeps, KindsKeep, AdminKeeps DEF Next, ControllerStep
<1>3. QED  BY <1>1, <1>2

(***************************************************************************)
(* The invariant holds in every reachable state.                           *)
(***************************************************************************)
THEOREM Inductive == Spec => []IInv
<1>1. QED  BY InitKeeps, StepKeeps, PTL DEF Spec

(***************************************************************************)
(* Every reachable state is well typed; a patch is there only between a    *)
(* read and the request that sends it.                                     *)
(***************************************************************************)
THEOREM TypeCorrect == Spec => []TypeOK
<1>1. IInv => TypeOK  BY DEF IInv
<1>2. QED  BY <1>1, Inductive, PTL

(***************************************************************************)
(* The three controllers implement the lifecycle: whatever fails, crashes, *)
(* is repeated or changed by others, they make one group, membership or    *)
(* user entitlement at a time and leave none behind.                       *)
(***************************************************************************)
THEOREM Implements == Spec => KeepsLifecycle
<1>1. QED
  BY InitKeeps, StepKeeps, Inductive, PTL DEF Spec, KeepsLifecycle, Lifecycle!LifecycleSpec

(***************************************************************************)
(* A CR that is gone has left no group, membership or user entitlement     *)
(* behind that its controller knew to have created, whatever crashed and   *)
(* however old its copies were.                                            *)
(***************************************************************************)
THEOREM LeakFree == Spec => [](~api.exists => Held = {})
<1>1. IInv => (~api.exists => Held = {})  BY NothingLeftBehind DEF IInv
<1>2. QED  BY <1>1, Inductive, PTL

(***************************************************************************)
(* One CR never holds two: not even when a read failed or a request was    *)
(* repeated and the CR was reconciled again.                               *)
(***************************************************************************)
THEOREM NoDouble == Spec => []AtMostOne(Held)
<1>1. IInv => AtMostOne(Held)  BY DEF IInv, Attached
<1>2. QED  BY <1>1, Inductive, PTL
=============================================================================

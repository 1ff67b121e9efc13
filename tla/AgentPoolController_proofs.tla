----------------------- MODULE AgentPoolController_proofs -----------------------
(***************************************************************************)
(* Proofs about AgentPoolController, for any sets of names and settings,   *)
(* any number of attempts, edits and faults and any number of pools.  Each *)
(* lemma about actions says that they keep the inductive invariant and     *)
(* that they are steps of ExternalLifecycle; the theorems follow.          *)
(***************************************************************************)
EXTENDS AgentPoolController, ManagedReconciler_proofs

USE DEF Fault, Edit, Finish, Observed, Numbers

(***************************************************************************)
(* Changing one pool, or adding one, leaves the others as they are.        *)
(***************************************************************************)
LEMMA ReplacePool ==
  ASSUME pools \in Seq(Pool), NEW i \in Numbers, NEW q \in Pool,
         pools' = [pools EXCEPT ![i] = q]
  PROVE  /\ pools' \in Seq(Pool) /\ Numbers' = Numbers
         /\ pools'[i] = q
         /\ \A j \in Numbers \ {i} : pools'[j] = pools[j]
  OBVIOUS

\* A pool that is added has the next number.
LEMMA AddPool ==
  ASSUME pools \in Seq(Pool), NEW q \in Pool, pools' = Append(pools, q)
  PROVE  /\ pools' \in Seq(Pool)
         /\ Len(pools') = Len(pools) + 1
         /\ Numbers' = Numbers \cup {Len(pools')}
         /\ Len(pools') \in Nat \ Numbers
         /\ pools'[Len(pools')] = q
         /\ \A j \in Numbers : pools'[j] = pools[j]
  OBVIOUS

\* Pools are of their type, and what is held is among the controller's own.
LEMMA PoolTypes ==
  ASSUME pools \in Seq(Pool)
  PROVE  /\ \A i \in Numbers : pools[i] \in Pool
         /\ Numbers \subseteq Nat \ {0}
         /\ Held \subseteq OwnNumbers /\ OwnNumbers \subseteq Numbers /\ None \notin Held
<1>1. (\A i \in Numbers : pools[i] \in Pool) /\ Numbers \subseteq Nat \ {0}
  OBVIOUS
<1>2. Held \subseteq OwnNumbers /\ OwnNumbers \subseteq Numbers
  BY DEF Held, OwnNumbers, Kept
<1>3. None \notin Nat
  BY AgentPoolAssumption
<1>4. QED  BY <1>1, <1>2, <1>3

\* A pool one of whose fields is changed is still a pool.
LEMMA PoolChanges ==
  ASSUME NEW q \in Pool
  PROVE  /\ [q EXCEPT !.there = FALSE] \in Pool
         /\ \A n \in PoolNames : [q EXCEPT !.name = n] \in Pool
         /\ \A f \in Flags : [q EXCEPT !.flag = f] \in Pool
         /\ [q EXCEPT !.heard = TRUE] \in Pool
  BY DEF Pool

\* The same of a pool whose creation the controller hears of at once.
LEMMA AddHeardPool ==
  ASSUME pools \in Seq(Pool), NEW q \in Pool, NEW made, made = Append(pools, q),
         pools' = [made EXCEPT ![Len(made)].heard = TRUE]
  PROVE  /\ pools' \in Seq(Pool)
         /\ Len(pools') = Len(pools) + 1
         /\ Numbers' = Numbers \cup {Len(pools')}
         /\ Len(pools') \in Nat \ Numbers
         /\ pools'[Len(pools')] = [q EXCEPT !.heard = TRUE]
         /\ \A j \in Numbers : pools'[j] = pools[j]
<1> PICK n, heard : n = Len(made) /\ heard = [q EXCEPT !.heard = TRUE]
  OBVIOUS
<1>1. heard \in Pool
  BY PoolChanges
<1>2. n = Len(pools) + 1
  BY Appended
<1>3. n \in DOMAIN made /\ made[n] = q /\ [made EXCEPT ![n] = heard] = Append(pools, heard)
  BY <1>1, <1>2, AppendedReplaced
<1>4. [made EXCEPT ![n].heard = TRUE] = [made EXCEPT ![n] = heard]
  BY <1>3
<1>5. pools' = Append(pools, heard)
  BY <1>3, <1>4
<1>6. QED  BY <1>1, <1>5, AddPool

\* Pools as the service makes them, for the controller or for others.
LEMMA NewPoolTypes ==
  ASSUME NEW n \in PoolNames, NEW f \in Flags
  PROVE  /\ NewPool(n, f) \in Pool
         /\ \A owner \in {"named", "others"} : ForeignPool(n, f, owner) \in Pool
  BY DEF NewPool, ForeignPool, Pool

(***************************************************************************)
(* A step of the reconciler's shape is a step of the lifecycle.            *)
(***************************************************************************)
LEMMA StepsOfLifecycle ==
  ASSUME NEW before, NEW after, Held = before, Held' = after, HoldsStep(before, after)
  PROVE  [Lifecycle!LifecycleNext]_(Lifecycle!lifecycleVars)
<1> USE DEF HoldsStep, Lifecycle!LifecycleNext
<1>1. CASE after = before /\ Stage' = Stage
  BY <1>1 DEF Lifecycle!lifecycleVars
<1>2. CASE after = before /\ Stage = "live" /\ Stage' = "deleting"
  BY <1>2 DEF Lifecycle!RequestDeletion
<1>3. CASE after = before /\ Stage \in {"live", "deleting"} /\ Stage' = "gone" /\ before = {}
  BY <1>3 DEF Lifecycle!RequestDeletion, Lifecycle!Release
<1>4. CASE Stage' = Stage /\ before # {} /\ after = {}
  BY <1>4 DEF Lifecycle!ResourceVanishes
<1>5. CASE Stage' = Stage /\ Stage # "gone" /\ before = {} /\ \E id : after = {id}
  BY <1>5 DEF Lifecycle!CreateResource, Stage
<1>6. QED  BY <1>1, <1>2, <1>3, <1>4, <1>5

\* The set of held pools may be given by its value.
LEMMA AttachedSubst ==
  ASSUME NEW after, Held' = after, Attached(after)'
  PROVE  Attached(Held)'
  BY DEF Attached, Findable, AtMostOne, NothingToFind

(***************************************************************************)
(* The reconciler, the informer, the user and a crash.                     *)
(***************************************************************************)
USE DEF Object

\* A CR whose numbers are the controller's own is one with smaller types.
LEMMA OwnTypes ==
  ASSUME NEW own
  PROVE  TypeOK /\ (\A object \in {api, cache, mem} : {object.name, object.status} \subseteq own \cup {None})
         => RuntimeTypeOK(Objects(own, {}, own, AgentPoolParameters), {"patch"})
  BY DEF TypeOK, RuntimeTypeOK, Objects

\* A reconcile has a CR at hand, with a spec.
LEMMA SpecTypes ==
  ASSUME TypeOK, Attached(Held), pc # "idle"
  PROVE  /\ mem.exists /\ mem.spec \in AgentPoolParameters
         /\ mem.spec.name \in PoolNames /\ mem.spec.flag \in Flags \cup {None}
<1>1. mem.exists /\ mem.spec # None
  BY DEF Attached, HeldWhileCreating, Specified
<1>2. mem.spec \in AgentPoolParameters \cup {None}
  BY FieldTypes DEF TypeOK, RuntimeTypeOK
<1>3. QED  BY <1>1, <1>2 DEF AgentPoolParameters

\* None of these touches a pool or puts a new number on the CR.
LEMMA RuntimeKeeps ==
  ASSUME IInv,
         \/ ReconcilerStep(TRUE) /\ UNCHANGED serviceVars
         \/ CacheSync /\ UNCHANGED serviceVars
         \/ Crash \/ UserStep
  PROVE  IInv' /\ [Lifecycle!LifecycleNext]_(Lifecycle!lifecycleVars)
<1> PICK held, own : held = Held /\ own = OwnNumbers \cup {MetaName, 0}
  OBVIOUS
<1>1. UNCHANGED pools /\ (tries' = tries \/ tries' = 0) /\ (patch' = patch \/ patch' = NoPatch)
  BY DEF Crash, UserStep, serviceVars
<1>2. Held' = held /\ OwnNumbers' = OwnNumbers
  BY <1>1 DEF Held, Kept, OwnNumbers
<1>3. /\ TypeOK /\ Attached(held) /\ None \notin held /\ None \notin AgentPoolParameters
      /\ pools \in Seq(Pool)
  BY PoolTypes, AgentPoolAssumption DEF IInv, TypeOK
<1>4. RuntimeTypeOK(Objects(own, {}, own, AgentPoolParameters), {"patch"})
  BY <1>3, OwnTypes DEF IInv, NamesOwn
<1>5. /\ RuntimeTypeOK(Object, {"patch"})'
      /\ RuntimeTypeOK(Objects(own, {}, own, AgentPoolParameters), {"patch"})'
      /\ Attached(held)' /\ HoldsStep(held, held)
  <2>1. CASE ReconcilerStep(TRUE) \/ CacheSync
    BY <1>3, <1>4, <2>1, RuntimeTypes, RuntimeAttaches DEF TypeOK
  <2>2. CASE (\E p \in AgentPoolParameters : EditSpec(p)) \/ RequestDelete \/ Abort
    BY <1>3, <1>4, <2>2, OutsideTypes, OutsideAttaches DEF TypeOK
  <2>3. QED  BY <2>1, <2>2 DEF Crash, UserStep
<1>6. PatchGiven'
  <2>1. CASE ReconcilerStep(TRUE)
    BY <2>1, RuntimeSteps DEF PatchGiven, Observed
  <2>2. CASE CacheSync /\ UNCHANGED serviceVars
    BY <2>2 DEF PatchGiven, CacheSync, IInv, serviceVars
  <2>3. CASE Crash
    BY <2>3 DEF PatchGiven, Crash, Abort
  <2>4. CASE UserStep
    BY <2>4 DEF PatchGiven, UserStep, EditSpec, RequestDelete, IInv, serviceVars
  <2>5. QED  BY <2>1, <2>2, <2>3, <2>4
<1>7. NamesOwn'
  BY <1>2, <1>5 DEF NamesOwn, RuntimeTypeOK, Objects
<1>8. TypeOK'
  BY <1>1, <1>3, <1>5, AgentPoolAssumption DEF TypeOK, NoPatch
<1>9. Attached(Held)' /\ [Lifecycle!LifecycleNext]_(Lifecycle!lifecycleVars)
  BY <1>2, <1>5, AttachedSubst, StepsOfLifecycle
<1>10. QED  BY <1>6, <1>7, <1>8, <1>9 DEF IInv

(***************************************************************************)
(* The handlers.  What is to be shown of each: it treats what is held as   *)
(* HandlerStep says, and the rest of the invariant stands.                 *)
(***************************************************************************)
LEMMA HandlerKeeps ==
  ASSUME IInv, NEW held, NEW after, held = Held, after = Held', HandlerStep(held, after),
         mem' \in Object, UNCHANGED edits, faults' \in Nat,
         pc' \in Observed \cup {"create", "created", "createFailed", "patch", "status"},
         pools' \in Seq(Pool), tries' \in 0 .. Attempts - 1,
         patch' \in [name : PoolNames \cup {None}, flag : Flags \cup {None}],
         OwnNumbers \subseteq OwnNumbers', PatchGiven',
         {mem'.name, mem'.status} \subseteq OwnNumbers' \cup {None, MetaName, 0}
  PROVE  IInv' /\ [Lifecycle!LifecycleNext]_(Lifecycle!lifecycleVars)
<1>1. UNCHANGED <<api, cache, fresh>>
  BY DEF HandlerStep
<1>2. TypeOK'
  BY <1>1 DEF IInv, TypeOK, RuntimeTypeOK
<1>3. NamesOwn'
  BY <1>1 DEF IInv, NamesOwn
<1>4. Attached(after)' /\ HoldsStep(held, after)
  BY HandlerAttaches DEF IInv
<1>5. QED
  BY <1>2, <1>3, <1>4, AttachedSubst, StepsOfLifecycle DEF IInv

\* Observe changes no pool and notes only a number that it was led by.
LEMMA ObserveKeeps ==
  ASSUME IInv, Observe
  PROVE  IInv' /\ [Lifecycle!LifecycleNext]_(Lifecycle!lifecycleVars)
<1> PICK held : held = Held
  OBVIOUS
<1> DEFINE i == AgentPoolIDFrom(mem)
<1>1. /\ UNCHANGED <<api, cache, fresh, edits, pools, tries, patch>>
      /\ pc = "observe" /\ pc' \in Observed \cup {"status"} /\ faults' \in Nat
      /\ \/ mem' = mem \/ mem' = [mem EXCEPT !.status = None]
         \/ Get(i) /\ mem' = [mem EXCEPT !.status = i]
      /\ pc' = "missing" => IsNumber(i) /\ ~Get(i)
  BY DEF Observe, ObserveReturns, serviceVars, IInv, TypeOK, RuntimeTypeOK
<1>2. Held' = held /\ OwnNumbers' = OwnNumbers
  BY <1>1 DEF Held, Kept, OwnNumbers
<1>3. /\ TypeOK /\ Attached(held) /\ mem \in Object /\ pools \in Seq(Pool)
      /\ {mem.name, mem.status} \subseteq OwnNumbers \cup {None, MetaName, 0}
  BY DEF IInv, TypeOK, RuntimeTypeOK, NamesOwn
<1>4. ASSUME Get(i)
      PROVE  /\ i \in OwnNumbers /\ i \in Nat
             /\ [mem EXCEPT !.status = i] \in Object
  <2>1. i \in Numbers /\ i \in {mem.name, mem.status}
    BY <1>4 DEF Get, AgentPoolIDFrom
  <2>2. i \in Nat \ {0} /\ i # None /\ i # MetaName
    BY <1>3, <2>1, PoolTypes, AgentPoolAssumption
  <2>3. QED  BY <1>3, <2>1, <2>2, ObjectTypes
<1>5. mem' \in Object /\ mem'.name = mem.name
      /\ {mem'.name, mem'.status} \subseteq OwnNumbers \cup {None, MetaName, 0}
      /\ mem'.exists = mem.exists /\ mem'.fin = mem.fin /\ mem'.del = mem.del
      /\ mem'.create = mem.create /\ mem'.spec = mem.spec
  <2>1. CASE mem' = mem
    BY <1>3, <2>1
  <2>2. CASE Get(i) /\ mem' = [mem EXCEPT !.status = i]
    BY <1>3, <1>4, <2>2 DEF Objects
  <2>3. CASE mem' = [mem EXCEPT !.status = None]
    <3>1. mem' \in Object
      BY <1>3, <2>3, ObjectTypes
    <3>2. QED  BY <1>3, <2>3, <3>1 DEF Objects
  <2>4. QED  BY <1>1, <2>1, <2>2, <2>3
<1>6. pc' = "missing" => mem.name \notin held
  BY <1>1, <1>3, PoolTypes DEF AgentPoolIDFrom, Get, Held, Kept
<1>7. HandlerStep(held, held)
  BY <1>1, <1>5, <1>6 DEF HandlerStep, Creating
<1>8. PatchGiven'
  BY <1>1 DEF PatchGiven
<1>9. QED
  BY <1>1, <1>2, <1>3, <1>5, <1>7, <1>8, HandlerKeeps DEF TypeOK

\* What a creation may make: one more pool, with the spec's name and setting.
LEMMA CreatedTypes ==
  ASSUME pools \in Seq(Pool), NEW p \in AgentPoolParameters, NEW made \in CreatedPools(p)
  PROVE  \E flag \in Flags : /\ NewPool(p.name, flag) \in Pool
                            /\ made = Append(pools, NewPool(p.name, flag))
  BY NewPoolTypes DEF CreatedPools, AgentPoolParameters

\* Create adds at most one pool, and its number to the CR when it hears of it.
LEMMA CreateKeeps ==
  ASSUME IInv, Create
  PROVE  IInv' /\ [Lifecycle!LifecycleNext]_(Lifecycle!lifecycleVars)
<1> PICK held : held = Held
  OBVIOUS
<1>1. /\ TypeOK /\ Attached(held) /\ mem \in Object /\ pools \in Seq(Pool)
      /\ {mem.name, mem.status} \subseteq OwnNumbers \cup {None, MetaName, 0}
      /\ pc = "create" /\ held = {} /\ mem.spec \in AgentPoolParameters
  BY SpecTypes DEF IInv, TypeOK, RuntimeTypeOK, NamesOwn, Create, Attached, NothingToFind
<1>2. /\ UNCHANGED <<api, cache, fresh, edits, patch>>
      /\ faults' \in Nat /\ tries' \in 0 .. Attempts - 1
      /\ patch \in [name : PoolNames \cup {None}, flag : Flags \cup {None}]
  BY AgentPoolAssumption DEF Create, IInv, TypeOK, RuntimeTypeOK
<1>3. PatchGiven'
  BY DEF Create, PatchGiven
<1>4. CASE /\ pc' \in {"create", "createFailed"} /\ mem' = mem
           /\ pools' \in {pools} \cup CreatedPools(mem.spec)
  <2>1. /\ pools' \in Seq(Pool) /\ Held' = {} /\ OwnNumbers \subseteq OwnNumbers'
    <3>1. CASE pools' = pools
      BY <1>1, <3>1 DEF Held, Kept, OwnNumbers
    <3>2. CASE pools' \in CreatedPools(mem.spec)
      <4>1. PICK flag \in Flags : /\ NewPool(mem.spec.name, flag) \in Pool
                                  /\ pools' = Append(pools, NewPool(mem.spec.name, flag))
        BY <1>1, <3>2, CreatedTypes
      <4>2. ~NewPool(mem.spec.name, flag).heard
        BY DEF NewPool
      <4>3. QED  BY <1>1, <4>1, <4>2, AddPool DEF Held, Kept, OwnNumbers
    <3>3. QED  BY <1>4, <3>1, <3>2
  <2>2. HandlerStep(held, {})
    BY <1>1, <1>2, <1>4 DEF HandlerStep, Creating
  <2>3. QED  BY <1>1, <1>2, <1>3, <1>4, <2>1, <2>2, HandlerKeeps
<1>5. CASE /\ \E made \in CreatedPools(mem.spec) :
                pools' = [made EXCEPT ![Len(made)].heard = TRUE]
           /\ mem' = [mem EXCEPT !.name = Len(pools'), !.status = Len(pools')]
           /\ pc' = "created"
  <2>1. PICK made \in CreatedPools(mem.spec) : pools' = [made EXCEPT ![Len(made)].heard = TRUE]
    BY <1>5
  <2>2. PICK flag \in Flags : /\ NewPool(mem.spec.name, flag) \in Pool
                              /\ made = Append(pools, NewPool(mem.spec.name, flag))
    BY <1>1, CreatedTypes
  <2>3. /\ pools' \in Seq(Pool) /\ Len(pools') \in Nat /\ OwnNumbers' = OwnNumbers \cup {Len(pools')}
        /\ Held' = {Len(pools')}
    <3>1. DEFINE q == [NewPool(mem.spec.name, flag) EXCEPT !.heard = TRUE]
    <3>2. q.owner = "us" /\ q.heard /\ q.there
      BY DEF NewPool
    <3>3. /\ pools' \in Seq(Pool) /\ Len(pools') \in Nat /\ Numbers' = Numbers \cup {Len(pools')}
          /\ pools'[Len(pools')] = q
          /\ Len(pools') \notin Numbers /\ \A j \in Numbers : pools'[j] = pools[j]
      BY <1>1, <2>1, <2>2, AddHeardPool
    <3> HIDE DEF q
    <3>4. Held' = {Len(pools')}
      <4> PICK n : n = Len(pools')
        OBVIOUS
      <4>1. \A j \in Numbers : ~Kept(j)
        BY <1>1 DEF Held
      <4>2. Kept(n)'
        BY <3>2, <3>3 DEF Kept
      <4>3. \A j \in Numbers : ~Kept(j)'
        BY <3>3, <4>1 DEF Kept
      <4>4. Numbers' = Numbers \cup {n}
        BY <3>3
      <4>5. QED  BY <4>2, <4>3, <4>4 DEF Held
    <3>5. OwnNumbers' = OwnNumbers \cup {Len(pools')}
      BY <3>2, <3>3 DEF OwnNumbers
    <3>6. QED  BY <3>3, <3>4, <3>5
  <2>4. /\ mem' \in Object /\ mem'.name = Len(pools') /\ mem'.status = Len(pools')
        /\ mem'.exists = mem.exists /\ mem'.fin = mem.fin /\ mem'.del = mem.del
        /\ mem'.create = mem.create /\ mem'.spec = mem.spec
    <3>1. mem' \in Object
      BY <1>1, <1>5, <2>3, ObjectTypes
    <3>2. QED  BY <1>1, <1>5, <3>1 DEF Objects
  <2>5. HandlerStep(held, {Len(pools')})
    BY <1>1, <1>2, <1>5, <2>4 DEF HandlerStep, Creating
  <2>6. QED  BY <1>1, <1>2, <1>3, <1>5, <2>3, <2>4, <2>5, HandlerKeeps
<1>6. QED  BY <1>1, <1>4, <1>5 DEF Create

\* Update changes at most the name and the setting of one pool.
LEMMA UpdateKeeps ==
  ASSUME IInv, Update
  PROVE  IInv' /\ [Lifecycle!LifecycleNext]_(Lifecycle!lifecycleVars)
<1> PICK held : held = Held
  OBVIOUS
<1> DEFINE i == AgentPoolIDFrom(mem)
<1>1. /\ TypeOK /\ Attached(held) /\ mem \in Object /\ pools \in Seq(Pool)
      /\ {mem.name, mem.status} \subseteq OwnNumbers \cup {None, MetaName, 0}
      /\ pc \in {"stale", "patch"} /\ mem.spec \in AgentPoolParameters
      /\ mem.spec.name \in PoolNames /\ mem.spec.flag \in Flags \cup {None}
      /\ patch \in [name : PoolNames \cup {None}, flag : Flags \cup {None}]
  BY SpecTypes DEF IInv, TypeOK, RuntimeTypeOK, NamesOwn, Update, ReadForUpdate, MayUpdate, SendPatch
<1>2. /\ UNCHANGED <<api, cache, mem, fresh, edits, tries>>
      /\ faults' \in Nat /\ pc' \in {"status", "patch"} /\ tries \in 0 .. Attempts - 1
  BY DEF Update, ReadForUpdate, SendPatch, IInv, TypeOK, RuntimeTypeOK
<1>3. /\ patch' \in [name : PoolNames \cup {None}, flag : Flags \cup {None}]
      /\ PatchGiven'
  <2>1. CASE patch' = DesiredAgentPoolUpdate(mem.spec, pools[i])
    BY <1>1, <1>2, <2>1 DEF DesiredAgentPoolUpdate, PatchGiven
  <2>2. CASE pc' = "status" /\ (patch' = patch \/ patch' = NoPatch)
    BY <1>1, <2>2 DEF PatchGiven, NoPatch
  <2>3. QED  BY <2>1, <2>2 DEF Update, ReadForUpdate, SendPatch
<1>4. /\ pools' \in Seq(Pool) /\ Held' = held /\ OwnNumbers' = OwnNumbers
  <2>1. CASE pools' = pools
    BY <1>1, <2>1 DEF Held, Kept, OwnNumbers
  <2>2. CASE Get(i) /\ pools' = [pools EXCEPT ![i] = Patched(pools[i], patch)]
    <3>0. i \in Numbers /\ pools[i] \in Pool
      BY <1>1, <2>2, PoolTypes DEF Get
    <3>1. /\ Patched(pools[i], patch) \in Pool
          /\ Patched(pools[i], patch).there = pools[i].there
          /\ Patched(pools[i], patch).owner = pools[i].owner
          /\ Patched(pools[i], patch).heard = pools[i].heard
      BY <1>1, <3>0 DEF Patched, Pool
    <3>2. QED  BY <1>1, <2>2, <3>0, <3>1, ReplacePool DEF Held, Kept, OwnNumbers
  <2>3. QED  BY <2>1, <2>2 DEF Update, ReadForUpdate, SendPatch
<1>5. HandlerStep(held, held)
  BY <1>1, <1>2 DEF HandlerStep, Creating
<1>6. QED
  BY <1>1, <1>2, <1>3, <1>4, <1>5, HandlerKeeps

\* Delete takes away at most the pool under the CR's number.
LEMMA DeleteKeeps ==
  ASSUME IInv, Delete
  PROVE  IInv' /\ [Lifecycle!LifecycleNext]_(Lifecycle!lifecycleVars)
<1> PICK held, after : held = Held /\ after = Held'
  OBVIOUS
<1> DEFINE i == AgentPoolIDFrom(mem)
<1>1. /\ TypeOK /\ Attached(held) /\ mem \in Object /\ pools \in Seq(Pool)
      /\ {mem.name, mem.status} \subseteq OwnNumbers \cup {None, MetaName, 0}
  BY DEF IInv, TypeOK, RuntimeTypeOK, NamesOwn
<1>2. /\ UNCHANGED <<api, cache, mem, fresh, edits, tries, patch>>
      /\ faults' \in Nat /\ pc \in {"current", "stale"} /\ pc' = "status"
      /\ pools' = pools \/ (Get(i) /\ pools' = [pools EXCEPT ![i].there = FALSE])
  BY DEF Delete, MayDelete, IInv, TypeOK, RuntimeTypeOK
<1>3. pools' \in Seq(Pool) /\ after \subseteq held /\ OwnNumbers' = OwnNumbers
  <2>1. CASE pools' = pools
    BY <1>1, <2>1 DEF Held, Kept, OwnNumbers
  <2>2. CASE Get(i) /\ pools' = [pools EXCEPT ![i].there = FALSE]
    <3>0. i \in Numbers /\ pools[i] \in Pool
      BY <1>1, <2>2, PoolTypes DEF Get
    <3>1. /\ [pools[i] EXCEPT !.there = FALSE] \in Pool
          /\ ~[pools[i] EXCEPT !.there = FALSE].there
          /\ [pools[i] EXCEPT !.there = FALSE].owner = pools[i].owner
      BY <3>0, PoolChanges DEF Pool
    <3>2. pools' = [pools EXCEPT ![i] = [pools[i] EXCEPT !.there = FALSE]]
      BY <2>2
    <3>3. QED  BY <1>1, <3>0, <3>1, <3>2, ReplacePool DEF Held, Kept, OwnNumbers
  <2>3. QED  BY <1>2, <2>1, <2>2
<1>4. HandlerStep(held, after)
  BY <1>1, <1>2, <1>3 DEF HandlerStep, Creating
<1>5. PatchGiven'
  BY <1>2 DEF PatchGiven
<1>6. QED
  BY <1>1, <1>2, <1>3, <1>4, <1>5, HandlerKeeps DEF TypeOK

(***************************************************************************)
(* Administrators add foreign pools and take or change those there are.    *)
(***************************************************************************)
LEMMA AdminKeeps ==
  ASSUME IInv, AdminStep
  PROVE  IInv' /\ [Lifecycle!LifecycleNext]_(Lifecycle!lifecycleVars)
<1> PICK held, after : held = Held /\ after = Held'
  OBVIOUS
<1>1. /\ TypeOK /\ Attached(held) /\ pools \in Seq(Pool)
      /\ \A i \in Numbers : pools[i] \in Pool
  BY PoolTypes DEF IInv, TypeOK
<1>2. UNCHANGED <<api, cache, mem, fresh, pc, faults, tries, patch>> /\ edits' \in Nat
  BY DEF AdminStep, IInv, TypeOK, RuntimeTypeOK
<1>3. pools' \in Seq(Pool) /\ after \subseteq held /\ OwnNumbers' = OwnNumbers
  <2>1. CASE \E q \in Pool : q.owner = "others" /\ pools' = Append(pools, q)
    <3>1. PICK q \in Pool : q.owner = "others" /\ pools' = Append(pools, q)
      BY <2>1
    <3>2. QED  BY <1>1, <3>1, AddPool DEF Held, Kept, OwnNumbers
  <2>2. CASE \E i \in Numbers, q \in Pool :
               /\ q.owner = pools[i].owner /\ q.heard = pools[i].heard /\ (q.there => pools[i].there)
               /\ pools' = [pools EXCEPT ![i] = q]
    <3>1. PICK i \in Numbers, q \in Pool :
            /\ q.owner = pools[i].owner /\ q.heard = pools[i].heard /\ (q.there => pools[i].there)
            /\ pools' = [pools EXCEPT ![i] = q]
      BY <2>2
    <3>2. QED  BY <1>1, <3>1, ReplacePool DEF Held, Kept, OwnNumbers
  <2>3. ASSUME NEW name \in PoolNames, NEW flag \in Flags,
               pools' = Append(pools, ForeignPool(name, flag, "others"))
        PROVE  \E q \in Pool : q.owner = "others" /\ pools' = Append(pools, q)
    <3>1. ForeignPool(name, flag, "others") \in Pool
      BY NewPoolTypes
    <3>2. ForeignPool(name, flag, "others").owner = "others"
      BY DEF ForeignPool, NewPool
    <3>3. QED  BY <2>3, <3>1, <3>2
  <2>4. ASSUME NEW i \in Numbers,
               \/ pools' = [pools EXCEPT ![i].there = FALSE]
               \/ \E name \in PoolNames : pools' = [pools EXCEPT ![i].name = name]
               \/ \E flag \in Flags : pools' = [pools EXCEPT ![i].flag = flag]
        PROVE  \E q \in Pool :
                 /\ q.owner = pools[i].owner /\ q.heard = pools[i].heard /\ (q.there => pools[i].there)
                 /\ pools' = [pools EXCEPT ![i] = q]
    <3>1. CASE pools' = [pools EXCEPT ![i].there = FALSE]
      <4>1. [pools[i] EXCEPT !.there = FALSE] \in Pool
        BY <1>1, PoolChanges
      <4>2. QED  BY <1>1, <3>1, <4>1 DEF Pool
    <3>2. ASSUME NEW name \in PoolNames, pools' = [pools EXCEPT ![i].name = name]
          PROVE  \E q \in Pool :
                   /\ q.owner = pools[i].owner /\ q.heard = pools[i].heard /\ (q.there => pools[i].there)
                   /\ pools' = [pools EXCEPT ![i] = q]
      <4>1. [pools[i] EXCEPT !.name = name] \in Pool
        BY <1>1, PoolChanges
      <4>2. QED  BY <1>1, <3>2, <4>1 DEF Pool
    <3>3. ASSUME NEW flag \in Flags, pools' = [pools EXCEPT ![i].flag = flag]
          PROVE  \E q \in Pool :
                   /\ q.owner = pools[i].owner /\ q.heard = pools[i].heard /\ (q.there => pools[i].there)
                   /\ pools' = [pools EXCEPT ![i] = q]
      <4>1. [pools[i] EXCEPT !.flag = flag] \in Pool
        BY <1>1, PoolChanges
      <4>2. QED  BY <1>1, <3>3, <4>1 DEF Pool
    <3>4. QED  BY <2>4, <3>1, <3>2, <3>3
  <2>5. QED  BY <2>1, <2>2, <2>3, <2>4 DEF AdminStep
<1>4. Attached(after)' /\ HoldsStep(held, after)
  BY <1>1, <1>2, <1>3, LossAttaches
<1>5. TypeOK' /\ NamesOwn' /\ PatchGiven'
  BY <1>2, <1>3 DEF IInv, TypeOK, RuntimeTypeOK, NamesOwn, PatchGiven
<1>6. QED
  BY <1>4, <1>5, AttachedSubst, StepsOfLifecycle DEF IInv

\* A CR that was just applied has at most a pool its user named.
LEMMA InitKeeps ==
  ASSUME Init
  PROVE  IInv /\ Lifecycle!LifecycleInit
<1> DEFINE objects == {NewObject(p, name) : p \in AgentPoolParameters, name \in {None, 0, 1}}
<1>1. RuntimeInit(objects)
  BY DEF Init, RuntimeInit
<1>2. RuntimeTypeOK(Object, {"patch"}) /\ Attached({}) /\ Stage = "live"
  BY <1>1, RuntimeStarts, AgentPoolAssumption
<1>3. /\ pools \in Seq(Pool)
      /\ \A i \in Numbers : pools[i].owner = "named"
      /\ api.name \in {None, 0} \cup Numbers /\ api.status = None
      /\ mem = NoObject /\ cache = api /\ pc = "idle"
  <2>1. mem = NoObject /\ cache = api /\ pc = "idle"
    BY <1>1 DEF RuntimeInit
  <2>2. \A p, n : NewObject(p, n).name = n /\ NewObject(p, n).status = None
    BY DEF NewObject, NoObject
  <2>3. CASE pools = <<>> /\ \E p \in AgentPoolParameters, name \in {None, 0} : api = NewObject(p, name)
    BY <2>1, <2>2, <2>3
  <2>4. CASE \E name \in PoolNames, flag \in Flags, p \in AgentPoolParameters :
               pools = <<ForeignPool(name, flag, "named")>> /\ api = NewObject(p, 1)
    <3>0. PICK name \in PoolNames, flag \in Flags, p \in AgentPoolParameters :
            pools = <<ForeignPool(name, flag, "named")>> /\ api = NewObject(p, 1)
      BY <2>4
    <3>1. ForeignPool(name, flag, "named") \in Pool /\ ForeignPool(name, flag, "named").owner = "named"
      BY NewPoolTypes DEF ForeignPool, NewPool
    <3>2. api.name = 1 /\ api.status = None
      BY <2>2, <3>0
    <3>3. pools \in Seq(Pool) /\ Numbers = {1} /\ pools[1].owner = "named"
      BY <3>0, <3>1
    <3>4. QED  BY <2>1, <3>2, <3>3
  <2>5. QED  BY <2>3, <2>4 DEF Init, RuntimeInit
<1>4. Held = {} /\ OwnNumbers = Numbers
  BY <1>3 DEF Held, Kept, OwnNumbers
<1>5. NamesOwn /\ PatchGiven
  BY <1>3, <1>4 DEF NamesOwn, PatchGiven, NoObject
<1>6. TypeOK
  BY <1>2, <1>3, AgentPoolAssumption DEF TypeOK, Init, NoPatch
<1>7. QED
  BY <1>2, <1>4, <1>5, <1>6 DEF IInv, Lifecycle!LifecycleInit

(***************************************************************************)
(* The invariant is inductive, and every step of the system is one of the  *)
(* lifecycle.                                                              *)
(***************************************************************************)
LEMMA StepKeeps ==
  ASSUME IInv, [Next]_vars
  PROVE  IInv' /\ [Lifecycle!LifecycleNext]_(Lifecycle!lifecycleVars)
<1>1. CASE UNCHANGED vars
  <2>1. UNCHANGED <<Held, OwnNumbers, Stage, api, cache, mem, fresh, pc, edits, faults, pools, tries, patch>>
    BY <1>1 DEF vars, runtimeVars, serviceVars, Held, Kept, OwnNumbers, Stage
  <2>2. IInv'
    BY <2>1 DEF IInv, TypeOK, RuntimeTypeOK, Attached, FreshCopy, HeldWhileCreating, DeletionSeen,
       Specified, Findable, AtMostOne, NothingToFind, NamesOwn, PatchGiven
  <2>3. QED  BY <2>1, <2>2 DEF Lifecycle!lifecycleVars
<1>2. CASE Next
  BY <1>2, RuntimeKeeps, ObserveKeeps, CreateKeeps, UpdateKeeps, DeleteKeeps, AdminKeeps
  DEF Next, ControllerStep
<1>3. QED  BY <1>1, <1>2

(***************************************************************************)
(* The invariant holds in every reachable state.                           *)
(***************************************************************************)
THEOREM Inductive == Spec => []IInv
<1>1. QED  BY InitKeeps, StepKeeps, PTL DEF Spec

(***************************************************************************)
(* Every reachable state is well typed.                                    *)
(***************************************************************************)
THEOREM TypeCorrect == Spec => []TypeOK
<1>1. IInv => TypeOK  BY DEF IInv
<1>2. QED  BY <1>1, Inductive, PTL

(***************************************************************************)
(* The controller implements the lifecycle: whatever fails, crashes or is  *)
(* repeated, it makes one pool at a time and leaves none behind.           *)
(***************************************************************************)
THEOREM Implements == Spec => KeepsLifecycle
<1>1. QED
  BY InitKeeps, StepKeeps, Inductive, PTL DEF Spec, KeepsLifecycle, Lifecycle!LifecycleSpec

(***************************************************************************)
(* No number the CR carries is that of a foreign pool.                     *)
(***************************************************************************)
THEOREM NeverForeign == Spec => []OwnPool
<1>1. IInv => OwnPool
  <2> SUFFICES ASSUME IInv, NEW i \in Numbers, i \in {api.name, api.status}
               PROVE  i \in OwnNumbers
    BY DEF OwnPool, OwnNumbers
  <2>1. i \in Nat \ {0} /\ i # None /\ i # MetaName
    BY PoolTypes, AgentPoolAssumption DEF IInv, TypeOK
  <2>2. QED  BY <2>1 DEF IInv, NamesOwn
<1>2. QED  BY <1>1, Inductive, PTL

(***************************************************************************)
(* The controller sets no setting the spec leaves open.                    *)
(***************************************************************************)
THEOREM SetsOnlyWhatIsGiven == Spec => OnlyWhatIsGiven
<1> DEFINE Given == \A i \in Numbers :
             edits' = edits /\ pools'[i].flag # pools[i].flag => mem.spec.flag = pools'[i].flag
<1>1. IInv /\ [Next]_vars => [Given]_vars
  <2> SUFFICES ASSUME IInv, Next, NEW i \in Numbers,
                      edits' = edits, pools'[i].flag # pools[i].flag
               PROVE  mem.spec.flag = pools'[i].flag
    OBVIOUS
  <2>1. pools \in Seq(Pool) /\ pools[i] \in Pool /\ edits \in Nat
    BY PoolTypes DEF IInv, TypeOK, RuntimeTypeOK
  <2>2. CASE SendPatch
    <3>1. pools' = [pools EXCEPT ![i] = Patched(pools[i], patch)]
      BY <2>1, <2>2 DEF SendPatch
    <3>2. patch.flag = pools'[i].flag /\ patch.flag # None
      BY <2>1, <3>1 DEF Patched, Pool
    <3>3. QED  BY <2>2, <3>2 DEF SendPatch, IInv, PatchGiven
  <2>3. CASE Create
    <3>1. ASSUME NEW made \in CreatedPools(mem.spec),
                 pools' = made \/ pools' = [made EXCEPT ![Len(made)].heard = TRUE]
          PROVE  pools'[i] = pools[i]
      <4>1. mem.spec \in AgentPoolParameters
        BY <2>3, SpecTypes DEF Create, IInv
      <4>2. PICK q \in Pool : made = Append(pools, q)
        BY <2>1, <4>1, CreatedTypes
      <4>3. QED  BY <2>1, <3>1, <4>2, AddPool, AddHeardPool
    <3>2. QED  BY <2>3, <3>1 DEF Create
  <2>4. CASE Delete
    BY <2>1, <2>4 DEF Delete, Pool
  <2>5. CASE UNCHANGED pools
    BY <2>5
  <2>6. CASE AdminStep
    BY <2>1, <2>6 DEF AdminStep
  <2>7. QED
    BY <2>2, <2>3, <2>4, <2>5, <2>6
    DEF Next, ControllerStep, Update, ReadForUpdate, Observe, Crash, UserStep, serviceVars
<1>2. QED  BY <1>1, Inductive, PTL DEF Spec, OnlyWhatIsGiven

(***************************************************************************)
(* A CR that is gone has left no pool behind that its controller knew to   *)
(* have created, whatever crashed and however old its copies were.         *)
(***************************************************************************)
THEOREM LeakFree == Spec => [](~api.exists => Held = {})
<1>1. IInv => (~api.exists => Held = {})  BY NothingLeftBehind DEF IInv
<1>2. QED  BY <1>1, Inductive, PTL

(***************************************************************************)
(* One CR never holds two: not even when a creation was repeated or its    *)
(* answer lost and the CR was reconciled again.                            *)
(***************************************************************************)
THEOREM NoDouble == Spec => []AtMostOne(Held)
<1>1. IInv => AtMostOne(Held)  BY DEF IInv, Attached
<1>2. QED  BY <1>1, Inductive, PTL
=============================================================================

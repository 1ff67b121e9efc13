------------------- MODULE ServiceEndpointControllers_proofs -------------------
(***************************************************************************)
(* Proofs about ServiceEndpointControllers, for each of the five kinds,    *)
(* any names and any values of the Secret, any number of edits and faults  *)
(* and any number of endpoints.  The lemmas about the shape the five share *)
(* come first; of each kind there is left what it notes as its digest.     *)
(***************************************************************************)
EXTENDS ServiceEndpointControllers, ManagedReconciler_proofs

USE DEF Fault, Edit, Finish, Observed, UUIDs

Contents == Values \cup {Empty}

(***************************************************************************)
(* The endpoints: one changes at a time, or one more is added.             *)
(***************************************************************************)

\* Endpoints are of their type, and what is held is among them.
LEMMA EndpointTypes ==
  ASSUME endpoints \in Seq(Endpoint)
  PROVE  /\ \A i \in UUIDs : endpoints[i] \in Endpoint
         /\ UUIDs \subseteq Nat \ {0} /\ Held \subseteq UUIDs
         /\ None \notin UUIDs /\ None \notin Held
<1>1. Held \subseteq UUIDs
  BY DEF Held
<1>2. None \notin Nat
  BY ServiceEndpointAssumption
<1>3. QED  BY <1>1, <1>2, Elements

\* An endpoint that changes without changing hands is held as before, unless it goes.
LEMMA OneChanges ==
  ASSUME endpoints \in Seq(Endpoint), NEW i \in UUIDs, NEW q \in Endpoint,
         endpoints' = [endpoints EXCEPT ![i] = q],
         q.owner = endpoints[i].owner, q.heard = endpoints[i].heard,
         q.there => endpoints[i].there
  PROVE  /\ endpoints' \in Seq(Endpoint) /\ UUIDs' = UUIDs
         /\ Held' \subseteq Held
         /\ q.there = endpoints[i].there => Held' = Held
         /\ endpoints'[i] = q
         /\ \A j \in UUIDs \ {i} : endpoints'[j] = endpoints[j]
<1>1. /\ endpoints' \in Seq(Endpoint) /\ UUIDs' = UUIDs /\ endpoints'[i] = q
      /\ \A j \in UUIDs \ {i} : endpoints'[j] = endpoints[j]
  BY Replaced
<1>2. /\ \A j \in UUIDs : Kept(j)' => Kept(j)
      /\ q.there = endpoints[i].there => \A j \in UUIDs : Kept(j)' <=> Kept(j)
  BY <1>1 DEF Kept
<1>3. Held' \subseteq Held
  BY <1>1, <1>2 DEF Held
<1>4. q.there = endpoints[i].there => Held' = Held
  BY <1>1, <1>2 DEF Held
<1>5. QED  BY <1>1, <1>3, <1>4

\* An endpoint that is added is held if the controller heard of it.
LEMMA OneMore ==
  ASSUME endpoints \in Seq(Endpoint), NEW q \in Endpoint, endpoints' = Append(endpoints, q),
         q.there, q.owner = "us", NEW n, n = Len(endpoints) + 1
  PROVE  /\ endpoints' \in Seq(Endpoint) /\ n \in Nat \ UUIDs /\ UUIDs' = UUIDs \cup {n}
         /\ endpoints'[n] = q /\ \A j \in UUIDs : endpoints'[j] = endpoints[j]
         /\ ~q.heard => Held' = Held
         /\ q.heard => Held' = Held \cup {n}
<1>1. /\ endpoints' \in Seq(Endpoint) /\ n \in Nat \ UUIDs /\ UUIDs' = UUIDs \cup {n}
      /\ endpoints'[n] = q /\ \A j \in UUIDs : endpoints'[j] = endpoints[j]
  BY Appended
<1>2. /\ \A j \in UUIDs : Kept(j)' <=> Kept(j)
      /\ Kept(n)' <=> q.heard
  BY <1>1 DEF Kept
<1>3. ~q.heard => Held' = Held
  BY <1>1, <1>2 DEF Held
<1>4. q.heard => Held' = Held \cup {n}
  BY <1>1, <1>2 DEF Held
<1>5. QED  BY <1>1, <1>3, <1>4

\* While no endpoint changes, what is held does not.
LEMMA SameEndpoints ==
  ASSUME UNCHANGED endpoints
  PROVE  Held' = Held
  BY DEF Held, Kept

\* An endpoint as the service makes it.
LEMMA NewEndpointTypes ==
  \A p \in ServiceEndpointParameters, v \in Contents :
    /\ NewEndpoint(p, v) \in Endpoint
    /\ [NewEndpoint(p, v) EXCEPT !.heard = TRUE] \in Endpoint
    /\ NamedEndpoint(p) \in Endpoint
  BY DEF NewEndpoint, NamedEndpoint, Endpoint, ServiceEndpointParameters, Contents

\* An endpoint some of whose fields are changed is still an endpoint.
LEMMA EndpointChanges ==
  ASSUME NEW q \in Endpoint
  PROVE  /\ [q EXCEPT !.there = FALSE] \in Endpoint
         /\ [q EXCEPT !.ready = FALSE] \in Endpoint
         /\ \A name \in EndpointNames : [q EXCEPT !.name = name] \in Endpoint
         /\ \A p \in ServiceEndpointParameters, v \in Contents :
              [q EXCEPT !.name = p.name, !.scheme = p.scheme,
                        !.value = v, !.ready = TRUE] \in Endpoint
  BY DEF Endpoint, ServiceEndpointParameters, Contents

\* To replace several fields of an endpoint is to replace the endpoint.
LEMMA Rewritten ==
  ASSUME NEW t \in Seq(Endpoint), NEW i \in DOMAIN t, NEW a, NEW b, NEW c, NEW d
  PROVE  [t EXCEPT ![i].name = a, ![i].scheme = b, ![i].value = c, ![i].ready = d]
         = [t EXCEPT ![i] = [t[i] EXCEPT !.name = a, !.scheme = b, !.value = c, !.ready = d]]
  OBVIOUS

(***************************************************************************)
(* What steps of the lifecycle look like to the controllers.               *)
(***************************************************************************)

\* A step of the reconciler's shape is a step of the lifecycle.
LEMMA StepsOfLifecycle ==
  ASSUME NEW before, NEW after, Held = before, Held' = after, HoldsStep(before, after)
  PROVE  [Lifecycle!LifecycleNext]_(Lifecycle!lifecycleVars)
<1> USE DEF HoldsStep, Lifecycle!LifecycleNext
<1>1. CASE after = before /\ Stage' = Stage
  BY <1>1 DEF Lifecycle!lifecycleVars
<1>2. CASE after = before /\ Stage = "live" /\ Stage' = "deleting"
  BY <1>2 DEF Lifecycle!RequestDeletion
<1>3. CASE after = before /\ Stage \in {"live", "deleting"} /\ Stage' = "gone" /\ before = {}
  BY <1>3 DEF Lifecycle!RequestDeletion, Lifecycle!Release
<1>4. CASE Stage' = Stage /\ before # {} /\ after = {}
  BY <1>4 DEF Lifecycle!ResourceVanishes
<1>5. CASE Stage' = Stage /\ Stage # "gone" /\ before = {} /\ \E id : after = {id}
  BY <1>5 DEF Lifecycle!CreateResource, Stage
<1>6. QED  BY <1>1, <1>2, <1>3, <1>4, <1>5

\* The set of held endpoints may be given by its value.
LEMMA AttachedSubst ==
  ASSUME NEW after, Held' = after, Attached(after)'
  PROVE  Attached(Held)'
  BY DEF Attached, Findable, AtMostOne, NothingToFind

(***************************************************************************)
(* The reconciler, the informer, the user and a crash.                     *)
(***************************************************************************)
USE DEF Object

\* They change no endpoint, send nothing and report no creation.
LEMMA RuntimeKeeps ==
  ASSUME IInv,
         \/ ReconcilerStep(TRUE) /\ UNCHANGED serviceVars
         \/ CacheSync /\ UNCHANGED serviceVars
         \/ Crash \/ UserStep
  PROVE  IInv' /\ [Lifecycle!LifecycleNext]_(Lifecycle!lifecycleVars)
<1> PICK held : held = Held
  OBVIOUS
<1>1. /\ TypeOK /\ Attached(held) /\ None \notin held /\ None \notin ServiceEndpointParameters
      /\ endpoints \in Seq(Endpoint) /\ RuntimeTypeOK(Object, {"add", "update"})
  BY EndpointTypes, ServiceEndpointAssumption DEF IInv, TypeOK
<1>2. /\ UNCHANGED <<kind, endpoints, secret>>
      /\ payload' \in Values \cup {Empty, None}
  BY <1>1 DEF TypeOK, serviceVars, Crash, UserStep
<1>3. Held' = held
  BY <1>2, SameEndpoints
<1>4. /\ RuntimeTypeOK(Object, {"add", "update"})'
      /\ Attached(held)' /\ HoldsStep(held, held)
  <2>1. CASE ReconcilerStep(TRUE) \/ CacheSync
    <3>1. RuntimeTypeOK(Object, {"add", "update"})'
      BY <1>1, <2>1, RuntimeTypes
    <3>2. Attached(held)' /\ HoldsStep(held, held)
      BY <1>1, <2>1, RuntimeAttaches
    <3>3. QED  BY <3>1, <3>2
  <2>2. CASE Crash \/ UserStep
    <3>1. (\E p \in ServiceEndpointParameters : EditSpec(p)) \/ RequestDelete \/ Abort
      BY <2>2 DEF Crash, UserStep, Parameters
    <3>2. QED  BY <1>1, <3>1, OutsideTypes, OutsideAttaches
  <2>3. QED  BY <2>1, <2>2
<1>5. Sent' /\ Numbered' /\ DigestOfSent'
  <2>1. CASE ReconcilerStep(TRUE)
    BY <2>1, RuntimeSteps DEF Sent, Numbered, DigestOfSent
  <2>2. CASE Crash
    BY <2>2 DEF Sent, Numbered, DigestOfSent, Crash, Abort
  <2>3. CASE (CacheSync /\ UNCHANGED serviceVars) \/ UserStep
    <3>1. UNCHANGED <<mem, pc, endpoints, payload>>
      BY <2>3 DEF CacheSync, UserStep, RequestDelete, EditSpec, serviceVars
    <3>2. QED  BY <3>1 DEF IInv, Sent, Numbered, DigestOfSent
  <2>4. QED  BY <2>1, <2>2, <2>3
<1>6. TypeOK'
  BY <1>1, <1>2, <1>4 DEF TypeOK
<1>7. Attached(Held)' /\ [Lifecycle!LifecycleNext]_(Lifecycle!lifecycleVars)
  BY <1>3, <1>4, AttachedSubst, StepsOfLifecycle
<1>8. QED  BY <1>5, <1>6, <1>7 DEF IInv

(***************************************************************************)
(* The shape the five controllers share.  What is to be shown of each      *)
(* handler: it treats what is held as HandlerStep says, and the rest of    *)
(* the invariant stands.                                                   *)
(***************************************************************************)
LEMMA HandlerKeeps ==
  ASSUME IInv, NEW held, NEW after, held = Held, after = Held', HandlerStep(held, after),
         mem' \in Object, UNCHANGED <<edits, kind, secret>>,
         faults' \in Nat, payload' \in Contents \cup {None},
         pc' \in Observed \cup {"add", "created", "createFailed", "update", "status"},
         endpoints' \in Seq(Endpoint), Sent', Numbered', DigestOfSent'
  PROVE  IInv' /\ [Lifecycle!LifecycleNext]_(Lifecycle!lifecycleVars)
<1>1. UNCHANGED <<api, cache, fresh>>
  BY DEF HandlerStep
<1>2. TypeOK'
  BY <1>1 DEF IInv, TypeOK, RuntimeTypeOK, Contents
<1>3. Attached(after)' /\ HoldsStep(held, after)
  BY HandlerAttaches DEF IInv
<1>4. QED
  BY <1>2, <1>3, AttachedSubst, StepsOfLifecycle DEF IInv

\* What the handlers find.
LEMMA HandlerTypes ==
  ASSUME IInv
  PROVE  /\ TypeOK /\ Attached(Held) /\ mem \in Object /\ endpoints \in Seq(Endpoint)
         /\ mem.name \in Nat \cup {MetaName, None} /\ mem.ann \in Digests \cup {None}
         /\ pc # "idle" => mem.spec \in ServiceEndpointParameters
         /\ payload \in Contents \cup {None} /\ secret \in Contents \cup {None}
         /\ faults \in Nat
         /\ pc \in {"add", "update"} => payload \in Contents
<1>1. TypeOK /\ Attached(Held) /\ mem \in Object
  BY DEF IInv, TypeOK, RuntimeTypeOK
<1>2. pc # "idle" => mem.exists /\ mem.spec # None
  BY <1>1 DEF Attached, HeldWhileCreating, Specified
<1>3. /\ mem.spec \in ServiceEndpointParameters \cup {None}
      /\ mem.name \in Nat \cup {MetaName, None} /\ mem.ann \in Digests \cup {None}
  BY <1>1, FieldTypes
<1>4. QED  BY <1>1, <1>2, <1>3 DEF IInv, TypeOK, RuntimeTypeOK, Sent, Contents

\* Observe changes no endpoint, notes only a UUID that it was led by, and reports
\* as missing only what it looked for under the CR's external-name.
LEMMA ObserveKeeps ==
  ASSUME IInv, NEW valid, NEW same, NEW looks, NEW value, NEW digestMatches,
         ObserveEndpoint(valid, same, looks, value, digestMatches)
  PROVE  IInv' /\ [Lifecycle!LifecycleNext]_(Lifecycle!lifecycleVars)
<1> PICK held : held = Held
  OBVIOUS
<1>1. /\ UNCHANGED <<api, cache, fresh, edits, kind, endpoints, secret, payload>>
      /\ pc = "observe" /\ pc' \in Observed \cup {"status"} /\ faults' \in Nat
      /\ \/ mem' = mem \/ mem' = [mem EXCEPT !.status = None]
         \/ Get(mem.name) /\ mem' = [mem EXCEPT !.status = mem.name]
      /\ pc' = "missing" => ~Get(mem.name)
  BY HandlerTypes DEF ObserveEndpoint, ObserveReturns, serviceVars
<1>2. Held' = held
  BY <1>1, SameEndpoints
<1>3. /\ mem \in Object /\ endpoints \in Seq(Endpoint) /\ payload \in Contents \cup {None}
  BY HandlerTypes
<1>4. Get(mem.name) => mem.name \in Nat
  BY <1>3, EndpointTypes DEF Get
<1>5. /\ mem' \in Object /\ mem'.name = mem.name
      /\ mem'.exists = mem.exists /\ mem'.fin = mem.fin /\ mem'.del = mem.del
      /\ mem'.create = mem.create /\ mem'.spec = mem.spec
  <2>1. CASE mem' = mem
    BY <1>3, <2>1
  <2>2. CASE Get(mem.name) /\ mem' = [mem EXCEPT !.status = mem.name]
    <3>1. mem' \in Object
      BY <1>3, <1>4, <2>2, ObjectTypes
    <3>2. QED  BY <1>3, <2>2, <3>1 DEF Objects
  <2>3. CASE mem' = [mem EXCEPT !.status = None]
    <3>1. mem' \in Object
      BY <1>3, <2>3, ObjectTypes
    <3>2. QED  BY <1>3, <2>3, <3>1 DEF Objects
  <2>4. QED  BY <1>1, <2>1, <2>2, <2>3
<1>6. pc' = "missing" => mem.name \notin held
  BY <1>1 DEF Get, Held, Kept
<1>7. HandlerStep(held, held)
  BY <1>1, <1>5, <1>6 DEF HandlerStep, Creating
<1>8. Sent' /\ Numbered' /\ DigestOfSent'
  BY <1>1 DEF Sent, Numbered, DigestOfSent
<1>9. QED
  BY <1>1, <1>2, <1>3, <1>5, <1>7, <1>8, HandlerKeeps

\* What is on its way is something the Secret gave.
LEMMA BuildKeeps ==
  ASSUME IInv, NEW valid, NEW value \in Contents \cup {None}, NEW next, NEW failed,
         Build(valid, value, next, failed),
         \/ pc = "create" /\ next = "add" /\ failed = "createFailed"
         \/ pc = "stale" /\ next = "update" /\ failed = "status"
  PROVE  IInv' /\ [Lifecycle!LifecycleNext]_(Lifecycle!lifecycleVars)
<1> PICK held : held = Held
  OBVIOUS
<1>1. /\ Attached(held) /\ mem \in Object /\ endpoints \in Seq(Endpoint)
      /\ payload \in Contents \cup {None} /\ faults \in Nat
  BY HandlerTypes
<1>2. /\ UNCHANGED <<api, cache, mem, fresh, edits, kind, endpoints, secret>>
      /\ pc' \in {next, failed} /\ payload' \in {payload, value} /\ faults' \in Nat
      /\ pc' = next => payload' # None
  BY <1>1 DEF Build
<1>3. Held' = held
  BY <1>2, SameEndpoints
<1>4. HandlerStep(held, held)
  BY <1>1, <1>2 DEF HandlerStep, Creating, Attached, NothingToFind
<1>5. Sent' /\ Numbered' /\ DigestOfSent'
  BY <1>1, <1>2 DEF Sent, Numbered, DigestOfSent
<1>6. QED
  BY <1>1, <1>2, <1>3, <1>4, <1>5, HandlerKeeps

\* Delete takes away at most the endpoint under the CR's external-name.
LEMMA DeleteKeeps ==
  ASSUME IInv, DeleteEndpoint
  PROVE  IInv' /\ [Lifecycle!LifecycleNext]_(Lifecycle!lifecycleVars)
<1> PICK held, after : held = Held /\ after = Held'
  OBVIOUS
<1> DEFINE i == mem.name
<1>1. pc \in {"current", "stale"} /\ pc' = "status"
  BY DEF DeleteEndpoint, MayDelete
<1>2. /\ Attached(held) /\ mem \in Object /\ endpoints \in Seq(Endpoint)
      /\ payload \in Contents \cup {None} /\ faults \in Nat
  BY HandlerTypes
<1>3. /\ UNCHANGED <<api, cache, mem, fresh, edits, kind, secret, payload>>
      /\ faults' \in Nat
      /\ \/ endpoints' = endpoints
         \/ i \in UUIDs /\ endpoints' = [endpoints EXCEPT ![i].there = FALSE]
  <2> DEFINE gone == [endpoints EXCEPT ![i].there = FALSE]
  <2>1. /\ UNCHANGED <<api, cache, mem, fresh, edits, kind, secret, payload>>
        /\ faults' \in Nat
    BY <1>2 DEF DeleteEndpoint
  <2>2. endpoints' = endpoints \/ (Get(i) /\ endpoints' = gone)
    BY DEF DeleteEndpoint
  <2>3. QED  BY <2>1, <2>2 DEF Get
<1>4. endpoints' \in Seq(Endpoint) /\ after \subseteq held
  <2>1. CASE endpoints' = endpoints
    BY <1>2, <1>3, <2>1, SameEndpoints
  <2>2. CASE i \in UUIDs /\ endpoints' = [endpoints EXCEPT ![i].there = FALSE]
    <3> DEFINE q == [endpoints[i] EXCEPT !.there = FALSE]
    <3>1. endpoints[i] \in Endpoint
      BY <1>2, <2>2, EndpointTypes
    <3>2. q \in Endpoint
      BY <3>1, EndpointChanges
    <3>3. q.owner = endpoints[i].owner /\ q.heard = endpoints[i].heard /\ ~q.there
      BY <3>1, <3>2 DEF Endpoint
    <3>4. endpoints' = [endpoints EXCEPT ![i] = q]
      BY <2>2
    <3> HIDE DEF q
    <3>5. QED  BY <1>2, <2>2, <3>2, <3>3, <3>4, OneChanges
  <2>3. QED  BY <1>3, <2>1, <2>2
<1>5. HandlerStep(held, after)
  BY <1>1, <1>3, <1>4 DEF HandlerStep, Creating
<1>6. Sent' /\ Numbered' /\ DigestOfSent'
  BY <1>1 DEF Sent, Numbered, DigestOfSent
<1>7. QED
  BY <1>1, <1>2, <1>3, <1>4, <1>5, <1>6, HandlerKeeps

\* A creation adds at most one endpoint, and its UUID and the digest of what was
\* sent to the CR when it is heard of.
LEMMA AddKeeps ==
  ASSUME IInv, NEW digest, AddEndpoint(digest), digest \in Digests \cup {None},
         payload # Empty => digest = Hash(payload)
  PROVE  IInv' /\ [Lifecycle!LifecycleNext]_(Lifecycle!lifecycleVars)
<1> PICK held, after, n : held = Held /\ after = Held' /\ n = Len(endpoints) + 1
  OBVIOUS
<1> DEFINE endpoint == NewEndpoint(mem.spec, payload)
           heard == [endpoint EXCEPT !.heard = TRUE]
           created == [mem EXCEPT !.name = n, !.status = n]
           unsent == [mem EXCEPT !.status = None, !.ann = digest]
<1>1. pc = "add" /\ pc' \in {"add", "created", "createFailed"}
  BY DEF AddEndpoint
<1>2. /\ Attached(held) /\ mem \in Object /\ endpoints \in Seq(Endpoint) /\ held = {}
      /\ mem.spec \in ServiceEndpointParameters
      /\ payload \in Contents /\ faults \in Nat
  BY <1>1, HandlerTypes DEF Attached, NothingToFind
<1>3. /\ UNCHANGED <<api, cache, fresh, edits, kind, secret>> /\ faults' \in Nat
      /\ payload' = IF pc' = "add" THEN payload ELSE None
  BY <1>1, <1>2 DEF AddEndpoint
<1>4. endpoint \in Endpoint /\ heard \in Endpoint
  BY <1>2, NewEndpointTypes
<1>5. /\ endpoint.there /\ endpoint.owner = "us" /\ ~endpoint.heard
      /\ heard.there /\ heard.owner = "us" /\ heard.heard /\ heard.value = payload
  BY DEF NewEndpoint
<1>6. \/ /\ mem' = mem /\ pc' \in {"add", "createFailed"}
         /\ endpoints' = endpoints \/ endpoints' = Append(endpoints, endpoint)
      \/ /\ endpoints' = Append(endpoints, heard)
         /\ \/ mem' = [created EXCEPT !.ann = digest] /\ pc' = "created"
            \/ mem' = created /\ pc' = "createFailed"
      \/ endpoints' = endpoints /\ mem' = unsent /\ pc' = "created"
  BY DEF AddEndpoint
<1> HIDE DEF endpoint, heard
<1>7. CASE /\ mem' = mem /\ pc' \in {"add", "createFailed"}
           /\ endpoints' = endpoints \/ endpoints' = Append(endpoints, endpoint)
  <2>1. endpoints' \in Seq(Endpoint) /\ after = {}
    <3>1. CASE endpoints' = endpoints
      BY <1>2, <3>1, SameEndpoints
    <3>2. CASE endpoints' = Append(endpoints, endpoint)
      BY <1>2, <1>4, <1>5, <3>2, OneMore
    <3>3. QED  BY <1>7, <3>1, <3>2
  <2>2. HandlerStep(held, {})
    BY <1>1, <1>2, <1>3, <1>7 DEF HandlerStep, Creating
  <2>3. Sent' /\ Numbered' /\ DigestOfSent'
    BY <1>2, <1>3, <1>7, ServiceEndpointAssumption DEF Sent, Numbered, DigestOfSent, Contents
  <2>4. QED
    BY <1>2, <1>3, <1>7, <2>1, <2>2, <2>3, HandlerKeeps
<1>8. CASE /\ endpoints' = Append(endpoints, heard)
           /\ \/ mem' = [created EXCEPT !.ann = digest] /\ pc' = "created"
              \/ mem' = created /\ pc' = "createFailed"
  <2>1. /\ endpoints' \in Seq(Endpoint) /\ n \in Nat \ UUIDs /\ UUIDs' = UUIDs \cup {n}
        /\ endpoints'[n] = heard /\ after = {n}
    BY <1>2, <1>4, <1>5, <1>8, OneMore
  <2>2. created \in Object
    BY <1>2, <2>1, ObjectTypes
  <2>3. /\ created.exists = mem.exists /\ created.fin = mem.fin /\ created.del = mem.del
        /\ created.create = mem.create /\ created.spec = mem.spec
        /\ created.name = n /\ created.status = n
    BY <1>2, <2>2 DEF Objects
  <2> HIDE DEF created
  <2>4. /\ mem' \in Object
        /\ mem'.exists = mem.exists /\ mem'.fin = mem.fin /\ mem'.del = mem.del
        /\ mem'.create = mem.create /\ mem'.spec = mem.spec /\ mem'.name = n
        /\ mem'.status = n /\ (pc' = "created" => mem'.ann = digest)
    <3>1. [created EXCEPT !.ann = digest] \in Object
      BY <2>2, ObjectTypes
    <3>2. CASE mem' = [created EXCEPT !.ann = digest]
      BY <2>2, <2>3, <3>1, <3>2 DEF Objects
    <3>3. CASE mem' = created /\ pc' = "createFailed"
      BY <2>2, <2>3, <3>3
    <3>4. QED  BY <1>8, <3>2, <3>3
  <2>5. HandlerStep(held, after)
    BY <1>1, <1>2, <1>3, <1>8, <2>1, <2>4 DEF HandlerStep, Creating
  <2>6. Sent' /\ Numbered'
    BY <1>8, <2>1, <2>4 DEF Sent, Numbered
  <2>7. DigestOfSent'
    BY <1>5, <2>1, <2>4 DEF DigestOfSent, Matches
  <2>8. QED
    BY <1>3, <1>8, <2>1, <2>4, <2>5, <2>6, <2>7, HandlerKeeps
<1>9. CASE endpoints' = endpoints /\ mem' = unsent /\ pc' = "created"
  <2>1. after = {}
    BY <1>2, <1>9, SameEndpoints
  <2>2. unsent \in Object
    <3> PICK cleared : cleared = [mem EXCEPT !.status = None]
      OBVIOUS
    <3>1. cleared \in Object
      BY <1>2, ObjectTypes
    <3>2. [cleared EXCEPT !.ann = digest] \in Object
      BY <3>1, ObjectTypes
    <3>3. unsent = [cleared EXCEPT !.ann = digest]
      OBVIOUS
    <3>4. QED  BY <3>2, <3>3
  <2>3. /\ mem'.exists = mem.exists /\ mem'.fin = mem.fin /\ mem'.del = mem.del
        /\ mem'.create = mem.create /\ mem'.spec = mem.spec /\ mem'.status = None
    BY <1>2, <1>9, <2>2 DEF Objects
  <2> HIDE DEF unsent
  <2>4. HandlerStep(held, {})
    BY <1>1, <1>2, <1>3, <1>9, <2>3 DEF HandlerStep, Creating
  <2>5. Sent' /\ Numbered' /\ DigestOfSent'
    BY <1>3, <1>9, <2>3 DEF Sent, Numbered, DigestOfSent
  <2>6. QED
    BY <1>2, <1>3, <1>9, <2>1, <2>2, <2>4, <2>5, HandlerKeeps
<1>10. QED  BY <1>6, <1>7, <1>8, <1>9

\* An update replaces at most the endpoint under the CR's external-name.
LEMMA ReplaceKeeps ==
  ASSUME IInv, NEW digest, ReplaceEndpoint(digest), digest \in Digests \cup {None}
  PROVE  IInv' /\ [Lifecycle!LifecycleNext]_(Lifecycle!lifecycleVars)
<1> PICK held : held = Held
  OBVIOUS
<1> DEFINE i == mem.name
           p == mem.spec
           q == [endpoints[i] EXCEPT !.name = p.name, !.scheme = p.scheme,
                                     !.value = payload, !.ready = TRUE]
<1>1. pc = "update" /\ pc' = "status"
  BY DEF ReplaceEndpoint
<1>2. /\ Attached(held) /\ mem \in Object /\ endpoints \in Seq(Endpoint)
      /\ p \in ServiceEndpointParameters /\ payload \in Contents /\ faults \in Nat
  BY <1>1, HandlerTypes
<1>3. /\ UNCHANGED <<api, cache, fresh, edits, kind, secret>>
      /\ payload' = None /\ faults' \in Nat
      /\ endpoints' = endpoints \/ (i \in UUIDs /\ endpoints' = [endpoints EXCEPT ![i] = q])
      /\ mem' = mem \/ (i \in UUIDs /\ mem' = [mem EXCEPT !.status = i, !.ann = digest])
  <2> DEFINE replaced == [endpoints EXCEPT ![i].name = p.name, ![i].scheme = p.scheme,
                                           ![i].value = payload, ![i].ready = TRUE]
  <2>1. i \in UUIDs => replaced = [endpoints EXCEPT ![i] = q]
    BY <1>2, Rewritten
  <2>2. /\ endpoints' = endpoints \/ (i \in UUIDs /\ endpoints' = replaced)
        /\ mem' = mem \/ (i \in UUIDs /\ mem' = [mem EXCEPT !.status = i, !.ann = digest])
    BY DEF ReplaceEndpoint, Get
  <2>3. /\ UNCHANGED <<api, cache, fresh, edits, kind, secret>>
        /\ payload' = None /\ faults' \in Nat
    BY <1>2 DEF ReplaceEndpoint
  <2> HIDE DEF q, replaced
  <2>4. QED  BY <2>1, <2>2, <2>3
<1>4. endpoints' \in Seq(Endpoint) /\ Held' = held
  <2>1. CASE endpoints' = endpoints
    BY <1>2, <2>1, SameEndpoints
  <2>2. CASE i \in UUIDs /\ endpoints' = [endpoints EXCEPT ![i] = q]
    <3>1. endpoints[i] \in Endpoint
      BY <1>2, <2>2, EndpointTypes
    <3>2. q \in Endpoint
      BY <1>2, <3>1, EndpointChanges
    <3>3. /\ q.owner = endpoints[i].owner /\ q.heard = endpoints[i].heard
          /\ q.there = endpoints[i].there
      BY <3>1, <3>2 DEF Endpoint
    <3> HIDE DEF q
    <3>4. QED  BY <1>2, <2>2, <3>2, <3>3, OneChanges
  <2>3. QED  BY <1>3, <2>1, <2>2
<1>5. /\ mem' \in Object /\ mem'.name = mem.name
      /\ mem'.exists = mem.exists /\ mem'.fin = mem.fin /\ mem'.del = mem.del
      /\ mem'.create = mem.create /\ mem'.spec = mem.spec
  <2>1. CASE mem' = mem
    BY <1>2, <2>1
  <2>2. CASE i \in UUIDs /\ mem' = [mem EXCEPT !.status = i, !.ann = digest]
    <3>1. i \in Nat
      BY <1>2, <2>2, EndpointTypes
    <3>2. mem' \in Object
      BY <1>2, <2>2, <3>1 DEF Objects
    <3>3. QED  BY <1>2, <2>2, <3>2 DEF Objects
  <2>3. QED  BY <1>3, <2>1, <2>2
<1>6. HandlerStep(held, held)
  BY <1>1, <1>3, <1>5 DEF HandlerStep, Creating
<1>7. Sent' /\ Numbered' /\ DigestOfSent'
  BY <1>1 DEF Sent, Numbered, DigestOfSent
<1>8. QED
  BY <1>1, <1>3, <1>4, <1>5, <1>6, <1>7, HandlerKeeps

(***************************************************************************)
(* The five controllers.                                                   *)
(***************************************************************************)

\* Whatever a spec refers to, the Secret gives a value or is not there.
LEMMA ResolvedTypes ==
  ASSUME IInv, NEW p
  PROVE  Resolve(p) \in Contents \cup {None} /\ AuthSecret(p) \in Contents \cup {None}
  BY HandlerTypes DEF Resolve, AuthSecret, Contents

\* Each kind's digest is of what is sent, if that is not empty.
LEMMA DigestTypes ==
  ASSUME IInv, payload \in Contents,
         NEW digest \in {PasswordHash(mem.ann), TokenHash, ClientSecretHash(mem.ann),
                         AuthSecretHash, ConfigHash}
  PROVE  /\ digest \in Digests \cup {None}
         /\ payload # Empty => digest = Hash(payload)
<1>1. mem.ann \in Digests \cup {None} /\ Hash(payload) \in Digests
  BY HandlerTypes DEF Digests, Contents
<1>2. QED
  BY <1>1 DEF PasswordHash, TokenHash, ClientSecretHash, AuthSecretHash, ConfigHash

\* A kind's steps are those of the shape.
LEMMA ShapeKeeps ==
  ASSUME IInv,
         NEW valid, NEW same, NEW looks, NEW value, NEW digestMatches, NEW builds,
         NEW sent \in Contents \cup {None}, NEW digest,
         payload \in Contents => /\ digest \in Digests \cup {None}
                                 /\ payload # Empty => digest = Hash(payload),
         \/ ObserveEndpoint(valid, same, looks, value, digestMatches)
         \/ pc = "create" /\ Build(builds, sent, "add", "createFailed")
         \/ AddEndpoint(digest)
         \/ MayUpdate /\ Build(builds, sent, "update", "status")
         \/ ReplaceEndpoint(digest)
         \/ DeleteEndpoint
  PROVE  IInv' /\ [Lifecycle!LifecycleNext]_(Lifecycle!lifecycleVars)
<1>1. AddEndpoint(digest) \/ ReplaceEndpoint(digest) => payload \in Contents
  BY HandlerTypes DEF AddEndpoint, ReplaceEndpoint
<1>2. MayUpdate => pc = "stale"
  BY DEF MayUpdate
<1>3. QED
  BY <1>1, <1>2, ObserveKeeps, BuildKeeps, AddKeeps, ReplaceKeeps, DeleteKeeps

\* So each of the five controllers keeps the invariant.
LEMMA KindsKeep ==
  ASSUME IInv, Generic \/ GitHub \/ AzureRM \/ Kubernetes \/ DockerRegistry
  PROVE  IInv' /\ [Lifecycle!LifecycleNext]_(Lifecycle!lifecycleVars)
<1>1. CASE Generic
  BY <1>1, ResolvedTypes, DigestTypes, ShapeKeeps
     DEF Generic, ObserveGeneric, CreateGeneric, BuildGeneric, UpdateGeneric, DeleteGeneric
<1>2. CASE GitHub
  BY <1>2, ResolvedTypes, DigestTypes, ShapeKeeps
     DEF GitHub, ObserveGitHub, CreateGitHub, BuildGitHub, UpdateGitHub, DeleteGitHub
<1>3. CASE AzureRM
  BY <1>3, ResolvedTypes, DigestTypes, ShapeKeeps
     DEF AzureRM, ObserveAzureRM, CreateAzureRM, BuildAzureRM, UpdateAzureRM, DeleteAzureRM
<1>4. CASE Kubernetes
  BY <1>4, ResolvedTypes, DigestTypes, ShapeKeeps
     DEF Kubernetes, ObserveKubernetes, CreateKubernetes, BuildKubernetes, UpdateKubernetes,
         DeleteKubernetes
<1>5. CASE DockerRegistry
  BY <1>5, ResolvedTypes, DigestTypes, ShapeKeeps
     DEF DockerRegistry, ObserveDockerRegistry, CreateDockerRegistry, BuildDockerRegistry,
         UpdateDockerRegistry, DeleteDockerRegistry
<1>6. QED  BY <1>1, <1>2, <1>3, <1>4, <1>5

(***************************************************************************)
(* The Secret is rotated, and administrators rename endpoints, take them   *)
(* or make them fail.                                                      *)
(***************************************************************************)
LEMMA AroundKeeps ==
  ASSUME IInv, UNCHANGED <<api, cache, mem, fresh, pc, faults, kind, payload>>, edits' \in Nat,
         secret' \in Contents \cup {None},
         \/ endpoints' = endpoints
         \/ \E i \in UUIDs, q \in Endpoint :
              /\ q.owner = endpoints[i].owner /\ q.heard = endpoints[i].heard
              /\ q.value = endpoints[i].value
              /\ q.there => endpoints[i].there
              /\ endpoints' = [endpoints EXCEPT ![i] = q]
  PROVE  IInv' /\ [Lifecycle!LifecycleNext]_(Lifecycle!lifecycleVars)
<1> PICK held, after : held = Held /\ after = Held'
  OBVIOUS
<1>1. TypeOK /\ Attached(held) /\ endpoints \in Seq(Endpoint)
  BY HandlerTypes
<1>2. /\ endpoints' \in Seq(Endpoint) /\ after \subseteq held /\ UUIDs' = UUIDs
      /\ \A i \in UUIDs : /\ endpoints'[i].value = endpoints[i].value
                          /\ endpoints'[i].there => endpoints[i].there
  <2>1. CASE endpoints' = endpoints
    BY <1>1, <2>1, SameEndpoints
  <2>2. CASE endpoints' # endpoints
    <3>1. PICK i \in UUIDs, q \in Endpoint :
            /\ q.owner = endpoints[i].owner /\ q.heard = endpoints[i].heard
            /\ q.value = endpoints[i].value
            /\ q.there => endpoints[i].there
            /\ endpoints' = [endpoints EXCEPT ![i] = q]
      BY <2>2
    <3>2. QED  BY <1>1, <3>1, OneChanges
  <2>3. QED  BY <2>1, <2>2
<1>3. Attached(after)' /\ HoldsStep(held, after)
  BY <1>1, <1>2, LossAttaches
<1>4. TypeOK'
  BY <1>1, <1>2 DEF TypeOK, RuntimeTypeOK, Contents
<1>5. Sent' /\ Numbered'
  BY <1>2 DEF IInv, Sent, Numbered
<1>6. DigestOfSent'
  <2>1. pc = "created" => mem.status \in UUIDs \cup {None}
    BY DEF IInv, Numbered
  <2>2. QED  BY <1>2, <2>1 DEF IInv, DigestOfSent
<1>7. QED
  BY <1>3, <1>4, <1>5, <1>6, AttachedSubst, StepsOfLifecycle DEF IInv

\* The Secret's owner and the administrators do no more than that.
LEMMA PeopleKeep ==
  ASSUME IInv, RotateSecret \/ AdminStep
  PROVE  IInv' /\ [Lifecycle!LifecycleNext]_(Lifecycle!lifecycleVars)
<1>1. /\ endpoints \in Seq(Endpoint) /\ \A i \in UUIDs : endpoints[i] \in Endpoint
      /\ secret \in Contents \cup {None} /\ edits \in Nat
  BY HandlerTypes, EndpointTypes DEF TypeOK, RuntimeTypeOK
<1>2. /\ UNCHANGED <<api, cache, mem, fresh, pc, faults, kind, payload>> /\ edits' \in Nat
      /\ secret' \in Contents \cup {None}
  BY <1>1 DEF RotateSecret, AdminStep, Contents
<1>3. CASE RotateSecret
  BY <1>2, <1>3, AroundKeeps DEF RotateSecret
<1>4. ASSUME NEW i \in UUIDs, NEW q, endpoints' = [endpoints EXCEPT ![i] = q],
             \/ q = [endpoints[i] EXCEPT !.there = FALSE]
             \/ q = [endpoints[i] EXCEPT !.ready = FALSE]
             \/ \E name \in EndpointNames : q = [endpoints[i] EXCEPT !.name = name]
      PROVE  IInv' /\ [Lifecycle!LifecycleNext]_(Lifecycle!lifecycleVars)
  <2>1. q \in Endpoint
    BY <1>1, <1>4, EndpointChanges
  <2>2. /\ q.owner = endpoints[i].owner /\ q.heard = endpoints[i].heard
        /\ q.value = endpoints[i].value /\ (q.there => endpoints[i].there)
    BY <1>1, <1>4 DEF Endpoint
  <2>3. QED  BY <1>2, <1>4, <2>1, <2>2, AroundKeeps
<1>5. CASE AdminStep
  <2>1. PICK i \in UUIDs :
          \/ endpoints' = [endpoints EXCEPT ![i] = [endpoints[i] EXCEPT !.there = FALSE]]
          \/ endpoints' = [endpoints EXCEPT ![i] = [endpoints[i] EXCEPT !.ready = FALSE]]
          \/ \E name \in EndpointNames :
               endpoints' = [endpoints EXCEPT ![i] = [endpoints[i] EXCEPT !.name = name]]
    BY <1>5 DEF AdminStep
  <2>2. QED  BY <1>4, <2>1
<1>6. QED  BY <1>3, <1>5

\* A CR that was just applied has at most an endpoint its user named.
LEMMA InitKeeps ==
  ASSUME Init
  PROVE  IInv /\ Lifecycle!LifecycleInit
<1>1. PICK p \in ServiceEndpointParameters, n \in {None, 0, 1} :
        /\ RuntimeInit({NewObject(p, n)})
        /\ endpoints = <<>> \/ endpoints = <<NamedEndpoint(p)>>
  <2>1. Parameters \subseteq ServiceEndpointParameters
    BY DEF Parameters
  <2>2. QED  BY <2>1 DEF Init, RuntimeInit
<1>2. RuntimeTypeOK(Object, {"add", "update"}) /\ Attached({}) /\ Stage = "live"
  <2> PICK o, objects : o = NewObject(p, n) /\ objects = {o}
    OBVIOUS
  <2>1. p # None
    BY ServiceEndpointAssumption
  <2>2. o \in Object /\ o.exists /\ ~o.fin /\ ~o.del /\ o.spec = p
    BY NewObjectTypes DEF NewObject, NoObject
  <2>3. /\ RuntimeInit(objects) /\ objects \subseteq Object
        /\ \A r \in objects : r.exists /\ ~r.fin /\ ~r.del /\ r.spec # None
    BY <1>1, <2>1, <2>2
  <2>4. QED  BY <2>3, AppliedStarts
<1>3. endpoints \in Seq(Endpoint) /\ \A i \in UUIDs : endpoints[i].owner = "named"
  <2>1. NamedEndpoint(p) \in Endpoint /\ NamedEndpoint(p).owner = "named"
    BY <1>1, NewEndpointTypes DEF NamedEndpoint, NewEndpoint, Contents
  <2>2. CASE endpoints = <<>>
    BY <2>2
  <2>3. CASE endpoints = <<NamedEndpoint(p)>>
    BY <2>1, <2>3
  <2>4. QED  BY <1>1, <2>2, <2>3
<1>4. Held = {}
  BY <1>3 DEF Held, Kept
<1>5. pc = "idle"
  BY <1>1 DEF RuntimeInit
<1>6. TypeOK
  BY <1>2, <1>3 DEF TypeOK, Init
<1>7. QED
  BY <1>2, <1>4, <1>5, <1>6 DEF IInv, Sent, Numbered, DigestOfSent, Lifecycle!LifecycleInit

(***************************************************************************)
(* The invariant is inductive, and every step of the system is one of the  *)
(* lifecycle.                                                              *)
(***************************************************************************)
LEMMA StepKeeps ==
  ASSUME IInv, [Next]_vars
  PROVE  IInv' /\ [Lifecycle!LifecycleNext]_(Lifecycle!lifecycleVars)
<1>1. CASE UNCHANGED vars
  <2>1. UNCHANGED <<Stage, api, cache, mem, fresh, pc, edits, faults, kind, endpoints, secret, payload>>
    BY <1>1 DEF vars, runtimeVars, serviceVars, Stage
  <2>2. UNCHANGED Held
    BY <2>1, SameEndpoints
  <2>3. IInv'
    BY <2>1, <2>2 DEF IInv, TypeOK, RuntimeTypeOK, Attached, FreshCopy, HeldWhileCreating,
       DeletionSeen, Specified, Findable, AtMostOne, NothingToFind, Sent, Numbered, DigestOfSent
  <2>4. QED  BY <2>1, <2>2, <2>3 DEF Lifecycle!lifecycleVars
<1>2. CASE Next
  BY <1>2, RuntimeKeeps, KindsKeep, PeopleKeep DEF Next, ControllerStep
<1>3. QED  BY <1>1, <1>2

(***************************************************************************)
(* The invariant holds in every reachable state.                           *)
(***************************************************************************)
THEOREM Inductive == Spec => []IInv
<1>1. QED  BY InitKeeps, StepKeeps, PTL DEF Spec

(***************************************************************************)
(* Every reachable state is well typed; above all, no request carries the  *)
(* value of a Secret that was not there.                                   *)
(***************************************************************************)
THEOREM TypeCorrect == Spec => []TypeOK
<1>1. IInv => TypeOK  BY DEF IInv
<1>2. QED  BY <1>1, Inductive, PTL

(***************************************************************************)
(* The five controllers implement the lifecycle: whatever fails, crashes,  *)
(* is repeated or rotated, they make one endpoint at a time and leave none *)
(* behind.                                                                 *)
(***************************************************************************)
THEOREM Implements == Spec => KeepsLifecycle
<1>1. QED
  BY InitKeeps, StepKeeps, Inductive, PTL DEF Spec, KeepsLifecycle, Lifecycle!LifecycleSpec

(***************************************************************************)
(* The digest recorded with a creation is of the credentials that were     *)
(* sent.                                                                   *)
(***************************************************************************)
THEOREM DigestIsOfSent == Spec => []DigestOfSent
<1>1. IInv => DigestOfSent  BY DEF IInv
<1>2. QED  BY <1>1, Inductive, PTL

(***************************************************************************)
(* A CR that is gone has left no service endpoint behind that its          *)
(* controller knew to have created, whatever crashed and however old its   *)
(* copies were.                                                            *)
(***************************************************************************)
THEOREM LeakFree == Spec => [](~api.exists => Held = {})
<1>1. IInv => (~api.exists => Held = {})  BY NothingLeftBehind DEF IInv
<1>2. QED  BY <1>1, Inductive, PTL

(***************************************************************************)
(* One CR never holds two: not even when a Secret was missing or a digest  *)
(* failed and the CR was reconciled again.                                 *)
(***************************************************************************)
THEOREM NoDouble == Spec => []AtMostOne(Held)
<1>1. IInv => AtMostOne(Held)  BY DEF IInv, Attached
<1>2. QED  BY <1>1, Inductive, PTL
=============================================================================

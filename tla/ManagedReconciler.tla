-------------------------- MODULE ManagedReconciler --------------------------
(***************************************************************************)
(* One managed resource (CR) under crossplane-runtime's managed.Reconciler,*)
(* the machine every controller of this provider hands its Observe,        *)
(* Create, Update and Delete to (managed.NewReconciler in each Setup).     *)
(* The runtime is not under src/: this module is external and says only    *)
(* what those handlers depend on: which copy of the CR they are given, in  *)
(* which order they run, and which of their writes to that copy survive.   *)
(*                                                                         *)
(* A controller module EXTENDS this one and supplies the handlers.  Each   *)
(* action below is one read of the informer cache, one write to the API    *)
(* server or a purely local decision; everything else interleaves between. *)
(***************************************************************************)
EXTENDS Naturals

CONSTANTS
  None,       \* an absent annotation, status or identifier (the Go zero value)
  MetaName,   \* the CR's metadata.name
  MaxEdits,   \* bound: changes made by the user or by an Azure DevOps admin
  MaxFaults   \* bound: crashes, failed calls and lost responses

ASSUME BoundAssumption == MaxEdits \in Nat /\ MaxFaults \in Nat

VARIABLES
  api,     \* the CR as the API server stores it
  cache,   \* the informer's copy of it, which may lag behind
  mem,     \* the copy the running reconcile works on
  fresh,   \* mem carries the stored resourceVersion: an update will not conflict
  pc,      \* where the running reconcile is
  edits,   \* changes made so far from outside
  faults   \* faults so far

runtimeVars == <<api, cache, mem, fresh, pc, edits, faults>>

(***************************************************************************)
(* The part of a CR the reconciler and the handlers read or write.  create *)
(* is the outcome of the latest creation, as the external-create-pending,  *)
(* -succeeded and -failed annotations order it; ann is whatever other      *)
(* annotation the kind keeps.                                              *)
(***************************************************************************)
NoObject ==
  [exists |-> FALSE, fin |-> FALSE, del |-> FALSE, create |-> "never",
   name |-> None, ann |-> None, status |-> None, spec |-> None]

NewObject(spec, name) ==
  [NoObject EXCEPT !.exists = TRUE, !.spec = spec, !.name = name]

CreateOutcome == {"never", "pending", "succeeded", "failed"}

\* How far the user has come with the CR, as the API server has it.
Stage == CASE ~api.exists -> "gone" [] api.del -> "deleting" [] OTHER -> "live"

\* Where a reconcile stands once Observe has answered.
Observed == {"missing", "current", "stale"}

RuntimeInit(objects) ==
  /\ api \in objects
  /\ cache = api
  /\ mem = NoObject
  /\ fresh = FALSE
  /\ pc = "idle"
  /\ edits = 0
  /\ faults = 0

Fault == faults < MaxFaults /\ faults' = faults + 1

Edit == edits < MaxEdits /\ edits' = edits + 1

\* The reconcile is over; its copy of the CR is garbage.
Finish == pc' = "idle" /\ mem' = NoObject /\ fresh' = FALSE

-----------------------------------------------------------------------------
(* The reconciler *)

(***************************************************************************)
(* Read the CR from the cache.  A CR whose creation began and was never    *)
(* recorded as succeeded or failed is refused, deleted or not; such a      *)
(* reconcile changes nothing modelled here, so it is not taken.            *)
(* initializers says whether the default chain is in place, which gives a  *)
(* CR without an external-name its own metadata.name.                      *)
(***************************************************************************)
Begin(initializers) ==
  /\ pc = "idle" /\ cache.exists /\ cache.create # "pending"
  /\ mem' = cache
  /\ fresh' = (cache = api)
  /\ pc' = IF initializers /\ cache.name = None THEN "initialize" ELSE "observe"
  /\ UNCHANGED <<api, cache, edits, faults>>

\* An Update of the whole object: what the handlers did to mem's annotations
\* is stored, its status is not (a subresource) and is read back instead.
Stored(object) == [object EXCEPT !.status = api.status]

UpdateObject(object) ==
  /\ fresh
  /\ api' = Stored(object)
  /\ mem' = Stored(object)
  /\ UNCHANGED <<cache, fresh, edits, faults>>

Initialize ==
  /\ pc = "initialize"
  /\ UpdateObject([mem EXCEPT !.name = MetaName])
  /\ pc' = "observe"

\* How a kind's Observe ends: verdict is in Observed, or "status" on an error.
ObserveReturns(object, verdict) ==
  /\ pc = "observe"
  /\ mem' = object
  /\ pc' = verdict
  /\ UNCHANGED <<api, cache, fresh, edits>>

\* A resource that was created a moment ago may only seem to be missing: look
\* again until the creation grace period is over.
WaitOutGrace ==
  /\ pc = "missing" /\ mem.create = "succeeded"
  /\ pc' = "status"
  /\ UNCHANGED <<api, cache, mem, fresh, edits, faults>>

RemoveFinalizer ==
  /\ pc = "missing" /\ mem.del /\ fresh
  /\ api' = NoObject
  /\ Finish
  /\ UNCHANGED <<cache, edits, faults>>

AddFinalizer ==
  /\ pc \in Observed /\ ~mem.del /\ ~mem.fin
  /\ UpdateObject([mem EXCEPT !.fin = TRUE])
  /\ UNCHANGED pc

MarkPending ==
  /\ pc = "missing" /\ ~mem.del /\ mem.fin
  /\ UpdateObject([mem EXCEPT !.create = "pending"])
  /\ pc' = "create"

(***************************************************************************)
(* UpdateCriticalAnnotations: record how Create ended, with every          *)
(* annotation Create set.  Conflicts are retried on the stored object.     *)
(***************************************************************************)
RecordCreate ==
  /\ \/ pc = "created" /\ api' = [api EXCEPT !.create = "succeeded",
                                             !.name = mem.name, !.ann = mem.ann]
     \/ pc = "createFailed" /\ api' = [api EXCEPT !.create = "failed",
                                                  !.name = mem.name, !.ann = mem.ann]
  /\ mem' = api'
  /\ fresh' = TRUE
  /\ pc' = "status"
  /\ UNCHANGED <<cache, edits, faults>>

\* When a kind's Delete and Update may run.
MayDelete == pc \in {"current", "stale"} /\ mem.del
MayUpdate == pc = "stale" /\ ~mem.del /\ mem.fin

\* The last write of a reconcile is the status alone: annotations that only
\* mem has are dropped.
PersistStatus ==
  /\ \/ pc = "status"
     \/ pc = "current" /\ ~mem.del /\ mem.fin
  /\ api' = IF fresh THEN [api EXCEPT !.status = mem.status] ELSE api
  /\ Finish
  /\ UNCHANGED <<cache, edits, faults>>

\* A write of a stale copy is refused; the reconcile starts over.
Conflict ==
  /\ ~fresh
  /\ \/ pc = "initialize"
     \/ pc = "missing"
     \/ pc \in {"current", "stale"} /\ ~mem.del /\ ~mem.fin
  /\ Finish
  /\ UNCHANGED <<api, cache, edits, faults>>

\* The process dies, its context expires or the API server refuses the next
\* write: whatever only mem knew is lost.
Abort ==
  /\ pc # "idle" /\ Fault
  /\ Finish
  /\ UNCHANGED <<api, cache, edits>>

CacheSync ==
  /\ cache # api
  /\ cache' = api
  /\ UNCHANGED <<api, mem, fresh, pc, edits, faults>>

ReconcilerStep(initializers) ==
  \/ Begin(initializers)
  \/ initializers /\ Initialize
  \/ WaitOutGrace \/ RemoveFinalizer \/ AddFinalizer \/ MarkPending
  \/ RecordCreate \/ PersistStatus \/ Conflict

-----------------------------------------------------------------------------
(* The user *)

EditSpec(spec) ==
  /\ api.exists /\ spec # api.spec /\ Edit
  /\ api' = [api EXCEPT !.spec = spec]
  /\ fresh' = FALSE
  /\ UNCHANGED <<cache, mem, pc, faults>>

RequestDelete ==
  /\ api.exists /\ ~api.del
  /\ api' = IF api.fin THEN [api EXCEPT !.del = TRUE] ELSE NoObject
  /\ fresh' = FALSE
  /\ UNCHANGED <<cache, mem, pc, edits, faults>>

-----------------------------------------------------------------------------
(* What the controllers' properties rest on *)

Objects(names, anns, statuses, specs) ==
  [exists : BOOLEAN, fin : BOOLEAN, del : BOOLEAN, create : CreateOutcome,
   name : names \cup {None}, ann : anns \cup {None}, status : statuses \cup {None},
   spec : specs \cup {None}]

\* steps: where a reconcile may be in the kind's own handlers.
RuntimeTypeOK(objects, steps) ==
  /\ api \in objects /\ cache \in objects /\ mem \in objects
  /\ fresh \in BOOLEAN
  /\ pc \in Observed \cup {"idle", "initialize", "observe", "create", "created",
                           "createFailed", "status"} \cup steps
  /\ edits \in Nat /\ faults \in Nat

(***************************************************************************)
(* Why a controller can always find what it made, makes nothing twice and  *)
(* leaves nothing behind.  A copy that is fresh agrees with the stored CR  *)
(* on all that decides; between the mark that a creation is pending and    *)
(* the record of its outcome the CR is held; no copy shows a deletion that *)
(* was not asked for.  And, of the resources held for the CR, by what its  *)
(* external-name says of them: a resource is under the stored name, or its *)
(* creation is pending; and a reconcile whose fresh copy led to none knows *)
(* that there is none, because a CR with a pending creation is never       *)
(* reconciled.                                                             *)
(***************************************************************************)
Creating == {"create", "waitCreate", "add", "amend", "created", "createFailed"}

FreshCopy ==
  fresh => /\ mem.fin = api.fin /\ mem.del = api.del /\ mem.create = api.create
           /\ mem.exists = api.exists
           /\ pc \notin Creating => mem.name = api.name

HeldWhileCreating ==
  /\ api.fin => api.exists
  /\ pc # "idle" => mem.exists
  /\ pc \in Creating => api.fin /\ api.create = "pending"
  /\ pc \in Observed \cup {"initialize", "observe"} => mem.create # "pending"
  /\ pc = "initialize" => mem.name = None

DeletionSeen == cache.del \/ mem.del => api.del \/ ~api.exists

Specified == \A object \in {api, cache, mem} : object.exists => object.spec # None

Findable(held) ==
  \A id \in held : api.fin /\ (api.name = id \/ api.create = "pending")

AtMostOne(held) == \A id, other \in held : id = other

NothingToFind(held) ==
  /\ pc \in {"create", "add"} \/ (pc = "missing" /\ fresh) => held = {}
  /\ pc \in Creating => \A id \in held : mem.name = id

Attached(held) ==
  /\ FreshCopy /\ HeldWhileCreating /\ DeletionSeen /\ Specified
  /\ Findable(held) /\ AtMostOne(held) /\ NothingToFind(held)
=============================================================================

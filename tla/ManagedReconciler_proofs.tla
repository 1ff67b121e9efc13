------------------------ MODULE ManagedReconciler_proofs ------------------------
(***************************************************************************)
(* What the steps of the reconciler, the informer, the user and a crash do *)
(* to the types and to Attached, whatever the kind, its specs and its      *)
(* identifiers: the proofs about the controllers cite these lemmas and     *)
(* have only their own handlers left.  held stands for the resources the   *)
(* kind's controller holds for the CR.                                     *)
(***************************************************************************)
EXTENDS ManagedReconciler, Sequences, TLAPS

USE DEF Fault, Edit, Finish, UpdateObject, Stored, Observed

(***************************************************************************)
(* A sequence of resources, numbered as they were made, with one more.     *)
(***************************************************************************)
LEMMA Appended ==
  ASSUME NEW S, NEW s \in Seq(S), NEW q \in S, NEW t, t = Append(s, q)
  PROVE  /\ t \in Seq(S) /\ Len(t) = Len(s) + 1
         /\ Len(s) + 1 \in Nat \ DOMAIN s
         /\ DOMAIN t = DOMAIN s \cup {Len(s) + 1}
         /\ t[Len(s) + 1] = q
         /\ \A j \in DOMAIN s : t[j] = s[j]
  OBVIOUS

(***************************************************************************)
(* One of whose elements is replaced.                                      *)
(***************************************************************************)
LEMMA Replaced ==
  ASSUME NEW S, NEW s \in Seq(S), NEW i \in DOMAIN s, NEW q \in S, NEW t, t = [s EXCEPT ![i] = q]
  PROVE  /\ t \in Seq(S) /\ Len(t) = Len(s) /\ DOMAIN t = DOMAIN s
         /\ t[i] = q
         /\ \A j \in DOMAIN s \ {i} : t[j] = s[j]
  OBVIOUS

(***************************************************************************)
(* To replace what was just added is to add its replacement.               *)
(***************************************************************************)
LEMMA AppendedReplaced ==
  ASSUME NEW S, NEW s \in Seq(S), NEW q \in S, NEW r \in S,
         NEW t, t = Append(s, q), NEW n, n = Len(s) + 1
  PROVE  n = Len(t) /\ n \in DOMAIN t /\ t[n] = q /\ [t EXCEPT ![n] = r] = Append(s, r)
<1> PICK v, w : v = [t EXCEPT ![n] = r] /\ w = Append(s, r)
  OBVIOUS
<1>1. /\ t \in Seq(S) /\ Len(t) = n /\ n \in Nat \ DOMAIN s /\ t[n] = q
      /\ DOMAIN t = DOMAIN s \cup {n} /\ \A j \in DOMAIN s : t[j] = s[j]
  BY Appended
<1>2. /\ v \in Seq(S) /\ DOMAIN v = DOMAIN t /\ v[n] = r
      /\ \A j \in DOMAIN t \ {n} : v[j] = t[j]
  BY <1>1, Replaced
<1>3. /\ w \in Seq(S) /\ DOMAIN w = DOMAIN s \cup {n} /\ w[n] = r
      /\ \A j \in DOMAIN s : w[j] = s[j]
  BY Appended
<1>4. DOMAIN v = DOMAIN w /\ \A j \in DOMAIN w : v[j] = w[j]
  BY <1>1, <1>2, <1>3
<1>5. \A x \in Seq(S) : x \in [DOMAIN x -> S]
  OBVIOUS
<1>6. v \in [DOMAIN w -> S] /\ w \in [DOMAIN w -> S]
  BY <1>2, <1>3, <1>4, <1>5
<1>7. v = w
  BY <1>4, <1>6
<1>8. QED  BY <1>1, <1>7

(***************************************************************************)
(* The elements of a sequence, and their numbers.                          *)
(***************************************************************************)
LEMMA Elements ==
  ASSUME NEW S, NEW s \in Seq(S)
  PROVE  (\A i \in DOMAIN s : s[i] \in S) /\ DOMAIN s \subseteq Nat \ {0}
  OBVIOUS

(***************************************************************************)
(* A CR whose fields are replaced by values of their types is a CR.        *)
(***************************************************************************)
LEMMA ObjectTypes ==
  ASSUME NEW names, NEW anns, NEW statuses, NEW specs,
         NEW o \in Objects(names, anns, statuses, specs)
  PROVE  LET Object == Objects(names, anns, statuses, specs)
         IN /\ \A b \in BOOLEAN : [o EXCEPT !.fin = b] \in Object /\ [o EXCEPT !.del = b] \in Object
            /\ \A c \in CreateOutcome : [o EXCEPT !.create = c] \in Object
            /\ \A n \in names \cup {None} : [o EXCEPT !.name = n] \in Object
            /\ \A i \in statuses \cup {None} : [o EXCEPT !.status = i] \in Object
            /\ \A p \in specs : [o EXCEPT !.spec = p] \in Object
            /\ \A n \in names \cup {None}, i \in statuses \cup {None} :
                 [o EXCEPT !.name = n, !.status = i] \in Object
            /\ \A a \in anns \cup {None} : [o EXCEPT !.ann = a] \in Object
            /\ \A c \in CreateOutcome, n \in names \cup {None}, a \in anns \cup {None} :
                 [o EXCEPT !.create = c, !.name = n, !.ann = a] \in Object
  BY DEF Objects

(***************************************************************************)
(* What the fields of a CR are taken from.                                 *)
(***************************************************************************)
LEMMA FieldTypes ==
  ASSUME NEW names, NEW anns, NEW statuses, NEW specs,
         NEW o \in Objects(names, anns, statuses, specs)
  PROVE  /\ o.exists \in BOOLEAN /\ o.fin \in BOOLEAN /\ o.del \in BOOLEAN
         /\ o.create \in CreateOutcome
         /\ o.name \in names \cup {None} /\ o.ann \in anns \cup {None}
         /\ o.status \in statuses \cup {None} /\ o.spec \in specs \cup {None}
  BY DEF Objects

(***************************************************************************)
(* A CR that does not exist, and one that was just applied.                *)
(***************************************************************************)
LEMMA NewObjectTypes ==
  ASSUME NEW names, NEW anns, NEW statuses, NEW specs
  PROVE  /\ NoObject \in Objects(names, anns, statuses, specs)
         /\ \A p \in specs, n \in names \cup {None} :
              NewObject(p, n) \in Objects(names, anns, statuses, specs)
  BY DEF Objects, NoObject, NewObject, CreateOutcome

(***************************************************************************)
(* A CR that was just applied, or restored with what it was stored with,   *)
(* is well typed and has nothing attached to it.                           *)
(***************************************************************************)
LEMMA AppliedStarts ==
  ASSUME NEW names, NEW anns, NEW statuses, NEW specs, NEW steps, NEW objects,
         RuntimeInit(objects), objects \subseteq Objects(names, anns, statuses, specs),
         \A o \in objects : o.exists /\ ~o.fin /\ ~o.del /\ o.spec # None
  PROVE  /\ RuntimeTypeOK(Objects(names, anns, statuses, specs), steps)
         /\ Attached({})
         /\ Stage = "live"
<1>1. /\ mem = NoObject /\ cache = api /\ pc = "idle" /\ fresh = FALSE /\ edits = 0 /\ faults = 0
      /\ api \in Objects(names, anns, statuses, specs)
      /\ api.exists /\ ~api.fin /\ ~api.del /\ api.spec # None
  BY DEF RuntimeInit
<1>2. NoObject \in Objects(names, anns, statuses, specs) /\ ~NoObject.exists /\ ~NoObject.del
  BY NewObjectTypes DEF NoObject
<1>3. QED
  BY <1>1, <1>2 DEF RuntimeTypeOK, Attached, FreshCopy, HeldWhileCreating, DeletionSeen,
     Specified, Findable, AtMostOne, NothingToFind, Creating, Stage

(***************************************************************************)
(* So does one that was just applied, with at most an external-name.       *)
(***************************************************************************)
LEMMA RuntimeStarts ==
  ASSUME NEW names, NEW anns, NEW statuses, NEW specs, NEW steps, NEW objects,
         None \notin specs, RuntimeInit(objects),
         \A o \in objects : \E p \in specs, n \in names \cup {None} : o = NewObject(p, n)
  PROVE  /\ RuntimeTypeOK(Objects(names, anns, statuses, specs), steps)
         /\ Attached({})
         /\ Stage = "live"
<1>1. ASSUME NEW o \in objects
      PROVE  /\ o \in Objects(names, anns, statuses, specs)
             /\ o.exists /\ ~o.fin /\ ~o.del /\ o.spec # None
  <2>1. PICK p \in specs, n \in names \cup {None} : o = NewObject(p, n)
    OBVIOUS
  <2>2. QED  BY <2>1, NewObjectTypes DEF NewObject, NoObject
<1>2. QED  BY <1>1, AppliedStarts

(***************************************************************************)
(* The reconciler and the informer keep the variables in their types.      *)
(***************************************************************************)
LEMMA RuntimeTypes ==
  ASSUME NEW names, NEW anns, NEW statuses, NEW specs, NEW steps,
         NEW initializers \in BOOLEAN, initializers => MetaName \in names,
         RuntimeTypeOK(Objects(names, anns, statuses, specs), steps),
         ReconcilerStep(initializers) \/ CacheSync
  PROVE  RuntimeTypeOK(Objects(names, anns, statuses, specs), steps)'
<1> DEFINE Object == Objects(names, anns, statuses, specs)
<1> USE DEF RuntimeTypeOK
<1>0. /\ api \in Object /\ cache \in Object /\ mem \in Object /\ NoObject \in Object
      /\ api.status \in statuses \cup {None} /\ mem.status \in statuses \cup {None}
      /\ mem.name \in names \cup {None} /\ mem.ann \in anns \cup {None}
  BY NewObjectTypes, FieldTypes
<1>1. ASSUME NEW o \in Object PROVE Stored(o) \in Object
  BY <1>0, ObjectTypes
<1> HIDE DEF Object
<1>2. CASE Begin(initializers)  BY <1>0, <1>2 DEF Begin, Object
<1>3. CASE initializers /\ Initialize
  <2>1. [mem EXCEPT !.name = MetaName] \in Object
    BY <1>0, <1>3, ObjectTypes DEF Object
  <2>2. api' \in Object /\ mem' \in Object
    BY <1>1, <1>3, <2>1 DEF Initialize
  <2>3. QED  BY <1>0, <1>3, <2>2 DEF Initialize, Object
<1>4. CASE WaitOutGrace  BY <1>4 DEF WaitOutGrace
<1>5. CASE RemoveFinalizer  BY <1>0, <1>5 DEF RemoveFinalizer, Object
<1>6. CASE AddFinalizer
  <2>1. [mem EXCEPT !.fin = TRUE] \in Object
    BY <1>0, ObjectTypes DEF Object
  <2>2. api' \in Object /\ mem' \in Object
    BY <1>1, <1>6, <2>1 DEF AddFinalizer
  <2>3. QED  BY <1>0, <1>6, <2>2 DEF AddFinalizer, Object
<1>7. CASE MarkPending
  <2>1. [mem EXCEPT !.create = "pending"] \in Object
    BY <1>0, ObjectTypes DEF Object, CreateOutcome
  <2>2. api' \in Object /\ mem' \in Object
    BY <1>1, <1>7, <2>1 DEF MarkPending
  <2>3. QED  BY <1>0, <1>7, <2>2 DEF MarkPending, Object
<1>8. CASE RecordCreate
  <2>1. PICK c \in CreateOutcome : api' = [api EXCEPT !.create = c, !.name = mem.name, !.ann = mem.ann]
    BY <1>8 DEF RecordCreate, CreateOutcome
  <2>2. api' \in Object
    BY <1>0, <2>1, ObjectTypes DEF Object
  <2>3. QED  BY <1>0, <1>8, <2>2 DEF RecordCreate, Object
<1>9. CASE PersistStatus
  <2>1. api' \in Object
    BY <1>0, <1>9, ObjectTypes DEF PersistStatus, Object
  <2>2. QED  BY <1>0, <1>9, <2>1 DEF PersistStatus, Object
<1>10. CASE Conflict  BY <1>0, <1>10 DEF Conflict, Object
<1>11. CASE CacheSync  BY <1>0, <1>11 DEF CacheSync, Object
<1>12. QED
  BY <1>2, <1>3, <1>4, <1>5, <1>6, <1>7, <1>8, <1>9, <1>10, <1>11 DEF ReconcilerStep

(***************************************************************************)
(* So do the user and a crash.                                             *)
(***************************************************************************)
LEMMA OutsideTypes ==
  ASSUME NEW names, NEW anns, NEW statuses, NEW specs, NEW steps,
         RuntimeTypeOK(Objects(names, anns, statuses, specs), steps),
         (\E p \in specs : EditSpec(p)) \/ RequestDelete \/ Abort
  PROVE  RuntimeTypeOK(Objects(names, anns, statuses, specs), steps)'
<1> DEFINE Object == Objects(names, anns, statuses, specs)
<1> USE DEF RuntimeTypeOK
<1>0. api \in Object /\ cache \in Object /\ mem \in Object /\ NoObject \in Object
  BY NewObjectTypes
<1> HIDE DEF Object
<1>1. ASSUME NEW p \in specs, EditSpec(p)
      PROVE  RuntimeTypeOK(Object, steps)'
  <2>1. api' \in Object
    BY <1>0, <1>1, ObjectTypes DEF EditSpec, Object
  <2>2. edits' \in Nat /\ fresh' = FALSE /\ UNCHANGED <<cache, mem, pc, faults>>
    BY <1>1 DEF EditSpec
  <2>3. QED  BY <2>1, <2>2 DEF Object
<1>2. CASE RequestDelete
  <2>1. api' \in Object
    BY <1>0, <1>2, ObjectTypes DEF RequestDelete, Object
  <2>2. QED  BY <1>0, <1>2, <2>1 DEF RequestDelete, Object
<1>3. CASE Abort
  <2>1. faults' \in Nat
    BY <1>3 DEF Abort
  <2>2. pc' = "idle" /\ mem' = NoObject /\ fresh' = FALSE /\ UNCHANGED <<api, cache, edits>>
    BY <1>3 DEF Abort
  <2>3. QED  BY <1>0, <2>1, <2>2 DEF Object
<1>4. QED  BY <1>1, <1>2, <1>3 DEF Object

USE DEF Creating

(***************************************************************************)
(* Where a step of the reconciler starts and ends: it takes no part in     *)
(* what goes on between two steps of a handler.                            *)
(***************************************************************************)
LEMMA RuntimeSteps ==
  ASSUME NEW initializers \in BOOLEAN, ReconcilerStep(initializers)
  PROVE  /\ pc \in Observed \cup {"idle", "initialize", "created", "createFailed", "status"}
         /\ pc' \in Observed \cup {"idle", "initialize", "observe", "create", "status"}
  BY DEF ReconcilerStep, Begin, Initialize, WaitOutGrace, RemoveFinalizer, AddFinalizer,
     MarkPending, RecordCreate, PersistStatus, Conflict

(***************************************************************************)
(* The external-name and the annotation are copied together: what holds    *)
(* of the two in every copy, and of a CR that is gone or was given its own *)
(* name, goes on holding.                                                  *)
(***************************************************************************)
LEMMA NotesStay ==
  ASSUME NEW names, NEW anns, NEW statuses, NEW specs, NEW steps, NEW notes,
         RuntimeTypeOK(Objects(names, anns, statuses, specs), steps),
         <<None, None>> \in notes, \A a \in anns \cup {None} : <<MetaName, a>> \in notes,
         \A o \in {api, cache, mem} : <<o.name, o.ann>> \in notes,
         \/ ReconcilerStep(TRUE) \/ CacheSync \/ (\E p \in specs : EditSpec(p))
         \/ RequestDelete \/ Abort
  PROVE  \A o \in {api, cache, mem}' : <<o.name, o.ann>> \in notes
<1> DEFINE Object == Objects(names, anns, statuses, specs)
           Noted(o) == <<o.name, o.ann>> \in notes
<1>1. /\ api \in Object /\ cache \in Object /\ mem \in Object
      /\ Noted(api) /\ Noted(cache) /\ Noted(mem) /\ Noted(NoObject)
      /\ mem.ann \in anns \cup {None}
  BY FieldTypes DEF RuntimeTypeOK, NoObject
<1> SUFFICES Noted(api') /\ Noted(cache') /\ Noted(mem')
  OBVIOUS
<1>2. CASE Begin(TRUE) \/ WaitOutGrace \/ RemoveFinalizer \/ Conflict \/ CacheSync \/ Abort
  BY <1>1, <1>2 DEF Begin, WaitOutGrace, RemoveFinalizer, Conflict, CacheSync, Abort
<1>3. CASE Initialize
  <2>1. api'.name = MetaName /\ api'.ann = mem.ann /\ mem' = api' /\ cache' = cache
    BY <1>1, <1>3 DEF Initialize, Objects
  <2>2. QED  BY <1>1, <2>1
<1>4. CASE AddFinalizer
  <2>1. api'.name = mem.name /\ api'.ann = mem.ann /\ mem' = api' /\ cache' = cache
    BY <1>1, <1>4 DEF AddFinalizer, Objects
  <2>2. QED  BY <1>1, <2>1
<1>5. CASE MarkPending
  <2>1. api'.name = mem.name /\ api'.ann = mem.ann /\ mem' = api' /\ cache' = cache
    BY <1>1, <1>5 DEF MarkPending, Objects
  <2>2. QED  BY <1>1, <2>1
<1>6. CASE RecordCreate
  <2>1. api'.name = mem.name /\ api'.ann = mem.ann /\ mem' = api' /\ cache' = cache
    BY <1>1, <1>6 DEF RecordCreate, Objects
  <2>2. QED  BY <1>1, <2>1
<1>7. CASE PersistStatus
  <2>1. api'.name = api.name /\ api'.ann = api.ann /\ mem' = NoObject /\ cache' = cache
    BY <1>1, <1>7 DEF PersistStatus, Objects
  <2>2. QED  BY <1>1, <2>1
<1>8. ASSUME NEW p \in specs, EditSpec(p)
      PROVE  Noted(api') /\ Noted(cache') /\ Noted(mem')
  <2>1. api'.name = api.name /\ api'.ann = api.ann /\ mem' = mem /\ cache' = cache
    BY <1>1, <1>8 DEF EditSpec, Objects
  <2>2. QED  BY <1>1, <2>1
<1>9. CASE RequestDelete
  <2>1. /\ (api'.name = api.name /\ api'.ann = api.ann) \/ api' = NoObject
        /\ mem' = mem /\ cache' = cache
    BY <1>1, <1>9 DEF RequestDelete, Objects
  <2>2. QED  BY <1>1, <2>1
<1>10. QED
  BY <1>2, <1>3, <1>4, <1>5, <1>6, <1>7, <1>8, <1>9 DEF ReconcilerStep

(***************************************************************************)
(* The reconciler exchanges a stored external-name only at the end of a    *)
(* creation, which began with a copy that had it and led to nothing.       *)
(***************************************************************************)
LEMMA NameStays ==
  ASSUME NEW names, NEW anns, NEW statuses, NEW specs, NEW steps, NEW held,
         RuntimeTypeOK(Objects(names, anns, statuses, specs), steps), Attached(held),
         NEW initializers \in BOOLEAN, ReconcilerStep(initializers)
  PROVE  /\ pc' = "missing" => pc = "missing" /\ mem'.name = mem.name /\ mem'.ann = mem.ann
         /\ pc' \in Creating => pc = "missing" /\ api'.name = mem.name /\ api'.ann = mem.ann
         /\ \/ api'.name = api.name \/ ~api'.exists \/ api.name = None
            \/ pc \in Creating
<1> DEFINE Object == Objects(names, anns, statuses, specs)
<1>1. api \in Object /\ mem \in Object /\ FreshCopy /\ (pc = "initialize" => mem.name = None)
  BY DEF RuntimeTypeOK, Attached, HeldWhileCreating
<1>2. CASE Begin(initializers) \/ WaitOutGrace \/ RemoveFinalizer \/ Conflict
  BY <1>2 DEF Begin, WaitOutGrace, RemoveFinalizer, Conflict, NoObject
<1>3. CASE Initialize
  BY <1>1, <1>3 DEF Initialize, FreshCopy
<1>4. CASE AddFinalizer
  <2>1. /\ api'.name = mem.name /\ mem'.name = mem.name /\ mem'.ann = mem.ann
        /\ pc' = pc /\ fresh /\ pc \in Observed
    BY <1>1, <1>4 DEF AddFinalizer, Objects
  <2>2. QED  BY <1>1, <2>1 DEF FreshCopy
<1>5. CASE MarkPending
  <2>1. /\ api'.name = mem.name /\ api'.ann = mem.ann
        /\ pc = "missing" /\ pc' = "create" /\ fresh
    BY <1>1, <1>5 DEF MarkPending, Objects
  <2>2. QED  BY <1>1, <2>1 DEF FreshCopy
<1>6. CASE RecordCreate
  BY <1>6 DEF RecordCreate
<1>7. CASE PersistStatus
  <2>1. api'.name = api.name /\ pc' = "idle"
    BY <1>1, <1>7 DEF PersistStatus, Objects
  <2>2. QED  BY <2>1
<1>8. QED
  BY <1>2, <1>3, <1>4, <1>5, <1>6, <1>7 DEF ReconcilerStep

(***************************************************************************)
(* The steps of ExternalLifecycle, with nothing said of leaving.           *)
(***************************************************************************)
HoldsStep(held, after) ==
  \/ after = held /\ \/ Stage' = Stage
                     \/ Stage = "live" /\ Stage' = "deleting"
                     \/ Stage \in {"live", "deleting"} /\ Stage' = "gone" /\ held = {}
  \/ Stage' = Stage /\ held # {} /\ after = {}
  \/ Stage' = Stage /\ Stage # "gone" /\ held = {} /\ \E id : after = {id}

(***************************************************************************)
(* The reconciler and the informer keep what is held attached to the CR,   *)
(* and the reconciler lets go of a CR only in deletion and with nothing    *)
(* held.                                                                   *)
(***************************************************************************)
LEMMA RuntimeAttaches ==
  ASSUME NEW names, NEW anns, NEW statuses, NEW specs, NEW steps, NEW held,
         RuntimeTypeOK(Objects(names, anns, statuses, specs), steps),
         None \notin held, Attached(held),
         NEW initializers \in BOOLEAN, ReconcilerStep(initializers) \/ CacheSync
  PROVE  Attached(held)' /\ HoldsStep(held, held)
<1> SUFFICES /\ Attached(held)'
             /\ Stage' = Stage \/ (Stage = "deleting" /\ Stage' = "gone" /\ held = {})
  BY DEF HoldsStep
<1> DEFINE Object == Objects(names, anns, statuses, specs)
<1> USE DEF Attached, FreshCopy, HeldWhileCreating, DeletionSeen, Specified, Findable,
        AtMostOne, NothingToFind
<1>0. api \in Object /\ mem \in Object /\ cache \in Object
  BY DEF RuntimeTypeOK
<1>none. NoObject.exists = FALSE /\ NoObject.fin = FALSE /\ NoObject.del = FALSE
  BY DEF NoObject
<1>stage. ASSUME api'.exists = api.exists, api'.del = api.del PROVE Stage' = Stage
  BY <1>stage DEF Stage
<1>1. CASE Begin(initializers)
  BY <1>0, <1>1, <1>stage DEF Begin
<1>2. CASE Initialize
  <2>1. /\ mem' = api' /\ api'.name = MetaName /\ api'.spec = mem.spec
        /\ api'.fin = mem.fin /\ api'.del = mem.del /\ api'.create = mem.create
        /\ api'.exists = mem.exists
    BY <1>0, <1>2 DEF Initialize, Objects
  <2>2. held = {}
    BY <1>2 DEF Initialize
  <2>3. QED  BY <1>2, <1>stage, <2>1, <2>2 DEF Initialize
<1>3. CASE WaitOutGrace  BY <1>3, <1>stage DEF WaitOutGrace
<1>4. CASE RemoveFinalizer
  <2>1. api' = NoObject /\ mem' = NoObject /\ pc' = "idle" /\ ~fresh' /\ cache' = cache
    BY <1>4 DEF RemoveFinalizer
  <2>2. held = {} /\ mem.exists /\ api.exists /\ api.del
    BY <1>4 DEF RemoveFinalizer
  <2>3. Stage = "deleting" /\ Stage' = "gone"
    BY <2>1, <2>2 DEF Stage, NoObject
  <2>4. QED  BY <1>none, <2>1, <2>2, <2>3
<1>5. CASE AddFinalizer
  <2>1. /\ mem' = api' /\ api'.name = mem.name /\ api'.spec = mem.spec
        /\ api'.fin /\ api'.del = mem.del /\ api'.create = mem.create
        /\ api'.exists = mem.exists
    BY <1>0, <1>5 DEF AddFinalizer, Objects
  <2>2. /\ mem.exists /\ fresh /\ fresh' /\ pc \in Observed /\ ~mem.del
        /\ UNCHANGED <<cache, pc>>
    BY <1>5 DEF AddFinalizer
  <2>3. Attached(held)'
    BY <2>1, <2>2
  <2>4. QED  BY <1>stage, <2>1, <2>2, <2>3
<1>6. CASE MarkPending
  <2>1. /\ mem' = api' /\ api'.name = mem.name /\ api'.create = "pending"
        /\ api'.fin = mem.fin /\ api'.del = mem.del /\ api'.spec = mem.spec
        /\ api'.exists = mem.exists
    BY <1>0, <1>6 DEF MarkPending, Objects
  <2>2. QED  BY <1>6, <1>stage, <2>1 DEF MarkPending
<1>7. CASE RecordCreate
  <2>1. /\ mem' = api' /\ api'.name = mem.name /\ api'.spec = api.spec
        /\ api'.fin = api.fin /\ api'.del = api.del /\ api'.exists = api.exists
    <3>1. \E outcome \in {"succeeded", "failed"} :
            api' = [api EXCEPT !.create = outcome, !.name = mem.name, !.ann = mem.ann]
      BY <1>7 DEF RecordCreate
    <3>2. mem' = api'
      BY <1>7 DEF RecordCreate
    <3>3. QED  BY <1>0, <3>1, <3>2 DEF Objects
  <2>2. /\ pc \in {"created", "createFailed"} /\ pc' = "status" /\ fresh'
        /\ api'.create # "pending" /\ cache' = cache
    BY <1>0, <1>7 DEF RecordCreate, Objects
  <2>3. Attached(held)'
    BY <2>1, <2>2
  <2>4. QED  BY <1>stage, <2>1, <2>3
<1>8. CASE PersistStatus
  <2>1. /\ api'.name = api.name /\ api'.create = api.create /\ api'.spec = api.spec
        /\ api'.fin = api.fin /\ api'.del = api.del /\ api'.exists = api.exists
    BY <1>0, <1>8 DEF PersistStatus, Objects
  <2>2. pc' = "idle" /\ mem' = NoObject /\ fresh' = FALSE /\ UNCHANGED cache
    BY <1>8 DEF PersistStatus
  <2>3. QED  BY <1>none, <1>stage, <2>1, <2>2
<1>9. CASE Conflict
  <2>1. pc' = "idle" /\ mem' = NoObject /\ fresh' = FALSE /\ UNCHANGED <<api, cache>>
    BY <1>9 DEF Conflict
  <2>2. QED  BY <1>none, <1>stage, <2>1
<1>10. CASE CacheSync  BY <1>10, <1>stage DEF CacheSync
<1>11. QED
  BY <1>1, <1>2, <1>3, <1>4, <1>5, <1>6, <1>7, <1>8, <1>9, <1>10 DEF ReconcilerStep

(***************************************************************************)
(* The user and a crash keep it attached too, and a CR goes at the user's  *)
(* word only when nothing is held.                                         *)
(***************************************************************************)
LEMMA OutsideAttaches ==
  ASSUME NEW names, NEW anns, NEW statuses, NEW specs, NEW steps, NEW held,
         RuntimeTypeOK(Objects(names, anns, statuses, specs), steps),
         None \notin specs, Attached(held),
         (\E p \in specs : EditSpec(p)) \/ RequestDelete \/ Abort
  PROVE  Attached(held)' /\ HoldsStep(held, held)
<1> SUFFICES /\ Attached(held)'
             /\ \/ Stage' = Stage
                \/ Stage = "live" /\ (Stage' = "deleting" \/ (Stage' = "gone" /\ held = {}))
  BY DEF HoldsStep
<1> DEFINE Object == Objects(names, anns, statuses, specs)
<1> USE DEF Attached, FreshCopy, HeldWhileCreating, DeletionSeen, Specified, Findable,
        AtMostOne, NothingToFind
<1>0. api \in Object /\ mem \in Object /\ cache \in Object
  BY DEF RuntimeTypeOK
<1>none. NoObject.exists = FALSE /\ NoObject.fin = FALSE /\ NoObject.del = FALSE
  BY DEF NoObject
<1>stage. ASSUME api'.exists = api.exists, api'.del = api.del PROVE Stage' = Stage
  BY <1>stage DEF Stage
<1>1. ASSUME NEW p \in specs, EditSpec(p)
      PROVE  Attached(held)' /\ Stage' = Stage
  <2>1. /\ api'.name = api.name /\ api'.create = api.create /\ api'.spec = p
        /\ api'.fin = api.fin /\ api'.del = api.del /\ api'.exists = api.exists
        /\ ~fresh' /\ UNCHANGED <<cache, mem, pc>>
    BY <1>0, <1>1 DEF EditSpec, Objects
  <2>2. QED  BY <1>stage, <2>1
<1>2. CASE RequestDelete /\ api.fin
  <2>1. /\ api'.name = api.name /\ api'.create = api.create /\ api'.spec = api.spec
        /\ api'.fin /\ api'.del /\ api'.exists = api.exists
        /\ ~fresh' /\ UNCHANGED <<cache, mem, pc>>
    BY <1>0, <1>2 DEF RequestDelete, Objects
  <2>2. QED  BY <1>2, <2>1 DEF RequestDelete, Stage
<1>3. CASE RequestDelete /\ ~api.fin
  <2>1. api' = NoObject /\ ~fresh' /\ UNCHANGED <<cache, mem, pc>>
    BY <1>3 DEF RequestDelete
  <2>2. held = {} /\ Stage = "live" /\ Stage' = "gone"
    BY <1>3, <2>1 DEF RequestDelete, NoObject, Stage
  <2>3. QED  BY <1>3, <1>none, <2>1, <2>2
<1>4. CASE Abort
  <2>1. pc' = "idle" /\ mem' = NoObject /\ fresh' = FALSE /\ UNCHANGED <<api, cache>>
    BY <1>4 DEF Abort
  <2>2. QED  BY <1>none, <1>stage, <2>1
<1>5. QED  BY <1>1, <1>2, <1>3, <1>4

(***************************************************************************)
(* What a kind's handler may do to its copy of the CR and to the resources *)
(* it holds: what it finds missing is not held, what it comes to hold is   *)
(* made while the creation is pending and has its identifier on the copy.  *)
(***************************************************************************)
HandlerStep(held, after) ==
  /\ UNCHANGED <<api, cache, fresh>>
  /\ pc # "idle" /\ pc' \notin {"idle", "initialize", "observe"}
  /\ mem'.exists = mem.exists /\ mem'.fin = mem.fin /\ mem'.del = mem.del
  /\ mem'.create = mem.create /\ mem'.spec = mem.spec
  /\ pc \in Creating <=> pc' \in Creating
  /\ pc' \in Observed => pc = "observe"
  /\ pc \notin Creating => mem'.name = mem.name
  /\ pc \notin {"create", "add"} => after \subseteq held
  /\ pc' \in {"create", "add"} => after = {}
  /\ pc' = "missing" => mem.name \notin held
  /\ pc' \in Creating => \A id \in after : mem'.name = id

(***************************************************************************)
(* Such a handler keeps what is held attached.                             *)
(***************************************************************************)
LEMMA HandlerAttaches ==
  ASSUME NEW held, NEW after, Attached(held), HandlerStep(held, after)
  PROVE  Attached(after)' /\ HoldsStep(held, after)
<1> USE DEF Attached, FreshCopy, HeldWhileCreating, DeletionSeen, Specified, Findable,
        AtMostOne, NothingToFind, HandlerStep
<1>1. Stage' = Stage
  BY DEF Stage
<1>2. pc' = "missing" /\ fresh => held = {}
  OBVIOUS
<1>3. CASE pc \in {"create", "add"}
  <2>1. held = {} /\ api.exists
    BY <1>3
  <2>2. after = {} \/ \E id : after = {id}
    BY <1>3
  <2>3. Attached(after)'
    BY <1>3
  <2>4. QED  BY <1>1, <2>1, <2>2, <2>3 DEF HoldsStep, Stage
<1>4. CASE pc \notin {"create", "add"}
  <2>1. after = held \/ (held # {} /\ after = {})
    BY <1>4
  <2>2. Attached(after)'
    BY <1>2, <1>4
  <2>3. QED  BY <1>1, <2>1, <2>2 DEF HoldsStep
<1>5. QED  BY <1>3, <1>4

(***************************************************************************)
(* Losing a resource to Azure DevOps or to its administrators disturbs     *)
(* nothing.                                                                *)
(***************************************************************************)
LEMMA LossAttaches ==
  ASSUME NEW held, NEW after, Attached(held), after \subseteq held,
         UNCHANGED <<api, cache, mem, fresh, pc>>
  PROVE  Attached(after)' /\ HoldsStep(held, after)
<1>1. Attached(after)' /\ Stage' = Stage
  BY DEF Attached, FreshCopy, HeldWhileCreating, DeletionSeen, Specified, Findable,
     AtMostOne, NothingToFind, Stage
<1>2. after = held \/ (held # {} /\ after = {})
  BY DEF Attached, AtMostOne
<1>3. QED  BY <1>1, <1>2 DEF HoldsStep

(***************************************************************************)
(* While something is held for a CR, the CR is there.                      *)
(***************************************************************************)
LEMMA NothingLeftBehind ==
  ASSUME NEW held, Attached(held), ~api.exists
  PROVE  held = {}
  BY DEF Attached, Findable, HeldWhileCreating
=============================================================================

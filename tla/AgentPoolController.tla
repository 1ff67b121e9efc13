-------------------------- MODULE AgentPoolController --------------------------
(***************************************************************************)
(* The AgentPool controller (internal/controller/agentpool): one AgentPool *)
(* CR and the agent pools of the organisation, which are known by numbers. *)
(* Unlike VariableGroup this kind keeps the default initializers, sends    *)
(* its requests through Retry, and reads a pool again before it changes    *)
(* only what differs.                                                      *)
(***************************************************************************)
EXTENDS ManagedReconciler, Sequences

CONSTANTS
  PoolNames,  \* names of agent pools
  Flags,      \* values of a setting; None is "not given" in a spec
  Attempts    \* requests Retry sends at most (DefaultBackoff.Steps)

VARIABLES
  pools,   \* pools[i]: the agent pool with number i
  tries,   \* requests the running Create has sent in vain
  patch    \* what the running Update is about to change

serviceVars == <<pools, tries, patch>>
vars == <<runtimeVars, serviceVars>>

AgentPoolParameters == [name : PoolNames, flag : Flags \cup {None}]

NoPatch == [name |-> None, flag |-> None]

ASSUME AgentPoolAssumption ==
  /\ Attempts \in Nat \ {0}
  /\ None \notin PoolNames \cup Flags \cup Nat \cup AgentPoolParameters
  /\ MetaName \notin Nat \cup {None}

Numbers == DOMAIN pools

\* owner: "us" if the controller created the pool, "named" if the user gave its
\* number to the CR, else "others".  heard: the response to its creation arrived.
NewPool(name, flag) ==
  [there |-> TRUE, name |-> name, flag |-> flag, owner |-> "us", heard |-> FALSE]

ForeignPool(name, flag, owner) == [NewPool(name, flag) EXCEPT !.owner = owner]

Kept(i) == pools[i].there /\ pools[i].owner = "us" /\ pools[i].heard

Taken(name) == {i \in Numbers : pools[i].there /\ pools[i].name = name}

-----------------------------------------------------------------------------
(* The handlers *)

AgentPoolIDFrom(object) == IF object.name # None THEN object.name ELSE object.status

\* strconv.Atoi: only the CR's own name may be something else than a number.
IsNumber(id) == id # MetaName

Get(i) == i \in Numbers /\ pools[i].there

IsUpToDate(p, pool) == pool.name = p.name /\ p.flag \in {None, pool.flag}

\* Seeded fault: any failure to find the pool counts as a pool that is missing.
Observe_ErrorMissing ==
  LET i == AgentPoolIDFrom(mem)
      seen == [mem EXCEPT !.status = i]
  IN /\ \/ /\ Fault \/ (~Get(i) /\ UNCHANGED faults)
           /\ ObserveReturns(mem, "missing")
        \/ /\ Get(i)
           /\ ObserveReturns(seen, IF IsUpToDate(mem.spec, pools[i]) THEN "current" ELSE "stale")
           /\ UNCHANGED faults
     /\ UNCHANGED serviceVars

\* When the context has ended before the read, Retry gives neither a pool nor an
\* error (module Retry): the pool counts as there, and as not up to date.
Observe ==
  LET i == AgentPoolIDFrom(mem)
      seen == [mem EXCEPT !.status = i]
  IN /\ \/ /\ IsNumber(i) /\ Fault
           /\ ObserveReturns([mem EXCEPT !.status = None], "stale")
        \/ /\ ~IsNumber(i)
           /\ ObserveReturns(mem, "status")
           /\ UNCHANGED faults
        \/ /\ Fault
           /\ ObserveReturns(mem, "status")
        \/ /\ IsNumber(i) /\ ~Get(i)
           /\ ObserveReturns(mem, "missing")
           /\ UNCHANGED faults
        \/ /\ Get(i)
           /\ ObserveReturns(seen, IF IsUpToDate(mem.spec, pools[i]) THEN "current" ELSE "stale")
           /\ UNCHANGED faults
     /\ UNCHANGED serviceVars

\* What a setting the spec leaves open becomes is up to Azure DevOps.
CreatedPools(p) ==
  IF Taken(p.name) # {} THEN {}
  ELSE {Append(pools, NewPool(p.name, flag)) :
          flag \in IF p.flag = None THEN Flags ELSE {p.flag}}

\* Seeded fault: a refusal on a repeated request is taken for success.
Create_RefusedIsMade ==
  /\ pc = "create"
  /\ \/ /\ \E made \in CreatedPools(mem.spec) :
             pools' = [made EXCEPT ![Len(made)].heard = TRUE]
        /\ mem' = [mem EXCEPT !.name = Len(pools'), !.status = Len(pools')]
     \/ /\ \E i \in Taken(mem.spec.name) : mem' = [mem EXCEPT !.name = i, !.status = i]
        /\ UNCHANGED pools
  /\ pc' = "created" /\ tries' = 0
  /\ UNCHANGED <<api, cache, fresh, edits, faults, patch>>

\* Seeded fault: one attempt more than the schedule has steps.
Create_OneMore ==
  /\ pc = "create" /\ Fault
  /\ IF tries < Attempts
       THEN tries' = tries + 1 /\ UNCHANGED pc
       ELSE tries' = 0 /\ pc' = "createFailed"
  /\ UNCHANGED <<api, cache, mem, fresh, edits, pools, patch>>

(***************************************************************************)
(* One request of Create's Retry.  A lost response or a failing server is  *)
(* tried again while attempts are left; the name being taken, if only by   *)
(* the pool of an earlier attempt, is final.  The context may end in any   *)
(* wait between requests.  When it ends before the first one there is no   *)
(* pool and no error, which Create reports as a failure: a fault without a *)
(* pool, followed by the end.                                              *)
(***************************************************************************)
Create ==
  /\ pc = "create"
  /\ \/ /\ Taken(mem.spec.name) # {} \/ tries > 0
        /\ pc' = "createFailed" /\ tries' = 0
        /\ UNCHANGED <<mem, pools, faults>>
     \/ /\ Fault
        /\ pools' \in {pools} \cup CreatedPools(mem.spec)
        /\ IF tries + 1 < Attempts
             THEN tries' = tries + 1 /\ UNCHANGED pc
             ELSE tries' = 0 /\ pc' = "createFailed"
        /\ UNCHANGED mem
     \/ /\ \E made \in CreatedPools(mem.spec) :
             pools' = [made EXCEPT ![Len(made)].heard = TRUE]
        /\ mem' = [mem EXCEPT !.name = Len(pools'), !.status = Len(pools')]
        /\ pc' = "created" /\ tries' = 0
        /\ UNCHANGED faults
  /\ UNCHANGED <<api, cache, fresh, edits, patch>>

\* Seeded fault: the patch carries the whole pool as it was read.
DesiredAgentPoolUpdate_Whole(p, pool) ==
  IF IsUpToDate(p, pool) THEN NoPatch
  ELSE [name |-> p.name, flag |-> IF p.flag = None THEN pool.flag ELSE p.flag]

\* Seeded fault: the setting is left to the creation.
DesiredAgentPoolUpdate_NameOnly(p, pool) ==
  [name |-> IF p.name = pool.name THEN None ELSE p.name, flag |-> None]

\* Only what differs is sent.
DesiredAgentPoolUpdate(p, pool) ==
  [name |-> IF p.name = pool.name THEN None ELSE p.name,
   flag |-> IF p.flag \in {None, pool.flag} THEN None ELSE p.flag]

Patched(pool, change) ==
  [pool EXCEPT !.name = IF change.name = None THEN pool.name ELSE change.name,
               !.flag = IF change.flag = None THEN pool.flag ELSE change.flag]

\* Update reads the pool again: it may be gone or up to date by now.  A context that
\* has ended leaves it with no pool and no error here, too, and the first field of
\* that is a panic: the worker recovers from it, as from a crash.
ReadForUpdate ==
  LET i == AgentPoolIDFrom(mem)
  IN /\ MayUpdate
     /\ \/ /\ Fault \/ (~Get(i) /\ UNCHANGED faults)
           /\ pc' = "status" /\ UNCHANGED patch
        \/ /\ Get(i)
           /\ patch' = DesiredAgentPoolUpdate(mem.spec, pools[i])
           /\ pc' = IF patch' = NoPatch THEN "status" ELSE "patch"
           /\ UNCHANGED faults
     /\ UNCHANGED <<api, cache, mem, fresh, edits, pools, tries>>

\* The pool may have changed, or gone, since it was read.
SendPatch ==
  LET i == AgentPoolIDFrom(mem)
      accepted == Get(i) /\ (patch.name # None => Taken(patch.name) \subseteq {i})
      changed == [pools EXCEPT ![i] = Patched(pools[i], patch)]
  IN /\ pc = "patch"
     /\ \/ /\ IF accepted THEN pools' = changed ELSE UNCHANGED pools
           /\ UNCHANGED faults
        \/ /\ Fault
           /\ pools' \in {pools} \cup IF accepted THEN {changed} ELSE {}
     /\ pc' = "status" /\ patch' = NoPatch
     /\ UNCHANGED <<api, cache, mem, fresh, edits, tries>>

Update == ReadForUpdate \/ SendPatch

\* Seeded fault: nothing is deleted.
Delete_Skipped ==
  /\ MayDelete
  /\ pc' = "status"
  /\ UNCHANGED <<api, cache, mem, fresh, edits, faults, serviceVars>>

\* A pool that is gone is a success.
Delete ==
  LET i == AgentPoolIDFrom(mem)
      deleted == IF Get(i) THEN [pools EXCEPT ![i].there = FALSE] ELSE pools
  IN /\ MayDelete
     /\ \/ pools' = deleted /\ UNCHANGED faults
        \/ Fault /\ pools' \in {pools, deleted}
     /\ pc' = "status"
     /\ UNCHANGED <<api, cache, mem, fresh, edits, tries, patch>>

ControllerStep ==
  \/ ReconcilerStep(TRUE) /\ UNCHANGED serviceVars
  \/ Observe \/ Create \/ Update \/ Delete

-----------------------------------------------------------------------------
(* Faults, the user and the organisation's administrators *)

Crash == Abort /\ tries' = 0 /\ patch' = NoPatch /\ UNCHANGED pools

UserStep ==
  /\ \/ \E p \in AgentPoolParameters : EditSpec(p)
     \/ RequestDelete
  /\ UNCHANGED serviceVars

AdminStep ==
  /\ Edit
  /\ \/ \E name \in PoolNames, flag \in Flags :
          /\ Taken(name) = {}
          /\ pools' = Append(pools, ForeignPool(name, flag, "others"))
     \/ \E i \in Numbers :
          /\ pools[i].there
          /\ \/ pools' = [pools EXCEPT ![i].there = FALSE]
             \/ \E name \in PoolNames :
                  Taken(name) = {} /\ pools' = [pools EXCEPT ![i].name = name]
             \/ \E flag \in Flags \ {pools[i].flag} : pools' = [pools EXCEPT ![i].flag = flag]
  /\ UNCHANGED <<api, cache, mem, fresh, pc, faults, tries, patch>>

-----------------------------------------------------------------------------

\* A CR that was just applied, or one whose user gave it a number: that of a pool
\* or, to have one created, one that no pool has.
Init ==
  /\ \/ /\ pools = <<>>
        /\ RuntimeInit({NewObject(p, name) : p \in AgentPoolParameters, name \in {None, 0}})
     \/ \E name \in PoolNames, flag \in Flags :
          /\ pools = <<ForeignPool(name, flag, "named")>>
          /\ RuntimeInit({NewObject(p, 1) : p \in AgentPoolParameters})
  /\ tries = 0 /\ patch = NoPatch

Next ==
  \/ ControllerStep
  \/ CacheSync /\ UNCHANGED serviceVars
  \/ Crash \/ UserStep \/ AdminStep

Spec == Init /\ [][Next]_vars

\* The work queue hands the CR out again after every reconcile (poll interval,
\* requeue on error), the informer catches up, and the creation grace period ends:
\* a reconcile that finds the resource missing is not turned away for ever.
Fairness ==
  /\ WF_vars(ControllerStep)
  /\ WF_vars(CacheSync /\ UNCHANGED serviceVars)
  /\ SF_vars((RemoveFinalizer \/ MarkPending) /\ UNCHANGED serviceVars)

FairSpec == Spec /\ Fairness

-----------------------------------------------------------------------------
(* Properties *)

Object == Objects(Nat \cup {MetaName}, {}, Nat, AgentPoolParameters)

Pool ==
  [there : BOOLEAN, name : PoolNames, flag : Flags,
   owner : {"us", "named", "others"}, heard : BOOLEAN]

TypeOK ==
  /\ RuntimeTypeOK(Object, {"patch"})
  /\ pools \in Seq(Pool)
  /\ tries \in 0 .. Attempts - 1
  /\ patch \in [name : PoolNames \cup {None}, flag : Flags \cup {None}]

Held == {i \in Numbers : Kept(i)}

Lifecycle == INSTANCE ExternalLifecycle
  WITH cr <- Stage, held <- Held, leaving <- {}

\* The promise of ExternalLifecycle for the pools whose creation the controller
\* heard of: however often a creation is repeated, within Retry or by a later
\* reconcile, it makes no second one, and it does not release a CR whose pool
\* lives on, though reads fail and creations are cut short (Observe, Create).
KeepsLifecycle == Lifecycle!LifecycleSpec

\* The controller never comes to hold a pool that the user did not name and it
\* did not create, not even when a repeated request finds the name taken (Create).
OwnPool == \A i \in Numbers : i \in {api.name, api.status} => pools[i].owner # "others"

\* The controller does not undo what administrators do to a setting the spec
\* leaves open, though it reads the pool and writes it back in two steps
\* (desiredAgentPoolUpdate): it only ever sets what the spec gives.
OnlyWhatIsGiven ==
  [][\A i \in Numbers :
       edits' = edits /\ pools'[i].flag # pools[i].flag => mem.spec.flag = pools'[i].flag]_vars

\* Why the three hold: a number on any copy of the CR is that of a pool the user
\* named or the controller made, and a patch was made for the spec at hand.
OwnNumbers == {i \in Numbers : pools[i].owner # "others"}

NamesOwn ==
  \A object \in {api, cache, mem} :
    {object.name, object.status} \subseteq OwnNumbers \cup {None, MetaName, 0}

PatchGiven == pc = "patch" => patch.flag \in {None, mem.spec.flag}

IInv == TypeOK /\ Attached(Held) /\ NamesOwn /\ PatchGiven

\* When the user asks for deletion, the CR is eventually gone -- unless a crash
\* left its creation pending, or its external-name is not a number.
DeletionCompletes ==
  api.del ~> ~api.exists \/ api.create = "pending" \/ ~IsNumber(api.name)

\* Once nobody interferes any more, the pool of a CR that is kept ends up and
\* stays as the spec wants it, unless somebody else has its name, a crash left
\* the creation pending or the external-name is not a number.
Converges ==
  <>[](/\ api.exists /\ ~api.del /\ api.create # "pending" /\ IsNumber(api.name)
       /\ Taken(api.spec.name) \subseteq {api.name}
       => Get(api.name) /\ IsUpToDate(api.spec, pools[api.name]))

\* CRs as the examples have them, without an external-name.
AppliedSpec == Init /\ api.name = None /\ [][Next]_vars

\* What the test of Observe says: a pool that was never created is reported as not
\* existing.
UncreatedIsMissing ==
  [][pc = "observe" /\ pc' # pc /\ mem.create = "never" /\ faults' = faults =>
       pc' = "missing"]_vars
=============================================================================

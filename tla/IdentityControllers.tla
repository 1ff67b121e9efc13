--------------------------- MODULE IdentityControllers ---------------------------
(***************************************************************************)
(* The controllers of who is who in an organisation: internal/controller/  *)
(* {group, groupmembership, userentitlement}.  One CR of one kind and the  *)
(* groups, the members of groups, or the users of the organisation.        *)
(*                                                                         *)
(* A group is known by its descriptor and a user by a GUID, which Azure    *)
(* DevOps gives out (a number here); a membership is known by the two      *)
(* descriptors that make it (one value here, its key).                     *)
(***************************************************************************)
EXTENDS ManagedReconciler, Sequences

CONSTANTS
  Keys,       \* display names of groups, memberships, or principal names of users
  Values,     \* descriptions of a group (None: empty) or access levels of a user
  Projects,   \* projects a user may be assigned to
  GroupTypes  \* what a user may be in a project; None is "not assigned"

VARIABLES
  kind,   \* which of the three controllers this is
  items,  \* items[i]: the i-th group, membership or user entitlement
  patch   \* what the running Update of a user entitlement is about to send

serviceVars == <<kind, items, patch>>
vars == <<runtimeVars, serviceVars>>

Kinds == {"group", "groupmembership", "userentitlement"}

Grants == [Projects -> GroupTypes \cup {None}]
NoGrants == [project \in Projects |-> None]

\* spelling: whether projectIds have upper-case digits, as their pattern allows.
IdentityParameters ==
  [key : Keys, setting : Values \cup {None}, grants : Grants, spelling : {"lower", "upper"}]

\* The parameters this kind has.
Parameters ==
  CASE kind = "group" ->
         [key : Keys, setting : Values \cup {None}, grants : {NoGrants}, spelling : {"lower"}]
    [] kind = "groupmembership" ->
         [key : Keys, setting : {None}, grants : {NoGrants}, spelling : {"lower"}]
    [] kind = "userentitlement" ->
         [key : Keys, setting : Values, grants : Grants, spelling : {"lower", "upper"}]

ASSUME IdentityAssumption ==
  /\ None \notin Keys \cup Values \cup GroupTypes \cup Nat \cup IdentityParameters
  /\ MetaName \notin Keys \cup Nat \cup {None}

Ids == DOMAIN items

\* owner: "us" if the controller created it, "named" if the user gave its
\* identity to the CR, else "others".  heard: the response arrived.
NewItem(p) ==
  [there |-> TRUE, key |-> p.key, setting |-> p.setting, grants |-> p.grants,
   owner |-> "us", heard |-> FALSE]

Kept(i) == items[i].there /\ items[i].owner = "us" /\ items[i].heard

Taken(key) == {i \in Ids : items[i].there /\ items[i].key = key}

Identity(i) == IF kind = "groupmembership" THEN items[i].key ELSE i

Found(name) == {i \in Ids : items[i].there /\ Identity(i) = name}

Absent == Found(mem.name) = {}
Here == CHOOSE i \in Found(mem.name) : TRUE
It == items[Here]

-----------------------------------------------------------------------------
(* What the controllers have in common *)

\* Seeded fault: a user who may not be looked up counts as missing.
ObserveItem_ErrorMissing(refused, same) ==
  /\ pc = "observe" /\ ~refused
  /\ \/ /\ Fault \/ (Absent /\ UNCHANGED faults)
        /\ ObserveReturns([mem EXCEPT !.status = None], "missing")
     \/ /\ ~Absent
        /\ ObserveReturns([mem EXCEPT !.status = Here], IF same THEN "current" ELSE "stale")
        /\ UNCHANGED faults
  /\ UNCHANGED serviceVars

(***************************************************************************)
(* refused: the CR makes no sense to this controller.  same: what was      *)
(* found is as the spec wants it.  When the context has ended before the   *)
(* read, Retry gives neither the thing nor an error: it counts as there,   *)
(* and as not up to date if the kind compares at all.                      *)
(***************************************************************************)
ObserveItem(refused, same) ==
  /\ pc = "observe"
  /\ \/ /\ Fault
        /\ ObserveReturns(mem, "status")
     \/ /\ ~refused /\ Fault
        /\ ObserveReturns([mem EXCEPT !.status = None],
                          IF kind = "groupmembership" THEN "current" ELSE "stale")
     \/ /\ refused
        /\ ObserveReturns(mem, "status")
        /\ UNCHANGED faults
     \/ /\ ~refused /\ Absent
        /\ ObserveReturns([mem EXCEPT !.status = None], "missing")
        /\ UNCHANGED faults
     \/ /\ ~refused /\ ~Absent
        /\ ObserveReturns([mem EXCEPT !.status = Here], IF same THEN "current" ELSE "stale")
        /\ UNCHANGED faults
  /\ UNCHANGED serviceVars

(***************************************************************************)
(* One request of Create's Retry (module Retry counts the attempts).  What *)
(* is there already is refused, unless again says that asking for it twice *)
(* is the same as once.  There the answer is not looked at either, so that *)
(* nothing having been sent, because the context had ended, is a success.  *)
(***************************************************************************)
CreateItem(again) ==
  LET p == mem.spec
      made == IF Taken(p.key) = {} THEN Append(items, NewItem(p)) ELSE items
      possible == again \/ Taken(p.key) = {}
      id == CHOOSE i \in DOMAIN made : made[i].there /\ made[i].key = p.key
  IN /\ pc = "create"
     /\ \/ /\ ~possible
           /\ pc' = "createFailed"
           /\ UNCHANGED <<mem, items, faults>>
        \/ /\ Fault
           /\ items' \in {items, made}
           /\ pc' \in {"create", "createFailed"}
           /\ UNCHANGED mem
        \/ /\ again /\ Fault
           /\ mem' = [mem EXCEPT !.name = p.key, !.status = None]
           /\ pc' = "created"
           /\ UNCHANGED items
        \/ /\ possible
           /\ items' = [made EXCEPT ![id].heard = TRUE]
           /\ mem' = [mem EXCEPT !.name = IF kind = "groupmembership" THEN p.key ELSE id,
                                 !.status = id]
           /\ pc' = "created"
           /\ UNCHANGED faults
     /\ UNCHANGED <<api, cache, fresh, edits, kind, patch>>

\* Seeded fault: what the spec's key names is deleted, not what the CR holds.
DeleteItem_ByKey ==
  LET deleted == [i \in Ids |-> [items[i] EXCEPT !.there = @ /\ i \notin Taken(mem.spec.key)]]
  IN /\ MayDelete
     /\ items' = deleted
     /\ pc' = "status"
     /\ UNCHANGED <<api, cache, mem, fresh, edits, faults, kind, patch>>

\* One that is gone is a success.
DeleteItem ==
  LET deleted == IF Absent THEN items ELSE [items EXCEPT ![Here].there = FALSE]
  IN /\ MayDelete
     /\ \/ items' = deleted /\ UNCHANGED faults
        \/ Fault /\ items' \in {items, deleted}
     /\ pc' = "status"
     /\ UNCHANGED <<api, cache, mem, fresh, edits, kind, patch>>

-----------------------------------------------------------------------------
(* Group *)

IsUpToDateGroup(p, item) == item.key = p.key /\ item.setting = p.setting

\* A name that is no descriptor is a group that does not exist.
ObserveGroup == ObserveItem(FALSE, IsUpToDateGroup(mem.spec, It))

CreateGroup == CreateItem(FALSE)

\* Both fields are replaced, without another look at the group.
UpdateGroup ==
  LET p == mem.spec
      accepted == ~Absent /\ Taken(p.key) \subseteq Found(mem.name)
      changed == [items EXCEPT ![Here].key = p.key, ![Here].setting = p.setting]
  IN /\ MayUpdate
     /\ \/ /\ items' = IF accepted THEN changed ELSE items
           /\ UNCHANGED faults
        \/ /\ Fault
           /\ items' \in {items} \cup IF accepted THEN {changed} ELSE {}
     /\ pc' = "status"
     /\ UNCHANGED <<api, cache, mem, fresh, edits, kind, patch>>

Group == kind = "group" /\ (ObserveGroup \/ CreateGroup \/ UpdateGroup \/ DeleteItem)

-----------------------------------------------------------------------------
(* GroupMembership *)

\* The external-name is cut at a colon; it must say what the spec says.
MembershipIdentityFor(object) ==
  IF object.name = None THEN object.spec.key
  ELSE IF object.name = object.spec.key THEN object.name ELSE None

\* The membership is read, then the state of the member; it is always up to
\* date, so Update never runs.
ObserveGroupMembership ==
  LET refused == MembershipIdentityFor(mem) = None IN ObserveItem(refused, TRUE)

CreateGroupMembership == CreateItem(TRUE)

GroupMembership ==
  /\ kind = "groupmembership"
  /\ ObserveGroupMembership \/ CreateGroupMembership \/ DeleteItem

-----------------------------------------------------------------------------
(* UserEntitlement *)

\* uuid.Parse: only the CR's own name may be something else.
IsUserID(name) == name # MetaName

\* The assignments by the keys under which they are compared: the spec's
\* projectIds as they are spelt, those Azure DevOps returns in lower case.
ProjectEntitlementKeys(p) ==
  {<<p.spelling, project, p.grants[project]>> :
     project \in {q \in Projects : p.grants[q] # None}}

CurrentProjectEntitlementKeys(item) ==
  ProjectEntitlementKeys([grants |-> item.grants, spelling |-> "lower"])

IsUpToDateUserEntitlement(p, item) ==
  item.setting = p.setting /\ ProjectEntitlementKeys(p) = CurrentProjectEntitlementKeys(item)

ObserveUserEntitlement ==
  ObserveItem(~IsUserID(mem.name), IsUpToDateUserEntitlement(mem.spec, It))

\* The operation reports that it failed if the user is there already.
CreateUserEntitlement == CreateItem(FALSE)

\* Parsing a projectId puts it in lower case.
AddProjectEntitlementOps(p, item) ==
  {project \in Projects : p.grants[project] \notin {None, item.grants[project]}}

\* Seeded fault: only additions are sent.
RemoveProjectEntitlementOps_None(p, item) == {}

RemoveProjectEntitlementOps(p, item) ==
  {project \in Projects :
     /\ item.grants[project] # None
     /\ <<"lower", project, item.grants[project]>> \notin ProjectEntitlementKeys(p)}

PatchForUpdate(p, item) ==
  [level |-> p.setting, add |-> AddProjectEntitlementOps(p, item),
   remove |-> RemoveProjectEntitlementOps(p, item)]

\* The additions go first; a removal names a project and no group.
Patched(item, p) ==
  [item EXCEPT !.setting = patch.level,
               !.grants = [project \in Projects |->
                 CASE project \in patch.remove -> None
                   [] project \in patch.add \ patch.remove -> p.grants[project]
                   [] OTHER -> item.grants[project]]]

ReadUserEntitlement ==
  /\ MayUpdate
  /\ \/ /\ Fault \/ (Absent /\ UNCHANGED faults)
        /\ pc' = "status" /\ UNCHANGED patch
     \/ /\ ~Absent
        /\ patch' = PatchForUpdate(mem.spec, It)
        /\ pc' = "patch"
        /\ UNCHANGED faults
  /\ UNCHANGED <<api, cache, mem, fresh, edits, kind, items>>

\* The user may have changed since.  That the operation reports failure is not
\* looked at: like a lost request, it is left to the next poll.
SendUserEntitlementPatch ==
  LET changed == IF Absent THEN items ELSE [items EXCEPT ![Here] = Patched(It, mem.spec)]
  IN /\ pc = "patch"
     /\ \/ items' = changed /\ UNCHANGED faults
        \/ Fault /\ items' \in {items, changed}
     /\ pc' = "status" /\ patch' = None
     /\ UNCHANGED <<api, cache, mem, fresh, edits, kind>>

UpdateUserEntitlement == ReadUserEntitlement \/ SendUserEntitlementPatch

UserEntitlement ==
  /\ kind = "userentitlement"
  /\ \/ ObserveUserEntitlement \/ CreateUserEntitlement
     \/ UpdateUserEntitlement \/ DeleteItem

ControllerStep ==
  \/ ReconcilerStep(TRUE) /\ UNCHANGED serviceVars
  \/ Group \/ GroupMembership \/ UserEntitlement

-----------------------------------------------------------------------------
(* Faults, the user and the organisation's administrators *)

Crash == Abort /\ patch' = None /\ UNCHANGED <<kind, items>>

UserStep ==
  /\ \/ \E p \in Parameters : EditSpec(p)
     \/ RequestDelete
  /\ UNCHANGED serviceVars

ForeignItem(p, owner) == [NewItem(p) EXCEPT !.owner = owner]

AdminStep ==
  /\ Edit
  /\ \/ \E p \in Parameters :
          /\ Taken(p.key) = {}
          /\ items' = Append(items, ForeignItem(p, "others"))
     \/ \E i \in Ids :
          /\ items[i].there
          /\ \/ items' = [items EXCEPT ![i].there = FALSE]
             \/ \E p \in Parameters :
                  /\ p.key = items[i].key \/ (kind = "group" /\ Taken(p.key) = {})
                  /\ items' = [items EXCEPT ![i].key = p.key, ![i].setting = p.setting,
                                            ![i].grants = p.grants]
  /\ UNCHANGED <<api, cache, mem, fresh, pc, faults, kind, patch>>

-----------------------------------------------------------------------------

\* A CR that was just applied: alone, or with the identity of what is there or is
\* to be there.  Which key it starts with makes no difference.
Init ==
  /\ kind \in Kinds
  /\ LET first == {p \in Parameters : p.key = CHOOSE key \in Keys : TRUE}
         given(p) == IF kind = "groupmembership" THEN p.key ELSE 0
     IN \/ /\ items = <<>>
           /\ RuntimeInit({NewObject(p, None) : p \in first}
                          \cup {NewObject(p, given(p)) : p \in first})
        \/ \E p \in first :
             /\ items = <<ForeignItem(p, "named")>>
             /\ RuntimeInit({NewObject(q, Identity(1)) : q \in Parameters})
  /\ patch = None

Next ==
  \/ ControllerStep
  \/ CacheSync /\ UNCHANGED serviceVars
  \/ Crash \/ UserStep \/ AdminStep

Spec == Init /\ [][Next]_vars

\* As for the other kinds: the work queue hands the CR out again after every
\* reconcile, the informer catches up, and the creation grace period ends.
Fairness ==
  /\ WF_vars(ControllerStep)
  /\ WF_vars(CacheSync /\ UNCHANGED serviceVars)
  /\ SF_vars((RemoveFinalizer \/ MarkPending) /\ UNCHANGED serviceVars)

FairSpec == Spec /\ Fairness

-----------------------------------------------------------------------------
(* Properties *)

Object == Objects(Nat \cup Keys \cup {MetaName}, {}, Nat, Parameters)

Item ==
  [there : BOOLEAN, key : Keys, setting : Values \cup {None}, grants : Grants,
   owner : {"us", "named", "others"}, heard : BOOLEAN]

Patch == [level : Values, add : SUBSET Projects, remove : SUBSET Projects]

TypeOK ==
  /\ kind \in Kinds
  /\ RuntimeTypeOK(Object, {"patch"})
  /\ items \in Seq(Item)
  /\ IF pc = "patch" THEN patch \in Patch ELSE patch = None

Held == {Identity(i) : i \in {j \in Ids : Kept(j)}}

Lifecycle == INSTANCE ExternalLifecycle
  WITH cr <- Stage, held <- Held, leaving <- {}

\* The promise of ExternalLifecycle for the groups, memberships and entitlements
\* the controller knows to have created: though reads fail, requests are repeated
\* and the informer's copy is old, it makes no second one and does not release a
\* CR while what it made lives on (Observe, Create).
KeepsLifecycle == Lifecycle!LifecycleSpec

\* Why it does.
IInv == TypeOK /\ Attached(Held)

\* The controller refuses to act for this CR: its external-name is no identity, or
\* that of another membership than the spec's.
Refused ==
  \/ kind = "userentitlement" /\ ~IsUserID(api.name)
  \/ kind = "groupmembership" /\ api.name # api.spec.key

\* When the user asks for deletion, the CR is eventually gone, and with it what it
\* holds, whatever the spec was edited to -- unless a crash left its creation
\* pending or the controller refuses to act, as it does for an edited membership
\* (Delete, and Observe before it).
DeletionCompletes == api.del ~> ~api.exists \/ api.create = "pending" \/ Refused

\* Nothing the controller cannot help stands in the way of the spec.
Possible ==
  /\ api.exists /\ ~api.del /\ api.create # "pending" /\ ~Refused
  /\ Taken(api.spec.key) \subseteq Found(api.name)

HasWhatItGrants ==
  \E i \in Found(api.name) :
    /\ kind = "group" => IsUpToDateGroup(api.spec, items[i])
    /\ kind = "userentitlement" =>
         items[i].setting = api.spec.setting /\ items[i].grants = api.spec.grants

\* Once nobody interferes any more, what a CR that is kept asks for is there and
\* stays as the spec wants it: a group by its fields, a user by the level and by
\* every project and no other, though an update adds and removes assignments one
\* at a time (patchForUpdate).  projectIds are taken to be in lower case.
Converges == <>[](Possible /\ api.spec.spelling = "lower" => HasWhatItGrants)
=============================================================================

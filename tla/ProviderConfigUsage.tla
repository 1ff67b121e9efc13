-------------------------- MODULE ProviderConfigUsage --------------------------
(***************************************************************************)
(* How CRs come by the organisation URL and the token they work with       *)
(* (GetConfig, internal/clients/azuredevops/config.go), and how a          *)
(* ProviderConfig or ClusterProviderConfig is held back while CRs use it   *)
(* (internal/controller/config).  Every reconcile of a CR begins with      *)
(* GetConfig, that of a CR in deletion too: without its config a CR cannot *)
(* go.  GetConfig leaves a ProviderConfigUsage behind, one for each CR,    *)
(* and the controllers of the two kinds of config, crossplane-runtime's    *)
(* providerconfig.Reconciler, count the usages before they let one go.     *)
(***************************************************************************)
EXTENDS Naturals, Sequences

CONSTANTS
  Resources,     \* CRs, of any kind, in one namespace
  ConfigNames,   \* names of ProviderConfigs and ClusterProviderConfigs
  UnknownKind,   \* a kind a reference may name and GetConfig does not know
  Nothing,       \* no reference, no usage
  MaxUpsets,     \* bound: changes of references, failed calls and crashes
  MaxLag         \* bound: versions of an object its informer is yet to deliver

ConfigKinds == {"ProviderConfig", "ClusterProviderConfig"}

\* What a CR's providerConfigRef and a usage's labels name.  A CR always has a
\* reference: the CRDs give it a default.
Configs == [kind : ConfigKinds, name : ConfigNames]
References == [kind : ConfigKinds \cup {UnknownKind}, name : ConfigNames]

ASSUME ProviderConfigAssumption ==
  /\ UnknownKind \notin ConfigKinds
  /\ Nothing \notin References
  /\ MaxUpsets \in Nat /\ MaxLag \in Nat \ {0}

(***************************************************************************)
(* What a reconcile reads comes from informers, which deliver the versions *)
(* of an object in their order, but late.  crs and usages hold, for each   *)
(* object, its versions from the one the informer shows, the first, to the *)
(* one the API server has, the last.                                       *)
(***************************************************************************)
VARIABLES
  crs,      \* by CR: the versions of its stage and its reference
  run,      \* by CR: where its reconcile is, the copy of the CR it works on, and
            \* whether that is fresh: still what the API server has
  usages,   \* by CR: the versions of what its usage names; Nothing: there is none
  configs,  \* by config: its stage in the API server
  relied,   \* history: the config each CR may go on relying on, or Nothing
  upsets    \* what counts towards MaxUpsets so far

vars == <<crs, run, usages, configs, relied, upsets>>
system == <<crs, run, usages, configs, upsets>>

Seen(versions) == Head(versions)
Newest(versions) == versions[Len(versions)]

WriteCR(r, cr) ==
  /\ Len(crs[r]) <= MaxLag
  /\ crs' = [crs EXCEPT ![r] = Append(@, cr)]

WriteUsage(r, ref) ==
  /\ Len(usages[r]) <= MaxLag
  /\ usages' = [usages EXCEPT ![r] = Append(@, ref)]

\* A CR is "live" until its deletion is requested, a config is "new" until its
\* controller has given it a finalizer and "kept" after that.
ConfigStages == {"new", "kept", "deleting", "gone"}

CR == [stage : {"live", "deleting"}, ref : References]
Gone == [stage |-> "gone", ref |-> Nothing]

Upset == upsets < MaxUpsets /\ upsets' = upsets + 1

Idle == [pc |-> "idle", cr |-> Nothing, fresh |-> FALSE]

-----------------------------------------------------------------------------
(* GetConfig, at the start of every reconcile, and the rest of it *)

\* The copy is the informer's, which may show a version, or a CR, that is no more.
Begin(r) ==
  /\ run[r].pc = "idle" /\ Seen(crs[r]) # Gone
  /\ run' = [run EXCEPT ![r] = [pc |-> "track", cr |-> Seen(crs[r]), fresh |-> Len(crs[r]) = 1]]
  /\ UNCHANGED <<crs, usages, configs, upsets>>

Step(r, to) == run' = [run EXCEPT ![r].pc = to]
Return(r) == run' = [run EXCEPT ![r] = Idle]

\* Seeded fault: usages do not say which kind of config they are of.
Usage_WithoutKind(ref) == [ref EXCEPT !.kind = "ProviderConfig"]

Usage(ref) == ref

(***************************************************************************)
(* A create is refused if there is a usage, an update if the informer's    *)
(* copy, which it goes by, is not of the API server's version.             *)
(***************************************************************************)
UsageAccepted(r) ==
  \/ Len(usages[r]) = 1
  \/ Seen(usages[r]) = Nothing /\ Newest(usages[r]) = Nothing

\* Seeded fault: a config that cannot be read is not tracked.
Track_IfThere(r) ==
  LET usage == Usage(run[r].cr.ref)
      readable == usage \in Configs /\ configs[usage] # "gone"
  IN /\ run[r].pc = "track"
     /\ IF readable /\ UsageAccepted(r)
          THEN Step(r, "tracked") /\ WriteUsage(r, usage)
          ELSE Return(r) /\ UNCHANGED usages
     /\ UNCHANGED <<crs, configs, upsets>>

\* Seeded fault: a usage is created once and never changed.
Track_Once(r) ==
  LET usage == Usage(run[r].cr.ref)
  IN /\ run[r].pc = "track"
     /\ \/ /\ Seen(usages[r]) # Nothing
           /\ Step(r, "tracked")
           /\ UNCHANGED usages
        \/ /\ Seen(usages[r]) = Nothing /\ UsageAccepted(r)
           /\ WriteUsage(r, usage)
           /\ Step(r, "tracked")
        \/ /\ Seen(usages[r]) = Nothing /\ ~UsageAccepted(r)
           /\ Return(r)
           /\ UNCHANGED usages
     /\ UNCHANGED <<crs, configs, upsets>>

(***************************************************************************)
(* The usage is recorded before the config is read, under the CR's own     *)
(* UID.  It is looked up in the informer: one that names the same config   *)
(* there is left alone, and a write that is refused ends the reconcile.    *)
(***************************************************************************)
Track(r) ==
  LET usage == Usage(run[r].cr.ref)
  IN /\ run[r].pc = "track"
     /\ \/ /\ Seen(usages[r]) = usage
           /\ Step(r, "tracked")
           /\ UNCHANGED usages
        \/ /\ Seen(usages[r]) # usage /\ UsageAccepted(r)
           /\ WriteUsage(r, usage)
           /\ Step(r, "tracked")
        \/ /\ Seen(usages[r]) # usage /\ ~UsageAccepted(r)
           /\ Return(r)
           /\ UNCHANGED usages
     /\ UNCHANGED <<crs, configs, upsets>>

(***************************************************************************)
(* A config in deletion is as good as any, as long as it is there.  With   *)
(* it, and the Secret it points to, the rest of the reconcile can let a CR *)
(* in deletion go, if the copy it writes back is fresh.  (An informer that *)
(* shows a config which is gone by then could only help.)                  *)
(***************************************************************************)
ReadConfig(r) ==
  LET cr == run[r].cr
      readable == cr.ref \in Configs /\ configs[cr.ref] # "gone"
  IN /\ run[r].pc = "tracked"
     /\ IF readable /\ run[r].fresh /\ cr.stage = "deleting"
          THEN WriteCR(r, Gone)
          ELSE UNCHANGED crs
     /\ Return(r)
     /\ UNCHANGED <<usages, configs, upsets>>

GetConfig(r) == Track(r) \/ ReadConfig(r)

\* A call fails, the Secret cannot be read, or the process dies.
Fail(r) ==
  /\ run[r].pc # "idle" /\ Upset
  /\ Return(r)
  /\ UNCHANGED <<crs, usages, configs>>

\* The informer of the CRs delivers the next version.
DeliverCR(r) ==
  /\ Len(crs[r]) > 1
  /\ crs' = [crs EXCEPT ![r] = Tail(@)]
  /\ UNCHANGED <<run, usages, configs, upsets>>

-----------------------------------------------------------------------------
(* The usages, which their CRs own, and the controllers that count them *)

CollectUsage(r) ==
  /\ Newest(crs[r]) = Gone /\ Newest(usages[r]) # Nothing
  /\ WriteUsage(r, Nothing)
  /\ UNCHANGED <<crs, run, configs, upsets>>

DeliverUsage(r) ==
  /\ Len(usages[r]) > 1
  /\ usages' = [usages EXCEPT ![r] = Tail(@)]
  /\ UNCHANGED <<crs, run, configs, upsets>>

\* A usage is of the config whose kind and name it is labelled with; they are
\* listed from the informer.
Users(c) == {r \in Resources : Seen(usages[r]) = c}

KeepConfig(c) ==
  /\ configs[c] = "new"
  /\ configs' = [configs EXCEPT ![c] = "kept"]
  /\ UNCHANGED <<crs, run, usages, upsets>>

(***************************************************************************)
(* Listing the usages and taking the finalizer off are two calls, and      *)
(* nothing the config carries tells the second that a usage has come since *)
(* the first.  As one step they are no safer: whatever comes between them  *)
(* comes after the config's deletion, too late to be relied on.            *)
(***************************************************************************)
ReleaseConfig(c) ==
  /\ configs[c] = "deleting" /\ Users(c) = {}
  /\ configs' = [configs EXCEPT ![c] = "gone"]
  /\ UNCHANGED <<crs, run, usages, upsets>>

-----------------------------------------------------------------------------
(* The user *)

\* A copy that a reconcile has is no longer fresh.
ChangeCR(r, cr) ==
  /\ WriteCR(r, cr)
  /\ run' = [run EXCEPT ![r].fresh = FALSE]

Retarget(r) ==
  LET cr == Newest(crs[r])
  IN /\ cr # Gone /\ Upset
     /\ \E ref \in References \ {cr.ref} : ChangeCR(r, [cr EXCEPT !.ref = ref])
     /\ UNCHANGED <<usages, configs>>

\* A CR that has no finalizer yet is gone at once.
DeleteCR(r) ==
  LET cr == Newest(crs[r])
  IN /\ cr.stage = "live"
     /\ ChangeCR(r, [cr EXCEPT !.stage = "deleting"]) \/ ChangeCR(r, Gone)
     /\ UNCHANGED <<usages, configs, upsets>>

DeleteConfig(c) ==
  /\ configs[c] \in {"new", "kept"}
  /\ configs' = [configs EXCEPT ![c] = IF @ = "new" THEN "gone" ELSE "deleting"]
  /\ UNCHANGED <<crs, run, usages, upsets>>

UserStep ==
  \/ \E r \in Resources : Retarget(r) \/ DeleteCR(r)
  \/ \E c \in Configs : DeleteConfig(c)

-----------------------------------------------------------------------------

AllRefer(versions, c) == \A i \in DOMAIN versions : versions[i].ref = c
AllName(versions, c) == \A i \in DOMAIN versions : versions[i] = c

(***************************************************************************)
(* A CR may rely on its config once a reconcile has found its usage to be  *)
(* right and left it as it was, while the user was not deleting the config *)
(* and the informers had no other reference yet to deliver, be it one the  *)
(* CR has long left again: a reconcile would go by it.  From then on a CR  *)
(* may rely on it for as long as it is there and keeps its reference.      *)
(***************************************************************************)
BeginsToRely(r) ==
  LET ref == run[r].cr.ref
  IN /\ run[r].pc = "track" /\ run'[r].pc = "tracked"
     /\ AllRefer(crs[r], ref) /\ AllName(usages'[r], Usage(ref))
     /\ ref \in Configs /\ configs[ref] = "kept"

Rely ==
  LET keeps(r) == Newest(crs'[r]).ref = relied[r]
  IN relied' = [r \in Resources |->
                  CASE BeginsToRely(r) -> run[r].cr.ref
                    [] ~BeginsToRely(r) /\ keeps(r) -> relied[r]
                    [] OTHER -> Nothing]

\* The CRs were just applied, some of the configs a while ago.  Of the upsets the
\* bound allows, some may not be there to come.
Init ==
  /\ crs \in [Resources -> {<<cr>> : cr \in [stage : {"live"}, ref : Configs] \cup {Gone}}]
  /\ run = [r \in Resources |-> Idle]
  /\ usages = [r \in Resources |-> <<Nothing>>]
  /\ configs \in [Configs -> {"new", "kept"}]
  /\ relied = [r \in Resources |-> Nothing]
  /\ upsets \in 0 .. MaxUpsets

Reconcile(r) == Begin(r) \/ GetConfig(r)
Deliver(r) == DeliverCR(r) \/ DeliverUsage(r)
ConfigStep(c) == KeepConfig(c) \/ ReleaseConfig(c)

Next ==
  /\ \/ \E r \in Resources : Reconcile(r) \/ Deliver(r) \/ CollectUsage(r) \/ Fail(r)
     \/ \E c \in Configs : ConfigStep(c)
     \/ UserStep
  /\ Rely

Spec == Init /\ [][Next]_vars

\* What the scheduling grants: every CR and every config is handed to a worker
\* again and again, usages without their CR are collected and the informers catch
\* up.  Nothing is asked of the user or of faults.
Fairness ==
  /\ \A r \in Resources :
       /\ WF_system(Reconcile(r)) /\ WF_system(CollectUsage(r))
       /\ WF_system(DeliverCR(r)) /\ WF_system(DeliverUsage(r))
  /\ \A c \in Configs : WF_system(ConfigStep(c))

FairSpec == Spec /\ Fairness

-----------------------------------------------------------------------------
(* Properties *)

TypeOK ==
  /\ crs \in [Resources -> Seq(CR \cup {Gone}) \ {<<>>}]
  /\ run \in [Resources -> {Idle} \cup [pc : {"track", "tracked"}, cr : CR, fresh : BOOLEAN]]
  /\ usages \in [Resources -> Seq(References \cup {Nothing}) \ {<<>>}]
  /\ configs \in [Configs -> ConfigStages]
  /\ relied \in [Resources -> Configs \cup {Nothing}]
  /\ upsets \in 0 .. MaxUpsets

\* A config that a CR has come to rely on does not go while the CR is there and
\* keeps its reference, in whatever order the user then deletes the two, however
\* far the informers lag behind and whatever becomes of other CRs and of a config
\* of the other kind with the same name (GetConfig): the CR can still be deleted.
Protected == \A r \in Resources : relied[r] # Nothing => configs[relied[r]] # "gone"

\* Why it holds: every version of the CR has the reference, every version of its
\* usage names the config, which has its finalizer, and no reconcile that began
\* with another reference is about to change the usage.
Relied ==
  \A r \in Resources :
    LET c == relied[r]
    IN c # Nothing =>
         /\ AllRefer(crs[r], c) /\ AllName(usages[r], c)
         /\ configs[c] \in {"kept", "deleting"}
         /\ run[r].pc = "track" => run[r].cr.ref = c

IInv == TypeOK /\ Relied

\* A CR that stays as it is comes to rely on the config it names, unless that is
\* deleted: a usage that was lost to a conflict, or left naming a config the CR had
\* moved to and away from before the informer saw it, is put right (GetConfig).
Secured ==
  \A r \in Resources, c \in Configs :
    LET needs == Newest(crs[r]) = [stage |-> "live", ref |-> c] /\ configs[c] = "kept"
    IN needs ~> (relied[r] = c \/ ~needs)

\* A config the user deletes is eventually gone, once no CR is kept that refers
\* to it, be the others deleted too or retargeted, if only to a config that does
\* not exist (GetConfig tracks that one all the same).
Released ==
  \A c \in Configs :
    configs[c] = "deleting" ~>
      \/ configs[c] = "gone"
      \/ \E r \in Resources : Newest(crs[r]).ref = c /\ Newest(crs[r]).stage = "live"
=============================================================================

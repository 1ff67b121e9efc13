--------------------------- MODULE ExternalLifecycle ---------------------------
(***************************************************************************)
(* What a controller promises its user about one CR and what it creates    *)
(* for it in Azure DevOps, with everything else about either left out: it  *)
(* holds one resource at a time and exchanges it for no other, asks for    *)
(* its deletion only once the CR is being deleted, and lets go of the CR   *)
(* only when it holds nothing.                                             *)
(***************************************************************************)
VARIABLES
  cr,      \* "live", "deleting" (deletion requested) or "gone"
  held,    \* the resources created for the CR that are still there
  leaving  \* those of them whose deletion Azure DevOps has accepted

lifecycleVars == <<cr, held, leaving>>

LifecycleInit == cr = "live" /\ held = {} /\ leaving = {}

RequestDeletion ==
  /\ cr = "live"
  /\ cr' = "deleting" \/ (held = {} /\ cr' = "gone")
  /\ UNCHANGED <<held, leaving>>

\* A creation that is under way may still go through after the user has asked
\* for deletion.
CreateResource ==
  /\ cr \in {"live", "deleting"} /\ held = {}
  /\ \E resource \in held' : held' = {resource}
  /\ UNCHANGED <<cr, leaving>>

DeleteResource ==
  /\ cr = "deleting" /\ held # {} /\ leaving = {}
  /\ leaving' = held
  /\ UNCHANGED <<cr, held>>

\* Deleted as asked, by an administrator, or never finished.
ResourceVanishes ==
  /\ held # {}
  /\ held' = {} /\ leaving' = {}
  /\ UNCHANGED cr

DeletionFails ==
  /\ leaving # {}
  /\ leaving' = {}
  /\ UNCHANGED <<cr, held>>

Release ==
  /\ cr = "deleting" /\ held = {}
  /\ cr' = "gone"
  /\ UNCHANGED <<held, leaving>>

LifecycleNext ==
  \/ RequestDeletion \/ CreateResource \/ DeleteResource
  \/ ResourceVanishes \/ DeletionFails \/ Release

LifecycleSpec == LifecycleInit /\ [][LifecycleNext]_lifecycleVars
=============================================================================

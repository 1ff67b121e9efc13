------------------------- MODULE BranchPolicyContents -------------------------
(***************************************************************************)
(* What a BranchPolicyMinReviewers' parameters make of a policy            *)
(* configuration, and when one counts as up to date with them              *)
(* (internal/controller/branchpolicyminreviewers).                         *)
(***************************************************************************)
EXTENDS Spellings, FiniteSetsExt

\* The settings a CR has a word for, and those that it has none for.
Flags == {"creatorVoteCounts", "allowDownvotes"}
UnsupportedFlags == {"blockLastPusherVote"}

\* A branch as the user writes it: a text, with "*" at its end or elsewhere.
Branches == [stem : Texts, form : {"exact", "prefix", "malformed"}] \cup {[stem |-> Empty, form |-> "prefix"]}

\* Azure DevOps does not always write them the same.
MatchKinds == {"Exact", "exact", "Prefix", "prefix"}
MatchKind(kind) == IF kind \in {"Exact", "exact"} THEN "Exact" ELSE "Prefix"

Scopes == [repository : Guids \cup {None}, refName : Texts, matchKind : MatchKinds]

\* By field, the values it may have in a CR; resetOnSourcePush is treated as
\* the other flags are.
Parameters == [
  repository |-> GuidTexts36, branch |-> Branches, minimumApproverCount |-> Numbers,
  flags |-> SUBSET Flags, enabled |-> BOOLEAN, blocking |-> BOOLEAN]

\* By field, what an administrator may make of it.
Fields == [
  enabled |-> BOOLEAN, blocking |-> BOOLEAN, minimumApproverCount |-> Numbers,
  flags |-> SUBSET (Flags \cup UnsupportedFlags),
  scopes |-> UNION {kSubset(n, [repository : Guids \cup {None}, refName : Texts, matchKind : {"Exact", "Prefix"}]) : n \in 0..2},
  enterprise |-> BOOLEAN]

\* By field, what it may hold, made by the controller or by an administrator.
Policy == [Fields EXCEPT !.scopes = SUBSET Scopes]

\* A CR as it is stored when all of it is written: a field that is false is
\* left out of what the controller writes, and the CRD's default is put in.
Written(p) == [p EXCEPT !.enabled = TRUE, !.blocking = TRUE]

ValidBranch(branch) == branch.form # "malformed" /\ branch.stem # Empty

BranchScope(branch) ==
  [refName |-> branch.stem, matchKind |-> IF branch.form = "prefix" THEN "Prefix" ELSE "Exact"]

DesiredScope(p) ==
  [repository |-> p.repository.guid, refName |-> BranchScope(p.branch).refName,
   matchKind |-> BranchScope(p.branch).matchKind]

\* Seeded fault: settings a CR has no word for are no reason to refuse.
Managed_AnySettings(policy) ==
  Cardinality(policy.scopes) = 1 /\ \A s \in policy.scopes : s.repository # None

\* The controller refuses to manage a policy that says more than a CR can.
Managed(policy) ==
  /\ Cardinality(policy.scopes) = 1
  /\ \A s \in policy.scopes : s.repository # None
  /\ policy.flags \cap UnsupportedFlags = {}

Accepted(p, current) ==
  /\ p.minimumApproverCount > 0
  /\ ValidBranch(p.branch)
  /\ current # None => Managed(current)

\* The configuration sent to Azure DevOps.
Desired(p, current) ==
  [enabled |-> p.enabled,
   blocking |-> p.blocking,
   minimumApproverCount |-> p.minimumApproverCount,
   flags |-> p.flags,
   scopes |-> {DesiredScope(p)},
   enterprise |-> current # None /\ current.enterprise]

\* How Azure DevOps may write it down.
Answers(sent) ==
  {[sent EXCEPT !.scopes = {[s EXCEPT !.matchKind = kind] : s \in sent.scopes}] :
     kind \in {k \in MatchKinds : \A s \in sent.scopes : MatchKind(k) = s.matchKind}}

\* Seeded fault: the match kind is compared as it is written.
Settings_AsWritten(policy) ==
  [minimumApproverCount |-> policy.minimumApproverCount, flags |-> policy.flags,
   scopes |-> {[s EXCEPT !.repository = GuidString(@)] : s \in policy.scopes}]

\* The settings of a managed policy as they are decoded.
Settings(policy) ==
  [minimumApproverCount |-> policy.minimumApproverCount, flags |-> policy.flags,
   scopes |-> {[s EXCEPT !.repository = GuidString(@), !.matchKind = MatchKind(@)] : s \in policy.scopes}]

IsUpToDate(p, policy) ==
  /\ ValidBranch(p.branch)
  /\ policy.enabled = p.enabled
  /\ policy.blocking = p.blocking
  /\ Settings(policy) =
       [minimumApproverCount |-> p.minimumApproverCount, flags |-> p.flags,
        scopes |-> {[DesiredScope(p) EXCEPT !.repository = p.repository]}]

-----------------------------------------------------------------------------
(* What the two stand for, whatever the spelling *)

Asked(p) ==
  [active |-> p.enabled, blocking |-> p.blocking, approvers |-> p.minimumApproverCount,
   flags |-> p.flags, on |-> {<<p.repository.guid, p.branch>>}]

Meaning(policy) ==
  [active |-> policy.enabled, blocking |-> policy.blocking,
   approvers |-> policy.minimumApproverCount, flags |-> policy.flags,
   on |-> {<<s.repository, [stem |-> s.refName,
             form |-> IF s.matchKind \in {"Exact", "exact"} THEN "exact" ELSE "prefix"]>> : s \in policy.scopes}]

\* A spelling Azure DevOps does not answer with: never found up to date.
Canonical(p) == p.repository.form = "canonical"

\* What the spec has no word for is the same in two policies.
SameRest(before, after) ==
  /\ after.enterprise = before.enterprise
  /\ after.flags \cap UnsupportedFlags = before.flags \cap UnsupportedFlags
================================================================================

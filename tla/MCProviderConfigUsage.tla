------------------------- MODULE MCProviderConfigUsage -------------------------
(***************************************************************************)
(* The instance TLC checks: a CR that is upset as often as the bound       *)
(* allows, applied together with the configs, or several CRs that are not  *)
(* upset, applied after them.  CRs share nothing but the configs, and all  *)
(* a config's controller asks is whether anyone's usage names it.          *)
(***************************************************************************)
EXTENDS ProviderConfigUsage

Several == \E r, s \in Resources : r # s /\ crs[r] # <<Gone>> /\ crs[s] # <<Gone>>

\* Which of the CRs is there, if only one, and which kind of config it starts with
\* makes no difference.
MCInit ==
  /\ Init
  /\ LET first == Newest(crs[CHOOSE r \in Resources : TRUE])
     IN first # Gone /\ first.ref.kind = "ClusterProviderConfig"
  /\ upsets = IF Several THEN MaxUpsets ELSE 0
  /\ configs = [c \in Configs |-> IF Several THEN "kept" ELSE "new"]

MCFairSpec == MCInit /\ [][Next]_vars /\ Fairness
=============================================================================

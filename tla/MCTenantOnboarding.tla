-------------------------- MODULE MCTenantOnboarding --------------------------
(***************************************************************************)
(* Two tenants with two bootstrap events each.  Their accounts are their   *)
(* own (the ids carry the first letters of the tenant's), their merchants  *)
(* are not: "m1" is in the history of both.                                *)
(***************************************************************************)
EXTENDS TenantOnboarding

CONSTANTS a1, a2, m1, m2, t1, t2

MCNodesOf ==
  [te \in Tenants \X Events |->
     CASE te = <<t1, 1>> -> {a1, m1}
       [] te = <<t1, 2>> -> {a1, m2}
       [] te = <<t2, 1>> -> {a2, m1}
       [] te = <<t2, 2>> -> {a2}]

\* One tenant of an earlier day, active or deleted, and perhaps a new one.
MCInit == Init /\ row[t1] # "none" /\ row[t2] # "inactive"

MCFairSpec == MCInit /\ [][Next]_vars /\ Fairness
=============================================================================

------------------------------ MODULE MCTakeover ------------------------------
(***************************************************************************)
(* The constant values of MCManagedNamespace, for Takeover.                *)
(***************************************************************************)
EXTENDS Takeover

MCOutsiders == << [kind |-> "User", name |-> "outsider"] >>
OneSpec ==
  {[accessMappings |-> <<[group |-> "ops", users |-> <<>>, clusterRoles |-> <<"view">>]>>,
    quotas |-> <<>>, labels |-> <<>>, annotations |-> <<>>]}
=============================================================================

--------------------------- MODULE MCClusterAccess ---------------------------
(***************************************************************************)
(* Constant values for model-checking ClusterAccess: the mappings users    *)
(* apply in each run.                                                      *)
(***************************************************************************)
EXTENDS ClusterAccess

MCOutsiders == << [kind |-> "User", name |-> "outsider"] >>

Grant(us, roles) == [group |-> "", users |-> us, clusterRoles |-> roles]

\* A user who stays while another comes.
Changing == {Grant(<<"ana">>, <<"view">>), Grant(<<"bob", "ana">>, <<"view">>)}

\* A mapping, and another whose second role admission refuses: its pass ends
\* with the first one bound.
Refusing ==
  {Grant(<<"ana">>, <<"view">>), Grant(<<"bob">>, <<"view", "edit">>)}
=============================================================================

-------------------------- MODULE MCManagedNamespace --------------------------
(***************************************************************************)
(* Constant values for model-checking ManagedNamespace and Viewer: the     *)
(* specs users apply in each run.                                          *)
(***************************************************************************)
EXTENDS Viewer, TLC

MCOutsiders == << [kind |-> "User", name |-> "outsider"] >>
\* A binding in another namespace, and one that a predecessor of this name left
\* here; somebody may also make one by hand under the latter's name.
Stranger == [namespace |-> "elsewhere", name |-> <<"elsewhere", <<"g", "ops">>, "view">>]
Former   == [namespace |-> Owner, name |-> <<Owner, <<"g", "ops">>, "admin">>]
MCStrangers == {Stranger, Former}
MCLeftovers == MCStrangers

NoMap == <<>>
ForGroup(g, roles) == [group |-> g, users |-> <<>>, clusterRoles |-> roles]
ForUsers(us, roles) == [group |-> "", users |-> us, clusterRoles |-> roles]
Granting(mappings) ==
  [accessMappings |-> mappings, quotas |-> NoMap, labels |-> NoMap, annotations |-> NoMap]

OpsView == Granting(<<ForGroup("ops", <<"view">>)>>)
OpsAdmin == Granting(<<ForGroup("ops", <<"admin">>)>>)

OneSpec == {OpsView}
BothOrOne == {Granting(<<ForGroup("ops", <<"view", "admin">>)>>), OpsView}

\* The same users in another order, and twice, in two mappings; and no grant.
AgreeingOrNone ==
  {Granting(<<ForUsers(<<"bob", "ana">>, <<"view">>),
              ForUsers(<<"ana", "bob", "ana">>, <<"view">>)>>),
   Granting(<<>>)}

\* A sound spec, and one that drops its grant while its quota, its labels or
\* its own grant are turned down.
RevokingSpecs ==
  {OpsView,
   [OpsAdmin EXCEPT !.quotas = ("cpu" :> "unsound")],
   [OpsAdmin EXCEPT !.labels = ("tier" :> "unsound")],
   OpsAdmin}

\* A sound spec, and one that drops its grant while its quota is turned down.
OneRejected == {OpsView, [OpsAdmin EXCEPT !.quotas = ("cpu" :> "unsound")]}

\* Labels, annotations and a quota that come and go, and the inventory key
\* among the annotations.
ContentSpecs ==
  {[Granting(<<>>) EXCEPT !.labels = ("tier" :> "gold"), !.quotas = ("cpu" :> "small")],
   [Granting(<<>>) EXCEPT !.annotations = ("inventory" :> "gold") @@ ("tier" :> "gold")]}
=============================================================================

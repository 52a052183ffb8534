---------------------------- MODULE GrantLifecycle ----------------------------
(***************************************************************************)
(* What both reconcilers promise of the grants of one owner, however the   *)
(* owner, the bindings, the cache and the passes come to it: grants are    *)
(* given only under a hold, which the finalizer on the owner is; a hold    *)
(* ends only once the owner was deleted, and with no grant left.           *)
(*                                                                         *)
(* ManagedNamespace and ClusterAccess implement this.                      *)
(***************************************************************************)
CONSTANT Names    \* of bindings

VARIABLES
  phase,          \* of the owner: "free", "held", or "ending" when deleted
  grants          \* the bindings that carry its labels

Init == phase = "free" /\ grants = {}

Take == phase = "free" /\ phase' = "held" /\ UNCHANGED grants

\* Also while the owner is ending: a pass may still work on an older copy of it.
Grant(n) ==
  /\ phase \in {"held", "ending"}
  /\ grants' = grants \union {n} /\ UNCHANGED phase

\* By the controller or by anybody else, at any time.
Revoke(n) == grants' = grants \ {n} /\ UNCHANGED phase

Condemn == phase = "held" /\ phase' = "ending" /\ UNCHANGED grants

Release == phase = "ending" /\ grants = {} /\ phase' = "free" /\ UNCHANGED grants

Next ==
  \/ Take \/ Condemn \/ Release
  \/ \E n \in Names : Grant(n) \/ Revoke(n)

Spec == Init /\ [][Next]_<<phase, grants>>
=============================================================================

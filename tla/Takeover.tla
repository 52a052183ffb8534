------------------------------- MODULE Takeover -------------------------------
(***************************************************************************)
(* Leader election: three replicas run (config/install.yaml), one of them  *)
(* reconciles, and with -server every replica lists the owners for the     *)
(* viewer, from an informer it starts for that (cmd/k8s-controller/main.go *)
(* and internal/server). When the leader goes, a standby takes the lease.  *)
(* The informers of its reconciler start now, all but the owners': that    *)
(* one is the viewer's, and may have heard less than the leader's had.     *)
(*                                                                         *)
(* One standby is followed; the others are no different until they lead.   *)
(***************************************************************************)
EXTENDS ManagedNamespace

VARIABLES
  standby,    \* the owner in the cache of the replica that leads next
  backlog     \* its versions on the way there

both == <<vars, standby, backlog>>

\* The leader, and all that goes on around it.
Lead ==
  /\ Next
  /\ backlog' = IF owner' = owner THEN backlog ELSE backlog \union {owner'}
  /\ UNCHANGED standby

\* A watch event reaches the standby, which reconciles nothing.
Follow ==
  /\ standby' \in backlog /\ backlog' = {v \in backlog : v.rv > standby'.rv}
  /\ UNCHANGED vars

\* The old leader stops where it is. The new one enqueues what it finds in its
\* cache; a replica that starts afresh stands by.
TakeOver ==
  /\ Fault("takeover")
  /\ pc' = "idle" /\ mns' = NoOwner
  /\ doomed' = {} /\ todo' = {} /\ kept' = {} /\ invalid' = <<>> /\ syncErr' = "none"
  /\ gauge' = Absent
  /\ cache' = [owner |-> standby, namespace |-> namespace, quotas |-> quotas,
               bindings |-> bindings, clusterRoles |-> clusterRoles]
  /\ watch' = backlog /\ news' = NoEvents
  /\ queued' = standby.present
  /\ standby' = owner /\ backlog' = {}
  /\ UNCHANGED <<live, clusterRoles>>

InitBoth == Init /\ standby = cache.owner /\ backlog = {}
NextBoth == Lead \/ Follow \/ TakeOver

SpecBoth == InitBoth /\ [][NextBoth]_both
=============================================================================

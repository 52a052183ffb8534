------------------------ MODULE ManagedNamespaceSettled ------------------------
(***************************************************************************)
(* What the passes of the ManagedNamespace reconciler come to, for every   *)
(* value of the constants: when no pass is called for any more, the        *)
(* namespace, the quotas, the bindings, the status and the gauge are what  *)
(* the spec asks for, and the viewer's page says who holds which roles.    *)
(*                                                                         *)
(* While the owner is not queued and no event is on its way, the running   *)
(* pass works on the live owner and nothing with our labels changes:       *)
(* whatever would spoil its work makes an event. So its work can be        *)
(* followed, object by object, up to the status it writes.                 *)
(***************************************************************************)
EXTENDS ManagedNamespaceStatus, FiniteSetTheorems

\* The pass has read the owner as it is now, and no event of ours is on its way.
Steady == ~queued /\ watch = {} /\ news = NoEvents /\ owner.present

\* An object whose event is not on its way is in the cache as it is, or of no
\* concern: it has our labels neither here nor there.
Mirrors(copy, object) == copy = object \/ (~IsOwned(copy) /\ ~IsOwned(object))
Faithful ==
  /\ ~news.namespace =>
       cache.namespace = namespace \/ (~NamesOwner(cache.namespace) /\ ~NamesOwner(namespace))
  /\ \A q \in QuotaNames \ news.quotas : Mirrors(cache.quotas[q], quotas[q])
  /\ \A k \in BindingKeys \ news.bindings : Mirrors(cache.bindings[k], bindings[k])

\* The owner is in the cache or comes there, and a pass not called for again works
\* on what is in the cache.
Fresh ==
  /\ owner \in Seen
  /\ pc # "idle" /\ ~queued => mns = cache.owner
Tidy ==
  /\ pc \notin {"bindings", "ensure", "clear"} => kept = {} /\ invalid = <<>>
  /\ pc = "status" <=> syncErr # "none"
  /\ pc \in Guarding => ~mns.deleting

\* Where nobody else changes the namespace, its inventory lists all the keys it has.
Listed(ns) ==
  LET listed == namespaceMetadataInventory(ns)
  IN  ns # Absent /\ ns.inventory # Malformed /\ "metadata" \notin Disturbances =>
        /\ DOMAIN ns.labels \subseteq listed.labels \union {OwnerKey}
        /\ DOMAIN ns.annotations \subseteq listed.annotations
AllListed == Listed(namespace) /\ Listed(cache.namespace)

\* A quota as a pass leaves it, and a binding of name k.
Holding(quota, limits) == IsOwned(quota) /\ quota.limits = limits
SubjectsNamed(key) ==
  IF key[1] = "g" THEN << [kind |-> "Group", name |-> key[2]] >>
  ELSE [i \in DOMAIN key[2] |-> [kind |-> "User", name |-> key[2][i]]]
Fits(b, k) == IsOwned(b) /\ b.role = k.name[3] /\ b.subjects = SubjectsNamed(k.name[2])

\* The names of the positions whose role exists, and refs lists the other roles.
NamesOf(spec, positions, set) ==
  {KeyAt(spec, p) : p \in {p \in positions : RoleAt(spec, p) \in set}}
Lacking(spec, positions, set) == {p \in positions : RoleAt(spec, p) \notin set}
Counts(refs, spec, positions, set) ==
  LET missing == Lacking(spec, positions, set)
  IN  /\ IsFiniteSet(missing) /\ Cardinality(missing) = Len(refs)
      /\ Elements(refs) = {RoleAt(spec, p) : p \in missing}

\* A pass on the way: all it ensured is in place, and what it listed is as yet
\* to be deleted.
QuotasHeld(names) == \A q \in names : Holding(quotas[q], owner.spec.quotas[q])
QuotasAsked == OwnedQuotas(quotas) \subseteq DOMAIN owner.spec.quotas
InPlace == \A k \in kept : Fits(bindings[k], k)
Visited == Positions(owner.spec) \ todo
Progress ==
  /\ kept = NamesOf(owner.spec, Visited, cache.clusterRoles)
  /\ Counts(invalid, owner.spec, Visited, cache.clusterRoles)
Accounted == \A k \in Granted : k \in kept \union doomed \/ bindings[k].deleting
Prepared == pc \in Syncing \ {"prune", "revoke"} => MetadataInSync
Rationed ==
  /\ pc = "quotas" => QuotasHeld(DOMAIN owner.spec.quotas \ todo)
  /\ pc = "dropQuotas" =>
       /\ QuotasHeld(DOMAIN owner.spec.quotas)
       /\ OwnedQuotas(quotas) \subseteq DOMAIN owner.spec.quotas \union doomed
  /\ pc \in {"bindings", "ensure", "clear"} =>
       QuotasHeld(DOMAIN owner.spec.quotas) /\ QuotasAsked
Bound ==
  /\ pc \in {"bindings", "ensure", "clear"} => Progress /\ InPlace
  /\ pc = "ensure" => \A p \in todo : IsFirst(p) => RoleAt(owner.spec, p) \in cache.clusterRoles
  /\ pc = "clear" => Accounted
Underway == Steady => Prepared /\ Rationed /\ Bound

\* InSync, with the roles of the cache, and but for what lingers.
Served ==
  LET refs  == owner.status.invalidReferences
      asked == NamesOf(owner.spec, Positions(owner.spec), cache.clusterRoles)
  IN  /\ Finalizer \in owner.finalizers
      /\ MetadataInSync
      /\ QuotasHeld(DOMAIN owner.spec.quotas) /\ QuotasAsked
      /\ \A k \in asked : Fits(bindings[k], k)
      /\ \A k \in Granted : k \in asked \/ bindings[k].deleting
      /\ Counts(refs, owner.spec, Positions(owner.spec), cache.clusterRoles)
      /\ gauge = Len(refs)
      /\ owner.status.observedGeneration = owner.generation
      /\ owner.status.ready = [reason |-> IF refs = <<>> THEN "Reconciled" ELSE "InvalidReferences",
                               message |-> "none", generation |-> owner.generation]
Rested ==
  Steady /\ pc = "idle" =>
    IF owner.deleting THEN Finalizer \notin owner.finalizers
    ELSE Served \/ owner.status.ready.message = "invalid"

-----------------------------------------------------------------------------
(* What a step does, with no event left over *)

\* Nothing a pass depends on is changed: neither the owner, nor what carries its
\* labels, nor the cache's copies of the owner and the roles.
Unmoved ==
  /\ owner' = owner /\ cache'.owner = cache.owner /\ cache'.clusterRoles = cache.clusterRoles
  /\ NamesOwner(namespace) \/ NamesOwner(namespace') => namespace' = namespace
  /\ \A q \in QuotaNames : IsOwned(quotas[q]) \/ IsOwned(quotas'[q]) => quotas'[q] = quotas[q]
  /\ \A k \in BindingKeys :
       IsOwned(bindings[k]) \/ IsOwned(bindings'[k]) => bindings'[k] = bindings[k]

\* A step that does not call for a pass.
Uncalled ==
  /\ ~queued /\ (Announce \/ UNCHANGED <<live, news>>)
  /\ cache'.owner = cache.owner
  /\ cache'.clusterRoles = cache.clusterRoles \/ ~cache.owner.present
  /\ UNCHANGED <<owner, watch>> \/ \E new : WriteOwner(new)

\* What every step that does not call for a pass is: the start of one, or a step
\* that leaves things as they are for the one that runs.
LEMMA UncalledSteps ==
  ASSUME TypeOK, [Next]_vars, ~queued'
  PROVE  (Reconcile /\ Announce) \/ Crash \/ Uncalled
PROOF
  <1>1. cache \in Copies /\ news \in Events
    BY DEF TypeOK
  <1>2. CASE Worker /\ ~Reconcile
    <2>1. ~queued
      BY <1>2 DEF Worker, Finalize, Unbound, Release, Adopt, Prune, DeleteBinding,
                  EnsureNamespace, EnsureQuota, PruneQuotas, DeleteQuota, ReconcileBindings,
                  MissingRole, ReplaceBinding, EnsureBinding, PruneUnresolved, ReportStatus,
                  Done, GiveUp
    <2>2. cache' = cache
      BY <1>2 DEF Worker, Finalize, Unbound, Release, Adopt, Prune, DeleteBinding,
                  EnsureNamespace, EnsureQuota, PruneQuotas, DeleteQuota, ReconcileBindings,
                  MissingRole, ReplaceBinding, EnsureBinding, PruneUnresolved, ReportStatus
    <2>3. UNCHANGED <<owner, watch>> \/ \E new : WriteOwner(new)
      BY <1>2 DEF Worker, Finalize, Unbound, Release, Adopt, Prune, DeleteBinding,
                  EnsureNamespace, EnsureQuota, PruneQuotas, DeleteQuota, ReconcileBindings,
                  MissingRole, ReplaceBinding, EnsureBinding, PruneUnresolved, ReportStatus
    <2> QED BY <1>2, <2>1, <2>2, <2>3 DEF Worker, Uncalled
  <1>3. CASE Deliver
    <2>1. CASE DeliverNamespace
      <3>1. ~queued /\ ~news.namespace /\ UNCHANGED <<owner, watch, live>>
        BY <2>1 DEF DeliverNamespace
      <3>2. news' = news /\ cache'.owner = cache.owner /\ cache'.clusterRoles = cache.clusterRoles
        BY <1>1, <2>1, <3>1 DEF DeliverNamespace, Copies, Events
      <3> QED BY <3>1, <3>2 DEF Uncalled
    <2>2. ASSUME NEW q \in QuotaNames, DeliverQuota(q) PROVE Uncalled
      <3>1. ~queued /\ q \notin news.quotas /\ UNCHANGED <<owner, watch, live>>
        BY <2>2 DEF DeliverQuota
      <3>2. news' = news /\ cache'.owner = cache.owner /\ cache'.clusterRoles = cache.clusterRoles
        BY <1>1, <2>2, <3>1 DEF DeliverQuota, Copies, Events
      <3> QED BY <3>1, <3>2 DEF Uncalled
    <2>3. ASSUME NEW k \in BindingKeys, DeliverBinding(k) PROVE Uncalled
      <3>1. ~queued /\ k \notin news.bindings /\ UNCHANGED <<owner, watch, live>>
        BY <2>3 DEF DeliverBinding
      <3>2. news' = news /\ cache'.owner = cache.owner /\ cache'.clusterRoles = cache.clusterRoles
        BY <1>1, <2>3, <3>1 DEF DeliverBinding, Copies, Events
      <3> QED BY <3>1, <3>2 DEF Uncalled
    <2>4. ASSUME NEW r \in Roles, DeliverRole(r) PROVE Uncalled
      <3>1. ~queued /\ ~cache.owner.present /\ UNCHANGED <<owner, watch, live, news>>
        BY <2>4 DEF DeliverRole, all
      <3>2. cache'.owner = cache.owner
        BY <1>1, <2>4 DEF DeliverRole, Copies
      <3> QED BY <3>1, <3>2 DEF Uncalled
    <2>5. ~DeliverOwner /\ ~Resync
      BY DEF DeliverOwner, Resync
    <2> QED BY <1>3, <2>1, <2>2, <2>3, <2>4, <2>5 DEF Deliver
  <1>4. CASE Users
    <2>1. \E new : WriteOwner(new)
      BY <1>4 DEF Users, CreateOwner, EditOwner, DeleteOwner, AddForeign, RemoveForeign,
                  ForceRelease
    <2>2. UNCHANGED <<live, news, cache, queued>>
      BY <1>4 DEF Users, Edit, CreateOwner, EditOwner, DeleteOwner, AddForeign, RemoveForeign,
                  ForceRelease
    <2> QED BY <2>1, <2>2 DEF Uncalled
  <1>5. CASE CallFails
    <2>1. UNCHANGED <<owner, watch, live, news, cache>>
      BY <1>5 DEF CallFails, Fault, budget
    <2>2. ~queued
      BY <1>5 DEF CallFails, Done, GiveUp
    <2> QED BY <2>1, <2>2 DEF Uncalled
  <1>6. CASE Others /\ ~CallFails /\ ~Crash
    <2>1. UNCHANGED <<owner, watch, cache, queued>> /\ Announce
      BY <1>6 DEF Others, Fault, Elsewhere, ToggleRole, DriftBinding, RelabelBinding,
                  HoldBinding, DriftQuota, DeleteNamespace, ChangeMetadata, CorruptInventory
    <2> QED BY <2>1 DEF Uncalled
  <1>7. CASE NamespaceController \/ (\E k \in BindingKeys : LetGo(k)) \/ UNCHANGED vars
    <2>1. UNCHANGED <<owner, watch, cache, queued>> /\ (Announce \/ UNCHANGED <<live, news>>)
      BY <1>7 DEF NamespaceController, LetGo, vars
    <2> QED BY <2>1 DEF Uncalled
  <1> QED BY <1>2, <1>3, <1>4, <1>5, <1>6, <1>7 DEF Next, Worker


\* With no event left over, there was none, and what carries our labels has not
\* changed.
LEMMA Unannounced ==
  ASSUME TypeOK, Announce, news' = NoEvents
  PROVE  /\ news = NoEvents
         /\ NamesOwner(namespace) \/ NamesOwner(namespace') => namespace' = namespace
         /\ \A q \in QuotaNames :
              IsOwned(quotas[q]) \/ IsOwned(quotas'[q]) => quotas'[q] = quotas[q]
         /\ \A k \in BindingKeys :
              IsOwned(bindings[k]) \/ IsOwned(bindings'[k]) => bindings'[k] = bindings[k]
PROOF
  <1>1. /\ news'.namespace = FALSE /\ news'.quotas = {} /\ news'.bindings = {}
        /\ news \in Events
    BY DEF NoEvents, TypeOK
  <1>2. /\ ~news.namespace
        /\ ~(namespace' # namespace /\ (NamesOwner(namespace) \/ NamesOwner(namespace')))
    BY <1>1 DEF Announce
  <1>3. /\ news.quotas = {}
        /\ {q \in QuotaNames : /\ quotas'[q] # quotas[q]
                               /\ IsOwned(quotas[q]) \/ IsOwned(quotas'[q])} = {}
    BY <1>1 DEF Announce
  <1>4. /\ news.bindings = {}
        /\ {k \in BindingKeys : /\ bindings'[k] # bindings[k]
                                /\ IsOwned(bindings[k]) \/ IsOwned(bindings'[k])} = {}
    BY <1>1 DEF Announce
  <1>5. news = NoEvents
    BY <1>1, <1>2, <1>3, <1>4 DEF Events, NoEvents
  <1> QED BY <1>2, <1>3, <1>4, <1>5

\* A steady state comes from the start of a pass, or from a steady one, and nothing
\* a pass depends on was changed.
LEMMA SteadySteps ==
  ASSUME TypeOK, Fresh, [Next]_vars, Steady'
  PROVE  /\ Reconcile \/ Steady
         /\ Unmoved /\ watch = {} /\ news = NoEvents /\ cache.owner = owner
PROOF
  <1>1. ~Crash
    BY DEF Crash, Fault, Steady
  <1>2. CASE Reconcile /\ Announce
    <2>1. UNCHANGED <<owner, watch, cache>> /\ news' = NoEvents /\ watch' = {}
      BY <1>2 DEF Reconcile, Steady
    <2>2. cache.owner = owner
      BY <2>1 DEF Fresh, Seen
    <2> QED BY <1>2, <2>1, <2>2, Unannounced DEF Unmoved
  <1>3. CASE Uncalled
    <2>1. news' = NoEvents /\ watch' = {} /\ owner'.present
      BY DEF Steady
    <2>2. UNCHANGED <<owner, watch>>
      BY <1>3, <2>1, Unwritten DEF Uncalled
    <2>3. cache.owner = owner
      BY <2>1, <2>2 DEF Fresh, Seen
    <2>4. cache'.owner = cache.owner /\ cache'.clusterRoles = cache.clusterRoles /\ ~queued
      BY <1>3, <2>1, <2>2, <2>3 DEF Uncalled
    <2>5. CASE Announce
      BY <2>1, <2>2, <2>3, <2>4, <2>5, Unannounced DEF Unmoved, Steady
    <2>6. CASE UNCHANGED <<live, news>>
      BY <2>1, <2>2, <2>3, <2>4, <2>6 DEF Unmoved, Steady, live
    <2> QED BY <1>3, <2>5, <2>6 DEF Uncalled
  <1> QED BY <1>1, <1>2, <1>3, UncalledSteps DEF Steady

\* What a step does to the copies of the cache: nothing, or one delivered, or all
\* listed afresh.
LEMMA CopySteps ==
  ASSUME TypeOK, [Next]_vars
  PROVE  /\ cache'.namespace \in {cache.namespace, namespace'}
         /\ \A q \in QuotaNames : cache'.quotas[q] \in {cache.quotas[q], quotas'[q]}
         /\ \A k \in BindingKeys : cache'.bindings[k] \in {cache.bindings[k], bindings'[k]}
PROOF
  <1> DEFINE Goal ==
        /\ cache'.namespace \in {cache.namespace, namespace'}
        /\ \A q \in QuotaNames : cache'.quotas[q] \in {cache.quotas[q], quotas'[q]}
        /\ \A k \in BindingKeys : cache'.bindings[k] \in {cache.bindings[k], bindings'[k]}
  <1>1. cache \in Copies
    BY DEF TypeOK
  <1>2. CASE cache' = cache
    BY <1>2
  <1>3. CASE Crash
    BY <1>3 DEF Crash, live
  <1>4. CASE DeliverNamespace
    BY <1>1, <1>4 DEF DeliverNamespace, Copies, live
  <1>5. ASSUME NEW q \in QuotaNames, DeliverQuota(q) PROVE Goal
    BY <1>1, <1>5 DEF DeliverQuota, Copies, live
  <1>6. ASSUME NEW k \in BindingKeys, DeliverBinding(k) PROVE Goal
    BY <1>1, <1>6 DEF DeliverBinding, Copies, live
  <1>7. ASSUME NEW r \in Roles, DeliverRole(r) PROVE Goal
    BY <1>1, <1>7 DEF DeliverRole, Copies
  <1>8. CASE DeliverOwner
    BY <1>1, <1>8 DEF DeliverOwner, Copies
  <1>9. CASE Deliver
    BY <1>2, <1>4, <1>5, <1>6, <1>7, <1>8, <1>9 DEF Deliver, Resync
  <1>10. cache' = cache \/ Deliver \/ Crash
    BY DEF Next, Worker, vars, Reconcile, Finalize, Unbound, Release, Adopt, Prune,
           DeleteBinding, EnsureNamespace, EnsureQuota, PruneQuotas, DeleteQuota,
           ReconcileBindings, MissingRole, ReplaceBinding, EnsureBinding, PruneUnresolved,
           ReportStatus, NamespaceController, LetGo, Users, Edit, CreateOwner, EditOwner,
           DeleteOwner, AddForeign, RemoveForeign, ForceRelease, Others, Elsewhere, CallFails,
           ToggleRole, DriftBinding, RelabelBinding, HoldBinding, DriftQuota, DeleteNamespace,
           ChangeMetadata, CorruptInventory
  <1> QED BY <1>2, <1>3, <1>9, <1>10

\* What is not a step of the worker, a failing call or a restart leaves the pass
\* and the gauge alone.
LEMMA PassAlone ==
  ASSUME [Next]_vars
  PROVE  Worker \/ CallFails \/ Crash \/ UNCHANGED <<worker, gauge>>
  BY DEF Next, vars, Deliver, DeliverOwner, Resync, DeliverNamespace, DeliverQuota,
         DeliverBinding, DeliverRole, NamespaceController, LetGo, Users, Edit, CreateOwner,
         EditOwner, DeleteOwner, AddForeign, RemoveForeign, ForceRelease, Others, Elsewhere,
         ToggleRole, DriftBinding, RelabelBinding, HoldBinding, DriftQuota, DeleteNamespace,
         ChangeMetadata, CorruptInventory

\* What a step does to the events: it adds those of what it changes, takes one for
\* the copy it delivers, or drops all for a list of what is there.
LEMMA NewsSteps ==
  ASSUME TypeOK, [Next]_vars
  PROVE  \/ Announce \/ Crash \/ DeliverNamespace
         \/ \E q \in QuotaNames : DeliverQuota(q)
         \/ \E k \in BindingKeys : DeliverBinding(k)
         \/ UNCHANGED <<live, news>>
  BY DEF Next, Worker, Deliver, DeliverOwner, Resync, DeliverRole, NamespaceController, LetGo,
         Users, Edit, CreateOwner, EditOwner, DeleteOwner, AddForeign, RemoveForeign,
         ForceRelease, Others, CallFails, Elsewhere, ToggleRole, DriftBinding, RelabelBinding,
         HoldBinding, DriftQuota, DeleteNamespace, ChangeMetadata, CorruptInventory, vars


\* Each step keeps the cache true to what no event of is on its way.
LEMMA FaithfulStep ==
  ASSUME TypeOK, Faithful, [Next]_vars
  PROVE  Faithful'
PROOF
  <1> DEFINE Trusted == \/ cache.namespace = namespace
                        \/ ~NamesOwner(cache.namespace) /\ ~NamesOwner(namespace)
  <1>1. cache \in Copies /\ news \in Events
    BY DEF TypeOK
  <1>2. CASE Announce
    <2>1. ASSUME ~news'.namespace PROVE Trusted'
      <3>1. ~news.namespace /\ (namespace' = namespace
                                  \/ (~NamesOwner(namespace) /\ ~NamesOwner(namespace')))
        BY <1>2, <2>1 DEF Announce
      <3>2. cache'.namespace \in {cache.namespace, namespace'} /\ Trusted
        BY <3>1, CopySteps DEF Faithful
      <3>3. CASE cache'.namespace = namespace'
        BY <3>3
      <3>4. CASE cache'.namespace = cache.namespace
        BY <3>1, <3>2, <3>4
      <3> QED BY <3>2, <3>3, <3>4
    <2>2. ASSUME NEW q \in QuotaNames, q \notin news'.quotas
          PROVE  Mirrors(cache'.quotas[q], quotas'[q])
      <3>1. q \notin news.quotas /\ (quotas'[q] = quotas[q]
                                       \/ (~IsOwned(quotas[q]) /\ ~IsOwned(quotas'[q])))
        BY <1>2, <2>2 DEF Announce
      <3>2. cache'.quotas[q] \in {cache.quotas[q], quotas'[q]} /\ Mirrors(cache.quotas[q], quotas[q])
        BY <3>1, CopySteps DEF Faithful
      <3> QED BY <3>1, <3>2 DEF Mirrors
    <2>3. ASSUME NEW k \in BindingKeys, k \notin news'.bindings
          PROVE  Mirrors(cache'.bindings[k], bindings'[k])
      <3>1. k \notin news.bindings /\ (bindings'[k] = bindings[k]
                                         \/ (~IsOwned(bindings[k]) /\ ~IsOwned(bindings'[k])))
        BY <1>2, <2>3 DEF Announce
      <3>2. /\ cache'.bindings[k] \in {cache.bindings[k], bindings'[k]}
            /\ Mirrors(cache.bindings[k], bindings[k])
        BY <3>1, CopySteps DEF Faithful
      <3> QED BY <3>1, <3>2 DEF Mirrors
    <2> QED BY <2>1, <2>2, <2>3 DEF Faithful
  <1>3. CASE Crash
    BY <1>3 DEF Crash, live, Faithful, Mirrors
  <1>4. CASE DeliverNamespace
    <2>1. /\ cache'.namespace = namespace' /\ cache'.quotas = cache.quotas
          /\ cache'.bindings = cache.bindings /\ UNCHANGED live
          /\ news'.quotas = news.quotas /\ news'.bindings = news.bindings
      BY <1>1, <1>4 DEF DeliverNamespace, Copies, Events, live
    <2> QED BY <2>1 DEF Faithful, live
  <1>5. ASSUME NEW q \in QuotaNames, DeliverQuota(q) PROVE Faithful'
    <2>1. /\ cache'.namespace = cache.namespace /\ cache'.bindings = cache.bindings
          /\ UNCHANGED live /\ news'.namespace = news.namespace
          /\ news'.bindings = news.bindings /\ news'.quotas = news.quotas \ {q}
          /\ cache'.quotas = [cache.quotas EXCEPT ![q] = quotas[q]]
      BY <1>1, <1>5 DEF DeliverQuota, Copies, Events
    <2>2. ASSUME NEW r \in QuotaNames, r \notin news'.quotas
          PROVE  Mirrors(cache'.quotas[r], quotas'[r])
      <3>1. CASE r = q
        BY <1>1, <2>1, <3>1 DEF Copies, live, Mirrors
      <3>2. CASE r # q
        <4>1. r \notin news.quotas
          BY <2>1, <2>2, <3>2
        <4> QED BY <1>1, <2>1, <3>2, <4>1 DEF Copies, live, Faithful
      <3> QED BY <3>1, <3>2
    <2> QED BY <2>1, <2>2 DEF Faithful, live
  <1>6. ASSUME NEW k \in BindingKeys, DeliverBinding(k) PROVE Faithful'
    <2>1. /\ cache'.namespace = cache.namespace /\ cache'.quotas = cache.quotas
          /\ UNCHANGED live /\ news'.namespace = news.namespace
          /\ news'.quotas = news.quotas /\ news'.bindings = news.bindings \ {k}
          /\ cache'.bindings = [cache.bindings EXCEPT ![k] = bindings[k]]
      BY <1>1, <1>6 DEF DeliverBinding, Copies, Events
    <2>2. ASSUME NEW j \in BindingKeys, j \notin news'.bindings
          PROVE  Mirrors(cache'.bindings[j], bindings'[j])
      <3>1. CASE j = k
        BY <1>1, <2>1, <3>1 DEF Copies, live, Mirrors
      <3>2. CASE j # k
        <4>1. j \notin news.bindings
          BY <2>1, <2>2, <3>2
        <4> QED BY <1>1, <2>1, <3>2, <4>1 DEF Copies, live, Faithful
      <3> QED BY <3>1, <3>2
    <2> QED BY <2>1, <2>2 DEF Faithful, live
  <1>7. CASE UNCHANGED <<live, news>>
    <2>1. /\ cache'.namespace \in {cache.namespace, namespace}
          /\ \A q \in QuotaNames : cache'.quotas[q] \in {cache.quotas[q], quotas[q]}
          /\ \A k \in BindingKeys : cache'.bindings[k] \in {cache.bindings[k], bindings[k]}
      BY <1>7, CopySteps DEF live
    <2> QED BY <1>7, <2>1 DEF Faithful, live, Mirrors
  <1> QED BY <1>2, <1>3, <1>4, <1>5, <1>6, <1>7, NewsSteps

\* Each step keeps the owner in the cache or on its way there, and an uncalled
\* pass with what is in the cache.
LEMMA FreshStep ==
  ASSUME TypeOK, TypeOK', Versions, Fresh, [Next]_vars
  PROVE  Fresh'
PROOF
  <1>1. owner' \in Seen'
    BY OwnerSeen DEF Fresh
  <1>2. ASSUME pc' # "idle", ~queued' PROVE mns' = cache'.owner
    <2>1. CASE Reconcile
      BY <1>2, <2>1 DEF Reconcile, FirstStep
    <2>2. ~Crash
      BY <1>2 DEF Crash
    <2>3. CASE Uncalled /\ (PassOn \/ Rests)
      BY <1>2, <2>3 DEF Uncalled, PassOn, Rests, Fresh
    <2> QED BY <1>2, <2>1, <2>2, <2>3, UncalledSteps, Steps DEF Ends
  <1> QED BY <1>1, <1>2 DEF Fresh

\* Each step keeps the locals of no use empty, and an error to the status.
LEMMA TidyStep ==
  ASSUME TypeOK, Tidy, [Next]_vars
  PROVE  Tidy'
PROOF
  <1>1. CASE Reconcile
    BY <1>1 DEF Reconcile, FirstStep, Tidy, Guarding, Syncing
  <1>2. CASE Finalize \/ Unbound \/ Release \/ Adopt \/ ReportStatus
    BY <1>2 DEF Finalize, Unbound, Release, Adopt, ReportStatus, Done, Tidy, Guarding,
                    Syncing
  <1>3. CASE Prune \/ DeleteBinding \/ EnsureNamespace
    BY <1>3 DEF Prune, DeleteBinding, EnsureNamespace, GiveUp, Tidy, Guarding, Syncing
  <1>4. CASE EnsureQuota \/ PruneQuotas \/ DeleteQuota \/ ReconcileBindings
    BY <1>4 DEF EnsureQuota, PruneQuotas, DeleteQuota, ReconcileBindings, GiveUp, Tidy, Guarding, Syncing
  <1>5. CASE MissingRole \/ ReplaceBinding \/ EnsureBinding \/ PruneUnresolved
    BY <1>5 DEF MissingRole, ReplaceBinding, EnsureBinding, PruneUnresolved, GiveUp, Tidy, Guarding, Syncing
  <1>6. CASE CallFails \/ Crash
    BY <1>6 DEF CallFails, Crash, Done, GiveUp, Tidy, Guarding, Syncing
  <1>7. CASE UNCHANGED <<worker, gauge>>
    BY <1>7 DEF worker, Tidy
  <1> QED BY <1>1, <1>2, <1>3, <1>4, <1>5, <1>6, <1>7, PassAlone DEF Worker

-----------------------------------------------------------------------------
(* The namespace a pass ensures *)

\* Without any keys to list, a new namespace is listed.
LEMMA NewListed == Listed(NewNamespace)
PROOF
  <1>1. DOMAIN NewNamespace.labels = {} /\ DOMAIN NewNamespace.annotations = {}
    BY DEF NewNamespace
  <1> QED BY <1>1 DEF Listed

\* The mutate function makes a namespace that names its owner, has the keys that
\* were asked for, has no others but those of strangers, and lists them.
LEMMA MutateInSync ==
  ASSUME NEW ns \in Namespace, ns.inventory # Malformed, Listed(ns), NEW s \in Specs
  PROVE  LET new == MutateNamespace(ns, Owner, s)
         IN  /\ NamesOwner(new) /\ Listed(new)
             /\ Carries(new.labels, s.labels, {OwnerKey})
             /\ Carries(new.annotations, s.annotations, {InventoryKey})
             /\ new.inventory = [labels |-> DOMAIN s.labels,
                                 annotations |-> DOMAIN s.annotations \ {InventoryKey}]
PROOF
  <1> DEFINE new    == MutateNamespace(ns, Owner, s)
             listed == namespaceMetadataInventory(ns)
             named  == Over(Single(OwnerKey, Owner), s.labels)
             asked  == Without(s.annotations, {InventoryKey})
  <1>1. new \in Namespace
    BY MutateType
  <1>2. /\ new.labels = Over(named, Without(ns.labels, listed.labels))
        /\ new.annotations = Over(asked, Without(ns.annotations, listed.annotations))
        /\ new.inventory = [labels |-> DOMAIN s.labels,
                            annotations |-> DOMAIN s.annotations \ {InventoryKey}]
    BY DEF MutateNamespace, Namespace
  <1>3. new # Absent /\ ns # Absent
    BY <1>1, AbsentAssumption
  <1>4. /\ DOMAIN named = {OwnerKey} \union DOMAIN s.labels /\ named[OwnerKey] = Owner
        /\ \A key \in DOMAIN s.labels \ {OwnerKey} : named[key] = s.labels[key]
    BY DEF Over, Single
  <1>5. /\ DOMAIN asked = DOMAIN s.annotations \ {InventoryKey}
        /\ \A key \in DOMAIN asked : asked[key] = s.annotations[key]
    BY DEF Without
  <1>6. /\ DOMAIN Without(ns.labels, listed.labels) = DOMAIN ns.labels \ listed.labels
        /\ DOMAIN Without(ns.annotations, listed.annotations)
             = DOMAIN ns.annotations \ listed.annotations
    BY DEF Without
  <1>7. DOMAIN new.labels \subseteq MetaKeys /\ DOMAIN new.annotations \subseteq MetaKeys
    BY <1>1, MapFacts DEF Namespace
  <1>8. new.inventory \in KeySets
    <2>1. DOMAIN s.labels \subseteq MetaKeys
      BY MapFacts, SpecsAssumption
    <2>2. DOMAIN s.annotations \ {InventoryKey} \subseteq MetaKeys
      BY SpecsAssumption
    <2> QED BY <1>2, <2>1, <2>2 DEF KeySets
  <1>9. new.inventory # Unset
    BY <1>8, AbsentAssumption
  <1> HIDE DEF new, listed, named, asked
  <1>10. /\ DOMAIN new.labels = DOMAIN named \union (DOMAIN ns.labels \ listed.labels)
         /\ \A key \in DOMAIN named : new.labels[key] = named[key]
    BY <1>2, <1>6 DEF Over
  <1>11. /\ DOMAIN new.annotations = DOMAIN asked \union (DOMAIN ns.annotations \ listed.annotations)
         /\ \A key \in DOMAIN asked : new.annotations[key] = asked[key]
    BY <1>2, <1>6 DEF Over
  <1>12. "metadata" \notin Disturbances =>
           /\ DOMAIN ns.labels \ listed.labels \subseteq {OwnerKey}
           /\ DOMAIN ns.annotations \ listed.annotations = {}
    BY <1>3 DEF Listed, listed
  <1>13. NamesOwner(new)
    BY <1>3, <1>4, <1>10 DEF NamesOwner
  <1>14. Listed(new)
    BY <1>2, <1>4, <1>5, <1>9, <1>10, <1>11, <1>12 DEF Listed, namespaceMetadataInventory
  <1>15. Carries(new.labels, s.labels, {OwnerKey})
    BY <1>4, <1>7, <1>10, <1>12 DEF Carries
  <1>16. Carries(new.annotations, s.annotations, {InventoryKey})
    BY <1>5, <1>7, <1>11, <1>12 DEF Carries
  <1> QED BY <1>2, <1>13, <1>14, <1>15, <1>16 DEF new

\* The copy that the mutate function starts from.
LEMMA Mutated ==
  ASSUME TypeOK, AllListed
  PROVE  LET ns == IF cache.namespace = Absent THEN NewNamespace ELSE cache.namespace
         IN  ns \in Namespace /\ Listed(ns)
  BY NewNamespaceType, NewListed DEF TypeOK, Copies, AllListed

\* The call on the namespace leaves it as it was or as it is asked for; when it
\* does not fail, one of these is what the other is to be.
LEMMA EnsuredNamespace ==
  ASSUME TypeOK, AllListed
  PROVE  LET ns      == IF cache.namespace = Absent THEN NewNamespace ELSE cache.namespace
             desired == MutateNamespace(ns, Owner, mns.spec)
         IN  \/ NamespaceCall.object = namespace /\ NamespaceCall.error # "none"
             \/ /\ ns.inventory # Malformed
                /\ \/ NamespaceCall.object = desired
                   \/ NamespaceCall.object = namespace /\ cache.namespace = desired
PROOF
  <1> DEFINE ns      == IF cache.namespace = Absent THEN NewNamespace ELSE cache.namespace
             desired == MutateNamespace(ns, Owner, mns.spec)
             verdict == Accepts(Elements(mns.spec.labels) \union Elements(mns.spec.annotations))
  <1>1. CASE ns.inventory = Malformed
    BY <1>1 DEF NamespaceCall
  <1>2. CASE ns.inventory # Malformed
    <2>1. NamespaceCall = CreateOrUpdate(cache.namespace, desired, namespace, verdict, verdict)
      BY <1>2 DEF NamespaceCall
    <2> HIDE DEF desired, verdict
    <2>2. \/ NamespaceCall.object = namespace /\ NamespaceCall.error # "none"
          \/ NamespaceCall.object = desired
          \/ NamespaceCall.object = namespace /\ cache.namespace = desired
      BY <2>1 DEF CreateOrUpdate
    <2> QED BY <1>2, <2>2 DEF desired
  <1> QED BY <1>1, <1>2

\* Each step keeps the namespace and its copy listed.
LEMMA ListedStep ==
  ASSUME TypeOK, AllListed, [Next]_vars
  PROVE  AllListed'
PROOF
  <1>1. Listed(namespace')
    <2>1. CASE namespace' = namespace
      BY <2>1 DEF AllListed
    <2>2. CASE EnsureNamespace
      <3> DEFINE ns      == IF cache.namespace = Absent THEN NewNamespace ELSE cache.namespace
                 desired == MutateNamespace(ns, Owner, mns.spec)
      <3>1. namespace' = NamespaceCall.object
        BY <2>2 DEF EnsureNamespace
      <3>2. mns.spec \in Specs
        BY DEF TypeOK, OwnerVersion
      <3>3. ns.inventory # Malformed => Listed(desired)
        BY <3>2, Mutated, MutateInSync
      <3>4. namespace' = namespace \/ (ns.inventory # Malformed /\ namespace' = desired)
        BY <3>1, EnsuredNamespace
      <3> QED BY <2>1, <3>3, <3>4
    <2>3. CASE namespace' = Absent
      BY <2>3 DEF Listed
    <2>4. CASE DeleteNamespace
      <3>1. /\ namespace' = [namespace EXCEPT !.terminating = TRUE] /\ namespace \in Namespace
            /\ namespace # Absent
        BY <2>4 DEF DeleteNamespace, NamespaceOpen, TypeOK
      <3>2. /\ namespace'.inventory = namespace.inventory
            /\ namespace'.labels = namespace.labels
            /\ namespace'.annotations = namespace.annotations
        BY <3>1 DEF Namespace
      <3> QED BY <3>1, <3>2 DEF AllListed, Listed, namespaceMetadataInventory
    <2>5. CASE ChangeMetadata
      BY <2>5 DEF ChangeMetadata, Fault, Listed
    <2>6. CASE CorruptInventory
      <3>1. namespace' = [namespace EXCEPT !.inventory = Malformed] /\ namespace \in Namespace
        BY <2>6 DEF CorruptInventory, TypeOK
      <3> QED BY <3>1 DEF Listed, Namespace
    <2>7. CASE Worker
      BY <2>1, <2>2, <2>7
      DEF Worker, live, Reconcile, Finalize, Unbound, Release, Adopt, Prune, DeleteBinding,
          EnsureQuota, PruneQuotas, DeleteQuota, ReconcileBindings, MissingRole, ReplaceBinding,
          EnsureBinding, PruneUnresolved, ReportStatus
    <2>8. CASE Deliver \/ (\E k \in BindingKeys : LetGo(k)) \/ UNCHANGED vars
      BY <2>1, <2>8 DEF Deliver, live, vars, LetGo, DeliverOwner, Resync, DeliverNamespace,
                        DeliverQuota, DeliverBinding, DeliverRole
    <2>9. CASE NamespaceController
      BY <2>1, <2>3, <2>9 DEF NamespaceController
    <2>10. CASE Users
      BY <2>1, <2>10 DEF Users, Edit, live, CreateOwner, EditOwner, DeleteOwner, AddForeign,
                         RemoveForeign, ForceRelease
    <2>11. CASE Others
      BY <2>1, <2>4, <2>5, <2>6, <2>11
      DEF Others, live, CallFails, Crash, ToggleRole, DriftBinding, RelabelBinding, HoldBinding,
          DriftQuota
    <2> QED BY <2>7, <2>8, <2>9, <2>10, <2>11 DEF Next
  <1>2. cache'.namespace \in {cache.namespace, namespace'}
    BY CopySteps
  <1> QED BY <1>1, <1>2 DEF AllListed

-----------------------------------------------------------------------------
(* The quotas and the bindings a pass ensures *)

\* A binding's name tells the subjects it is for.
LEMMA NamedSubjects ==
  ASSUME NEW spec, NEW p
  PROVE  /\ KeyAt(spec, p).namespace = Owner
         /\ KeyAt(spec, p).name[3] = RoleAt(spec, p)
         /\ subjectsFor(MappingAt(spec, p)) = SubjectsNamed(KeyAt(spec, p).name[2])
PROOF
  <1>1. KeyAt(spec, p).name[2] = subjectKey(MappingAt(spec, p))
    BY DEF KeyAt, BindingName
  <1>2. subjectsFor(MappingAt(spec, p)) = SubjectsNamed(subjectKey(MappingAt(spec, p)))
    BY DEF subjectsFor, subjectKey, SubjectsNamed
  <1> QED BY <1>1, <1>2 DEF KeyAt, BindingName

\* The order of the positions has one first.
LEMMA OneFirst ==
  ASSUME NEW s \in Specs, todo \subseteq Positions(s), NEW p, NEW q, IsFirst(p), IsFirst(q)
  PROVE  p = q
PROOF
  <1>1. ASSUME NEW r \in Positions(s) PROVE r = <<r[1], r[2]>> /\ r[1] \in Nat /\ r[2] \in Nat
    <2>1. PICK i \in DOMAIN s.accessMappings :
            \E j \in DOMAIN s.accessMappings[i].clusterRoles : r = <<i, j>>
      BY DEF Positions
    <2>2. PICK j \in DOMAIN s.accessMappings[i].clusterRoles : r = <<i, j>>
      BY <2>1
    <2>3. s.accessMappings \in Seq([group : STRING, users : Seq(UserNames), clusterRoles : Seq(Roles)])
      BY SpecsAssumption
    <2>4. s.accessMappings[i] \in [group : STRING, users : Seq(UserNames), clusterRoles : Seq(Roles)]
      BY <2>3, SeqElement
    <2>5. s.accessMappings[i].clusterRoles \in Seq(Roles)
      BY <2>4
    <2>6. i \in Nat /\ j \in Nat
      BY <2>3, <2>5
    <2> QED BY <2>2, <2>6
  <1>2. p \in Positions(s) /\ q \in Positions(s) /\ Precedes(p, q) /\ Precedes(q, p)
    BY DEF IsFirst
  <1>3. p[1] = q[1] /\ p[2] = q[2]
    BY <1>1, <1>2 DEF Precedes
  <1>4. p = <<p[1], p[2]>> /\ q = <<q[1], q[2]>>
    BY <1>1, <1>2
  <1> QED BY <1>3, <1>4

\* A call on a quota that does not fail makes it what was asked for, or found it so
\* in the cache.
LEMMA EnsuredQuota ==
  ASSUME TypeOK, NEW q \in DOMAIN mns.spec.quotas, QuotaCall(q).error = "none"
  PROVE  \/ Holding(QuotaCall(q).object, mns.spec.quotas[q])
         \/ /\ QuotaCall(q).object = quotas[q]
            /\ Holding(cache.quotas[q], mns.spec.quotas[q])
PROOF
  <1> DEFINE limits  == mns.spec.quotas[q]
             desired == [owned |-> TRUE, limits |-> limits]
             verdict == Accepts({limits})
  <1>1. mns.spec \in Specs
    BY DEF TypeOK, OwnerVersion
  <1>2. limits \in Limits
    BY <1>1, RequestTypes
  <1>3. desired \in Quota
    BY <1>2 DEF Quota
  <1>4. Holding(desired, limits)
    BY <1>3, AbsentAssumption DEF Holding, IsOwned
  <1>5. QuotaCall(q) = CreateOrUpdate(cache.quotas[q], desired, quotas[q], Creation(verdict), verdict)
    BY DEF QuotaCall
  <1> HIDE DEF desired, verdict, limits
  <1>6. \/ QuotaCall(q).object = desired
        \/ QuotaCall(q).object = quotas[q] /\ cache.quotas[q] = desired
    BY <1>5 DEF CreateOrUpdate
  <1>7. CASE QuotaCall(q).object = desired
    BY <1>4, <1>7 DEF limits
  <1>8. CASE QuotaCall(q).object = quotas[q] /\ cache.quotas[q] = desired
    BY <1>4, <1>8 DEF limits
  <1> QED BY <1>6, <1>7, <1>8

\* A call on a binding that does not fail makes it what its name says, or found it
\* so in the cache.
LEMMA EnsuredBinding ==
  ASSUME TypeOK, NEW p \in Positions(mns.spec), BindingCall(p).error = "none"
  PROVE  LET k == KeyAt(mns.spec, p)
         IN  \/ Fits(BindingCall(p).object, k)
             \/ BindingCall(p).object = bindings[k] /\ Fits(cache.bindings[k], k)
PROOF
  <1> DEFINE k        == KeyAt(mns.spec, p)
             role     == RoleAt(mns.spec, p)
             subjects == subjectsFor(MappingAt(mns.spec, p))
             base     == IF cache.bindings[k] = Absent THEN NewBinding ELSE cache.bindings[k]
             desired  == DesiredBinding(base, role, subjects)
             verdict  == IF role \in Refused THEN "failed" ELSE "none"
             update   == IF base.role # role THEN "invalid" ELSE verdict
             create   == Creation(verdict)
  <1>1. mns.spec \in Specs
    BY DEF TypeOK, OwnerVersion
  <1>2. k \in BindingKeys /\ role \in Roles /\ subjects \in SubjectLists
    BY <1>1, KeyTypes
  <1>3. base \in Binding
    BY <1>2, NewBindingType DEF TypeOK, Copies
  <1>4. role = k.name[3] /\ subjects = SubjectsNamed(k.name[2])
    BY NamedSubjects
  <1>5. BindingCall(p) = CreateOrUpdate(cache.bindings[k], desired, bindings[k], create, update)
    BY DEF BindingCall
  <1> HIDE DEF k, role, subjects, base, verdict, update, create
  <1>6. /\ desired \in Binding /\ desired.owned /\ desired.role = role
        /\ desired.subjects = subjects
    BY <1>2, <1>3 DEF DesiredBinding, Binding
  <1> HIDE DEF desired
  <1>7. Fits(desired, k)
    BY <1>4, <1>6, AbsentAssumption DEF Fits, IsOwned
  <1>8. \/ BindingCall(p).object = desired
        \/ BindingCall(p).object = bindings[k] /\ cache.bindings[k] = desired
    BY <1>5 DEF CreateOrUpdate
  <1>9. Fits(BindingCall(p).object, k) \/ (BindingCall(p).object = bindings[k] /\ Fits(cache.bindings[k], k))
    <2>1. CASE BindingCall(p).object = desired
      BY <1>7, <2>1
    <2>2. CASE BindingCall(p).object = bindings[k] /\ cache.bindings[k] = desired
      BY <1>7, <2>2
    <2> QED BY <1>8, <2>1, <2>2
  <1> QED BY <1>9 DEF k

\* No role of no position is missing.
LEMMA CountsNone == ASSUME NEW spec, NEW set PROVE Counts(<<>>, spec, {}, set)
PROOF
  <1>1. Lacking(spec, {}, set) = {} /\ Elements(<<>>) = {}
    BY DEF Lacking, Elements
  <1>2. Len(<<>>) = 0
    OBVIOUS
  <1> QED BY <1>1, <1>2, FS_EmptySet DEF Counts

\* One that is missing is listed next.
LEMMA CountsMissing ==
  ASSUME NEW spec, NEW set, NEW visited, NEW refs \in Seq(Roles), NEW p,
         Counts(refs, spec, visited, set), p \notin visited, RoleAt(spec, p) \in Roles,
         RoleAt(spec, p) \notin set
  PROVE  Counts(Append(refs, RoleAt(spec, p)), spec, visited \union {p}, set)
PROOF
  <1> DEFINE missing == Lacking(spec, visited, set)
             role    == RoleAt(spec, p)
  <1>1. Lacking(spec, visited \union {p}, set) = missing \union {p} /\ p \notin missing
    BY DEF Lacking
  <1>2. /\ IsFiniteSet(missing) /\ Cardinality(missing) = Len(refs)
        /\ Elements(refs) = {RoleAt(spec, q) : q \in missing}
    BY DEF Counts
  <1> HIDE DEF missing
  <1>3. IsFiniteSet(missing \union {p}) /\ Cardinality(missing \union {p}) = Len(refs) + 1
    BY <1>1, <1>2, FS_AddElement
  <1>4. Len(Append(refs, role)) = Len(refs) + 1
    OBVIOUS
  <1>5. Elements(Append(refs, role)) = {RoleAt(spec, q) : q \in missing} \union {role}
    BY <1>2, AppendedElements
  <1>6. {RoleAt(spec, q) : q \in missing \union {p}} = {RoleAt(spec, q) : q \in missing} \union {role}
    OBVIOUS
  <1> QED BY <1>1, <1>3, <1>4, <1>5, <1>6 DEF Counts

\* One that exists is not.
LEMMA CountsExisting ==
  ASSUME NEW spec, NEW set, NEW visited, NEW refs, NEW p,
         Counts(refs, spec, visited, set), RoleAt(spec, p) \in set
  PROVE  Counts(refs, spec, visited \union {p}, set)
PROOF
  <1>1. Lacking(spec, visited \union {p}, set) = Lacking(spec, visited, set)
    BY DEF Lacking
  <1> QED BY <1>1 DEF Counts

\* The names of one more position.
LEMMA NamesAdded ==
  ASSUME NEW spec, NEW set, NEW visited, NEW p
  PROVE  /\ RoleAt(spec, p) \in set =>
              NamesOf(spec, visited \union {p}, set) = NamesOf(spec, visited, set) \union {KeyAt(spec, p)}
         /\ RoleAt(spec, p) \notin set =>
              NamesOf(spec, visited \union {p}, set) = NamesOf(spec, visited, set)
  BY DEF NamesOf

-----------------------------------------------------------------------------
(* A pass on its way *)

\* What nothing changes stays as a pass left it.
LEMMA LeftSo ==
  ASSUME TypeOK, Unmoved
  PROVE  /\ \A q \in QuotaNames : \A limits :
              Holding(quotas[q], limits) => Holding(quotas'[q], limits)
         /\ OwnedQuotas(quotas') \subseteq OwnedQuotas(quotas)
         /\ \A k \in BindingKeys : Fits(bindings[k], k) => Fits(bindings'[k], k)
         /\ \A k \in Granted' : k \in Granted /\ bindings'[k] = bindings[k]
         /\ MetadataInSync => MetadataInSync'
PROOF
  <1>1. \A q \in QuotaNames : \A limits :
          Holding(quotas[q], limits) => Holding(quotas'[q], limits)
    BY DEF Unmoved, Holding
  <1>2. OwnedQuotas(quotas') \subseteq OwnedQuotas(quotas)
    BY DEF Unmoved, OwnedQuotas
  <1>3. \A k \in BindingKeys : Fits(bindings[k], k) => Fits(bindings'[k], k)
    BY DEF Unmoved, Fits
  <1>4. \A k \in Granted' : k \in Granted /\ bindings'[k] = bindings[k]
    BY DEF Unmoved, Granted
  <1>5. MetadataInSync => MetadataInSync'
    BY DEF Unmoved, MetadataInSync
  <1> QED BY <1>1, <1>2, <1>3, <1>4, <1>5

\* A pass that runs while nothing calls for another works on the owner as it is.
LEMMA OnTheOwner ==
  ASSUME TypeOK, Fresh, [Next]_vars, Steady', pc # "idle"
  PROVE  /\ Steady /\ Unmoved /\ news = NoEvents /\ mns = owner /\ owner' = owner
         /\ cache'.clusterRoles = cache.clusterRoles
PROOF
  <1>1. Steady /\ Unmoved /\ news = NoEvents /\ cache.owner = owner
    BY SteadySteps DEF Reconcile
  <1> QED BY <1>1 DEF Fresh, Steady, Unmoved

\* The steps of a pass that syncs and goes on.
LEMMA SyncingSteps ==
  ASSUME [Next]_vars, pc' \in Syncing \ {"prune"}
  PROVE  \/ Prune \/ DeleteBinding \/ EnsureNamespace
         \/ EnsureQuota \/ PruneQuotas \/ DeleteQuota
         \/ ReconcileBindings \/ MissingRole \/ ReplaceBinding \/ EnsureBinding
         \/ PruneUnresolved \/ UNCHANGED <<worker, gauge>>
  BY PassAlone
  DEF Worker, Reconcile, FirstStep, Finalize, Unbound, Release, Adopt, ReportStatus, CallFails,
      Crash, Done, GiveUp, Syncing

\* From its call on the namespace on, a pass has the namespace as it is asked for.
LEMMA PreparedStep ==
  ASSUME TypeOK, Fresh, Faithful, AllListed, Underway, [Next]_vars, Steady'
  PROVE  Prepared'
PROOF
  <1> SUFFICES ASSUME pc' \in Syncing \ {"prune", "revoke"} PROVE MetadataInSync'
    BY DEF Prepared
  <1>1. ~Reconcile
    BY DEF Reconcile, FirstStep, Syncing
  <1>2. Steady /\ Unmoved
    BY <1>1, SteadySteps
  <1>3. CASE pc \in Syncing \ {"prune", "revoke"}
    BY <1>2, <1>3, LeftSo DEF Underway, Prepared
  <1>4. CASE EnsureNamespace
    <2> DEFINE ns      == IF cache.namespace = Absent THEN NewNamespace ELSE cache.namespace
               desired == MutateNamespace(ns, Owner, mns.spec)
    <2>1. /\ pc # "idle" /\ namespace' = NamespaceCall.object
          /\ NamespaceCall.error = "none"
      BY <1>4 DEF EnsureNamespace, GiveUp, Syncing
    <2>2. /\ mns = owner /\ owner' = owner /\ ~news.namespace /\ owner.spec \in Specs
          /\ NamesOwner(namespace) => namespace' = namespace
      BY <2>1, OnTheOwner DEF NoEvents, TypeOK, OwnerVersion, Unmoved
    <2>3. /\ ns.inventory # Malformed
          /\ \/ namespace' = desired
             \/ namespace' = namespace /\ cache.namespace = desired
      BY <2>1, EnsuredNamespace
    <2>4. /\ NamesOwner(desired)
          /\ Carries(desired.labels, owner.spec.labels, {OwnerKey})
          /\ Carries(desired.annotations, owner.spec.annotations, {InventoryKey})
          /\ desired.inventory = [labels |-> DOMAIN owner.spec.labels,
                                  annotations |-> DOMAIN owner.spec.annotations \ {InventoryKey}]
      BY <2>2, <2>3, Mutated, MutateInSync
    <2> HIDE DEF ns, desired
    <2>5. namespace' = desired
      BY <2>2, <2>3, <2>4 DEF Faithful
    <2> QED BY <2>2, <2>4, <2>5 DEF MetadataInSync
  <1>5. pc \in Syncing \ {"prune", "revoke"} \/ EnsureNamespace
    BY SyncingSteps
    DEF Prune, DeleteBinding, EnsureQuota, PruneQuotas, DeleteQuota, ReconcileBindings,
        MissingRole, ReplaceBinding, EnsureBinding, PruneUnresolved, worker, Syncing
  <1> QED BY <1>3, <1>4, <1>5

\* It goes from quota to quota, and then deletes the ones that are not asked for.
LEMMA RationedStep ==
  ASSUME TypeOK, TypeOK', Fresh, Faithful, Underway, [Next]_vars, Steady'
  PROVE  Rationed'
PROOF
  <1> DEFINE spec        == owner.spec
             Kept(names) == \A q \in names : Holding(quotas'[q], spec.quotas[q])
             Goal == /\ pc' = "quotas" => Kept(DOMAIN spec.quotas \ todo')
                     /\ pc' = "dropQuotas" =>
                          /\ Kept(DOMAIN spec.quotas)
                          /\ OwnedQuotas(quotas') \subseteq DOMAIN spec.quotas \union doomed'
                     /\ pc' \in {"bindings", "ensure", "clear"} =>
                          /\ Kept(DOMAIN spec.quotas)
                          /\ OwnedQuotas(quotas') \subseteq DOMAIN spec.quotas
  <1>1. owner' = owner
    BY SteadySteps DEF Unmoved
  <1> SUFFICES ASSUME pc' \in Syncing \ {"prune", "revoke"} PROVE Goal
    BY <1>1 DEF Rationed, QuotasHeld, QuotasAsked, Syncing
  <1>2. ~Reconcile
    BY DEF Reconcile, FirstStep, Syncing
  <1>3. Steady /\ Unmoved /\ Rationed
    BY <1>2, SteadySteps DEF Underway
  <1>4. spec \in Specs /\ DOMAIN spec.quotas \subseteq QuotaNames
    BY RequestTypes DEF TypeOK, OwnerVersion
  <1>5. \A names \in SUBSET QuotaNames : QuotasHeld(names) => Kept(names)
    BY LeftSo, <1>3 DEF QuotasHeld
  <1>6. OwnedQuotas(quotas') \subseteq OwnedQuotas(quotas)
    BY LeftSo, <1>3
  <1>7. CASE EnsureNamespace
    <2>1. pc # "idle" /\ pc' = "quotas" /\ todo' = DOMAIN mns.spec.quotas
      BY <1>7 DEF EnsureNamespace, GiveUp, Syncing
    <2> QED BY <2>1, OnTheOwner
  <1>8. CASE EnsureQuota
    <2>1. PICK q \in todo :
            /\ pc = "quotas" /\ pc' = "quotas" /\ todo' = todo \ {q}
            /\ QuotaCall(q).error = "none"
            /\ quotas' = [quotas EXCEPT ![q] = QuotaCall(q).object]
      BY <1>8 DEF EnsureQuota, GiveUp, Syncing
    <2>2. mns = owner /\ news.quotas = {}
      BY <2>1, OnTheOwner DEF NoEvents
    <2>3. q \in DOMAIN spec.quotas /\ q \in QuotaNames
      BY <1>4, <2>1, <2>2 DEF TypeOK
    <2>4. quotas'[q] = QuotaCall(q).object
      BY <2>1, <2>3 DEF TypeOK
    <2>5. \/ Holding(QuotaCall(q).object, spec.quotas[q])
          \/ QuotaCall(q).object = quotas[q] /\ Holding(cache.quotas[q], spec.quotas[q])
      BY <2>1, <2>2, <2>3, EnsuredQuota
    <2>6. Holding(cache.quotas[q], spec.quotas[q]) => cache.quotas[q] = quotas[q]
      BY <2>2, <2>3 DEF Faithful, Mirrors, Holding
    <2>7. Holding(quotas'[q], spec.quotas[q])
      BY <2>4, <2>5, <2>6
    <2>8. Kept(DOMAIN spec.quotas \ todo)
      BY <1>3, <1>4, <1>5, <2>1 DEF Rationed
    <2> QED BY <2>1, <2>7, <2>8
  <1>9. CASE PruneQuotas
    <2>1. /\ pc = "quotas" /\ todo = {} /\ pc' = "dropQuotas"
          /\ doomed' = OwnedQuotas(cache.quotas) \ DOMAIN mns.spec.quotas
      BY <1>9 DEF PruneQuotas
    <2>2. mns = owner /\ news.quotas = {}
      BY <2>1, OnTheOwner DEF NoEvents
    <2>3. Kept(DOMAIN spec.quotas)
      BY <1>3, <1>4, <1>5, <2>1 DEF Rationed
    <2>4. OwnedQuotas(quotas) \subseteq OwnedQuotas(cache.quotas)
      BY <2>2 DEF OwnedQuotas, Faithful, Mirrors
    <2> QED BY <1>6, <2>1, <2>2, <2>3, <2>4
  <1>10. CASE DeleteQuota
    <2>1. PICK q \in doomed :
            /\ pc = "dropQuotas" /\ pc' = "dropQuotas" /\ doomed' = doomed \ {q}
            /\ quotas' = [quotas EXCEPT ![q] = Absent]
      BY <1>10 DEF DeleteQuota
    <2>2. q \in QuotaNames
      BY <2>1 DEF TypeOK
    <2>3. q \notin OwnedQuotas(quotas')
      BY <2>1, <2>2 DEF OwnedQuotas, IsOwned, TypeOK
    <2> QED BY <1>3, <1>4, <1>5, <1>6, <2>1, <2>3 DEF Rationed
  <1>11. CASE ReconcileBindings
    BY <1>3, <1>4, <1>5, <1>6, <1>11 DEF ReconcileBindings, Rationed
  <1>12. CASE /\ pc' = pc \/ {pc, pc'} \subseteq {"bindings", "ensure", "clear"}
              /\ pc \in {"bindings", "ensure", "clear"} \/ UNCHANGED <<todo, doomed>>
    BY <1>3, <1>4, <1>5, <1>6, <1>12 DEF Rationed, QuotasAsked
  <1>13. \/ EnsureNamespace \/ EnsureQuota \/ PruneQuotas \/ DeleteQuota \/ ReconcileBindings
         \/ MissingRole \/ ReplaceBinding \/ EnsureBinding \/ PruneUnresolved \/ DeleteBinding
         \/ UNCHANGED <<worker, gauge>>
    BY SyncingSteps DEF Prune
  <1>14. CASE MissingRole \/ ReplaceBinding \/ EnsureBinding \/ PruneUnresolved
    BY <1>12, <1>14
    DEF MissingRole, ReplaceBinding, EnsureBinding, PruneUnresolved, GiveUp, Syncing
  <1>15. CASE DeleteBinding
    BY <1>12, <1>15 DEF DeleteBinding, Syncing
  <1>16. CASE UNCHANGED <<worker, gauge>>
    BY <1>12, <1>16 DEF worker
  <1> QED BY <1>7, <1>8, <1>9, <1>10, <1>11, <1>13, <1>14, <1>15, <1>16


\* It goes from position to position; what it ensured stays, and the binding names it
\* keeps, and the references it found invalid, are those of what it has visited.
LEMMA BoundStep ==
  ASSUME TypeOK, TypeOK', Fresh, Faithful, Tidy, Underway, [Next]_vars, Steady'
  PROVE  Bound'
PROOF
  <1> DEFINE spec == owner.spec
             set  == cache.clusterRoles
             gone == Positions(spec) \ todo'
             At1 == kept' = NamesOf(spec, gone, set) /\ Counts(invalid', spec, gone, set)
             At2 == \A k \in kept' : Fits(bindings'[k], k)
             First(p) == p \in todo' /\ \A q \in todo' : Precedes(p, q)
             At3 == \A p \in todo' : First(p) => RoleAt(spec, p) \in set
             At4 == \A k \in Granted' : k \in kept' \union doomed' \/ bindings'[k].deleting
             Goal == At1 /\ At2 /\ (pc' = "ensure" => At3) /\ (pc' = "clear" => At4)
  <1>1. owner' = owner /\ cache'.clusterRoles = cache.clusterRoles
    BY SteadySteps DEF Unmoved
  <1> SUFFICES ASSUME pc' \in {"bindings", "ensure", "clear"} PROVE Goal
    BY <1>1 DEF Bound, Progress, Visited, InPlace, IsFirst, Accounted
  <1>2. ~Reconcile
    BY DEF Reconcile, FirstStep
  <1>3. Steady /\ Unmoved /\ Bound
    BY <1>2, SteadySteps DEF Underway
  <1>4. spec \in Specs
    BY DEF TypeOK, OwnerVersion
  <1>5. pc # "idle" => mns = owner /\ news.bindings = {}
    BY OnTheOwner DEF NoEvents
  <1>6. /\ \A k \in kept : Fits(bindings[k], k) => Fits(bindings'[k], k)
        /\ \A k \in Granted' : k \in Granted /\ bindings'[k] = bindings[k]
    BY <1>3, LeftSo DEF TypeOK
  <1>7. ASSUME NEW p, p \in todo, pc \in {"bindings", "ensure"}
        PROVE  /\ p \in Positions(spec) /\ RoleAt(spec, p) \in Roles
               /\ KeyAt(spec, p) \in BindingKeys
               /\ Positions(spec) \ (todo \ {p}) = Visited \union {p} /\ p \notin Visited
    <2>1. p \in Positions(spec)
      BY <1>5, <1>7 DEF TypeOK
    <2> QED BY <1>4, <1>7, <2>1, KeyTypes DEF Visited
  <1>8. CASE ReconcileBindings
    <2>1. pc = "dropQuotas" /\ pc' = "bindings" /\ todo' = Positions(spec) /\ UNCHANGED <<kept, invalid>>
      BY <1>5, <1>8 DEF ReconcileBindings
    <2>2. kept' = {} /\ invalid' = <<>> /\ gone = {}
      BY <2>1 DEF Tidy
    <2>3. NamesOf(spec, {}, set) = {}
      BY DEF NamesOf
    <2> HIDE DEF gone, spec, set
    <2> QED BY <2>1, <2>2, <2>3, CountsNone
  <1>9. CASE MissingRole
    <2>1. PICK p \in todo :
            /\ pc = "bindings" /\ pc' = "bindings" /\ todo' = todo \ {p} /\ kept' = kept
            /\ invalid' = Append(invalid, RoleAt(spec, p)) /\ RoleAt(spec, p) \notin set
            /\ bindings' = bindings
      BY <1>5, <1>9 DEF MissingRole, live
    <2>2. Progress /\ InPlace
      BY <1>3, <2>1 DEF Bound
    <2>3. gone = Visited \union {p} /\ p \notin Visited /\ RoleAt(spec, p) \in Roles
      BY <1>7, <2>1
    <2>4. invalid \in Seq(Roles)
      BY DEF TypeOK
    <2> HIDE DEF gone
    <2>5. At1
      BY <2>1, <2>2, <2>3, <2>4, CountsMissing, NamesAdded DEF Progress
    <2> QED BY <2>1, <2>2, <2>5 DEF InPlace
  <1>10. CASE ReplaceBinding
    <2>1. /\ pc = "bindings" /\ pc' = "ensure" /\ UNCHANGED <<todo, kept, invalid>>
          /\ \E p \in todo : IsFirst(p) /\ RoleAt(spec, p) \in set
      BY <1>5, <1>10 DEF ReplaceBinding, GiveUp
    <2>2. Progress /\ InPlace
      BY <1>3, <2>1 DEF Bound
    <2>3. todo \subseteq Positions(spec)
      BY <1>7, <2>1
    <2>4. At3
      BY <1>4, <2>1, <2>3, OneFirst DEF IsFirst
    <2> QED BY <1>6, <2>1, <2>2, <2>4 DEF Progress, InPlace, Visited
  <1>11. CASE EnsureBinding
    <2>1. PICK p \in todo :
            /\ pc = "ensure" /\ pc' = "bindings" /\ todo' = todo \ {p} /\ invalid' = invalid
            /\ kept' = kept \union {KeyAt(spec, p)} /\ BindingCall(p).error = "none"
            /\ bindings' = [bindings EXCEPT ![KeyAt(spec, p)] = BindingCall(p).object]
            /\ IsFirst(p)
      BY <1>5, <1>11 DEF EnsureBinding, GiveUp
    <2>2. Progress /\ InPlace /\ RoleAt(spec, p) \in set
      BY <1>3, <2>1 DEF Bound
    <2>3. /\ gone = Visited \union {p} /\ KeyAt(spec, p) \in BindingKeys /\ p \in Positions(mns.spec)
          /\ mns = owner /\ news.bindings = {}
      BY <1>5, <1>7, <2>1
    <2> DEFINE k == KeyAt(spec, p)
    <2>4. \/ Fits(BindingCall(p).object, k)
          \/ BindingCall(p).object = bindings[k] /\ Fits(cache.bindings[k], k)
      BY <2>1, <2>3, EnsuredBinding
    <2>5. bindings'[k] = BindingCall(p).object
      BY <2>1, <2>3 DEF TypeOK
    <2> HIDE DEF gone, k, set
    <2>6. Fits(cache.bindings[k], k) => cache.bindings[k] = bindings[k]
      BY <2>3 DEF Faithful, Mirrors, Fits, k
    <2>7. Fits(bindings'[k], k)
      BY <2>4, <2>5, <2>6
    <2>8. At1
      BY <2>1, <2>2, <2>3, CountsExisting, NamesAdded DEF Progress, set
    <2>9. At2
      BY <1>6, <2>1, <2>2, <2>7 DEF InPlace, k
    <2> QED BY <2>1, <2>8, <2>9
  <1>12. CASE PruneUnresolved
    <2>1. /\ pc = "bindings" /\ pc' = "clear" /\ doomed' = OwnedBindings(cache.bindings) \ kept
          /\ UNCHANGED <<todo, kept, invalid, bindings>>
      BY <1>12 DEF PruneUnresolved, live
    <2>2. Progress /\ InPlace
      BY <1>3, <2>1 DEF Bound
    <2>3. At4
      BY <1>5, <2>1 DEF Granted, OwnedBindings, Faithful, Mirrors
    <2> QED BY <2>1, <2>2, <2>3 DEF Progress, InPlace, Visited
  <1>13. CASE DeleteBinding
    <2>1. PICK d \in doomed :
            /\ bindings' = [bindings EXCEPT ![d] = Deleted(@)] /\ doomed' = doomed \ {d}
            /\ pc = "clear" /\ pc' = "clear" /\ UNCHANGED <<todo, kept, invalid>>
      BY <1>13 DEF DeleteBinding
    <2>2. Progress /\ InPlace /\ Accounted
      BY <1>3, <2>1 DEF Bound
    <2>3. ASSUME NEW k \in Granted' PROVE k \in kept' \union doomed' \/ bindings'[k].deleting
      <3>1. k \in BindingKeys /\ k \in Granted /\ bindings'[k] = bindings[k] /\ IsOwned(bindings[k])
        BY <1>6, <2>3 DEF Granted
      <3>2. CASE k = d
        <4>1. bindings'[k] = Deleted(bindings[k]) /\ bindings[k] \in Binding
          BY <2>1, <3>1, <3>2 DEF TypeOK, IsOwned
        <4> QED BY <3>1, <4>1 DEF Deleted, IsOwned, Binding
      <3>3. CASE k # d
        BY <2>1, <2>2, <3>1, <3>3 DEF Accounted
      <3> QED BY <3>2, <3>3
    <2> QED BY <1>6, <2>1, <2>2, <2>3 DEF Progress, InPlace, Visited
  <1>14. CASE UNCHANGED <<worker, gauge>>
    <2>1. UNCHANGED <<pc, todo, kept, invalid, doomed>>
      BY <1>14 DEF worker
    <2>2. /\ Progress /\ InPlace
          /\ pc = "ensure" => \A p \in todo : IsFirst(p) => RoleAt(spec, p) \in set
          /\ pc = "clear" => Accounted
      BY <1>3, <2>1 DEF Bound
    <2>3. Accounted => At4
      BY <1>6, <2>1 DEF Accounted
    <2> QED BY <1>6, <2>1, <2>2, <2>3 DEF Progress, InPlace, Visited, IsFirst
  <1>15. \/ ReconcileBindings \/ MissingRole \/ ReplaceBinding \/ EnsureBinding
         \/ PruneUnresolved \/ DeleteBinding \/ UNCHANGED <<worker, gauge>>
    BY SyncingSteps
    DEF Prune, EnsureNamespace, EnsureQuota, PruneQuotas, DeleteQuota, GiveUp, Syncing
  <1> QED BY <1>8, <1>9, <1>10, <1>11, <1>12, <1>13, <1>14, <1>15

\* So each step keeps a pass on its way.
LEMMA UnderwayStep ==
  ASSUME TypeOK, TypeOK', Fresh, Faithful, Tidy, AllListed, Underway, [Next]_vars
  PROVE  Underway'
  BY PreparedStep, RationedStep, BoundStep DEF Underway

-----------------------------------------------------------------------------
(* What a pass leaves behind, if nothing calls for the next one *)

\* At the start there is no owner to serve.
LEMMA SettledInit == Init => Faithful /\ Fresh /\ Tidy /\ AllListed /\ Underway /\ Rested
PROOF
  <1> SUFFICES ASSUME Init PROVE Faithful /\ Fresh /\ Tidy /\ AllListed /\ Underway /\ Rested
    OBVIOUS
  <1>1. ~owner.present
    BY DEF Init, NoOwner
  <1>2. namespace \in {NewNamespace, Absent} /\ cache.namespace = namespace
    BY DEF Init
  <1>3. AllListed
    BY <1>2, NewListed DEF AllListed, Listed
  <1>4. Faithful
    BY DEF Init, Faithful, Mirrors
  <1>5. Fresh /\ Tidy
    BY DEF Init, Fresh, Seen, Tidy, Guarding, Syncing
  <1> QED BY <1>1, <1>3, <1>4, <1>5 DEF Underway, Rested, Steady

\* A write that changed nothing wrote what was there.
LEMMA NothingWritten ==
  ASSUME TypeOK, NEW new, WriteOwner(new), owner' = owner
  PROVE  [new EXCEPT !.rv = owner.rv] = owner
PROOF
  <1>1. owner \in OwnerVersion /\ owner.rv \in Nat
    BY DEF TypeOK, OwnerVersion
  <1> DEFINE next == [new EXCEPT !.rv = owner.rv + 1]
  <1>2. CASE owner' = next
    <2>1. DOMAIN owner = DOMAIN new
      BY <1>2
    <2>2. "rv" \in DOMAIN new
      BY <1>1, <2>1 DEF OwnerVersion
    <2>3. owner.rv = owner.rv + 1
      BY <1>2, <2>2
    <2> QED BY <1>1, <2>3
  <1> QED BY <1>2 DEF WriteOwner

\* A status patch that had nothing to write found its outcome there already.
LEMMA Reported ==
  ASSUME TypeOK, ReportStatus, owner.present, mns = owner, owner' = owner
  PROVE  /\ syncErr # "none" => owner.status.ready.message = syncErr
         /\ syncErr = "none" =>
              /\ owner.status.observedGeneration = owner.generation
              /\ owner.status.invalidReferences = invalid
              /\ owner.status.ready =
                   [reason |-> IF invalid = <<>> THEN "Reconciled" ELSE "InvalidReferences",
                    message |-> "none", generation |-> owner.generation]
PROOF
  <1> DEFINE patched == MergePatch(owner.status, Outcome, owner.status)
  <1>1. WriteOwner([owner EXCEPT !.status = patched])
    BY DEF ReportStatus, PatchedStatus
  <1>2. owner \in OwnerVersion /\ owner.status \in Status
    BY DEF TypeOK, OwnerVersion
  <1> HIDE DEF patched
  <1>3. [[owner EXCEPT !.status = patched] EXCEPT !.rv = owner.rv] = owner
    BY <1>1, NothingWritten
  <1>4. owner.status = patched
    BY <1>2, <1>3 DEF OwnerVersion
  <1>5. /\ owner.status.observedGeneration = Outcome.observedGeneration
        /\ owner.status.invalidReferences = Outcome.invalidReferences
        /\ owner.status.ready = Outcome.ready
    BY <1>4 DEF patched, MergePatch
  <1>6. Outcome = Report(owner, invalid, syncErr)
    BY DEF Outcome
  <1>7. CASE syncErr # "none"
    <2>1. Outcome.ready = [reason |-> "SyncFailed", message |-> syncErr,
                           generation |-> owner.generation]
      BY <1>2, <1>6, <1>7 DEF Report, Status
    <2> QED BY <1>5, <1>7, <2>1
  <1>8. CASE syncErr = "none"
    BY <1>5, <1>6, <1>8 DEF Report
  <1> QED BY <1>7, <1>8

\* Each step keeps it: a pass that ends and is not called for again has released
\* its owner, or found it served, or reported that it was rejected.
LEMMA RestedStep ==
  ASSUME TypeOK, TypeOK', Fresh, Guard, Tidy, Underway, Rested, [Next]_vars
  PROVE  Rested'
PROOF
  <1> DEFINE Fine == IF owner'.deleting THEN Finalizer \notin owner'.finalizers
                     ELSE Served' \/ owner'.status.ready.message = "invalid"
  <1> SUFFICES ASSUME Steady', pc' = "idle" PROVE Fine
    BY DEF Rested
  <1>1. /\ Unmoved /\ owner' = owner /\ cache.owner = owner /\ owner.present /\ ~queued'
        /\ cache'.clusterRoles = cache.clusterRoles
    BY SteadySteps DEF Unmoved, Steady
  <1>2. ~Reconcile /\ ~Crash
    BY <1>1 DEF Reconcile, FirstStep, Crash, Fault
  <1>3. Steady
    BY <1>2, SteadySteps
  <1>4. pc # "idle" => mns = owner
    BY OnTheOwner
  <1> DEFINE spec  == owner.spec
             asked == NamesOf(spec, Positions(spec), cache.clusterRoles)
             refs  == owner.status.invalidReferences
  <1>5. spec \in Specs /\ DOMAIN spec.quotas \subseteq QuotaNames /\ asked \subseteq BindingKeys
    <2>1. spec \in Specs
      BY DEF TypeOK, OwnerVersion
    <2> QED BY <2>1, RequestTypes, KeyTypes DEF NamesOf
  <1> DEFINE Apart ==
        /\ Finalizer \in owner.finalizers /\ MetadataInSync
        /\ QuotasHeld(DOMAIN spec.quotas) /\ QuotasAsked
        /\ \A k \in asked : Fits(bindings[k], k)
        /\ \A k \in Granted : k \in asked \/ bindings[k].deleting
        /\ Counts(refs, spec, Positions(spec), cache.clusterRoles)
        /\ owner.status.observedGeneration = owner.generation
        /\ owner.status.ready = [reason |-> IF refs = <<>> THEN "Reconciled" ELSE "InvalidReferences",
                                 message |-> "none", generation |-> owner.generation]
  <1>6. ASSUME Apart, gauge' = Len(refs) PROVE Served'
    <2>1. /\ MetadataInSync'
          /\ \A q \in DOMAIN spec.quotas : Holding(quotas'[q], spec.quotas[q])
          /\ OwnedQuotas(quotas') \subseteq DOMAIN spec.quotas
          /\ \A k \in asked : Fits(bindings'[k], k)
          /\ \A k \in Granted' : k \in asked \/ bindings'[k].deleting
      BY <1>1, <1>5, <1>6, LeftSo DEF QuotasHeld, QuotasAsked
    <2> QED BY <1>1, <1>6, <2>1 DEF Served, QuotasHeld, QuotasAsked
  <1>7. CASE UNCHANGED <<worker, gauge>>
    <2>1. pc = "idle" /\ gauge' = gauge
      BY <1>7 DEF worker
    <2>2. IF owner.deleting THEN Finalizer \notin owner.finalizers
          ELSE Served \/ owner.status.ready.message = "invalid"
      BY <1>3, <2>1 DEF Rested
    <2>3. Served => Apart /\ gauge' = Len(refs)
      BY <2>1 DEF Served
    <2> QED BY <1>1, <1>6, <2>2, <2>3
  <1>8. CASE Release
    <2>1. PatchAccepted /\ pc = "release" /\ mns = owner /\ mns.deleting
      BY <1>1, <1>4, <1>8 DEF Release, Done, Guard, Finalizing
    <2> DEFINE fs == owner.finalizers \ {Finalizer}
    <2>2. WriteOwner(WithFinalizers(fs))
      BY <1>8, <2>1 DEF Release
    <2>3. [WithFinalizers(fs) EXCEPT !.rv = owner.rv] = owner
      BY <1>1, <2>2, NothingWritten
    <2>4. owner \in OwnerVersion
      BY DEF TypeOK
    <2>5. owner.finalizers = fs
      BY <2>3, <2>4 DEF WithFinalizers, OwnerVersion
    <2> QED BY <1>1, <2>1, <2>5
  <1>9. CASE ReportStatus
    <2>1. /\ Done(syncErr = "failed")
          /\ gauge' = IF syncErr = "none" THEN Len(invalid) ELSE gauge
      BY <1>1, <1>9 DEF ReportStatus, SetGauge
    <2>2. syncErr # "failed"
      BY <1>1, <2>1 DEF Done
    <2>3. /\ pc \in Guarding /\ pc # "idle"
          /\ pc = "status" \/ (pc = "clear" /\ doomed = {})
      BY <1>9 DEF ReportStatus, Reporting, Guarding, Syncing
    <2>4. mns = owner /\ ~owner.deleting /\ Finalizer \in owner.finalizers
      BY <1>4, <2>3 DEF Tidy, Guard, Held
    <2>5. CASE syncErr # "none"
      <3>1. syncErr = "invalid"
        BY <2>2, <2>5 DEF TypeOK, Errors
      <3> QED BY <1>1, <1>9, <2>4, <3>1, Reported
    <2>6. CASE syncErr = "none"
      <3>1. pc = "clear" /\ doomed = {} /\ todo = {}
        BY <2>3, <2>6 DEF Tidy, TypeOK
      <3>2. /\ MetadataInSync /\ QuotasHeld(DOMAIN spec.quotas) /\ QuotasAsked
            /\ Progress /\ InPlace /\ Accounted
        BY <1>3, <3>1 DEF Underway, Prepared, Rationed, Bound, Syncing
      <3>3. /\ kept = asked
            /\ Counts(invalid, spec, Positions(spec), cache.clusterRoles)
        BY <3>1, <3>2 DEF Progress, Visited
      <3>4. /\ owner.status.observedGeneration = owner.generation /\ refs = invalid
            /\ owner.status.ready =
                 [reason |-> IF invalid = <<>> THEN "Reconciled" ELSE "InvalidReferences",
                  message |-> "none", generation |-> owner.generation]
        BY <1>1, <1>9, <2>4, <2>6, Reported
      <3>5. \A k \in asked : Fits(bindings[k], k)
        BY <3>2, <3>3 DEF InPlace
      <3>6. \A k \in Granted : k \in asked \/ bindings[k].deleting
        BY <3>1, <3>2, <3>3 DEF Accounted
      <3> HIDE DEF asked, spec
      <3>7. Apart /\ gauge' = Len(refs)
        BY <2>1, <2>4, <2>6, <3>2, <3>3, <3>4, <3>5, <3>6
      <3> QED BY <1>1, <1>6, <2>4, <3>7
    <2> QED BY <2>5, <2>6
  <1>10. ~Finalize /\ ~Unbound /\ ~Adopt /\ ~CallFails
    BY <1>1 DEF Finalize, Unbound, Adopt, CallFails, Done, GiveUp
  <1>11. ~Prune /\ ~DeleteBinding /\ ~EnsureNamespace /\ ~EnsureQuota /\ ~PruneQuotas
         /\ ~DeleteQuota /\ ~ReconcileBindings /\ ~MissingRole /\ ~ReplaceBinding
         /\ ~EnsureBinding /\ ~PruneUnresolved
    BY DEF Prune, DeleteBinding, EnsureNamespace, EnsureQuota, PruneQuotas, DeleteQuota,
           ReconcileBindings, MissingRole, ReplaceBinding, EnsureBinding, PruneUnresolved, GiveUp
  <1> QED BY <1>2, <1>7, <1>8, <1>9, <1>10, <1>11, PassAlone DEF Worker

\* When no namespace and no binding lingers and the cache has the roles that exist,
\* what is served is in sync.
LEMMA ServedInSync ==
  ASSUME TypeOK, Settled, Served, owner.present, ~owner.deleting
  PROVE  InSync
PROOF
  <1> DEFINE spec  == owner.spec
             refs  == owner.status.invalidReferences
             some  == {p \in Positions(spec) : RoleAt(spec, p) \in clusterRoles}
             asked == {KeyAt(spec, p) : p \in some}
  <1>1. spec \in Specs /\ cache.clusterRoles = clusterRoles
    BY DEF TypeOK, OwnerVersion, Settled, AtRest
  <1>2. NamespaceOpen
    BY DEF Settled, NamespaceOpen, Served, MetadataInSync, NamesOwner
  <1>3. DOMAIN spec.quotas \subseteq QuotaNames
    BY <1>1, RequestTypes
  <1>4. OwnedQuotas(quotas) = DOMAIN spec.quotas
    <2>1. DOMAIN spec.quotas \subseteq OwnedQuotas(quotas)
      BY <1>3 DEF Served, QuotasHeld, OwnedQuotas, Holding
    <2> QED BY <2>1 DEF Served, QuotasAsked
  <1>5. \A q \in OwnedQuotas(quotas) : quotas[q].limits = spec.quotas[q]
    BY <1>4 DEF Served, QuotasHeld, Holding
  <1>6. \A p \in some :
          LET k == KeyAt(spec, p)
          IN  /\ k \in Granted /\ bindings[k].role = RoleAt(spec, p)
              /\ bindings[k].subjects = subjectsFor(MappingAt(spec, p))
    <2> SUFFICES ASSUME NEW p \in some
                 PROVE  LET k == KeyAt(spec, p)
                        IN  /\ k \in Granted /\ bindings[k].role = RoleAt(spec, p)
                            /\ bindings[k].subjects = subjectsFor(MappingAt(spec, p))
      OBVIOUS
    <2> DEFINE k == KeyAt(spec, p)
    <2>1. k \in BindingKeys /\ Fits(bindings[k], k)
      BY <1>1, KeyTypes DEF Served, NamesOf
    <2>2. /\ k.namespace = Owner /\ k.name[3] = RoleAt(spec, p)
          /\ subjectsFor(MappingAt(spec, p)) = SubjectsNamed(k.name[2])
      BY NamedSubjects
    <2> QED BY <2>1, <2>2 DEF Fits, Granted
  <1>7. \A k \in Granted : k \in asked
    <2>1. \A k \in Granted : k \in BindingKeys /\ bindings[k] # Absent
      BY DEF Granted, IsOwned
    <2>2. \A k \in Granted : k \in asked \/ bindings[k].deleting
      BY <1>1 DEF Served, NamesOf
    <2> QED BY <2>1, <2>2 DEF Settled
  <1>8. Grants = Asked(spec)
    <2>1. \A k \in Granted :
            [key |-> k, role |-> bindings[k].role, subjects |-> bindings[k].subjects] \in Asked(spec)
      <3> SUFFICES ASSUME NEW k \in Granted
                   PROVE  [key |-> k, role |-> bindings[k].role,
                           subjects |-> bindings[k].subjects] \in Asked(spec)
        OBVIOUS
      <3>1. PICK p \in some : k = KeyAt(spec, p)
        BY <1>7
      <3> QED BY <1>6, <3>1 DEF Asked
    <2>2. \A p \in some :
            [key |-> KeyAt(spec, p), role |-> RoleAt(spec, p),
             subjects |-> subjectsFor(MappingAt(spec, p))] \in Grants
      BY <1>6 DEF Grants
    <2>3. Grants \subseteq Asked(spec)
      BY <2>1 DEF Grants
    <2>4. Asked(spec) \subseteq Grants
      BY <2>2 DEF Asked
    <2> QED BY <2>3, <2>4
  <1>9. Missing(spec) = Lacking(spec, Positions(spec), cache.clusterRoles)
    BY <1>1 DEF Missing, Lacking
  <1>10. /\ IsFiniteSet(Missing(spec)) /\ Len(refs) = Cardinality(Missing(spec))
         /\ Elements(refs) = {RoleAt(spec, p) : p \in Missing(spec)}
    BY <1>9 DEF Served, Counts
  <1>11. refs = <<>> <=> Missing(spec) = {}
    <2>1. refs \in Seq(Roles)
      BY DEF TypeOK, OwnerVersion, Status
    <2>2. Len(refs) = 0 <=> refs = <<>>
      BY <2>1
    <2> QED BY <1>10, <2>2, FS_EmptySet
  <1> QED BY <1>2, <1>4, <1>5, <1>8, <1>10, <1>11 DEF Served, InSync


\* No wake-up is lost and no change is forgotten, whatever a pass read from the
\* caches and whatever overtook it, failed or restarted it: a finished pass is not
\* called for again only when the namespace, the quotas, the bindings, the status and
\* the gauge are as the owner as it is now asks for, or its status says that it was
\* rejected as Invalid (managednamespace.go:138-355, and the watches of Setup).
THEOREM NothingIsLost ==
  ASSUME Gentle
  PROVE  Spec => []NothingLost
PROOF
  <1> DEFINE Followed == Faithful /\ Fresh /\ Tidy /\ AllListed /\ Underway /\ Rested
             Safe     == TypeOK /\ Versions /\ Guard
  <1>1. Init => Safe /\ Followed
    BY TypeInit, VersionsInit, GuardInit, SettledInit
  <1>2. Safe /\ [Next]_vars => Safe'
    BY TypeStep, VersionsStep, GuardStep
  <1>3. Safe /\ TypeOK' /\ Followed /\ [Next]_vars => Followed'
    BY FaithfulStep, FreshStep, TidyStep, ListedStep, UnderwayStep, RestedStep
  <1>4. Safe /\ Followed => NothingLost
    <2> SUFFICES ASSUME Safe, Followed, Settled PROVE InSync \/ TurnedDown
      BY DEF NothingLost
    <2>1. CASE ~owner.present
      BY <2>1 DEF Guard, Held, InSync
    <2>2. CASE owner.present
      <3>1. Steady /\ pc = "idle"
        BY <2>2 DEF Settled, AtRest, Steady
      <3>2. CASE owner.deleting
        <4>1. Finalizer \notin owner.finalizers
          BY <3>1, <3>2 DEF Rested
        <4> QED BY <3>2, <4>1 DEF Guard, Held, InSync
      <3>3. CASE ~owner.deleting
        BY <2>2, <3>1, <3>3, ServedInSync DEF Rested, TurnedDown
      <3> QED BY <3>2, <3>3
    <2> QED BY <2>1, <2>2
  <1>5. Safe => TypeOK
    OBVIOUS
  <1> HIDE DEF Followed, Safe
  <1> QED BY <1>1, <1>2, <1>3, <1>4, <1>5, PTL DEF Spec

-----------------------------------------------------------------------------
(* Who holds which roles *)

\* The one list of a set of users is of the users in it.
LEMMA OneList ==
  ASSUME NEW users \in Seq(UserNames)
  PROVE  Elements(normalizedUsers(users)) = Elements(users)
PROOF
  <1> DEFINE set == Elements(users)
             n   == Cardinality(set)
  <1>1. set \in SUBSET UserNames
    BY SeqElement DEF Elements
  <1>2. IsFiniteSet(set)
    <2>1. DOMAIN users = 1..Len(users) /\ Len(users) \in Nat
      OBVIOUS
    <2>2. IsFiniteSet(1..Len(users))
      BY <2>1, FS_Interval
    <2>3. users \in Surjection(1..Len(users), set)
      BY <2>1 DEF Surjection, Elements
    <2> QED BY <2>2, <2>3, FS_Surjection
  <1>3. n \in Nat /\ ExistsBijection(1..n, set)
    BY <1>2, FS_CardinalityType
  <1>4. PICK list : list \in Bijection(1..n, set)
    BY <1>3 DEF ExistsBijection
  <1>5. list \in [1..n -> set] /\ \A x \in set : \E i \in 1..n : list[i] = x
    BY <1>4 DEF Bijection, Surjection
  <1>6. DOMAIN list = 1..n /\ \A i \in 1..n : list[i] \in set
    BY <1>5
  <1>7. Elements(list) = set
    BY <1>5, <1>6 DEF Elements
  <1>8. normalizedUsers(users) = CHOOSE l \in [1..Cardinality(set) -> set] : Elements(l) = set
    BY <1>1 DEF normalizedUsers, ListOf
  <1> HIDE DEF set, n
  <1>9. \E l \in [1..Cardinality(set) -> set] : Elements(l) = set
    BY <1>5, <1>7 DEF n
  <1> QED BY <1>8, <1>9 DEF set


\* What a mapping grants to.
LEMMA GrantedSubjects ==
  ASSUME NEW am, am.users \in Seq(UserNames)
  PROVE  Elements(subjectsFor(am)) =
           IF am.group # "" THEN {[kind |-> "Group", name |-> am.group]}
           ELSE {[kind |-> "User", name |-> u] : u \in Elements(am.users)}
PROOF
  <1>1. CASE am.group # ""
    <2>1. subjectsFor(am) = << [kind |-> "Group", name |-> am.group] >>
      BY <1>1 DEF subjectsFor
    <2>2. \A x : Elements(<<x>>) = {x}
      BY DEF Elements
    <2> QED BY <1>1, <2>1, <2>2
  <1>2. CASE am.group = ""
    <2> DEFINE users == normalizedUsers(am.users)
               list  == [i \in DOMAIN users |-> [kind |-> "User", name |-> users[i]]]
    <2>1. subjectsFor(am) = list
      BY <1>2 DEF subjectsFor
    <2>2. Elements(users) = Elements(am.users)
      BY OneList
    <2>3. Elements(list) = {[kind |-> "User", name |-> users[i]] : i \in DOMAIN users}
      BY DEF Elements
    <2> HIDE DEF users
    <2>4. {[kind |-> "User", name |-> users[i]] : i \in DOMAIN users}
            = {[kind |-> "User", name |-> u] : u \in Elements(users)}
      BY DEF Elements
    <2> QED BY <1>2, <2>1, <2>2, <2>3, <2>4
  <1> QED BY <1>1, <1>2

\* A mapping of a spec, and its roles.
LEMMA MappingType ==
  ASSUME NEW s \in Specs, NEW am \in Elements(s.accessMappings)
  PROVE  am \in [group : STRING, users : Seq(UserNames), clusterRoles : Seq(Roles)]
PROOF
  <1>1. s.accessMappings \in Seq([group : STRING, users : Seq(UserNames), clusterRoles : Seq(Roles)])
    BY SpecsAssumption
  <1>2. PICK i \in DOMAIN s.accessMappings : am = s.accessMappings[i]
    BY DEF Elements
  <1> QED BY <1>1, <1>2, SeqElement

\* A subject is a group or a user.
LEMMA SubjectShape ==
  ASSUME NEW subject \in Subjects
  PROVE  /\ subject = [kind |-> subject.kind, name |-> subject.name]
         /\ subject.kind = "User" \/ (subject.kind = "Group" /\ subject.name # "")
PROOF
  <1>1. CASE subject \in Elements(Outsiders)
    <2>1. subject \in [kind : {"Group", "User"}, name : STRING \ {""}]
      BY <1>1, SubjectsAssumption
    <2> QED BY <2>1
  <1>2. ASSUME NEW s \in Specs, NEW am \in Elements(s.accessMappings),
               subject \in Elements(subjectsFor(am))
        PROVE  /\ subject = [kind |-> subject.kind, name |-> subject.name]
               /\ subject.kind = "User" \/ (subject.kind = "Group" /\ subject.name # "")
    <2>1. am.users \in Seq(UserNames)
      BY MappingType
    <2>2. CASE am.group # ""
      <3>1. subject = [kind |-> "Group", name |-> am.group]
        BY <1>2, <2>1, <2>2, GrantedSubjects
      <3>2. subject.kind = "Group" /\ subject.name = am.group
        BY <3>1
      <3> QED BY <2>2, <3>1, <3>2
    <2>3. CASE am.group = ""
      <3>1. Elements(subjectsFor(am)) = {[kind |-> "User", name |-> u] : u \in Elements(am.users)}
        BY <2>1, <2>3, GrantedSubjects
      <3>2. PICK u \in Elements(am.users) : subject = [kind |-> "User", name |-> u]
        BY <1>2, <3>1
      <3>3. subject.kind = "User" /\ subject.name = u
        BY <3>2
      <3> QED BY <3>2, <3>3
    <2> QED BY <2>2, <2>3
  <1>3. subject \in Elements(Outsiders)
          \/ \E s \in Specs : \E am \in Elements(s.accessMappings) : subject \in Elements(subjectsFor(am))
    <2>1. PICK subjects \in SubjectLists : subject \in Elements(subjects)
      BY DEF Subjects
    <2> QED BY <2>1 DEF SubjectLists
  <1> QED BY <1>1, <1>2, <1>3

\* A search finds the roles of the mappings that grant to the subject.
LEMMA Matched ==
  ASSUME NEW s \in Specs, NEW am \in Elements(s.accessMappings), NEW subject \in Subjects
  PROVE  subject \in Elements(subjectsFor(am)) <=>
           IF subject.kind = "Group" THEN am.group = subject.name
           ELSE subject.name \in Elements(am.users)
PROOF
  <1>1. am.users \in Seq(UserNames) /\ (am.group # "" <=> am.users = <<>>)
    BY MappingType, SubjectsAssumption
  <1>2. /\ subject = [kind |-> subject.kind, name |-> subject.name]
        /\ subject.kind = "User" \/ (subject.kind = "Group" /\ subject.name # "")
    BY SubjectShape
  <1>3. CASE am.group # ""
    <2>1. Elements(subjectsFor(am)) = {[kind |-> "Group", name |-> am.group]}
      BY <1>1, <1>3, GrantedSubjects
    <2>2. Elements(am.users) = {}
      <3>1. am.users = <<>>
        BY <1>1, <1>3
      <3>2. Elements(<<>>) = {}
        BY DEF Elements
      <3> QED BY <3>1, <3>2
    <2>3. subject \in Elements(subjectsFor(am)) <=> subject = [kind |-> "Group", name |-> am.group]
      BY <2>1
    <2>4. subject = [kind |-> "Group", name |-> am.group]
            <=> subject.kind = "Group" /\ subject.name = am.group
      <3>1. [kind |-> "Group", name |-> am.group].kind = "Group"
            /\ [kind |-> "Group", name |-> am.group].name = am.group
        OBVIOUS
      <3> QED BY <1>2, <3>1
    <2> QED BY <1>2, <2>2, <2>3, <2>4
  <1>4. CASE am.group = ""
    <2>1. Elements(subjectsFor(am)) = {[kind |-> "User", name |-> u] : u \in Elements(am.users)}
      BY <1>1, <1>4, GrantedSubjects
    <2>2. subject \in Elements(subjectsFor(am)) <=>
            subject.kind = "User" /\ subject.name \in Elements(am.users)
      BY <1>2, <2>1
    <2> QED BY <1>2, <1>4, <2>2
  <1> QED BY <1>3, <1>4

\* Once in sync, the page shows for each subject the roles it holds.
LEMMA ShownHeld ==
  ASSUME TypeOK, InSync, owner.present, ~owner.deleting, NEW subject \in Subjects
  PROVE  Shown(owner, subject) = Holds(subject)
PROOF
  <1> DEFINE spec     == owner.spec
             refs     == owner.status.invalidReferences
             mappings == spec.accessMappings
             finds(am) == IF subject.kind = "Group" THEN am.group = subject.name
                          ELSE subject.name \in Elements(am.users)
  <1>1. spec \in Specs
    BY DEF TypeOK, OwnerVersion
  <1>2. Grants = Asked(spec) /\ Elements(refs) = {RoleAt(spec, p) : p \in Missing(spec)}
    BY DEF InSync
  <1>3. \A am \in Elements(mappings) : subject \in Elements(subjectsFor(am)) <=> finds(am)
    BY <1>1, Matched
  <1> HIDE DEF finds
  <1>4. ASSUME NEW r \in Shown(owner, subject) PROVE r \in Holds(subject)
    <2>1. PICK am \in Elements(mappings) :
            /\ subject \in Elements(subjectsFor(am)) /\ r \in Elements(am.clusterRoles)
            /\ r \notin Elements(refs)
      BY <1>3 DEF Shown, match, invalidRoles, finds
    <2>2. PICK i \in DOMAIN mappings : am = mappings[i]
      BY DEF Elements
    <2>3. PICK j \in DOMAIN am.clusterRoles : r = am.clusterRoles[j]
      BY <2>1 DEF Elements
    <2> DEFINE p == <<i, j>>
    <2>4. subjectsFor(am) # <<>>
      BY <2>1 DEF Elements
    <2>5. p \in Positions(spec) /\ MappingAt(spec, p) = am /\ RoleAt(spec, p) = r
      BY <2>2, <2>3, <2>4 DEF Positions, MappingAt, RoleAt
    <2> HIDE DEF p
    <2>6. r \in clusterRoles
      BY <1>2, <2>1, <2>5 DEF Missing
    <2>7. [key |-> KeyAt(spec, p), role |-> r, subjects |-> subjectsFor(am)] \in Grants
      BY <1>2, <2>5, <2>6 DEF Asked
    <2>8. PICK k \in Granted : bindings[k].role = r /\ bindings[k].subjects = subjectsFor(am)
      BY <2>7 DEF Grants
    <2> QED BY <2>1, <2>8 DEF Holds
  <1>5. ASSUME NEW r \in Holds(subject) PROVE r \in Shown(owner, subject)
    <2>1. PICK k \in Granted : bindings[k].role = r /\ subject \in Elements(bindings[k].subjects)
      BY <1>5 DEF Holds
    <2>2. [key |-> k, role |-> bindings[k].role, subjects |-> bindings[k].subjects] \in Asked(spec)
      BY <1>2 DEF Grants
    <2>3. PICK p \in Positions(spec) :
            /\ RoleAt(spec, p) = r /\ r \in clusterRoles
            /\ subject \in Elements(subjectsFor(MappingAt(spec, p)))
      BY <2>1, <2>2 DEF Asked
    <2>4. PICK i \in DOMAIN mappings : \E j \in DOMAIN mappings[i].clusterRoles : p = <<i, j>>
      BY DEF Positions
    <2>5. PICK j \in DOMAIN mappings[i].clusterRoles : p = <<i, j>>
      BY <2>4
    <2>6. MappingAt(spec, p) = mappings[i] /\ r = mappings[i].clusterRoles[j]
      BY <2>3, <2>5 DEF MappingAt, RoleAt
    <2>7. /\ mappings[i] \in Elements(mappings) /\ r \in Elements(mappings[i].clusterRoles)
          /\ finds(mappings[i])
      BY <1>3, <2>3, <2>6 DEF Elements
    <2>8. r \notin Elements(refs)
      BY <1>2, <2>3 DEF Missing
    <2> QED BY <2>7, <2>8 DEF Shown, match, invalidRoles, finds
  <1> QED BY <1>4, <1>5

\* "A struck-through ClusterRole ... grants nothing" (app.js:254), and the others are
\* granted: once nothing is under way, and unless the last pass was rejected, each
\* group and user holds through the ManagedNamespace the roles the page shows for it.
THEOREM ShownRolesHeld ==
  ASSUME Gentle
  PROVE  Spec => []ShownIsGranted
PROOF
  <1>1. TypeOK /\ NothingLost => ShownIsGranted
    BY ShownHeld DEF NothingLost, ShownIsGranted
  <1>2. Spec => [](TypeOK /\ Versions /\ Guard)
    BY GuardInvariant
  <1>3. Spec => []NothingLost
    BY NothingIsLost
  <1> QED BY <1>1, <1>2, <1>3, PTL
=============================================================================

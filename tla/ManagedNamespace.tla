--------------------------- MODULE ManagedNamespace ---------------------------
(***************************************************************************)
(* The ManagedNamespace reconciler (internal/controller/managednamespace.go) *)
(* over one ManagedNamespace, the API server it writes to and the informer *)
(* cache it reads from.                                                    *)
(*                                                                         *)
(* One step of the worker is one call that reaches the API server, or one  *)
(* read of the cache the pass depends on later: between two steps users,   *)
(* other controllers, watch events and crashes may come in any order.      *)
(*                                                                         *)
(* The owner, the namespace and the generated objects are the API server's *)
(* live state. The cache trails it: each object's cached copy moves to the *)
(* live one when its watch events are delivered, also when it changed and  *)
(* changed back in between, except the owner's, which passes through the   *)
(* versions still on the watch.                                            *)
(***************************************************************************)
EXTENDS Integers, Sequences, FiniteSets,
        AccessMapping, CachedClient, NamespaceMetadata, Owners

CONSTANTS
  Owner,          \* the ManagedNamespace's name, and its namespace's
  QuotaNames,     \* ResourceQuota names in the namespace
  Limits,         \* ResourceQuota specs
  MetaKeys,       \* label and annotation keys of the namespace
  MetaValues,     \* and their values
  Strangers,      \* names of bindings the specs do not generate
  Leftovers,      \* bindings with the owner's labels before there is an owner
  Outsiders,      \* subjects no spec grants to
  Unsound,        \* limits and metadata values the API server finds invalid
  Refused,        \* roles for which admission refuses to bind
  Disturbances,   \* which kinds of outside events happen
  MaxEdits,       \* bound on what users do to the ManagedNamespace
  MaxFaults       \* bound on failures, crashes and other outside events

Kinds == {"create", "edit", "delete", "foreign", "force", "role", "drift", "relabel",
          "hold", "quota", "namespace", "metadata", "corrupt", "fail", "crash", "resync", "takeover"}

\* The (accessMapping, clusterRole) pairs of a spec, as positions in its lists:
\* the mappings that have subjects and roles.
Positions(spec) ==
  UNION { {<<i, j>> : j \in DOMAIN spec.accessMappings[i].clusterRoles} :
          i \in {i \in DOMAIN spec.accessMappings : subjectsFor(spec.accessMappings[i]) # <<>>} }
MappingAt(spec, p) == spec.accessMappings[p[1]]
RoleAt(spec, p) == MappingAt(spec, p).clusterRoles[p[2]]
KeyAt(spec, p) ==
  [namespace |-> Owner,
   name |-> BindingName(Owner, subjectKey(MappingAt(spec, p)), RoleAt(spec, p))]
Precedes(p, q) == p[1] < q[1] \/ (p[1] = q[1] /\ p[2] <= q[2])

\* The want set of the first prune: names from the spec alone, no role lookup.
Requested(spec) == {KeyAt(spec, p) : p \in Positions(spec)}

BindingKeys == Strangers \union UNION {Requested(s) : s \in Specs}
SubjectLists ==
  {Outsiders} \union UNION { {subjectsFor(am) : am \in Elements(s.accessMappings)} : s \in Specs }
KeySets == [labels : SUBSET MetaKeys, annotations : SUBSET MetaKeys]
MetaMaps == UNION {[K -> MetaValues] : K \in SUBSET MetaKeys}

Binding == [owned : BOOLEAN, role : Roles, subjects : SubjectLists,
            deleting : BOOLEAN, held : BOOLEAN]
Quota == [owned : BOOLEAN, limits : Limits]
Namespace == [terminating : BOOLEAN, labels : MetaMaps, annotations : MetaMaps,
              inventory : KeySets \union {Unset, Malformed}]
Events == [namespace : BOOLEAN, quotas : SUBSET QuotaNames, bindings : SUBSET BindingKeys]
Copies == [owner : OwnerVersion, namespace : Namespace \union {Absent},
           quotas : [QuotaNames -> Quota \union {Absent}],
           bindings : [BindingKeys -> Binding \union {Absent}],
           clusterRoles : SUBSET Roles]

NewNamespace == [terminating |-> FALSE, labels |-> <<>>, annotations |-> <<>>,
                 inventory |-> Unset]
NoEvents == [namespace |-> FALSE, quotas |-> {}, bindings |-> {}]
NewBinding == [owned |-> FALSE, role |-> CHOOSE r \in Roles : TRUE,
               subjects |-> Outsiders, deleting |-> FALSE, held |-> FALSE]

ASSUME SpecsAssumption ==
  /\ Specs # {} /\ Roles # {}
  /\ \A s \in Specs :
       /\ s.accessMappings \in Seq([group : STRING, users : Seq(UserNames),
                                    clusterRoles : Seq(Roles)])
       /\ \E Q \in SUBSET QuotaNames : s.quotas \in [Q -> Limits]
       /\ s.labels \in MetaMaps
       /\ DOMAIN s.annotations \subseteq MetaKeys \union {InventoryKey}
       /\ \A k \in DOMAIN s.annotations : s.annotations[k] \in MetaValues
ASSUME NamesAssumption ==
  /\ OwnerKey \in MetaKeys /\ Owner \in MetaValues /\ InventoryKey \notin MetaKeys
  /\ Finalizer \notin Foreign
  /\ Disturbances \subseteq Kinds
  /\ MaxEdits \in Nat /\ MaxFaults \in Nat
  /\ Leftovers \subseteq BindingKeys /\ \A k \in Leftovers : k.name[3] \in Roles
ASSUME AbsentAssumption ==
  /\ Absent \notin Binding /\ Absent \notin Quota /\ Absent \notin Namespace
  /\ Absent \notin Nat
  /\ {Unset, Malformed} \intersect KeySets = {} /\ Unset # Malformed

VARIABLES
  namespace, quotas, bindings, clusterRoles,   \* the rest of the API server
  news,          \* the objects with events on the way that name the owner
  cache,         \* the informer caches
  queued,        \* the owner is in the work queue, or waits there to be retried
  pc,            \* the worker's place in Reconcile, and its locals:
  mns,           \* the object read at the start of the pass
  doomed,        \* listed objects still to delete
  todo,          \* quota names or positions still to visit
  kept,          \* the want set of the second prune
  invalid,       \* the invalid references found
  syncErr,       \* the error sync returned
  gauge,         \* the invalid-references gauge of this owner
  edits, faults  \* outside events so far

live == <<namespace, quotas, bindings>>
worker == <<pc, mns, doomed, todo, kept, invalid, syncErr>>
budget == <<edits, faults>>
vars == <<owner, watch, live, news, clusterRoles, cache, queued, worker, gauge, budget>>

Places == {"idle", "finalize", "unbind", "release", "adopt", "prune", "revoke", "quotas",
           "dropQuotas", "bindings", "ensure", "clear", "status"}
Syncing == {"prune", "revoke", "quotas", "dropQuotas", "bindings", "ensure", "clear"}
-----------------------------------------------------------------------------
(* The API server *)

\* Slips in ownedBy: the namespace is not part of the selector; the names of
\* the current spec are.
OwnedAnywhere(set) == {k \in BindingKeys : IsOwned(set[k])}
OwnedByName(set) == {k \in Requested(mns.spec) : IsOwned(set[k])}

\* ownedBy: the namespace is part of the selector.
OwnedBindings(set) == {k \in BindingKeys : k.namespace = Owner /\ IsOwned(set[k])}
OwnedQuotas(set) == {q \in QuotaNames : IsOwned(set[q])}

NamesOwner(ns) == ns # Absent /\ OwnerKey \in DOMAIN ns.labels /\ ns.labels[OwnerKey] = Owner

\* The watch: the events of an object carry its labels before and after, and an
\* event that names the owner is not lost to a later one that does not.
Announce ==
  news' = [namespace |-> \/ news.namespace
                         \/ /\ namespace' # namespace
                            /\ NamesOwner(namespace) \/ NamesOwner(namespace'),
           quotas    |-> news.quotas \union
                           {q \in QuotaNames : /\ quotas'[q] # quotas[q]
                                               /\ IsOwned(quotas[q]) \/ IsOwned(quotas'[q])},
           bindings  |-> news.bindings \union
                           {k \in BindingKeys : /\ bindings'[k] # bindings[k]
                                                /\ IsOwned(bindings[k]) \/ IsOwned(bindings'[k])}]

\* The API server's verdicts.  Nothing is created in a namespace that is gone
\* or terminating; some values it finds invalid; admission refuses some roles.
NamespaceOpen == namespace # Absent /\ ~namespace.terminating
Accepts(values) == IF values \intersect Unsound = {} THEN "none" ELSE "invalid"
Creation(verdict) == IF NamespaceOpen THEN verdict ELSE "failed"
-----------------------------------------------------------------------------
(* How a pass ends, and how sync gives up with an error *)

Done(retry) ==
  /\ pc' = "idle" /\ mns' = NoOwner
  /\ doomed' = {} /\ todo' = {} /\ kept' = {} /\ invalid' = <<>> /\ syncErr' = "none"
  /\ queued' = (queued \/ retry)

\* A slip: the error is returned, and not reported.
GiveUpSilently(error) == Done(error = "failed")

GiveUp(error) ==
  /\ pc' = "status" /\ syncErr' = error
  /\ doomed' = {} /\ todo' = {} /\ kept' = {} /\ invalid' = <<>>
  /\ UNCHANGED <<mns, queued>>
-----------------------------------------------------------------------------
(* Reconcile: the owner is read from the cache *)

\* Slips: no finalizer of our own; nothing done for an object being deleted.
FirstStepUnguarded(o) ==
  IF ~o.present THEN "idle" ELSE IF o.deleting THEN "finalize" ELSE "prune"
FirstStepIgnoringDeletion(o) ==
  IF ~o.present \/ o.deleting THEN "idle"
  ELSE IF Finalizer \notin o.finalizers THEN "adopt" ELSE "prune"

FirstStep(o) ==
  IF ~o.present THEN "idle"
  ELSE IF o.deleting THEN "finalize"
  ELSE IF Finalizer \notin o.finalizers THEN "adopt"
  ELSE "prune"

Reconcile ==
  /\ pc = "idle" /\ queued
  /\ queued' = FALSE
  /\ mns' = IF cache.owner.present THEN cache.owner ELSE NoOwner
  /\ pc' = FirstStep(cache.owner)
  /\ UNCHANGED <<owner, watch, live, clusterRoles, cache, gauge, budget,
                 doomed, todo, kept, invalid, syncErr>>

\* A slip: finalizeBindings lists through the cached client.
CachedFinalizerList == cache.bindings

\* finalizeBindings lists through the live reader.
FinalizerList == bindings

\* What is not yet on its way out is deleted; once the list is empty the gauge
\* goes and the finalizer may.
Finalize ==
  /\ pc = "finalize"
  /\ \/ /\ OwnedBindings(FinalizerList) = {}
        /\ pc' = "release" /\ gauge' = Absent
        /\ UNCHANGED doomed
     \/ /\ OwnedBindings(FinalizerList) # {}
        /\ pc' = "unbind"
        /\ doomed' = {k \in OwnedBindings(FinalizerList) : ~FinalizerList[k].deleting}
        /\ UNCHANGED gauge
  /\ UNCHANGED <<owner, watch, live, clusterRoles, cache, queued, budget,
                 mns, todo, kept, invalid, syncErr>>

\* The listed bindings are deleted; requeued, a later pass looks again.
Unbound ==
  /\ pc = "unbind" /\ doomed = {}
  /\ Done(TRUE)
  /\ UNCHANGED <<owner, watch, live, clusterRoles, cache, gauge, budget>>

\* A slip: no optimistic lock.
PatchAcceptedUnlocked == owner.present

\* The finalizer patches carry the resourceVersion that was read.
PatchAccepted == owner.present /\ owner.rv = mns.rv

Release ==
  /\ pc = "release"
  /\ IF PatchAccepted
       THEN WriteOwner(WithFinalizers(mns.finalizers \ {Finalizer})) /\ Done(FALSE)
       ELSE UNCHANGED <<owner, watch>> /\ Done(TRUE)
  /\ UNCHANGED <<live, clusterRoles, cache, gauge, budget>>

Adopt ==
  /\ pc = "adopt"
  /\ IF PatchAccepted
       THEN WriteOwner(WithFinalizers(mns.finalizers \union {Finalizer}))
       ELSE UNCHANGED <<owner, watch>>
  /\ Done(TRUE)
  /\ UNCHANGED <<live, clusterRoles, cache, gauge, budget>>
-----------------------------------------------------------------------------
(* sync: revoke, then namespace, quotas, bindings, and the second prune *)

\* Slips in the first prune: it is left to the second one; it revokes all.
PruneNothing ==
  /\ pc = "prune"
  /\ pc' = "revoke"
  /\ UNCHANGED <<owner, watch, live, clusterRoles, cache, queued, gauge, budget,
                 mns, doomed, todo, kept, invalid, syncErr>>
PruneAll ==
  /\ pc = "prune"
  /\ doomed' = OwnedBindings(cache.bindings)
  /\ pc' = "revoke"
  /\ UNCHANGED <<owner, watch, live, clusterRoles, cache, queued, gauge, budget,
                 mns, todo, kept, invalid, syncErr>>

Prune ==
  /\ pc = "prune"
  /\ doomed' = OwnedBindings(cache.bindings) \ Requested(mns.spec)
  /\ pc' = "revoke"
  /\ UNCHANGED <<owner, watch, live, clusterRoles, cache, queued, gauge, budget,
                 mns, todo, kept, invalid, syncErr>>

\* Delete of a listed binding, by finalizeBindings or pruneBindings: by name
\* alone, and NotFound is success.
DeleteBinding ==
  /\ pc \in {"unbind", "revoke", "clear"}
  /\ \E k \in doomed :
       /\ bindings' = [bindings EXCEPT ![k] = Deleted(@)]
       /\ doomed' = doomed \ {k}
  /\ UNCHANGED <<owner, watch, namespace, quotas, clusterRoles, cache, queued, gauge, budget,
                 pc, mns, todo, kept, invalid, syncErr>>

NamespaceCall ==
  LET ns      == IF cache.namespace = Absent THEN NewNamespace ELSE cache.namespace
      verdict == Accepts(Elements(mns.spec.labels) \union Elements(mns.spec.annotations))
  IN  IF ns.inventory = Malformed
        THEN [error |-> "failed", object |-> namespace]
        ELSE CreateOrUpdate(cache.namespace, MutateNamespace(ns, Owner, mns.spec),
                            namespace, verdict, verdict)

EnsureNamespace ==
  /\ pc = "revoke" /\ doomed = {}
  /\ namespace' = NamespaceCall.object
  /\ \/ /\ NamespaceCall.error = "none"
        /\ pc' = "quotas" /\ todo' = DOMAIN mns.spec.quotas
        /\ UNCHANGED <<mns, doomed, kept, invalid, syncErr, queued>>
     \/ NamespaceCall.error # "none" /\ GiveUp(NamespaceCall.error)
  /\ UNCHANGED <<owner, watch, quotas, bindings, clusterRoles, cache, gauge, budget>>

\* A slip: the owner labels of an existing quota are left as they are.
QuotaCallUnlabelled(q) ==
  LET verdict == Accepts({mns.spec.quotas[q]})
      owned   == cache.quotas[q] = Absent \/ cache.quotas[q].owned
      desired == [owned |-> owned, limits |-> mns.spec.quotas[q]]
  IN  CreateOrUpdate(cache.quotas[q], desired, quotas[q], Creation(verdict), verdict)

QuotaCall(q) ==
  LET desired == [owned |-> TRUE, limits |-> mns.spec.quotas[q]]
      verdict == Accepts({mns.spec.quotas[q]})
  IN  CreateOrUpdate(cache.quotas[q], desired, quotas[q], Creation(verdict), verdict)

EnsureQuota ==
  /\ pc = "quotas"
  /\ \E q \in todo :
       /\ quotas' = [quotas EXCEPT ![q] = QuotaCall(q).object]
       /\ \/ /\ QuotaCall(q).error = "none"
             /\ todo' = todo \ {q}
             /\ UNCHANGED <<pc, mns, doomed, kept, invalid, syncErr, queued>>
          \/ QuotaCall(q).error # "none" /\ GiveUp(QuotaCall(q).error)
  /\ UNCHANGED <<owner, watch, namespace, bindings, clusterRoles, cache, gauge, budget>>

PruneQuotas ==
  /\ pc = "quotas" /\ todo = {}
  /\ doomed' = OwnedQuotas(cache.quotas) \ DOMAIN mns.spec.quotas
  /\ pc' = "dropQuotas"
  /\ UNCHANGED <<owner, watch, live, clusterRoles, cache, queued, gauge, budget,
                 mns, todo, kept, invalid, syncErr>>

DeleteQuota ==
  /\ pc = "dropQuotas"
  /\ \E q \in doomed :
       /\ quotas' = [quotas EXCEPT ![q] = Absent]
       /\ doomed' = doomed \ {q}
  /\ UNCHANGED <<owner, watch, namespace, bindings, clusterRoles, cache, queued, gauge, budget,
                 pc, mns, todo, kept, invalid, syncErr>>

ReconcileBindings ==
  /\ pc = "dropQuotas" /\ doomed = {}
  /\ todo' = Positions(mns.spec)
  /\ pc' = "bindings"
  /\ UNCHANGED <<owner, watch, live, clusterRoles, cache, queued, gauge, budget,
                 mns, doomed, kept, invalid, syncErr>>

IsFirst(p) == p \in todo /\ \A q \in todo : Precedes(p, q)

\* The role is looked up; a missing one is reported and its binding not wanted.
MissingRole ==
  /\ pc = "bindings"
  /\ \E p \in todo :
       /\ IsFirst(p) /\ RoleAt(mns.spec, p) \notin cache.clusterRoles
       /\ invalid' = Append(invalid, RoleAt(mns.spec, p))
       /\ todo' = todo \ {p}
  /\ UNCHANGED <<owner, watch, live, clusterRoles, cache, queued, gauge, budget,
                 pc, mns, doomed, kept, syncErr>>

\* ensureRoleBinding first deletes a binding of this name with another roleRef;
\* here NotFound is an error.
ReplaceBinding ==
  /\ pc = "bindings"
  /\ \E p \in todo :
       LET k == KeyAt(mns.spec, p)
           taken == cache.bindings[k] # Absent /\ cache.bindings[k].role # RoleAt(mns.spec, p)
       IN  /\ IsFirst(p) /\ RoleAt(mns.spec, p) \in cache.clusterRoles
           /\ bindings' = IF taken THEN [bindings EXCEPT ![k] = Deleted(@)] ELSE bindings
           /\ \/ /\ taken => bindings[k] # Absent
                 /\ pc' = "ensure"
                 /\ UNCHANGED <<mns, doomed, todo, kept, invalid, syncErr, queued>>
              \/ taken /\ bindings[k] = Absent /\ GiveUp("failed")
  /\ UNCHANGED <<owner, watch, namespace, quotas, clusterRoles, cache, gauge, budget>>

\* A slip: the subjects of an existing binding are left as they are.
DesiredOnce(base, role, subjects) ==
  IF base = NewBinding
    THEN [base EXCEPT !.owned = TRUE, !.role = role, !.subjects = subjects]
    ELSE [base EXCEPT !.owned = TRUE, !.role = role]

DesiredBinding(base, role, subjects) ==
  [base EXCEPT !.owned = TRUE, !.role = role, !.subjects = subjects]

\* roleRef is immutable: an update that changes it is invalid.
BindingCall(p) ==
  LET k       == KeyAt(mns.spec, p)
      role    == RoleAt(mns.spec, p)
      cached  == cache.bindings[k]
      base    == IF cached = Absent THEN NewBinding ELSE cached
      desired == DesiredBinding(base, role, subjectsFor(MappingAt(mns.spec, p)))
      verdict == IF role \in Refused THEN "failed" ELSE "none"
  IN  CreateOrUpdate(cached, desired, bindings[k], Creation(verdict),
                     IF base.role # role THEN "invalid" ELSE verdict)

EnsureBinding ==
  /\ pc = "ensure"
  /\ \E p \in todo :
       /\ IsFirst(p)
       /\ bindings' = [bindings EXCEPT ![KeyAt(mns.spec, p)] = BindingCall(p).object]
       /\ \/ /\ BindingCall(p).error = "none"
             /\ pc' = "bindings"
             /\ todo' = todo \ {p}
             /\ kept' = kept \union {KeyAt(mns.spec, p)}
             /\ UNCHANGED <<mns, doomed, invalid, syncErr, queued>>
          \/ BindingCall(p).error # "none" /\ GiveUp(BindingCall(p).error)
  /\ UNCHANGED <<owner, watch, namespace, quotas, clusterRoles, cache, gauge, budget>>

PruneUnresolved ==
  /\ pc = "bindings" /\ todo = {}
  /\ doomed' = OwnedBindings(cache.bindings) \ kept
  /\ pc' = "clear"
  /\ UNCHANGED <<owner, watch, live, clusterRoles, cache, queued, gauge, budget,
                 mns, todo, kept, invalid, syncErr>>
-----------------------------------------------------------------------------
(* status: a merge patch of what this pass changed in the copy it read *)

Reporting == pc = "status" \/ (pc = "clear" /\ doomed = {})

\* A slip: a pass that found invalid references does not count as observed.
OutcomeUnobserved ==
  LET reason == IF syncErr # "none" THEN "SyncFailed"
                ELSE IF invalid # <<>> THEN "InvalidReferences"
                ELSE "Reconciled"
      ready  == [reason |-> reason, message |-> syncErr, generation |-> mns.generation]
  IN  IF syncErr # "none" \/ invalid # <<>>
        THEN [mns.status EXCEPT !.ready = ready, !.invalidReferences = invalid]
        ELSE [observedGeneration |-> mns.generation, invalidReferences |-> invalid,
              ready |-> ready]

Outcome == Report(mns, invalid, syncErr)

\* A slip: the base of the patch is empty, so all of the status is in it.
PatchedWhole == Outcome

\* The patch is the difference to what was read, and carries no resourceVersion.
PatchedStatus == MergePatch(mns.status, Outcome, owner.status)

SetGauge == gauge' = IF syncErr = "none" THEN Len(invalid) ELSE gauge

\* An Invalid from sync is terminal, and so not retried, unless the patch failed
\* as well.
ReportStatus ==
  /\ Reporting
  /\ SetGauge
  /\ IF owner.present
       THEN /\ WriteOwner([owner EXCEPT !.status = PatchedStatus])
            /\ Done(syncErr = "failed")
       ELSE UNCHANGED <<owner, watch>> /\ Done(TRUE)
  /\ UNCHANGED <<live, clusterRoles, cache, budget>>

Worker ==
  /\ \/ Reconcile \/ Finalize \/ Unbound \/ Release \/ Adopt
     \/ Prune \/ DeleteBinding \/ EnsureNamespace
     \/ EnsureQuota \/ PruneQuotas \/ DeleteQuota
     \/ ReconcileBindings \/ MissingRole \/ ReplaceBinding \/ EnsureBinding \/ PruneUnresolved
     \/ ReportStatus
  /\ Announce
-----------------------------------------------------------------------------
(* Watch events: the cache moves on, and Setup's handlers enqueue the owner *)

DeliverOwner ==
  /\ \E v \in watch :
       /\ cache' = [cache EXCEPT !.owner = v]
       /\ watch' = {w \in watch : w.rv > v.rv}
  /\ queued' = TRUE
  /\ UNCHANGED <<owner, live, news, clusterRoles, worker, gauge, budget>>

\* The handlers map the old and the new object to the owner its labels name.
DeliverNamespace ==
  /\ news.namespace \/ cache.namespace # namespace
  /\ cache' = [cache EXCEPT !.namespace = namespace]
  /\ news' = [news EXCEPT !.namespace = FALSE]
  /\ queued' = (queued \/ news.namespace)
  /\ UNCHANGED <<owner, watch, live, clusterRoles, worker, gauge, budget>>

DeliverQuota(q) ==
  /\ q \in news.quotas \/ cache.quotas[q] # quotas[q]
  /\ cache' = [cache EXCEPT !.quotas = [@ EXCEPT ![q] = quotas[q]]]
  /\ news' = [news EXCEPT !.quotas = @ \ {q}]
  /\ queued' = (queued \/ q \in news.quotas)
  /\ UNCHANGED <<owner, watch, live, clusterRoles, worker, gauge, budget>>

DeliverBinding(k) ==
  /\ k \in news.bindings \/ cache.bindings[k] # bindings[k]
  /\ cache' = [cache EXCEPT !.bindings = [@ EXCEPT ![k] = bindings[k]]]
  /\ news' = [news EXCEPT !.bindings = @ \ {k}]
  /\ queued' = (queued \/ k \in news.bindings)
  /\ UNCHANGED <<owner, watch, live, clusterRoles, worker, gauge, budget>>

\* A slip: ClusterRoles are not watched.
noneOfThem == FALSE

\* Every ManagedNamespace in the cache depends on every ClusterRole.
all == cache.owner.present

DeliverRole(r) ==
  /\ r \in cache.clusterRoles <=> r \notin clusterRoles
  /\ cache' = [cache EXCEPT !.clusterRoles = {x \in Roles : IF x = r THEN x \in clusterRoles ELSE x \in @}]
  /\ queued' = (queued \/ all)
  /\ UNCHANGED <<owner, watch, live, news, clusterRoles, worker, gauge, budget>>

\* The informer's periodic resync presents the cached owner again.
Resync ==
  /\ "resync" \in Disturbances /\ cache.owner.present
  /\ queued' = TRUE
  /\ UNCHANGED <<owner, watch, live, news, clusterRoles, cache, worker, gauge, budget>>

Deliver ==
  \/ DeliverOwner \/ Resync
  \/ DeliverNamespace
  \/ \E q \in QuotaNames : DeliverQuota(q)
  \/ \E k \in BindingKeys : DeliverBinding(k)
  \/ \E r \in Roles : DeliverRole(r)
-----------------------------------------------------------------------------
(* The namespace controller, and the other finalizers of bindings *)

InNamespace == {k \in BindingKeys : k.namespace = Owner /\ bindings[k] # Absent}

NamespaceController ==
  /\ namespace # Absent /\ namespace.terminating
  /\ \/ \E k \in InNamespace :
           /\ bindings[k] # Deleted(bindings[k])
           /\ bindings' = [bindings EXCEPT ![k] = Deleted(@)]
           /\ UNCHANGED <<namespace, quotas>>
     \/ \E q \in QuotaNames :
           /\ quotas[q] # Absent
           /\ quotas' = [quotas EXCEPT ![q] = Absent]
           /\ UNCHANGED <<namespace, bindings>>
     \/ /\ InNamespace = {} /\ \A q \in QuotaNames : quotas[q] = Absent
        /\ namespace' = Absent
        /\ UNCHANGED <<quotas, bindings>>
  /\ Announce
  /\ UNCHANGED <<owner, watch, clusterRoles, cache, queued, worker, gauge, budget>>

LetGo(k) ==
  /\ bindings[k] # Absent /\ bindings[k].held
  /\ bindings' = [bindings EXCEPT ![k] = IF @.deleting THEN Absent ELSE [@ EXCEPT !.held = FALSE]]
  /\ UNCHANGED <<namespace, quotas>> /\ Announce
  /\ UNCHANGED <<owner, watch, clusterRoles, cache, queued, worker, gauge, budget>>
-----------------------------------------------------------------------------
(* Users: what they do to the ManagedNamespace *)

Edit(kind) ==
  /\ kind \in Disturbances /\ edits < MaxEdits /\ edits' = edits + 1
  /\ UNCHANGED <<live, news, clusterRoles, cache, queued, worker, gauge, faults>>

CreateOwner(s) ==
  /\ Edit("create") /\ ~owner.present
  /\ WriteOwner(Created(s))

EditOwner(s) ==
  /\ Edit("edit") /\ owner.present /\ s # owner.spec
  /\ WriteOwner(Edited(s))

DeleteOwner ==
  /\ Edit("delete") /\ owner.present /\ ~owner.deleting
  /\ WriteOwner(Condemned)

\* Another controller adds its finalizer, though not to a deleting object.
AddForeign(f) ==
  /\ Edit("foreign") /\ owner.present /\ ~owner.deleting /\ f \notin owner.finalizers
  /\ WriteOwner(WithFinalizers(owner.finalizers \union {f}))

RemoveForeign(f) ==
  /\ Edit("foreign") /\ owner.present /\ f \in owner.finalizers
  /\ WriteOwner(WithFinalizers(owner.finalizers \ {f}))

ForceRelease ==
  /\ Edit("force") /\ owner.present /\ Finalizer \in owner.finalizers
  /\ WriteOwner(WithFinalizers(owner.finalizers \ {Finalizer}))

Users ==
  \/ \E s \in Specs : CreateOwner(s) \/ EditOwner(s)
  \/ DeleteOwner
  \/ \E f \in Foreign : AddForeign(f) \/ RemoveForeign(f)
  \/ ForceRelease
-----------------------------------------------------------------------------
(* Everything else that happens from outside *)

Fault(kind) ==
  /\ kind \in Disturbances /\ faults < MaxFaults /\ faults' = faults + 1
  /\ UNCHANGED <<owner, edits>>

\* A call, or a role lookup, fails for a reason that passes: the pass is retried,
\* by way of status when it is in sync.
CallFails ==
  /\ Fault("fail")
  /\ \/ /\ pc \in {"finalize", "unbind", "release", "adopt"}
        /\ Done(TRUE) /\ UNCHANGED gauge
     \/ Reporting /\ SetGauge /\ Done(TRUE)
     \/ pc \in Syncing /\ ~Reporting /\ GiveUp("failed") /\ UNCHANGED gauge
  /\ UNCHANGED <<watch, live, news, clusterRoles, cache>>

\* The process restarts: its informers list afresh and enqueue what they find.
Crash ==
  /\ Fault("crash")
  /\ pc' = "idle" /\ mns' = NoOwner
  /\ doomed' = {} /\ todo' = {} /\ kept' = {} /\ invalid' = <<>> /\ syncErr' = "none"
  /\ gauge' = Absent
  /\ cache' = [owner |-> owner, namespace |-> namespace, quotas |-> quotas,
               bindings |-> bindings, clusterRoles |-> clusterRoles]
  /\ watch' = {} /\ news' = NoEvents
  /\ queued' = owner.present
  /\ UNCHANGED <<live, clusterRoles>>

Elsewhere == Announce /\ UNCHANGED <<watch, cache, queued, worker, gauge>>

ToggleRole(r) ==
  /\ Fault("role")
  /\ clusterRoles' = IF r \in clusterRoles THEN clusterRoles \ {r} ELSE clusterRoles \union {r}
  /\ UNCHANGED live /\ Elsewhere

\* Someone deletes a binding of the namespace, changes its subjects, drops its
\* owner labels, or takes a free name for a binding of another role.
DriftBinding(k) ==
  /\ Fault("drift") /\ k.namespace = Owner
  /\ \/ bindings[k] # Absent /\ bindings' = [bindings EXCEPT ![k] = Deleted(@)]
     \/ bindings[k] # Absent /\ bindings' = [bindings EXCEPT ![k].subjects = Outsiders]
     \/ bindings[k] # Absent /\ bindings' = [bindings EXCEPT ![k].owned = FALSE]
     \/ /\ bindings[k] = Absent /\ NamespaceOpen
        /\ \E r \in Roles : bindings' = [bindings EXCEPT ![k] = [NewBinding EXCEPT !.role = r]]
  /\ UNCHANGED <<namespace, quotas, clusterRoles>> /\ Elsewhere

\* Someone puts the owner labels on a binding of the namespace.
RelabelBinding(k) ==
  /\ Fault("relabel") /\ k.namespace = Owner
  /\ bindings[k] # Absent /\ ~bindings[k].owned
  /\ bindings' = [bindings EXCEPT ![k].owned = TRUE]
  /\ UNCHANGED <<namespace, quotas, clusterRoles>> /\ Elsewhere

\* Someone else's finalizer holds a binding.
HoldBinding(k) ==
  /\ Fault("hold") /\ k.namespace = Owner
  /\ bindings[k] # Absent /\ ~bindings[k].deleting /\ ~bindings[k].held
  /\ bindings' = [bindings EXCEPT ![k].held = TRUE]
  /\ UNCHANGED <<namespace, quotas, clusterRoles>> /\ Elsewhere

DriftQuota(q) ==
  /\ Fault("quota") /\ quotas[q] # Absent
  /\ quotas' \in {[quotas EXCEPT ![q] = new] :
                  new \in {Absent, [quotas[q] EXCEPT !.owned = FALSE]}
                          \union {[quotas[q] EXCEPT !.limits = l] : l \in Limits \ Unsound}}
  /\ UNCHANGED <<namespace, bindings, clusterRoles>> /\ Elsewhere

DeleteNamespace ==
  /\ Fault("namespace") /\ NamespaceOpen
  /\ namespace' = [namespace EXCEPT !.terminating = TRUE]
  /\ UNCHANGED <<quotas, bindings, clusterRoles>> /\ Elsewhere

\* Someone labels or annotates the namespace, drops a label, or removes the
\* inventory annotation; or makes the namespace before we do.
ChangeMetadata ==
  /\ Fault("metadata")
  /\ LET ns == IF namespace = Absent THEN NewNamespace ELSE namespace
     IN  \/ \E key \in MetaKeys, v \in MetaValues \ Unsound :
               namespace' \in {[ns EXCEPT !.labels = Over(Single(key, v), @)],
                              [ns EXCEPT !.annotations = Over(Single(key, v), @)]}
         \/ \E key \in DOMAIN ns.labels : namespace' = [ns EXCEPT !.labels = Without(@, {key})]
         \/ namespace' = [ns EXCEPT !.inventory = Unset]
  /\ UNCHANGED <<quotas, bindings, clusterRoles>> /\ Elsewhere

\* Someone breaks the inventory annotation.
CorruptInventory ==
  /\ Fault("corrupt") /\ namespace # Absent
  /\ namespace' = [namespace EXCEPT !.inventory = Malformed]
  /\ UNCHANGED <<quotas, bindings, clusterRoles>> /\ Elsewhere

Others ==
  \/ CallFails \/ Crash
  \/ \E r \in Roles : ToggleRole(r)
  \/ \E k \in BindingKeys : DriftBinding(k) \/ RelabelBinding(k) \/ HoldBinding(k)
  \/ \E q \in QuotaNames : DriftQuota(q)
  \/ DeleteNamespace \/ ChangeMetadata \/ CorruptInventory
-----------------------------------------------------------------------------
Init ==
  /\ owner = NoOwner /\ watch = {}
  /\ namespace = IF \E k \in Leftovers : k.namespace = Owner THEN NewNamespace ELSE Absent
  /\ quotas = [q \in QuotaNames |-> Absent]
  /\ bindings = [k \in BindingKeys |->
                   IF k \in Leftovers THEN [NewBinding EXCEPT !.owned = TRUE, !.role = k.name[3]]
                   ELSE Absent]
  /\ news = NoEvents
  /\ clusterRoles = Roles
  /\ cache = [owner |-> owner, namespace |-> namespace, quotas |-> quotas,
              bindings |-> bindings, clusterRoles |-> clusterRoles]
  /\ queued = FALSE
  /\ pc = "idle" /\ mns = NoOwner
  /\ doomed = {} /\ todo = {} /\ kept = {} /\ invalid = <<>> /\ syncErr = "none"
  /\ gauge = Absent
  /\ edits = 0 /\ faults = 0

Next ==
  \/ Worker \/ Deliver
  \/ NamespaceController \/ \E k \in BindingKeys : LetGo(k)
  \/ Users \/ Others

\* The work queue hands out what is queued and a started pass goes on; every
\* watch event is delivered in the end, and resyncs recur; the namespace
\* controller and the owners of other finalizers do their work.  Nothing else
\* from outside is obliged to happen.
Fairness ==
  /\ WF_vars(Worker)
  /\ WF_vars(DeliverOwner) /\ WF_vars(DeliverNamespace) /\ WF_vars(Resync)
  /\ \A q \in QuotaNames : WF_vars(DeliverQuota(q))
  /\ \A k \in BindingKeys : WF_vars(DeliverBinding(k)) /\ WF_vars(LetGo(k))
  /\ \A r \in Roles : WF_vars(DeliverRole(r))
  /\ WF_vars(NamespaceController)

Spec == Init /\ [][Next]_vars
FairSpec == Spec /\ Fairness
-----------------------------------------------------------------------------
(* What is to hold *)

\* Every variable keeps the shape of the object or local it stands for; in
\* particular a live object is one the API server would store.
TypeOK ==
  /\ owner \in OwnerVersion /\ mns \in OwnerVersion /\ watch \subseteq OwnerVersion
  /\ namespace \in Namespace \union {Absent}
  /\ quotas \in [QuotaNames -> Quota \union {Absent}]
  /\ bindings \in [BindingKeys -> Binding \union {Absent}]
  /\ news \in Events /\ clusterRoles \in SUBSET Roles
  /\ cache \in Copies
  /\ queued \in BOOLEAN /\ pc \in Places
  /\ doomed \subseteq (IF pc = "dropQuotas" THEN QuotaNames ELSE BindingKeys)
  /\ todo \subseteq (IF pc = "quotas" THEN DOMAIN mns.spec.quotas
                      ELSE IF pc \in {"bindings", "ensure"} THEN Positions(mns.spec) ELSE {})
  /\ kept \subseteq BindingKeys
  /\ invalid \in Seq(Roles) /\ syncErr \in Errors
  /\ gauge \in Nat \union {Absent}
  /\ edits \in 0..MaxEdits /\ faults \in 0..MaxFaults

\* The bindings of the namespace that carry the owner's labels.
Granted == {k \in BindingKeys : k.namespace = Owner /\ IsOwned(bindings[k])}

\* "removing the owner finalizer based on such a list can orphan the grant
\* permanently" (managednamespace.go:78-82): once the ManagedNamespace is gone,
\* or no longer carries the finalizer, no binding of its namespace is its own.
NoOrphanedGrant ==
  ~(owner.present /\ Finalizer \in owner.finalizers) => Granted = {}

\* A pass works on the copy it read however long ago, yet while it syncs the
\* live owner is the same object, no older, and still holds the finalizer: a
\* binding created now will be found by the deletion to come.
GuardedPass ==
  pc \in Syncing \union {"status"} =>
    /\ owner.present /\ Finalizer \in owner.finalizers
    /\ mns.rv <= owner.rv /\ mns.generation <= owner.generation

\* The status belongs to the object that carries it: neither the observed
\* generation nor the Ready condition's is one this object has not reached,
\* though status patches carry neither resourceVersion nor UID.
StatusOfThisObject ==
  owner.present =>
    /\ owner.status.observedGeneration <= owner.generation
    /\ owner.status.ready.generation <= owner.generation

\* A Ready condition that reports a completed pass goes with the observed
\* generation of that pass, though merge patches may mix two passes.
ReadyMeansObserved ==
  owner.present /\ owner.status.ready.reason \in {"Reconciled", "InvalidReferences"} =>
    owner.status.observedGeneration = owner.status.ready.generation

\* The abstract promise of GrantLifecycle, of the finalizer and the grants: no
\* step gives a grant without a hold, ends a hold that no deletion asked for, or
\* one under which a grant remains.
Promise == INSTANCE GrantLifecycle WITH
             Names <- BindingKeys, phase <- Phase, grants <- Granted
KeepsPromise == Promise!Spec

ByController == budget' = budget

\* The optimistic lock: our finalizer patches never take along, or bring back,
\* another controller's finalizer (finalizers_test.go).
ForeignFinalizersKept ==
  [][ByController => owner'.finalizers \ {Finalizer} = owner.finalizers \ {Finalizer}]_vars

\* The observed generation never goes back while the object lives, although
\* each patch is computed against a status that may be out of date.
StatusNeverRegresses ==
  [][owner'.present /\ owner.present =>
       /\ owner.status.observedGeneration <= owner'.status.observedGeneration
       /\ owner.status.ready.generation <= owner'.status.ready.generation]_vars

\* A binding in another namespace is not this owner's to change, whatever its
\* labels say (managednamespace.go:370-375).
StrangersUntouched ==
  [][\A k \in Strangers : k.namespace # Owner => bindings'[k] = bindings[k]]_vars

\* A grant that stands as the version a pass works on asks for it, and whose role
\* the pass did not find missing, is not taken away by any step of the controller:
\* failing passes, restarts and stale copies do not interrupt access.  (Where the
\* cache still shows a binding of another role under that name, someone else made
\* the new one, and the controller may replace it.)
OfRole(binding, k) == binding # Absent /\ binding.role = k.name[3]
Standing(k) == IsOwned(bindings[k]) /\ OfRole(bindings[k], k) /\ ~bindings[k].deleting
StillAsked(k) ==
  pc # "idle" => /\ ~mns.deleting /\ k \in Requested(mns.spec)
                 /\ k.name[3] \notin Elements(invalid)
KeptGrantNeverBlinks ==
  [][\A k \in BindingKeys :
       /\ ByController /\ NamespaceOpen /\ Standing(k) /\ StillAsked(k)
       /\ cache.bindings[k] = Absent \/ OfRole(cache.bindings[k], k)
       => Standing(k)']_vars

\* "An Invalid response means the API server rejected the object this spec asks
\* for, so the same spec will be rejected identically forever" (shared.go:85-87).
InvalidMeansRejected ==
  syncErr = "invalid" =>
    Unsound \intersect (Elements(mns.spec.labels) \union Elements(mns.spec.annotations)
                          \union Elements(mns.spec.quotas)) # {}

\* What a completed pass reports is what the object then says: "status reports
\* the outcome of a sync pass" (managednamespace.go:340).
StatusReportsOutcome ==
  [][pc = "clear" /\ pc' = "idle" /\ ByController /\ owner.present =>
       owner'.status = Outcome]_vars

AtRest ==
  /\ pc = "idle" /\ ~queued
  /\ watch = {} /\ news = NoEvents /\ cache.clusterRoles = clusterRoles

\* "Invalid ClusterRole references currently reported in the object's status"
\* (metrics.go:14): when nothing is under way, a series belongs to an owner that
\* exists, and says what its status says.
GaugeReports ==
  AtRest /\ gauge # Absent =>
    owner.present /\ gauge = Len(owner.status.invalidReferences)

\* So it is, and the owner holds the finalizer, while the last pass has not been
\* rejected for good: such a pass leaves gauge and status as they were.
GaugeFollowsStatus ==
  AtRest /\ gauge # Absent =>
    /\ owner.present /\ Finalizer \in owner.finalizers
    /\ \/ gauge = Len(owner.status.invalidReferences)
       \/ owner.status.ready.message = "invalid"

Grants ==
  {[key |-> k, role |-> bindings[k].role, subjects |-> bindings[k].subjects] : k \in Granted}
Asked(spec) ==
  {[key |-> KeyAt(spec, p), role |-> RoleAt(spec, p), subjects |-> subjectsFor(MappingAt(spec, p))] :
     p \in {p \in Positions(spec) : RoleAt(spec, p) \in clusterRoles}}
Missing(spec) == {p \in Positions(spec) : RoleAt(spec, p) \notin clusterRoles}

\* Requested keys are there, and those no longer requested are not, unless
\* others set keys too.
Carries(map, spec, apart) ==
  /\ DOMAIN spec \ apart \subseteq DOMAIN map
  /\ DOMAIN map \subseteq
       DOMAIN spec \union apart \union (IF "metadata" \in Disturbances THEN MetaKeys ELSE {})
  /\ \A key \in DOMAIN spec \ apart : map[key] = spec[key]
MetadataInSync ==
  /\ NamesOwner(namespace)
  /\ Carries(namespace.labels, owner.spec.labels, {OwnerKey})
  /\ Carries(namespace.annotations, owner.spec.annotations, {InventoryKey})
  /\ namespace.inventory = [labels |-> DOMAIN owner.spec.labels,
                            annotations |-> DOMAIN owner.spec.annotations \ {InventoryKey}]

InSync ==
  IF owner.present /\ ~owner.deleting
    THEN /\ Finalizer \in owner.finalizers
         /\ NamespaceOpen
         /\ MetadataInSync
         /\ OwnedQuotas(quotas) = DOMAIN owner.spec.quotas
         /\ \A q \in OwnedQuotas(quotas) : quotas[q].limits = owner.spec.quotas[q]
         /\ Grants = Asked(owner.spec)
         /\ Len(owner.status.invalidReferences) = Cardinality(Missing(owner.spec))
         /\ Elements(owner.status.invalidReferences)
              = {RoleAt(owner.spec, p) : p \in Missing(owner.spec)}
         /\ gauge = Cardinality(Missing(owner.spec))
         /\ owner.status.observedGeneration = owner.generation
         /\ owner.status.ready =
              [reason |-> IF Missing(owner.spec) = {} THEN "Reconciled" ELSE "InvalidReferences",
               message |-> "none", generation |-> owner.generation]
    ELSE Granted = {}

\* When users and faults leave it alone, the system settles with everything
\* the live spec asks for in place, nothing else of ours, and a status and a
\* gauge that say so; and then it is quiet: no pass enqueues the next ("every
\* rewrite enqueued another reconcile", shared.go:44-49).
Converges == <>[](InSync /\ pc = "idle" /\ ~queued)

\* "Recreating a resource under the same name reclaims and cleans up whatever its
\* predecessor left" (README.md:102-103), forced removals of the finalizer included.
Reclaims == <>[](owner.present /\ ~owner.deleting) => <>[]InSync

\* No wake-up is lost: when nothing is under way, and no namespace or binding
\* waits for somebody else to finish deleting it, all is as Converges wants it,
\* whatever passes were overtaken, failed or cut short before; or the status says
\* that the last pass was rejected as Invalid.
Settled ==
  /\ AtRest
  /\ ~(namespace # Absent /\ namespace.terminating)
  /\ \A k \in BindingKeys : bindings[k] # Absent => ~bindings[k].deleting
TurnedDown == owner.present /\ ~owner.deleting /\ owner.status.ready.message = "invalid"
NothingLost == Settled => InSync \/ TurnedDown

\* A grant the spec no longer asks for goes, whatever else fails: "failures in
\* those operations do not block access revocation" (README.md:33-34).
Revoked ==
  \A k \in BindingKeys :
    k.namespace = Owner =>
      (<>[](owner.present /\ k \notin Requested(owner.spec)) => <>[](~IsOwned(bindings[k])))

Rejected ==
  {s \in Specs : \/ Unsound \intersect (Elements(s.labels) \union Elements(s.annotations)
                                             \union Elements(s.quotas)) # {}
                 \/ \E p \in Positions(s) : RoleAt(s, p) \in Refused}
\* A spec that is rejected again and again is reported as failing on its own
\* generation, and what the last good pass found stays in the status.
RejectionReported ==
  <>[](owner.present /\ ~owner.deleting /\ owner.spec \in Rejected =>
         owner.status.ready.reason = "SyncFailed"
           /\ owner.status.ready.generation = owner.generation)

\* A deleted ManagedNamespace is released, also when its bindings linger.
DeletionCompletes ==
  (owner.present /\ owner.deleting) ~> ~(owner.present /\ Finalizer \in owner.finalizers)

\* Labels and annotations never requested by the ManagedNamespace are preserved
\* (README.md:14-15): the controller neither drops nor changes a key that no
\* spec it may have seen asks for and that its inventory does not list.
RequestedLabels == UNION {DOMAIN s.labels : s \in Specs}
RequestedAnnotations == UNION {DOMAIN s.annotations : s \in Specs}
Preserved(old, new, ours) ==
  \A key \in DOMAIN old \ ours : key \in DOMAIN new /\ new[key] = old[key]
ExternalMetadataKept ==
  [][ByController /\ namespace # Absent /\ namespace' # Absent =>
       /\ Preserved(namespace.labels, namespace'.labels,
                    {OwnerKey} \union RequestedLabels)
       /\ Preserved(namespace.annotations, namespace'.annotations,
                    RequestedAnnotations)]_vars
=============================================================================

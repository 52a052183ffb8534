------------------------ MODULE ManagedNamespaceSafety ------------------------
(***************************************************************************)
(* Safety of the ManagedNamespace reconciler, for every value of the       *)
(* constants: no grant is orphaned, no pass syncs for an owner that is not *)
(* held, no other controller's finalizer is lost, and GrantLifecycle is    *)
(* implemented.                                                            *)
(*                                                                         *)
(* The argument goes over the versions of the owner. The cache and a pass  *)
(* hold old ones, but the resourceVersion tells old from current, so a     *)
(* patch with the optimistic lock applies only to the object as it was     *)
(* read.                                                                   *)
(***************************************************************************)
EXTENDS ManagedNamespaceProofs

\* What the cache, the watch and a pass hold are versions the owner had, and
\* the one with the owner's resourceVersion is the owner as it is.
Current ==
  /\ cache.owner.rv <= owner.rv
  /\ cache.owner.rv = owner.rv => cache.owner = owner
  /\ \A w \in watch : /\ cache.owner.rv < w.rv /\ w.rv <= owner.rv
                      /\ w.rv = owner.rv => w = owner
Read ==
  pc # "idle" => /\ mns.rv <= cache.owner.rv
                 /\ mns.rv = cache.owner.rv => mns = cache.owner
Versions == Current /\ Read

-----------------------------------------------------------------------------
(* What one step does to the owner, its copies and the pass *)

Local == UNCHANGED <<owner, watch>> /\ cache'.owner = cache.owner
Written ==
  /\ owner'.rv = owner.rv + 1 /\ watch' = watch \union {owner'}
  /\ cache'.owner = cache.owner
Writes == Release \/ Adopt \/ ReportStatus \/ Users
Delivered ==
  /\ owner' = owner
  /\ \E v \in watch : cache'.owner = v /\ watch' = {w \in watch : w.rv > v.rv}
Restarted == owner' = owner /\ cache'.owner = owner /\ watch' = {} /\ pc' = "idle"

Finalizing == {"finalize", "unbind", "release"}
Guarding == Syncing \union {"status"}
PassOn ==
  /\ pc # "idle" /\ mns' = mns
  /\ pc' \in Guarding => pc \in Guarding
  /\ pc' \in Finalizing => pc \in Finalizing
  /\ pc' = "release" => pc = "release" \/ Finalize
  /\ pc' # "adopt"
Rests == UNCHANGED <<pc, mns>>
Ends == pc' = "idle"

\* What a write to the owner does to it and to the watch.
LEMMA WriteShape ==
  ASSUME TypeOK, TypeOK', NEW new, WriteOwner(new), cache' = cache
  PROVE  /\ Local \/ Written
         /\ owner' = owner \/ owner' = [new EXCEPT !.rv = owner'.rv]
PROOF
  <1> DEFINE next == [new EXCEPT !.rv = owner.rv + 1]
  <1>1. CASE owner' = owner /\ watch' = watch
    BY <1>1 DEF Local
  <1>2. CASE owner' = next /\ watch' = watch \union {next}
    <2>1. owner' \in OwnerVersion
      BY DEF TypeOK
    <2>2. DOMAIN owner' = DOMAIN new
      BY <1>2
    <2>3. "rv" \in DOMAIN new
      BY <2>1, <2>2 DEF OwnerVersion
    <2>4. owner'.rv = owner.rv + 1
      BY <1>2, <2>3
    <2> QED BY <1>2, <2>4 DEF Written
  <1> QED BY <1>1, <1>2 DEF WriteOwner

\* What the actions of Next come to for the owner, its copies and the pass.
LEMMA Steps ==
  ASSUME TypeOK, TypeOK', [Next]_vars
  PROVE  /\ Local \/ (Written /\ Writes) \/ Delivered \/ Restarted
         /\ Reconcile \/ PassOn \/ Ends \/ Rests
PROOF
  <1> DEFINE Shape == /\ Local \/ (Written /\ Writes) \/ Delivered \/ Restarted
                      /\ Reconcile \/ PassOn \/ Ends \/ Rests
  <1>0. cache \in Copies
    BY DEF TypeOK
  <1>1. CASE Reconcile
    <2>1. Local
      BY <1>1, <1>0 DEF Reconcile, live, worker, budget, Local, Copies
    <2> QED BY <1>1, <2>1
  <1>2. CASE Finalize
    <2>1. Local
      BY <1>2, <1>0 DEF Finalize, live, worker, budget, Local, Copies
    <2>2. PassOn
      BY <1>2 DEF Finalize, live, worker, budget, PassOn, Guarding, Finalizing, Syncing
    <2> QED BY <2>1, <2>2
  <1>3. CASE Unbound
    <2>1. Local
      BY <1>3, <1>0 DEF Unbound, live, worker, budget, Local, Copies
    <2>2. Ends
      BY <1>3 DEF Unbound, live, worker, budget, Ends, Done
    <2> QED BY <2>1, <2>2
  <1>4. CASE Release
    <2>1. Local \/ (Written /\ Writes)
      <3>1. cache' = cache /\ Writes
        BY <1>4 DEF Release, live, worker, budget, Writes, Users
      <3>2. CASE PatchAccepted
        BY <1>4, <3>1, <3>2, WriteShape DEF Release
      <3>3. CASE ~PatchAccepted
        BY <1>4, <3>1, <3>3 DEF Release, Local
      <3> QED BY <3>2, <3>3
    <2>2. Ends
      BY <1>4 DEF Release, live, worker, budget, Ends, Done
    <2> QED BY <2>1, <2>2
  <1>5. CASE Adopt
    <2>1. Local \/ (Written /\ Writes)
      <3>1. cache' = cache /\ Writes
        BY <1>5 DEF Adopt, live, worker, budget, Writes, Users
      <3>2. CASE PatchAccepted
        BY <1>5, <3>1, <3>2, WriteShape DEF Adopt
      <3>3. CASE ~PatchAccepted
        BY <1>5, <3>1, <3>3 DEF Adopt, Local
      <3> QED BY <3>2, <3>3
    <2>2. Ends
      BY <1>5 DEF Adopt, live, worker, budget, Ends, Done
    <2> QED BY <2>1, <2>2
  <1>6. CASE Prune
    <2>1. Local
      BY <1>6, <1>0 DEF Prune, live, worker, budget, Local, Copies
    <2>2. PassOn
      BY <1>6 DEF Prune, live, worker, budget, PassOn, Guarding, Finalizing, Syncing
    <2> QED BY <2>1, <2>2
  <1>7. CASE DeleteBinding
    <2>1. Local
      BY <1>7, <1>0 DEF DeleteBinding, live, worker, budget, Local, Copies
    <2>2. PassOn
      BY <1>7 DEF DeleteBinding, live, worker, budget, PassOn, Guarding, Finalizing, Syncing
    <2> QED BY <2>1, <2>2
  <1>8. CASE EnsureNamespace
    <2>1. Local
      BY <1>8, <1>0 DEF EnsureNamespace, live, worker, budget, Local, Copies
    <2>2. PassOn
      BY <1>8 DEF EnsureNamespace, live, worker, budget, PassOn, Guarding, Finalizing, Syncing, GiveUp
    <2> QED BY <2>1, <2>2
  <1>9. CASE EnsureQuota
    <2>1. Local
      BY <1>9, <1>0 DEF EnsureQuota, live, worker, budget, Local, Copies
    <2>2. PassOn
      BY <1>9 DEF EnsureQuota, live, worker, budget, PassOn, Guarding, Finalizing, Syncing, GiveUp
    <2> QED BY <2>1, <2>2
  <1>10. CASE PruneQuotas
    <2>1. Local
      BY <1>10, <1>0 DEF PruneQuotas, live, worker, budget, Local, Copies
    <2>2. PassOn
      BY <1>10 DEF PruneQuotas, live, worker, budget, PassOn, Guarding, Finalizing, Syncing
    <2> QED BY <2>1, <2>2
  <1>11. CASE DeleteQuota
    <2>1. Local
      BY <1>11, <1>0 DEF DeleteQuota, live, worker, budget, Local, Copies
    <2>2. PassOn
      BY <1>11 DEF DeleteQuota, live, worker, budget, PassOn, Guarding, Finalizing, Syncing
    <2> QED BY <2>1, <2>2
  <1>12. CASE ReconcileBindings
    <2>1. Local
      BY <1>12, <1>0 DEF ReconcileBindings, live, worker, budget, Local, Copies
    <2>2. PassOn
      BY <1>12 DEF ReconcileBindings, live, worker, budget, PassOn, Guarding, Finalizing, Syncing
    <2> QED BY <2>1, <2>2
  <1>13. CASE MissingRole
    <2>1. Local
      BY <1>13, <1>0 DEF MissingRole, live, worker, budget, Local, Copies
    <2>2. PassOn
      BY <1>13 DEF MissingRole, live, worker, budget, PassOn, Guarding, Finalizing, Syncing
    <2> QED BY <2>1, <2>2
  <1>14. CASE ReplaceBinding
    <2>1. Local
      BY <1>14, <1>0 DEF ReplaceBinding, live, worker, budget, Local, Copies
    <2>2. PassOn
      BY <1>14 DEF ReplaceBinding, live, worker, budget, PassOn, Guarding, Finalizing, Syncing, GiveUp
    <2> QED BY <2>1, <2>2
  <1>15. CASE EnsureBinding
    <2>1. Local
      BY <1>15, <1>0 DEF EnsureBinding, live, worker, budget, Local, Copies
    <2>2. PassOn
      BY <1>15 DEF EnsureBinding, live, worker, budget, PassOn, Guarding, Finalizing, Syncing, GiveUp
    <2> QED BY <2>1, <2>2
  <1>16. CASE PruneUnresolved
    <2>1. Local
      BY <1>16, <1>0 DEF PruneUnresolved, live, worker, budget, Local, Copies
    <2>2. PassOn
      BY <1>16 DEF PruneUnresolved, live, worker, budget, PassOn, Guarding, Finalizing, Syncing
    <2> QED BY <2>1, <2>2
  <1>17. CASE ReportStatus
    <2>1. Local \/ (Written /\ Writes)
      <3>1. cache' = cache /\ Writes
        BY <1>17 DEF ReportStatus, live, worker, budget, Writes, Users
      <3>2. CASE owner.present
        BY <1>17, <3>1, <3>2, WriteShape DEF ReportStatus
      <3>3. CASE ~owner.present
        BY <1>17, <3>1, <3>3 DEF ReportStatus, Local
      <3> QED BY <3>2, <3>3
    <2>2. Ends
      BY <1>17 DEF ReportStatus, live, worker, budget, Ends, Done
    <2> QED BY <2>1, <2>2
  <1>18. CASE DeliverOwner
    <2>1. Delivered
      BY <1>18, <1>0 DEF DeliverOwner, Delivered, Copies
    <2>2. Rests
      BY <1>18 DEF DeliverOwner, live, worker, budget, Rests
    <2> QED BY <2>1, <2>2
  <1>19. CASE Resync
    <2>1. Local
      BY <1>19, <1>0 DEF Resync, live, worker, budget, Local, Copies
    <2>2. Rests
      BY <1>19 DEF Resync, live, worker, budget, Rests
    <2> QED BY <2>1, <2>2
  <1>20. CASE DeliverNamespace
    <2>1. Local
      BY <1>20, <1>0 DEF DeliverNamespace, live, worker, budget, Local, Copies
    <2>2. Rests
      BY <1>20 DEF DeliverNamespace, live, worker, budget, Rests
    <2> QED BY <2>1, <2>2
  <1>21. ASSUME NEW q \in QuotaNames, DeliverQuota(q) PROVE Shape
    <2>1. Local
      BY <1>21, <1>0 DEF DeliverQuota, live, worker, budget, Local, Copies
    <2>2. Rests
      BY <1>21 DEF DeliverQuota, live, worker, budget, Rests
    <2> QED BY <2>1, <2>2
  <1>22. ASSUME NEW k \in BindingKeys, DeliverBinding(k) PROVE Shape
    <2>1. Local
      BY <1>22, <1>0 DEF DeliverBinding, live, worker, budget, Local, Copies
    <2>2. Rests
      BY <1>22 DEF DeliverBinding, live, worker, budget, Rests
    <2> QED BY <2>1, <2>2
  <1>23. ASSUME NEW r \in Roles, DeliverRole(r) PROVE Shape
    <2>1. Local
      BY <1>23, <1>0 DEF DeliverRole, live, worker, budget, Local, Copies
    <2>2. Rests
      BY <1>23 DEF DeliverRole, live, worker, budget, Rests
    <2> QED BY <2>1, <2>2
  <1>24. CASE NamespaceController
    <2>1. Local
      BY <1>24, <1>0 DEF NamespaceController, live, worker, budget, Local, Copies
    <2>2. Rests
      BY <1>24 DEF NamespaceController, live, worker, budget, Rests
    <2> QED BY <2>1, <2>2
  <1>25. ASSUME NEW k \in BindingKeys, LetGo(k) PROVE Shape
    <2>1. Local
      BY <1>25, <1>0 DEF LetGo, live, worker, budget, Local, Copies
    <2>2. Rests
      BY <1>25 DEF LetGo, live, worker, budget, Rests
    <2> QED BY <2>1, <2>2
  <1>26. ASSUME NEW s \in Specs, CreateOwner(s) PROVE Shape
    <2>1. Local \/ (Written /\ Writes)
      <3>1. cache' = cache /\ Writes
        BY <1>26 DEF CreateOwner, live, worker, budget, Edit, Writes, Users
      <3> QED BY <1>26, <3>1, WriteShape DEF CreateOwner
    <2>2. Rests
      BY <1>26 DEF CreateOwner, live, worker, budget, Edit, Rests
    <2> QED BY <2>1, <2>2
  <1>27. ASSUME NEW s \in Specs, EditOwner(s) PROVE Shape
    <2>1. Local \/ (Written /\ Writes)
      <3>1. cache' = cache /\ Writes
        BY <1>27 DEF EditOwner, live, worker, budget, Edit, Writes, Users
      <3> QED BY <1>27, <3>1, WriteShape DEF EditOwner
    <2>2. Rests
      BY <1>27 DEF EditOwner, live, worker, budget, Edit, Rests
    <2> QED BY <2>1, <2>2
  <1>28. CASE DeleteOwner
    <2>1. Local \/ (Written /\ Writes)
      <3>1. cache' = cache /\ Writes
        BY <1>28 DEF DeleteOwner, live, worker, budget, Edit, Writes, Users
      <3> QED BY <1>28, <3>1, WriteShape DEF DeleteOwner
    <2>2. Rests
      BY <1>28 DEF DeleteOwner, live, worker, budget, Edit, Rests
    <2> QED BY <2>1, <2>2
  <1>29. ASSUME NEW f \in Foreign, AddForeign(f) PROVE Shape
    <2>1. Local \/ (Written /\ Writes)
      <3>1. cache' = cache /\ Writes
        BY <1>29 DEF AddForeign, live, worker, budget, Edit, Writes, Users
      <3> QED BY <1>29, <3>1, WriteShape DEF AddForeign
    <2>2. Rests
      BY <1>29 DEF AddForeign, live, worker, budget, Edit, Rests
    <2> QED BY <2>1, <2>2
  <1>30. ASSUME NEW f \in Foreign, RemoveForeign(f) PROVE Shape
    <2>1. Local \/ (Written /\ Writes)
      <3>1. cache' = cache /\ Writes
        BY <1>30 DEF RemoveForeign, live, worker, budget, Edit, Writes, Users
      <3> QED BY <1>30, <3>1, WriteShape DEF RemoveForeign
    <2>2. Rests
      BY <1>30 DEF RemoveForeign, live, worker, budget, Edit, Rests
    <2> QED BY <2>1, <2>2
  <1>31. CASE ForceRelease
    <2>1. Local \/ (Written /\ Writes)
      <3>1. cache' = cache /\ Writes
        BY <1>31 DEF ForceRelease, live, worker, budget, Edit, Writes, Users
      <3> QED BY <1>31, <3>1, WriteShape DEF ForceRelease
    <2>2. Rests
      BY <1>31 DEF ForceRelease, live, worker, budget, Edit, Rests
    <2> QED BY <2>1, <2>2
  <1>32. CASE CallFails
    <2>1. Local
      BY <1>32, <1>0 DEF CallFails, live, worker, budget, Fault, Local, Copies
    <2>2. PassOn \/ Ends
      BY <1>32 DEF CallFails, live, worker, budget, Fault, PassOn, Ends, Guarding, Finalizing, Syncing, Reporting, Done, GiveUp
    <2> QED BY <2>1, <2>2
  <1>33. CASE Crash
    <2>1. Restarted
      BY <1>33 DEF Crash, live, worker, budget, Fault, Restarted
    <2>2. Ends
      BY <1>33 DEF Crash, live, worker, budget, Fault, Ends
    <2> QED BY <2>1, <2>2
  <1>34. ASSUME NEW r \in Roles, ToggleRole(r) PROVE Shape
    <2>1. Local
      BY <1>34, <1>0 DEF ToggleRole, live, worker, budget, Fault, Elsewhere, Local, Copies
    <2>2. Rests
      BY <1>34 DEF ToggleRole, live, worker, budget, Fault, Elsewhere, Rests
    <2> QED BY <2>1, <2>2
  <1>35. ASSUME NEW k \in BindingKeys, DriftBinding(k) PROVE Shape
    <2>1. Local
      BY <1>35, <1>0 DEF DriftBinding, live, worker, budget, Fault, Elsewhere, Local, Copies
    <2>2. Rests
      BY <1>35 DEF DriftBinding, live, worker, budget, Fault, Elsewhere, Rests
    <2> QED BY <2>1, <2>2
  <1>36. ASSUME NEW k \in BindingKeys, RelabelBinding(k) PROVE Shape
    <2>1. Local
      BY <1>36, <1>0 DEF RelabelBinding, live, worker, budget, Fault, Elsewhere, Local, Copies
    <2>2. Rests
      BY <1>36 DEF RelabelBinding, live, worker, budget, Fault, Elsewhere, Rests
    <2> QED BY <2>1, <2>2
  <1>37. ASSUME NEW k \in BindingKeys, HoldBinding(k) PROVE Shape
    <2>1. Local
      BY <1>37, <1>0 DEF HoldBinding, live, worker, budget, Fault, Elsewhere, Local, Copies
    <2>2. Rests
      BY <1>37 DEF HoldBinding, live, worker, budget, Fault, Elsewhere, Rests
    <2> QED BY <2>1, <2>2
  <1>38. ASSUME NEW q \in QuotaNames, DriftQuota(q) PROVE Shape
    <2>1. Local
      BY <1>38, <1>0 DEF DriftQuota, live, worker, budget, Fault, Elsewhere, Local, Copies
    <2>2. Rests
      BY <1>38 DEF DriftQuota, live, worker, budget, Fault, Elsewhere, Rests
    <2> QED BY <2>1, <2>2
  <1>39. CASE DeleteNamespace
    <2>1. Local
      BY <1>39, <1>0 DEF DeleteNamespace, live, worker, budget, Fault, Elsewhere, Local, Copies
    <2>2. Rests
      BY <1>39 DEF DeleteNamespace, live, worker, budget, Fault, Elsewhere, Rests
    <2> QED BY <2>1, <2>2
  <1>40. CASE ChangeMetadata
    <2>1. Local
      BY <1>40, <1>0 DEF ChangeMetadata, live, worker, budget, Fault, Elsewhere, Local, Copies
    <2>2. Rests
      BY <1>40 DEF ChangeMetadata, live, worker, budget, Fault, Elsewhere, Rests
    <2> QED BY <2>1, <2>2
  <1>41. CASE CorruptInventory
    <2>1. Local
      BY <1>41, <1>0 DEF CorruptInventory, live, worker, budget, Fault, Elsewhere, Local, Copies
    <2>2. Rests
      BY <1>41 DEF CorruptInventory, live, worker, budget, Fault, Elsewhere, Rests
    <2> QED BY <2>1, <2>2
  <1>42. CASE UNCHANGED vars
    BY <1>42 DEF vars, worker, Local, Rests
  <1> QED
    BY <1>1, <1>2, <1>3, <1>4, <1>5, <1>6, <1>7, <1>8, <1>9, <1>10, <1>11, <1>12, <1>13, <1>14, <1>15, <1>16, <1>17, <1>18, <1>19, <1>20, <1>21, <1>22, <1>23, <1>24, <1>25, <1>26, <1>27, <1>28, <1>29, <1>30, <1>31, <1>32, <1>33, <1>34, <1>35, <1>36, <1>37, <1>38, <1>39, <1>40, <1>41, <1>42
    DEF Next, Worker, Deliver, Users, Others

-----------------------------------------------------------------------------
(* Versions *)

\* resourceVersions are numbers, to be compared.
LEMMA Reads == TypeOK => /\ owner.rv \in Nat /\ cache.owner.rv \in Nat /\ mns.rv \in Nat
                         /\ \A w \in watch : w.rv \in Nat
PROOF
  <1> SUFFICES ASSUME TypeOK
               PROVE  /\ owner.rv \in Nat /\ cache.owner.rv \in Nat /\ mns.rv \in Nat
                      /\ \A w \in watch : w.rv \in Nat
    OBVIOUS
  <1>1. /\ owner \in OwnerVersion /\ mns \in OwnerVersion /\ watch \subseteq OwnerVersion
        /\ cache \in Copies
    BY DEF TypeOK
  <1> QED BY <1>1 DEF OwnerVersion, Copies

\* Each step keeps the versions in order.
LEMMA VersionsStep ==
  ASSUME TypeOK, TypeOK', Versions, [Next]_vars
  PROVE  Versions'
PROOF
  <1>1. /\ Local \/ (Written /\ Writes) \/ Delivered \/ Restarted
        /\ Reconcile \/ PassOn \/ Ends \/ Rests
    BY Steps
  <1>2. /\ owner.rv \in Nat /\ cache.owner.rv \in Nat /\ mns.rv \in Nat
        /\ \A w \in watch : w.rv \in Nat
    BY Reads
  <1>3. Current'
    <2>1. CASE Local
      BY <2>1 DEF Local, Versions, Current
    <2>2. CASE Written /\ Writes
      BY <2>2, <1>2 DEF Written, Versions, Current
    <2>3. CASE Delivered
      BY <2>3, <1>2 DEF Delivered, Versions, Current
    <2>4. CASE Restarted
      BY <2>4, <1>2 DEF Restarted, Current
    <2> QED BY <1>1, <2>1, <2>2, <2>3, <2>4
  <1>4. /\ cache.owner.rv <= cache'.owner.rv
        /\ cache'.owner.rv = cache.owner.rv => cache'.owner = cache.owner
    BY <1>1, <1>2 DEF Local, Written, Delivered, Restarted, Versions, Current
  <1>5. cache'.owner.rv \in Nat
    BY <1>1, <1>2 DEF Local, Written, Delivered, Restarted
  <1>6. Read'
    <2>1. CASE Reconcile
      BY <2>1, <1>5 DEF Reconcile, FirstStep, Read
    <2>2. CASE PassOn
      BY <2>2, <1>2, <1>4, <1>5 DEF PassOn, Versions, Read
    <2>3. CASE Ends
      BY <2>3 DEF Ends, Read
    <2>4. CASE Rests
      BY <2>4, <1>2, <1>4, <1>5 DEF Rests, Versions, Read
    <2> QED BY <1>1, <2>1, <2>2, <2>3, <2>4
  <1> QED BY <1>3, <1>6 DEF Versions

\* At the start there is one version, everywhere.
LEMMA VersionsInit == Init => Versions
PROOF
  <1> SUFFICES ASSUME Init PROVE Versions
    OBVIOUS
  <1>1. owner = NoOwner /\ cache.owner = owner /\ watch = {} /\ pc = "idle"
    BY DEF Init
  <1>2. owner.rv = 0
    BY <1>1 DEF NoOwner
  <1> QED BY <1>1, <1>2 DEF Versions, Current, Read

\* The object a pass works on is identified by its resourceVersion, however many
\* versions, deletions and recreations the cache is behind.
THEOREM VersionsCorrect == Spec => []Versions
PROOF
  <1>1. Init => TypeOK /\ Versions
    BY TypeInit, VersionsInit
  <1>2. TypeOK /\ Versions /\ [Next]_vars => (TypeOK /\ Versions)'
    BY TypeStep, VersionsStep
  <1> QED BY <1>1, <1>2, PTL DEF Spec

-----------------------------------------------------------------------------
(* The optimistic lock *)

\* The optimistic lock: a finalizer patch that is accepted finds the owner as the
\* pass read it, and no newer version of it is on its way.
LEMMA Locked ==
  ASSUME TypeOK, Versions, pc # "idle", PatchAccepted
  PROVE  mns = owner /\ cache.owner = owner /\ watch = {}
PROOF
  <1>1. /\ owner.rv \in Nat /\ cache.owner.rv \in Nat
        /\ \A w \in watch : w.rv \in Nat
    BY Reads
  <1>2. mns.rv = owner.rv
    BY DEF PatchAccepted
  <1>3. cache.owner.rv = owner.rv
    BY <1>1, <1>2 DEF Versions, Current, Read
  <1> QED BY <1>1, <1>2, <1>3 DEF Versions, Current, Read

\* What a write of finalizers changes.
LEMMA FinalizersWritten ==
  ASSUME TypeOK, TypeOK', NEW fs, WriteOwner(WithFinalizers(fs)), cache' = cache,
         owner' # owner
  PROVE  /\ owner'.finalizers = fs /\ owner'.generation = owner.generation
         /\ owner'.present = ~(owner.deleting /\ fs = {})
PROOF
  <1>1. owner' = [WithFinalizers(fs) EXCEPT !.rv = owner'.rv]
    BY WriteShape
  <1>2. owner \in OwnerVersion
    BY DEF TypeOK
  <1> QED BY <1>1, <1>2 DEF WithFinalizers, OwnerVersion

\* A patch of Release or Adopt takes away or adds our finalizer and no other.
LEMMA PatchWritten ==
  ASSUME TypeOK, TypeOK', Versions, Release \/ Adopt, owner' # owner
  PROVE  /\ PatchAccepted /\ mns = owner
         /\ \/ Release /\ owner'.finalizers = owner.finalizers \ {Finalizer}
            \/ /\ Adopt /\ owner'.finalizers = owner.finalizers \union {Finalizer}
               /\ owner'.present /\ owner'.generation = owner.generation
PROOF
  <1>1. PatchAccepted /\ pc # "idle" /\ cache' = cache
    BY DEF Release, Adopt
  <1>2. mns = owner
    BY <1>1, Locked
  <1>3. CASE Release
    <2>1. WriteOwner(WithFinalizers(mns.finalizers \ {Finalizer}))
      BY <1>1, <1>3 DEF Release
    <2> QED BY <1>1, <1>2, <1>3, <2>1, FinalizersWritten
  <1>4. CASE Adopt
    <2>1. WriteOwner(WithFinalizers(mns.finalizers \union {Finalizer}))
      BY <1>1, <1>4 DEF Adopt
    <2> QED BY <1>1, <1>2, <1>4, <2>1, FinalizersWritten
  <1> QED BY <1>3, <1>4

\* A status patch leaves finalizers, presence and generation alone.
LEMMA StatusWritten ==
  ASSUME TypeOK, TypeOK', ReportStatus
  PROVE  /\ owner'.finalizers = owner.finalizers /\ owner'.present = owner.present
         /\ owner'.generation = owner.generation /\ owner'.deleting = owner.deleting
PROOF
  <1>1. cache' = cache
    BY DEF ReportStatus
  <1>2. owner \in OwnerVersion
    BY DEF TypeOK
  <1>3. CASE owner' # owner
    <2>1. PICK status : WriteOwner([owner EXCEPT !.status = status])
      BY <1>3 DEF ReportStatus
    <2>2. owner' = [[owner EXCEPT !.status = status] EXCEPT !.rv = owner'.rv]
      BY <1>1, <1>3, <2>1, WriteShape
    <2> QED BY <1>2, <2>2 DEF OwnerVersion
  <1> QED BY <1>3

\* What users do counts against their bound, so it is not the controller's.
LEMMA UsersSpend == ASSUME TypeOK, Users PROVE ~ByController
PROOF
  <1>1. edits' = edits + 1
    BY DEF Users, CreateOwner, EditOwner, DeleteOwner, AddForeign, RemoveForeign, ForceRelease, Edit
  <1>2. edits \in Int
    BY NamesAssumption DEF TypeOK
  <1> QED BY <1>1, <1>2 DEF ByController, budget

\* No step but the users' changes a foreign finalizer.
LEMMA ForeignKeptStep ==
  ASSUME TypeOK, TypeOK', Versions, [Next]_vars, ByController
  PROVE  owner'.finalizers \ {Finalizer} = owner.finalizers \ {Finalizer}
PROOF
  <1>1. owner' = owner \/ Release \/ Adopt \/ ReportStatus
    BY Steps, UsersSpend DEF Local, Delivered, Restarted, Writes
  <1>2. CASE owner' # owner /\ (Release \/ Adopt)
    BY <1>2, PatchWritten
  <1>3. CASE ReportStatus
    BY <1>3, StatusWritten
  <1> QED BY <1>1, <1>2, <1>3

\* The finalizer patches are made from a copy that may be old, and replace the
\* whole list: with the optimistic lock they neither drop nor restore a
\* finalizer that another controller set or removed.
THEOREM ForeignKept == Spec => ForeignFinalizersKept
PROOF
  <1>1. Init => TypeOK /\ Versions
    BY TypeInit, VersionsInit
  <1>2. TypeOK /\ Versions /\ [Next]_vars => (TypeOK /\ Versions)'
    BY TypeStep, VersionsStep
  <1>3. TypeOK /\ TypeOK' /\ Versions /\ [Next]_vars =>
          [ByController => owner'.finalizers \ {Finalizer} = owner.finalizers \ {Finalizer}]_vars
    BY ForeignKeptStep
  <1> QED BY <1>1, <1>2, <1>3, PTL DEF Spec, ForeignFinalizersKept

-----------------------------------------------------------------------------
(* Grants and their guard, when nobody removes our finalizer by force or puts *)
(* the owner labels on a binding that is not ours, now or earlier             *)

Gentle ==
  /\ {"force", "relabel"} \intersect Disturbances = {}
  /\ \A k \in Leftovers : k.namespace # Owner

Held(o) == o.present /\ Finalizer \in o.finalizers
Guard ==
  /\ \A v \in {cache.owner} \union watch :
       Held(v) /\ ~v.deleting => Held(owner) /\ v.generation <= owner.generation
  /\ pc \in Finalizing => mns.deleting
  /\ pc = "adopt" => ~mns.deleting
  /\ pc = "release" => Granted = {}
  /\ pc \in Guarding => Held(owner) /\ mns.generation <= owner.generation
  /\ ~Held(owner) => Granted = {}

\* What users do leaves a held owner held, and its generation grows.
LEMMA UsersLast ==
  ASSUME TypeOK, TypeOK', Gentle, Users, Held(owner)
  PROVE  Held(owner') /\ owner.generation <= owner'.generation
PROOF
  <1> DEFINE Lasts == Held(owner') /\ owner.generation <= owner'.generation
  <1>1. owner \in OwnerVersion /\ owner.generation \in Nat
    BY DEF TypeOK, OwnerVersion
  <1>2. CASE owner' = owner
    BY <1>1, <1>2 DEF Held
  <1>3. cache' = cache
    BY DEF Users, CreateOwner, EditOwner, DeleteOwner, AddForeign, RemoveForeign,
           ForceRelease, Edit
  <1>4. ASSUME NEW s \in Specs, CreateOwner(s) PROVE Lasts
    BY <1>4 DEF CreateOwner, Held
  <1>5. ASSUME NEW s \in Specs, EditOwner(s), owner' # owner PROVE Lasts
    <2>1. owner' = [[owner EXCEPT !.spec = s, !.generation = @ + 1] EXCEPT !.rv = owner'.rv]
      BY <1>3, <1>5, WriteShape DEF EditOwner, Edited
    <2>2. /\ owner'.present = owner.present /\ owner'.finalizers = owner.finalizers
          /\ owner'.generation = owner.generation + 1
      BY <1>1, <2>1 DEF OwnerVersion
    <2> QED BY <1>1, <2>2 DEF Held
  <1>6. CASE DeleteOwner /\ owner' # owner
    <2>1. owner.finalizers # {}
      BY DEF Held
    <2>2. owner' = [[owner EXCEPT !.deleting = TRUE, !.generation = @ + 1] EXCEPT !.rv = owner'.rv]
      BY <1>3, <1>6, <2>1, WriteShape DEF DeleteOwner, Condemned
    <2>3. /\ owner'.present = owner.present /\ owner'.finalizers = owner.finalizers
          /\ owner'.generation = owner.generation + 1
      BY <1>1, <2>2 DEF OwnerVersion
    <2> QED BY <1>1, <2>3 DEF Held
  <1>7. ASSUME NEW f \in Foreign, AddForeign(f), owner' # owner PROVE Lasts
    <2>1. /\ owner'.finalizers = owner.finalizers \union {f}
          /\ owner'.generation = owner.generation /\ owner'.present
      BY <1>3, <1>7, FinalizersWritten DEF AddForeign
    <2> QED BY <1>1, <2>1 DEF Held
  <1>8. ASSUME NEW f \in Foreign, RemoveForeign(f), owner' # owner PROVE Lasts
    <2>1. Finalizer \in owner.finalizers \ {f}
      BY NamesAssumption DEF Held
    <2>2. /\ owner'.finalizers = owner.finalizers \ {f}
          /\ owner'.generation = owner.generation /\ owner'.present
      BY <1>3, <1>8, <2>1, FinalizersWritten DEF RemoveForeign
    <2> QED BY <1>1, <2>1, <2>2 DEF Held
  <1>9. ~ForceRelease
    BY DEF Gentle, ForceRelease, Edit
  <1> QED BY <1>2, <1>4, <1>5, <1>6, <1>7, <1>8, <1>9 DEF Users

\* Only the release of the finalizer ends the hold on an owner.
LEMMA HoldLasts ==
  ASSUME TypeOK, TypeOK', Versions, Gentle, [Next]_vars, Held(owner)
  PROVE  \/ Held(owner') /\ owner.generation <= owner'.generation
         \/ Release /\ PatchAccepted
PROOF
  <1>1. owner.generation \in Nat
    BY DEF TypeOK, OwnerVersion
  <1>2. CASE owner' = owner
    BY <1>1, <1>2 DEF Held
  <1>3. CASE (Release \/ Adopt) /\ owner' # owner
    BY <1>1, <1>3, PatchWritten DEF Held
  <1>4. CASE ReportStatus
    <2>1. owner'.generation = owner.generation /\ owner'.finalizers = owner.finalizers
      BY <1>4, StatusWritten
    <2>2. owner'.present
      BY <1>4, StatusWritten DEF Held
    <2> QED BY <1>1, <2>1, <2>2 DEF Held
  <1>5. CASE Users
    BY <1>5, UsersLast
  <1> QED BY <1>2, <1>3, <1>4, <1>5, Steps DEF Local, Delivered, Restarted, Writes

\* A binding that is changed stays ours only if it was.
LEMMA ChangedBinding ==
  ASSUME TypeOK, NEW k \in BindingKeys, NEW b,
         bindings' = [bindings EXCEPT ![k] = b], IsOwned(b) => IsOwned(bindings[k])
  PROVE  Granted' \subseteq Granted
PROOF
  <1>1. \A j \in BindingKeys : bindings'[j] = IF j = k THEN b ELSE bindings[j]
    BY DEF TypeOK
  <1> QED BY <1>1 DEF Granted

\* Deletion gives nobody a grant.
LEMMA DeletedOwned ==
  ASSUME NEW b \in Binding \union {Absent}, IsOwned(Deleted(b))
  PROVE  IsOwned(b)
  BY DEF IsOwned, Deleted, Binding

\* Grants come only from EnsureBinding.
LEMMA GrantsShrink ==
  ASSUME TypeOK, Gentle, [Next]_vars
  PROVE  Granted' \subseteq Granted \/ EnsureBinding
PROOF
  <1> DEFINE Shrinks == Granted' \subseteq Granted
  <1>1. \A k \in BindingKeys : bindings[k] \in Binding \union {Absent}
    BY DEF TypeOK
  <1>2. CASE UNCHANGED bindings
    BY <1>2 DEF Granted
  <1>3. ASSUME NEW k \in BindingKeys, bindings' = [bindings EXCEPT ![k] = Deleted(@)]
        PROVE  Shrinks
    BY <1>1, <1>3, DeletedOwned, ChangedBinding
  <1>4. CASE DeleteBinding
    <2>1. doomed \subseteq BindingKeys
      BY <1>4 DEF DeleteBinding, TypeOK
    <2> QED BY <1>3, <1>4, <2>1 DEF DeleteBinding
  <1>5. CASE ReplaceBinding
    <2>1. PICK p \in todo :
            \/ bindings' = [bindings EXCEPT ![KeyAt(mns.spec, p)] = Deleted(@)]
            \/ UNCHANGED bindings
      BY <1>5 DEF ReplaceBinding
    <2>2. p \in Positions(mns.spec) /\ mns.spec \in Specs
      BY <1>5 DEF ReplaceBinding, TypeOK, OwnerVersion
    <2> QED BY <1>2, <1>3, <2>1, <2>2, KeyTypes
  <1>6. CASE NamespaceController
    <2>1. \/ \E k \in InNamespace : bindings' = [bindings EXCEPT ![k] = Deleted(@)]
          \/ UNCHANGED bindings
      BY <1>6 DEF NamespaceController
    <2> QED BY <1>2, <1>3, <2>1 DEF InNamespace
  <1>7. ASSUME NEW k \in BindingKeys, LetGo(k) PROVE Shrinks
    <2> DEFINE b == IF bindings[k].deleting THEN Absent ELSE [bindings[k] EXCEPT !.held = FALSE]
    <2>1. bindings' = [bindings EXCEPT ![k] = b]
      BY <1>7 DEF LetGo
    <2>2. IsOwned(b) => IsOwned(bindings[k])
      BY <1>1, <1>7 DEF LetGo, IsOwned, Binding
    <2> HIDE DEF b
    <2> QED BY <2>1, <2>2, ChangedBinding
  <1>8. ASSUME NEW k \in BindingKeys, DriftBinding(k) PROVE Shrinks
    <2>1. CASE bindings' = [bindings EXCEPT ![k] = Deleted(@)]
      BY <1>3, <2>1
    <2>2. CASE bindings[k] # Absent /\ bindings' = [bindings EXCEPT ![k].subjects = Outsiders]
      <3>1. IsOwned([bindings[k] EXCEPT !.subjects = Outsiders]) => IsOwned(bindings[k])
        BY <1>1, <2>2 DEF IsOwned, Binding
      <3> QED BY <2>2, <3>1, ChangedBinding
    <2>3. CASE bindings[k] # Absent /\ bindings' = [bindings EXCEPT ![k].owned = FALSE]
      <3>1. ~IsOwned([bindings[k] EXCEPT !.owned = FALSE])
        BY <1>1, <2>3 DEF IsOwned, Binding
      <3> QED BY <2>3, <3>1, ChangedBinding
    <2>4. CASE \E r \in Roles : bindings' = [bindings EXCEPT ![k] = [NewBinding EXCEPT !.role = r]]
      <3>1. \A r \in Roles : ~IsOwned([NewBinding EXCEPT !.role = r])
        BY DEF IsOwned, NewBinding
      <3> QED BY <2>4, <3>1, ChangedBinding
    <2> QED BY <1>8, <2>1, <2>2, <2>3, <2>4 DEF DriftBinding
  <1>9. ASSUME NEW k \in BindingKeys, HoldBinding(k) PROVE Shrinks
    <2>1. IsOwned([bindings[k] EXCEPT !.held = TRUE]) => IsOwned(bindings[k])
      BY <1>1, <1>9 DEF HoldBinding, IsOwned, Binding
    <2>2. bindings' = [bindings EXCEPT ![k] = [bindings[k] EXCEPT !.held = TRUE]]
      BY <1>9 DEF HoldBinding
    <2> QED BY <2>1, <2>2, ChangedBinding
  <1>10. \A k \in BindingKeys : ~RelabelBinding(k)
    BY DEF Gentle, RelabelBinding, Fault
  <1>11. CASE Worker
    BY <1>2, <1>4, <1>5, <1>11
    DEF Worker, live, Reconcile, Finalize, Unbound, Release, Adopt, Prune, EnsureNamespace,
        EnsureQuota, PruneQuotas, DeleteQuota, ReconcileBindings, MissingRole,
        PruneUnresolved, ReportStatus
  <1>12. CASE Deliver
    BY <1>2, <1>12
    DEF Deliver, live, DeliverOwner, Resync, DeliverNamespace, DeliverQuota,
        DeliverBinding, DeliverRole
  <1>13. CASE Users
    BY <1>2, <1>13
    DEF Users, Edit, live, CreateOwner, EditOwner, DeleteOwner, AddForeign, RemoveForeign,
        ForceRelease
  <1>14. CASE Others
    BY <1>2, <1>8, <1>9, <1>10, <1>14
    DEF Others, Fault, live, CallFails, Crash, ToggleRole, DriftQuota, DeleteNamespace,
        ChangeMetadata, CorruptInventory
  <1>15. CASE UNCHANGED vars
    BY <1>2, <1>15 DEF vars, live
  <1> QED BY <1>6, <1>7, <1>11, <1>12, <1>13, <1>14, <1>15 DEF Next

-----------------------------------------------------------------------------
(* The guard is inductive *)

\* Nothing is granted or held at the start.
LEMMA GuardInit == Gentle /\ Init => Guard
PROOF
  <1> SUFFICES ASSUME Gentle, Init PROVE Guard
    OBVIOUS
  <1>1. owner = NoOwner /\ cache.owner = owner /\ watch = {}
    BY DEF Init
  <1>2. ~Held(owner)
    BY <1>1 DEF NoOwner, Held
  <1>3. Granted = {}
    BY AbsentAssumption DEF Init, Granted, IsOwned, Gentle
  <1> QED BY <1>1, <1>2, <1>3 DEF Init, Guard, Finalizing, Guarding, Syncing

\* Every step keeps the guard: a grant comes only from a pass that is guarded,
\* and the hold goes only with a pass that saw no grant left.
LEMMA GuardStep ==
  ASSUME TypeOK, TypeOK', Versions, Gentle, Guard, [Next]_vars
  PROVE  Guard'
PROOF
  <1>1. /\ Local \/ (Written /\ Writes) \/ Delivered \/ Restarted
        /\ Reconcile \/ PassOn \/ Ends \/ Rests
    BY Steps
  <1>2. /\ owner'.generation \in Nat /\ owner.generation \in Nat /\ mns.generation \in Nat
        /\ \A v \in {cache.owner} \union watch : v.generation \in Nat
    BY DEF TypeOK, OwnerVersion, Copies
  <1>3. ASSUME Release, PatchAccepted
        PROVE  /\ Granted = {} /\ pc = "release"
               /\ \A v \in {cache.owner} \union watch : v.deleting
    <2>1. pc = "release"
      BY <1>3 DEF Release
    <2>2. mns = owner /\ cache.owner = owner /\ watch = {}
      BY <1>3, <2>1, Locked
    <2> QED BY <2>1, <2>2 DEF Guard, Finalizing
  <1>4. ASSUME NEW v \in {cache'.owner} \union watch', Held(v), ~v.deleting
        PROVE  Held(owner') /\ v.generation <= owner'.generation
    <2>1. v = owner' \/ v \in {cache.owner} \union watch
      BY <1>1 DEF Local, Written, Delivered, Restarted
    <2>2. CASE v = owner'
      BY <1>2, <1>4, <2>2
    <2>3. CASE v \in {cache.owner} \union watch
      <3>1. Held(owner) /\ v.generation <= owner.generation
        BY <1>4, <2>3 DEF Guard
      <3>2. Held(owner') /\ owner.generation <= owner'.generation
        BY <1>3, <1>4, <2>3, <3>1, HoldLasts
      <3> QED BY <1>2, <2>3, <3>1, <3>2
    <2> QED BY <2>1, <2>2, <2>3
  <1>5. pc' \in Finalizing => mns'.deleting
    <2>1. CASE Reconcile
      BY <2>1 DEF Reconcile, FirstStep, Finalizing
    <2>2. CASE PassOn
      BY <2>2 DEF PassOn, Guard
    <2>3. CASE Ends
      BY <2>3 DEF Ends, Finalizing
    <2>4. CASE Rests
      BY <2>4 DEF Rests, Guard
    <2> QED BY <1>1, <2>1, <2>2, <2>3, <2>4
  <1>6. ASSUME pc' = "release" PROVE Granted' = {}
    <2>1. CASE pc = "release"
      <3>1. ~EnsureBinding
        BY <2>1 DEF EnsureBinding
      <3> QED BY <2>1, <3>1, GrantsShrink DEF Guard
    <2>2. CASE Finalize
      <3>1. OwnedBindings(bindings) = {} /\ UNCHANGED bindings
        BY <1>6, <2>2 DEF Finalize, FinalizerList, live
      <3> QED BY <3>1 DEF Granted, OwnedBindings
    <2>3. ~Reconcile /\ ~Ends
      BY <1>6 DEF Reconcile, FirstStep, Ends
    <2> QED BY <1>1, <1>6, <2>1, <2>2, <2>3 DEF PassOn, Rests
  <1>7. ASSUME pc' \in Guarding PROVE Held(owner') /\ mns'.generation <= owner'.generation
    <2>1. CASE Reconcile
      <3>1. mns' = cache.owner /\ Held(cache.owner) /\ ~cache.owner.deleting
        BY <1>7, <2>1 DEF Reconcile, FirstStep, Held, Guarding, Syncing
      <3>2. cache'.owner = cache.owner
        BY <2>1 DEF Reconcile
      <3> QED BY <1>4, <3>1, <3>2
    <2>2. CASE pc \in Guarding /\ mns' = mns
      <3>1. Held(owner) /\ mns.generation <= owner.generation /\ pc # "release"
        BY <2>2 DEF Guard, Guarding, Syncing
      <3>2. Held(owner') /\ owner.generation <= owner'.generation
        BY <1>3, <3>1, HoldLasts
      <3> QED BY <1>2, <2>2, <3>1, <3>2
    <2>3. ~Ends
      BY <1>7 DEF Ends, Guarding, Syncing
    <2> QED BY <1>1, <1>7, <2>1, <2>2, <2>3 DEF PassOn, Rests
  <1>8. ASSUME ~Held(owner') PROVE Granted' = {}
    <2>1. Granted = {}
      BY <1>3, <1>8, HoldLasts DEF Guard
    <2>2. ~EnsureBinding
      <3>1. CASE Held(owner)
        BY <1>3, <1>8, <3>1, HoldLasts DEF EnsureBinding
      <3>2. CASE ~Held(owner)
        BY <3>2 DEF EnsureBinding, Guard, Guarding, Syncing
      <3> QED BY <3>1, <3>2
    <2> QED BY <2>1, <2>2, GrantsShrink
  <1>9. ASSUME pc' = "adopt" PROVE ~mns'.deleting
    <2>1. CASE Reconcile
      BY <1>9, <2>1 DEF Reconcile, FirstStep
    <2>2. CASE Rests
      BY <1>9, <2>2 DEF Rests, Guard
    <2> QED BY <1>1, <1>9, <2>1, <2>2 DEF PassOn, Ends
  <1> QED BY <1>4, <1>5, <1>6, <1>7, <1>8, <1>9 DEF Guard

\* The guard is enough.
LEMMA GuardImplies == TypeOK /\ Versions /\ Guard => NoOrphanedGrant /\ GuardedPass
PROOF
  <1> SUFFICES ASSUME TypeOK, Versions, Guard PROVE NoOrphanedGrant /\ GuardedPass
    OBVIOUS
  <1>1. NoOrphanedGrant
    BY DEF NoOrphanedGrant, Guard, Held
  <1>2. ASSUME pc \in Guarding PROVE mns.rv <= owner.rv
    <2>1. mns.rv <= cache.owner.rv /\ cache.owner.rv <= owner.rv
      BY <1>2 DEF Versions, Current, Read, Guarding, Syncing
    <2> QED BY <2>1, Reads
  <1>3. GuardedPass
    BY <1>2 DEF GuardedPass, Guard, Guarding, Held
  <1> QED BY <1>1, <1>3

\* All that the theorems about grants rest on.
LEMMA GuardInvariant ==
  ASSUME Gentle
  PROVE  Spec => [](TypeOK /\ Versions /\ Guard)
PROOF
  <1>1. Init => TypeOK /\ Versions /\ Guard
    BY TypeInit, VersionsInit, GuardInit
  <1>2. TypeOK /\ Versions /\ Guard /\ [Next]_vars => (TypeOK /\ Versions /\ Guard)'
    BY TypeStep, VersionsStep, GuardStep
  <1> QED BY <1>1, <1>2, PTL DEF Spec

\* Unless our finalizer is removed by force, or the owner labels are put on a
\* foreign binding, no grant is ever left without an owner that will remove it.
THEOREM NothingOrphaned ==
  ASSUME Gentle
  PROVE  Spec => []NoOrphanedGrant
  BY GuardInvariant, GuardImplies, PTL

\* A pass works on a copy that may be long out of date: it syncs for the live
\* object all the same, and that object is held, so what the pass grants will be
\* found by the deletion to come (managednamespace.go:45-73).
THEOREM PassesGuarded ==
  ASSUME Gentle
  PROVE  Spec => []GuardedPass
  BY GuardInvariant, GuardImplies, PTL
-----------------------------------------------------------------------------
(* The refinement of GrantLifecycle: the finalizer is the hold, the bindings of
   the namespace with the owner's labels are the grants, and each step is a step
   of the lifecycle or none. *)

\* No step changes more than one binding, and none that writes to the owner
\* changes any.
LEMMA OneBinding ==
  ASSUME TypeOK, [Next]_vars
  PROVE  \/ UNCHANGED bindings
         \/ owner' = owner /\ \E k \in BindingKeys : \E b : bindings' = [bindings EXCEPT ![k] = b]
PROOF
  <1> DEFINE One == \E k \in BindingKeys : \E b : bindings' = [bindings EXCEPT ![k] = b]
             Goal == UNCHANGED bindings \/ (owner' = owner /\ One)
  <1>1. CASE DeleteBinding
    <2>1. doomed \subseteq BindingKeys
      BY <1>1 DEF DeleteBinding, TypeOK
    <2> QED BY <1>1, <2>1 DEF DeleteBinding
  <1>2. ASSUME pc \in {"bindings", "ensure"}
        PROVE  \A p \in todo : KeyAt(mns.spec, p) \in BindingKeys
    <2>1. todo \subseteq Positions(mns.spec) /\ mns.spec \in Specs
      BY <1>2 DEF TypeOK, OwnerVersion
    <2> QED BY <2>1, KeyTypes
  <1>3. CASE ReplaceBinding
    BY <1>2, <1>3 DEF ReplaceBinding
  <1>4. CASE EnsureBinding
    BY <1>2, <1>4 DEF EnsureBinding
  <1>5. CASE NamespaceController
    BY <1>5 DEF NamespaceController, InNamespace
  <1>6. ASSUME NEW k \in BindingKeys, LetGo(k) PROVE Goal
    BY <1>6 DEF LetGo
  <1>7. ASSUME NEW k \in BindingKeys, DriftBinding(k) \/ RelabelBinding(k) \/ HoldBinding(k)
        PROVE  Goal
    <2>1. owner' = owner
      BY <1>7 DEF DriftBinding, RelabelBinding, HoldBinding, Fault
    <2>2. One
      BY <1>7 DEF DriftBinding, RelabelBinding, HoldBinding
    <2> QED BY <2>1, <2>2
  <1>8. CASE Worker
    BY <1>1, <1>3, <1>4, <1>8
    DEF Worker, live, Reconcile, Finalize, Unbound, Release, Adopt, Prune, EnsureNamespace,
        EnsureQuota, PruneQuotas, DeleteQuota, ReconcileBindings, MissingRole,
        PruneUnresolved, ReportStatus
  <1>9. CASE Deliver
    BY <1>9 DEF Deliver, live, DeliverOwner, Resync, DeliverNamespace, DeliverQuota,
                DeliverBinding, DeliverRole
  <1>10. CASE Users
    BY <1>10 DEF Users, Edit, live, CreateOwner, EditOwner, DeleteOwner, AddForeign,
                 RemoveForeign, ForceRelease
  <1>11. CASE Others
    BY <1>7, <1>11
    DEF Others, live, CallFails, Crash, ToggleRole, DriftQuota, DeleteNamespace,
        ChangeMetadata, CorruptInventory
  <1>12. CASE UNCHANGED vars
    BY <1>12 DEF vars, live
  <1> QED BY <1>5, <1>6, <1>8, <1>9, <1>10, <1>11, <1>12 DEF Next

\* So a step gives one grant, takes one, or leaves them alone.
LEMMA OneGrant ==
  ASSUME TypeOK, NEW k \in BindingKeys, NEW b, bindings' = [bindings EXCEPT ![k] = b]
  PROVE  \/ Granted' = Granted \union {k}
         \/ Granted' = Granted \ {k}
PROOF
  <1>1. \A j \in BindingKeys : bindings'[j] = IF j = k THEN b ELSE bindings[j]
    BY DEF TypeOK
  <1>2. CASE k.namespace = Owner /\ IsOwned(b)
    BY <1>1, <1>2 DEF Granted
  <1>3. CASE ~(k.namespace = Owner /\ IsOwned(b))
    BY <1>1, <1>3 DEF Granted
  <1> QED BY <1>2, <1>3

-----------------------------------------------------------------------------
(* The hold *)

\* What users do to the owner: only the deletion of a held one moves it.
LEMMA UsersPhase ==
  ASSUME TypeOK, TypeOK', Gentle, Users
  PROVE  Phase' = Phase \/ (Phase = "held" /\ Phase' = "ending")
PROOF
  <1> DEFINE Moves == Phase' = Phase \/ (Phase = "held" /\ Phase' = "ending")
  <1>1. owner \in OwnerVersion
    BY DEF TypeOK
  <1>2. CASE owner' = owner
    BY <1>2 DEF Phase
  <1>3. cache' = cache
    BY DEF Users, CreateOwner, EditOwner, DeleteOwner, AddForeign, RemoveForeign,
           ForceRelease, Edit
  <1>4. ASSUME NEW s \in Specs, CreateOwner(s), owner' # owner PROVE Moves
    <2>1. owner' = [Created(s) EXCEPT !.rv = owner'.rv]
      BY <1>3, <1>4, WriteShape DEF CreateOwner
    <2>2. owner'.finalizers = {}
      BY <2>1 DEF Created, NoOwner
    <2> QED BY <1>4, <2>2 DEF CreateOwner, Phase
  <1>5. ASSUME NEW s \in Specs, EditOwner(s), owner' # owner PROVE Moves
    <2>1. owner' = [Edited(s) EXCEPT !.rv = owner'.rv]
      BY <1>3, <1>5, WriteShape DEF EditOwner
    <2>2. /\ owner'.present = owner.present /\ owner'.finalizers = owner.finalizers
          /\ owner'.deleting = owner.deleting
      BY <1>1, <2>1 DEF Edited, OwnerVersion
    <2> QED BY <2>2 DEF Phase
  <1>6. CASE DeleteOwner /\ owner' # owner
    <2>1. owner' = [Condemned EXCEPT !.rv = owner'.rv]
      BY <1>3, <1>6, WriteShape DEF DeleteOwner
    <2>2. CASE owner.finalizers = {}
      <3>1. ~owner'.present
        BY <1>1, <2>1, <2>2 DEF Condemned, OwnerVersion
      <3> QED BY <2>2, <3>1 DEF Phase
    <2>3. CASE owner.finalizers # {}
      <3>1. /\ owner'.present = owner.present /\ owner'.finalizers = owner.finalizers
            /\ owner'.deleting
        BY <1>1, <2>1, <2>3 DEF Condemned, OwnerVersion
      <3> QED BY <1>6, <3>1 DEF Phase, DeleteOwner
    <2> QED BY <2>2, <2>3
  <1>7. ASSUME NEW f \in Foreign, NEW fs, fs \in {owner.finalizers \union {f}, owner.finalizers \ {f}},
               owner.present, WriteOwner(WithFinalizers(fs)), owner' # owner
        PROVE  Moves
    <2>1. owner' = [WithFinalizers(fs) EXCEPT !.rv = owner'.rv]
      BY <1>3, <1>7, WriteShape
    <2>2. /\ owner'.finalizers = fs /\ owner'.deleting = owner.deleting
          /\ owner'.present = ~(owner.deleting /\ fs = {})
      BY <1>1, <2>1 DEF WithFinalizers, OwnerVersion
    <2>3. Finalizer \in fs <=> Finalizer \in owner.finalizers
      BY <1>7, NamesAssumption
    <2> QED BY <1>7, <2>2, <2>3 DEF Phase
  <1>8. ASSUME NEW f \in Foreign, AddForeign(f) \/ RemoveForeign(f), owner' # owner PROVE Moves
    BY <1>7, <1>8 DEF AddForeign, RemoveForeign
  <1>9. ~ForceRelease
    BY DEF Gentle, ForceRelease, Edit
  <1> QED BY <1>2, <1>4, <1>5, <1>6, <1>8, <1>9 DEF Users

\* What any step does to the hold: an accepted patch of Adopt takes it, one of
\* Release ends that of a deleted owner, and no grant is left then.
LEMMA PhaseStep ==
  ASSUME TypeOK, TypeOK', Versions, Gentle, Guard, [Next]_vars
  PROVE  \/ Phase' = Phase
         \/ Phase = "free" /\ Phase' = "held"
         \/ Phase = "held" /\ Phase' = "ending"
         \/ Phase = "ending" /\ Phase' = "free" /\ Granted = {}
PROOF
  <1>1. owner' = owner \/ Release \/ Adopt \/ ReportStatus \/ Users
    BY Steps DEF Local, Delivered, Restarted, Writes
  <1>2. CASE owner' = owner
    BY <1>2 DEF Phase
  <1>3. owner \in OwnerVersion
    BY DEF TypeOK
  <1>4. CASE Release /\ owner' # owner
    <2>1. mns = owner /\ pc = "release"
      BY <1>4, PatchWritten DEF Release
    <2>2. owner.deleting /\ Granted = {}
      BY <2>1 DEF Guard, Finalizing
    <2>3. owner'.finalizers = owner.finalizers \ {Finalizer}
      BY <1>4, PatchWritten DEF Release, Adopt
    <2> QED BY <2>2, <2>3 DEF Phase
  <1>5. CASE Adopt /\ owner' # owner
    <2>1. mns = owner /\ pc = "adopt"
      BY <1>5, PatchWritten DEF Adopt
    <2>2. ~owner.deleting
      BY <2>1 DEF Guard
    <2>3. WriteOwner(WithFinalizers(owner.finalizers \union {Finalizer}))
      BY <1>5, <2>1 DEF Adopt
    <2>4. owner' = [WithFinalizers(owner.finalizers \union {Finalizer}) EXCEPT !.rv = owner'.rv]
      BY <1>5, <2>3, WriteShape DEF Adopt
    <2>5. /\ owner'.finalizers = owner.finalizers \union {Finalizer}
          /\ ~owner'.deleting /\ owner'.present
      BY <1>3, <2>2, <2>4 DEF WithFinalizers, OwnerVersion
    <2> QED BY <2>2, <2>5 DEF Phase
  <1>6. CASE ReportStatus
    BY <1>6, StatusWritten DEF Phase
  <1>7. CASE Users
    BY <1>7, UsersPhase
  <1> QED BY <1>1, <1>2, <1>4, <1>5, <1>6, <1>7

-----------------------------------------------------------------------------
(* The refinement *)

\* Every step is one of the lifecycle, or none.
LEMMA LifecycleStep ==
  ASSUME TypeOK, TypeOK', Versions, Gentle, Guard, [Next]_vars
  PROVE  [Promise!Next]_<<Phase, Granted>>
PROOF
  <1>1. CASE UNCHANGED bindings
    <2>1. Granted' = Granted
      BY <1>1 DEF Granted
    <2> QED BY <2>1, PhaseStep DEF Promise!Next, Promise!Take, Promise!Condemn, Promise!Release
  <1>2. ASSUME NEW k \in BindingKeys, NEW b,
               owner' = owner, bindings' = [bindings EXCEPT ![k] = b]
        PROVE  [Promise!Next]_<<Phase, Granted>>
    <2>1. Phase' = Phase
      BY <1>2 DEF Phase
    <2>2. CASE Granted' = Granted \ {k}
      BY <2>1, <2>2 DEF Promise!Next, Promise!Revoke
    <2>3. CASE Granted' = Granted \union {k}
      <3>1. CASE Granted' \subseteq Granted
        <4>1. Granted' = Granted
          BY <2>3, <3>1
        <4> QED BY <2>1, <4>1
      <3>2. CASE EnsureBinding
        <4>1. Held(owner)
          BY <3>2 DEF EnsureBinding, Guard, Guarding, Syncing
        <4>2. Phase \in {"held", "ending"}
          BY <4>1 DEF Held, Phase
        <4> QED BY <2>1, <2>3, <4>2 DEF Promise!Next, Promise!Grant
      <3> QED BY <3>1, <3>2, GrantsShrink
    <2> QED BY <1>2, <2>2, <2>3, OneGrant
  <1> QED BY <1>1, <1>2, OneBinding

\* Through stale copies, concurrent edits, failures, restarts and lingering
\* bindings the controller does to an owner's grants what GrantLifecycle says:
\* they come only under the hold of the finalizer, and the hold ends only after
\* a deletion, with none left (managednamespace.go:55-69, 78-104).
THEOREM LifecycleKept ==
  ASSUME Gentle
  PROVE  Spec => KeepsPromise
PROOF
  <1>1. Init => TypeOK /\ Versions /\ Guard
    BY TypeInit, VersionsInit, GuardInit
  <1>2. TypeOK /\ Versions /\ Guard /\ [Next]_vars => (TypeOK /\ Versions /\ Guard)'
    BY TypeStep, VersionsStep, GuardStep
  <1>3. Init => Promise!Init
    <2>1. ASSUME Init PROVE Phase = "free" /\ Granted = {}
      <3>1. owner = NoOwner
        BY <2>1 DEF Init
      <3>2. ~Held(owner)
        BY <3>1 DEF NoOwner, Held
      <3> QED BY <2>1, <3>2, <1>1 DEF Guard, Held, Phase
    <2> QED BY <2>1 DEF Promise!Init
  <1>4. TypeOK /\ TypeOK' /\ Versions /\ Guard /\ [Next]_vars => [Promise!Next]_<<Phase, Granted>>
    BY LifecycleStep
  <1> QED BY <1>1, <1>2, <1>3, <1>4, PTL DEF Spec, KeepsPromise, Promise!Spec
=============================================================================

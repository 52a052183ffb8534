------------------------- MODULE ManagedNamespaceScope -------------------------
(***************************************************************************)
(* The reach of the ManagedNamespace reconciler, for every value of the    *)
(* constants: whatever carries its labels, it changes no binding outside   *)
(* its namespace; it does not interrupt a grant that stands and is asked   *)
(* for; and of the namespace it leaves the labels and annotations of       *)
(* others.                                                                 *)
(***************************************************************************)
EXTENDS ManagedNamespaceProofs

Deleting == {"unbind", "revoke", "clear"}

\* A list being deleted is of this namespace, and nobody holds a binding of another.
Local == \A k \in doomed : k.namespace = Owner
Unheld == \A k \in BindingKeys : k.namespace # Owner /\ bindings[k] # Absent => ~bindings[k].held
InScope == (pc \in Deleting => Local) /\ Unheld

\* What a step leaves alone.
Spared == \A k \in BindingKeys : k.namespace # Owner => bindings'[k] = bindings[k]

\* A change of one binding of this namespace spares the others.
LEMMA OneSpares ==
  ASSUME TypeOK, NEW k, k.namespace = Owner, NEW b, bindings' = [bindings EXCEPT ![k] = b]
  PROVE  Spared
  BY DEF TypeOK, Spared

\* No step changes a binding of another namespace.
LEMMA SparedStep ==
  ASSUME TypeOK, InScope, [Next]_vars
  PROVE  Spared
PROOF
  <1>1. CASE UNCHANGED bindings
    BY <1>1 DEF Spared
  <1>2. CASE DeleteBinding
    <2>1. PICK k \in doomed : bindings' = [bindings EXCEPT ![k] = Deleted(@)]
      BY <1>2 DEF DeleteBinding
    <2>2. k.namespace = Owner
      BY <1>2 DEF DeleteBinding, InScope, Local, Deleting
    <2> QED BY <2>1, <2>2, OneSpares
  <1>3. \A p : KeyAt(mns.spec, p).namespace = Owner
    BY DEF KeyAt
  <1>4. CASE ReplaceBinding
    <2>1. PICK p \in todo :
            \/ bindings' = [bindings EXCEPT ![KeyAt(mns.spec, p)] = Deleted(@)]
            \/ UNCHANGED bindings
      BY <1>4 DEF ReplaceBinding
    <2> QED BY <1>1, <1>3, <2>1, OneSpares
  <1>5. CASE EnsureBinding
    <2>1. PICK p \in todo :
            bindings' = [bindings EXCEPT ![KeyAt(mns.spec, p)] = BindingCall(p).object]
      BY <1>5 DEF EnsureBinding
    <2> QED BY <1>3, <2>1, OneSpares
  <1>6. CASE NamespaceController
    <2>1. \/ \E k \in InNamespace : bindings' = [bindings EXCEPT ![k] = Deleted(@)]
          \/ UNCHANGED bindings
      BY <1>6 DEF NamespaceController
    <2> QED BY <1>1, <2>1, OneSpares DEF InNamespace
  <1>7. ASSUME NEW k \in BindingKeys, LetGo(k) PROVE Spared
    <2>1. k.namespace = Owner
      BY <1>7 DEF LetGo, InScope, Unheld
    <2> QED BY <1>7, <2>1, OneSpares DEF LetGo
  <1>8. ASSUME NEW k \in BindingKeys, DriftBinding(k) \/ RelabelBinding(k) \/ HoldBinding(k)
        PROVE  Spared
    <2>1. k.namespace = Owner /\ \E b : bindings' = [bindings EXCEPT ![k] = b]
      BY <1>8 DEF DriftBinding, RelabelBinding, HoldBinding
    <2> QED BY <2>1, OneSpares
  <1>9. CASE Worker
    BY <1>1, <1>2, <1>4, <1>5, <1>9
    DEF Worker, live, Reconcile, Finalize, Unbound, Release, Adopt, Prune, EnsureNamespace,
        EnsureQuota, PruneQuotas, DeleteQuota, ReconcileBindings, MissingRole,
        PruneUnresolved, ReportStatus
  <1>10. CASE Deliver
    BY <1>1, <1>10 DEF Deliver, live, DeliverOwner, Resync, DeliverNamespace, DeliverQuota,
                       DeliverBinding, DeliverRole
  <1>11. CASE Users
    BY <1>1, <1>11 DEF Users, Edit, live, CreateOwner, EditOwner, DeleteOwner, AddForeign,
                       RemoveForeign, ForceRelease
  <1>12. CASE Others
    BY <1>1, <1>8, <1>12
    DEF Others, live, CallFails, Crash, ToggleRole, DriftQuota, DeleteNamespace,
        ChangeMetadata, CorruptInventory
  <1>13. CASE UNCHANGED vars
    BY <1>1, <1>13 DEF vars, live
  <1> QED BY <1>6, <1>7, <1>9, <1>10, <1>11, <1>12, <1>13 DEF Next

\* What a pass is about to delete was listed in the namespace, and only shrinks.
LEMMA ListedStep ==
  ASSUME TypeOK, InScope, [Next]_vars
  PROVE  pc' \in Deleting => Local'
PROOF
  <1> DEFINE Stays == pc' \in Deleting => Local'
  <1>1. CASE UNCHANGED <<pc, doomed>>
    BY <1>1 DEF InScope, Local
  <1>2. CASE pc' \notin Deleting
    BY <1>2
  <1>3. CASE Finalize
    BY <1>3 DEF Finalize, OwnedBindings, Local, Deleting
  <1>4. CASE Prune
    BY <1>4 DEF Prune, OwnedBindings, Local
  <1>5. CASE PruneUnresolved
    BY <1>5 DEF PruneUnresolved, OwnedBindings, Local
  <1>6. CASE DeleteBinding
    BY <1>6 DEF DeleteBinding, InScope, Local, Deleting
  <1>7. CASE Worker
    BY <1>1, <1>2, <1>3, <1>4, <1>5, <1>6, <1>7
    DEF Worker, Deleting, Done, GiveUp, Reconcile, FirstStep, Unbound, Release, Adopt,
        EnsureNamespace, EnsureQuota, PruneQuotas, DeleteQuota, ReconcileBindings, MissingRole,
        ReplaceBinding, EnsureBinding, ReportStatus
  <1>8. CASE Deliver
    BY <1>1, <1>8 DEF Deliver, worker, DeliverOwner, Resync, DeliverNamespace, DeliverQuota,
                      DeliverBinding, DeliverRole
  <1>9. CASE Users
    BY <1>1, <1>9 DEF Users, Edit, worker, CreateOwner, EditOwner, DeleteOwner, AddForeign,
                      RemoveForeign, ForceRelease
  <1>10. CASE CallFails \/ Crash
    BY <1>2, <1>10 DEF CallFails, Crash, Done, GiveUp, Deleting
  <1>11. CASE Others
    BY <1>1, <1>10, <1>11
    DEF Others, Elsewhere, worker, ToggleRole, DriftBinding, RelabelBinding, HoldBinding,
        DriftQuota, DeleteNamespace, ChangeMetadata, CorruptInventory
  <1>12. CASE NamespaceController \/ (\E k \in BindingKeys : LetGo(k)) \/ UNCHANGED vars
    BY <1>1, <1>12 DEF NamespaceController, LetGo, vars, worker
  <1> QED BY <1>7, <1>8, <1>9, <1>11, <1>12 DEF Next

\* The owner labels can be put on a binding anywhere, by anybody: neither prune,
\* nor the finalizer, nor the replacement of a binding acts on one of another
\* namespace (managednamespace.go:363-381).
THEOREM StrangersSafe == Spec => StrangersUntouched
PROOF
  <1>1. Init => TypeOK /\ InScope
    <2>1. ASSUME Init PROVE InScope
      <3>1. doomed = {}
        BY <2>1 DEF Init
      <3>2. ASSUME NEW k \in BindingKeys, bindings[k] # Absent PROVE ~bindings[k].held
        BY <2>1, <3>2 DEF Init, NewBinding
      <3> QED BY <3>1, <3>2 DEF InScope, Local, Unheld
    <2> QED BY <2>1, TypeInit
  <1>2. TypeOK /\ InScope /\ [Next]_vars => (TypeOK /\ InScope)'
    <2>1. ASSUME TypeOK, InScope, [Next]_vars PROVE InScope'
      BY <2>1, SparedStep, ListedStep DEF InScope, Unheld, Spared
    <2> QED BY <2>1, TypeStep
  <1>3. TypeOK /\ InScope /\ [Next]_vars =>
          [\A k \in Strangers : k.namespace # Owner => bindings'[k] = bindings[k]]_vars
    BY SparedStep DEF Spared, BindingKeys
  <1> QED BY <1>1, <1>2, <1>3, PTL DEF Spec, StrangersUntouched

-----------------------------------------------------------------------------
(* Grants that stay *)

\* What a pass spares: the first prune what the spec asks for, the second what was
\* found or bound for it; and the finalizer works on deleting versions alone.
Spares ==
  /\ pc \in {"finalize", "unbind"} => mns.deleting
  /\ pc = "revoke" => doomed \intersect Requested(mns.spec) = {}
  /\ pc \in {"bindings", "ensure", "clear"} =>
       \A p \in Positions(mns.spec) \ todo :
         KeyAt(mns.spec, p) \in kept \/ RoleAt(mns.spec, p) \in Elements(invalid)
  /\ pc = "clear" => doomed \intersect kept = {}

\* Every step of a pass keeps to it.
LEMMA SparesStep ==
  ASSUME TypeOK, Spares, [Next]_vars
  PROVE  Spares'
PROOF
  <1>1. CASE UNCHANGED worker
    BY <1>1 DEF worker, Spares
  <1>2. CASE pc' \in {"idle", "status", "release", "adopt", "prune", "quotas", "dropQuotas"}
    BY <1>2 DEF Spares
  <1>3. CASE Reconcile
    <2>1. pc' = "finalize" => mns'.deleting
      BY <1>3 DEF Reconcile, FirstStep
    <2>2. pc' \in {"idle", "finalize", "adopt", "prune"}
      BY <1>3 DEF Reconcile, FirstStep
    <2> QED BY <2>1, <2>2 DEF Spares
  <1>4. CASE Finalize
    BY <1>4 DEF Finalize, Spares
  <1>5. CASE Prune
    BY <1>5 DEF Prune, Spares
  <1>6. CASE DeleteBinding
    BY <1>6 DEF DeleteBinding, Spares
  <1>7. CASE ReconcileBindings
    BY <1>7 DEF ReconcileBindings, Spares
  <1>8. CASE MissingRole
    <2>1. PICK p \in todo : /\ invalid' = Append(invalid, RoleAt(mns.spec, p))
                            /\ todo' = todo \ {p}
      BY <1>8 DEF MissingRole
    <2>2. pc = "bindings" /\ UNCHANGED <<pc, mns, kept>>
      BY <1>8 DEF MissingRole
    <2>3. RoleAt(mns.spec, p) \in Roles /\ invalid \in Seq(Roles)
      BY <2>2, KeyTypes DEF TypeOK, OwnerVersion
    <2>4. Elements(invalid') = Elements(invalid) \union {RoleAt(mns.spec, p)}
      BY <2>1, <2>3, AppendedElements
    <2> QED BY <2>1, <2>2, <2>4 DEF Spares
  <1>9. CASE ReplaceBinding
    <2>1. CASE pc' = "status"
      BY <1>2, <2>1
    <2>2. CASE pc' = "ensure" /\ UNCHANGED <<mns, doomed, todo, kept, invalid, syncErr, queued>>
      BY <1>9, <2>2 DEF ReplaceBinding, Spares
    <2> QED BY <1>9, <2>1, <2>2 DEF ReplaceBinding, GiveUp
  <1>10. CASE EnsureBinding
    <2>1. CASE pc' = "status"
      BY <1>2, <2>1
    <2>2. CASE pc' # "status"
      <3>1. PICK p \in todo : /\ pc' = "bindings" /\ todo' = todo \ {p}
                              /\ kept' = kept \union {KeyAt(mns.spec, p)}
                              /\ UNCHANGED <<mns, doomed, invalid, syncErr, queued>>
        BY <1>10, <2>2 DEF EnsureBinding, GiveUp
      <3>2. pc = "ensure"
        BY <1>10 DEF EnsureBinding
      <3> QED BY <3>1, <3>2 DEF Spares
    <2> QED BY <2>1, <2>2
  <1>11. CASE PruneUnresolved
    BY <1>11 DEF PruneUnresolved, Spares
  <1>12. CASE Worker
    BY <1>2, <1>3, <1>4, <1>5, <1>6, <1>7, <1>8, <1>9, <1>10, <1>11, <1>12
    DEF Worker, Done, GiveUp, Unbound, Release, Adopt, EnsureNamespace, EnsureQuota,
        PruneQuotas, DeleteQuota, ReportStatus
  <1>13. CASE Deliver
    BY <1>1, <1>13 DEF Deliver, DeliverOwner, Resync, DeliverNamespace, DeliverQuota,
                       DeliverBinding, DeliverRole
  <1>14. CASE Users
    BY <1>1, <1>14 DEF Users, Edit, CreateOwner, EditOwner, DeleteOwner, AddForeign,
                       RemoveForeign, ForceRelease
  <1>15. CASE CallFails \/ Crash
    BY <1>2, <1>15 DEF CallFails, Crash, Done, GiveUp
  <1>16. CASE Others
    BY <1>1, <1>15, <1>16
    DEF Others, Elsewhere, ToggleRole, DriftBinding, RelabelBinding, HoldBinding,
        DriftQuota, DeleteNamespace, ChangeMetadata, CorruptInventory
  <1>17. CASE NamespaceController \/ (\E k \in BindingKeys : LetGo(k)) \/ UNCHANGED vars
    BY <1>1, <1>17 DEF NamespaceController, LetGo, vars
  <1> QED BY <1>12, <1>13, <1>14, <1>16, <1>17 DEF Next

\* Users and faults are counted; so only the controller, the watches and those who
\* finish a deletion leave the counters alone.
LEMMA Uncounted ==
  ASSUME TypeOK, [Next]_vars, ByController
  PROVE  \/ Worker \/ Deliver \/ NamespaceController
         \/ \E k \in BindingKeys : LetGo(k)
         \/ UNCHANGED vars
PROOF
  <1>1. edits \in Nat /\ faults \in Nat
    BY NamesAssumption DEF TypeOK
  <1>2. ~Users
    <2>1. ASSUME NEW kind, Edit(kind) PROVE FALSE
      <3>1. edits' = edits + 1
        BY <2>1 DEF Edit
      <3> QED BY <1>1, <3>1 DEF ByController, budget
    <2>2. Users => \E kind : Edit(kind)
      BY DEF Users, CreateOwner, EditOwner, DeleteOwner, AddForeign, RemoveForeign, ForceRelease
    <2> QED BY <2>1, <2>2
  <1>3. ~Others
    <2>1. ASSUME NEW kind, Fault(kind) PROVE FALSE
      <3>1. faults' = faults + 1
        BY <2>1 DEF Fault
      <3> QED BY <1>1, <3>1 DEF ByController, budget
    <2>2. Others => \E kind : Fault(kind)
      BY DEF Others, CallFails, Crash, ToggleRole, DriftBinding, RelabelBinding, HoldBinding,
             DriftQuota, DeleteNamespace, ChangeMetadata, CorruptInventory
    <2> QED BY <2>1, <2>2
  <1> QED BY <1>2, <1>3 DEF Next

\* The name of a generated binding says its role.
LEMMA NamedRole ==
  ASSUME NEW spec, NEW p
  PROVE  KeyAt(spec, p).name[3] = RoleAt(spec, p)
  BY DEF KeyAt, BindingName

\* What ensure makes of a binding that stands, stands.
LEMMA EnsuredStands ==
  ASSUME TypeOK, pc = "ensure", NEW p \in todo, Standing(KeyAt(mns.spec, p))
  PROVE  LET b == BindingCall(p).object
         IN  IsOwned(b) /\ OfRole(b, KeyAt(mns.spec, p)) /\ ~b.deleting
PROOF
  <1> DEFINE k       == KeyAt(mns.spec, p)
             role    == RoleAt(mns.spec, p)
             cached  == cache.bindings[k]
             base    == IF cached = Absent THEN NewBinding ELSE cached
             desired == DesiredBinding(base, role, subjectsFor(MappingAt(mns.spec, p)))
  <1>1. p \in Positions(mns.spec) /\ mns.spec \in Specs
    BY DEF TypeOK, OwnerVersion
  <1>2. k \in BindingKeys /\ role \in Roles
    BY <1>1, KeyTypes
  <1>3. cached \in Binding \union {Absent} /\ bindings[k] \in Binding /\ bindings[k] # Absent
    BY <1>2 DEF TypeOK, Copies, Standing, IsOwned
  <1>4. CASE BindingCall(p).object = bindings[k]
    BY <1>4 DEF Standing
  <1>5. CASE BindingCall(p).object = desired /\ bindings[k] = cached
    <2>1. base = bindings[k]
      BY <1>3, <1>5
    <2>2. /\ desired.owned /\ desired.role = role /\ desired.deleting = bindings[k].deleting
          /\ desired \in Binding \/ desired # Absent
      <3>1. desired = [bindings[k] EXCEPT !.owned = TRUE, !.role = role,
                         !.subjects = subjectsFor(MappingAt(mns.spec, p))]
        BY <2>1 DEF DesiredBinding
      <3>2. subjectsFor(MappingAt(mns.spec, p)) \in SubjectLists
        BY <1>1, KeyTypes
      <3> QED BY <1>2, <1>3, <3>1, <3>2 DEF Binding
    <2>3. desired # Absent
      <3>1. subjectsFor(MappingAt(mns.spec, p)) \in SubjectLists
        BY <1>1, KeyTypes
      <3>2. desired \in Binding
        BY <1>2, <1>3, <2>1, <3>1 DEF DesiredBinding, Binding
      <3> QED BY <3>2, AbsentAssumption
    <2>4. ~bindings[k].deleting
      BY DEF Standing
    <2>5. desired.role = k.name[3]
      BY <2>2, NamedRole
    <2> HIDE DEF desired
    <2> QED BY <1>5, <2>2, <2>3, <2>4, <2>5 DEF IsOwned, OfRole
  <1>6. BindingCall(p).object = bindings[k] \/ (BindingCall(p).object = desired /\ bindings[k] = cached)
    BY <1>3 DEF BindingCall, CreateOrUpdate
  <1> QED BY <1>4, <1>5, <1>6

\* No step that is not a user's or a fault's ends a grant that stands as asked.
LEMMA StandsOn ==
  ASSUME TypeOK, Spares, [Next]_vars, ByController, NamespaceOpen,
         NEW k \in BindingKeys, Standing(k), StillAsked(k),
         cache.bindings[k] = Absent \/ OfRole(cache.bindings[k], k)
  PROVE  Standing(k)'
PROOF
  <1>1. CASE bindings'[k] = bindings[k]
    BY <1>1 DEF Standing, OfRole
  <1>2. CASE DeleteBinding
    <2>1. PICK j \in doomed : bindings' = [bindings EXCEPT ![j] = Deleted(@)]
      BY <1>2 DEF DeleteBinding
    <2>2. pc \in {"unbind", "revoke", "clear"}
      BY <1>2 DEF DeleteBinding
    <2>3. ~mns.deleting /\ k \in Requested(mns.spec) /\ k.name[3] \notin Elements(invalid)
      BY <2>2 DEF StillAsked
    <2>4. k \notin doomed
      <3>1. CASE pc = "revoke"
        BY <2>3, <3>1 DEF Spares
      <3>2. CASE pc = "clear"
        <4>1. PICK p \in Positions(mns.spec) : k = KeyAt(mns.spec, p)
          BY <2>3 DEF Requested
        <4>2. todo = {}
          BY <3>2 DEF TypeOK
        <4>3. KeyAt(mns.spec, p) \in kept \/ RoleAt(mns.spec, p) \in Elements(invalid)
          BY <3>2, <4>2 DEF Spares
        <4>4. k \in kept
          BY <2>3, <4>1, <4>3, NamedRole
        <4> QED BY <3>2, <4>4 DEF Spares
      <3> QED BY <2>2, <2>3, <3>1, <3>2 DEF Spares
    <2> QED BY <1>1, <2>1, <2>4 DEF TypeOK
  <1>3. CASE ReplaceBinding
    <2>1. PICK p \in todo :
            \/ UNCHANGED bindings
            \/ /\ bindings' = [bindings EXCEPT ![KeyAt(mns.spec, p)] = Deleted(@)]
               /\ cache.bindings[KeyAt(mns.spec, p)] # Absent
               /\ cache.bindings[KeyAt(mns.spec, p)].role # RoleAt(mns.spec, p)
      BY <1>3 DEF ReplaceBinding
    <2>2. CASE KeyAt(mns.spec, p) = k
      BY <1>1, <2>1, <2>2, NamedRole DEF OfRole
    <2> QED BY <1>1, <2>1, <2>2 DEF TypeOK
  <1>4. CASE EnsureBinding
    <2>1. PICK p \in todo :
            bindings' = [bindings EXCEPT ![KeyAt(mns.spec, p)] = BindingCall(p).object]
      BY <1>4 DEF EnsureBinding
    <2>2. CASE KeyAt(mns.spec, p) = k
      <3>1. bindings'[k] = BindingCall(p).object
        BY <2>1, <2>2 DEF TypeOK
      <3>2. pc = "ensure"
        BY <1>4 DEF EnsureBinding
      <3> QED BY <2>2, <3>1, <3>2, EnsuredStands DEF Standing, OfRole
    <2> QED BY <1>1, <2>1, <2>2 DEF TypeOK
  <1>5. ASSUME NEW j \in BindingKeys, LetGo(j) PROVE Standing(k)'
    <2>1. bindings' = [bindings EXCEPT ![j] = IF @.deleting THEN Absent ELSE [@ EXCEPT !.held = FALSE]]
      BY <1>5 DEF LetGo
    <2>2. CASE j = k
      <3>1. bindings[k] \in Binding /\ ~bindings[k].deleting
        BY DEF TypeOK, Standing, IsOwned
      <3>2. bindings'[k] = [bindings[k] EXCEPT !.held = FALSE]
        BY <2>1, <2>2, <3>1 DEF TypeOK
      <3>3. bindings'[k] \in Binding
        BY <3>1, <3>2 DEF Binding
      <3>4. /\ bindings'[k].owned = bindings[k].owned /\ bindings'[k].role = bindings[k].role
            /\ bindings'[k].deleting = bindings[k].deleting
        BY <3>1, <3>2 DEF Binding
      <3> QED BY <3>3, <3>4, AbsentAssumption DEF Standing, IsOwned, OfRole
    <2> QED BY <1>1, <2>1, <2>2 DEF TypeOK
  <1>6. ~NamespaceController
    BY DEF NamespaceController, NamespaceOpen
  <1>7. CASE Worker
    BY <1>1, <1>2, <1>3, <1>4, <1>7
    DEF Worker, live, Reconcile, Finalize, Unbound, Release, Adopt, Prune, EnsureNamespace,
        EnsureQuota, PruneQuotas, DeleteQuota, ReconcileBindings, MissingRole,
        PruneUnresolved, ReportStatus
  <1>8. CASE Deliver
    BY <1>1, <1>8 DEF Deliver, live, DeliverOwner, Resync, DeliverNamespace, DeliverQuota,
                      DeliverBinding, DeliverRole
  <1>9. CASE UNCHANGED vars
    BY <1>1, <1>9 DEF vars, live
  <1> QED BY <1>5, <1>6, <1>7, <1>8, <1>9, Uncounted

\* Access is not interrupted: whatever fails, restarts or is out of date, the
\* controller takes no binding away that its pass asks for, not even for a moment
\* (managednamespace.go:146-150, 226-239).
THEOREM GrantsKept == Spec => KeptGrantNeverBlinks
PROOF
  <1>1. Init => TypeOK /\ Spares
    BY TypeInit DEF Init, Spares
  <1>2. TypeOK /\ Spares /\ [Next]_vars => (TypeOK /\ Spares)'
    BY TypeStep, SparesStep
  <1>3. TypeOK /\ Spares /\ [Next]_vars =>
          [\A k \in BindingKeys :
             /\ ByController /\ NamespaceOpen /\ Standing(k) /\ StillAsked(k)
             /\ cache.bindings[k] = Absent \/ OfRole(cache.bindings[k], k)
             => Standing(k)']_vars
    BY StandsOn
  <1> QED BY <1>1, <1>2, <1>3, PTL DEF Spec, KeptGrantNeverBlinks
-----------------------------------------------------------------------------
(* Metadata of others *)

\* An inventory lists keys that some spec asks for.
Inventoried(ns) ==
  ns # Absent /\ ns.inventory \notin {Unset, Malformed} =>
    /\ ns.inventory.labels \subseteq RequestedLabels
    /\ ns.inventory.annotations \subseteq RequestedAnnotations
Inventories == Inventoried(namespace) /\ Inventoried(cache.namespace)

\* A key of the second map that the first has not keeps its value when they merge.
LEMMA MergedKeeps ==
  ASSUME NEW f, NEW g, NEW key \in DOMAIN g, key \notin DOMAIN f
  PROVE  key \in DOMAIN Over(f, g) /\ Over(f, g)[key] = g[key]
  BY DEF Over

\* What the mutate function keeps of a namespace, and what it inventories.
LEMMA MutateKeeps ==
  ASSUME NEW ns \in Namespace, ns.inventory # Malformed, Inventoried(ns), NEW s \in Specs
  PROVE  LET new == MutateNamespace(ns, Owner, s)
         IN  /\ Inventoried(new)
             /\ Preserved(ns.labels, new.labels, {OwnerKey} \union RequestedLabels)
             /\ Preserved(ns.annotations, new.annotations, RequestedAnnotations)
PROOF
  <1> DEFINE new      == MutateNamespace(ns, Owner, s)
             previous == namespaceMetadataInventory(ns)
  <1>1. /\ DOMAIN s.labels \subseteq RequestedLabels
        /\ DOMAIN s.annotations \subseteq RequestedAnnotations
    BY DEF RequestedLabels, RequestedAnnotations
  <1>2. /\ new.labels = Over(Over(Single(OwnerKey, Owner), s.labels),
                             Without(ns.labels, previous.labels))
        /\ new.annotations = Over(Without(s.annotations, {InventoryKey}),
                                  Without(ns.annotations, previous.annotations))
        /\ new.inventory = [labels |-> DOMAIN s.labels,
                            annotations |-> DOMAIN s.annotations \ {InventoryKey}]
    BY DEF MutateNamespace, Namespace
  <1>3. /\ previous.labels \subseteq RequestedLabels
        /\ previous.annotations \subseteq RequestedAnnotations
    <2>1. CASE ns.inventory = Unset
      BY <2>1 DEF namespaceMetadataInventory, NoInventory
    <2>2. CASE ns.inventory # Unset
      <3>1. ns # Absent
        BY AbsentAssumption
      <3> QED BY <2>2, <3>1 DEF Inventoried, namespaceMetadataInventory
    <2> QED BY <2>1, <2>2
  <1> HIDE DEF new, previous
  <1>4. Inventoried(new)
    BY <1>1, <1>2 DEF Inventoried
  <1>5. Preserved(ns.labels, new.labels, {OwnerKey} \union RequestedLabels)
    <2>1. DOMAIN Over(Single(OwnerKey, Owner), s.labels) \subseteq {OwnerKey} \union RequestedLabels
      BY <1>1 DEF Over, Single
    <2>2. ASSUME NEW key \in DOMAIN ns.labels, key \notin {OwnerKey} \union RequestedLabels
          PROVE  key \in DOMAIN new.labels /\ new.labels[key] = ns.labels[key]
      <3>1. key \in DOMAIN Without(ns.labels, previous.labels)
        BY <1>3, <2>2 DEF Without
      <3>2. Without(ns.labels, previous.labels)[key] = ns.labels[key]
        BY <1>3, <2>2 DEF Without
      <3>3. key \notin DOMAIN Over(Single(OwnerKey, Owner), s.labels)
        BY <2>1, <2>2
      <3> QED BY <1>2, <3>1, <3>2, <3>3, MergedKeeps
    <2> QED BY <2>2 DEF Preserved
  <1>6. Preserved(ns.annotations, new.annotations, RequestedAnnotations)
    <2>1. DOMAIN Without(s.annotations, {InventoryKey}) \subseteq RequestedAnnotations
      BY <1>1 DEF Without
    <2>2. ASSUME NEW key \in DOMAIN ns.annotations, key \notin RequestedAnnotations
          PROVE  key \in DOMAIN new.annotations /\ new.annotations[key] = ns.annotations[key]
      <3>1. key \in DOMAIN Without(ns.annotations, previous.annotations)
        BY <1>3, <2>2 DEF Without
      <3>2. Without(ns.annotations, previous.annotations)[key] = ns.annotations[key]
        BY <1>3, <2>2 DEF Without
      <3>3. key \notin DOMAIN Without(s.annotations, {InventoryKey})
        BY <2>1, <2>2
      <3> QED BY <1>2, <3>1, <3>2, <3>3, MergedKeeps
    <2> QED BY <2>2 DEF Preserved
  <1> QED BY <1>4, <1>5, <1>6 DEF new

\* A pass's call on the namespace keeps the metadata of others: an update is
\* accepted on the copy it was computed from only.
LEMMA CallKeeps ==
  ASSUME TypeOK, Inventories
  PROVE  /\ Inventoried(NamespaceCall.object)
         /\ namespace # Absent =>
              /\ Preserved(namespace.labels, NamespaceCall.object.labels,
                           {OwnerKey} \union RequestedLabels)
              /\ Preserved(namespace.annotations, NamespaceCall.object.annotations,
                           RequestedAnnotations)
PROOF
  <1> DEFINE ns      == IF cache.namespace = Absent THEN NewNamespace ELSE cache.namespace
             verdict == Accepts(Elements(mns.spec.labels) \union Elements(mns.spec.annotations))
             desired == MutateNamespace(ns, Owner, mns.spec)
  <1>1. ns \in Namespace /\ Inventoried(ns)
    BY NewNamespaceType DEF TypeOK, Copies, Inventories, Inventoried
  <1>2. mns.spec \in Specs
    BY DEF TypeOK, OwnerVersion
  <1>3. CASE NamespaceCall.object = namespace
    BY <1>3 DEF Inventories, Preserved
  <1>4. CASE NamespaceCall.object # namespace
    <2>1. ns.inventory # Malformed
      BY <1>4 DEF NamespaceCall
    <2>2. NamespaceCall = CreateOrUpdate(cache.namespace, desired, namespace, verdict, verdict)
      BY <2>1 DEF NamespaceCall
    <2>3. verdict \in {"none", "invalid"}
      BY DEF Accepts
    <2>4. /\ Inventoried(desired)
          /\ Preserved(ns.labels, desired.labels, {OwnerKey} \union RequestedLabels)
          /\ Preserved(ns.annotations, desired.annotations, RequestedAnnotations)
      BY <1>1, <1>2, <2>1, MutateKeeps
    <2> HIDE DEF desired, verdict
    <2>5. NamespaceCall.object = desired /\ (namespace # Absent => namespace = cache.namespace)
      BY <1>4, <2>2, <2>3 DEF CreateOrUpdate
    <2> QED BY <2>4, <2>5
  <1> QED BY <1>3, <1>4

\* Every step keeps the inventories to what specs ask for.
LEMMA InventoriesStep ==
  ASSUME TypeOK, Inventories, [Next]_vars
  PROVE  Inventories'
PROOF
  <1>1. Inventoried(namespace')
    <2>1. CASE namespace' = namespace
      BY <2>1 DEF Inventories
    <2>2. CASE EnsureNamespace
      BY <2>2, CallKeeps DEF EnsureNamespace
    <2>3. CASE namespace' = Absent
      BY <2>3 DEF Inventoried
    <2>4. CASE DeleteNamespace
      <3>1. namespace' = [namespace EXCEPT !.terminating = TRUE] /\ namespace \in Namespace
        BY <2>4 DEF DeleteNamespace, NamespaceOpen, TypeOK
      <3>2. namespace'.inventory = namespace.inventory /\ namespace # Absent
        BY <3>1, AbsentAssumption DEF Namespace
      <3> QED BY <3>2 DEF Inventories, Inventoried
    <2>5. CASE ChangeMetadata
      <3> DEFINE ns == IF namespace = Absent THEN NewNamespace ELSE namespace
      <3>1. ns \in Namespace /\ Inventoried(ns) /\ ns # Absent
        BY NewNamespaceType, AbsentAssumption DEF TypeOK, Inventories, Inventoried
      <3>2. \/ \E map : namespace' \in {[ns EXCEPT !.labels = map], [ns EXCEPT !.annotations = map]}
            \/ namespace' = [ns EXCEPT !.inventory = Unset]
        BY <2>5 DEF ChangeMetadata
      <3> HIDE DEF ns
      <3>3. namespace'.inventory \in {ns.inventory, Unset}
        BY <3>1, <3>2 DEF Namespace
      <3> QED BY <3>1, <3>3 DEF Inventoried
    <2>6. CASE CorruptInventory
      <3>1. namespace' = [namespace EXCEPT !.inventory = Malformed] /\ namespace \in Namespace
        BY <2>6 DEF CorruptInventory, TypeOK
      <3> QED BY <3>1 DEF Inventoried, Namespace
    <2>7. CASE Worker
      BY <2>1, <2>2, <2>7
      DEF Worker, live, Reconcile, Finalize, Unbound, Release, Adopt, Prune, DeleteBinding,
          EnsureQuota, PruneQuotas, DeleteQuota, ReconcileBindings, MissingRole, ReplaceBinding,
          EnsureBinding, PruneUnresolved, ReportStatus
    <2>8. CASE Deliver \/ (\E k \in BindingKeys : LetGo(k)) \/ UNCHANGED vars
      BY <2>1, <2>8 DEF Deliver, live, vars, LetGo, DeliverOwner, Resync, DeliverNamespace,
                        DeliverQuota, DeliverBinding, DeliverRole
    <2>9. CASE NamespaceController
      BY <2>1, <2>3, <2>9 DEF NamespaceController
    <2>10. CASE Users
      BY <2>1, <2>10 DEF Users, Edit, live, CreateOwner, EditOwner, DeleteOwner, AddForeign,
                         RemoveForeign, ForceRelease
    <2>11. CASE Others
      BY <2>1, <2>4, <2>5, <2>6, <2>11
      DEF Others, live, CallFails, Crash, ToggleRole, DriftBinding, RelabelBinding, HoldBinding,
          DriftQuota
    <2> QED BY <2>7, <2>8, <2>9, <2>10, <2>11 DEF Next
  <1>2. cache'.namespace \in {cache.namespace, namespace}
    <2>1. CASE cache' = cache
      BY <2>1
    <2>2. CASE Worker
      BY <2>1, <2>2
      DEF Worker, Reconcile, Finalize, Unbound, Release, Adopt, Prune, DeleteBinding,
          EnsureNamespace, EnsureQuota, PruneQuotas, DeleteQuota, ReconcileBindings, MissingRole,
          ReplaceBinding, EnsureBinding, PruneUnresolved, ReportStatus
    <2>3. CASE Deliver
      <3>1. cache \in Copies
        BY DEF TypeOK
      <3> QED BY <2>1, <2>3, <3>1 DEF Copies, Deliver, DeliverOwner, Resync, DeliverNamespace,
                                      DeliverQuota, DeliverBinding, DeliverRole
    <2>4. CASE Crash
      BY <2>4 DEF Crash
    <2>5. CASE Others
      BY <2>1, <2>4, <2>5
      DEF Others, Elsewhere, CallFails, ToggleRole, DriftBinding, RelabelBinding, HoldBinding,
          DriftQuota, DeleteNamespace, ChangeMetadata, CorruptInventory
    <2>6. CASE Users \/ NamespaceController \/ (\E k \in BindingKeys : LetGo(k)) \/ UNCHANGED vars
      BY <2>1, <2>6 DEF Users, Edit, CreateOwner, EditOwner, DeleteOwner, AddForeign,
                        RemoveForeign, ForceRelease, NamespaceController, LetGo, vars
    <2> QED BY <2>2, <2>3, <2>5, <2>6 DEF Next
  <1> QED BY <1>1, <1>2 DEF Inventories, Inventoried

\* No step of the controller changes or drops a key that no spec asks for.
LEMMA MetadataStep ==
  ASSUME TypeOK, Inventories, [Next]_vars, ByController, namespace # Absent, namespace' # Absent
  PROVE  /\ Preserved(namespace.labels, namespace'.labels, {OwnerKey} \union RequestedLabels)
         /\ Preserved(namespace.annotations, namespace'.annotations, RequestedAnnotations)
PROOF
  <1>1. CASE namespace' = namespace
    BY <1>1 DEF Preserved
  <1>2. CASE EnsureNamespace
    BY <1>2, CallKeeps DEF EnsureNamespace
  <1>3. CASE Worker
    BY <1>1, <1>2, <1>3
    DEF Worker, live, Reconcile, Finalize, Unbound, Release, Adopt, Prune, DeleteBinding,
        EnsureQuota, PruneQuotas, DeleteQuota, ReconcileBindings, MissingRole, ReplaceBinding,
        EnsureBinding, PruneUnresolved, ReportStatus
  <1>4. CASE Deliver \/ (\E k \in BindingKeys : LetGo(k)) \/ UNCHANGED vars
    BY <1>1, <1>4 DEF Deliver, live, vars, LetGo, DeliverOwner, Resync, DeliverNamespace,
                      DeliverQuota, DeliverBinding, DeliverRole
  <1>5. CASE NamespaceController
    BY <1>1, <1>5 DEF NamespaceController
  <1> QED BY <1>3, <1>4, <1>5, Uncounted

\* Labels and annotations that no ManagedNamespace asked for stay: the inventory
\* names what an earlier spec requested and nothing else, whoever changes the
\* namespace meanwhile (managednamespace.go:163-224).
THEOREM MetadataKept == Spec => ExternalMetadataKept
PROOF
  <1>1. Init => TypeOK /\ Inventories
    <2>1. ASSUME Init PROVE namespace \in {Absent, NewNamespace} /\ cache.namespace = namespace
      BY <2>1 DEF Init
    <2> QED BY <2>1, TypeInit, NewNamespaceType DEF Inventories, Inventoried
  <1>2. TypeOK /\ Inventories /\ [Next]_vars => (TypeOK /\ Inventories)'
    BY TypeStep, InventoriesStep
  <1>3. TypeOK /\ Inventories /\ [Next]_vars =>
          [ByController /\ namespace # Absent /\ namespace' # Absent =>
             /\ Preserved(namespace.labels, namespace'.labels, {OwnerKey} \union RequestedLabels)
             /\ Preserved(namespace.annotations, namespace'.annotations, RequestedAnnotations)]_vars
    BY MetadataStep
  <1> QED BY <1>1, <1>2, <1>3, PTL DEF Spec, ExternalMetadataKept
=============================================================================

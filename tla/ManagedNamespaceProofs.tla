------------------------ MODULE ManagedNamespaceProofs ------------------------
(***************************************************************************)
(* Type correctness of the ManagedNamespace reconciler, for every value of *)
(* the constants. TypeOK is inductive: it fixes, beside each variable's    *)
(* type, which positions of the spec a pass may still visit, so the names  *)
(* and subjects it computes are those the specs generate.                  *)
(*                                                                         *)
(* First the operators of the model, then the initial state, one step for  *)
(* each action, and the theorem.                                           *)
(***************************************************************************)
EXTENDS ManagedNamespace, TLAPS

(* The operators the model is built from *)

\* No owner at all is a version like any other.
LEMMA NoOwnerType == NoOwner \in OwnerVersion
  BY SpecsAssumption DEF NoOwner, NoStatus, OwnerVersion, Status, Condition, Errors

\* What a sequence over S holds is in S.
LEMMA SeqElement == ASSUME NEW S, NEW q \in Seq(S), NEW i \in DOMAIN q PROVE q[i] \in S
  OBVIOUS

\* Appending to a list adds one element.
LEMMA AppendedElements ==
  ASSUME NEW S, NEW q \in Seq(S), NEW x \in S
  PROVE  Elements(Append(q, x)) = Elements(q) \union {x}
PROOF
  <1>1. /\ DOMAIN Append(q, x) = 1..(Len(q) + 1) /\ DOMAIN q = 1..Len(q) /\ Len(q) \in Nat
        /\ \A i \in DOMAIN q : Append(q, x)[i] = q[i]
        /\ Append(q, x)[Len(q) + 1] = x
    OBVIOUS
  <1> QED BY <1>1 DEF Elements

\* A position of a spec gives a binding key, a role and subjects of the model's
\* sets (reconcileBindings).
LEMMA KeyTypes ==
  ASSUME NEW s \in Specs, NEW p \in Positions(s)
  PROVE  /\ KeyAt(s, p) \in BindingKeys
         /\ RoleAt(s, p) \in Roles
         /\ subjectsFor(MappingAt(s, p)) \in SubjectLists
PROOF
  <1>1. PICK i \in DOMAIN s.accessMappings : \E j \in DOMAIN s.accessMappings[i].clusterRoles : p = <<i, j>>
    BY DEF Positions
  <1>2. PICK j \in DOMAIN s.accessMappings[i].clusterRoles : p = <<i, j>>
    BY <1>1
  <1>3. s.accessMappings \in Seq([group : STRING, users : Seq(UserNames), clusterRoles : Seq(Roles)])
    BY SpecsAssumption
  <1>4. s.accessMappings[i].clusterRoles \in Seq(Roles)
    <2>1. s.accessMappings[i] \in [group : STRING, users : Seq(UserNames), clusterRoles : Seq(Roles)]
      BY <1>3, SeqElement
    <2> QED BY <2>1
  <1>5. RoleAt(s, p) \in Roles
    BY <1>2, <1>4 DEF RoleAt, MappingAt
  <1>6. MappingAt(s, p) \in Elements(s.accessMappings)
    BY <1>2 DEF MappingAt, Elements
  <1>7. subjectsFor(MappingAt(s, p)) \in SubjectLists
    BY <1>6 DEF SubjectLists
  <1>8. KeyAt(s, p) \in BindingKeys
    BY DEF BindingKeys, Requested
  <1> QED BY <1>5, <1>7, <1>8

\* Two maps merged are a map of labels or annotations.
LEMMA MergedMaps ==
  ASSUME NEW f, NEW g,
         DOMAIN f \subseteq MetaKeys, \A k \in DOMAIN f : f[k] \in MetaValues,
         DOMAIN g \subseteq MetaKeys, \A k \in DOMAIN g : g[k] \in MetaValues
  PROVE  Over(f, g) \in MetaMaps
PROOF
  <1> DEFINE K == DOMAIN f \union DOMAIN g
  <1>1. Over(f, g) = [k \in K |-> IF k \in DOMAIN f THEN f[k] ELSE g[k]]
    BY DEF Over
  <1>2. Over(f, g) \in [K -> MetaValues]
    BY <1>1
  <1>3. K \in SUBSET MetaKeys
    OBVIOUS
  <1> QED BY <1>2, <1>3 DEF MetaMaps

\* What a map of labels or annotations consists of.
LEMMA MapFacts ==
  ASSUME NEW f \in MetaMaps
  PROVE  DOMAIN f \subseteq MetaKeys /\ \A k \in DOMAIN f : f[k] \in MetaValues
  BY DEF MetaMaps

\* One pair is such a map.
LEMMA SingleMap ==
  ASSUME NEW key \in MetaKeys, NEW v \in MetaValues
  PROVE  Single(key, v) \in MetaMaps
PROOF
  <1>1. Single(key, v) \in [{key} -> MetaValues]
    BY DEF Single
  <1> QED BY <1>1 DEF MetaMaps

\* So is a map without some of its keys.
LEMMA WithoutType ==
  ASSUME NEW f, NEW keys,
         DOMAIN f \ keys \subseteq MetaKeys, \A k \in DOMAIN f : f[k] \in MetaValues
  PROVE  Without(f, keys) \in MetaMaps
PROOF
  <1>1. Without(f, keys) \in [DOMAIN f \ keys -> MetaValues]
    BY DEF Without
  <1> QED BY <1>1 DEF MetaMaps

\* ensureNamespace's mutate function makes a namespace of a namespace: in
\* particular the inventory it writes lists metadata keys only, never itself.
LEMMA MutateType ==
  ASSUME NEW ns \in Namespace, ns.inventory # Malformed, NEW s \in Specs
  PROVE  MutateNamespace(ns, Owner, s) \in Namespace
PROOF
  <1> DEFINE previous == namespaceMetadataInventory(ns)
             mutated  == MutateNamespace(ns, Owner, s)
  <1>1. ns.labels \in MetaMaps /\ ns.annotations \in MetaMaps /\ s.labels \in MetaMaps
    BY SpecsAssumption DEF Namespace
  <1>2. Without(ns.labels, previous.labels) \in MetaMaps
    BY <1>1, MapFacts, WithoutType
  <1>3. Without(ns.annotations, previous.annotations) \in MetaMaps
    BY <1>1, MapFacts, WithoutType
  <1>4. Without(s.annotations, {InventoryKey}) \in MetaMaps
    <2>1. DOMAIN s.annotations \ {InventoryKey} \subseteq MetaKeys
      BY SpecsAssumption
    <2>2. \A k \in DOMAIN s.annotations : s.annotations[k] \in MetaValues
      BY SpecsAssumption
    <2> QED BY <2>1, <2>2, WithoutType
  <1>5. Over(Single(OwnerKey, Owner), s.labels) \in MetaMaps
    BY <1>1, SingleMap, MapFacts, MergedMaps, NamesAssumption
  <1>6. mutated.labels \in MetaMaps
    <2>1. Over(Over(Single(OwnerKey, Owner), s.labels), Without(ns.labels, previous.labels)) \in MetaMaps
      BY <1>5, <1>2, MapFacts, MergedMaps
    <2> QED BY <2>1 DEF MutateNamespace, Namespace
  <1>7. mutated.annotations \in MetaMaps
    <2>1. Over(Without(s.annotations, {InventoryKey}), Without(ns.annotations, previous.annotations)) \in MetaMaps
      BY <1>3, <1>4, MapFacts, MergedMaps
    <2> QED BY <2>1 DEF MutateNamespace, Namespace
  <1>8. mutated.inventory \in KeySets
    <2>1. DOMAIN s.labels \subseteq MetaKeys
      BY <1>1, MapFacts
    <2>2. DOMAIN s.annotations \ {InventoryKey} \subseteq MetaKeys
      BY SpecsAssumption
    <2> QED BY <2>1, <2>2 DEF MutateNamespace, Namespace, KeySets
  <1>9. mutated = [ns EXCEPT !.labels = mutated.labels, !.annotations = mutated.annotations,
                             !.inventory = mutated.inventory]
    BY DEF MutateNamespace, Namespace
  <1> HIDE DEF mutated
  <1>10. mutated \in Namespace
    BY <1>6, <1>7, <1>8, <1>9 DEF Namespace
  <1> QED BY <1>10 DEF mutated

\* A spec asks for quotas and bindings the model has names for.
LEMMA RequestTypes ==
  ASSUME NEW s \in Specs
  PROVE  /\ DOMAIN s.quotas \subseteq QuotaNames
         /\ \A q \in DOMAIN s.quotas : s.quotas[q] \in Limits
         /\ Requested(s) \subseteq BindingKeys
PROOF
  <1>1. PICK Q \in SUBSET QuotaNames : s.quotas \in [Q -> Limits]
    BY SpecsAssumption
  <1> QED BY <1>1 DEF BindingKeys

\* CreateOrUpdate leaves what was there or what was desired.
LEMMA CallType ==
  ASSUME NEW S, NEW cached, NEW desired \in S, NEW object \in S \union {Absent},
         NEW creation \in Errors, NEW update \in Errors
  PROVE  LET call == CreateOrUpdate(cached, desired, object, creation, update)
         IN  call.error \in Errors /\ call.object \in S \union {Absent}
  BY DEF CreateOrUpdate, Errors

\* A deleted binding is gone, or still a binding.
LEMMA DeletedType ==
  ASSUME NEW b \in Binding \union {Absent}
  PROVE  Deleted(b) \in Binding \union {Absent}
  BY DEF Deleted, Binding

\* A binding that is created starts as a binding.
LEMMA NewBindingType == NewBinding \in Binding
PROOF
  <1>1. (CHOOSE r \in Roles : TRUE) \in Roles
    BY SpecsAssumption
  <1> QED BY <1>1 DEF NewBinding, Binding, SubjectLists

\* A namespace that is created starts without an inventory.
LEMMA NewNamespaceType == NewNamespace \in Namespace /\ NewNamespace.inventory = Unset
PROOF
  <1>1. <<>> \in [{} -> MetaValues]
    OBVIOUS
  <1>2. <<>> \in MetaMaps
    BY <1>1 DEF MetaMaps
  <1> QED BY <1>2 DEF NewNamespace, Namespace

\* A new resourceVersion makes a version of a version.
LEMMA Renumbered ==
  ASSUME NEW new \in OwnerVersion, NEW n \in Nat
  PROVE  [new EXCEPT !.rv = n] \in OwnerVersion
  BY DEF OwnerVersion

\* A write to the owner keeps the owner and its watch events versions.
LEMMA WriteOwnerType ==
  ASSUME TypeOK, NEW new \in OwnerVersion, WriteOwner(new)
  PROVE  owner' \in OwnerVersion /\ watch' \subseteq OwnerVersion
PROOF
  <1> DEFINE next == [new EXCEPT !.rv = owner.rv + 1]
  <1>1. owner \in OwnerVersion /\ watch \subseteq OwnerVersion
    BY DEF TypeOK
  <1>2. next \in OwnerVersion
    BY <1>1, Renumbered DEF OwnerVersion
  <1>3. \/ owner' = owner /\ watch' = watch
        \/ owner' = next /\ watch' = watch \union {next}
    BY DEF WriteOwner
  <1> HIDE DEF next
  <1> QED BY <1>1, <1>2, <1>3

-----------------------------------------------------------------------------
(* The type invariant, in the parts that actions change or leave alone *)

OwnerTyped == owner \in OwnerVersion /\ watch \subseteq OwnerVersion
StoreTyped ==
  /\ namespace \in Namespace \union {Absent}
  /\ quotas \in [QuotaNames -> Quota \union {Absent}]
  /\ bindings \in [BindingKeys -> Binding \union {Absent}]
  /\ clusterRoles \in SUBSET Roles
PassTyped ==
  /\ mns \in OwnerVersion /\ queued \in BOOLEAN /\ pc \in Places
  /\ doomed \subseteq (IF pc = "dropQuotas" THEN QuotaNames ELSE BindingKeys)
  /\ todo \subseteq (IF pc = "quotas" THEN DOMAIN mns.spec.quotas
                      ELSE IF pc \in {"bindings", "ensure"} THEN Positions(mns.spec) ELSE {})
  /\ kept \subseteq BindingKeys
  /\ invalid \in Seq(Roles) /\ syncErr \in Errors
RestTyped ==
  /\ cache \in Copies
  /\ gauge \in Nat \union {Absent}
  /\ edits \in 0..MaxEdits /\ faults \in 0..MaxFaults
NewsTyped == news \in Events

\* TypeOK in five parts, one for each group of variables a step writes.
LEMMA Parts == TypeOK <=> OwnerTyped /\ StoreTyped /\ PassTyped /\ RestTyped /\ NewsTyped
  BY DEF TypeOK, OwnerTyped, StoreTyped, PassTyped, RestTyped, NewsTyped

\* The initial state is well typed.
LEMMA TypeInit == Init => TypeOK
PROOF
  <1> SUFFICES ASSUME Init PROVE TypeOK
    OBVIOUS
  <1>1. OwnerTyped
    BY NoOwnerType DEF Init, OwnerTyped
  <1>2. bindings \in [BindingKeys -> Binding \union {Absent}]
    <2>1. \A k \in Leftovers : [NewBinding EXCEPT !.owned = TRUE, !.role = k.name[3]] \in Binding
      BY NewBindingType, NamesAssumption DEF Binding
    <2> QED BY <2>1 DEF Init
  <1>3. StoreTyped
    <2>1. namespace \in Namespace \union {Absent}
      BY NewNamespaceType DEF Init
    <2>2. quotas \in [QuotaNames -> Quota \union {Absent}] /\ clusterRoles \in SUBSET Roles
      BY DEF Init
    <2> QED BY <1>2, <2>1, <2>2 DEF StoreTyped
  <1>4. PassTyped
    <2>1. mns \in OwnerVersion
      BY NoOwnerType DEF Init
    <2>2. invalid = <<>>
      BY DEF Init
    <2>3. invalid \in Seq(Roles)
      BY <2>2
    <2> QED BY <2>1, <2>3 DEF Init, PassTyped, Places, Errors
  <1>5. RestTyped
    <2>1. cache \in Copies
      BY <1>1, <1>3 DEF Init, Copies, OwnerTyped, StoreTyped
    <2>2. 0 \in 0..MaxEdits /\ 0 \in 0..MaxFaults
      BY NamesAssumption
    <2> QED BY <2>1, <2>2 DEF Init, RestTyped
  <1>6. NewsTyped
    BY DEF Init, NewsTyped, NoEvents, Events
  <1> QED BY <1>1, <1>3, <1>4, <1>5, <1>6, Parts

\* A finished pass leaves no locals behind (Reconcile returns).
LEMMA DoneTyped ==
  ASSUME PassTyped, NEW retry \in BOOLEAN, Done(retry)
  PROVE  PassTyped'
PROOF
  <1>1. mns' \in OwnerVersion
    BY NoOwnerType DEF Done
  <1>2. invalid' \in Seq(Roles)
    BY DEF Done
  <1> QED BY <1>1, <1>2 DEF Done, PassTyped, Places, Errors

\* A sync that returns an error goes on to the status with it.
LEMMA GiveUpTyped ==
  ASSUME PassTyped, NEW error \in Errors, GiveUp(error)
  PROVE  PassTyped'
PROOF
  <1>1. invalid' \in Seq(Roles)
    BY DEF GiveUp
  <1> QED BY <1>1 DEF GiveUp, PassTyped, Places

\* ownedBy lists bindings.
LEMMA OwnedBindingsType == \A set : OwnedBindings(set) \subseteq BindingKeys
  BY DEF OwnedBindings

\* The owner with other finalizers is a version of it.
LEMMA FinalizersTyped ==
  ASSUME OwnerTyped, NEW fs \in SUBSET Finalizers
  PROVE  WithFinalizers(fs) \in OwnerVersion
  BY DEF OwnerTyped, WithFinalizers, OwnerVersion

\* ensureNamespace's call leaves a namespace, or none.
LEMMA NamespaceCallTyped ==
  ASSUME StoreTyped, PassTyped, RestTyped
  PROVE  NamespaceCall.error \in Errors /\ NamespaceCall.object \in Namespace \union {Absent}
PROOF
  <1> DEFINE ns      == IF cache.namespace = Absent THEN NewNamespace ELSE cache.namespace
             verdict == Accepts(Elements(mns.spec.labels) \union Elements(mns.spec.annotations))
             desired == MutateNamespace(ns, Owner, mns.spec)
  <1>1. ns \in Namespace
    BY NewNamespaceType DEF RestTyped, Copies
  <1>2. namespace \in Namespace \union {Absent} /\ mns.spec \in Specs
    BY DEF StoreTyped, PassTyped, OwnerVersion
  <1>3. verdict \in Errors
    BY DEF Accepts, Errors
  <1>4. CASE ns.inventory = Malformed
    BY <1>2, <1>4 DEF NamespaceCall, Errors
  <1>5. CASE ns.inventory # Malformed
    <2>1. desired \in Namespace
      BY <1>1, <1>2, <1>5, MutateType
    <2>2. NamespaceCall = CreateOrUpdate(cache.namespace, desired, namespace, verdict, verdict)
      BY <1>5 DEF NamespaceCall
    <2> HIDE DEF desired, verdict
    <2> QED BY <2>1, <2>2, <1>2, <1>3, CallType
  <1> QED BY <1>4, <1>5

\* reconcileQuota's call leaves a quota, or none.
LEMMA QuotaCallTyped ==
  ASSUME StoreTyped, PassTyped, NEW q \in DOMAIN mns.spec.quotas
  PROVE  /\ q \in QuotaNames
         /\ QuotaCall(q).error \in Errors /\ QuotaCall(q).object \in Quota \union {Absent}
PROOF
  <1> DEFINE desired == [owned |-> TRUE, limits |-> mns.spec.quotas[q]]
             verdict == Accepts({mns.spec.quotas[q]})
             create  == Creation(verdict)
             cached  == cache.quotas[q]
             object  == quotas[q]
  <1>1. mns.spec \in Specs
    BY DEF PassTyped, OwnerVersion
  <1>2. q \in QuotaNames /\ mns.spec.quotas[q] \in Limits
    BY <1>1, RequestTypes
  <1>3. object \in Quota \union {Absent}
    BY <1>2 DEF StoreTyped
  <1>4. verdict \in Errors /\ create \in Errors
    BY DEF Accepts, Creation, Errors
  <1>5. desired \in Quota
    BY <1>2 DEF Quota
  <1>6. QuotaCall(q) = CreateOrUpdate(cached, desired, object, create, verdict)
    BY DEF QuotaCall
  <1> HIDE DEF desired, verdict, create, cached, object
  <1> QED BY <1>2, <1>3, <1>4, <1>5, <1>6 DEF CreateOrUpdate, Errors

\* ensureRoleBinding's call leaves a binding, or none.
LEMMA BindingCallTyped ==
  ASSUME StoreTyped, PassTyped, RestTyped, NEW p \in Positions(mns.spec)
  PROVE  /\ KeyAt(mns.spec, p) \in BindingKeys /\ RoleAt(mns.spec, p) \in Roles
         /\ BindingCall(p).error \in Errors /\ BindingCall(p).object \in Binding \union {Absent}
PROOF
  <1> DEFINE k        == KeyAt(mns.spec, p)
             role     == RoleAt(mns.spec, p)
             subjects == subjectsFor(MappingAt(mns.spec, p))
             cached   == cache.bindings[k]
             object   == bindings[k]
             base     == IF cached = Absent THEN NewBinding ELSE cached
             desired  == DesiredBinding(base, role, subjects)
             verdict  == IF role \in Refused THEN "failed" ELSE "none"
             create   == Creation(verdict)
             update   == IF base.role # role THEN "invalid" ELSE verdict
  <1>1. mns.spec \in Specs
    BY DEF PassTyped, OwnerVersion
  <1>2. k \in BindingKeys /\ role \in Roles /\ subjects \in SubjectLists
    BY <1>1, KeyTypes
  <1>3. object \in Binding \union {Absent} /\ cached \in Binding \union {Absent}
    BY <1>2 DEF StoreTyped, RestTyped, Copies
  <1>4. create \in Errors /\ update \in Errors
    BY DEF Creation, Errors
  <1>5. base \in Binding
    BY <1>3, NewBindingType
  <1>6. desired \in Binding
    <2> HIDE DEF base, role, subjects, cached
    <2> QED BY <1>2, <1>5 DEF DesiredBinding, Binding
  <1>7. BindingCall(p) = CreateOrUpdate(cached, desired, object, create, update)
    BY DEF BindingCall
  <1> HIDE DEF cached, object, desired, create, update
  <1>8. BindingCall(p).error \in Errors /\ BindingCall(p).object \in Binding \union {Absent}
    BY <1>3, <1>4, <1>6, <1>7 DEF CreateOrUpdate, Errors
  <1> QED BY <1>2, <1>8

\* The merge patch of a status is a status.
LEMMA PatchTyped ==
  ASSUME OwnerTyped, PassTyped
  PROVE  [owner EXCEPT !.status = PatchedStatus] \in OwnerVersion
PROOF
  <1>1. owner.status \in Status /\ mns.status \in Status /\ mns.generation \in Nat
    BY DEF OwnerTyped, PassTyped, OwnerVersion
  <1>2. Outcome \in Status
    BY <1>1 DEF Outcome, Report, PassTyped, Status, Condition
  <1>3. PatchedStatus \in Status
    BY <1>1, <1>2 DEF PatchedStatus, MergePatch, Status
  <1> QED BY <1>3 DEF OwnerTyped, OwnerVersion

\* An event names the object it is about, whatever a step changes.
LEMMA NewsStep == NewsTyped /\ [Next]_vars => NewsTyped'
PROOF
  <1> SUFFICES ASSUME NewsTyped, [Next]_vars PROVE NewsTyped'
    OBVIOUS
  <1>1. CASE Announce
    <2>1. news'.namespace \in BOOLEAN
      BY <1>1 DEF Announce, NewsTyped, Events
    <2>2. news'.quotas \subseteq QuotaNames /\ news'.bindings \subseteq BindingKeys
      BY <1>1 DEF Announce, NewsTyped, Events
    <2>3. news' = [namespace |-> news'.namespace, quotas |-> news'.quotas,
                   bindings |-> news'.bindings]
      BY <1>1 DEF Announce
    <2> QED BY <2>1, <2>2, <2>3 DEF NewsTyped, Events
  <1>2. CASE UNCHANGED news
    BY <1>2 DEF NewsTyped
  <1>3. CASE news' = NoEvents
    BY <1>3 DEF NewsTyped, NoEvents, Events
  <1>4. CASE DeliverNamespace
    BY <1>4 DEF DeliverNamespace, NewsTyped, Events
  <1>5. ASSUME NEW q \in QuotaNames, DeliverQuota(q) PROVE NewsTyped'
    BY <1>5 DEF DeliverQuota, NewsTyped, Events
  <1>6. ASSUME NEW k \in BindingKeys, DeliverBinding(k) PROVE NewsTyped'
    BY <1>6 DEF DeliverBinding, NewsTyped, Events
  <1>7. CASE Deliver
    BY <1>7, <1>2, <1>4, <1>5, <1>6 DEF Deliver, DeliverOwner, Resync, DeliverRole
  <1>8. CASE Users
    BY <1>8, <1>2 DEF Users, Edit, CreateOwner, EditOwner, DeleteOwner, AddForeign,
                      RemoveForeign, ForceRelease
  <1>9. CASE Others
    BY <1>9, <1>1, <1>2, <1>3
       DEF Others, CallFails, Crash, Elsewhere, ToggleRole, DriftBinding, RelabelBinding,
           HoldBinding, DriftQuota, DeleteNamespace, ChangeMetadata, CorruptInventory
  <1> QED BY <1>1, <1>2, <1>7, <1>8, <1>9 DEF Next, Worker, NamespaceController, LetGo, vars

\* Every step keeps the types: one step of the proof for each action.
LEMMA TypeStep == TypeOK /\ [Next]_vars => TypeOK'
PROOF
  <1> DEFINE TypedParts == OwnerTyped /\ StoreTyped /\ PassTyped /\ RestTyped
  <1> SUFFICES ASSUME TypeOK, TypedParts, [Next]_vars PROVE TypedParts'
    BY NewsStep DEF TypeOK, OwnerTyped, StoreTyped, PassTyped, RestTyped, NewsTyped
  <1>1. CASE Reconcile
    <2>1. OwnerTyped' /\ StoreTyped' /\ RestTyped'
      BY <1>1 DEF Reconcile, OwnerTyped, StoreTyped, RestTyped, live, budget
    <2>2. PassTyped'
      <3>1. mns' \in OwnerVersion
        BY <1>1, NoOwnerType DEF Reconcile, RestTyped, Copies
      <3> QED BY <1>1, <3>1 DEF Reconcile, PassTyped, FirstStep, Places
    <2> QED BY <2>1, <2>2
  <1>2. CASE Finalize
    <2>1. OwnerTyped' /\ StoreTyped'
      BY <1>2 DEF Finalize, OwnerTyped, StoreTyped, live, budget
    <2>2. PassTyped'
      BY <1>2, OwnedBindingsType DEF Finalize, PassTyped, Places
    <2>3. RestTyped'
      BY <1>2 DEF Finalize, RestTyped, budget
    <2> QED BY <2>1, <2>2, <2>3
  <1>3. CASE Unbound
    <2>1. OwnerTyped' /\ StoreTyped' /\ RestTyped'
      BY <1>3 DEF Unbound, OwnerTyped, StoreTyped, RestTyped, live, budget
    <2>2. PassTyped'
      BY <1>3, DoneTyped DEF Unbound
    <2> QED BY <2>1, <2>2
  <1>4. CASE Release
    <2>1. StoreTyped' /\ RestTyped'
      BY <1>4 DEF Release, StoreTyped, RestTyped, live, budget
    <2>2. OwnerTyped'
      <3>1. mns.finalizers \ {Finalizer} \in SUBSET Finalizers
        BY DEF PassTyped, OwnerVersion, Finalizers
      <3>2. WithFinalizers(mns.finalizers \ {Finalizer}) \in OwnerVersion
        BY <3>1, FinalizersTyped
      <3>3. CASE PatchAccepted
        BY <1>4, <3>2, <3>3, WriteOwnerType DEF Release, OwnerTyped
      <3>4. CASE ~PatchAccepted
        BY <1>4, <3>4 DEF Release, OwnerTyped
      <3> QED BY <3>3, <3>4
    <2>3. PassTyped'
      BY <1>4, DoneTyped DEF Release
    <2> QED BY <2>1, <2>2, <2>3
  <1>5. CASE Adopt
    <2>1. StoreTyped' /\ RestTyped'
      BY <1>5 DEF Adopt, StoreTyped, RestTyped, live, budget
    <2>2. OwnerTyped'
      <3>1. mns.finalizers \union {Finalizer} \in SUBSET Finalizers
        BY DEF PassTyped, OwnerVersion, Finalizers
      <3>2. WithFinalizers(mns.finalizers \union {Finalizer}) \in OwnerVersion
        BY <3>1, FinalizersTyped
      <3>3. CASE PatchAccepted
        BY <1>5, <3>2, <3>3, WriteOwnerType DEF Adopt, OwnerTyped
      <3>4. CASE ~PatchAccepted
        BY <1>5, <3>4 DEF Adopt, OwnerTyped
      <3> QED BY <3>3, <3>4
    <2>3. PassTyped'
      BY <1>5, DoneTyped DEF Adopt
    <2> QED BY <2>1, <2>2, <2>3
  <1>6. CASE Prune
    <2>1. OwnerTyped' /\ StoreTyped' /\ RestTyped'
      BY <1>6 DEF Prune, OwnerTyped, StoreTyped, RestTyped, live, budget
    <2>2. PassTyped'
      BY <1>6, OwnedBindingsType DEF Prune, PassTyped, Places
    <2> QED BY <2>1, <2>2
  <1>7. CASE DeleteBinding
    <2>1. OwnerTyped' /\ RestTyped'
      BY <1>7 DEF DeleteBinding, OwnerTyped, RestTyped, live, budget
    <2>2. StoreTyped'
      <3>1. PICK k \in doomed : bindings' = [bindings EXCEPT ![k] = Deleted(@)]
        BY <1>7 DEF DeleteBinding
      <3>2. k \in BindingKeys /\ bindings[k] \in Binding \union {Absent}
        BY <1>7, <3>1 DEF DeleteBinding, PassTyped, StoreTyped
      <3>3. Deleted(bindings[k]) \in Binding \union {Absent}
        BY <3>2, DeletedType
      <3>4. bindings' \in [BindingKeys -> Binding \union {Absent}]
        BY <3>1, <3>2, <3>3 DEF StoreTyped
      <3> QED BY <1>7, <3>4 DEF DeleteBinding, StoreTyped
    <2>3. PassTyped'
      BY <1>7 DEF DeleteBinding, PassTyped
    <2> QED BY <2>1, <2>2, <2>3
  <1>8. CASE EnsureNamespace
    <2>1. OwnerTyped' /\ RestTyped'
      BY <1>8 DEF EnsureNamespace, OwnerTyped, RestTyped, live, budget
    <2>2. StoreTyped'
      BY <1>8, NamespaceCallTyped DEF EnsureNamespace, StoreTyped
    <2>3. PassTyped'
      <3>1. CASE NamespaceCall.error = "none" /\ pc' = "quotas"
        BY <1>8, <3>1 DEF EnsureNamespace, PassTyped, Places, GiveUp
      <3>2. CASE GiveUp(NamespaceCall.error)
        BY <3>2, NamespaceCallTyped, GiveUpTyped
      <3> QED BY <1>8, <3>1, <3>2 DEF EnsureNamespace
    <2> QED BY <2>1, <2>2, <2>3
  <1>9. CASE EnsureQuota
    <2>1. OwnerTyped' /\ RestTyped'
      BY <1>9 DEF EnsureQuota, OwnerTyped, RestTyped, live, budget
    <2>2. StoreTyped'
      <3>1. PICK q \in todo : quotas' = [quotas EXCEPT ![q] = QuotaCall(q).object]
        BY <1>9 DEF EnsureQuota
      <3>2. q \in QuotaNames /\ QuotaCall(q).object \in Quota \union {Absent}
        BY <1>9, QuotaCallTyped DEF EnsureQuota, PassTyped
      <3> QED BY <1>9, <3>1, <3>2 DEF EnsureQuota, StoreTyped
    <2>3. PassTyped'
      <3>1. PICK q \in todo :
              \/ /\ todo' = todo \ {q}
                 /\ UNCHANGED <<pc, mns, doomed, kept, invalid, syncErr, queued>>
              \/ GiveUp(QuotaCall(q).error)
        BY <1>9 DEF EnsureQuota
      <3>2. QuotaCall(q).error \in Errors
        BY <1>9, QuotaCallTyped DEF EnsureQuota, PassTyped
      <3>3. CASE GiveUp(QuotaCall(q).error)
        BY <3>2, <3>3, GiveUpTyped
      <3>4. CASE ~GiveUp(QuotaCall(q).error)
        BY <1>9, <3>1, <3>4 DEF EnsureQuota, PassTyped
      <3> QED BY <3>3, <3>4
    <2> QED BY <2>1, <2>2, <2>3
  <1>10. CASE PruneQuotas
    <2>1. OwnerTyped' /\ StoreTyped' /\ RestTyped'
      BY <1>10 DEF PruneQuotas, OwnerTyped, StoreTyped, RestTyped, live, budget
    <2>2. PassTyped'
      BY <1>10 DEF PruneQuotas, PassTyped, Places, OwnedQuotas
    <2> QED BY <2>1, <2>2
  <1>11. CASE DeleteQuota
    <2>1. OwnerTyped' /\ RestTyped'
      BY <1>11 DEF DeleteQuota, OwnerTyped, RestTyped, live, budget
    <2>2. StoreTyped'
      BY <1>11 DEF DeleteQuota, StoreTyped
    <2>3. PassTyped'
      BY <1>11 DEF DeleteQuota, PassTyped
    <2> QED BY <2>1, <2>2, <2>3
  <1>12. CASE ReconcileBindings
    <2>1. OwnerTyped' /\ StoreTyped' /\ RestTyped'
      BY <1>12 DEF ReconcileBindings, OwnerTyped, StoreTyped, RestTyped, live, budget
    <2>2. PassTyped'
      BY <1>12 DEF ReconcileBindings, PassTyped, Places
    <2> QED BY <2>1, <2>2
  <1>13. CASE MissingRole
    <2>1. OwnerTyped' /\ StoreTyped' /\ RestTyped'
      BY <1>13 DEF MissingRole, OwnerTyped, StoreTyped, RestTyped, live, budget
    <2>2. PassTyped'
      <3>1. PICK p \in todo : /\ invalid' = Append(invalid, RoleAt(mns.spec, p))
                         /\ todo' = todo \ {p}
        BY <1>13 DEF MissingRole
      <3>2. p \in Positions(mns.spec) /\ mns.spec \in Specs
        BY <1>13 DEF MissingRole, PassTyped, OwnerVersion
      <3>3. RoleAt(mns.spec, p) \in Roles
        BY <3>2, KeyTypes
      <3>4. invalid' \in Seq(Roles)
        BY <3>1, <3>3 DEF PassTyped
      <3> QED BY <1>13, <3>1, <3>4 DEF MissingRole, PassTyped
    <2> QED BY <2>1, <2>2
  <1>14. CASE ReplaceBinding
    <2>1. OwnerTyped' /\ RestTyped'
      BY <1>14 DEF ReplaceBinding, OwnerTyped, RestTyped, live, budget
    <2>2. StoreTyped'
      <3>1. PICK p \in todo : bindings' \in {bindings, [bindings EXCEPT ![KeyAt(mns.spec, p)] = Deleted(@)]}
        BY <1>14 DEF ReplaceBinding
      <3>2. KeyAt(mns.spec, p) \in BindingKeys
        BY <1>14, BindingCallTyped DEF ReplaceBinding, PassTyped
      <3>3. Deleted(bindings[KeyAt(mns.spec, p)]) \in Binding \union {Absent}
        BY <3>2, DeletedType DEF StoreTyped
      <3>4. bindings' \in [BindingKeys -> Binding \union {Absent}]
        BY <3>1, <3>2, <3>3 DEF StoreTyped
      <3> QED BY <1>14, <3>4 DEF ReplaceBinding, StoreTyped
    <2>3. PassTyped'
      <3>1. CASE GiveUp("failed")
        BY <3>1, GiveUpTyped DEF Errors
      <3>2. CASE pc' = "ensure" /\ UNCHANGED <<mns, doomed, todo, kept, invalid, syncErr, queued>>
        BY <1>14, <3>2 DEF ReplaceBinding, PassTyped, Places
      <3> QED BY <1>14, <3>1, <3>2 DEF ReplaceBinding
    <2> QED BY <2>1, <2>2, <2>3
  <1>15. CASE EnsureBinding
    <2>1. OwnerTyped' /\ RestTyped'
      BY <1>15 DEF EnsureBinding, OwnerTyped, RestTyped, live, budget
    <2>2. StoreTyped'
      <3>1. PICK p \in todo : bindings' = [bindings EXCEPT ![KeyAt(mns.spec, p)] = BindingCall(p).object]
        BY <1>15 DEF EnsureBinding
      <3>2. KeyAt(mns.spec, p) \in BindingKeys /\ BindingCall(p).object \in Binding \union {Absent}
        BY <1>15, BindingCallTyped DEF EnsureBinding, PassTyped
      <3>3. bindings' \in [BindingKeys -> Binding \union {Absent}]
        BY <3>1, <3>2 DEF StoreTyped
      <3> QED BY <1>15, <3>3 DEF EnsureBinding, StoreTyped
    <2>3. PassTyped'
      <3>1. PICK p \in todo :
              \/ /\ pc' = "bindings" /\ todo' = todo \ {p}
                 /\ kept' = kept \union {KeyAt(mns.spec, p)}
                 /\ UNCHANGED <<mns, doomed, invalid, syncErr, queued>>
              \/ GiveUp(BindingCall(p).error)
        BY <1>15 DEF EnsureBinding
      <3>2. KeyAt(mns.spec, p) \in BindingKeys /\ BindingCall(p).error \in Errors
        BY <1>15, BindingCallTyped DEF EnsureBinding, PassTyped
      <3>3. CASE GiveUp(BindingCall(p).error)
        BY <3>2, <3>3, GiveUpTyped
      <3>4. CASE ~GiveUp(BindingCall(p).error)
        BY <1>15, <3>1, <3>2, <3>4 DEF EnsureBinding, PassTyped, Places
      <3> QED BY <3>3, <3>4
    <2> QED BY <2>1, <2>2, <2>3
  <1>16. CASE PruneUnresolved
    <2>1. OwnerTyped' /\ StoreTyped' /\ RestTyped'
      BY <1>16 DEF PruneUnresolved, OwnerTyped, StoreTyped, RestTyped, live, budget
    <2>2. PassTyped'
      BY <1>16, OwnedBindingsType DEF PruneUnresolved, PassTyped, Places
    <2> QED BY <2>1, <2>2
  <1>17. CASE ReportStatus
    <2>1. StoreTyped'
      BY <1>17 DEF ReportStatus, StoreTyped, live
    <2>2. OwnerTyped'
      <3>1. CASE owner.present
        BY <1>17, <3>1, PatchTyped, WriteOwnerType DEF ReportStatus, OwnerTyped
      <3>2. CASE ~owner.present
        BY <1>17, <3>2 DEF ReportStatus, OwnerTyped
      <3> QED BY <3>1, <3>2
    <2>3. PassTyped'
      BY <1>17, DoneTyped DEF ReportStatus
    <2>4. RestTyped'
      <3>1. Len(invalid) \in Nat
        BY DEF PassTyped
      <3> QED BY <1>17, <3>1 DEF ReportStatus, RestTyped, SetGauge, budget
    <2> QED BY <2>1, <2>2, <2>3, <2>4
  <1>18. CASE DeliverOwner
    <2>1. StoreTyped'
      BY <1>18 DEF DeliverOwner, StoreTyped, worker, live, budget
    <2>2. RestTyped'
      <3>1. PICK v \in watch : cache' = [cache EXCEPT !.owner = v]
        BY <1>18 DEF DeliverOwner
      <3>2. v \in OwnerVersion
        BY <3>1 DEF OwnerTyped
      <3> QED BY <1>18, <3>1, <3>2 DEF DeliverOwner, RestTyped, Copies, budget
    <2>3. OwnerTyped'
      BY <1>18 DEF DeliverOwner, OwnerTyped
    <2>4. PassTyped'
      BY <1>18 DEF DeliverOwner, PassTyped, worker
    <2> QED BY <2>1, <2>2, <2>3, <2>4
  <1>19. CASE Resync
    <2>1. OwnerTyped' /\ StoreTyped' /\ RestTyped'
      BY <1>19 DEF Resync, OwnerTyped, StoreTyped, RestTyped, worker, live, budget
    <2>2. PassTyped'
      BY <1>19 DEF Resync, PassTyped, worker
    <2> QED BY <2>1, <2>2
  <1>20. CASE DeliverNamespace
    <2>1. OwnerTyped' /\ StoreTyped'
      BY <1>20 DEF DeliverNamespace, OwnerTyped, StoreTyped, worker, live, budget
    <2>2. RestTyped'
      BY <1>20 DEF DeliverNamespace, RestTyped, Copies, StoreTyped, budget
    <2>3. PassTyped'
      BY <1>20 DEF DeliverNamespace, PassTyped, worker
    <2> QED BY <2>1, <2>2, <2>3
  <1>21. ASSUME NEW q \in QuotaNames, DeliverQuota(q) PROVE TypedParts'
    <2>1. OwnerTyped' /\ StoreTyped'
      BY <1>21 DEF DeliverQuota, OwnerTyped, StoreTyped, worker, live, budget
    <2>2. RestTyped'
      <3>1. cache.quotas \in [QuotaNames -> Quota \union {Absent}]
        BY DEF RestTyped, Copies
      <3>2. [cache.quotas EXCEPT ![q] = quotas[q]] \in [QuotaNames -> Quota \union {Absent}]
        BY <3>1 DEF StoreTyped
      <3> QED BY <1>21, <3>2 DEF DeliverQuota, RestTyped, Copies, budget
    <2>3. PassTyped'
      BY <1>21 DEF DeliverQuota, PassTyped, worker
    <2> QED BY <2>1, <2>2, <2>3
  <1>22. ASSUME NEW k \in BindingKeys, DeliverBinding(k) PROVE TypedParts'
    <2>1. OwnerTyped' /\ StoreTyped'
      BY <1>22 DEF DeliverBinding, OwnerTyped, StoreTyped, worker, live, budget
    <2>2. RestTyped'
      <3>1. cache.bindings \in [BindingKeys -> Binding \union {Absent}]
        BY DEF RestTyped, Copies
      <3>2. [cache.bindings EXCEPT ![k] = bindings[k]] \in [BindingKeys -> Binding \union {Absent}]
        BY <3>1 DEF StoreTyped
      <3> QED BY <1>22, <3>2 DEF DeliverBinding, RestTyped, Copies, budget
    <2>3. PassTyped'
      BY <1>22 DEF DeliverBinding, PassTyped, worker
    <2> QED BY <2>1, <2>2, <2>3
  <1>23. ASSUME NEW r \in Roles, DeliverRole(r) PROVE TypedParts'
    <2>1. OwnerTyped' /\ StoreTyped'
      BY <1>23 DEF DeliverRole, OwnerTyped, StoreTyped, worker, live, budget
    <2>2. RestTyped'
      BY <1>23 DEF DeliverRole, RestTyped, Copies, budget
    <2>3. PassTyped'
      BY <1>23 DEF DeliverRole, PassTyped, worker
    <2> QED BY <2>1, <2>2, <2>3
  <1>24. CASE NamespaceController
    <2>1. OwnerTyped' /\ PassTyped' /\ RestTyped'
      BY <1>24 DEF NamespaceController, OwnerTyped, PassTyped, RestTyped, worker, live, budget
    <2>2. StoreTyped'
      <3>1. ASSUME NEW k \in InNamespace, bindings' = [bindings EXCEPT ![k] = Deleted(@)],
                  UNCHANGED <<namespace, quotas>>
           PROVE  StoreTyped'
        <4>1. k \in BindingKeys /\ Deleted(bindings[k]) \in Binding \union {Absent}
          BY DeletedType DEF InNamespace, StoreTyped
        <4> QED BY <1>24, <3>1, <4>1 DEF NamespaceController, StoreTyped
      <3>2. CASE \E q \in QuotaNames : quotas' = [quotas EXCEPT ![q] = Absent] /\ UNCHANGED <<namespace, bindings>>
        BY <1>24, <3>2 DEF NamespaceController, StoreTyped
      <3>3. CASE UNCHANGED <<quotas, bindings>> /\ namespace' = Absent
        BY <1>24, <3>3 DEF NamespaceController, StoreTyped
      <3> QED BY <1>24, <3>1, <3>2, <3>3 DEF NamespaceController
    <2> QED BY <2>1, <2>2
  <1>25. ASSUME NEW k \in BindingKeys, LetGo(k) PROVE TypedParts'
    <2>1. OwnerTyped' /\ PassTyped' /\ RestTyped'
      BY <1>25 DEF LetGo, OwnerTyped, PassTyped, RestTyped, worker, live, budget
    <2>2. StoreTyped'
      <3>1. bindings[k] \in Binding
        BY <1>25 DEF LetGo, StoreTyped
      <3>2. [bindings[k] EXCEPT !.held = FALSE] \in Binding
        BY <3>1 DEF Binding
      <3> QED BY <1>25, <3>2 DEF LetGo, StoreTyped
    <2> QED BY <2>1, <2>2
  <1>26. ASSUME NEW s \in Specs, CreateOwner(s) PROVE TypedParts'
    <2>1. StoreTyped' /\ PassTyped'
      BY <1>26 DEF CreateOwner, StoreTyped, PassTyped, Edit, worker, live, budget
    <2>2. OwnerTyped'
      <3>1. [NoOwner EXCEPT !.present = TRUE, !.generation = 1, !.spec = s] \in OwnerVersion
        BY NoOwnerType DEF OwnerVersion
      <3> QED BY <1>26, <3>1, WriteOwnerType DEF CreateOwner, Created, OwnerTyped
    <2>3. RestTyped'
      BY <1>26, NamesAssumption DEF CreateOwner, Edit, RestTyped
    <2> QED BY <2>1, <2>2, <2>3
  <1>27. ASSUME NEW s \in Specs, EditOwner(s) PROVE TypedParts'
    <2>1. StoreTyped' /\ PassTyped'
      BY <1>27 DEF EditOwner, StoreTyped, PassTyped, Edit, worker, live, budget
    <2>2. OwnerTyped'
      <3>1. owner.generation + 1 \in Nat
        BY DEF OwnerTyped, OwnerVersion
      <3>2. \A g \in Nat : [owner EXCEPT !.spec = s, !.generation = g] \in OwnerVersion
        BY DEF OwnerTyped, OwnerVersion
      <3> QED BY <1>27, <3>1, <3>2, WriteOwnerType DEF EditOwner, Edited, OwnerTyped
    <2>3. RestTyped'
      BY <1>27, NamesAssumption DEF EditOwner, Edit, RestTyped
    <2> QED BY <2>1, <2>2, <2>3
  <1>28. CASE DeleteOwner
    <2>1. StoreTyped' /\ PassTyped'
      BY <1>28 DEF DeleteOwner, StoreTyped, PassTyped, Edit, worker, live, budget
    <2>2. OwnerTyped'
      <3>1. [owner EXCEPT !.present = FALSE] \in OwnerVersion
        BY DEF OwnerTyped, OwnerVersion
      <3>2. owner.generation + 1 \in Nat
        BY DEF OwnerTyped, OwnerVersion
      <3>3. \A g \in Nat : [owner EXCEPT !.deleting = TRUE, !.generation = g] \in OwnerVersion
        BY DEF OwnerTyped, OwnerVersion
      <3> QED BY <1>28, <3>1, <3>2, <3>3, WriteOwnerType DEF DeleteOwner, Condemned, OwnerTyped
    <2>3. RestTyped'
      BY <1>28, NamesAssumption DEF DeleteOwner, Edit, RestTyped
    <2> QED BY <2>1, <2>2, <2>3
  <1>29. ASSUME NEW f \in Foreign, AddForeign(f) PROVE TypedParts'
    <2>1. StoreTyped' /\ PassTyped'
      BY <1>29 DEF AddForeign, StoreTyped, PassTyped, Edit, worker, live, budget
    <2>2. OwnerTyped'
      <3>1. owner.finalizers \union {f} \in SUBSET Finalizers
        BY DEF OwnerTyped, OwnerVersion, Finalizers
      <3>2. WithFinalizers(owner.finalizers \union {f}) \in OwnerVersion
        BY <3>1, FinalizersTyped
      <3> QED BY <1>29, <3>2, WriteOwnerType DEF AddForeign, OwnerTyped
    <2>3. RestTyped'
      BY <1>29, NamesAssumption DEF AddForeign, Edit, RestTyped
    <2> QED BY <2>1, <2>2, <2>3
  <1>30. ASSUME NEW f \in Foreign, RemoveForeign(f) PROVE TypedParts'
    <2>1. StoreTyped' /\ PassTyped'
      BY <1>30 DEF RemoveForeign, StoreTyped, PassTyped, Edit, worker, live, budget
    <2>2. OwnerTyped'
      <3>1. owner.finalizers \ {f} \in SUBSET Finalizers
        BY DEF OwnerTyped, OwnerVersion, Finalizers
      <3>2. WithFinalizers(owner.finalizers \ {f}) \in OwnerVersion
        BY <3>1, FinalizersTyped
      <3> QED BY <1>30, <3>2, WriteOwnerType DEF RemoveForeign, OwnerTyped
    <2>3. RestTyped'
      BY <1>30, NamesAssumption DEF RemoveForeign, Edit, RestTyped
    <2> QED BY <2>1, <2>2, <2>3
  <1>31. CASE ForceRelease
    <2>1. StoreTyped' /\ PassTyped'
      BY <1>31 DEF ForceRelease, StoreTyped, PassTyped, Edit, worker, live, budget
    <2>2. OwnerTyped'
      <3>1. owner.finalizers \ {Finalizer} \in SUBSET Finalizers
        BY DEF OwnerTyped, OwnerVersion, Finalizers
      <3>2. WithFinalizers(owner.finalizers \ {Finalizer}) \in OwnerVersion
        BY <3>1, FinalizersTyped
      <3> QED BY <1>31, <3>2, WriteOwnerType DEF ForceRelease, OwnerTyped
    <2>3. RestTyped'
      BY <1>31, NamesAssumption DEF ForceRelease, Edit, RestTyped
    <2> QED BY <2>1, <2>2, <2>3
  <1>32. CASE CallFails
    <2>1. StoreTyped'
      BY <1>32 DEF CallFails, StoreTyped, live, budget
    <2>2. OwnerTyped'
      BY <1>32 DEF CallFails, Fault, OwnerTyped
    <2>3. PassTyped'
      <3>1. CASE Done(TRUE)
        BY <3>1, DoneTyped
      <3>2. CASE GiveUp("failed")
        BY <3>2, GiveUpTyped DEF Errors
      <3> QED BY <1>32, <3>1, <3>2 DEF CallFails
    <2>4. RestTyped'
      <3>1. gauge' \in Nat \union {Absent}
        <4>1. Len(invalid) \in Nat
          BY DEF PassTyped
        <4>2. CASE SetGauge
          BY <4>1, <4>2 DEF SetGauge, RestTyped
        <4>3. CASE UNCHANGED gauge
          BY <4>3 DEF RestTyped
        <4> QED BY <1>32, <4>2, <4>3 DEF CallFails
      <3> QED BY <1>32, <3>1, NamesAssumption DEF CallFails, Fault, RestTyped
    <2> QED BY <2>1, <2>2, <2>3, <2>4
  <1>33. CASE Crash
    <2>1. StoreTyped'
      BY <1>33 DEF Crash, StoreTyped, live, budget
    <2>2. OwnerTyped'
      BY <1>33 DEF Crash, Fault, OwnerTyped
    <2>3. PassTyped'
      <3>1. mns' \in OwnerVersion
        BY <1>33, NoOwnerType DEF Crash
      <3>2. owner.present \in BOOLEAN
        BY DEF OwnerTyped, OwnerVersion
      <3>3. invalid' \in Seq(Roles)
        BY <1>33 DEF Crash
      <3> QED BY <1>33, <3>1, <3>2, <3>3 DEF Crash, PassTyped, Places, Errors
    <2>4. RestTyped'
      <3>1. cache' \in Copies
        <4>1. cache' = [owner |-> owner, namespace |-> namespace, quotas |-> quotas,
                        bindings |-> bindings, clusterRoles |-> clusterRoles]
          BY <1>33 DEF Crash
        <4>2. owner \in OwnerVersion
          BY DEF OwnerTyped
        <4> QED BY <4>1, <4>2 DEF Copies, StoreTyped
      <3> QED BY <1>33, <3>1, NamesAssumption DEF Crash, Fault, RestTyped
    <2> QED BY <2>1, <2>2, <2>3, <2>4
  <1>34. ASSUME NEW r \in Roles, ToggleRole(r) PROVE TypedParts'
    <2>1. OwnerTyped' /\ PassTyped'
      BY <1>34 DEF ToggleRole, OwnerTyped, PassTyped, Fault, Elsewhere, worker, live, budget
    <2>2. StoreTyped'
      BY <1>34 DEF ToggleRole, StoreTyped, live
    <2>3. RestTyped'
      BY <1>34, NamesAssumption DEF ToggleRole, Fault, Elsewhere, RestTyped
    <2> QED BY <2>1, <2>2, <2>3
  <1>35. ASSUME NEW k \in BindingKeys, DriftBinding(k) PROVE TypedParts'
    <2>1. OwnerTyped' /\ PassTyped'
      BY <1>35 DEF DriftBinding, OwnerTyped, PassTyped, Fault, Elsewhere, worker, live, budget
    <2>2. StoreTyped'
      <3>1. bindings[k] \in Binding \union {Absent} /\ Outsiders \in SubjectLists
        BY DEF StoreTyped, SubjectLists
      <3>2. Deleted(bindings[k]) \in Binding \union {Absent}
        BY <3>1, DeletedType
      <3>3. bindings[k] # Absent => /\ [bindings[k] EXCEPT !.subjects = Outsiders] \in Binding
                                   /\ [bindings[k] EXCEPT !.owned = FALSE] \in Binding
        BY <3>1 DEF Binding
      <3>4. \A r \in Roles : [NewBinding EXCEPT !.role = r] \in Binding
        BY NewBindingType DEF Binding
      <3>5. \E b \in Binding \union {Absent} : bindings' = [bindings EXCEPT ![k] = b]
        BY <1>35, <3>2, <3>3, <3>4 DEF DriftBinding
      <3> QED BY <1>35, <3>5 DEF DriftBinding, StoreTyped
    <2>3. RestTyped'
      BY <1>35, NamesAssumption DEF DriftBinding, Fault, Elsewhere, RestTyped
    <2> QED BY <2>1, <2>2, <2>3
  <1>36. ASSUME NEW k \in BindingKeys, RelabelBinding(k) PROVE TypedParts'
    <2>1. OwnerTyped' /\ PassTyped'
      BY <1>36 DEF RelabelBinding, OwnerTyped, PassTyped, Fault, Elsewhere, worker, live, budget
    <2>2. StoreTyped'
      <3>1. bindings[k] \in Binding
        BY <1>36 DEF RelabelBinding, StoreTyped
      <3>2. [bindings[k] EXCEPT !.owned = TRUE] \in Binding
        BY <3>1 DEF Binding
      <3> QED BY <1>36, <3>2 DEF RelabelBinding, StoreTyped
    <2>3. RestTyped'
      BY <1>36, NamesAssumption DEF RelabelBinding, Fault, Elsewhere, RestTyped
    <2> QED BY <2>1, <2>2, <2>3
  <1>37. ASSUME NEW k \in BindingKeys, HoldBinding(k) PROVE TypedParts'
    <2>1. OwnerTyped' /\ PassTyped'
      BY <1>37 DEF HoldBinding, OwnerTyped, PassTyped, Fault, Elsewhere, worker, live, budget
    <2>2. StoreTyped'
      <3>1. bindings[k] \in Binding
        BY <1>37 DEF HoldBinding, StoreTyped
      <3>2. [bindings[k] EXCEPT !.held = TRUE] \in Binding
        BY <3>1 DEF Binding
      <3> QED BY <1>37, <3>2 DEF HoldBinding, StoreTyped
    <2>3. RestTyped'
      BY <1>37, NamesAssumption DEF HoldBinding, Fault, Elsewhere, RestTyped
    <2> QED BY <2>1, <2>2, <2>3
  <1>38. ASSUME NEW q \in QuotaNames, DriftQuota(q) PROVE TypedParts'
    <2>1. OwnerTyped' /\ PassTyped'
      BY <1>38 DEF DriftQuota, OwnerTyped, PassTyped, Fault, Elsewhere, worker, live, budget
    <2>2. StoreTyped'
      <3>1. quotas[q] \in Quota
        BY <1>38 DEF DriftQuota, StoreTyped
      <3>2. /\ [quotas[q] EXCEPT !.owned = FALSE] \in Quota
           /\ \A l \in Limits : [quotas[q] EXCEPT !.limits = l] \in Quota
        BY <3>1 DEF Quota
      <3>3. \E new \in Quota \union {Absent} : quotas' = [quotas EXCEPT ![q] = new]
        BY <1>38, <3>2 DEF DriftQuota
      <3> QED BY <1>38, <3>3 DEF DriftQuota, StoreTyped
    <2>3. RestTyped'
      BY <1>38, NamesAssumption DEF DriftQuota, Fault, Elsewhere, RestTyped
    <2> QED BY <2>1, <2>2, <2>3
  <1>39. CASE DeleteNamespace
    <2>1. OwnerTyped' /\ PassTyped'
      BY <1>39 DEF DeleteNamespace, OwnerTyped, PassTyped, Fault, Elsewhere, worker, live, budget
    <2>2. StoreTyped'
      <3>1. [namespace EXCEPT !.terminating = TRUE] \in Namespace
        BY <1>39 DEF DeleteNamespace, NamespaceOpen, StoreTyped, Namespace
      <3> QED BY <1>39, <3>1 DEF DeleteNamespace, StoreTyped
    <2>3. RestTyped'
      BY <1>39, NamesAssumption DEF DeleteNamespace, Fault, Elsewhere, RestTyped
    <2> QED BY <2>1, <2>2, <2>3
  <1>40. CASE ChangeMetadata
    <2>1. OwnerTyped' /\ PassTyped'
      BY <1>40 DEF ChangeMetadata, OwnerTyped, PassTyped, Fault, Elsewhere, worker, live, budget
    <2>2. StoreTyped'
      <3> DEFINE ns == IF namespace = Absent THEN NewNamespace ELSE namespace
      <3>1. ns \in Namespace
        BY NewNamespaceType DEF StoreTyped
      <3>2. ns.labels \in MetaMaps /\ ns.annotations \in MetaMaps
        BY <3>1 DEF Namespace
      <3>3. ASSUME NEW key \in MetaKeys, NEW v \in MetaValues
           PROVE  /\ Over(Single(key, v), ns.labels) \in MetaMaps
                  /\ Over(Single(key, v), ns.annotations) \in MetaMaps
        <4>1. Single(key, v) \in MetaMaps
          BY SingleMap
        <4> QED BY <3>2, <4>1, MapFacts, MergedMaps
      <3>4. \A key : Without(ns.labels, {key}) \in MetaMaps
        BY <3>2, MapFacts, WithoutType
      <3>5. \/ \E map \in MetaMaps : namespace' = [ns EXCEPT !.labels = map]
           \/ \E map \in MetaMaps : namespace' = [ns EXCEPT !.annotations = map]
           \/ namespace' = [ns EXCEPT !.inventory = Unset]
        BY <1>40, <3>3, <3>4 DEF ChangeMetadata
      <3> HIDE DEF ns
      <3>6. namespace' \in Namespace
        BY <3>1, <3>5 DEF Namespace
      <3> QED BY <1>40, <3>6 DEF ChangeMetadata, StoreTyped
    <2>3. RestTyped'
      BY <1>40, NamesAssumption DEF ChangeMetadata, Fault, Elsewhere, RestTyped
    <2> QED BY <2>1, <2>2, <2>3
  <1>41. CASE CorruptInventory
    <2>1. OwnerTyped' /\ PassTyped'
      BY <1>41 DEF CorruptInventory, OwnerTyped, PassTyped, Fault, Elsewhere, worker, live, budget
    <2>2. StoreTyped'
      <3>1. [namespace EXCEPT !.inventory = Malformed] \in Namespace
        BY <1>41 DEF CorruptInventory, StoreTyped, Namespace
      <3> QED BY <1>41, <3>1 DEF CorruptInventory, StoreTyped
    <2>3. RestTyped'
      BY <1>41, NamesAssumption DEF CorruptInventory, Fault, Elsewhere, RestTyped
    <2> QED BY <2>1, <2>2, <2>3
  <1>42. CASE UNCHANGED vars
    BY <1>42 DEF vars, live, worker, budget, OwnerTyped, StoreTyped, PassTyped, RestTyped
  <1> QED
    BY <1>1, <1>2, <1>3, <1>4, <1>5, <1>6, <1>7, <1>8, <1>9, <1>10, <1>11, <1>12, <1>13, <1>14, <1>15, <1>16, <1>17, <1>18, <1>19, <1>20, <1>21, <1>22, <1>23, <1>24, <1>25, <1>26, <1>27, <1>28, <1>29, <1>30, <1>31, <1>32, <1>33, <1>34, <1>35, <1>36, <1>37, <1>38, <1>39, <1>40, <1>41, <1>42
    DEF Next, Worker, Deliver, Users, Others

\* Whatever the constants: the API server, the cache and the pass keep their
\* types, so that no step of the reconciler works on an object that is not there.
THEOREM TypeCorrect == Spec => []TypeOK
PROOF
  <1>1. Init => TypeOK
    BY TypeInit
  <1>2. TypeOK /\ [Next]_vars => TypeOK'
    BY TypeStep
  <1> QED BY <1>1, <1>2, PTL DEF Spec
=============================================================================

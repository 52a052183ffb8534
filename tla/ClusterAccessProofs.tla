-------------------------- MODULE ClusterAccessProofs --------------------------
(***************************************************************************)
(* Type correctness of the ClusterAccessMapping reconciler, for every      *)
(* value of the constants: its variables have the shape of what they stand *)
(* for, the names a pass computes are those the specs generate, and a pass *)
(* is where the copy it works on sends it.                                 *)
(***************************************************************************)
EXTENDS ClusterAccess, TLAPS

(* The operators the model is built from *)

\* No owner at all is a version like any other.
LEMMA NoOwnerType == NoOwner \in OwnerVersion
  BY MappingsAssumption DEF NoOwner, NoStatus, OwnerVersion, Status, Condition, Errors

\* The roles of a mapping are a sequence of roles (sync).
LEMMA RolesType ==
  ASSUME NEW s \in Specs
  PROVE  RolesOf(s) \in Seq(Roles)
PROOF
  <1>1. s.clusterRoles \in Seq(Roles)
    BY MappingsAssumption
  <1> QED BY <1>1 DEF RolesOf

\* The first of some roles is one of them, and so are the others.
LEMMA HeadAndTail ==
  ASSUME NEW q \in Seq(Roles), q # <<>>
  PROVE  /\ Head(q) \in Roles /\ Tail(q) \in Seq(Roles)
         /\ Head(q) \in Elements(q) /\ Elements(Tail(q)) \subseteq Elements(q)
PROOF
  <1>1. Head(q) \in Roles /\ Tail(q) \in Seq(Roles)
    OBVIOUS
  <1>2. Head(q) = q[1] /\ 1 \in DOMAIN q
    OBVIOUS
  <1>3. ASSUME NEW i \in DOMAIN Tail(q) PROVE Tail(q)[i] \in Elements(q)
    <2>1. Tail(q)[i] = q[i + 1] /\ i + 1 \in DOMAIN q
      OBVIOUS
    <2> QED BY <2>1 DEF Elements
  <1> QED BY <1>1, <1>2, <1>3 DEF Elements

\* The names a spec asks for are names of the model.
LEMMA NameType ==
  ASSUME NEW s \in Specs, NEW r \in Elements(RolesOf(s))
  PROVE  NameOf(s, r) \in Names
  BY DEF Names, Requested

\* A deleted binding is gone, or still a binding.
LEMMA DeletedType ==
  ASSUME NEW b \in Binding \union {Absent}
  PROVE  Deleted(b) \in Binding \union {Absent}
  BY DEF Deleted, Binding

\* A binding that is created starts as a binding.
LEMMA NewBindingType == NewBinding \in Binding
PROOF
  <1>1. (CHOOSE r \in Roles : TRUE) \in Roles
    BY MappingsAssumption
  <1> QED BY <1>1 DEF NewBinding, Binding, SubjectLists

\* A new resourceVersion makes a version of a version.
LEMMA Renumbered ==
  ASSUME NEW new \in OwnerVersion, NEW n \in Nat
  PROVE  [new EXCEPT !.rv = n] \in OwnerVersion
  BY DEF OwnerVersion

-----------------------------------------------------------------------------
(* The type invariant, in the parts that actions change or leave alone *)

OwnerTyped == owner \in OwnerVersion /\ watch \subseteq OwnerVersion
StoreTyped ==
  /\ bindings \in [Names -> Binding \union {Absent}]
  /\ news \subseteq Names /\ clusterRoles \in SUBSET Roles
Placed ==
  /\ pc \in {"finalize", "unbind", "release"} => cam.deleting
  /\ pc \in Syncing \union {"status"} => ~cam.deleting /\ Finalizer \in cam.finalizers
  /\ pc = "ensure" => todo # <<>>
PassTyped ==
  /\ cam \in OwnerVersion /\ queued \in BOOLEAN /\ pc \in Places
  /\ Placed
  /\ doomed \subseteq Names /\ want \subseteq Names
  /\ todo \in Seq(Roles) /\ Elements(todo) \subseteq Elements(RolesOf(cam.spec))
  /\ invalid \in Seq(Roles) /\ syncErr \in Errors
RestTyped ==
  /\ cache \in Copies
  /\ gauge \in Nat \union {Absent}
  /\ edits \in 0..MaxEdits /\ faults \in 0..MaxFaults

\* TypeOK in four parts, one for each group of variables a step writes.
LEMMA Parts == TypeOK <=> OwnerTyped /\ StoreTyped /\ PassTyped /\ RestTyped
  BY DEF TypeOK, OwnerTyped, StoreTyped, PassTyped, RestTyped, Placed

\* Nothing is in an empty sequence.
LEMMA NoElements == Elements(<<>>) = {}
  BY DEF Elements

\* The initial state is well typed.
LEMMA TypeInit == Init => TypeOK
PROOF
  <1> SUFFICES ASSUME Init PROVE TypeOK
    OBVIOUS
  <1>1. OwnerTyped
    BY NoOwnerType DEF Init, OwnerTyped
  <1>2. StoreTyped
    BY DEF Init, StoreTyped
  <1>3. cam \in OwnerVersion /\ todo = <<>> /\ invalid = <<>>
    BY NoOwnerType DEF Init
  <1>4. todo \in Seq(Roles) /\ Elements(todo) = {} /\ invalid \in Seq(Roles)
    BY <1>3, NoElements
  <1>5. PassTyped
    BY <1>3, <1>4 DEF Init, PassTyped, Placed, Places, Syncing, Errors
  <1>6. cache \in Copies
    BY <1>1, <1>2 DEF Init, Copies, OwnerTyped, StoreTyped
  <1>7. RestTyped
    BY <1>6, BoundsAssumption DEF Init, RestTyped
  <1> QED BY <1>1, <1>2, <1>5, <1>7, Parts

-----------------------------------------------------------------------------
(* What the pieces of an action leave typed *)

\* A write to the owner keeps the owner and its watch events versions.
LEMMA WriteOwnerType ==
  ASSUME OwnerTyped, NEW new \in OwnerVersion, WriteOwner(new)
  PROVE  OwnerTyped'
PROOF
  <1> DEFINE next == [new EXCEPT !.rv = owner.rv + 1]
  <1>1. next \in OwnerVersion
    BY Renumbered DEF OwnerTyped, OwnerVersion
  <1>2. \/ owner' = owner /\ watch' = watch
        \/ owner' = next /\ watch' = watch \union {next}
    BY DEF WriteOwner
  <1> HIDE DEF next
  <1> QED BY <1>1, <1>2 DEF OwnerTyped

\* The owner with other finalizers is a version of it.
LEMMA FinalizersTyped ==
  ASSUME OwnerTyped, NEW fs \in SUBSET Finalizers
  PROVE  WithFinalizers(fs) \in OwnerVersion
  BY DEF OwnerTyped, WithFinalizers, OwnerVersion

\* A write to a binding keeps the bindings typed.
LEMMA WriteBindingType ==
  ASSUME StoreTyped, NEW n \in Names, NEW new \in Binding \union {Absent},
         WriteBinding(n, new), clusterRoles' = clusterRoles
  PROVE  StoreTyped'
PROOF
  <1>1. bindings' \in [Names -> Binding \union {Absent}]
    BY DEF WriteBinding, StoreTyped
  <1>2. news' \subseteq Names
    BY DEF WriteBinding, StoreTyped
  <1> QED BY <1>1, <1>2 DEF StoreTyped

\* A finished pass leaves no locals behind (Reconcile returns).
LEMMA DoneTyped ==
  ASSUME PassTyped, NEW retry \in BOOLEAN, Done(retry)
  PROVE  PassTyped'
PROOF
  <1>1. cam' \in OwnerVersion
    BY NoOwnerType DEF Done
  <1>2. todo' = <<>> /\ invalid' = <<>>
    BY DEF Done
  <1>3. todo' \in Seq(Roles) /\ Elements(todo') = {} /\ invalid' \in Seq(Roles)
    BY <1>2, NoElements
  <1> QED BY <1>1, <1>3 DEF Done, PassTyped, Placed, Places, Syncing, Errors

\* A sync that returns an error goes on to the status with it.
LEMMA GiveUpTyped ==
  ASSUME PassTyped, pc \in Syncing, NEW error \in Errors, GiveUp(error)
  PROVE  PassTyped'
PROOF
  <1>1. todo' = <<>> /\ invalid' = <<>>
    BY DEF GiveUp
  <1>2. todo' \in Seq(Roles) /\ Elements(todo') = {} /\ invalid' \in Seq(Roles)
    BY <1>1, NoElements
  <1> QED BY <1>2 DEF GiveUp, PassTyped, Placed, Places, Syncing

\* ensure's call leaves a binding, or none.
LEMMA BindingCallTyped ==
  ASSUME StoreTyped, PassTyped, RestTyped, NEW role \in Roles,
         role \in Elements(RolesOf(cam.spec))
  PROVE  /\ NameOf(cam.spec, role) \in Names
         /\ BindingCall(role).error \in Errors
         /\ BindingCall(role).object \in Binding \union {Absent}
PROOF
  <1> DEFINE n        == NameOf(cam.spec, role)
             subjects == subjectsFor(cam.spec)
             cached   == cache.bindings[n]
             object   == bindings[n]
             base     == IF cached = Absent THEN NewBinding ELSE cached
             desired  == [base EXCEPT !.owned = TRUE, !.role = role, !.subjects = subjects]
             verdict  == IF role \in Refused THEN "failed" ELSE "none"
             update   == IF base.role # role THEN "invalid" ELSE verdict
  <1>1. cam.spec \in Specs
    BY DEF PassTyped, OwnerVersion
  <1>2. n \in Names /\ subjects \in SubjectLists
    BY <1>1, NameType DEF SubjectLists
  <1>3. object \in Binding \union {Absent} /\ cached \in Binding \union {Absent}
    BY <1>2 DEF StoreTyped, RestTyped, Copies
  <1>4. verdict \in Errors /\ update \in Errors
    BY DEF Errors
  <1>5. base \in Binding
    BY <1>3, NewBindingType
  <1>6. desired \in Binding
    <2> HIDE DEF base, subjects, cached
    <2> QED BY <1>2, <1>5 DEF Binding
  <1>7. BindingCall(role) = CreateOrUpdate(cached, desired, object, verdict, update)
    BY DEF BindingCall
  <1> HIDE DEF cached, object, desired, verdict, update
  <1>8. BindingCall(role).error \in Errors /\ BindingCall(role).object \in Binding \union {Absent}
    BY <1>3, <1>4, <1>6, <1>7 DEF CreateOrUpdate, Errors
  <1> QED BY <1>2, <1>8

\* The merge patch of a status is a status.
LEMMA PatchTyped ==
  ASSUME OwnerTyped, PassTyped
  PROVE  [owner EXCEPT !.status = MergePatch(cam.status, Outcome, owner.status)] \in OwnerVersion
PROOF
  <1>1. owner.status \in Status /\ cam.status \in Status /\ cam.generation \in Nat
    BY DEF OwnerTyped, PassTyped, OwnerVersion
  <1>2. Outcome \in Status
    BY <1>1 DEF Outcome, Report, PassTyped, Status, Condition
  <1>3. MergePatch(cam.status, Outcome, owner.status) \in Status
    BY <1>1, <1>2 DEF MergePatch, Status
  <1> QED BY <1>3 DEF OwnerTyped, OwnerVersion

\* A pass whose locals a step leaves alone stays where it was.
LEMMA PassSame ==
  ASSUME PassTyped, UNCHANGED <<pc, locals>>, queued' \in BOOLEAN
  PROVE  PassTyped'
  BY DEF PassTyped, Placed, locals

\* The bounds of the model hold after an edit.
LEMMA EditTyped ==
  ASSUME RestTyped, NEW kind, Edit(kind)
  PROVE  RestTyped'
  BY BoundsAssumption DEF RestTyped, Edit

\* And so after a fault.
LEMMA FaultTyped ==
  ASSUME RestTyped, NEW kind, Fault(kind), cache' \in Copies, gauge' \in Nat \union {Absent}
  PROVE  RestTyped'
  BY BoundsAssumption DEF RestTyped, Fault

-----------------------------------------------------------------------------
(* One step *)

Typed == OwnerTyped /\ StoreTyped /\ PassTyped /\ RestTyped

\* Where Reconcile goes, and the two ends of an owner's life.
LEMMA EndsTyped ==
  ASSUME Typed, Reconcile \/ Finalize \/ Unbound \/ Release \/ Adopt
  PROVE  Typed'
PROOF
  <1> USE DEF Typed
  <1>1. CASE Reconcile
    <2>1. OwnerTyped' /\ StoreTyped' /\ RestTyped'
      BY <1>1 DEF Reconcile, OwnerTyped, StoreTyped, RestTyped, server, budget
    <2>2. cam' \in OwnerVersion /\ cache.owner \in OwnerVersion
      BY <1>1, NoOwnerType DEF Reconcile, RestTyped, Copies
    <2>3. pc' \in Places /\ Placed'
      BY <1>1, <2>2 DEF Reconcile, FirstStep, Places, Syncing, Placed
    <2>4. todo' \in Seq(Roles) /\ Elements(todo') \subseteq Elements(RolesOf(cam'.spec))
      <3>1. cam'.spec \in Specs
        BY <2>2 DEF OwnerVersion
      <3>2. todo' = RolesOf(cam'.spec) \/ todo' = <<>>
        BY <1>1 DEF Reconcile
      <3>3. CASE todo' = RolesOf(cam'.spec)
        BY <3>1, <3>3, RolesType
      <3>4. CASE todo' = <<>>
        BY <3>4, NoElements
      <3> QED BY <3>2, <3>3, <3>4
    <2>5. PassTyped'
      BY <1>1, <2>2, <2>3, <2>4 DEF Reconcile, PassTyped
    <2> QED BY <2>1, <2>5
  <1>2. CASE Finalize
    <2>1. OwnerTyped' /\ StoreTyped'
      BY <1>2 DEF Finalize, OwnerTyped, StoreTyped, server
    <2>2. Remaining \subseteq Names
      BY DEF Remaining, Owned
    <2>3. PassTyped'
      BY <1>2, <2>2 DEF Finalize, PassTyped, Placed, Places, Syncing
    <2>4. RestTyped'
      BY <1>2 DEF Finalize, RestTyped, budget
    <2> QED BY <2>1, <2>3, <2>4
  <1>3. CASE Unbound
    <2>1. OwnerTyped' /\ StoreTyped' /\ RestTyped'
      BY <1>3 DEF Unbound, OwnerTyped, StoreTyped, RestTyped, server, budget
    <2>2. PassTyped'
      BY <1>3, DoneTyped DEF Unbound
    <2> QED BY <2>1, <2>2
  <1>4. CASE Release
    <2>1. StoreTyped' /\ RestTyped'
      BY <1>4 DEF Release, StoreTyped, RestTyped, budget
    <2>2. WithFinalizers(cam.finalizers \ {Finalizer}) \in OwnerVersion
      <3>1. cam.finalizers \ {Finalizer} \in SUBSET Finalizers
        BY DEF PassTyped, OwnerVersion
      <3> QED BY <3>1, FinalizersTyped
    <2>3. OwnerTyped'
      <3>1. CASE PatchAccepted
        BY <1>4, <2>2, <3>1, WriteOwnerType DEF Release
      <3>2. CASE ~PatchAccepted
        BY <1>4, <3>2 DEF Release, OwnerTyped
      <3> QED BY <3>1, <3>2
    <2>4. PassTyped'
      BY <1>4, DoneTyped DEF Release
    <2> QED BY <2>1, <2>3, <2>4
  <1>5. CASE Adopt
    <2>1. StoreTyped' /\ RestTyped'
      BY <1>5 DEF Adopt, StoreTyped, RestTyped, budget
    <2>2. WithFinalizers(cam.finalizers \union {Finalizer}) \in OwnerVersion
      <3>1. cam.finalizers \union {Finalizer} \in SUBSET Finalizers
        BY DEF PassTyped, OwnerVersion, Finalizers
      <3> QED BY <3>1, FinalizersTyped
    <2>3. OwnerTyped'
      <3>1. CASE PatchAccepted
        BY <1>5, <2>2, <3>1, WriteOwnerType DEF Adopt
      <3>2. CASE ~PatchAccepted
        BY <1>5, <3>2 DEF Adopt, OwnerTyped
      <3> QED BY <3>1, <3>2
    <2>4. PassTyped'
      BY <1>5, DoneTyped DEF Adopt
    <2> QED BY <2>1, <2>3, <2>4
  <1> QED BY <1>1, <1>2, <1>3, <1>4, <1>5

\* The steps of sync: each role in turn, then the prune.
LEMMA SyncTyped ==
  ASSUME Typed, MissingRole \/ ReplaceBinding \/ EnsureBinding \/ Prune \/ DeleteBinding
  PROVE  Typed'
PROOF
  <1> USE DEF Typed
  <1>1. ASSUME pc \in {"bindings", "ensure"}, todo # <<>>
        PROVE  /\ Head(todo) \in Roles /\ Head(todo) \in Elements(RolesOf(cam.spec))
               /\ Tail(todo) \in Seq(Roles)
               /\ Elements(Tail(todo)) \subseteq Elements(RolesOf(cam.spec))
    BY <1>1, HeadAndTail DEF PassTyped
  <1>2. CASE MissingRole
    <2>1. OwnerTyped' /\ StoreTyped' /\ RestTyped'
      BY <1>2 DEF MissingRole, OwnerTyped, StoreTyped, RestTyped, server, budget
    <2>2. invalid' \in Seq(Roles)
      BY <1>1, <1>2 DEF MissingRole, PassTyped
    <2>3. PassTyped'
      BY <1>1, <1>2, <2>2 DEF MissingRole, PassTyped, Placed
    <2> QED BY <2>1, <2>3
  <1>3. CASE ReplaceBinding
    <2> DEFINE n     == NameOf(cam.spec, Head(todo))
               taken == cache.bindings[n] # Absent /\ cache.bindings[n].role # Head(todo)
               new   == IF taken THEN Deleted(bindings[n]) ELSE bindings[n]
    <2>1. OwnerTyped' /\ RestTyped'
      BY <1>3 DEF ReplaceBinding, OwnerTyped, RestTyped, budget
    <2>2. n \in Names
      <3>1. cam.spec \in Specs
        BY DEF PassTyped, OwnerVersion
      <3> QED BY <1>1, <1>3, <3>1, NameType DEF ReplaceBinding
    <2>3. new \in Binding \union {Absent}
      BY <2>2, DeletedType DEF StoreTyped
    <2>4. WriteBinding(n, new) /\ clusterRoles' = clusterRoles
      BY <1>3 DEF ReplaceBinding
    <2>5. StoreTyped'
      <3> HIDE DEF n, new
      <3> QED BY <2>2, <2>3, <2>4, WriteBindingType
    <2>6. PassTyped'
      <3>1. CASE pc' = "ensure" /\ UNCHANGED <<locals, queued>>
        BY <1>3, <3>1 DEF ReplaceBinding, PassTyped, Placed, Places, Syncing, locals
      <3>2. CASE GiveUp("failed")
        BY <1>3, <3>2, GiveUpTyped DEF ReplaceBinding, Syncing, Errors
      <3> QED BY <1>3, <3>1, <3>2 DEF ReplaceBinding
    <2> QED BY <2>1, <2>5, <2>6
  <1>4. CASE EnsureBinding
    <2> DEFINE role == Head(todo)
               n    == NameOf(cam.spec, role)
    <2>1. OwnerTyped' /\ RestTyped'
      BY <1>4 DEF EnsureBinding, OwnerTyped, RestTyped, budget
    <2>2. todo # <<>> /\ pc = "ensure"
      BY <1>4 DEF EnsureBinding, PassTyped, Placed
    <2>3. /\ n \in Names
          /\ BindingCall(role).error \in Errors
          /\ BindingCall(role).object \in Binding \union {Absent}
      BY <1>1, <2>2, BindingCallTyped
    <2>4. StoreTyped'
      <3>1. WriteBinding(n, BindingCall(role).object) /\ clusterRoles' = clusterRoles
        BY <1>4 DEF EnsureBinding
      <3> HIDE DEF n, role
      <3> QED BY <2>3, <3>1, WriteBindingType
    <2>5. PassTyped'
      <3>1. CASE GiveUp(BindingCall(role).error)
        BY <2>2, <2>3, <3>1, GiveUpTyped DEF Syncing
      <3>2. CASE /\ pc' = "bindings" /\ todo' = Tail(todo) /\ want' = want \union {n}
                 /\ UNCHANGED <<cam, doomed, invalid, syncErr, queued>>
        BY <1>1, <2>2, <2>3, <3>2 DEF PassTyped, Placed, Places, Syncing
      <3> QED BY <1>4, <3>1, <3>2 DEF EnsureBinding
    <2> QED BY <2>1, <2>4, <2>5
  <1>5. CASE Prune
    <2>1. OwnerTyped' /\ StoreTyped' /\ RestTyped'
      BY <1>5 DEF Prune, OwnerTyped, StoreTyped, RestTyped, server, budget
    <2>2. Unwanted \subseteq Names
      BY DEF Unwanted, Owned
    <2>3. PassTyped'
      BY <1>5, <2>2 DEF Prune, PassTyped, Placed, Places, Syncing
    <2> QED BY <2>1, <2>3
  <1>6. CASE DeleteBinding
    <2>1. OwnerTyped' /\ RestTyped'
      BY <1>6 DEF DeleteBinding, OwnerTyped, RestTyped, budget
    <2>2. StoreTyped'
      <3>1. PICK n \in doomed : WriteBinding(n, Deleted(bindings[n]))
        BY <1>6 DEF DeleteBinding
      <3>2. n \in Names /\ Deleted(bindings[n]) \in Binding \union {Absent}
        BY <3>1, DeletedType DEF PassTyped, StoreTyped
      <3> QED BY <1>6, <3>1, <3>2, WriteBindingType DEF DeleteBinding
    <2>3. PassTyped'
      BY <1>6 DEF DeleteBinding, PassTyped, Placed
    <2> QED BY <2>1, <2>2, <2>3
  <1> QED BY <1>2, <1>3, <1>4, <1>5, <1>6

\* The report of a pass, or a call of it that fails.
LEMMA ReportTyped ==
  ASSUME Typed, ReportStatus \/ CallFails
  PROVE  Typed'
PROOF
  <1> USE DEF Typed
  <1>1. SetGauge \/ gauge' = gauge => gauge' \in Nat \union {Absent}
    <2>1. Len(invalid) \in Nat
      BY DEF PassTyped
    <2> QED BY <2>1 DEF SetGauge, RestTyped
  <1>2. CASE ReportStatus
    <2>1. StoreTyped'
      BY <1>2 DEF ReportStatus, StoreTyped
    <2>2. OwnerTyped'
      <3>1. CASE owner.present
        BY <1>2, <3>1, PatchTyped, WriteOwnerType DEF ReportStatus
      <3>2. CASE ~owner.present
        BY <1>2, <3>2 DEF ReportStatus, OwnerTyped
      <3> QED BY <3>1, <3>2
    <2>3. PassTyped'
      BY <1>2, DoneTyped DEF ReportStatus, Retried
    <2>4. RestTyped'
      BY <1>1, <1>2 DEF ReportStatus, RestTyped, budget
    <2> QED BY <2>1, <2>2, <2>3, <2>4
  <1>3. CASE CallFails
    <2>1. StoreTyped'
      BY <1>3 DEF CallFails, StoreTyped
    <2>2. OwnerTyped'
      BY <1>3 DEF CallFails, Fault, OwnerTyped
    <2>3. PassTyped'
      <3>1. CASE Done(TRUE)
        BY <3>1, DoneTyped
      <3>2. CASE pc \in Syncing /\ GiveUp("failed")
        BY <3>2, GiveUpTyped DEF Errors
      <3> QED BY <1>3, <3>1, <3>2 DEF CallFails
    <2>4. RestTyped'
      <3>1. cache' \in Copies /\ gauge' \in Nat \union {Absent}
        BY <1>1, <1>3 DEF CallFails, RestTyped
      <3> QED BY <1>3, <3>1, FaultTyped DEF CallFails
    <2> QED BY <2>1, <2>2, <2>3, <2>4
  <1> QED BY <1>2, <1>3

\* What the watches and the resync bring.
LEMMA DeliverTyped == Typed /\ Deliver => Typed'
PROOF
  <1> SUFFICES ASSUME Typed, Deliver PROVE Typed'
    OBVIOUS
  <1> USE DEF Typed
  <1>1. CASE DeliverOwner
    <2>1. StoreTyped' /\ PassTyped' /\ OwnerTyped'
      BY <1>1, PassSame DEF DeliverOwner, StoreTyped, OwnerTyped
    <2>2. RestTyped'
      <3>1. PICK v \in watch : cache' = [cache EXCEPT !.owner = v]
        BY <1>1 DEF DeliverOwner
      <3>2. v \in OwnerVersion
        BY DEF OwnerTyped
      <3> QED BY <1>1, <3>1, <3>2 DEF DeliverOwner, RestTyped, Copies, budget
    <2> QED BY <2>1, <2>2
  <1>2. CASE Resync
    BY <1>2, PassSame DEF Resync, OwnerTyped, StoreTyped, RestTyped, server, budget
  <1>3. ASSUME NEW n \in Names, DeliverBinding(n) PROVE Typed'
    <2>1. OwnerTyped' /\ StoreTyped'
      BY <1>3 DEF DeliverBinding, OwnerTyped, StoreTyped
    <2>2. PassTyped'
      <3>1. queued' \in BOOLEAN
        BY <1>3 DEF DeliverBinding, PassTyped
      <3> QED BY <1>3, <3>1, PassSame DEF DeliverBinding
    <2>3. RestTyped'
      <3>1. [cache.bindings EXCEPT ![n] = bindings[n]] \in [Names -> Binding \union {Absent}]
        BY DEF RestTyped, Copies, StoreTyped
      <3> QED BY <1>3, <3>1 DEF DeliverBinding, RestTyped, Copies, budget
    <2> QED BY <2>1, <2>2, <2>3
  <1>4. ASSUME NEW r \in Roles, DeliverRole(r) PROVE Typed'
    <2>1. OwnerTyped' /\ StoreTyped'
      BY <1>4 DEF DeliverRole, OwnerTyped, StoreTyped, server
    <2>2. PassTyped'
      <3>1. queued' \in BOOLEAN
        BY <1>4 DEF DeliverRole, PassTyped, all
      <3> QED BY <1>4, <3>1, PassSame DEF DeliverRole
    <2>3. RestTyped'
      BY <1>4 DEF DeliverRole, RestTyped, Copies, budget
    <2> QED BY <2>1, <2>2, <2>3
  <1> QED BY <1>1, <1>2, <1>3, <1>4 DEF Deliver

\* What users do to the ClusterAccessMapping.
LEMMA UsersTyped == Typed /\ Users => Typed'
PROOF
  <1> SUFFICES ASSUME Typed, Users PROVE Typed'
    OBVIOUS
  <1> USE DEF Typed
  <1>1. ASSUME NEW new \in OwnerVersion, NEW kind, Edit(kind), WriteOwner(new) PROVE Typed'
    <2>1. OwnerTyped' /\ RestTyped'
      BY <1>1, WriteOwnerType, EditTyped
    <2>2. StoreTyped'
      BY <1>1 DEF Edit, StoreTyped
    <2>3. PassTyped'
      <3>1. queued' \in BOOLEAN
        BY <1>1 DEF Edit, PassTyped
      <3> QED BY <1>1, <3>1, PassSame DEF Edit
    <2> QED BY <2>1, <2>2, <2>3
  <1>2. \A s \in Specs : Created(s) \in OwnerVersion /\ Edited(s) \in OwnerVersion
    <2>1. \A s \in Specs : Created(s) \in OwnerVersion
      BY NoOwnerType DEF Created, OwnerVersion
    <2>2. owner.generation + 1 \in Nat
      BY DEF OwnerTyped, OwnerVersion
    <2>3. \A s \in Specs, g \in Nat : [owner EXCEPT !.spec = s, !.generation = g] \in OwnerVersion
      BY DEF OwnerTyped, OwnerVersion
    <2> QED BY <2>1, <2>2, <2>3 DEF Edited
  <1>3. Condemned \in OwnerVersion
    <2>1. [owner EXCEPT !.present = FALSE] \in OwnerVersion
      BY DEF OwnerTyped, OwnerVersion
    <2>2. owner.generation + 1 \in Nat
      BY DEF OwnerTyped, OwnerVersion
    <2>3. \A g \in Nat : [owner EXCEPT !.deleting = TRUE, !.generation = g] \in OwnerVersion
      BY DEF OwnerTyped, OwnerVersion
    <2> QED BY <2>1, <2>2, <2>3 DEF Condemned
  <1>4. \A f \in Finalizers : /\ WithFinalizers(owner.finalizers \union {f}) \in OwnerVersion
                             /\ WithFinalizers(owner.finalizers \ {f}) \in OwnerVersion
    <2>1. owner.finalizers \subseteq Finalizers
      BY DEF OwnerTyped, OwnerVersion
    <2> QED BY <2>1, FinalizersTyped
  <1>5. Finalizer \in Finalizers /\ Foreign \subseteq Finalizers
    BY DEF Finalizers
  <1>6. ASSUME NEW s \in Specs, CreateOwner(s) \/ EditOwner(s) PROVE Typed'
    BY <1>1, <1>2, <1>6 DEF CreateOwner, EditOwner
  <1>7. CASE DeleteOwner
    BY <1>1, <1>3, <1>7 DEF DeleteOwner
  <1>8. CASE ForceRelease
    BY <1>1, <1>4, <1>5, <1>8 DEF ForceRelease
  <1>9. ASSUME NEW f \in Foreign, AddForeign(f) \/ RemoveForeign(f) PROVE Typed'
    BY <1>1, <1>4, <1>5, <1>9 DEF AddForeign, RemoveForeign
  <1> QED BY <1>6, <1>7, <1>8, <1>9 DEF Users

\* The process restarts.
LEMMA CrashTyped == Typed /\ Crash => Typed'
PROOF
  <1> SUFFICES ASSUME Typed, Crash PROVE Typed'
    OBVIOUS
  <1> USE DEF Typed
  <1>1. StoreTyped' /\ OwnerTyped'
    BY DEF Crash, Fault, StoreTyped, OwnerTyped
  <1>2. todo' = <<>> /\ invalid' = <<>> /\ cam' \in OwnerVersion /\ queued' \in BOOLEAN
    BY NoOwnerType DEF Crash, OwnerTyped, OwnerVersion
  <1>3. todo' \in Seq(Roles) /\ Elements(todo') = {} /\ invalid' \in Seq(Roles)
    BY <1>2, NoElements
  <1>4. PassTyped'
    BY <1>2, <1>3 DEF Crash, PassTyped, Placed, Places, Syncing, Errors
  <1>5. cache' \in Copies
    BY DEF Crash, Copies, OwnerTyped, StoreTyped
  <1>6. RestTyped'
    BY <1>5, FaultTyped DEF Crash
  <1> QED BY <1>1, <1>4, <1>6

\* A binding or a role that others change.
LEMMA ElsewhereTyped ==
  ASSUME Typed,
         \/ \E r \in Roles : ToggleRole(r)
         \/ \E n \in Names : DriftBinding(n) \/ HoldBinding(n) \/ LetGo(n)
                             \/ \E r \in Roles : SquatBinding(n, r)
  PROVE  Typed'
PROOF
  <1> USE DEF Typed
  <1>1. ASSUME NEW kind, Fault(kind), Elsewhere, StoreTyped' PROVE Typed'
    <2>1. OwnerTyped'
      BY <1>1 DEF Fault, Elsewhere, OwnerTyped
    <2>2. PassTyped'
      <3>1. queued' \in BOOLEAN
        BY <1>1 DEF Elsewhere, PassTyped
      <3> QED BY <1>1, <3>1, PassSame DEF Elsewhere
    <2>3. RestTyped'
      BY <1>1, FaultTyped DEF Elsewhere, RestTyped
    <2> QED BY <1>1, <2>1, <2>2, <2>3
  <1>2. ASSUME NEW r \in Roles, ToggleRole(r) PROVE Typed'
    <2>1. StoreTyped'
      BY <1>2 DEF ToggleRole, StoreTyped
    <2> QED BY <1>1, <1>2, <2>1 DEF ToggleRole
  <1>3. ASSUME NEW n \in Names, DriftBinding(n) \/ HoldBinding(n) \/ LetGo(n) PROVE Typed'
    <2>1. bindings[n] \in Binding
      BY <1>3 DEF DriftBinding, HoldBinding, LetGo, StoreTyped
    <2>2. /\ Deleted(bindings[n]) \in Binding \union {Absent}
          /\ [bindings[n] EXCEPT !.subjects = Outsiders] \in Binding
          /\ [bindings[n] EXCEPT !.owned = FALSE] \in Binding
          /\ [bindings[n] EXCEPT !.held = TRUE] \in Binding
          /\ [bindings[n] EXCEPT !.held = FALSE] \in Binding
      BY <2>1, DeletedType DEF Binding, SubjectLists
    <2>3. StoreTyped'
      <3>1. /\ clusterRoles' = clusterRoles
            /\ \E new \in Binding \union {Absent} : WriteBinding(n, new)
        BY <1>3, <2>2 DEF DriftBinding, HoldBinding, LetGo
      <3> QED BY <3>1, WriteBindingType
    <2>4. CASE DriftBinding(n) \/ HoldBinding(n)
      BY <1>1, <2>3, <2>4 DEF DriftBinding, HoldBinding
    <2>5. CASE LetGo(n)
      <3>1. OwnerTyped' /\ RestTyped'
        BY <2>5 DEF LetGo, OwnerTyped, RestTyped, budget
      <3>2. PassTyped'
        <4>1. queued' \in BOOLEAN
          BY <2>5 DEF LetGo, PassTyped
        <4> QED BY <2>5, <4>1, PassSame DEF LetGo
      <3> QED BY <2>3, <3>1, <3>2
    <2> QED BY <1>3, <2>4, <2>5
  <1>4. ASSUME NEW n \in Names, NEW r \in Roles, SquatBinding(n, r) PROVE Typed'
    <2>1. [NewBinding EXCEPT !.role = r] \in Binding
      BY NewBindingType DEF Binding
    <2>2. StoreTyped'
      BY <1>4, <2>1, WriteBindingType DEF SquatBinding
    <2> QED BY <1>1, <1>4, <2>2 DEF SquatBinding
  <1> QED BY <1>2, <1>3, <1>4

\* Every step keeps the types.
LEMMA TypeStep == TypeOK /\ [Next]_vars => TypeOK'
PROOF
  <1> SUFFICES ASSUME Typed, [Next]_vars PROVE Typed'
    BY DEF Typed, TypeOK, OwnerTyped, StoreTyped, PassTyped, RestTyped, Placed
  <1>1. CASE Worker
    BY <1>1, EndsTyped, SyncTyped, ReportTyped DEF Worker
  <1>2. CASE Deliver
    BY <1>2, DeliverTyped
  <1>3. CASE \E n \in Names : LetGo(n)
    BY <1>3, ElsewhereTyped
  <1>4. CASE Users
    BY <1>4, UsersTyped
  <1>5. CASE Others
    BY <1>5, ReportTyped, CrashTyped, ElsewhereTyped DEF Others
  <1>6. CASE UNCHANGED vars
    BY <1>6, PassSame
    DEF Typed, vars, server, budget, OwnerTyped, StoreTyped, RestTyped, PassTyped
  <1> QED BY <1>1, <1>2, <1>3, <1>4, <1>5, <1>6 DEF Next

\* Whatever the constants: the API server, the cache and the pass keep their
\* types, and a pass is only ever where the copy it read sends it (Reconcile):
\* nothing is finalized that is not deleting, nothing granted that is not held.
THEOREM TypeCorrect == Spec => []TypeOK
PROOF
  <1>1. Init => TypeOK
    BY TypeInit
  <1>2. TypeOK /\ [Next]_vars => TypeOK'
    BY TypeStep
  <1> QED BY <1>1, <1>2, PTL DEF Spec
=============================================================================

-------------------------- MODULE ClusterAccessSafety --------------------------
(***************************************************************************)
(* Safety of the ClusterAccessMapping reconciler, for every value of the   *)
(* constants: no grant is orphaned, and the reconciler implements          *)
(* GrantLifecycle, the finalizer as the hold and the bindings with the     *)
(* owner's labels as the grants.                                           *)
(*                                                                         *)
(* As for the ManagedNamespace the argument goes over the versions of the  *)
(* owner, of which the cache and a pass hold old ones. A sync may grant    *)
(* until the finalizer goes, and it goes only by a pass that found no      *)
(* grant after its own last write, and with the version it read.           *)
(***************************************************************************)
EXTENDS ClusterAccessProofs

\* What the cache, the watch and a pass hold are versions the owner had, and
\* the one with the owner's resourceVersion is the owner as it is.
Current ==
  /\ cache.owner.rv <= owner.rv
  /\ cache.owner.rv = owner.rv => cache.owner = owner
  /\ \A w \in watch : /\ cache.owner.rv < w.rv /\ w.rv <= owner.rv
                      /\ w.rv = owner.rv => w = owner
Read ==
  pc # "idle" => /\ cam.rv <= cache.owner.rv
                 /\ cam.rv = cache.owner.rv => cam = cache.owner
Versions == Current /\ Read

-----------------------------------------------------------------------------
(* What one step does to the owner, its copies and the pass *)

Local == UNCHANGED <<owner, watch>> /\ cache'.owner = cache.owner
Written ==
  /\ owner'.rv = owner.rv + 1 /\ watch' = watch \union {owner'}
  /\ cache'.owner = cache.owner
Writes == Release \/ Adopt \/ ReportStatus \/ Users
Delivered ==
  /\ owner' = owner
  /\ \E v \in watch : cache'.owner = v /\ watch' = {w \in watch : w.rv > v.rv}
Restarted == owner' = owner /\ cache'.owner = owner /\ watch' = {} /\ pc' = "idle"

Guarding == Syncing \union {"status"}
PassOn ==
  /\ pc # "idle" /\ cam' = cam
  /\ pc' \in Guarding => pc \in Guarding
  /\ pc' = "release" => pc = "release" \/ Finalize
  /\ pc' # "adopt"
Rests == UNCHANGED <<pc, cam>>
Ends == pc' = "idle"

\* What a write to the owner does to it and to the watch.
LEMMA WriteShape ==
  ASSUME TypeOK, TypeOK', NEW new, WriteOwner(new), cache' = cache
  PROVE  /\ Local \/ Written
         /\ owner' = owner \/ owner' = [new EXCEPT !.rv = owner'.rv]
PROOF
  <1> DEFINE next == [new EXCEPT !.rv = owner.rv + 1]
  <1>1. CASE owner' = owner /\ watch' = watch
    BY <1>1 DEF Local
  <1>2. CASE owner' = next /\ watch' = watch \union {next}
    <2>1. owner' \in OwnerVersion
      BY DEF TypeOK
    <2>2. DOMAIN owner' = DOMAIN new
      BY <1>2
    <2>3. "rv" \in DOMAIN new
      BY <2>1, <2>2 DEF OwnerVersion
    <2>4. owner'.rv = owner.rv + 1
      BY <1>2, <2>3
    <2> QED BY <1>2, <2>4 DEF Written
  <1> QED BY <1>1, <1>2 DEF WriteOwner

\* What a step does to the owner and its copies: it leaves them alone, writes a
\* version, delivers one, or lists afresh.
LEMMA OwnerSteps ==
  ASSUME TypeOK, TypeOK', [Next]_vars
  PROVE  Local \/ (Written /\ Writes) \/ Delivered \/ Restarted
PROOF
  <1>1. cache \in Copies
    BY DEF TypeOK
  <1>2. CASE Reconcile \/ Finalize \/ Unbound \/ MissingRole \/ Prune
    BY <1>2 DEF Reconcile, Finalize, Unbound, MissingRole, Prune, server, Local
  <1>3. CASE ReplaceBinding \/ EnsureBinding \/ DeleteBinding
    BY <1>3 DEF ReplaceBinding, EnsureBinding, DeleteBinding, Local
  <1>4. CASE Release
    <2>1. cache' = cache
      BY <1>4 DEF Release
    <2>2. CASE PatchAccepted
      <3>1. WriteOwner(WithFinalizers(cam.finalizers \ {Finalizer}))
        BY <1>4, <2>2 DEF Release
      <3> QED BY <1>4, <2>1, <3>1, WriteShape DEF Writes
    <2>3. CASE ~PatchAccepted
      BY <1>4, <2>1, <2>3 DEF Release, Local
    <2> QED BY <2>2, <2>3
  <1>5. CASE Adopt
    <2>1. cache' = cache
      BY <1>5 DEF Adopt
    <2>2. CASE PatchAccepted
      <3>1. WriteOwner(WithFinalizers(cam.finalizers \union {Finalizer}))
        BY <1>5, <2>2 DEF Adopt
      <3> QED BY <1>5, <2>1, <3>1, WriteShape DEF Writes
    <2>3. CASE ~PatchAccepted
      BY <1>5, <2>1, <2>3 DEF Adopt, Local
    <2> QED BY <2>2, <2>3
  <1>6. CASE ReportStatus
    <2>1. cache' = cache
      BY <1>6 DEF ReportStatus
    <2>2. CASE owner.present
      <3>1. \E new : WriteOwner(new)
        BY <1>6, <2>2 DEF ReportStatus
      <3> QED BY <1>6, <2>1, <3>1, WriteShape DEF Writes
    <2>3. CASE ~owner.present
      BY <1>6, <2>1, <2>3 DEF ReportStatus, Local
    <2> QED BY <2>2, <2>3
  <1>7. CASE Users
    <2>1. cache' = cache
      BY <1>7 DEF Users, CreateOwner, EditOwner, DeleteOwner, AddForeign, RemoveForeign,
                  ForceRelease, Edit
    <2>2. \E new : WriteOwner(new)
      BY <1>7 DEF Users, CreateOwner, EditOwner, DeleteOwner, AddForeign, RemoveForeign,
                  ForceRelease
    <2> QED BY <1>7, <2>1, <2>2, WriteShape DEF Writes
  <1>8. CASE DeliverOwner
    BY <1>1, <1>8 DEF DeliverOwner, Delivered, Copies
  <1>9. CASE Deliver /\ ~DeliverOwner
    BY <1>1, <1>9 DEF Deliver, Resync, DeliverBinding, DeliverRole, server, Local, Copies
  <1>10. CASE \E n \in Names : LetGo(n)
    BY <1>10 DEF LetGo, Local
  <1>11. CASE Crash
    BY <1>11 DEF Crash, Fault, Restarted
  <1>12. CASE Others /\ ~Crash
    <2>1. owner' = owner
      BY <1>12 DEF Others, CallFails, ToggleRole, DriftBinding, HoldBinding, SquatBinding, Fault
    <2>2. watch' = watch /\ cache' = cache
      BY <1>12 DEF Others, CallFails, ToggleRole, DriftBinding, HoldBinding, SquatBinding, Elsewhere
    <2> QED BY <2>1, <2>2 DEF Local
  <1>13. CASE UNCHANGED vars
    BY <1>13 DEF vars, server, Local
  <1> QED BY <1>2, <1>3, <1>4, <1>5, <1>6, <1>7, <1>8, <1>9, <1>10, <1>11, <1>12, <1>13
       DEF Next, Worker

\* What a step does to the pass: it starts it, goes on with the same copy, ends
\* it, or leaves it alone.
LEMMA PassSteps ==
  ASSUME [Next]_vars
  PROVE  Reconcile \/ PassOn \/ Ends \/ Rests
PROOF
  <1>1. CASE Finalize
    BY <1>1 DEF Finalize, PassOn, Guarding, Syncing
  <1>2. CASE MissingRole \/ Prune \/ DeleteBinding
    BY <1>2 DEF MissingRole, Prune, DeleteBinding, PassOn, Guarding, Syncing
  <1>3. CASE ReplaceBinding
    BY <1>3 DEF ReplaceBinding, GiveUp, PassOn, Guarding, Syncing, locals
  <1>4. CASE EnsureBinding
    BY <1>4 DEF EnsureBinding, GiveUp, PassOn, Guarding, Syncing
  <1>5. CASE Unbound \/ Release \/ Adopt \/ ReportStatus
    BY <1>5 DEF Unbound, Release, Adopt, ReportStatus, Done, Ends
  <1>6. CASE Deliver
    BY <1>6 DEF Deliver, DeliverOwner, Resync, DeliverBinding, DeliverRole, locals, Rests
  <1>7. CASE \E n \in Names : LetGo(n)
    BY <1>7 DEF LetGo, locals, Rests
  <1>8. CASE Users
    BY <1>8 DEF Users, CreateOwner, EditOwner, DeleteOwner, AddForeign, RemoveForeign,
                ForceRelease, Edit, locals, Rests
  <1>9. CASE Crash
    BY <1>9 DEF Crash, Ends
  <1>10. CASE CallFails
    BY <1>10 DEF CallFails, Done, GiveUp, Ends, PassOn, Guarding, Syncing
  <1>11. CASE Others /\ ~Crash /\ ~CallFails
    BY <1>11 DEF Others, ToggleRole, DriftBinding, HoldBinding, SquatBinding, Elsewhere,
                 locals, Rests
  <1>12. CASE UNCHANGED vars
    BY <1>12 DEF vars, locals, Rests
  <1> QED BY <1>1, <1>2, <1>3, <1>4, <1>5, <1>6, <1>7, <1>8, <1>9, <1>10, <1>11, <1>12
       DEF Next, Worker

-----------------------------------------------------------------------------
(* Versions *)

\* resourceVersions are numbers, to be compared.
LEMMA Reads == TypeOK => /\ owner.rv \in Nat /\ cache.owner.rv \in Nat /\ cam.rv \in Nat
                         /\ \A w \in watch : w.rv \in Nat
PROOF
  <1> SUFFICES ASSUME TypeOK
               PROVE  /\ owner.rv \in Nat /\ cache.owner.rv \in Nat /\ cam.rv \in Nat
                      /\ \A w \in watch : w.rv \in Nat
    OBVIOUS
  <1>1. /\ owner \in OwnerVersion /\ cam \in OwnerVersion /\ watch \subseteq OwnerVersion
        /\ cache \in Copies
    BY DEF TypeOK
  <1> QED BY <1>1 DEF OwnerVersion, Copies

\* Each step keeps the versions in order.
LEMMA VersionsStep ==
  ASSUME TypeOK, TypeOK', Versions, [Next]_vars
  PROVE  Versions'
PROOF
  <1>1. Local \/ (Written /\ Writes) \/ Delivered \/ Restarted
    BY OwnerSteps
  <1>2. /\ owner.rv \in Nat /\ cache.owner.rv \in Nat /\ cam.rv \in Nat
        /\ \A w \in watch : w.rv \in Nat
    BY Reads
  <1>3. Current'
    <2>1. CASE Local
      BY <2>1 DEF Local, Versions, Current
    <2>2. CASE Written /\ Writes
      BY <2>2, <1>2 DEF Written, Versions, Current
    <2>3. CASE Delivered
      BY <2>3, <1>2 DEF Delivered, Versions, Current
    <2>4. CASE Restarted
      BY <2>4, <1>2 DEF Restarted, Current
    <2> QED BY <1>1, <2>1, <2>2, <2>3, <2>4
  <1>4. /\ cache.owner.rv <= cache'.owner.rv
        /\ cache'.owner.rv = cache.owner.rv => cache'.owner = cache.owner
    BY <1>1, <1>2 DEF Local, Written, Delivered, Restarted, Versions, Current
  <1>5. cache'.owner.rv \in Nat
    BY <1>1, <1>2 DEF Local, Written, Delivered, Restarted
  <1>6. Read'
    <2>1. CASE Reconcile
      BY <2>1, <1>5 DEF Reconcile, FirstStep, Read
    <2>2. CASE PassOn
      BY <2>2, <1>2, <1>4, <1>5 DEF PassOn, Versions, Read
    <2>3. CASE Ends
      BY <2>3 DEF Ends, Read
    <2>4. CASE Rests
      BY <2>4, <1>2, <1>4, <1>5 DEF Rests, Versions, Read
    <2> QED BY PassSteps, <2>1, <2>2, <2>3, <2>4
  <1> QED BY <1>3, <1>6 DEF Versions

\* At the start there is one version, everywhere.
LEMMA VersionsInit == Init => Versions
PROOF
  <1> SUFFICES ASSUME Init PROVE Versions
    OBVIOUS
  <1>1. owner = NoOwner /\ cache.owner = owner /\ watch = {} /\ pc = "idle"
    BY DEF Init
  <1>2. owner.rv = 0
    BY <1>1 DEF NoOwner
  <1> QED BY <1>1, <1>2 DEF Versions, Current, Read

\* The optimistic lock: a finalizer patch that is accepted finds the owner as the
\* pass read it, and no newer version of it is on its way.
LEMMA Locked ==
  ASSUME TypeOK, Versions, pc # "idle", PatchAccepted
  PROVE  cam = owner /\ cache.owner = owner /\ watch = {}
PROOF
  <1>1. /\ owner.rv \in Nat /\ cache.owner.rv \in Nat
        /\ \A w \in watch : w.rv \in Nat
    BY Reads
  <1>2. cam.rv = owner.rv
    BY DEF PatchAccepted
  <1>3. cache.owner.rv = owner.rv
    BY <1>1, <1>2 DEF Versions, Current, Read
  <1> QED BY <1>1, <1>2, <1>3 DEF Versions, Current, Read

-----------------------------------------------------------------------------
(* The hold, when nobody removes our finalizer by force *)

Gentle == "force" \notin Disturbances

Held(o) == o.present /\ Finalizer \in o.finalizers
Guard ==
  /\ \A v \in {cache.owner} \union watch : Held(v) /\ ~v.deleting => Held(owner)
  /\ pc = "adopt" => ~cam.deleting
  /\ pc = "release" => Owned(bindings) = {}
  /\ pc \in Guarding => Held(owner)
  /\ ~Held(owner) => Owned(bindings) = {}

\* What users do to the owner: only the deletion of a held one moves it.
LEMMA UsersPhase ==
  ASSUME TypeOK, TypeOK', Gentle, Users
  PROVE  Phase' = Phase \/ (Phase = "held" /\ Phase' = "ending")
PROOF
  <1> DEFINE Moves == Phase' = Phase \/ (Phase = "held" /\ Phase' = "ending")
  <1>1. owner \in OwnerVersion
    BY DEF TypeOK
  <1>2. CASE owner' = owner
    BY <1>2 DEF Phase
  <1>3. cache' = cache
    BY DEF Users, CreateOwner, EditOwner, DeleteOwner, AddForeign, RemoveForeign,
           ForceRelease, Edit
  <1>4. ASSUME NEW s \in Specs, CreateOwner(s), owner' # owner PROVE Moves
    <2>1. owner' = [Created(s) EXCEPT !.rv = owner'.rv]
      BY <1>3, <1>4, WriteShape DEF CreateOwner
    <2>2. owner'.finalizers = {}
      BY <2>1 DEF Created, NoOwner
    <2> QED BY <1>4, <2>2 DEF CreateOwner, Phase
  <1>5. ASSUME NEW s \in Specs, EditOwner(s), owner' # owner PROVE Moves
    <2>1. owner' = [Edited(s) EXCEPT !.rv = owner'.rv]
      BY <1>3, <1>5, WriteShape DEF EditOwner
    <2>2. /\ owner'.present = owner.present /\ owner'.finalizers = owner.finalizers
          /\ owner'.deleting = owner.deleting
      BY <1>1, <2>1 DEF Edited, OwnerVersion
    <2> QED BY <2>2 DEF Phase
  <1>6. CASE DeleteOwner /\ owner' # owner
    <2>1. owner' = [Condemned EXCEPT !.rv = owner'.rv]
      BY <1>3, <1>6, WriteShape DEF DeleteOwner
    <2>2. CASE owner.finalizers = {}
      <3>1. ~owner'.present
        BY <1>1, <2>1, <2>2 DEF Condemned, OwnerVersion
      <3> QED BY <2>2, <3>1 DEF Phase
    <2>3. CASE owner.finalizers # {}
      <3>1. /\ owner'.present = owner.present /\ owner'.finalizers = owner.finalizers
            /\ owner'.deleting
        BY <1>1, <2>1, <2>3 DEF Condemned, OwnerVersion
      <3> QED BY <1>6, <3>1 DEF Phase, DeleteOwner
    <2> QED BY <2>2, <2>3
  <1>7. ASSUME NEW f \in Foreign, NEW fs,
               fs \in {owner.finalizers \union {f}, owner.finalizers \ {f}},
               owner.present, WriteOwner(WithFinalizers(fs)), owner' # owner
        PROVE  Moves
    <2>1. owner' = [WithFinalizers(fs) EXCEPT !.rv = owner'.rv]
      BY <1>3, <1>7, WriteShape
    <2>2. /\ owner'.finalizers = fs /\ owner'.deleting = owner.deleting
          /\ owner'.present = ~(owner.deleting /\ fs = {})
      BY <1>1, <2>1 DEF WithFinalizers, OwnerVersion
    <2>3. Finalizer \in fs <=> Finalizer \in owner.finalizers
      BY <1>7, BoundsAssumption
    <2> QED BY <1>7, <2>2, <2>3 DEF Phase
  <1>8. ASSUME NEW f \in Foreign, AddForeign(f) \/ RemoveForeign(f), owner' # owner PROVE Moves
    BY <1>7, <1>8 DEF AddForeign, RemoveForeign
  <1>9. ~ForceRelease
    BY DEF Gentle, ForceRelease, Edit
  <1> QED BY <1>2, <1>4, <1>5, <1>6, <1>8, <1>9 DEF Users

\* A status patch leaves what makes the hold alone.
LEMMA StatusWritten ==
  ASSUME TypeOK, TypeOK', ReportStatus
  PROVE  Phase' = Phase
PROOF
  <1>1. owner \in OwnerVersion
    BY DEF TypeOK
  <1>2. CASE owner' # owner
    <2>1. PICK status : WriteOwner([owner EXCEPT !.status = status])
      BY <1>2 DEF ReportStatus
    <2>2. owner' = [[owner EXCEPT !.status = status] EXCEPT !.rv = owner'.rv]
      BY <1>2, <2>1, WriteShape DEF ReportStatus
    <2>3. /\ owner'.finalizers = owner.finalizers /\ owner'.present = owner.present
          /\ owner'.deleting = owner.deleting
      BY <1>1, <2>2 DEF OwnerVersion
    <2> QED BY <2>3 DEF Phase
  <1> QED BY <1>2 DEF Phase

\* What any step does to the hold: an accepted patch of Adopt takes it, one of
\* Release ends that of a deleted owner, and no grant is left then.
LEMMA PhaseStep ==
  ASSUME TypeOK, TypeOK', Versions, Gentle, Guard, [Next]_vars
  PROVE  \/ Phase' = Phase
         \/ Phase = "free" /\ Phase' = "held"
         \/ Phase = "held" /\ Phase' = "ending"
         \/ /\ Phase = "ending" /\ Phase' = "free" /\ Owned(bindings) = {}
            /\ Release /\ PatchAccepted
PROOF
  <1>1. owner' = owner \/ Release \/ Adopt \/ ReportStatus \/ Users
    BY OwnerSteps DEF Local, Delivered, Restarted, Writes
  <1>2. CASE owner' = owner
    BY <1>2 DEF Phase
  <1>3. owner \in OwnerVersion
    BY DEF TypeOK
  <1>4. CASE (Release \/ Adopt) /\ owner' # owner
    <2>1. PatchAccepted /\ pc # "idle" /\ cache' = cache
      BY <1>4 DEF Release, Adopt
    <2>2. cam = owner
      BY <2>1, Locked
    <2>3. PICK fs : /\ WriteOwner(WithFinalizers(fs))
                    /\ \/ Release /\ fs = owner.finalizers \ {Finalizer}
                       \/ Adopt /\ fs = owner.finalizers \union {Finalizer}
      BY <1>4, <2>1, <2>2 DEF Release, Adopt
    <2>4. owner' = [WithFinalizers(fs) EXCEPT !.rv = owner'.rv]
      BY <1>4, <2>1, <2>3, WriteShape
    <2>5. /\ owner'.finalizers = fs /\ owner'.deleting = owner.deleting
          /\ owner'.present = ~(owner.deleting /\ fs = {})
      BY <1>3, <2>4 DEF WithFinalizers, OwnerVersion
    <2>6. CASE Release
      <3>1. pc = "release" /\ ~Adopt
        BY <2>6 DEF Release, Adopt
      <3>2. owner.deleting /\ Owned(bindings) = {}
        BY <2>2, <3>1 DEF TypeOK, Guard
      <3> QED BY <2>1, <2>3, <2>5, <2>6, <3>1, <3>2 DEF Phase
    <2>7. CASE Adopt
      <3>1. pc = "adopt" /\ ~Release
        BY <2>7 DEF Release, Adopt
      <3>2. ~owner.deleting
        BY <2>2, <3>1 DEF Guard
      <3> QED BY <2>3, <2>5, <3>1, <3>2 DEF Phase
    <2> QED BY <1>4, <2>6, <2>7
  <1>5. CASE ReportStatus
    BY <1>5, StatusWritten
  <1>6. CASE Users
    BY <1>6, UsersPhase
  <1> QED BY <1>1, <1>2, <1>4, <1>5, <1>6

\* So only the release of the finalizer ends the hold on an owner.
LEMMA HoldLasts ==
  ASSUME TypeOK, TypeOK', Versions, Gentle, Guard, [Next]_vars, Held(owner)
  PROVE  Held(owner') \/ (Release /\ PatchAccepted /\ Owned(bindings) = {})
PROOF
  <1>1. Phase # "free"
    BY DEF Held, Phase
  <1>2. Phase' # "free" => Held(owner')
    BY DEF Held, Phase
  <1> QED BY <1>1, <1>2, PhaseStep

-----------------------------------------------------------------------------
(* The grants *)

\* No step changes more than one binding, and none that writes to the owner
\* changes any; only ensure makes one ours.
LEMMA OneBinding ==
  ASSUME TypeOK, [Next]_vars
  PROVE  \/ UNCHANGED bindings
         \/ /\ owner' = owner
            /\ \E n \in Names : \E b :
                 /\ bindings' = [bindings EXCEPT ![n] = b]
                 /\ (IsOwned(b) => IsOwned(bindings[n])) \/ EnsureBinding
PROOF
  <1> DEFINE One == \E n \in Names : \E b :
                      /\ bindings' = [bindings EXCEPT ![n] = b]
                      /\ (IsOwned(b) => IsOwned(bindings[n])) \/ EnsureBinding
             Goal == UNCHANGED bindings \/ (owner' = owner /\ One)
  <1>1. \A n \in Names : bindings[n] \in Binding \union {Absent}
    BY DEF TypeOK
  <1>2. ASSUME NEW n \in Names PROVE IsOwned(Deleted(bindings[n])) => IsOwned(bindings[n])
    BY <1>1 DEF IsOwned, Deleted, Binding
  <1>3. ASSUME pc \in {"bindings", "ensure"}, todo # <<>>
        PROVE  NameOf(cam.spec, Head(todo)) \in Names
    <2>1. cam.spec \in Specs /\ Head(todo) \in Elements(RolesOf(cam.spec))
      BY <1>3, HeadAndTail DEF TypeOK, OwnerVersion
    <2> QED BY <2>1, NameType
  <1>4. CASE DeleteBinding
    <2>1. doomed \subseteq Names
      BY DEF TypeOK
    <2> QED BY <1>2, <1>4, <2>1 DEF DeleteBinding, WriteBinding
  <1>5. CASE ReplaceBinding
    <2> DEFINE n     == NameOf(cam.spec, Head(todo))
               taken == cache.bindings[n] # Absent /\ cache.bindings[n].role # Head(todo)
               new   == IF taken THEN Deleted(bindings[n]) ELSE bindings[n]
    <2>1. n \in Names
      BY <1>3, <1>5 DEF ReplaceBinding
    <2>2. WriteBinding(n, new) /\ owner' = owner
      BY <1>5 DEF ReplaceBinding
    <2>3. IsOwned(new) => IsOwned(bindings[n])
      BY <1>2, <2>1
    <2> HIDE DEF n, new
    <2> QED BY <2>1, <2>2, <2>3 DEF WriteBinding
  <1>6. CASE EnsureBinding
    <2>1. NameOf(cam.spec, Head(todo)) \in Names
      BY <1>3, <1>6 DEF EnsureBinding, TypeOK
    <2> QED BY <1>6, <2>1 DEF EnsureBinding, WriteBinding
  <1>7. ASSUME NEW n \in Names, LetGo(n) \/ DriftBinding(n) \/ HoldBinding(n) PROVE Goal
    <2>1. owner' = owner
      BY <1>7 DEF LetGo, DriftBinding, HoldBinding, Fault
    <2>2. bindings[n] \in Binding /\ Absent \notin Binding
      BY <1>1, <1>7, MarkerAssumption DEF LetGo, DriftBinding, HoldBinding
    <2>3. /\ IsOwned([bindings[n] EXCEPT !.subjects = Outsiders]) => IsOwned(bindings[n])
          /\ IsOwned([bindings[n] EXCEPT !.owned = FALSE]) => IsOwned(bindings[n])
          /\ IsOwned([bindings[n] EXCEPT !.held = TRUE]) => IsOwned(bindings[n])
          /\ IsOwned([bindings[n] EXCEPT !.held = FALSE]) => IsOwned(bindings[n])
          /\ ~IsOwned(Absent)
      BY <2>2 DEF IsOwned, Binding
    <2>4. \E b : WriteBinding(n, b) /\ (IsOwned(b) => IsOwned(bindings[n]))
      BY <1>2, <1>7, <2>3 DEF LetGo, DriftBinding, HoldBinding
    <2> QED BY <2>1, <2>4 DEF WriteBinding
  <1>8. ASSUME NEW n \in Names, NEW r \in Roles, SquatBinding(n, r) PROVE Goal
    <2>1. ~IsOwned([NewBinding EXCEPT !.role = r])
      BY DEF IsOwned, NewBinding
    <2> QED BY <1>8, <2>1 DEF SquatBinding, Fault, WriteBinding
  <1>9. CASE Worker
    BY <1>4, <1>5, <1>6, <1>9
    DEF Worker, server, Reconcile, Finalize, Unbound, Release, Adopt, MissingRole, Prune,
        ReportStatus
  <1>10. CASE Deliver
    BY <1>10 DEF Deliver, server, DeliverOwner, Resync, DeliverBinding, DeliverRole
  <1>11. CASE Users
    BY <1>11 DEF Users, Edit, CreateOwner, EditOwner, DeleteOwner, AddForeign,
                 RemoveForeign, ForceRelease
  <1>12. CASE Others
    BY <1>7, <1>8, <1>12 DEF Others, CallFails, Crash, ToggleRole
  <1>13. CASE UNCHANGED vars
    BY <1>13 DEF vars, server
  <1> QED BY <1>7, <1>9, <1>10, <1>11, <1>12, <1>13 DEF Next

\* So a step takes one grant, leaves them alone, or gives one: ensure does.
LEMMA OneGrant ==
  ASSUME TypeOK, [Next]_vars
  PROVE  \/ Owned(bindings') = Owned(bindings)
         \/ owner' = owner /\ \E n \in Names : Owned(bindings') = Owned(bindings) \ {n}
         \/ /\ owner' = owner /\ EnsureBinding
            /\ \E n \in Names : Owned(bindings') = Owned(bindings) \union {n}
PROOF
  <1>1. CASE UNCHANGED bindings
    BY <1>1
  <1>2. ASSUME NEW n \in Names, NEW b, owner' = owner, bindings' = [bindings EXCEPT ![n] = b],
               (IsOwned(b) => IsOwned(bindings[n])) \/ EnsureBinding
        PROVE  \/ Owned(bindings') = Owned(bindings)
               \/ Owned(bindings') = Owned(bindings) \ {n}
               \/ EnsureBinding /\ Owned(bindings') = Owned(bindings) \union {n}
    <2>1. \A j \in Names : bindings'[j] = IF j = n THEN b ELSE bindings[j]
      BY <1>2 DEF TypeOK
    <2>2. CASE ~IsOwned(b)
      BY <2>1, <2>2 DEF Owned
    <2>3. CASE IsOwned(b) /\ IsOwned(bindings[n])
      BY <2>1, <2>3 DEF Owned
    <2>4. CASE IsOwned(b) /\ EnsureBinding
      BY <2>1, <2>4 DEF Owned
    <2> QED BY <1>2, <2>2, <2>3, <2>4
  <1> QED BY <1>1, <1>2, OneBinding

-----------------------------------------------------------------------------
(* The guard is inductive *)

\* Nothing is granted or held at the start.
LEMMA GuardInit == Init => Guard /\ Phase = "free" /\ Owned(bindings) = {}
PROOF
  <1> SUFFICES ASSUME Init PROVE Guard /\ Phase = "free" /\ Owned(bindings) = {}
    OBVIOUS
  <1>1. owner = NoOwner /\ cache.owner = owner /\ watch = {} /\ pc = "idle"
    BY DEF Init
  <1>2. ~Held(owner)
    BY <1>1 DEF NoOwner, Held
  <1>3. Owned(bindings) = {}
    BY DEF Init, Owned, IsOwned
  <1> QED BY <1>1, <1>2, <1>3 DEF Guard, Guarding, Syncing, Phase, Held

\* Every step keeps the guard: a grant comes only from a pass that is guarded,
\* and the hold goes only with a pass that saw no grant left.
LEMMA GuardStep ==
  ASSUME TypeOK, TypeOK', Versions, Gentle, Guard, [Next]_vars
  PROVE  Guard'
PROOF
  <1>1. Local \/ (Written /\ Writes) \/ Delivered \/ Restarted
    BY OwnerSteps
  <1>2. ASSUME Release, PatchAccepted
        PROVE  /\ pc = "release"
               /\ \A v \in {cache.owner} \union watch : v.deleting
    <2>1. pc = "release"
      BY <1>2 DEF Release
    <2>2. cam = owner /\ cache.owner = owner /\ watch = {}
      BY <1>2, <2>1, Locked
    <2> QED BY <2>1, <2>2 DEF TypeOK
  <1>3. ASSUME NEW v \in {cache'.owner} \union watch', Held(v), ~v.deleting
        PROVE  Held(owner')
    <2>1. v = owner' \/ v \in {cache.owner} \union watch
      BY <1>1 DEF Local, Written, Delivered, Restarted
    <2>2. CASE v \in {cache.owner} \union watch
      <3>1. Held(owner)
        BY <1>3, <2>2 DEF Guard
      <3> QED BY <1>2, <1>3, <2>2, <3>1, HoldLasts
    <2> QED BY <1>3, <2>1, <2>2
  <1>4. ASSUME pc' = "adopt" PROVE ~cam'.deleting
    <2>1. CASE Reconcile
      BY <1>4, <2>1 DEF Reconcile, FirstStep
    <2>2. CASE Rests
      BY <1>4, <2>2 DEF Rests, Guard
    <2> QED BY <1>4, <2>1, <2>2, PassSteps DEF PassOn, Ends
  <1>5. ASSUME pc' = "release" PROVE Owned(bindings') = {}
    <2>1. CASE pc = "release"
      <3>1. ~EnsureBinding
        BY <2>1 DEF EnsureBinding
      <3>2. Owned(bindings) = {}
        BY <2>1 DEF Guard
      <3> QED BY <3>1, <3>2, OneGrant
    <2>2. CASE Finalize
      BY <1>5, <2>2 DEF Finalize, Remaining, server
    <2>3. ~Reconcile /\ ~Ends
      BY <1>5 DEF Reconcile, FirstStep, Ends
    <2> QED BY <1>5, <2>1, <2>2, <2>3, PassSteps DEF PassOn, Rests
  <1>6. ASSUME pc' \in Guarding PROVE Held(owner')
    <2>1. CASE Reconcile
      <3>1. Held(cache.owner) /\ ~cache.owner.deleting
        BY <1>6, <2>1 DEF Reconcile, FirstStep, Held, Guarding, Syncing
      <3>2. cache'.owner = cache.owner
        BY <2>1 DEF Reconcile
      <3> QED BY <1>3, <3>1, <3>2
    <2>2. CASE pc \in Guarding
      <3>1. Held(owner) /\ pc # "release"
        BY <2>2 DEF Guard, Guarding, Syncing
      <3> QED BY <1>2, <3>1, HoldLasts
    <2>3. ~Ends
      BY <1>6 DEF Ends, Guarding, Syncing
    <2> QED BY <1>6, <2>1, <2>2, <2>3, PassSteps DEF PassOn, Rests
  <1>7. ASSUME ~Held(owner') PROVE Owned(bindings') = {}
    <2>1. Owned(bindings) = {}
      BY <1>7, HoldLasts DEF Guard
    <2>2. ~EnsureBinding
      <3>1. ASSUME EnsureBinding PROVE FALSE
        <4>1. Held(owner) /\ owner' = owner
          BY <3>1 DEF EnsureBinding, Guard, Guarding, Syncing
        <4> QED BY <1>7, <4>1
      <3> QED BY <3>1
    <2> QED BY <2>1, <2>2, OneGrant
  <1> QED BY <1>3, <1>4, <1>5, <1>6, <1>7 DEF Guard

\* Unless our finalizer is removed by force, no grant of the cluster is ever left
\* without a ClusterAccessMapping that will remove it, whatever a pass read from
\* the caches and however it was overtaken.
THEOREM NothingOrphaned ==
  ASSUME Gentle
  PROVE  Spec => []NoOrphanedGrant
PROOF
  <1>1. Init => TypeOK /\ Versions /\ Guard
    BY TypeInit, VersionsInit, GuardInit
  <1>2. TypeOK /\ Versions /\ Guard /\ [Next]_vars => (TypeOK /\ Versions /\ Guard)'
    BY TypeStep, VersionsStep, GuardStep
  <1>3. TypeOK /\ Versions /\ Guard => NoOrphanedGrant
    BY DEF NoOrphanedGrant, Guard, Held
  <1> QED BY <1>1, <1>2, <1>3, PTL DEF Spec

-----------------------------------------------------------------------------
(* The refinement *)

\* Every step is one of the lifecycle, or none.
LEMMA LifecycleStep ==
  ASSUME TypeOK, TypeOK', Versions, Gentle, Guard, [Next]_vars
  PROVE  [Promise!Next]_<<Phase, Owned(bindings)>>
PROOF
  <1>1. CASE Owned(bindings') = Owned(bindings)
    BY <1>1, PhaseStep DEF Promise!Next, Promise!Take, Promise!Condemn, Promise!Release
  <1>2. ASSUME NEW n \in Names, owner' = owner, Owned(bindings') = Owned(bindings) \ {n}
        PROVE  [Promise!Next]_<<Phase, Owned(bindings)>>
    <2>1. Phase' = Phase
      BY <1>2 DEF Phase
    <2> QED BY <1>2, <2>1 DEF Promise!Next, Promise!Revoke
  <1>3. ASSUME NEW n \in Names, owner' = owner, EnsureBinding,
               Owned(bindings') = Owned(bindings) \union {n}
        PROVE  [Promise!Next]_<<Phase, Owned(bindings)>>
    <2>1. Phase' = Phase
      BY <1>3 DEF Phase
    <2>2. Phase \in {"held", "ending"}
      BY <1>3 DEF EnsureBinding, Guard, Guarding, Syncing, Held, Phase
    <2> QED BY <1>3, <2>1, <2>2 DEF Promise!Next, Promise!Grant
  <1> QED BY <1>1, <1>2, <1>3, OneGrant

\* The reconciler does to the grants of a ClusterAccessMapping what GrantLifecycle
\* says: they come only under the hold of the finalizer, and the hold ends only
\* after a deletion, with none left (clusteraccess.go:40-57, 72-97).
THEOREM LifecycleKept ==
  ASSUME Gentle
  PROVE  Spec => KeepsPromise
PROOF
  <1>1. Init => TypeOK /\ Versions /\ Guard
    BY TypeInit, VersionsInit, GuardInit
  <1>2. TypeOK /\ Versions /\ Guard /\ [Next]_vars => (TypeOK /\ Versions /\ Guard)'
    BY TypeStep, VersionsStep, GuardStep
  <1>3. Init => Promise!Init
    BY GuardInit DEF Promise!Init
  <1>4. TypeOK /\ TypeOK' /\ Versions /\ Guard /\ [Next]_vars
          => [Promise!Next]_<<Phase, Owned(bindings)>>
    BY LifecycleStep
  <1> QED BY <1>1, <1>2, <1>3, <1>4, PTL DEF Spec, KeepsPromise, Promise!Spec
=============================================================================

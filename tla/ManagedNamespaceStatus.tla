------------------------- MODULE ManagedNamespaceStatus -------------------------
(***************************************************************************)
(* The status of a ManagedNamespace, for every value of the constants: it  *)
(* speaks of the object that carries it, does not go back, and its parts   *)
(* go together, though each patch is a difference to a status that may be  *)
(* out of date and is applied to whatever the object has become; so the    *)
(* viewer's badge does not mislead, and the gauge comes to agree with it.  *)
(*                                                                         *)
(* The argument goes over generations: those of the versions still to be   *)
(* seen grow, a pass works on one no later than they, and what the status  *)
(* has reached is no later than that.                                      *)
(***************************************************************************)
EXTENDS ManagedNamespaceSafety, Viewer

Seen == {cache.owner} \union watch
Wanted(v) == Held(v) /\ ~v.deleting

\* What the live status has reached is generation n or before; what the status
\* s had reached, it has.
At(n) ==
  owner.status.observedGeneration <= n /\ owner.status.ready.generation <= n
Reached(s) ==
  /\ s.observedGeneration <= owner.status.observedGeneration
  /\ s.ready.generation <= owner.status.ready.generation

Following ==
  /\ \A v, w \in Seen : Wanted(v) /\ Wanted(w) /\ v.rv <= w.rv => v.generation <= w.generation
  /\ pc \in Guarding => \A v \in Seen : Wanted(v) => mns.generation <= v.generation
Within ==
  /\ owner.present => At(owner.generation)
  /\ \A v \in Seen : Wanted(v) => At(v.generation) /\ Reached(v.status)
  /\ pc \in Guarding => At(mns.generation) /\ Reached(mns.status)
StatusGuard == Following /\ Within /\ ReadyMeansObserved

-----------------------------------------------------------------------------
(* What one step does to the owner's generation, spec and status *)

\* The object lives on, and another spec has a later generation.
Lives ==
  /\ owner.present /\ owner.generation <= owner'.generation
  /\ owner'.generation = owner.generation => owner'.spec = owner.spec

\* Generations and the statuses of the versions are of the types they have.
LEMMA Numbers ==
  ASSUME TypeOK
  PROVE  \A v \in {owner, mns} \union Seen :
           /\ v \in OwnerVersion /\ v.generation \in Nat /\ v.rv \in Nat
           /\ v.status.observedGeneration \in Nat /\ v.status.ready.generation \in Nat
PROOF
  <1>1. \A v \in {owner, mns} \union Seen : v \in OwnerVersion
    BY DEF TypeOK, Seen, Copies
  <1> QED BY <1>1 DEF OwnerVersion, Status, Condition

\* A patch of the status leaves each generation in it as it is, or makes it that
\* of the pass.
LEMMA PatchedGenerations ==
  ASSUME TypeOK
  PROVE  /\ PatchedStatus.observedGeneration \in {owner.status.observedGeneration, mns.generation}
         /\ PatchedStatus.ready.generation \in {owner.status.ready.generation, mns.generation}
PROOF
  <1>1. mns.status \in Status
    BY DEF TypeOK, OwnerVersion
  <1>2. /\ Outcome.observedGeneration \in {mns.status.observedGeneration, mns.generation}
        /\ Outcome.ready.generation = mns.generation
    BY <1>1 DEF Outcome, Report, Status
  <1> QED BY <1>2 DEF PatchedStatus, MergePatch

\* What users do to an owner that lives on: its generation grows, with a new spec
\* strictly, and its status stays; a new one has none.
LEMMA UsersStatus ==
  ASSUME TypeOK, TypeOK', Users, owner'.present
  PROVE  \/ Lives /\ owner'.status = owner.status
         \/ ~owner.present /\ owner'.status = NoStatus
PROOF
  <1> DEFINE Goal ==
        \/ Lives /\ owner'.status = owner.status
        \/ ~owner.present /\ owner'.status = NoStatus
  <1>1. owner \in OwnerVersion /\ owner.generation \in Nat
    BY DEF TypeOK, OwnerVersion
  <1>2. CASE owner' = owner
    BY <1>1, <1>2 DEF Lives
  <1>3. cache' = cache
    BY DEF Users, CreateOwner, EditOwner, DeleteOwner, AddForeign, RemoveForeign,
           ForceRelease, Edit
  <1>4. ASSUME NEW s \in Specs, CreateOwner(s), owner' # owner PROVE Goal
    <2>1. owner' = [Created(s) EXCEPT !.rv = owner'.rv]
      BY <1>3, <1>4, WriteShape DEF CreateOwner
    <2>2. owner'.status = NoStatus
      BY <2>1 DEF Created, NoOwner
    <2> QED BY <1>4, <2>2 DEF CreateOwner
  <1>5. ASSUME NEW s \in Specs, EditOwner(s), owner' # owner PROVE Goal
    <2>1. owner' = [Edited(s) EXCEPT !.rv = owner'.rv]
      BY <1>3, <1>5, WriteShape DEF EditOwner
    <2>2. owner'.generation = owner.generation + 1 /\ owner'.status = owner.status
      BY <1>1, <2>1 DEF Edited, OwnerVersion
    <2> QED BY <1>1, <1>5, <2>2 DEF EditOwner, Lives
  <1>6. CASE DeleteOwner /\ owner' # owner
    <2>1. owner' = [Condemned EXCEPT !.rv = owner'.rv]
      BY <1>3, <1>6, WriteShape DEF DeleteOwner
    <2>2. owner.finalizers # {}
      BY <1>1, <2>1 DEF Condemned, OwnerVersion
    <2>3. owner'.generation = owner.generation + 1 /\ owner'.status = owner.status
      BY <1>1, <2>1, <2>2 DEF Condemned, OwnerVersion
    <2> QED BY <1>1, <1>6, <2>3 DEF DeleteOwner, Lives
  <1>7. ASSUME NEW fs, owner.present, WriteOwner(WithFinalizers(fs)), owner' # owner
        PROVE  Goal
    <2>1. owner' = [WithFinalizers(fs) EXCEPT !.rv = owner'.rv]
      BY <1>3, <1>7, WriteShape
    <2>2. /\ owner'.generation = owner.generation /\ owner'.spec = owner.spec
          /\ owner'.status = owner.status
      BY <1>1, <2>1 DEF WithFinalizers, OwnerVersion
    <2> QED BY <1>1, <1>7, <2>2 DEF Lives
  <1>8. CASE owner' # owner /\ \E f \in Foreign : AddForeign(f) \/ RemoveForeign(f)
    BY <1>7, <1>8 DEF AddForeign, RemoveForeign
  <1>9. CASE owner' # owner /\ ForceRelease
    BY <1>7, <1>9 DEF ForceRelease
  <1> QED BY <1>2, <1>4, <1>5, <1>6, <1>8, <1>9 DEF Users

\* What any step does: only ReportStatus changes the status of an object.
LEMMA StatusStep ==
  ASSUME TypeOK, TypeOK', Versions, [Next]_vars, owner'.present
  PROVE  \/ /\ Lives
            /\ owner'.status = owner.status \/ (ReportStatus /\ owner'.status = PatchedStatus)
         \/ ~owner.present /\ owner'.status = NoStatus
PROOF
  <1>1. owner' = owner \/ Release \/ Adopt \/ ReportStatus \/ Users
    BY Steps DEF Local, Delivered, Restarted, Writes
  <1>2. owner \in OwnerVersion /\ owner.generation \in Nat
    BY DEF TypeOK, OwnerVersion
  <1>3. CASE owner' = owner
    BY <1>2, <1>3 DEF Lives
  <1>4. CASE (Release \/ Adopt) /\ owner' # owner
    <2>1. PatchAccepted /\ cache' = cache
      BY <1>4, PatchWritten DEF Release, Adopt
    <2>2. PICK fs : WriteOwner(WithFinalizers(fs))
      BY <1>4, <2>1 DEF Release, Adopt
    <2>3. owner' = [WithFinalizers(fs) EXCEPT !.rv = owner'.rv]
      BY <1>4, <2>1, <2>2, WriteShape
    <2>4. /\ owner'.generation = owner.generation /\ owner'.spec = owner.spec
          /\ owner'.status = owner.status
      BY <1>2, <2>3 DEF WithFinalizers, OwnerVersion
    <2> QED BY <1>2, <2>1, <2>4 DEF PatchAccepted, Lives
  <1>5. CASE ReportStatus /\ owner' # owner
    <2>1. owner.present /\ WriteOwner([owner EXCEPT !.status = PatchedStatus]) /\ cache' = cache
      BY <1>5 DEF ReportStatus
    <2>2. owner' = [[owner EXCEPT !.status = PatchedStatus] EXCEPT !.rv = owner'.rv]
      BY <1>5, <2>1, WriteShape
    <2>3. /\ owner'.generation = owner.generation /\ owner'.spec = owner.spec
          /\ owner'.status = PatchedStatus
      BY <1>2, <2>2 DEF OwnerVersion
    <2> QED BY <1>2, <1>5, <2>1, <2>3 DEF Lives
  <1>6. CASE Users
    BY <1>6, UsersStatus
  <1> QED BY <1>1, <1>3, <1>4, <1>5, <1>6

-----------------------------------------------------------------------------
(* The guard of the status is inductive *)

\* What the cache and the watch hold next is what they held, or the new version.
LEMMA SeenNext == ASSUME TypeOK, TypeOK', [Next]_vars PROVE Seen' \subseteq Seen \union {owner'}
  BY Steps DEF Seen, Local, Written, Delivered, Restarted

\* A pass in sync, or at its status, was there before or starts from the cache.
LEMMA PassNext ==
  ASSUME TypeOK, TypeOK', [Next]_vars, pc' \in Guarding
  PROVE  \/ /\ mns' = cache.owner /\ Wanted(cache.owner)
            /\ UNCHANGED <<owner, watch>> /\ cache'.owner = cache.owner
         \/ pc \in Guarding /\ mns' = mns
PROOF
  <1>1. CASE Reconcile
    BY <1>1 DEF Reconcile, FirstStep, Wanted, Held, Guarding, Syncing
  <1>2. CASE PassOn \/ Rests
    BY <1>2 DEF PassOn, Rests
  <1>3. ~Ends
    BY DEF Ends, Guarding, Syncing
  <1> QED BY <1>1, <1>2, <1>3, Steps

\* While the object lives, its status does not go back.
LEMMA StatusGrows ==
  ASSUME TypeOK, TypeOK', Versions, Within, [Next]_vars, owner.present, owner'.present
  PROVE  /\ owner.status.observedGeneration <= owner'.status.observedGeneration
         /\ owner.status.ready.generation <= owner'.status.ready.generation
PROOF
  <1>1. /\ owner.status.observedGeneration \in Nat /\ owner.status.ready.generation \in Nat
        /\ mns.generation \in Nat
    BY Numbers
  <1>2. CASE owner'.status = owner.status
    BY <1>1, <1>2
  <1>3. CASE ReportStatus /\ owner'.status = PatchedStatus
    <2>1. At(mns.generation)
      BY <1>3 DEF ReportStatus, Reporting, Within, Guarding, Syncing
    <2> QED BY <1>1, <1>3, <2>1, PatchedGenerations DEF At
  <1> QED BY <1>2, <1>3, StatusStep DEF Lives

\* A bound on the status, and on the pass that reports next, remains one.
LEMMA StaysAt ==
  ASSUME TypeOK, TypeOK', Versions, [Next]_vars, owner'.present
  PROVE  \A n \in Nat :
           (owner.present => At(n)) /\ (pc \in Guarding => mns.generation <= n) =>
             /\ owner'.status.observedGeneration <= n
             /\ owner'.status.ready.generation <= n
PROOF
  <1> SUFFICES ASSUME NEW n \in Nat, owner.present => At(n),
                      pc \in Guarding => mns.generation <= n
               PROVE  /\ owner'.status.observedGeneration <= n
                      /\ owner'.status.ready.generation <= n
    OBVIOUS
  <1>1. CASE owner.present /\ owner'.status = owner.status
    BY <1>1 DEF At
  <1>2. CASE owner.present /\ ReportStatus /\ owner'.status = PatchedStatus
    <2>1. mns.generation <= n
      BY <1>2 DEF ReportStatus, Reporting, Guarding, Syncing
    <2> QED BY <1>2, <2>1, PatchedGenerations DEF At
  <1>3. CASE owner'.status = NoStatus
    BY <1>3 DEF NoStatus
  <1> QED BY <1>1, <1>2, <1>3, StatusStep DEF Lives

\* Later versions have later generations, and a pass works on one before them.
LEMMA FollowingStep ==
  ASSUME TypeOK, TypeOK', Versions, Versions', Guard', Following, [Next]_vars
  PROVE  Following'
PROOF
  <1>1. Seen' \subseteq Seen \union {owner'}
    BY SeenNext
  <1>2. ASSUME NEW v \in Seen', Wanted(v) PROVE v.generation <= owner'.generation
    BY <1>2 DEF Guard, Seen, Wanted
  <1>3. ASSUME NEW v \in Seen', NEW w \in Seen', Wanted(v), Wanted(w), v.rv <= w.rv
        PROVE  v.generation <= w.generation
    <2>1. CASE v \in Seen /\ w \in Seen
      BY <1>3, <2>1 DEF Following
    <2>2. CASE w = owner'
      BY <1>2, <1>3, <2>2
    <2>3. CASE v = owner'
      <3>1. v.rv \in Nat /\ w.rv \in Nat /\ v.generation \in Nat
        BY DEF TypeOK, Seen, Copies, OwnerVersion
      <3>2. w.rv <= owner'.rv /\ (w.rv = owner'.rv => w = owner')
        BY DEF Versions, Current, Seen
      <3> QED BY <1>3, <2>2, <2>3, <3>1, <3>2
    <2> QED BY <1>1, <2>1, <2>2, <2>3
  <1>4. ASSUME pc' \in Guarding, NEW v \in Seen', Wanted(v) PROVE mns'.generation <= v.generation
    <2>1. CASE v = owner'
      BY <1>4, <2>1 DEF Guard
    <2>2. CASE v \in Seen /\ pc \in Guarding /\ mns' = mns
      BY <1>4, <2>2 DEF Following
    <2>3. CASE v \in Seen /\ mns' = cache.owner /\ Wanted(cache.owner)
      <3>1. cache.owner.rv \in Nat /\ v.rv \in Nat
        BY <2>3, Numbers DEF Seen
      <3>2. cache.owner.rv <= v.rv
        BY <2>3, <3>1 DEF Versions, Current, Seen
      <3> QED BY <1>4, <2>3, <3>2 DEF Following, Seen
    <2> QED BY <1>1, <1>4, <2>1, <2>2, <2>3, PassNext
  <1> QED BY <1>3, <1>4 DEF Following

\* The status keeps within the generations of the object, of the versions to be
\* seen, and of the pass.
LEMMA WithinStep ==
  ASSUME TypeOK, TypeOK', Versions, Guard, Guard', Following, Within, [Next]_vars
  PROVE  Within'
PROOF
  <1> DEFINE AtNext(n) == /\ owner'.status.observedGeneration <= n
                          /\ owner'.status.ready.generation <= n
             HasReached(s) == /\ s.observedGeneration <= owner'.status.observedGeneration
                              /\ s.ready.generation <= owner'.status.ready.generation
  <1>1. Seen' \subseteq Seen \union {owner'}
    BY SeenNext
  <1>2. /\ owner.generation \in Nat /\ owner'.generation \in Nat /\ mns.generation \in Nat
        /\ owner.status.observedGeneration \in Nat /\ owner.status.ready.generation \in Nat
        /\ owner'.status.observedGeneration \in Nat /\ owner'.status.ready.generation \in Nat
        /\ mns.status.observedGeneration \in Nat /\ mns.status.ready.generation \in Nat
        /\ \A v \in Seen : /\ v.generation \in Nat
                           /\ v.status.observedGeneration \in Nat
                           /\ v.status.ready.generation \in Nat
    <2>1. owner' \in OwnerVersion
      BY DEF TypeOK
    <2> QED BY <2>1, Numbers DEF OwnerVersion, Status, Condition
  <1>3. ASSUME owner'.present PROVE AtNext(owner'.generation)
    <2>1. owner.present => At(owner.generation) /\ owner.generation <= owner'.generation
      BY <1>3, StatusStep DEF Within, Lives
    <2>2. owner.present => At(owner'.generation)
      BY <1>2, <2>1 DEF At
    <2>3. pc \in Guarding => mns.generation <= owner'.generation
      BY <1>2, <2>1 DEF Guard, Held
    <2> QED BY <1>2, <1>3, <2>2, <2>3, StaysAt
  <1>4. ASSUME Held(owner), Held(owner')
        PROVE  /\ owner.status.observedGeneration <= owner'.status.observedGeneration
               /\ owner.status.ready.generation <= owner'.status.ready.generation
    BY <1>4, StatusGrows DEF Held
  <1>5. ASSUME NEW v \in Seen', Wanted(v) PROVE AtNext(v.generation) /\ HasReached(v.status)
    <2>1. Held(owner')
      BY <1>5 DEF Guard, Seen, Wanted
    <2>2. CASE v = owner'
      BY <1>2, <1>3, <2>1, <2>2 DEF Held, At, Reached
    <2>3. CASE v \in Seen
      <3>1. Held(owner) /\ At(v.generation) /\ Reached(v.status)
        BY <1>5, <2>3 DEF Guard, Seen, Wanted, Within
      <3>2. pc \in Guarding => mns.generation <= v.generation
        BY <1>5, <2>3 DEF Following
      <3>3. /\ owner'.status.observedGeneration <= v.generation
            /\ owner'.status.ready.generation <= v.generation
        BY <1>2, <2>1, <2>3, <3>1, <3>2, StaysAt DEF Held
      <3> QED BY <1>2, <1>4, <2>1, <2>3, <3>1, <3>3 DEF At, Reached
    <2> QED BY <1>1, <2>2, <2>3
  <1>6. ASSUME pc' \in Guarding PROVE AtNext(mns'.generation) /\ HasReached(mns'.status)
    <2>1. CASE mns' = cache.owner /\ Wanted(cache.owner) /\ UNCHANGED owner
      BY <2>1 DEF Within, Seen, At, Reached
    <2>2. CASE pc \in Guarding /\ mns' = mns
      <3>1. Held(owner) /\ Held(owner') /\ At(mns.generation) /\ Reached(mns.status)
        BY <1>6, <2>2 DEF Guard, Within
      <3>2. /\ owner'.status.observedGeneration <= mns.generation
            /\ owner'.status.ready.generation <= mns.generation
        BY <1>2, <3>1, StaysAt DEF Held
      <3> QED BY <1>2, <1>4, <2>2, <3>1, <3>2 DEF At, Reached
    <2> QED BY <1>6, <2>1, <2>2, PassNext
  <1> QED BY <1>3, <1>5, <1>6 DEF Within, At, Reached

\* A patch that says a pass completed has, or finds, the observed generation of
\* that pass.
LEMMA ReadyStep ==
  ASSUME TypeOK, TypeOK', Versions, Guard, Within, ReadyMeansObserved, [Next]_vars
  PROVE  ReadyMeansObserved'
PROOF
  <1> SUFFICES ASSUME owner'.present,
                      owner'.status.ready.reason \in {"Reconciled", "InvalidReferences"}
               PROVE  owner'.status.observedGeneration = owner'.status.ready.generation
    BY DEF ReadyMeansObserved
  <1>1. CASE owner.present /\ owner'.status = owner.status
    BY <1>1 DEF ReadyMeansObserved
  <1>2. CASE owner.present /\ ReportStatus /\ owner'.status = PatchedStatus
    <2>1. At(mns.generation) /\ Reached(mns.status)
      BY <1>2 DEF ReportStatus, Reporting, Within, Guarding, Syncing
    <2>2. /\ owner.status.observedGeneration \in Nat /\ owner.status.ready.generation \in Nat
          /\ mns.generation \in Nat /\ mns.status \in Status /\ owner.status \in Status
          /\ mns.status.observedGeneration \in Nat /\ mns.status.ready.generation \in Nat
      BY Numbers DEF OwnerVersion
    <2>3. CASE syncErr # "none"
      <3>1. Outcome.observedGeneration = mns.status.observedGeneration
            /\ Outcome.ready.reason = "SyncFailed"
        BY <2>2, <2>3 DEF Outcome, Report, Status
      <3>2. owner'.status.observedGeneration = owner.status.observedGeneration
            /\ owner'.status.ready = owner.status.ready
        BY <1>2, <3>1 DEF PatchedStatus, MergePatch
      <3> QED BY <1>2, <3>2 DEF ReadyMeansObserved
    <2>4. CASE syncErr = "none"
      <3>1. /\ Outcome.observedGeneration = mns.generation
            /\ Outcome.ready.generation = mns.generation
        BY <2>4 DEF Outcome, Report
      <3>2. owner'.status.observedGeneration = mns.generation
        BY <1>2, <2>1, <2>2, <3>1 DEF PatchedStatus, MergePatch, At, Reached
      <3>3. CASE Outcome.ready # mns.status.ready
        BY <1>2, <3>1, <3>2, <3>3 DEF PatchedStatus, MergePatch
      <3>4. CASE Outcome.ready = mns.status.ready
        <4>1. owner'.status.ready = owner.status.ready
          BY <1>2, <3>4 DEF PatchedStatus, MergePatch
        <4>2. owner.status.ready.generation = mns.generation
          BY <2>1, <2>2, <3>1, <3>4 DEF At, Reached
        <4> QED BY <3>2, <4>1, <4>2
      <3> QED BY <3>3, <3>4
    <2> QED BY <2>3, <2>4
  <1>3. CASE owner'.status = NoStatus
    BY <1>3 DEF NoStatus
  <1> QED BY <1>1, <1>2, <1>3, StatusStep DEF Lives

\* At the start nothing is held and nothing reported.
LEMMA StatusInit == Init => StatusGuard
PROOF
  <1> SUFFICES ASSUME Init PROVE StatusGuard
    OBVIOUS
  <1>1. owner = NoOwner /\ cache.owner = owner /\ watch = {} /\ pc = "idle"
    BY DEF Init
  <1>2. ~owner.present /\ \A v \in Seen : ~Wanted(v)
    BY <1>1 DEF NoOwner, Seen, Wanted, Held
  <1> QED BY <1>1, <1>2 DEF StatusGuard, Following, Within, ReadyMeansObserved, Guarding, Syncing

\* All that the status theorems rest on.
LEMMA StatusInvariant ==
  ASSUME Gentle
  PROVE  Spec => [](TypeOK /\ Versions /\ Guard /\ StatusGuard)
PROOF
  <1>1. Init => TypeOK /\ Versions /\ Guard /\ StatusGuard
    BY TypeInit, VersionsInit, GuardInit, StatusInit
  <1>2. TypeOK /\ Versions /\ Guard /\ StatusGuard /\ [Next]_vars
          => (TypeOK /\ Versions /\ Guard /\ StatusGuard)'
    BY TypeStep, VersionsStep, GuardStep, FollowingStep, WithinStep, ReadyStep DEF StatusGuard
  <1> QED BY <1>1, <1>2, PTL DEF Spec

-----------------------------------------------------------------------------
(* The theorems *)

\* A status is patched without resourceVersion or UID, by a pass that read the
\* object long ago: it never carries a generation this object has not reached,
\* not even when the object was recreated meanwhile (managednamespace.go:340-357).
THEOREM StatusHolds ==
  ASSUME Gentle
  PROVE  Spec => []StatusOfThisObject
PROOF
  <1>1. StatusGuard => StatusOfThisObject
    BY DEF StatusGuard, Within, At, StatusOfThisObject
  <1> QED BY <1>1, StatusInvariant, PTL

\* A patch may carry the Ready condition of one pass and leave the observed
\* generation of another: yet a condition that says a pass completed has the
\* observed generation of that pass by its side.
THEOREM ReadyObserved ==
  ASSUME Gentle
  PROVE  Spec => []ReadyMeansObserved
PROOF
  <1>1. StatusGuard => ReadyMeansObserved
    BY DEF StatusGuard
  <1> QED BY <1>1, StatusInvariant, PTL

\* Neither the observed generation nor the condition's goes back while the object
\* lives: passes report in the order of the versions they work on.
THEOREM StatusAdvances ==
  ASSUME Gentle
  PROVE  Spec => StatusNeverRegresses
PROOF
  <1>1. TypeOK /\ TypeOK' /\ Versions /\ StatusGuard /\ [Next]_vars =>
          [owner'.present /\ owner.present =>
             /\ owner.status.observedGeneration <= owner'.status.observedGeneration
             /\ owner.status.ready.generation <= owner'.status.ready.generation]_vars
    BY StatusGrows DEF StatusGuard
  <1> QED BY <1>1, StatusInvariant, PTL DEF Spec, StatusNeverRegresses
-----------------------------------------------------------------------------
(* The viewer's verdict *)

\* A version yet to be seen, or being worked on, that has the owner's generation
\* has the owner's spec.
SameSpec ==
  /\ \A v \in Seen : Wanted(v) /\ v.generation = owner.generation => v.spec = owner.spec
  /\ pc \in Guarding /\ mns.generation = owner.generation => mns.spec = owner.spec

\* Another spec has a later generation, than which no version is later.
LEMMA SameSpecStep ==
  ASSUME TypeOK, TypeOK', Versions, Guard, Guard', SameSpec, [Next]_vars
  PROVE  SameSpec'
PROOF
  <1>1. /\ owner.generation \in Nat /\ owner'.generation \in Nat /\ mns.generation \in Nat
        /\ \A v \in Seen : v.generation \in Nat
    <2>1. owner' \in OwnerVersion
      BY DEF TypeOK
    <2> QED BY <2>1, Numbers DEF OwnerVersion
  <1>2. Held(owner) /\ Held(owner') => Lives
    BY StatusStep DEF Held
  <1>3. ASSUME NEW v \in Seen', Wanted(v), v.generation = owner'.generation
        PROVE  v.spec = owner'.spec
    <2>1. CASE v \in Seen
      <3>1. Held(owner) /\ v.generation <= owner.generation /\ Held(owner')
        BY <1>3, <2>1 DEF Guard, Seen, Wanted
      <3> QED BY <1>1, <1>2, <1>3, <2>1, <3>1 DEF Lives, SameSpec
    <2> QED BY <2>1, SeenNext
  <1>4. ASSUME pc' \in Guarding, mns'.generation = owner'.generation
        PROVE  mns'.spec = owner'.spec
    <2>1. CASE mns' = cache.owner /\ Wanted(cache.owner) /\ owner' = owner
      BY <1>4, <2>1 DEF SameSpec, Seen
    <2>2. CASE pc \in Guarding /\ mns' = mns
      <3>1. Held(owner) /\ mns.generation <= owner.generation /\ Held(owner')
        BY <1>4, <2>2 DEF Guard
      <3> QED BY <1>1, <1>2, <1>4, <2>2, <3>1 DEF Lives, SameSpec
    <2> QED BY <1>4, <2>1, <2>2, PassNext
  <1> QED BY <1>3, <1>4 DEF SameSpec

\* The badge of an object can only turn good with the report of a pass on it.
LEMMA AgreementStep ==
  ASSUME TypeOK, TypeOK', Versions, Guard, StatusGuard, SameSpec, [Next]_vars,
         owner'.present, health(owner') = "ok",
         ~owner.present \/ health(owner) # "ok" \/ owner'.spec # owner.spec
  PROVE  /\ Reporting /\ syncErr = "none" /\ invalid = <<>>
         /\ mns.spec = owner'.spec /\ mns.generation = owner'.generation
PROOF
  <1>1. /\ owner.generation \in Nat /\ owner'.generation \in Nat /\ mns.generation \in Nat
        /\ owner.status.ready.generation \in Nat /\ owner'.status.ready.generation \in Nat
        /\ owner.status \in Status /\ mns.status \in Status
    <2>1. owner' \in OwnerVersion
      BY DEF TypeOK
    <2> QED BY <2>1, Numbers DEF OwnerVersion, Status, Condition
  <1>2. /\ owner'.status.ready.reason = "Reconciled"
        /\ owner'.generation <= owner'.status.ready.generation
    BY <1>1 DEF health
  <1>3. owner'.status # NoStatus
    BY <1>2 DEF NoStatus
  <1>4. Lives
    BY <1>3, StatusStep
  <1>5. CASE owner'.status = owner.status
    <2>1. health(owner) = "ok"
      BY <1>1, <1>2, <1>4, <1>5 DEF health, Lives
    <2>2. owner.generation < owner'.generation
      BY <1>1, <1>4, <2>1 DEF Lives
    <2>3. owner.status.ready.generation <= owner.generation
      BY <1>4 DEF Lives, StatusGuard, Within, At
    <2> QED BY <1>1, <1>2, <1>5, <2>2, <2>3
  <1>6. CASE ReportStatus /\ owner'.status = PatchedStatus
    <2>1. Reporting /\ pc \in Guarding
      BY <1>6 DEF ReportStatus, Reporting, Guarding, Syncing
    <2>2. owner'.generation = owner.generation
      BY <1>6, StatusWritten
    <2>3. owner'.spec = owner.spec /\ owner.present
      BY <1>4, <2>2 DEF Lives
    <2>4. owner'.status.ready # owner.status.ready
      BY <1>1, <1>2, <2>2, <2>3 DEF health
    <2>5. owner'.status.ready = Outcome.ready
      BY <1>6, <2>4 DEF PatchedStatus, MergePatch
    <2>6. syncErr = "none" /\ invalid = <<>> /\ Outcome.ready.generation = mns.generation
      BY <1>1, <1>2, <2>5 DEF Outcome, Report, Status
    <2>7. mns.generation = owner.generation
      BY <1>1, <1>2, <2>1, <2>2, <2>5, <2>6 DEF Guard
    <2>8. mns.spec = owner.spec
      BY <2>1, <2>7 DEF SameSpec
    <2> QED BY <2>1, <2>2, <2>3, <2>6, <2>7, <2>8
  <1> QED BY <1>3, <1>5, <1>6, StatusStep

\* The page says that all is well only on the word of a pass that worked on the
\* spec it shows, however stale the status patches (app.js:80-92).
THEOREM AgreementHolds ==
  ASSUME Gentle
  PROVE  Spec => AgreementIsFresh
PROOF
  <1>1. Init => SameSpec
    <2>1. ASSUME Init PROVE owner = NoOwner /\ cache.owner = owner /\ watch = {} /\ pc = "idle"
      BY <2>1 DEF Init
    <2> QED BY <2>1 DEF SameSpec, Seen, Guarding, Syncing
  <1>2. TypeOK /\ TypeOK' /\ Versions /\ Guard /\ Guard' /\ SameSpec /\ [Next]_vars => SameSpec'
    BY SameSpecStep
  <1>3. TypeOK /\ TypeOK' /\ Versions /\ Guard /\ StatusGuard /\ SameSpec /\ [Next]_vars =>
          [/\ owner'.present /\ health(owner') = "ok"
           /\ ~owner.present \/ health(owner) # "ok" \/ owner'.spec # owner.spec
           => /\ Reporting /\ syncErr = "none" /\ invalid = <<>>
              /\ mns.spec = owner'.spec /\ mns.generation = owner'.generation]_vars
    BY AgreementStep
  <1> QED BY <1>1, <1>2, <1>3, StatusInvariant, PTL DEF Spec, AgreementIsFresh
-----------------------------------------------------------------------------
(* The gauge *)

\* The owner as it is, is cached or on the watch; a series belongs to a held
\* owner, and none is left when the hold is about to end.  Unless an event is on
\* its way, or the owner queued, the pass works on the owner as it is, and the
\* last one left a gauge that agrees with the status.
Agrees ==
  gauge = Len(owner.status.invalidReferences) \/ owner.status.ready.message = "invalid"
Gauged ==
  /\ owner \in Seen
  /\ gauge # Absent => Held(owner)
  /\ pc = "release" => gauge = Absent
  /\ ~queued /\ watch = {} =>
       /\ pc \in Guarding => mns = owner
       /\ pc = "idle" /\ gauge # Absent => Agrees

\* What a step does to the gauge.
LEMMA GaugeSteps ==
  ASSUME TypeOK, [Next]_vars
  PROVE  \/ gauge' \in {gauge, Absent}
         \/ Reporting /\ SetGauge /\ (ReportStatus \/ owner' = owner)
PROOF
  <1> DEFINE Goal == \/ gauge' \in {gauge, Absent}
                     \/ Reporting /\ SetGauge /\ (ReportStatus \/ owner' = owner)
  <1>1. CASE UNCHANGED gauge
    BY <1>1
  <1>2. CASE Worker
    BY <1>1, <1>2
    DEF Worker, Reconcile, Finalize, Unbound, Release, Adopt, Prune, DeleteBinding,
        EnsureNamespace, EnsureQuota, PruneQuotas, DeleteQuota, ReconcileBindings, MissingRole,
        ReplaceBinding, EnsureBinding, PruneUnresolved, ReportStatus
  <1>3. CASE Deliver
    BY <1>1, <1>3 DEF Deliver, DeliverOwner, Resync, DeliverNamespace, DeliverQuota,
                      DeliverBinding, DeliverRole
  <1>4. CASE Users
    BY <1>1, <1>4 DEF Users, Edit, CreateOwner, EditOwner, DeleteOwner, AddForeign,
                      RemoveForeign, ForceRelease
  <1>5. CASE CallFails \/ Crash
    BY <1>5 DEF CallFails, Crash, Fault
  <1>6. CASE Others
    BY <1>1, <1>5, <1>6
    DEF Others, Elsewhere, ToggleRole, DriftBinding, RelabelBinding, HoldBinding, DriftQuota,
        DeleteNamespace, ChangeMetadata, CorruptInventory
  <1>7. CASE NamespaceController \/ (\E k \in BindingKeys : LetGo(k)) \/ UNCHANGED vars
    BY <1>1, <1>7 DEF NamespaceController, LetGo, vars
  <1> QED BY <1>2, <1>3, <1>4, <1>6, <1>7 DEF Next

\* A write that leaves no watch event has changed nothing.
LEMMA Unwritten ==
  ASSUME NEW new, WriteOwner(new), watch' = {}
  PROVE  UNCHANGED <<owner, watch>>
  BY DEF WriteOwner

\* A step that leaves the owner, its events and, but for a finalizing pass, the gauge
\* alone, and ends no pass.
Undisturbed ==
  /\ ~queued /\ UNCHANGED <<owner, watch>>
  /\ pc' = "idle" => pc = "idle"
  /\ gauge' = gauge \/ (pc' # "idle" /\ pc' \notin Guarding)

\* A step after which nothing is queued or on the watch had nothing there before,
\* or takes the owner from the queue, or restarts the process.
LEMMA QuietSteps ==
  ASSUME TypeOK, [Next]_vars, ~queued', watch' = {}
  PROVE  \/ Reconcile \/ Release \/ ReportStatus
         \/ pc' = "idle" /\ gauge' = Absent
         \/ Undisturbed
PROOF
  <1> DEFINE Goal == \/ Reconcile \/ Release \/ ReportStatus
                     \/ pc' = "idle" /\ gauge' = Absent
                     \/ Undisturbed
  <1>1. CASE ~queued /\ UNCHANGED <<owner, watch, pc, gauge>>
    BY <1>1 DEF Undisturbed
  <1>2. CASE ~queued /\ UNCHANGED <<owner, watch, gauge>> /\ pc' # "idle"
    BY <1>2 DEF Undisturbed
  <1>3. CASE Finalize
    BY <1>3 DEF Finalize, Undisturbed, Guarding, Syncing
  <1>4. CASE Unbound \/ Adopt
    BY <1>4 DEF Unbound, Adopt, Done
  <1>5. CASE Worker
    BY <1>1, <1>2, <1>3, <1>4, <1>5
    DEF Worker, GiveUp, Prune, DeleteBinding, EnsureNamespace, EnsureQuota, PruneQuotas,
        DeleteQuota, ReconcileBindings, MissingRole, ReplaceBinding, EnsureBinding,
        PruneUnresolved
  <1>6. CASE Deliver
    BY <1>1, <1>6 DEF Deliver, worker, DeliverOwner, Resync, DeliverNamespace, DeliverQuota,
                      DeliverBinding, DeliverRole
  <1>7. CASE Users
    <2>1. UNCHANGED <<queued, pc, gauge>>
      BY <1>7 DEF Users, Edit, worker, CreateOwner, EditOwner, DeleteOwner, AddForeign,
                  RemoveForeign, ForceRelease
    <2>2. \E new : WriteOwner(new)
      BY <1>7 DEF Users, CreateOwner, EditOwner, DeleteOwner, AddForeign, RemoveForeign,
                  ForceRelease
    <2> QED BY <1>1, <2>1, <2>2, Unwritten
  <1>8. CASE CallFails
    <2>1. Done(TRUE) \/ (GiveUp("failed") /\ UNCHANGED <<owner, watch, gauge>>)
      BY <1>8 DEF CallFails, Fault
    <2>2. ~Done(TRUE)
      BY DEF Done
    <2>3. pc' = "status" /\ UNCHANGED <<queued, owner, watch, gauge>>
      BY <2>1, <2>2 DEF GiveUp
    <2> QED BY <1>2, <2>3
  <1>9. CASE Crash
    BY <1>9 DEF Crash
  <1>10. CASE Others
    BY <1>1, <1>8, <1>9, <1>10
    DEF Others, Fault, Elsewhere, worker, ToggleRole, DriftBinding, RelabelBinding, HoldBinding,
        DriftQuota, DeleteNamespace, ChangeMetadata, CorruptInventory
  <1>11. CASE NamespaceController \/ (\E k \in BindingKeys : LetGo(k)) \/ UNCHANGED vars
    BY <1>1, <1>11 DEF NamespaceController, LetGo, vars, worker
  <1> QED BY <1>5, <1>6, <1>7, <1>10, <1>11 DEF Next

\* The version that is the owner's is cached or on the watch.
LEMMA OwnerSeen ==
  ASSUME TypeOK, TypeOK', Versions, owner \in Seen, [Next]_vars
  PROVE  owner' \in Seen'
PROOF
  <1>1. CASE Delivered
    <2>1. PICK v \in watch : cache'.owner = v /\ watch' = {w \in watch : w.rv > v.rv}
      BY <1>1 DEF Delivered
    <2>2. cache.owner.rv < v.rv /\ v.rv <= owner.rv /\ (v.rv = owner.rv => v = owner)
      BY <2>1 DEF Versions, Current
    <2>3. owner.rv \in Nat /\ cache.owner.rv \in Nat /\ v.rv \in Nat
      BY <2>1, Reads
    <2>4. owner \in watch
      BY <2>2, <2>3 DEF Seen
    <2> QED BY <1>1, <2>1, <2>2, <2>3, <2>4 DEF Delivered, Seen
  <1> QED BY <1>1, Steps DEF Local, Written, Restarted, Seen

\* With the owner unchanged, the report of a pass on it says what the status says.
LEMMA ReportAgrees ==
  ASSUME TypeOK, ReportStatus, mns = owner, owner.present, UNCHANGED owner,
         syncErr # "failed"
  PROVE  Agrees'
PROOF
  <1>1. owner \in OwnerVersion /\ owner.status \in Status
    BY DEF TypeOK, OwnerVersion
  <1>2. PatchedStatus = Outcome
    <2>1. Outcome \in [observedGeneration : {Outcome.observedGeneration},
                       invalidReferences : {Outcome.invalidReferences},
                       ready : {Outcome.ready}]
      BY <1>1 DEF Outcome, Report, Status
    <2> QED BY <2>1 DEF PatchedStatus, MergePatch
  <1>3. owner.status = Outcome
    <2>1. WriteOwner([owner EXCEPT !.status = PatchedStatus])
      BY DEF ReportStatus
    <2>2. [[owner EXCEPT !.status = PatchedStatus] EXCEPT !.rv = owner.rv] = owner
      <3>1. owner.rv # owner.rv + 1
        BY <1>1 DEF OwnerVersion
      <3> QED BY <1>1, <2>1, <3>1 DEF WriteOwner, OwnerVersion
    <2> QED BY <1>1, <1>2, <2>2 DEF OwnerVersion
  <1>4. CASE syncErr = "none"
    <2>1. Outcome.invalidReferences = invalid
      BY <1>4 DEF Outcome, Report
    <2>2. gauge' = Len(invalid)
      BY <1>4 DEF ReportStatus, SetGauge
    <2> QED BY <1>3, <2>1, <2>2 DEF Agrees
  <1>5. CASE syncErr # "none"
    <2>1. syncErr = "invalid"
      BY <1>5 DEF TypeOK, Errors
    <2>2. Outcome.ready.message = "invalid"
      BY <1>1, <2>1 DEF Outcome, Report, Status
    <2> QED BY <1>3, <2>2 DEF Agrees
  <1> QED BY <1>4, <1>5

\* The gauge keeps to it.
LEMMA GaugedStep ==
  ASSUME Gentle, TypeOK, TypeOK', Versions, Guard, Guard', Gauged, [Next]_vars
  PROVE  Gauged'
PROOF
  <1>1. owner' \in Seen'
    BY OwnerSeen DEF Gauged
  <1>2. ASSUME gauge' # Absent PROVE Held(owner')
    <2>1. CASE gauge' = gauge
      <3>1. Held(owner) /\ pc # "release"
        BY <1>2, <2>1 DEF Gauged
      <3>2. ~Release
        BY <3>1 DEF Release
      <3> QED BY <3>1, <3>2, HoldLasts
    <2>2. CASE Reporting /\ (ReportStatus \/ owner' = owner)
      <3>1. Held(owner)
        BY <2>2 DEF Guard, Reporting, Guarding, Syncing
      <3>2. CASE ReportStatus
        BY <3>1, <3>2, StatusWritten DEF Held
      <3> QED BY <2>2, <3>1, <3>2 DEF Held
    <2> QED BY <1>2, <2>1, <2>2, GaugeSteps
  <1>3. ASSUME pc' = "release" PROVE gauge' = Absent
    <2>1. CASE Finalize
      BY <1>3, <2>1 DEF Finalize
    <2>2. CASE pc = "release"
      <3>1. ~Reporting
        BY <2>2 DEF Reporting
      <3> QED BY <2>2, <3>1, GaugeSteps DEF Gauged
    <2>3. ~Reconcile /\ ~Ends
      BY <1>3 DEF Reconcile, FirstStep, Ends
    <2> QED BY <1>3, <2>1, <2>2, <2>3, Steps DEF PassOn, Rests
  <1>4. ASSUME ~queued', watch' = {}, pc' \in Guarding PROVE mns' = owner'
    <2>1. CASE Reconcile
      <3>1. mns' = cache.owner /\ UNCHANGED <<owner, watch>>
        BY <1>4, <2>1 DEF Reconcile, FirstStep, Guarding, Syncing
      <3> QED BY <1>4, <3>1 DEF Gauged, Seen
    <2>2. CASE Undisturbed
      <3>1. CASE mns' = cache.owner
        BY <1>4, <2>2, <3>1 DEF Undisturbed, Gauged, Seen
      <3>2. CASE pc \in Guarding /\ mns' = mns
        BY <1>4, <2>2, <3>2 DEF Undisturbed, Gauged
      <3> QED BY <1>4, <3>1, <3>2, PassNext
    <2>3. ~Release /\ ~ReportStatus /\ pc' # "idle"
      BY <1>4 DEF Release, ReportStatus, Done, Guarding, Syncing
    <2> QED BY <1>4, <2>1, <2>2, <2>3, QuietSteps
  <1>5. ASSUME ~queued', watch' = {}, pc' = "idle", gauge' # Absent PROVE Agrees'
    <2>1. CASE Reconcile
      <3>1. ~cache.owner.present /\ UNCHANGED <<owner, watch, gauge>>
        BY <1>5, <2>1 DEF Reconcile, FirstStep
      <3> QED BY <1>5, <3>1 DEF Gauged, Seen, Held
    <2>2. CASE Release
      BY <1>5, <2>2 DEF Release, Gauged
    <2>3. CASE ReportStatus
      <3>1. Held(owner) /\ pc \in Guarding
        BY <2>3 DEF ReportStatus, Guard, Reporting, Guarding, Syncing
      <3>2. /\ WriteOwner([owner EXCEPT !.status = PatchedStatus])
            /\ ~queued /\ syncErr # "failed"
        BY <1>5, <2>3, <3>1 DEF ReportStatus, Held, Done
      <3>3. UNCHANGED <<owner, watch>>
        BY <1>5, <3>2, Unwritten
      <3>4. mns = owner
        BY <1>5, <3>1, <3>2, <3>3 DEF Gauged
      <3> QED BY <2>3, <3>1, <3>2, <3>3, <3>4, ReportAgrees DEF Held
    <2>4. CASE Undisturbed
      BY <1>5, <2>4 DEF Undisturbed, Gauged, Agrees
    <2> QED BY <1>5, <2>1, <2>2, <2>3, <2>4, QuietSteps
  <1> QED BY <1>1, <1>2, <1>3, <1>4, <1>5 DEF Gauged

\* When nothing is under way a series of the gauge belongs to an owner that
\* exists and holds the finalizer, and counts what its status reports, unless the
\* last pass was rejected for good (managednamespace.go:58, 341-345).
THEOREM GaugeFollows ==
  ASSUME Gentle
  PROVE  Spec => []GaugeFollowsStatus
PROOF
  <1>1. Init => Gauged
    <2>1. ASSUME Init
          PROVE  /\ cache.owner = owner /\ pc = "idle" /\ gauge = Absent
      BY <2>1 DEF Init
    <2> QED BY <2>1 DEF Gauged, Seen, Guarding, Syncing
  <1>2. TypeOK /\ TypeOK' /\ Versions /\ Guard /\ Guard' /\ Gauged /\ [Next]_vars => Gauged'
    BY GaugedStep
  <1>3. Gauged => GaugeFollowsStatus
    BY DEF Gauged, GaugeFollowsStatus, AtRest, Held, Agrees
  <1> QED BY <1>1, <1>2, <1>3, GuardInvariant, PTL DEF Spec
=============================================================================

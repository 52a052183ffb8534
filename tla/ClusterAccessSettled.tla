-------------------------- MODULE ClusterAccessSettled --------------------------
(***************************************************************************)
(* What the passes of the ClusterAccessMapping reconciler come to, for     *)
(* every value of the constants: a user kept by a change of the mapping    *)
(* keeps the role throughout, and when no pass is called for any more the  *)
(* bindings, the status and the gauge are what the mapping asks for.       *)
(*                                                                         *)
(* For the first, a name says which role and which subjects the binding    *)
(* under it is for, so what an earlier pass bound under a name that is     *)
(* still asked for is what this pass would bind; and a pass prunes when    *)
(* all the roles of its copy are visited, by a list without the names it   *)
(* ensured.                                                                *)
(*                                                                         *)
(* For the second, while the owner is not queued and no event is on its    *)
(* way, the running pass works on the live owner and no binding with our   *)
(* labels changes: whatever would spoil its work makes an event. So its    *)
(* work can be followed role by role up to the status it writes.           *)
(***************************************************************************)
EXTENDS ClusterAccessSafety

\* Of what a name says, what the binding under it keeps: the role if it is ours,
\* or was when the cache saw it, and the subjects of the specs with that key.
For(subjects, n) ==
  subjects = Outsiders \/ \E s \in Specs : subjectKey(s) = n[2] /\ subjects = subjectsFor(s)
NamedFor(n) ==
  /\ IsOwned(bindings[n]) => bindings[n].role = n[3]
  /\ bindings[n] # Absent =>
       /\ For(bindings[n].subjects, n)
       /\ bindings[n].role = n[3] /\ cache.bindings[n] # Absent => cache.bindings[n].role = n[3]
Named == \A n \in Names : NamedFor(n)

\* What the pass has done with the roles of its copy.
Visited ==
  /\ pc \in Syncing =>
       \A r \in Elements(RolesOf(cam.spec)) :
         r \in Elements(todo) \union Elements(invalid) \/ NameOf(cam.spec, r) \in want
  /\ pc = "prune" => todo = <<>> /\ doomed \intersect want = {}

\* A binding as a pass on the spec wants it.
Fits(b, spec, role) == IsOwned(b) /\ b.role = role /\ b.subjects = subjectsFor(spec)
\* What is left of a binding that is deleted, drifts, or is held or let go.
Trimmed(b, new) ==
  \/ new = Absent
  \/ /\ b # Absent /\ new # Absent /\ new.role = b.role
     /\ new.subjects \in {b.subjects, Outsiders} /\ (IsOwned(new) => IsOwned(b))

-----------------------------------------------------------------------------
(* The operators *)

\* The subject key determines the subjects (subjectKey, subjectsFor).
LEMMA OneSubjectList ==
  ASSUME NEW s \in Specs, NEW t \in Specs, subjectKey(s) = subjectKey(t)
  PROVE  subjectsFor(s) = subjectsFor(t)
PROOF
  <1>1. CASE s.group # ""
    BY <1>1 DEF subjectKey, subjectsFor
  <1>2. CASE s.group = "" /\ t.group # ""
    BY <1>2 DEF subjectKey
  <1>3. CASE s.group = "" /\ t.group = ""
    <2>1. normalizedUsers(s.users) = normalizedUsers(t.users)
      BY <1>3 DEF subjectKey
    <2> QED BY <1>3, <2>1 DEF subjectsFor
  <1> QED BY <1>1, <1>2, <1>3

\* A name holds the key of the subjects and the role (BindingName).
LEMMA NameParts ==
  ASSUME NEW s, NEW r
  PROVE  NameOf(s, r)[2] = subjectKey(s) /\ NameOf(s, r)[3] = r
  BY DEF NameOf, BindingName

\* All elements of a sequence are its first or in its tail.
LEMMA HeadOrTail ==
  ASSUME NEW q \in Seq(Roles), q # <<>>
  PROVE  Elements(q) = {Head(q)} \union Elements(Tail(q))
PROOF
  <1>1. ASSUME NEW i \in DOMAIN q PROVE q[i] = Head(q) \/ q[i] \in Elements(Tail(q))
    <2>1. CASE i = 1
      BY <2>1
    <2>2. CASE i # 1
      <3>1. i - 1 \in DOMAIN Tail(q) /\ Tail(q)[i - 1] = q[i]
        BY <2>2
      <3> QED BY <3>1 DEF Elements
    <2> QED BY <2>1, <2>2
  <1> QED BY <1>1, HeadAndTail DEF Elements

\* What is appended is added.
LEMMA Appended ==
  ASSUME NEW q \in Seq(Roles), NEW r \in Roles
  PROVE  Elements(Append(q, r)) = Elements(q) \union {r}
PROOF
  <1>1. ASSUME NEW i \in DOMAIN Append(q, r)
        PROVE  Append(q, r)[i] \in Elements(q) \union {r}
    BY DEF Elements
  <1>2. ASSUME NEW i \in DOMAIN q PROVE q[i] \in Elements(Append(q, r))
    <2>1. i \in DOMAIN Append(q, r) /\ Append(q, r)[i] = q[i]
      OBVIOUS
    <2> QED BY <2>1 DEF Elements
  <1>3. r \in Elements(Append(q, r))
    <2>1. Len(q) + 1 \in DOMAIN Append(q, r) /\ Append(q, r)[Len(q) + 1] = r
      OBVIOUS
    <2> QED BY <2>1 DEF Elements
  <1> QED BY <1>1, <1>2, <1>3 DEF Elements

\* A deleted binding is gone, or left as it was but for the deletion.
LEMMA DeletedTrims ==
  ASSUME NEW b \in Binding \union {Absent}
  PROVE  Trimmed(b, Deleted(b))
  BY MarkerAssumption DEF Trimmed, Deleted, IsOwned, Binding

-----------------------------------------------------------------------------
(* What one step does to a binding and to the copy the cache has of it *)

\* The role a pass is at, and the name it ensures for it (sync).
LEMMA AtRole ==
  ASSUME TypeOK, pc \in {"bindings", "ensure"}, todo # <<>>
  PROVE  /\ cam.spec \in Specs /\ Head(todo) \in Roles
         /\ Head(todo) \in Elements(RolesOf(cam.spec))
         /\ NameOf(cam.spec, Head(todo)) \in Names
         /\ NameOf(cam.spec, Head(todo))[2] = subjectKey(cam.spec)
         /\ NameOf(cam.spec, Head(todo))[3] = Head(todo)
PROOF
  <1>1. cam.spec \in Specs
    BY DEF TypeOK, OwnerVersion
  <1>2. Head(todo) \in Roles /\ Head(todo) \in Elements(RolesOf(cam.spec))
    BY HeadAndTail DEF TypeOK
  <1> QED BY <1>1, <1>2, NameType, NameParts

\* What CreateOrUpdate leaves in ensure: the binding as it was, or as the spec
\* wants it; and the latter when there was no error, unless the cache is wrong.
LEMMA EnsuredCall ==
  ASSUME TypeOK, NEW role \in Roles, role \in Elements(RolesOf(cam.spec)),
         NEW n, n = NameOf(cam.spec, role), NEW new, new = BindingCall(role).object
  PROVE  /\ \/ new = bindings[n]
            \/ /\ Fits(new, cam.spec, role) /\ new # Absent
               /\ \/ bindings[n] = Absent /\ cache.bindings[n] = Absent /\ ~new.deleting
                  \/ /\ bindings[n] # Absent /\ cache.bindings[n] = bindings[n]
                     /\ bindings[n].role = role /\ new.deleting = bindings[n].deleting
         /\ BindingCall(role).error = "none" =>
              \/ Fits(new, cam.spec, role)
              \/ new = bindings[n] /\ Fits(cache.bindings[n], cam.spec, role)
PROOF
  <1> DEFINE subjects == subjectsFor(cam.spec)
             cached   == cache.bindings[n]
             object   == bindings[n]
             base     == IF cached = Absent THEN NewBinding ELSE cached
             desired  == [base EXCEPT !.owned = TRUE, !.role = role, !.subjects = subjects]
             verdict  == IF role \in Refused THEN "failed" ELSE "none"
             update   == IF base.role # role THEN "invalid" ELSE verdict
  <1>1. cam.spec \in Specs
    BY DEF TypeOK, OwnerVersion
  <1>2. n \in Names
    BY <1>1, NameType
  <1>3. object \in Binding \union {Absent} /\ cached \in Binding \union {Absent}
    BY <1>2 DEF TypeOK, Copies
  <1>4. base \in Binding
    BY <1>3, NewBindingType
  <1>5. BindingCall(role) = CreateOrUpdate(cached, desired, object, verdict, update)
    BY DEF BindingCall
  <1>6. /\ desired # Absent /\ Fits(desired, cam.spec, role)
        /\ desired.deleting = base.deleting
    <2>1. desired \in [owned : BOOLEAN, role : Roles, subjects : {subjects},
                       deleting : BOOLEAN, held : BOOLEAN]
      <3> HIDE DEF base, subjects
      <3> QED BY <1>4 DEF Binding
    <2>2. subjects \in SubjectLists
      BY <1>1 DEF SubjectLists
    <2>3. desired # Absent
      <3> HIDE DEF desired, subjects
      <3> QED BY <2>1, <2>2, MarkerAssumption DEF Binding
    <2>4. desired.owned /\ desired.role = role /\ desired.subjects = subjects
          /\ desired.deleting = base.deleting
      <3> HIDE DEF base, subjects
      <3> QED BY <1>4 DEF Binding
    <2> HIDE DEF desired
    <2> QED BY <2>3, <2>4 DEF Fits, IsOwned
  <1>7. cached = Absent => ~base.deleting
    BY DEF NewBinding
  <1>8. cached # Absent => base = cached
    OBVIOUS
  <1>9. update = "none" => base.role = role
    BY DEF update
  <1> HIDE DEF cached, object, base, desired, verdict, update
  <1>10. new = object \/ (new = desired /\ cached # desired /\ BindingCall(role).error = "none")
    BY <1>5 DEF CreateOrUpdate
  <1>11. BindingCall(role).error = "none" => new = desired \/ (new = object /\ cached = desired)
    BY <1>5 DEF CreateOrUpdate
  <1>12. new = desired /\ cached # desired /\ BindingCall(role).error = "none" =>
           \/ cached = Absent /\ object = Absent
           \/ cached # Absent /\ object = cached /\ update = "none"
    BY <1>5 DEF CreateOrUpdate, verdict
  <1> QED BY <1>6, <1>7, <1>8, <1>9, <1>10, <1>11, <1>12 DEF cached, object

\* What a write leaves: a squatter a binding of another role, ensure one as the spec
\* wants it, and all others what is left of it.
Squatted(b, n) == /\ b # Absent /\ ~IsOwned(b) /\ b.role # n[3] /\ b.subjects = Outsiders
                  /\ ~b.deleting
Ensured(n, new) ==
  /\ pc = "ensure" /\ n = NameOf(cam.spec, Head(todo))
  /\ Fits(new, cam.spec, n[3]) /\ new # Absent
  /\ \/ bindings[n] = Absent /\ cache.bindings[n] = Absent /\ ~new.deleting
     \/ /\ bindings[n] # Absent /\ cache.bindings[n] = bindings[n]
        /\ bindings[n].role = n[3] /\ new.deleting = bindings[n].deleting
Changed(n, new) ==
  \/ new = bindings[n]
  \/ Trimmed(bindings[n], new)
  \/ bindings[n] = Absent /\ Squatted(new, n)
  \/ Ensured(n, new)

\* A step writes at most one binding.
LEMMA BindingSteps ==
  ASSUME TypeOK, [Next]_vars
  PROVE  \/ UNCHANGED bindings
         \/ cache' = cache /\ \E n \in Names : \E new : WriteBinding(n, new) /\ Changed(n, new)
PROOF
  <1> DEFINE Goal == \/ UNCHANGED bindings
                     \/ /\ cache' = cache
                        /\ \E n \in Names : \E new : WriteBinding(n, new) /\ Changed(n, new)
  <1>1. \A n \in Names : bindings[n] \in Binding \union {Absent}
    BY DEF TypeOK
  <1>2. CASE DeleteBinding
    <2>1. doomed \subseteq Names
      BY DEF TypeOK
    <2>2. \A n \in Names : Changed(n, Deleted(bindings[n]))
      BY <1>1, DeletedTrims DEF Changed
    <2> QED BY <1>2, <2>1, <2>2 DEF DeleteBinding
  <1>3. CASE ReplaceBinding
    <2> DEFINE n     == NameOf(cam.spec, Head(todo))
               taken == cache.bindings[n] # Absent /\ cache.bindings[n].role # Head(todo)
               new   == IF taken THEN Deleted(bindings[n]) ELSE bindings[n]
    <2>1. n \in Names
      BY <1>3, AtRole DEF ReplaceBinding
    <2>2. WriteBinding(n, new) /\ cache' = cache
      BY <1>3 DEF ReplaceBinding
    <2>3. Changed(n, new)
      BY <1>1, <2>1, DeletedTrims DEF Changed
    <2> HIDE DEF n, new
    <2> QED BY <2>1, <2>2, <2>3
  <1>4. CASE EnsureBinding
    <2> DEFINE n   == NameOf(cam.spec, Head(todo))
               new == BindingCall(Head(todo)).object
    <2>1. pc = "ensure" /\ todo # <<>>
      BY <1>4 DEF EnsureBinding, TypeOK
    <2>2. /\ n \in Names /\ n[3] = Head(todo)
          /\ Head(todo) \in Roles /\ Head(todo) \in Elements(RolesOf(cam.spec))
      BY <2>1, AtRole
    <2>3. WriteBinding(n, new) /\ cache' = cache
      BY <1>4 DEF EnsureBinding
    <2>4. \/ new = bindings[n]
          \/ /\ Fits(new, cam.spec, Head(todo)) /\ new # Absent
             /\ \/ bindings[n] = Absent /\ cache.bindings[n] = Absent /\ ~new.deleting
                \/ /\ bindings[n] # Absent /\ cache.bindings[n] = bindings[n]
                   /\ bindings[n].role = Head(todo) /\ new.deleting = bindings[n].deleting
      BY <2>2, EnsuredCall
    <2> HIDE DEF new
    <2>5. Changed(n, new)
      BY <2>1, <2>2, <2>4 DEF Changed, Ensured
    <2> QED BY <2>2, <2>3, <2>5
  <1>5. ASSUME NEW n \in Names, LetGo(n) \/ DriftBinding(n) \/ HoldBinding(n) PROVE Goal
    <2>1. bindings[n] \in Binding /\ Absent \notin Binding
      BY <1>1, <1>5, MarkerAssumption DEF LetGo, DriftBinding, HoldBinding
    <2> DEFINE b == bindings[n]
               Outcomes == {Absent, Deleted(b), [b EXCEPT !.held = FALSE], [b EXCEPT !.held = TRUE],
                            [b EXCEPT !.subjects = Outsiders], [b EXCEPT !.owned = FALSE]}
    <2>2. ASSUME NEW b0 \in Binding PROVE
            /\ Trimmed(b0, Absent) /\ Trimmed(b0, Deleted(b0))
            /\ Trimmed(b0, [b0 EXCEPT !.held = FALSE]) /\ Trimmed(b0, [b0 EXCEPT !.held = TRUE])
            /\ Trimmed(b0, [b0 EXCEPT !.subjects = Outsiders])
            /\ Trimmed(b0, [b0 EXCEPT !.owned = FALSE])
      <3>1. /\ [b0 EXCEPT !.held = FALSE] \in Binding /\ [b0 EXCEPT !.held = TRUE] \in Binding
            /\ [b0 EXCEPT !.subjects = Outsiders] \in Binding
            /\ [b0 EXCEPT !.owned = FALSE] \in Binding
        BY DEF Binding, SubjectLists
      <3> QED BY <3>1, DeletedTrims, MarkerAssumption DEF Trimmed, IsOwned, Binding
    <2>3. cache' = cache /\ \E new \in Outcomes : WriteBinding(n, new)
      BY <1>5 DEF LetGo, DriftBinding, HoldBinding, Elsewhere
    <2>4. \A new \in Outcomes : Changed(n, new)
      BY <2>1, <2>2 DEF Changed
    <2> HIDE DEF Outcomes
    <2> QED BY <2>3, <2>4
  <1>6. ASSUME NEW n \in Names, NEW r \in Roles, SquatBinding(n, r) PROVE Goal
    <2> DEFINE new == [NewBinding EXCEPT !.role = r]
    <2>1. new \in Binding /\ Absent \notin Binding
      BY NewBindingType, MarkerAssumption DEF Binding
    <2>2. /\ WriteBinding(n, new) /\ cache' = cache
          /\ bindings[n] = Absent /\ r # n[3]
      BY <1>6 DEF SquatBinding, Elsewhere
    <2>3. new # Absent
      BY <2>1
    <2>4. new.role = r /\ ~new.owned /\ ~new.deleting /\ new.subjects = Outsiders
      BY DEF NewBinding
    <2> HIDE DEF new
    <2>5. Squatted(new, n)
      BY <2>2, <2>3, <2>4 DEF Squatted, IsOwned
    <2> QED BY <2>2, <2>5 DEF Changed
  <1>7. CASE Worker
    BY <1>2, <1>3, <1>4, <1>7
    DEF Worker, server, Reconcile, Finalize, Unbound, Release, Adopt, MissingRole, Prune,
        ReportStatus
  <1>8. CASE Deliver
    BY <1>8 DEF Deliver, server, DeliverOwner, Resync, DeliverBinding, DeliverRole
  <1>9. CASE Users
    BY <1>9 DEF Users, Edit, CreateOwner, EditOwner, DeleteOwner, AddForeign,
                RemoveForeign, ForceRelease
  <1>10. CASE Others
    BY <1>5, <1>6, <1>10 DEF Others, CallFails, Crash, ToggleRole
  <1>11. CASE UNCHANGED vars
    BY <1>11 DEF vars, server
  <1> QED BY <1>5, <1>7, <1>8, <1>9, <1>10, <1>11 DEF Next

\* What it does to the copies of the cache: nothing, or one delivered, or all
\* listed afresh.
LEMMA CopySteps ==
  ASSUME TypeOK, [Next]_vars, NEW n \in Names
  PROVE  cache'.bindings[n] \in {cache.bindings[n], bindings'[n]}
PROOF
  <1>1. cache \in Copies
    BY DEF TypeOK
  <1>2. CASE cache' = cache
    BY <1>2
  <1>3. CASE Crash
    BY <1>3 DEF Crash
  <1>4. ASSUME NEW m \in Names, DeliverBinding(m)
        PROVE  cache'.bindings[n] \in {cache.bindings[n], bindings'[n]}
    BY <1>1, <1>4 DEF DeliverBinding, Copies
  <1>5. CASE Deliver /\ ~\E m \in Names : DeliverBinding(m)
    BY <1>1, <1>5 DEF Deliver, DeliverOwner, Resync, DeliverRole, server, Copies
  <1>6. cache' = cache \/ Deliver \/ Crash
    BY DEF Next, Worker, vars, server, Reconcile, Finalize, Unbound, Release, Adopt,
           MissingRole, ReplaceBinding, EnsureBinding, Prune, DeleteBinding, ReportStatus,
           LetGo, Users, Edit, CreateOwner, EditOwner, DeleteOwner, AddForeign, RemoveForeign,
           ForceRelease, Others, CallFails, ToggleRole, DriftBinding, HoldBinding,
           SquatBinding, Elsewhere
  <1> QED BY <1>2, <1>3, <1>4, <1>5, <1>6

\* What is not a step of the worker, a failing call or a restart leaves the pass
\* and the gauge alone.
LEMMA PassAlone ==
  ASSUME [Next]_vars
  PROVE  Worker \/ CallFails \/ Crash \/ UNCHANGED <<pc, locals, gauge>>
  BY DEF Next, vars, Deliver, DeliverOwner, Resync, DeliverBinding, DeliverRole, LetGo,
         Users, Edit, CreateOwner, EditOwner, DeleteOwner, AddForeign, RemoveForeign,
         ForceRelease, Others, ToggleRole, DriftBinding, HoldBinding, SquatBinding, Elsewhere

-----------------------------------------------------------------------------
(* A user kept by a change keeps the role *)

\* At the start there is no binding, and no pass.
LEMMA HandingInit == Init => Named /\ Visited
  BY DEF Init, Named, NamedFor, IsOwned, Visited, Syncing

\* Each step keeps to the names: a binding is made for its name, and one of
\* another role is not made ours.
LEMMA NamedStep ==
  ASSUME TypeOK, Named, [Next]_vars
  PROVE  Named'
PROOF
  <1> SUFFICES ASSUME NEW n \in Names PROVE NamedFor(n)'
    BY DEF Named
  <1>1. NamedFor(n) /\ cache'.bindings[n] \in {cache.bindings[n], bindings'[n]}
    BY CopySteps DEF Named
  <1>2. CASE bindings'[n] = bindings[n]
    BY <1>1, <1>2 DEF NamedFor
  <1>3. CASE bindings'[n] # bindings[n]
    <2>1. PICK m \in Names : \E b : WriteBinding(m, b) /\ Changed(m, b)
      BY <1>3, BindingSteps
    <2> PICK new : WriteBinding(m, new) /\ Changed(m, new)
      BY <2>1
    <2>2. m = n /\ new = bindings'[n]
      BY <1>3, <2>1 DEF WriteBinding, TypeOK
    <2>3. cache' = cache
      BY <1>3, BindingSteps
    <2>4. CASE Trimmed(bindings[n], new)
      <3>1. CASE new = Absent
        BY <2>2, <3>1 DEF NamedFor, IsOwned
      <3>2. CASE new # Absent
        BY <1>1, <2>2, <2>3, <2>4, <3>2 DEF NamedFor, Trimmed, For
      <3> QED BY <3>1, <3>2
    <2>5. CASE Squatted(new, n)
      BY <2>2, <2>5 DEF NamedFor, Squatted, For
    <2>6. CASE Ensured(n, new)
      <3>1. cam.spec \in Specs /\ n[2] = subjectKey(cam.spec)
        <4>1. todo # <<>>
          BY <2>6 DEF Ensured, TypeOK
        <4> QED BY <2>6, <4>1, AtRole DEF Ensured
      <3>2. For(new.subjects, n) /\ new.role = n[3]
        BY <2>6, <3>1 DEF Ensured, Fits, For
      <3>3. cache.bindings[n] = Absent \/ cache.bindings[n].role = n[3]
        BY <2>6 DEF Ensured
      <3> QED BY <2>2, <2>3, <3>2, <3>3 DEF NamedFor
    <2> QED BY <1>3, <2>1, <2>2, <2>4, <2>5, <2>6 DEF Changed
  <1> QED BY <1>2, <1>3

\* Each step accounts for the roles of the copy: they are to be visited, reported
\* missing or ensured, and a prune spares what is ensured.
LEMMA VisitedStep ==
  ASSUME TypeOK, Visited, [Next]_vars
  PROVE  Visited'
PROOF
  <1>1. CASE Reconcile
    BY <1>1 DEF Reconcile, FirstStep, Visited, Syncing
  <1>2. CASE MissingRole
    <2>1. Head(todo) \in Roles /\ todo \in Seq(Roles) /\ invalid \in Seq(Roles)
      BY <1>2, AtRole DEF MissingRole, TypeOK
    <2>2. Elements(todo) \union Elements(invalid)
            = Elements(todo') \union Elements(invalid')
      BY <1>2, <2>1, HeadOrTail, Appended DEF MissingRole
    <2> QED BY <1>2, <2>2 DEF MissingRole, Visited, Syncing
  <1>3. CASE ReplaceBinding
    BY <1>3 DEF ReplaceBinding, GiveUp, Visited, Syncing, locals
  <1>4. CASE EnsureBinding
    <2>1. CASE GiveUp(BindingCall(Head(todo)).error)
      BY <2>1 DEF GiveUp, Visited, Syncing
    <2>2. CASE ~GiveUp(BindingCall(Head(todo)).error)
      <3>1. pc = "ensure" /\ todo # <<>> /\ todo \in Seq(Roles)
        BY <1>4 DEF EnsureBinding, TypeOK
      <3>2. Elements(todo) = {Head(todo)} \union Elements(Tail(todo))
        BY <3>1, HeadOrTail
      <3>3. /\ pc' = "bindings" /\ todo' = Tail(todo) /\ cam' = cam /\ invalid' = invalid
            /\ want' = want \union {NameOf(cam.spec, Head(todo))}
        BY <1>4, <2>2 DEF EnsureBinding
      <3> QED BY <3>1, <3>2, <3>3 DEF Visited, Syncing
    <2> QED BY <2>1, <2>2
  <1>5. CASE Prune
    BY <1>5 DEF Prune, Unwanted, Visited, Syncing
  <1>6. CASE DeleteBinding
    BY <1>6 DEF DeleteBinding, Visited, Syncing
  <1>7. CASE Finalize \/ Unbound \/ Release \/ Adopt \/ ReportStatus
    BY <1>7 DEF Finalize, Unbound, Release, Adopt, ReportStatus, Done, Visited, Syncing
  <1>8. CASE CallFails \/ Crash
    BY <1>8 DEF CallFails, Crash, Done, GiveUp, Visited, Syncing
  <1>9. CASE UNCHANGED <<pc, locals, gauge>>
    BY <1>9 DEF locals, Visited
  <1> QED BY <1>1, <1>2, <1>3, <1>4, <1>5, <1>6, <1>7, <1>8, <1>9, PassAlone DEF Worker

\* The steps of HandedOver that write a binding: a call of ours, or a finalizer of
\* others that lets go of one.
LEMMA Ours ==
  ASSUME TypeOK, [Next]_vars, budget' = budget
  PROVE  \/ UNCHANGED bindings
         \/ ReplaceBinding \/ EnsureBinding \/ DeleteBinding
         \/ \E n \in Names : LetGo(n)
PROOF
  <1>1. /\ edits \in Nat /\ faults \in Nat
        /\ edits' = edits /\ faults' = faults
    BY BoundsAssumption DEF TypeOK, budget
  <1>2. \A kind : ~Edit(kind) /\ ~Fault(kind)
    BY <1>1 DEF Edit, Fault
  <1>3. ~Users /\ ~Others
    BY <1>2 DEF Users, CreateOwner, EditOwner, DeleteOwner, AddForeign, RemoveForeign,
                ForceRelease, Others, CallFails, Crash, ToggleRole, DriftBinding,
                HoldBinding, SquatBinding
  <1>4. CASE Worker
    BY <1>4 DEF Worker, server, Reconcile, Finalize, Unbound, Release, Adopt, MissingRole,
                Prune, ReportStatus
  <1>5. CASE Deliver
    BY <1>5 DEF Deliver, server, DeliverOwner, Resync, DeliverBinding, DeliverRole
  <1>6. CASE UNCHANGED vars
    BY <1>6 DEF vars, server
  <1> QED BY <1>3, <1>4, <1>5, <1>6 DEF Next

\* No step of the controller or of another's finalizer takes a role from a user
\* whom the copy of the pass still gives it.
LEMMA HandedOverStep ==
  ASSUME TypeOK, Named, Visited, [Next]_vars, NEW s, NEW r \in Roles,
         budget' = budget, StillAsked(s, r), Reaches(s, r), \A n \in want : Intact(n)
  PROVE  Reaches(s, r)'
PROOF
  <1> PICK n \in Names : Gives(bindings[n], s, r)
    BY DEF Reaches
  <1>1. /\ IsOwned(bindings[n]) /\ bindings[n] # Absent /\ ~bindings[n].deleting
        /\ bindings[n].role = r /\ s \in Elements(bindings[n].subjects)
    BY DEF Gives, IsOwned
  <1>2. n[3] = r /\ (cache.bindings[n] # Absent => cache.bindings[n].role = r)
    BY <1>1 DEF Named, NamedFor
  <1>3. /\ bindings[n] \in Binding
        /\ \A m \in Names : \A b :
             [bindings EXCEPT ![m] = b][n] = IF m = n THEN b ELSE bindings[n]
    BY <1>1 DEF TypeOK
  <1>4. CASE bindings'[n] = bindings[n]
    BY <1>4 DEF Reaches
  <1>5. CASE ReplaceBinding /\ bindings'[n] # bindings[n]
    <2> DEFINE m     == NameOf(cam.spec, Head(todo))
               taken == cache.bindings[m] # Absent /\ cache.bindings[m].role # Head(todo)
    <2>1. m \in Names /\ m[3] = Head(todo)
      BY <1>5, AtRole DEF ReplaceBinding
    <2>2. bindings' = [bindings EXCEPT ![m] = IF taken THEN Deleted(bindings[m]) ELSE bindings[m]]
      BY <1>5 DEF ReplaceBinding, WriteBinding
    <2> HIDE DEF m
    <2>3. m = n /\ taken
      BY <1>3, <1>5, <2>1, <2>2
    <2> QED BY <1>2, <2>1, <2>3
  <1>6. CASE EnsureBinding /\ bindings'[n] # bindings[n]
    <2> DEFINE m   == NameOf(cam.spec, Head(todo))
               new == BindingCall(Head(todo)).object
    <2>1. pc = "ensure" /\ todo # <<>>
      BY <1>6 DEF EnsureBinding, TypeOK
    <2>2. /\ m \in Names /\ m[3] = Head(todo)
          /\ Head(todo) \in Roles /\ Head(todo) \in Elements(RolesOf(cam.spec))
      BY <2>1, AtRole
    <2>3. bindings' = [bindings EXCEPT ![m] = new]
      BY <1>6 DEF EnsureBinding, WriteBinding
    <2>4. \/ new = bindings[m]
          \/ /\ Fits(new, cam.spec, Head(todo))
             /\ bindings[m] # Absent => new.deleting = bindings[m].deleting
      BY <2>2, EnsuredCall
    <2> HIDE DEF m, new
    <2>5. m = n /\ new = bindings'[n]
      BY <1>3, <1>6, <2>2, <2>3
    <2>6. s \in Elements(subjectsFor(cam.spec))
      BY <2>1 DEF StillAsked
    <2>7. Gives(bindings'[n], s, r)
      BY <1>1, <1>2, <1>6, <2>2, <2>4, <2>5, <2>6 DEF Gives, Fits
    <2> QED BY <2>7 DEF Reaches
  <1>7. CASE DeleteBinding /\ bindings'[n] # bindings[n]
    <2> DEFINE m == NameOf(cam.spec, r)
    <2>1. pc = "prune"
      BY <1>7 DEF DeleteBinding, StillAsked, TypeOK
    <2>2. /\ r \in Elements(RolesOf(cam.spec)) /\ r \notin Elements(invalid)
          /\ s \in Elements(subjectsFor(cam.spec)) /\ cam.spec \in Specs
      BY <2>1 DEF StillAsked, TypeOK, OwnerVersion
    <2>3. m \in want /\ m \in Names /\ m \notin doomed
      BY <2>1, <2>2, NoElements DEF Visited, Syncing, TypeOK
    <2>4. m[2] = subjectKey(cam.spec) /\ m[3] = r
      BY NameParts
    <2> HIDE DEF m
    <2>5. Intact(m)
      BY <2>3
    <2>6. bindings[m].subjects = subjectsFor(cam.spec)
      <3>1. bindings[m] # Absent
        BY <2>5 DEF Intact, IsOwned
      <3>2. PICK t \in Specs : subjectKey(t) = m[2] /\ bindings[m].subjects = subjectsFor(t)
        BY <2>3, <2>5, <3>1 DEF Named, NamedFor, For, Intact
      <3> QED BY <2>2, <2>4, <3>2, OneSubjectList
    <2>7. bindings'[m] = bindings[m]
      BY <1>7, <2>3 DEF DeleteBinding, WriteBinding, TypeOK
    <2>8. Gives(bindings'[m], s, r)
      BY <2>2, <2>4, <2>5, <2>6, <2>7 DEF Gives, Intact
    <2> QED BY <2>3, <2>8 DEF Reaches
  <1>8. ASSUME NEW m \in Names, LetGo(m), bindings'[n] # bindings[n] PROVE Reaches(s, r)'
    <2> DEFINE new == IF bindings[m].deleting THEN Absent ELSE [bindings[m] EXCEPT !.held = FALSE]
    <2>0. bindings' = [bindings EXCEPT ![m] = new]
      BY <1>8 DEF LetGo, WriteBinding
    <2>1. bindings'[n] = [bindings[n] EXCEPT !.held = FALSE]
      <3> HIDE DEF new
      <3>1. m = n /\ bindings'[n] = new
        BY <1>3, <1>8, <2>0
      <3> QED BY <1>1, <3>1 DEF new
    <2>2. bindings'[n] \in Binding /\ bindings'[n] # Absent
      BY <1>3, <2>1, MarkerAssumption DEF Binding
    <2>3. Gives(bindings'[n], s, r)
      BY <1>1, <1>3, <2>1, <2>2 DEF Gives, IsOwned, Binding
    <2> QED BY <2>3 DEF Reaches
  <1> QED BY <1>4, <1>5, <1>6, <1>7, <1>8, Ours

\* A user kept by a change of the mapping is not cut off, whatever version of the
\* mapping and whatever caches the passes work from, and whatever befell the
\* bindings before: sync ensures under names that mean what they grant, and prunes
\* at its end, by the names it ensured (clusteraccess.go:111-131).
THEOREM UsersHandedOver == Spec => HandedOver
PROOF
  <1> DEFINE Step == \A s \in UNION {Elements(subjects) : subjects \in SubjectLists}, r \in Roles :
                       budget' = budget /\ StillAsked(s, r) /\ Reaches(s, r)
                         /\ (\A n \in want : Intact(n))
                       => Reaches(s, r)'
  <1>1. Init => TypeOK /\ Named /\ Visited
    BY TypeInit, HandingInit
  <1>2. TypeOK /\ Named /\ Visited /\ [Next]_vars => (TypeOK /\ Named /\ Visited)'
    BY TypeStep, NamedStep, VisitedStep
  <1>3. TypeOK /\ Named /\ Visited /\ [Next]_vars => [Step]_vars
    BY HandedOverStep
  <1> QED BY <1>1, <1>2, <1>3, PTL DEF Spec, HandedOver

-----------------------------------------------------------------------------
(* Nothing is lost: what holds while nothing that would wake the pass is left *)

\* The pass has read the owner as it is now, and no event of ours is on its way.
Steady == ~queued /\ watch = {} /\ news = {} /\ owner.present

\* A binding whose event is not on its way is in the cache as it is, or of no
\* concern: it has our labels neither here nor there.
Faithful ==
  \A n \in Names \ news :
    \/ cache.bindings[n] = bindings[n]
    \/ ~IsOwned(cache.bindings[n]) /\ ~IsOwned(bindings[n])
\* The owner is in the cache or comes there, and a pass not called for again works
\* on what is in the cache.
Seen ==
  /\ owner \in {cache.owner} \union watch
  /\ pc # "idle" /\ ~queued => cam = cache.owner
Tidy ==
  /\ pc = "idle" => want = {} /\ invalid = <<>> /\ syncErr = "none"
  /\ pc \in Syncing => syncErr = "none"
  /\ pc = "status" => syncErr # "none"

Existing(roles, k, set) == {i \in 1..k : roles[i] \in set}
\* refs lists the first k of the roles as far as they are missing.
ListsFirst(refs, roles, k, set) ==
  \E at \in [DOMAIN refs -> 1..k] :
    /\ \A i, j \in DOMAIN refs : i < j => at[i] < at[j]
    /\ \A i \in DOMAIN refs : refs[i] = roles[at[i]]
    /\ {at[i] : i \in DOMAIN refs} = 1..k \ Existing(roles, k, set)

\* The pass has visited the first roles of its copy, and all it ensured is in place.
Reached ==
  LET roles == RolesOf(cam.spec)
  IN  \E k \in 0..Len(roles) :
        /\ k + Len(todo) = Len(roles)
        /\ \A i \in DOMAIN todo : todo[i] = roles[k + i]
        /\ want = {NameOf(cam.spec, roles[i]) : i \in Existing(roles, k, cache.clusterRoles)}
        /\ ListsFirst(invalid, roles, k, cache.clusterRoles)
InPlace == \A n \in want : Fits(bindings[n], cam.spec, n[3])
Accounted == \A n \in Owned(bindings) : n \in want \union doomed \/ bindings[n].deleting
Underway ==
  Steady /\ pc \in Syncing =>
    /\ Reached /\ InPlace
    /\ pc = "ensure" => Head(todo) \in cache.clusterRoles
    /\ pc = "prune" => todo = <<>> /\ Accounted

\* InSync, with the roles of the cache, and but for bindings that linger.
Served ==
  LET refs == owner.status.invalidReferences
      asked == {NameOf(owner.spec, r) : r \in Elements(RolesOf(owner.spec)) \intersect cache.clusterRoles}
  IN  /\ Finalizer \in owner.finalizers
      /\ \A n \in asked : Fits(bindings[n], owner.spec, n[3])
      /\ \A n \in Owned(bindings) : n \in asked \/ bindings[n].deleting
      /\ Lists(refs, RolesOf(owner.spec), cache.clusterRoles)
      /\ gauge = Len(refs)
      /\ owner.status.observedGeneration = owner.generation
      /\ owner.status.ready = [reason |-> IF refs = <<>> THEN "Reconciled" ELSE "InvalidReferences",
                               message |-> "none", generation |-> owner.generation]
Rested ==
  Steady /\ pc = "idle" =>
    IF owner.deleting THEN Finalizer \notin owner.finalizers
    ELSE Served \/ owner.status.ready.message = "invalid"

\* A step that leaves us calm: the pass is not called for, and nothing is on its way
\* that was not before.
Calm ==
  /\ ~queued /\ news \subseteq news'
  /\ cache'.owner = cache.owner
  /\ cache'.clusterRoles = cache.clusterRoles \/ ~cache.owner.present
  /\ UNCHANGED <<owner, watch>> \/ \E new : WriteOwner(new)
Undisturbed ==
  /\ owner' = owner /\ cache'.owner = cache.owner /\ cache'.clusterRoles = cache.clusterRoles
  /\ \A n \in Names : IsOwned(bindings[n]) \/ IsOwned(bindings'[n]) => bindings'[n] = bindings[n]

\* What every step that does not call for a pass is: the start of one, or a calm one.
LEMMA CalmSteps ==
  ASSUME TypeOK, [Next]_vars, ~queued'
  PROVE  Reconcile \/ Crash \/ Calm
PROOF
  <1>1. cache \in Copies
    BY DEF TypeOK
  <1>2. ASSUME NEW n, NEW new, WriteBinding(n, new) PROVE news \subseteq news'
    BY <1>2 DEF WriteBinding
  <1>3. CASE Finalize \/ Unbound \/ Release \/ Adopt \/ MissingRole \/ Prune \/ ReportStatus
    BY <1>3 DEF Finalize, Unbound, Release, Adopt, MissingRole, Prune, ReportStatus, Done,
                server, Calm
  <1>4. CASE ReplaceBinding \/ EnsureBinding \/ DeleteBinding
    <2>1. news \subseteq news'
      BY <1>2, <1>4 DEF ReplaceBinding, EnsureBinding, DeleteBinding
    <2> QED BY <1>4, <2>1 DEF ReplaceBinding, EnsureBinding, DeleteBinding, GiveUp, locals, Calm
  <1>5. CASE Deliver
    <2>1. ASSUME NEW n \in Names, DeliverBinding(n) PROVE Calm
      BY <1>1, <2>1 DEF DeliverBinding, Calm, Copies
    <2>2. ASSUME NEW r \in Roles, DeliverRole(r) PROVE Calm
      BY <1>1, <2>2 DEF DeliverRole, Calm, all, server, Copies
    <2>3. ~DeliverOwner /\ ~Resync
      BY DEF DeliverOwner, Resync
    <2> QED BY <1>5, <2>1, <2>2, <2>3 DEF Deliver
  <1>6. CASE Users
    BY <1>6 DEF Users, CreateOwner, EditOwner, DeleteOwner, AddForeign, RemoveForeign,
                ForceRelease, Edit, Calm
  <1>7. ASSUME NEW n \in Names,
               LetGo(n) \/ DriftBinding(n) \/ HoldBinding(n) \/ \E r \in Roles : SquatBinding(n, r)
        PROVE  Calm
    <2>1. news \subseteq news'
      BY <1>2, <1>7 DEF LetGo, DriftBinding, HoldBinding, SquatBinding
    <2>2. UNCHANGED <<owner, watch, cache, queued>>
      BY <1>7 DEF LetGo, DriftBinding, HoldBinding, SquatBinding, Fault, Elsewhere
    <2> QED BY <2>1, <2>2 DEF Calm
  <1>8. CASE CallFails \/ \E r \in Roles : ToggleRole(r)
    BY <1>8 DEF CallFails, ToggleRole, Done, GiveUp, Fault, Elsewhere, Calm
  <1>9. CASE UNCHANGED vars
    BY <1>9 DEF vars, server, Calm
  <1> QED BY <1>3, <1>4, <1>5, <1>6, <1>7, <1>8, <1>9 DEF Next, Worker, Others

\* With no event left over, what carries our labels has not changed.
LEMMA Unwritten ==
  ASSUME TypeOK, [Next]_vars, news' = {}, NEW n \in Names,
         IsOwned(bindings[n]) \/ IsOwned(bindings'[n])
  PROVE  bindings'[n] = bindings[n]
  BY BindingSteps DEF WriteBinding, TypeOK

\* A steady state comes from the start of a pass, or from a steady one in which
\* nothing a pass depends on was changed.
LEMMA SteadySteps ==
  ASSUME TypeOK, Seen, [Next]_vars, Steady'
  PROVE  /\ Reconcile \/ Steady
         /\ Undisturbed /\ watch = {} /\ news = {} /\ cache.owner = owner
PROOF
  <1>1. \A n \in Names : IsOwned(bindings[n]) \/ IsOwned(bindings'[n]) => bindings'[n] = bindings[n]
    BY Unwritten DEF Steady
  <1>2. ~Crash
    BY DEF Crash, Fault, Steady
  <1>3. CASE Reconcile
    BY <1>1, <1>3 DEF Reconcile, server, Steady, Seen, Undisturbed
  <1>4. CASE Calm
    <2>1. UNCHANGED <<owner, watch>>
      BY <1>4 DEF Calm, WriteOwner, Steady
    <2>2. Steady /\ cache.owner = owner
      BY <1>4, <2>1 DEF Calm, Steady, Seen
    <2> QED BY <1>1, <1>4, <2>1, <2>2 DEF Calm, Steady, Undisturbed
  <1> QED BY <1>2, <1>3, <1>4, CalmSteps DEF Steady

\* Each step keeps the cache true to the bindings of which no event is on its way.
LEMMA FaithfulStep ==
  ASSUME TypeOK, Faithful, [Next]_vars
  PROVE  Faithful'
PROOF
  <1> SUFFICES ASSUME NEW n \in Names, n \notin news'
               PROVE  \/ cache'.bindings[n] = bindings'[n]
                      \/ ~IsOwned(cache'.bindings[n]) /\ ~IsOwned(bindings'[n])
    BY DEF Faithful
  <1>1. cache'.bindings[n] \in {cache.bindings[n], bindings'[n]}
    BY CopySteps
  <1>2. \/ UNCHANGED news \/ Crash
        \/ \E m \in Names : DeliverBinding(m)
        \/ \E m : \E new : WriteBinding(m, new)
    BY DEF Next, Worker, vars, server, Reconcile, Finalize, Unbound, Release, Adopt,
           MissingRole, ReplaceBinding, EnsureBinding, Prune, DeleteBinding, ReportStatus,
           Deliver, DeliverOwner, Resync, DeliverRole, LetGo, Users, Edit, CreateOwner,
           EditOwner, DeleteOwner, AddForeign, RemoveForeign, ForceRelease, Others,
           CallFails, ToggleRole, DriftBinding, HoldBinding, SquatBinding
  <1>3. CASE n \in news
    <2>1. CASE Crash
      BY <2>1 DEF Crash
    <2>2. ASSUME NEW m \in Names, DeliverBinding(m) PROVE cache'.bindings[n] = bindings'[n]
      BY <1>3, <2>2 DEF DeliverBinding, TypeOK, Copies
    <2>3. ASSUME NEW m, NEW new, WriteBinding(m, new) PROVE FALSE
      BY <1>3, <2>3 DEF WriteBinding
    <2> QED BY <1>2, <1>3, <2>1, <2>2, <2>3
  <1>4. CASE n \notin news
    <2>1. \/ cache.bindings[n] = bindings[n]
          \/ ~IsOwned(cache.bindings[n]) /\ ~IsOwned(bindings[n])
      BY <1>4 DEF Faithful
    <2>2. bindings'[n] = bindings[n] \/ (~IsOwned(bindings[n]) /\ ~IsOwned(bindings'[n]))
      BY BindingSteps DEF WriteBinding, TypeOK
    <2> QED BY <1>1, <2>1, <2>2
  <1> QED BY <1>3, <1>4

\* Each step keeps the owner in the cache or on its way there, and an uncalled
\* pass with what is in the cache.
LEMMA SeenStep ==
  ASSUME TypeOK, TypeOK', Versions, Seen, [Next]_vars
  PROVE  Seen'
PROOF
  <1>1. /\ owner.rv \in Nat /\ cache.owner.rv \in Nat
        /\ \A w \in watch : w.rv \in Nat
    BY Reads
  <1>2. owner' \in {cache'.owner} \union watch'
    <2>1. CASE Local
      BY <2>1 DEF Local, Seen
    <2>2. CASE Written
      BY <2>2 DEF Written
    <2>3. CASE Delivered
      <3> PICK v \in watch : cache'.owner = v /\ watch' = {w \in watch : w.rv > v.rv}
        BY <2>3 DEF Delivered
      <3>1. owner \in watch
        BY <1>1 DEF Seen, Versions, Current
      <3>2. v.rv <= owner.rv /\ (v.rv = owner.rv => v = owner)
        BY DEF Versions, Current
      <3> QED BY <1>1, <2>3, <3>1, <3>2 DEF Delivered
    <2>4. CASE Restarted
      BY <2>4 DEF Restarted
    <2> QED BY OwnerSteps, <2>1, <2>2, <2>3, <2>4
  <1>3. ASSUME pc' # "idle", ~queued' PROVE cam' = cache'.owner
    <2>1. CASE Reconcile
      BY <1>3, <2>1 DEF Reconcile, FirstStep
    <2>2. ~Crash
      BY <1>3 DEF Crash
    <2>3. CASE Calm /\ (PassOn \/ Rests)
      BY <1>3, <2>3 DEF Calm, PassOn, Rests, Seen
    <2> QED BY <1>3, <2>1, <2>2, <2>3, CalmSteps, PassSteps DEF Ends
  <1> QED BY <1>2, <1>3 DEF Seen

\* Each step keeps the locals empty between passes, and an error to the status.
LEMMA TidyStep ==
  ASSUME TypeOK, Tidy, [Next]_vars
  PROVE  Tidy'
PROOF
  <1>1. CASE Reconcile
    BY <1>1 DEF Reconcile, FirstStep, Tidy, Syncing
  <1>2. CASE Finalize \/ Unbound \/ Release \/ Adopt \/ ReportStatus
    BY <1>2 DEF Finalize, Unbound, Release, Adopt, ReportStatus, Done, Tidy, Syncing
  <1>3. CASE MissingRole \/ ReplaceBinding \/ Prune
    BY <1>3 DEF MissingRole, ReplaceBinding, Prune, GiveUp, locals, Tidy, Syncing
  <1>4. CASE EnsureBinding
    BY <1>4 DEF EnsureBinding, GiveUp, Tidy, Syncing
  <1>5. CASE DeleteBinding
    BY <1>5 DEF DeleteBinding, Tidy, Syncing
  <1>6. CASE CallFails \/ Crash
    BY <1>6 DEF CallFails, Crash, Done, GiveUp, Tidy, Syncing
  <1>7. CASE UNCHANGED <<pc, locals, gauge>>
    BY <1>7 DEF locals, Tidy
  <1> QED BY <1>1, <1>2, <1>3, <1>4, <1>5, <1>6, <1>7, PassAlone DEF Worker

-----------------------------------------------------------------------------
(* A pass, while nothing disturbs it *)

\* A role that is missing is listed next.
LEMMA ListsMissing ==
  ASSUME NEW roles \in Seq(Roles), NEW k \in Nat, k < Len(roles), NEW refs \in Seq(Roles),
         NEW set, ListsFirst(refs, roles, k, set),
         roles[k + 1] \notin set
  PROVE  /\ ListsFirst(Append(refs, roles[k + 1]), roles, k + 1, set)
         /\ Existing(roles, k + 1, set) = Existing(roles, k, set)
PROOF
  <1> PICK at \in [DOMAIN refs -> 1..k] :
        /\ \A i, j \in DOMAIN refs : i < j => at[i] < at[j]
        /\ \A i \in DOMAIN refs : refs[i] = roles[at[i]]
        /\ {at[i] : i \in DOMAIN refs} = 1..k \ Existing(roles, k, set)
    BY DEF ListsFirst
  <1>1. 1..(k + 1) = (1..k) \union {k + 1} /\ k + 1 \notin 1..k
    OBVIOUS
  <1> DEFINE n    == Len(refs) + 1
             more == Append(refs, roles[k + 1])
             next == [i \in 1..n |-> IF i = n THEN k + 1 ELSE at[i]]
  <1>2. Existing(roles, k + 1, set) = Existing(roles, k, set)
    BY <1>1 DEF Existing
  <1>3. n \in Nat /\ DOMAIN refs = 1..Len(refs) /\ DOMAIN more = 1..n
        /\ 1..n = DOMAIN refs \union {n} /\ n \notin DOMAIN refs
    OBVIOUS
  <1>4. next \in [DOMAIN more -> 1..(k + 1)]
    BY <1>1, <1>3
  <1>5. \A i, j \in DOMAIN more : i < j => next[i] < next[j]
    <2> SUFFICES ASSUME NEW i \in 1..n, NEW j \in 1..n, i < j PROVE next[i] < next[j]
      BY <1>3
    <2>1. i \in DOMAIN refs /\ next[i] = at[i]
      BY <1>3
    <2>2. CASE j = n
      BY <2>1, <2>2
    <2>3. CASE j # n
      BY <1>3, <2>1, <2>3
    <2> QED BY <2>2, <2>3
  <1>6. \A i \in DOMAIN more : more[i] = roles[next[i]]
    <2> SUFFICES ASSUME NEW i \in 1..n PROVE more[i] = roles[next[i]]
      BY <1>3
    <2>1. CASE i = n
      BY <2>1
    <2>2. CASE i # n
      <3>1. i \in DOMAIN refs /\ more[i] = refs[i] /\ next[i] = at[i]
        BY <1>3, <2>2
      <3> QED BY <3>1
    <2> QED BY <2>1, <2>2
  <1>7. {next[i] : i \in DOMAIN more} = {at[i] : i \in DOMAIN refs} \union {k + 1}
    <2>1. next[n] = k + 1 /\ \A i \in DOMAIN refs : next[i] = at[i]
      BY <1>3
    <2>2. DOMAIN more = DOMAIN refs \union {n}
      BY <1>3
    <2> HIDE DEF next, more, n
    <2>3. \A x : x \in {next[i] : i \in DOMAIN more} <=> \E i \in DOMAIN refs \union {n} : x = next[i]
      BY <2>2
    <2>4. \A x : x \in {next[i] : i \in DOMAIN more} <=> x = k + 1 \/ \E i \in DOMAIN refs : x = at[i]
      BY <2>1, <2>3
    <2> QED BY <2>4
  <1>8. {next[i] : i \in DOMAIN more} = 1..(k + 1) \ Existing(roles, k + 1, set)
    BY <1>1, <1>2, <1>7 DEF Existing
  <1> HIDE DEF next, more
  <1>9. ListsFirst(more, roles, k + 1, set)
    BY <1>4, <1>5, <1>6, <1>8 DEF ListsFirst
  <1> QED BY <1>2, <1>9 DEF more

\* A role that exists is not.
LEMMA ListsExisting ==
  ASSUME NEW roles \in Seq(Roles), NEW k \in Nat, k < Len(roles), NEW refs \in Seq(Roles),
         NEW set, ListsFirst(refs, roles, k, set),
         roles[k + 1] \in set
  PROVE  /\ ListsFirst(refs, roles, k + 1, set)
         /\ Existing(roles, k + 1, set) = Existing(roles, k, set) \union {k + 1}
PROOF
  <1> PICK at \in [DOMAIN refs -> 1..k] :
        /\ \A i, j \in DOMAIN refs : i < j => at[i] < at[j]
        /\ \A i \in DOMAIN refs : refs[i] = roles[at[i]]
        /\ {at[i] : i \in DOMAIN refs} = 1..k \ Existing(roles, k, set)
    BY DEF ListsFirst
  <1>1. 1..(k + 1) = (1..k) \union {k + 1} /\ k + 1 \notin 1..k
    OBVIOUS
  <1>2. Existing(roles, k + 1, set) = Existing(roles, k, set) \union {k + 1}
    BY <1>1 DEF Existing
  <1>3. at \in [DOMAIN refs -> 1..(k + 1)]
    BY <1>1
  <1>4. 1..(k + 1) \ Existing(roles, k + 1, set) = 1..k \ Existing(roles, k, set)
    BY <1>1, <1>2 DEF Existing
  <1>5. ListsFirst(refs, roles, k + 1, set)
    BY <1>3, <1>4 DEF ListsFirst
  <1> QED BY <1>2, <1>5

\* A pass that has visited all roles lists the missing ones.
LEMMA ListsAll ==
  ASSUME NEW roles \in Seq(Roles), NEW refs \in Seq(Roles), NEW set,
         ListsFirst(refs, roles, Len(roles), set)
  PROVE  Lists(refs, roles, set)
PROOF
  <1>1. DOMAIN roles = 1..Len(roles)
    OBVIOUS
  <1>2. 1..Len(roles) \ Existing(roles, Len(roles), set)
          = {i \in DOMAIN roles : roles[i] \notin set}
    BY <1>1 DEF Existing
  <1> PICK at \in [DOMAIN refs -> 1..Len(roles)] :
        /\ \A i, j \in DOMAIN refs : i < j => at[i] < at[j]
        /\ \A i \in DOMAIN refs : refs[i] = roles[at[i]]
        /\ {at[i] : i \in DOMAIN refs} = 1..Len(roles) \ Existing(roles, Len(roles), set)
    BY DEF ListsFirst
  <1>3. at \in [DOMAIN refs -> DOMAIN roles]
    BY <1>1
  <1> QED BY <1>2, <1>3 DEF Lists

\* What a pass has reached depends on its locals and the roles of the cache alone.
LEMMA ReachedSame ==
  ASSUME UNCHANGED <<cam, todo, want, invalid>>, cache'.clusterRoles = cache.clusterRoles,
         Reached
  PROVE  Reached'
  BY DEF Reached

\* The next role is visited: it is reported missing, or ensured.
LEMMA ReachedNext ==
  ASSUME TypeOK, todo # <<>>, Reached, todo' = Tail(todo), cam' = cam,
         cache'.clusterRoles = cache.clusterRoles,
         \/ /\ Head(todo) \notin cache.clusterRoles /\ want' = want
            /\ invalid' = Append(invalid, Head(todo))
         \/ /\ Head(todo) \in cache.clusterRoles /\ invalid' = invalid
            /\ want' = want \union {NameOf(cam.spec, Head(todo))}
  PROVE  Reached'
PROOF
  <1> DEFINE roles == RolesOf(cam.spec)
             set   == cache.clusterRoles
  <1>1. todo \in Seq(Roles) /\ invalid \in Seq(Roles) /\ cam.spec \in Specs
    BY DEF TypeOK, OwnerVersion
  <1>2. roles \in Seq(Roles) /\ Len(roles) \in Nat
    BY <1>1, RolesType
  <1> PICK k \in 0..Len(roles) :
        /\ k + Len(todo) = Len(roles)
        /\ \A i \in DOMAIN todo : todo[i] = roles[k + i]
        /\ want = {NameOf(cam.spec, roles[i]) : i \in Existing(roles, k, set)}
        /\ ListsFirst(invalid, roles, k, set)
    BY DEF Reached
  <1> HIDE DEF roles, set
  <1>3. /\ Len(todo) > 0 /\ Len(Tail(todo)) = Len(todo) - 1 /\ Head(todo) = todo[1]
        /\ 1 \in DOMAIN todo
        /\ \A i \in DOMAIN Tail(todo) : i \in Nat /\ i + 1 \in DOMAIN todo
                                        /\ Tail(todo)[i] = todo[i + 1]
    BY <1>1
  <1>4. /\ k \in Nat /\ k < Len(roles) /\ k + 1 \in 0..Len(roles)
        /\ (k + 1) + Len(Tail(todo)) = Len(roles)
    BY <1>1, <1>2, <1>3
  <1>5. Head(todo) = roles[k + 1]
    BY <1>3
  <1>6. ASSUME NEW i \in DOMAIN Tail(todo) PROVE Tail(todo)[i] = roles[(k + 1) + i]
    <2>1. Tail(todo)[i] = todo[i + 1] /\ todo[i + 1] = roles[k + (i + 1)] /\ i \in Nat
      BY <1>3
    <2>2. k + (i + 1) = (k + 1) + i
      BY <1>4, <2>1
    <2> QED BY <2>1, <2>2
  <1>7. /\ want' = {NameOf(cam.spec, roles[i]) : i \in Existing(roles, k + 1, set)}
        /\ ListsFirst(invalid', roles, k + 1, set)
    <2>1. CASE Head(todo) \notin set
      <3>1. /\ Existing(roles, k + 1, set) = Existing(roles, k, set)
            /\ ListsFirst(Append(invalid, Head(todo)), roles, k + 1, set)
        <4>1. roles[k + 1] \notin set
          BY <1>5, <2>1
        <4> QED BY <1>1, <1>2, <1>4, <1>5, <4>1, ListsMissing
      <3>2. want' = want /\ invalid' = Append(invalid, Head(todo))
        BY <2>1 DEF set
      <3> QED BY <3>1, <3>2
    <2>2. CASE Head(todo) \in set
      <3>1. /\ Existing(roles, k + 1, set) = Existing(roles, k, set) \union {k + 1}
            /\ ListsFirst(invalid, roles, k + 1, set)
        <4>1. roles[k + 1] \in set
          BY <1>5, <2>2
        <4> QED BY <1>1, <1>2, <1>4, <4>1, ListsExisting
      <3>2. want' = want \union {NameOf(cam.spec, Head(todo))} /\ invalid' = invalid
        BY <2>2 DEF set
      <3> QED BY <1>5, <3>1, <3>2
    <2> QED BY <2>1, <2>2
  <1>8. RolesOf(cam'.spec) = roles /\ cache'.clusterRoles = set
    BY DEF roles, set
  <1> QED BY <1>4, <1>6, <1>7, <1>8 DEF Reached

\* With its events delivered, what is ensured stays as it is.
LEMMA InPlaceSame ==
  ASSUME TypeOK, Undisturbed, InPlace, cam' = cam, want' = want
  PROVE  InPlace'
PROOF
  <1>1. want \subseteq Names
    BY DEF TypeOK
  <1>2. ASSUME NEW n \in want PROVE bindings'[n] = bindings[n]
    BY <1>1, <1>2 DEF InPlace, Fits, Undisturbed
  <1> QED BY <1>2 DEF InPlace

\* Each step keeps what an undisturbed pass has reached and ensured.
LEMMA UnderwayStep ==
  ASSUME TypeOK, TypeOK', Seen, Faithful, Tidy, Underway, [Next]_vars
  PROVE  Underway'
PROOF
  <1> SUFFICES ASSUME Steady', pc' \in Syncing
               PROVE  /\ Reached' /\ InPlace'
                      /\ pc' = "ensure" => Head(todo') \in cache'.clusterRoles
                      /\ pc' = "prune" => todo' = <<>> /\ Accounted'
    BY DEF Underway
  <1>1. Undisturbed /\ news = {} /\ cache'.clusterRoles = cache.clusterRoles
    BY SteadySteps DEF Undisturbed
  <1>2. CASE Reconcile
    <2>1. /\ pc' = "bindings" /\ todo' = RolesOf(cam'.spec)
          /\ want' = {} /\ invalid' = <<>>
      BY <1>2 DEF Reconcile, FirstStep, Tidy, Syncing
    <2>2. cam'.spec \in Specs
      BY DEF TypeOK, OwnerVersion
    <2> DEFINE roles == RolesOf(cam'.spec)
               set   == cache'.clusterRoles
    <2>3. roles \in Seq(Roles)
      BY <2>2, RolesType
    <2> HIDE DEF roles, set
    <2>4. Existing(roles, 0, set) = {}
      BY DEF Existing
    <2>5. ListsFirst(<<>>, roles, 0, set)
      <3>1. DOMAIN <<>> = {}
        OBVIOUS
      <3> DEFINE at == [i \in {} |-> 0]
      <3>2. at \in [DOMAIN <<>> -> 1..0]
        BY <3>1
      <3>3. {at[i] : i \in DOMAIN <<>>} = 1..0 \ Existing(roles, 0, set)
        BY <2>4, <3>1
      <3> HIDE DEF at
      <3> QED BY <3>1, <3>2, <3>3 DEF ListsFirst
    <2>6. /\ 0 \in 0..Len(roles) /\ 0 + Len(roles) = Len(roles)
          /\ \A i \in DOMAIN roles : roles[i] = roles[0 + i]
      BY <2>3
    <2>7. Reached'
      BY <2>1, <2>4, <2>5, <2>6 DEF Reached, roles, set
    <2> QED BY <2>1, <2>7 DEF InPlace
  <1>3. CASE ~Reconcile
    <2>1. Steady
      BY <1>3, SteadySteps
    <2>2. CASE MissingRole
      <3>1. /\ pc = "bindings" /\ pc' = "bindings" /\ todo # <<>> /\ cam' = cam /\ want' = want
            /\ todo' = Tail(todo) /\ invalid' = Append(invalid, Head(todo))
            /\ Head(todo) \notin cache.clusterRoles
        BY <2>2 DEF MissingRole
      <3>2. Reached /\ InPlace
        BY <2>1, <3>1 DEF Underway, Syncing
      <3> QED BY <1>1, <3>1, <3>2, ReachedNext, InPlaceSame
    <2>3. CASE ReplaceBinding
      <3>1. /\ pc = "bindings" /\ pc' = "ensure" /\ Head(todo) \in cache.clusterRoles
            /\ UNCHANGED <<cam, todo, want, invalid>>
        BY <2>3 DEF ReplaceBinding, GiveUp, Syncing, locals
      <3>2. Reached /\ InPlace
        BY <2>1, <3>1 DEF Underway, Syncing
      <3> QED BY <1>1, <3>1, <3>2, ReachedSame, InPlaceSame
    <2>4. CASE EnsureBinding
      <3> DEFINE n   == NameOf(cam.spec, Head(todo))
                 new == BindingCall(Head(todo)).object
      <3>1. /\ pc = "ensure" /\ pc' = "bindings" /\ todo' = Tail(todo) /\ want' = want \union {n}
            /\ cam' = cam /\ invalid' = invalid /\ BindingCall(Head(todo)).error = "none"
        BY <2>4 DEF EnsureBinding, GiveUp, Syncing
      <3>2. /\ Reached /\ InPlace /\ todo # <<>> /\ Head(todo) \in cache.clusterRoles
        BY <2>1, <3>1 DEF TypeOK, Underway, Syncing
      <3>3. Reached'
        BY <1>1, <3>1, <3>2, ReachedNext
      <3>4. /\ n \in Names /\ n[3] = Head(todo)
            /\ Head(todo) \in Roles /\ Head(todo) \in Elements(RolesOf(cam.spec))
        BY <3>1, <3>2, AtRole
      <3>5. \/ Fits(new, cam.spec, Head(todo))
            \/ new = bindings[n] /\ Fits(cache.bindings[n], cam.spec, Head(todo))
        BY <3>1, <3>4, EnsuredCall
      <3>6. bindings'[n] = new
        BY <2>4, <3>4 DEF EnsureBinding, WriteBinding, TypeOK
      <3> HIDE DEF n, new
      <3>7. Fits(bindings'[n], cam.spec, n[3])
        <4>1. CASE new = bindings[n] /\ Fits(cache.bindings[n], cam.spec, Head(todo))
          <5>1. cache.bindings[n] = bindings[n]
            BY <1>1, <3>4, <4>1 DEF Faithful, Fits
          <5> QED BY <3>4, <3>6, <4>1, <5>1
        <4> QED BY <3>4, <3>5, <3>6, <4>1
      <3>8. ASSUME NEW m \in want PROVE bindings'[m] = bindings[m]
        <4>1. m \in Names /\ Fits(bindings[m], cam.spec, m[3])
          BY <3>2 DEF TypeOK, InPlace
        <4> QED BY <1>1, <4>1 DEF Fits, Undisturbed
      <3>9. InPlace'
        BY <3>1, <3>2, <3>7, <3>8 DEF InPlace
      <3> QED BY <3>1, <3>3, <3>9
    <2>5. CASE Prune
      <3>1. /\ pc = "bindings" /\ pc' = "prune" /\ todo = <<>> /\ todo' = <<>>
            /\ UNCHANGED <<cam, todo, want, invalid>> /\ doomed' = Owned(cache.bindings) \ want
            /\ bindings' = bindings
        BY <2>5 DEF Prune, Unwanted, server
      <3>2. Reached /\ InPlace
        BY <2>1, <3>1 DEF Underway, Syncing
      <3>3. Accounted'
        BY <1>1, <3>1 DEF Accounted, Owned, Faithful
      <3> QED BY <1>1, <3>1, <3>2, <3>3, ReachedSame, InPlaceSame
    <2>6. CASE DeleteBinding
      <3> PICK d \in doomed : WriteBinding(d, Deleted(bindings[d])) /\ doomed' = doomed \ {d}
        BY <2>6 DEF DeleteBinding
      <3>1. pc = "prune" /\ pc' = "prune" /\ UNCHANGED <<cam, todo, want, invalid>>
        BY <2>6 DEF DeleteBinding, Syncing
      <3>2. Reached /\ InPlace /\ todo = <<>> /\ Accounted
        BY <2>1, <3>1 DEF Underway, Syncing
      <3>3. ASSUME NEW n \in Owned(bindings')
            PROVE  n \in want' \union doomed' \/ bindings'[n].deleting
        <4>1. n \in Names /\ IsOwned(bindings'[n])
          BY <3>3 DEF Owned
        <4>2. bindings'[n] = bindings[n] /\ n \in Owned(bindings)
          BY <1>1, <4>1 DEF Undisturbed, Owned
        <4>3. CASE n = d
          <5>1. bindings'[n] = Deleted(bindings[n]) /\ bindings[n] \in Binding
            BY <4>1, <4>2, <4>3 DEF WriteBinding, TypeOK, IsOwned
          <5> QED BY <4>1, <5>1 DEF Deleted, IsOwned, Binding
        <4>4. CASE n # d
          BY <3>1, <3>2, <4>2, <4>4 DEF Accounted
        <4> QED BY <4>3, <4>4
      <3>4. Accounted'
        BY <3>3 DEF Accounted
      <3> QED BY <1>1, <3>1, <3>2, <3>4, ReachedSame, InPlaceSame
    <2>7. CASE UNCHANGED <<pc, locals, gauge>>
      <3>1. UNCHANGED <<pc, cam, todo, want, invalid, doomed>>
        BY <2>7 DEF locals
      <3>2. /\ Reached /\ InPlace
            /\ pc = "ensure" => Head(todo) \in cache.clusterRoles
            /\ pc = "prune" => todo = <<>> /\ Accounted
        BY <2>1, <3>1 DEF Underway
      <3>3. ASSUME NEW n \in Owned(bindings')
            PROVE  n \in Owned(bindings) /\ bindings'[n] = bindings[n]
        BY <1>1, <3>3 DEF Undisturbed, Owned
      <3>4. Accounted => Accounted'
        BY <3>1, <3>3 DEF Accounted
      <3> QED BY <1>1, <3>1, <3>2, <3>4, ReachedSame, InPlaceSame
    <2>8. ~Finalize /\ ~Unbound /\ ~Release /\ ~Adopt /\ ~ReportStatus /\ ~CallFails /\ ~Crash
      BY DEF Finalize, Unbound, Release, Adopt, ReportStatus, CallFails, Crash, Done, GiveUp,
             Syncing
    <2> QED BY <1>3, <2>2, <2>3, <2>4, <2>5, <2>6, <2>7, <2>8, PassAlone DEF Worker
  <1> QED BY <1>2, <1>3

-----------------------------------------------------------------------------
(* What a pass leaves behind, if nothing calls for the next one *)

\* At the start there is no owner to serve.
LEMMA SettledInit == Init => Faithful /\ Seen /\ Tidy /\ Underway /\ Rested
  BY DEF Init, NoOwner, Faithful, Seen, Tidy, Underway, Rested, Steady, Syncing

\* A write that changed nothing wrote what was there.
LEMMA NothingWritten ==
  ASSUME TypeOK, NEW new, WriteOwner(new), owner' = owner
  PROVE  [new EXCEPT !.rv = owner.rv] = owner
PROOF
  <1>1. owner \in OwnerVersion /\ owner.rv \in Nat
    BY DEF TypeOK, OwnerVersion
  <1> DEFINE next == [new EXCEPT !.rv = owner.rv + 1]
  <1>2. CASE owner' = next
    <2>1. DOMAIN owner = DOMAIN new
      BY <1>2
    <2>2. "rv" \in DOMAIN new
      BY <1>1, <2>1 DEF OwnerVersion
    <2>3. owner.rv = owner.rv + 1
      BY <1>2, <2>2
    <2> QED BY <1>1, <2>3
  <1> QED BY <1>2 DEF WriteOwner

\* A pass that reached its end ensured all that is asked for and reported the rest.
LEMMA ReachedAll ==
  ASSUME TypeOK, Reached, todo = <<>>
  PROVE  /\ want = {NameOf(cam.spec, r) :
                      r \in Elements(RolesOf(cam.spec)) \intersect cache.clusterRoles}
         /\ Lists(invalid, RolesOf(cam.spec), cache.clusterRoles)
PROOF
  <1> DEFINE roles == RolesOf(cam.spec)
             set   == cache.clusterRoles
  <1>1. invalid \in Seq(Roles) /\ cam.spec \in Specs
    BY DEF TypeOK, OwnerVersion
  <1>2. roles \in Seq(Roles)
    BY <1>1, RolesType
  <1> PICK k \in 0..Len(roles) :
        /\ k + Len(todo) = Len(roles)
        /\ want = {NameOf(cam.spec, roles[i]) : i \in Existing(roles, k, set)}
        /\ ListsFirst(invalid, roles, k, set)
    BY DEF Reached
  <1> HIDE DEF roles, set
  <1>3. k = Len(roles)
    BY <1>2
  <1>4. Lists(invalid, roles, set)
    BY <1>1, <1>2, <1>3, ListsAll
  <1>5. Elements(roles) \intersect set = {roles[i] : i \in Existing(roles, k, set)}
    BY <1>2, <1>3 DEF Elements, Existing
  <1>6. want = {NameOf(cam.spec, r) : r \in Elements(roles) \intersect set}
    BY <1>5
  <1> QED BY <1>4, <1>6 DEF roles, set

\* A status patch that had nothing to write found its outcome there already.
LEMMA Reported ==
  ASSUME TypeOK, ReportStatus, owner.present, cam = owner, owner' = owner
  PROVE  /\ syncErr # "none" => owner.status.ready.message = syncErr
         /\ syncErr = "none" =>
              /\ owner.status.observedGeneration = owner.generation
              /\ owner.status.invalidReferences = invalid
              /\ owner.status.ready =
                   [reason |-> IF invalid = <<>> THEN "Reconciled" ELSE "InvalidReferences",
                    message |-> "none", generation |-> owner.generation]
PROOF
  <1> DEFINE patched == MergePatch(owner.status, Outcome, owner.status)
  <1>1. WriteOwner([owner EXCEPT !.status = patched])
    BY DEF ReportStatus
  <1>2. owner \in OwnerVersion /\ owner.status \in Status
    BY DEF TypeOK, OwnerVersion
  <1> HIDE DEF patched
  <1>3. [[owner EXCEPT !.status = patched] EXCEPT !.rv = owner.rv] = owner
    BY <1>1, NothingWritten
  <1>4. owner.status = patched
    BY <1>2, <1>3 DEF OwnerVersion
  <1>5. /\ owner.status.observedGeneration = Outcome.observedGeneration
        /\ owner.status.invalidReferences = Outcome.invalidReferences
        /\ owner.status.ready = Outcome.ready
    BY <1>4 DEF patched, MergePatch
  <1>6. Outcome = Report(owner, invalid, syncErr)
    BY DEF Outcome
  <1>7. CASE syncErr # "none"
    <2>1. Outcome.ready = [reason |-> "SyncFailed", message |-> syncErr,
                           generation |-> owner.generation]
      BY <1>2, <1>6, <1>7 DEF Report, Status
    <2> QED BY <1>5, <1>7, <2>1
  <1>8. CASE syncErr = "none"
    BY <1>5, <1>6, <1>8 DEF Report
  <1> QED BY <1>7, <1>8

\* Each step keeps it: a pass that ends and is not called for again has released
\* its owner, or found it served, or reported that it was refused.
LEMMA RestedStep ==
  ASSUME TypeOK, TypeOK', Seen, Tidy, Underway, Rested, [Next]_vars
  PROVE  Rested'
PROOF
  <1> DEFINE Fine == IF owner'.deleting THEN Finalizer \notin owner'.finalizers
                     ELSE Served' \/ owner'.status.ready.message = "invalid"
  <1> SUFFICES ASSUME Steady', pc' = "idle" PROVE Fine
    BY DEF Rested
  <1>1. Undisturbed /\ news = {} /\ owner' = owner /\ cache.owner = owner
        /\ cache'.clusterRoles = cache.clusterRoles /\ owner.present /\ ~queued'
    BY SteadySteps DEF Undisturbed, Steady
  <1>2. ~Reconcile /\ ~Crash
    BY <1>1 DEF Reconcile, FirstStep, Crash, Fault
  <1>3. Steady
    BY <1>2, SteadySteps
  <1>4. pc # "idle" => cam = owner
    BY <1>1, <1>3 DEF Seen, Steady
  <1>5. CASE UNCHANGED <<pc, locals, gauge>>
    <2>1. pc = "idle" /\ gauge' = gauge
      BY <1>5
    <2>2. IF owner.deleting THEN Finalizer \notin owner.finalizers
          ELSE Served \/ owner.status.ready.message = "invalid"
      BY <1>3, <2>1 DEF Rested
    <2>3. ASSUME Served PROVE Served'
      <3> DEFINE asked == {NameOf(owner.spec, r) :
                             r \in Elements(RolesOf(owner.spec)) \intersect cache.clusterRoles}
      <3>1. owner.spec \in Specs
        BY DEF TypeOK, OwnerVersion
      <3>2. \A n \in asked : n \in Names
        BY <3>1, NameType
      <3>3. \A n \in asked : Fits(bindings[n], owner.spec, n[3])
        BY <2>3 DEF Served
      <3>4. \A n \in asked : Fits(bindings'[n], owner.spec, n[3])
        BY <1>1, <3>2, <3>3 DEF Undisturbed, Fits
      <3>5. \A n \in Owned(bindings) : n \in asked \/ bindings[n].deleting
        BY <2>3 DEF Served
      <3>6. \A n \in Owned(bindings') : n \in asked \/ bindings'[n].deleting
        BY <1>1, <3>5 DEF Undisturbed, Owned
      <3> QED BY <1>1, <2>1, <2>3, <3>4, <3>6 DEF Served
    <2> QED BY <1>1, <2>2, <2>3
  <1>6. CASE Release
    <2>1. PatchAccepted /\ pc = "release" /\ cam.deleting
      BY <1>1, <1>6 DEF Release, Done, TypeOK
    <2>2. cam = owner
      BY <1>4, <2>1
    <2> DEFINE fs == owner.finalizers \ {Finalizer}
    <2>3. WriteOwner(WithFinalizers(fs))
      BY <1>6, <2>1, <2>2 DEF Release
    <2>4. [WithFinalizers(fs) EXCEPT !.rv = owner.rv] = owner
      BY <1>1, <2>3, NothingWritten
    <2>5. owner \in OwnerVersion
      BY DEF TypeOK
    <2>6. owner.finalizers = fs
      BY <2>4, <2>5 DEF WithFinalizers, OwnerVersion
    <2> QED BY <1>1, <2>1, <2>2, <2>6
  <1>7. CASE ReportStatus
    <2>1. /\ bindings' = bindings /\ Done(Retried)
          /\ gauge' = IF syncErr = "none" THEN Len(invalid) ELSE gauge
      BY <1>1, <1>7 DEF ReportStatus, SetGauge
    <2>2. syncErr # "failed"
      BY <1>1, <2>1 DEF Done, Retried
    <2>3. /\ pc \in Syncing \union {"status"}
          /\ pc = "status" \/ (pc = "prune" /\ doomed = {})
      BY <1>7 DEF ReportStatus, Reporting, Syncing
    <2>4. cam = owner /\ ~owner.deleting /\ Finalizer \in owner.finalizers
      BY <1>4, <2>3 DEF TypeOK, Syncing
    <2>5. CASE syncErr # "none"
      <3>1. syncErr = "invalid"
        BY <2>2, <2>5 DEF TypeOK, Errors
      <3> QED BY <1>1, <1>7, <2>4, <3>1, Reported
    <2>6. CASE syncErr = "none"
      <3>1. pc = "prune" /\ doomed = {}
        BY <2>3, <2>6 DEF Tidy
      <3>2. Reached /\ InPlace /\ todo = <<>> /\ Accounted
        BY <1>3, <3>1 DEF Underway, Syncing
      <3> DEFINE asked == {NameOf(owner.spec, r) :
                             r \in Elements(RolesOf(owner.spec)) \intersect cache.clusterRoles}
      <3>3. want = asked /\ Lists(invalid, RolesOf(owner.spec), cache.clusterRoles)
        BY <2>4, <3>2, ReachedAll
      <3>4. \A n \in asked : Fits(bindings[n], owner.spec, n[3])
        BY <2>4, <3>2, <3>3 DEF InPlace
      <3>5. \A n \in Owned(bindings) : n \in asked \/ bindings[n].deleting
        BY <3>1, <3>2, <3>3 DEF Accounted
      <3>6. /\ owner.status.observedGeneration = owner.generation
            /\ owner.status.invalidReferences = invalid
            /\ owner.status.ready =
                 [reason |-> IF invalid = <<>> THEN "Reconciled" ELSE "InvalidReferences",
                  message |-> "none", generation |-> owner.generation]
        BY <1>1, <1>7, <2>4, <2>6, Reported
      <3> DEFINE refs == owner.status.invalidReferences
      <3>7. /\ Lists(refs, RolesOf(owner.spec), cache.clusterRoles) /\ gauge' = Len(refs)
            /\ owner.status.ready =
                 [reason |-> IF refs = <<>> THEN "Reconciled" ELSE "InvalidReferences",
                  message |-> "none", generation |-> owner.generation]
        BY <2>1, <2>6, <3>3, <3>6
      <3>8. Served'
        BY <1>1, <2>1, <2>4, <3>4, <3>5, <3>6, <3>7 DEF Served
      <3> QED BY <1>1, <2>4, <3>8
    <2> QED BY <2>5, <2>6
  <1>8. ~Finalize /\ ~Unbound /\ ~Adopt /\ ~MissingRole /\ ~ReplaceBinding
        /\ ~EnsureBinding /\ ~Prune /\ ~DeleteBinding /\ ~CallFails
    BY <1>1 DEF Finalize, Unbound, Adopt, MissingRole, ReplaceBinding, EnsureBinding, Prune,
                DeleteBinding, CallFails, Done, GiveUp, locals
  <1> QED BY <1>2, <1>5, <1>6, <1>7, <1>8, PassAlone DEF Worker

\* At rest the cache has the roles that exist and no binding lingers, so what is
\* served is in sync.
LEMMA ServedInSync ==
  ASSUME TypeOK, AtRest, Served
  PROVE  InSync
PROOF
  <1> DEFINE spec  == owner.spec
             some  == Elements(RolesOf(spec)) \intersect clusterRoles
             asked == {NameOf(spec, r) : r \in some}
  <1>1. spec \in Specs /\ cache.clusterRoles = clusterRoles
    BY DEF TypeOK, OwnerVersion, AtRest
  <1>2. \A r \in some : /\ NameOf(spec, r) \in Names
                        /\ Fits(bindings[NameOf(spec, r)], spec, NameOf(spec, r)[3])
    BY <1>1, NameType DEF Served
  <1>3. \A r \in some : LET n == NameOf(spec, r)
                        IN  /\ n \in Owned(bindings)
                            /\ bindings[n].role = r /\ bindings[n].subjects = subjectsFor(spec)
    BY <1>2, NameParts DEF Owned, Fits
  <1>4. \A n \in Owned(bindings) : n \in asked
    <2>1. \A n \in Owned(bindings) : n \in Names /\ bindings[n] # Absent
      BY DEF Owned, IsOwned
    <2>2. \A n \in Owned(bindings) : n \in asked \/ bindings[n].deleting
      BY <1>1 DEF Served
    <2> QED BY <2>1, <2>2 DEF AtRest
  <1>5. \A g \in Grants : g \in Asked(spec)
    <2> SUFFICES ASSUME NEW n \in Owned(bindings)
                 PROVE  [name |-> n, role |-> bindings[n].role, subjects |-> bindings[n].subjects]
                          \in Asked(spec)
      BY DEF Grants
    <2>1. PICK r \in some : n = NameOf(spec, r)
      BY <1>4
    <2> QED BY <1>3, <2>1 DEF Asked
  <1>6. \A g \in Asked(spec) : g \in Grants
    <2> SUFFICES ASSUME NEW r \in some
                 PROVE  [name |-> NameOf(spec, r), role |-> r, subjects |-> subjectsFor(spec)]
                          \in Grants
      BY DEF Asked
    <2> QED BY <1>3 DEF Grants
  <1>7. Grants = Asked(spec)
    BY <1>5, <1>6
  <1> QED BY <1>1, <1>7 DEF Served, InSync

\* No wake-up is lost and no change is forgotten, whatever a pass read from the
\* caches and whatever overtook it, failed or restarted it: a finished pass is not
\* called for again only when the labelled bindings it left are those the owner as it
\* is now asks for, or the status says it was rejected as Invalid (sync and status,
\* clusteraccess.go:97-203, and the watches of Setup, 205-224).
THEOREM NothingForgotten ==
  ASSUME Gentle
  PROVE  Spec => []NothingLost
PROOF
  <1> DEFINE Settled == Faithful /\ Seen /\ Tidy /\ Underway /\ Rested
             Safe    == TypeOK /\ Versions /\ Guard
  <1>1. Init => Safe /\ Settled
    BY TypeInit, VersionsInit, GuardInit, SettledInit
  <1>2. Safe /\ [Next]_vars => Safe'
    BY TypeStep, VersionsStep, GuardStep
  <1>3. Safe /\ TypeOK' /\ Settled /\ [Next]_vars => Settled'
    BY FaithfulStep, SeenStep, TidyStep, UnderwayStep, RestedStep
  <1>4. Safe /\ Settled => NothingLost
    <2> SUFFICES ASSUME Safe, Settled, AtRest
                 PROVE  IF owner.present /\ ~owner.deleting
                          THEN InSync \/ owner.status.ready.message = "invalid"
                          ELSE Owned(bindings) = {}
      BY DEF NothingLost
    <2>1. CASE ~owner.present
      BY <2>1 DEF Guard, Held
    <2>2. CASE owner.present
      <3>1. Steady /\ pc = "idle"
        BY <2>2 DEF AtRest, Steady
      <3>2. CASE owner.deleting
        <4>1. Finalizer \notin owner.finalizers
          BY <3>1, <3>2 DEF Rested
        <4> QED BY <2>2, <3>2, <4>1 DEF Guard, Held
      <3>3. CASE ~owner.deleting
        BY <2>2, <3>1, <3>3, ServedInSync DEF Rested
      <3> QED BY <3>2, <3>3
    <2> QED BY <2>1, <2>2
  <1>5. Safe => TypeOK
    OBVIOUS
  <1> HIDE DEF Settled, Safe
  <1> QED BY <1>1, <1>2, <1>3, <1>4, <1>5, PTL DEF Spec

=============================================================================

----------------------------- MODULE ClusterAccess -----------------------------
(***************************************************************************)
(* The ClusterAccessMapping reconciler (internal/controller/               *)
(* clusteraccess.go) over one ClusterAccessMapping, the API server and the *)
(* informer cache, in the manner of ManagedNamespace: a step is one call   *)
(* or one read that counts later.                                          *)
(*                                                                         *)
(* Its spec is a single access mapping and its bindings are of the         *)
(* cluster. It grants first and prunes once, at the end, so a user kept    *)
(* by a change of the mapping is not cut off in between; and a pass that   *)
(* fails to grant revokes nothing.                                         *)
(***************************************************************************)
EXTENDS AccessMapping, Owners

CONSTANTS
  Owner,          \* the ClusterAccessMapping's name
  Outsiders,      \* subjects no spec grants to
  Refused,        \* roles for which admission refuses to bind
  Disturbances,   \* which kinds of outside events happen
  MaxEdits,       \* bound on what users do to the ClusterAccessMapping
  MaxFaults       \* bound on failures, crashes and other outside events

Kinds == {"create", "edit", "delete", "foreign", "force", "role", "drift", "squat",
          "hold", "fail", "crash", "resync"}

\* The roles sync visits, in order: none for a mapping without subjects.
RolesOf(spec) == IF subjectsFor(spec) = <<>> THEN <<>> ELSE spec.clusterRoles
NameOf(spec, role) == BindingName(Owner, subjectKey(spec), role)
Requested(spec) == {NameOf(spec, r) : r \in Elements(RolesOf(spec))}

Names == UNION {Requested(s) : s \in Specs}
SubjectLists == {Outsiders} \union {subjectsFor(s) : s \in Specs}
Binding == [owned : BOOLEAN, role : Roles, subjects : SubjectLists,
            deleting : BOOLEAN, held : BOOLEAN]
Copies == [owner : OwnerVersion, bindings : [Names -> Binding \union {Absent}],
           clusterRoles : SUBSET Roles]
NewBinding == [owned |-> FALSE, role |-> CHOOSE r \in Roles : TRUE,
               subjects |-> Outsiders, deleting |-> FALSE, held |-> FALSE]

ASSUME MappingsAssumption ==
  /\ Specs # {} /\ Roles # {}
  /\ Specs \subseteq [group : STRING, users : Seq(UserNames), clusterRoles : Seq(Roles)]
ASSUME BoundsAssumption ==
  /\ Finalizer \notin Foreign /\ Disturbances \subseteq Kinds
  /\ MaxEdits \in Nat /\ MaxFaults \in Nat
ASSUME MarkerAssumption == Absent \notin Binding /\ Absent \notin Nat

VARIABLES
  bindings, clusterRoles,   \* the rest of the API server
  news,          \* bindings of which an event with our labels is on the way
  cache,         \* the informer caches
  queued,        \* the owner is in the work queue, or waits there to be retried
  pc,            \* the worker's place in Reconcile, and its locals:
  cam,           \* the object read at the start of the pass
  doomed,        \* listed bindings still to delete
  todo,          \* roles still to visit
  want,          \* names ensured so far
  invalid,       \* the invalid references found
  syncErr,       \* the error sync returned
  gauge,         \* the invalid-references gauge of this owner
  edits, faults  \* outside events so far

server == <<owner, watch, bindings, news, clusterRoles>>
locals == <<cam, doomed, todo, want, invalid, syncErr>>
budget == <<edits, faults>>
vars == <<server, cache, queued, pc, locals, gauge, budget>>

Syncing == {"bindings", "ensure", "prune"}
Places == {"idle", "finalize", "unbind", "release", "adopt", "status"} \union Syncing

Owned(set) == {n \in Names : IsOwned(set[n])}

\* A write to one binding.  Its event carries the old and the new labels, and is
\* not lost to a later one.
WriteBinding(n, new) ==
  /\ bindings' = [bindings EXCEPT ![n] = new]
  /\ news' = IF bindings[n] # new /\ (IsOwned(bindings[n]) \/ IsOwned(new))
               THEN news \union {n} ELSE news

Done(retry) ==
  /\ pc' = "idle" /\ cam' = NoOwner
  /\ doomed' = {} /\ todo' = <<>> /\ want' = {} /\ invalid' = <<>> /\ syncErr' = "none"
  /\ queued' = (queued \/ retry)

GiveUp(error) ==
  /\ pc' = "status" /\ syncErr' = error
  /\ doomed' = {} /\ todo' = <<>> /\ want' = {} /\ invalid' = <<>>
  /\ UNCHANGED <<cam, queued>>
-----------------------------------------------------------------------------
(* Reconcile, and the two ends of an owner's life *)

\* A slip: deletion is not noticed.
FirstStepIgnoringDeletion(o) ==
  IF ~o.present THEN "idle"
  ELSE IF Finalizer \notin o.finalizers THEN "adopt"
  ELSE "bindings"

FirstStep(o) ==
  IF ~o.present THEN "idle"
  ELSE IF o.deleting THEN "finalize"
  ELSE IF Finalizer \notin o.finalizers THEN "adopt"
  ELSE "bindings"

Reconcile ==
  /\ pc = "idle" /\ queued
  /\ queued' = FALSE
  /\ cam' = IF cache.owner.present THEN cache.owner ELSE NoOwner
  /\ pc' = FirstStep(cache.owner)
  /\ todo' = IF pc' = "bindings" THEN RolesOf(cam'.spec) ELSE <<>>
  /\ UNCHANGED <<server, cache, doomed, want, invalid, syncErr, gauge, budget>>

\* A slip: finalizeBindings lists through the cached client.
CachedRemaining == {n \in Owned(cache.bindings) : bindings[n] # Absent}

\* The bindings the live list of finalizeBindings holds.
Remaining == Owned(bindings)

Finalize ==
  /\ pc = "finalize"
  /\ \/ /\ Remaining = {}
        /\ pc' = "release" /\ gauge' = Absent
        /\ UNCHANGED doomed
     \/ /\ Remaining # {}
        /\ pc' = "unbind"
        /\ doomed' = {n \in Remaining : ~bindings[n].deleting}
        /\ UNCHANGED gauge
  /\ UNCHANGED <<server, cache, queued, cam, todo, want, invalid, syncErr, budget>>

Unbound ==
  /\ pc = "unbind" /\ doomed = {}
  /\ Done(TRUE)
  /\ UNCHANGED <<server, cache, gauge, budget>>

PatchAccepted == owner.present /\ owner.rv = cam.rv

Release ==
  /\ pc = "release"
  /\ IF PatchAccepted
       THEN WriteOwner(WithFinalizers(cam.finalizers \ {Finalizer})) /\ Done(FALSE)
       ELSE UNCHANGED <<owner, watch>> /\ Done(TRUE)
  /\ UNCHANGED <<bindings, news, clusterRoles, cache, gauge, budget>>

Adopt ==
  /\ pc = "adopt"
  /\ IF PatchAccepted
       THEN WriteOwner(WithFinalizers(cam.finalizers \union {Finalizer}))
       ELSE UNCHANGED <<owner, watch>>
  /\ Done(TRUE)
  /\ UNCHANGED <<bindings, news, clusterRoles, cache, gauge, budget>>
-----------------------------------------------------------------------------
(* sync: ensure a binding for each role, then prune the others *)

MissingRole ==
  /\ pc = "bindings" /\ todo # <<>> /\ Head(todo) \notin cache.clusterRoles
  /\ invalid' = Append(invalid, Head(todo)) /\ todo' = Tail(todo)
  /\ UNCHANGED <<server, cache, queued, pc, cam, doomed, want, syncErr, gauge, budget>>

\* ensure first deletes a binding of this name with another roleRef; here
\* NotFound is an error.
ReplaceBinding ==
  /\ pc = "bindings" /\ todo # <<>> /\ Head(todo) \in cache.clusterRoles
  /\ LET n     == NameOf(cam.spec, Head(todo))
         taken == cache.bindings[n] # Absent /\ cache.bindings[n].role # Head(todo)
     IN  /\ WriteBinding(n, IF taken THEN Deleted(bindings[n]) ELSE bindings[n])
         /\ \/ /\ taken => bindings[n] # Absent
               /\ pc' = "ensure" /\ UNCHANGED <<locals, queued>>
            \/ taken /\ bindings[n] = Absent /\ GiveUp("failed")
  /\ UNCHANGED <<owner, watch, clusterRoles, cache, gauge, budget>>

\* roleRef is immutable: an update that changes it is invalid.
BindingCall(role) ==
  LET n       == NameOf(cam.spec, role)
      cached  == cache.bindings[n]
      base    == IF cached = Absent THEN NewBinding ELSE cached
      desired == [base EXCEPT !.owned = TRUE, !.role = role, !.subjects = subjectsFor(cam.spec)]
      verdict == IF role \in Refused THEN "failed" ELSE "none"
  IN  CreateOrUpdate(cached, desired, bindings[n], verdict,
                     IF base.role # role THEN "invalid" ELSE verdict)

EnsureBinding ==
  /\ pc = "ensure"
  /\ LET n == NameOf(cam.spec, Head(todo))
     IN  /\ WriteBinding(n, BindingCall(Head(todo)).object)
         /\ \/ /\ BindingCall(Head(todo)).error = "none"
               /\ pc' = "bindings" /\ todo' = Tail(todo) /\ want' = want \union {n}
               /\ UNCHANGED <<cam, doomed, invalid, syncErr, queued>>
            \/ /\ BindingCall(Head(todo)).error # "none"
               /\ GiveUp(BindingCall(Head(todo)).error)
  /\ UNCHANGED <<owner, watch, clusterRoles, cache, gauge, budget>>

\* A slip: nothing of another mapping is looked for.
UnwantedOfThisSpec == {n \in Requested(cam.spec) : IsOwned(cache.bindings[n])} \ want

\* The cached list is selected by the owner's labels alone, so what an earlier
\* spec, or a predecessor of this name, left is in it.
Unwanted == Owned(cache.bindings) \ want

\* A slip: the prune, by the names of the spec, does not wait for the bindings.
PruneEarly ==
  /\ pc = "bindings"
  /\ doomed' = Owned(cache.bindings) \ Requested(cam.spec)
  /\ pc' = "prune" /\ todo' = <<>>
  /\ UNCHANGED <<server, cache, queued, cam, want, invalid, syncErr, gauge, budget>>

Prune ==
  /\ pc = "bindings" /\ todo = <<>>
  /\ doomed' = Unwanted
  /\ pc' = "prune"
  /\ UNCHANGED <<server, cache, queued, cam, todo, want, invalid, syncErr, gauge, budget>>

\* Delete by name alone, for the finalizer and for the prune; NotFound is success.
DeleteBinding ==
  /\ pc \in {"unbind", "prune"}
  /\ \E n \in doomed :
       WriteBinding(n, Deleted(bindings[n])) /\ doomed' = doomed \ {n}
  /\ UNCHANGED <<owner, watch, clusterRoles, cache, queued, pc, cam, todo, want, invalid,
                 syncErr, gauge, budget>>
-----------------------------------------------------------------------------
(* status *)

Reporting == pc = "status" \/ (pc = "prune" /\ doomed = {})
Outcome == Report(cam, invalid, syncErr)
\* A slip: every error is marked terminal.
RetriedNever == FALSE

\* An Invalid is terminal, and so not retried.
Retried == syncErr = "failed"

SetGauge == gauge' = IF syncErr = "none" THEN Len(invalid) ELSE gauge

ReportStatus ==
  /\ Reporting
  /\ SetGauge
  /\ IF owner.present
       THEN /\ WriteOwner([owner EXCEPT !.status = MergePatch(cam.status, Outcome, @)])
            /\ Done(Retried)
       ELSE UNCHANGED <<owner, watch>> /\ Done(TRUE)
  /\ UNCHANGED <<bindings, news, clusterRoles, cache, budget>>

Worker ==
  \/ Reconcile \/ Finalize \/ Unbound \/ Release \/ Adopt
  \/ MissingRole \/ ReplaceBinding \/ EnsureBinding \/ Prune \/ DeleteBinding \/ ReportStatus
-----------------------------------------------------------------------------
(* Watch events, and the handlers of Setup *)

DeliverOwner ==
  /\ \E v \in watch :
       /\ cache' = [cache EXCEPT !.owner = v]
       /\ watch' = {w \in watch : w.rv > v.rv}
  /\ queued' = TRUE
  /\ UNCHANGED <<owner, bindings, news, clusterRoles, pc, locals, gauge, budget>>

DeliverBinding(n) ==
  /\ n \in news \/ cache.bindings[n] # bindings[n]
  /\ cache' = [cache EXCEPT !.bindings = [@ EXCEPT ![n] = bindings[n]]]
  /\ news' = news \ {n} /\ queued' = (queued \/ n \in news)
  /\ UNCHANGED <<owner, watch, bindings, clusterRoles, pc, locals, gauge, budget>>

\* A slip: ClusterRoles are not watched.
noneOfThem == FALSE

all == cache.owner.present

DeliverRole(r) ==
  /\ r \in cache.clusterRoles <=> r \notin clusterRoles
  /\ cache' = [cache EXCEPT !.clusterRoles =
                  IF r \in clusterRoles THEN @ \union {r} ELSE @ \ {r}]
  /\ queued' = (queued \/ all)
  /\ UNCHANGED <<server, pc, locals, gauge, budget>>

Resync ==
  /\ "resync" \in Disturbances /\ cache.owner.present
  /\ queued' = TRUE
  /\ UNCHANGED <<server, cache, pc, locals, gauge, budget>>

Deliver ==
  \/ DeliverOwner \/ Resync
  \/ \E n \in Names : DeliverBinding(n)
  \/ \E r \in Roles : DeliverRole(r)

\* The owner of another finalizer on a binding does its work.
LetGo(n) ==
  /\ bindings[n] # Absent /\ bindings[n].held
  /\ WriteBinding(n, IF bindings[n].deleting THEN Absent ELSE [bindings[n] EXCEPT !.held = FALSE])
  /\ UNCHANGED <<owner, watch, clusterRoles, cache, queued, pc, locals, gauge, budget>>
-----------------------------------------------------------------------------
(* Users, and everything else from outside *)

Edit(kind) ==
  /\ kind \in Disturbances /\ edits < MaxEdits /\ edits' = edits + 1
  /\ UNCHANGED <<bindings, news, clusterRoles, cache, queued, pc, locals, gauge, faults>>

CreateOwner(s) == Edit("create") /\ ~owner.present /\ WriteOwner(Created(s))
EditOwner(s) == Edit("edit") /\ owner.present /\ s # owner.spec /\ WriteOwner(Edited(s))
DeleteOwner == Edit("delete") /\ owner.present /\ ~owner.deleting /\ WriteOwner(Condemned)
AddForeign(f) ==
  /\ Edit("foreign") /\ owner.present /\ ~owner.deleting /\ f \notin owner.finalizers
  /\ WriteOwner(WithFinalizers(owner.finalizers \union {f}))
RemoveForeign(f) ==
  /\ Edit("foreign") /\ owner.present /\ f \in owner.finalizers
  /\ WriteOwner(WithFinalizers(owner.finalizers \ {f}))
ForceRelease ==
  /\ Edit("force") /\ owner.present /\ Finalizer \in owner.finalizers
  /\ WriteOwner(WithFinalizers(owner.finalizers \ {Finalizer}))

Users ==
  \/ \E s \in Specs : CreateOwner(s) \/ EditOwner(s)
  \/ DeleteOwner \/ ForceRelease
  \/ \E f \in Foreign : AddForeign(f) \/ RemoveForeign(f)

Fault(kind) ==
  /\ kind \in Disturbances /\ faults < MaxFaults /\ faults' = faults + 1
  /\ UNCHANGED <<owner, edits>>

\* A call, or a role lookup, fails for a reason that passes.
CallFails ==
  /\ Fault("fail")
  /\ \/ /\ pc \in {"finalize", "unbind", "release", "adopt"}
        /\ Done(TRUE) /\ UNCHANGED gauge
     \/ Reporting /\ SetGauge /\ Done(TRUE)
     \/ pc \in Syncing /\ ~Reporting /\ GiveUp("failed") /\ UNCHANGED gauge
  /\ UNCHANGED <<watch, bindings, news, clusterRoles, cache>>

\* The process restarts: its informers list afresh and enqueue what they find.
Crash ==
  /\ Fault("crash")
  /\ pc' = "idle" /\ cam' = NoOwner
  /\ doomed' = {} /\ todo' = <<>> /\ want' = {} /\ invalid' = <<>> /\ syncErr' = "none"
  /\ gauge' = Absent
  /\ cache' = [owner |-> owner, bindings |-> bindings, clusterRoles |-> clusterRoles]
  /\ watch' = {} /\ news' = {} /\ queued' = owner.present
  /\ UNCHANGED <<bindings, clusterRoles>>

Elsewhere == UNCHANGED <<watch, cache, queued, pc, locals, gauge>>

ToggleRole(r) ==
  /\ Fault("role")
  /\ clusterRoles' = IF r \in clusterRoles THEN clusterRoles \ {r} ELSE clusterRoles \union {r}
  /\ UNCHANGED <<bindings, news>> /\ Elsewhere

\* Someone deletes a binding, changes its subjects, or drops its owner labels.
DriftBinding(n) ==
  /\ Fault("drift") /\ bindings[n] # Absent
  /\ \E new \in {Deleted(bindings[n]), [bindings[n] EXCEPT !.subjects = Outsiders],
                 [bindings[n] EXCEPT !.owned = FALSE]} : WriteBinding(n, new)
  /\ UNCHANGED clusterRoles /\ Elsewhere

\* Someone takes a free name for a binding of their own, to another role, or holds one of ours
\* with a finalizer.
SquatBinding(n, r) ==
  /\ Fault("squat") /\ bindings[n] = Absent /\ r # n[3]
  /\ WriteBinding(n, [NewBinding EXCEPT !.role = r])
  /\ UNCHANGED clusterRoles /\ Elsewhere
HoldBinding(n) ==
  /\ Fault("hold") /\ bindings[n] # Absent /\ ~bindings[n].deleting /\ ~bindings[n].held
  /\ WriteBinding(n, [bindings[n] EXCEPT !.held = TRUE])
  /\ UNCHANGED clusterRoles /\ Elsewhere

Others ==
  \/ CallFails \/ Crash
  \/ \E r \in Roles : ToggleRole(r)
  \/ \E n \in Names : DriftBinding(n) \/ HoldBinding(n) \/ \E r \in Roles : SquatBinding(n, r)
-----------------------------------------------------------------------------
Init ==
  /\ owner = NoOwner /\ watch = {}
  /\ bindings = [n \in Names |-> Absent] /\ news = {}
  /\ clusterRoles = Roles
  /\ cache = [owner |-> owner, bindings |-> bindings, clusterRoles |-> clusterRoles]
  /\ queued = FALSE
  /\ pc = "idle" /\ cam = NoOwner
  /\ doomed = {} /\ todo = <<>> /\ want = {} /\ invalid = <<>> /\ syncErr = "none"
  /\ gauge = Absent
  /\ edits = 0 /\ faults = 0

Next == Worker \/ Deliver \/ (\E n \in Names : LetGo(n)) \/ Users \/ Others

\* As for the other reconciler: the worker, the watches, the resync and the
\* owners of other finalizers go on; users and faults need not.
Fairness ==
  /\ WF_vars(Worker) /\ WF_vars(DeliverOwner) /\ WF_vars(Resync)
  /\ \A n \in Names : WF_vars(DeliverBinding(n)) /\ WF_vars(LetGo(n))
  /\ \A r \in Roles : WF_vars(DeliverRole(r))

Spec == Init /\ [][Next]_vars
FairSpec == Spec /\ Fairness
-----------------------------------------------------------------------------
(* What is to hold *)

\* Every variable keeps the shape of the object or local it stands for, and a
\* pass is where the copy it works on sends it: only a deleting one is finalized,
\* only a held one that is not deleting is synced, and ensure has a role to bind.
TypeOK ==
  /\ owner \in OwnerVersion /\ cam \in OwnerVersion /\ watch \subseteq OwnerVersion
  /\ bindings \in [Names -> Binding \union {Absent}]
  /\ news \subseteq Names /\ clusterRoles \in SUBSET Roles
  /\ cache \in Copies
  /\ queued \in BOOLEAN /\ pc \in Places
  /\ pc \in {"finalize", "unbind", "release"} => cam.deleting
  /\ pc \in Syncing \union {"status"} => ~cam.deleting /\ Finalizer \in cam.finalizers
  /\ pc = "ensure" => todo # <<>>
  /\ doomed \subseteq Names /\ want \subseteq Names
  /\ todo \in Seq(Roles) /\ Elements(todo) \subseteq Elements(RolesOf(cam.spec))
  /\ invalid \in Seq(Roles) /\ syncErr \in Errors
  /\ gauge \in Nat \union {Absent}
  /\ edits \in 0..MaxEdits /\ faults \in 0..MaxFaults

\* "Wait for a later live read to confirm that every grant is actually gone"
\* (clusteraccess.go:68-70): without the finalizer there is no grant.
NoOrphanedGrant ==
  ~(owner.present /\ Finalizer \in owner.finalizers) => Owned(bindings) = {}

\* The abstract promise of GrantLifecycle, for the bindings of the cluster.
Promise == INSTANCE GrantLifecycle WITH
             phase <- Phase, grants <- Owned(bindings)
KeepsPromise == Promise!Spec

Grants == {[name |-> n, role |-> bindings[n].role, subjects |-> bindings[n].subjects] :
             n \in Owned(bindings)}
Asked(spec) == {[name |-> NameOf(spec, r), role |-> r, subjects |-> subjectsFor(spec)] :
                  r \in Elements(RolesOf(spec)) \intersect clusterRoles}

\* refs lists the roles of the sequence that are missing, each in its place.
Lists(refs, roles, existing) ==
  \E at \in [DOMAIN refs -> DOMAIN roles] :
    /\ \A i, j \in DOMAIN refs : i < j => at[i] < at[j]
    /\ \A i \in DOMAIN refs : refs[i] = roles[at[i]]
    /\ {at[i] : i \in DOMAIN refs} = {k \in DOMAIN roles : roles[k] \notin existing}

InSync ==
  LET refs == owner.status.invalidReferences
  IN  /\ Finalizer \in owner.finalizers
      /\ Grants = Asked(owner.spec)
      /\ Lists(refs, RolesOf(owner.spec), clusterRoles)
      /\ gauge = Len(refs)
      /\ owner.status.observedGeneration = owner.generation
      /\ owner.status.ready = [reason |-> IF refs = <<>> THEN "Reconciled" ELSE "InvalidReferences",
                               message |-> "none", generation |-> owner.generation]

\* No wake-up is lost: when no pass runs or is queued, no event is on its way and
\* no deletion waits for another's finalizer, the cluster, the status and the gauge
\* are what the live spec asks for, whatever passes were overtaken, failed or cut
\* short before; or the status says that the last pass was rejected as Invalid.
AtRest ==
  /\ pc = "idle" /\ ~queued /\ watch = {} /\ news = {}
  /\ cache.clusterRoles = clusterRoles
  /\ \A n \in Names : bindings[n] # Absent => ~bindings[n].deleting
NothingLost ==
  AtRest =>
    IF owner.present /\ ~owner.deleting
      THEN InSync \/ owner.status.ready.message = "invalid"
      ELSE Owned(bindings) = {}

\* A subject that keeps a role in a new version of the mapping does not lose it to
\* the pass that works on that version, as its bindings are ensured before any is
\* pruned.  (Somebody may interfere with a binding after the pass ensured it.)
Gives(binding, s, r) ==
  /\ IsOwned(binding) /\ ~binding.deleting
  /\ binding.role = r /\ s \in Elements(binding.subjects)
Reaches(s, r) == \E n \in Names : Gives(bindings[n], s, r)
StillAsked(s, r) ==
  pc # "idle" => /\ ~cam.deleting /\ r \notin Elements(invalid)
                 /\ s \in Elements(subjectsFor(cam.spec)) /\ r \in Elements(RolesOf(cam.spec))
Intact(n) == /\ IsOwned(bindings[n]) /\ ~bindings[n].deleting
             /\ bindings[n].role = n[3] /\ bindings[n].subjects # Outsiders
HandedOver ==
  [][\A s \in UNION {Elements(subjects) : subjects \in SubjectLists}, r \in Roles :
       budget' = budget /\ StillAsked(s, r) /\ Reaches(s, r) /\ (\A n \in want : Intact(n))
       => Reaches(s, r)']_vars

\* "A ClusterAccessMapping recreated under the same name reclaims and clears what
\* its predecessor left behind" (clusteraccess.go:160-164), and one whose grants
\* are not refused ends in sync whatever happened before.
Settles ==
  <>[](/\ owner.present /\ ~owner.deleting
       /\ Elements(RolesOf(owner.spec)) \intersect Refused = {})
    => <>[]InSync

\* A deleted ClusterAccessMapping is released, also when its spec was refused, or
\* a name it asked for is taken.
DeletionCompletes ==
  (owner.present /\ owner.deleting) ~> ~(owner.present /\ Finalizer \in owner.finalizers)
=============================================================================

-------------------------------- MODULE Viewer --------------------------------
(***************************************************************************)
(* What the viewer's page (internal/server/ui/app.js) says of a            *)
(* ManagedNamespace: the verdict of its badge, and who holds which roles.  *)
(* The page fetches an object as some replica's cache holds it, so every   *)
(* version the owner goes through may come up.                             *)
(***************************************************************************)
EXTENDS ManagedNamespace

\* A slip: the condition is taken for the object on screen.
healthOfCondition(o) ==
  IF o.status.ready.reason = "None" THEN "pending"
  ELSE IF o.status.ready.reason # "Reconciled" THEN "bad"
  ELSE "ok"

\* Ready is true for the reason Reconciled alone.
health(o) ==
  LET c == o.status.ready
  IN  IF c.reason = "None" \/ c.generation < o.generation THEN "pending"
      ELSE IF c.reason # "Reconciled" THEN "bad"
      ELSE "ok"

\* A slip: nothing is struck through.
Nothing(o) == {}

invalidRoles(o) == Elements(o.status.invalidReferences)

\* The roles a search for a group or user finds, and those not struck through.
match(ms, subject) ==
  UNION {Elements(am.clusterRoles) : am \in {am \in Elements(ms) :
           IF subject.kind = "Group" THEN am.group = subject.name
                                     ELSE subject.name \in Elements(am.users)}}
Shown(o, subject) == match(o.spec.accessMappings, subject) \ invalidRoles(o)

\* "set exactly one of group or users" (api/v1alpha1/types.go); and a subject is a
\* group or a user, and has a name.
ASSUME SubjectsAssumption ==
  /\ \A s \in Specs : \A am \in Elements(s.accessMappings) : am.group # "" <=> am.users = <<>>
  /\ Elements(Outsiders) \subseteq [kind : {"Group", "User"}, name : STRING \ {""}]
-----------------------------------------------------------------------------
\* "A stale pass is never read as agreement with what is on screen" (app.js:80-82):
\* the verdict turns good, or stays good for another spec, only by the report of
\* a pass that worked on this object's spec and found nothing wrong.
AgreementIsFresh ==
  [][/\ owner'.present /\ health(owner') = "ok"
     /\ ~owner.present \/ health(owner) # "ok" \/ owner'.spec # owner.spec
     => /\ Reporting /\ syncErr = "none" /\ invalid = <<>>
        /\ mns.spec = owner'.spec /\ mns.generation = owner'.generation]_vars

\* "A struck-through ClusterRole is named by the spec but could not be resolved,
\* so it grants nothing" (app.js:254), and the others are granted: so once
\* nothing is under way, and unless the last pass was rejected.
Subjects == UNION {Elements(subjects) : subjects \in SubjectLists}
Holds(subject) == {bindings[k].role : k \in {k \in Granted : subject \in Elements(bindings[k].subjects)}}
ShownIsGranted ==
  Settled /\ owner.present /\ ~owner.deleting /\ ~TurnedDown =>
    \A subject \in Subjects : Shown(owner, subject) = Holds(subject)
=============================================================================

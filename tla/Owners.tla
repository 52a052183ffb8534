-------------------------------- MODULE Owners --------------------------------
(***************************************************************************)
(* The custom resource a reconciler works for, as the API server keeps it: *)
(* its versions, finalizers and status, and the writes that change them.   *)
(* A ManagedNamespace and a ClusterAccessMapping differ in their specs     *)
(* only.                                                                   *)
(*                                                                         *)
(* The resourceVersion is explicit: the finalizer patches are locked on it *)
(* and an object changed and changed back must not pass for the old one.   *)
(***************************************************************************)
EXTENDS Integers, Sequences, CachedClient

CONSTANTS
  Specs,          \* the specs users may apply
  Roles,          \* ClusterRole names
  Foreign         \* finalizers of other controllers on the owner

VARIABLES
  owner,          \* the custom resource; rv also counts its versions
  watch           \* its versions on the way to the cache

Finalizer == "k8s.pliu.dev/binding-cleanup"
Finalizers == {Finalizer} \union Foreign

\* Of the message, the error it tells.
Condition == [reason : {"None", "Reconciled", "SyncFailed", "InvalidReferences"},
              message : Errors, generation : Nat]
Status == [observedGeneration : Nat, invalidReferences : Seq(Roles), ready : Condition]
OwnerVersion == [rv : Nat, present : BOOLEAN, generation : Nat, deleting : BOOLEAN,
                 finalizers : SUBSET Finalizers, spec : Specs, status : Status]

NoStatus == [observedGeneration |-> 0, invalidReferences |-> <<>>,
             ready |-> [reason |-> "None", message |-> "none", generation |-> 0]]
NoOwner == [rv |-> 0, present |-> FALSE, generation |-> 0, deleting |-> FALSE,
            finalizers |-> {}, spec |-> CHOOSE s \in Specs : TRUE, status |-> NoStatus]

\* A write to the owner: a new version, and its watch event.  A write that
\* changes nothing makes no version.
WriteOwner(new) ==
  IF [new EXCEPT !.rv = owner.rv] = owner
    THEN UNCHANGED <<owner, watch>>
    ELSE /\ owner' = [new EXCEPT !.rv = owner.rv + 1]
         /\ watch' = watch \union {[new EXCEPT !.rv = owner.rv + 1]}

\* The owner with other finalizers: it is gone once it is deleting and has none.
WithFinalizers(fs) ==
  [owner EXCEPT !.finalizers = fs, !.present = ~(owner.deleting /\ fs = {})]

\* Where it stands in GrantLifecycle: the finalizer is the hold.
Phase ==
  IF ~(owner.present /\ Finalizer \in owner.finalizers) THEN "free"
  ELSE IF owner.deleting THEN "ending"
  ELSE "held"

\* What users make of it: a new object, a new spec, a deletion that waits for
\* the finalizers.
Created(s) == [NoOwner EXCEPT !.present = TRUE, !.generation = 1, !.spec = s]
Edited(s) == [owner EXCEPT !.spec = s, !.generation = @ + 1]
Condemned ==
  IF owner.finalizers = {}
    THEN [owner EXCEPT !.present = FALSE]
    ELSE [owner EXCEPT !.deleting = TRUE, !.generation = @ + 1]

\* status: the outcome of a pass on the version it read.  A failed pass leaves
\* all but the condition as it was read.
Report(read, refs, error) ==
  LET reason == IF error # "none" THEN "SyncFailed"
                ELSE IF refs # <<>> THEN "InvalidReferences"
                ELSE "Reconciled"
      ready  == [reason |-> reason, message |-> error, generation |-> read.generation]
  IN  IF error # "none"
        THEN [read.status EXCEPT !.ready = ready]
        ELSE [observedGeneration |-> read.generation, invalidReferences |-> refs,
              ready |-> ready]

\* client.MergeFrom: the fields equal to the base are not in the patch.
MergePatch(base, new, current) ==
  LET field(b, n, c) == IF n # b THEN n ELSE c
  IN  [observedGeneration |->
         field(base.observedGeneration, new.observedGeneration, current.observedGeneration),
       invalidReferences |->
         field(base.invalidReferences, new.invalidReferences, current.invalidReferences),
       ready |-> field(base.ready, new.ready, current.ready)]

-----------------------------------------------------------------------------
(* What it owns *)

IsOwned(obj) == obj # Absent /\ obj.owned

\* Deletion of a binding waits for the finalizers of others on it, if any.
Deleted(binding) ==
  IF binding # Absent /\ binding.held THEN [binding EXCEPT !.deleting = TRUE] ELSE Absent
=============================================================================

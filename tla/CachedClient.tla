---------------------------- MODULE CachedClient ----------------------------
(***************************************************************************)
(* What one call of the manager's client does. Reads are answered from the *)
(* informer cache and writes go to the API server, so a CreateOrUpdate     *)
(* decides on the cached copy and is judged against the live one.          *)
(*                                                                         *)
(* This is code of controller-runtime and of the API server, modelled from *)
(* how internal/controller uses it. The resourceVersion of an Update is    *)
(* represented by the copy it was read with: an Update is accepted when    *)
(* the live object still equals that copy. An object changed and changed   *)
(* back in between is accepted here and refused there; the refusal is a    *)
(* failed call, which the reconcilers' specifications allow anyway.        *)
(***************************************************************************)
CONSTANT Absent        \* no object under this name

Errors == {"none", "failed", "invalid"}

\* controllerutil.CreateOrUpdate: cached is what Get returned, desired what the
\* mutate function made of it, live what the API server holds, and creation and
\* update are its verdicts on the new object.  The update of an object that is
\* gone, or that moved on, fails before it is validated.
CreateOrUpdate(cached, desired, live, creation, update) ==
  LET error == IF cached = desired THEN "none"
               ELSE IF cached = Absent
                      THEN IF creation = "none" /\ live # Absent THEN "failed" ELSE creation
               ELSE IF live = cached THEN update ELSE "failed"
  IN  [error  |-> error,
       object |-> IF error = "none" /\ cached # desired THEN desired ELSE live]
=============================================================================

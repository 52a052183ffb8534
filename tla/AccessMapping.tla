---------------------------- MODULE AccessMapping ----------------------------
(***************************************************************************)
(* The pure part of an access mapping, as internal/controller/shared.go    *)
(* and internal/core/core.go compute it: the subjects a mapping grants to, *)
(* the key of that subject set, and the name of the generated binding.     *)
(*                                                                         *)
(* Names are strings or model values, compared and never taken apart.      *)
(* core.Hash is taken to be injective (SHA-256 cut to 20 hex digits), so a *)
(* digest is represented by the value that was hashed.                     *)
(***************************************************************************)
EXTENDS Integers, Sequences, FiniteSets

CONSTANT UserNames    \* the users that mappings may name

Elements(seq) == {seq[i] : i \in DOMAIN seq}

\* Sorted and compacted, "reduced to the set it denotes": a set of users has one
\* list, and which order that is makes no difference.
ListOf == [set \in SUBSET UserNames |->
             CHOOSE list \in [1..Cardinality(set) -> set] : Elements(list) = set]
normalizedUsers(users) == ListOf[Elements(users)]

\* A slip: the users are bound as written, though named as a set.
subjectsAsWritten(am) ==
  IF am.group # ""
    THEN << [kind |-> "Group", name |-> am.group] >>
    ELSE [i \in DOMAIN am.users |-> [kind |-> "User", name |-> am.users[i]]]

subjectsFor(am) ==
  IF am.group # ""
    THEN << [kind |-> "Group", name |-> am.group] >>
    ELSE LET users == normalizedUsers(am.users)
         IN  [i \in DOMAIN users |-> [kind |-> "User", name |-> users[i]]]

subjectKey(am) ==
  IF am.group # "" THEN <<"g", am.group>> ELSE <<"u", normalizedUsers(am.users)>>

BindingName(owner, subject, role) == <<owner, subject, role>>
=============================================================================

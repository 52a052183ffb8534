-------------------------- MODULE NamespaceMetadata --------------------------
(***************************************************************************)
(* The labels and annotations of the managed Namespace, and the inventory  *)
(* annotation in which the controller remembers which keys it requested,   *)
(* as the mutate function of ensureNamespace computes them.                *)
(*                                                                         *)
(* Labels and annotations are functions from keys to values. The pair of   *)
(* owner labels (managed-by and owner-name) is the one key OwnerKey whose  *)
(* value is the owner's name. The inventory annotation is kept apart from  *)
(* the other annotations: it is Unset, Malformed when it is not JSON, and  *)
(* otherwise the record of key sets it decodes to.                         *)
(***************************************************************************)
CONSTANTS OwnerKey,      \* the owner labels
          InventoryKey,  \* core.AnnotationManagedMetadata
          Unset,         \* no inventory annotation
          Malformed      \* an inventory annotation that cannot be decoded

\* Maps: f over g has the keys of both, and the values of f where it has any.
Single(key, value) == [k \in {key} |-> value]
Over(f, g) == [k \in DOMAIN f \union DOMAIN g |-> IF k \in DOMAIN f THEN f[k] ELSE g[k]]
Without(f, keys) == [k \in DOMAIN f \ keys |-> f[k]]

NoInventory == [labels |-> {}, annotations |-> {}]

namespaceMetadataInventory(ns) ==
  IF ns.inventory = Unset THEN NoInventory ELSE ns.inventory

\* Slips: the inventory key is inventoried; the keys of the last pass stay; the
\* labels are replaced.
MutateListingItself(ns, owner, spec) ==
  LET previous == namespaceMetadataInventory(ns)
  IN  [ns EXCEPT
        !.labels      = Over(Over(Single(OwnerKey, owner), spec.labels),
                              Without(ns.labels, previous.labels)),
        !.annotations = Over(Without(spec.annotations, {InventoryKey}),
                              Without(ns.annotations, previous.annotations)),
        !.inventory   = [labels      |-> DOMAIN spec.labels,
                         annotations |-> DOMAIN spec.annotations]]
MutateKeeping(ns, owner, spec) ==
  [ns EXCEPT !.labels      = Over(Over(Single(OwnerKey, owner), spec.labels), ns.labels),
             !.annotations = Over(Without(spec.annotations, {InventoryKey}), ns.annotations),
             !.inventory   = [labels      |-> DOMAIN spec.labels,
                              annotations |-> DOMAIN spec.annotations \ {InventoryKey}]]
MutateReplacing(ns, owner, spec) ==
  [ns EXCEPT !.labels      = Over(Single(OwnerKey, owner), spec.labels),
             !.annotations = Without(spec.annotations, {InventoryKey}),
             !.inventory   = [labels      |-> DOMAIN spec.labels,
                              annotations |-> DOMAIN spec.annotations \ {InventoryKey}]]

\* The namespace the mutate function makes of ns for the given spec; ns holds
\* a decodable inventory.  Keys the last pass requested go, the requested ones
\* come, the owner labels win, and the inventory key is never inventoried.
MutateNamespace(ns, owner, spec) ==
  LET previous == namespaceMetadataInventory(ns)
  IN  [ns EXCEPT
        !.labels      = Over(Over(Single(OwnerKey, owner), spec.labels),
                              Without(ns.labels, previous.labels)),
        !.annotations = Over(Without(spec.annotations, {InventoryKey}),
                              Without(ns.annotations, previous.annotations)),
        !.inventory   = [labels      |-> DOMAIN spec.labels,
                         annotations |-> DOMAIN spec.annotations \ {InventoryKey}]]
=============================================================================

------------------------------- MODULE GoMaps -------------------------------
(* Go maps that a loop fills, entry by entry. *)
EXTENDS Integers, Sequences

\* Later entries replace earlier ones: of the indices with this key the last.
LastWith(keys, key) ==
  CHOOSE i \in DOMAIN keys :
    keys[i] = key /\ \A j \in DOMAIN keys : keys[j] = key => j <= i

\* The map after map[keys[i]] = values[i] for each i in turn.
Filled(keys, values) ==
  [key \in {keys[i] : i \in DOMAIN keys} |-> values[LastWith(keys, key)]]

=============================================================================

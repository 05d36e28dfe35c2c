------------------------------ MODULE FixedMap ------------------------------
(***************************************************************************)
(* gmsol_utils::fixed_map!: a map in an array of fixed length, its entries *)
(* in the order of their keys.  A map is the sequence of the entries in    *)
(* use, data[..count]; keys are numbers.                                   *)
(***************************************************************************)
EXTENDS Integers, Sequences, SequencesExt, FiniteSetsExt

EmptyMap == << >>
Entry(k, v) == [key |-> k, value |-> v]

\* binary_search: where k is, or where it is to be inserted.
Slot(map, k) == 1 + Cardinality({i \in DOMAIN map : map[i].key < k})
Present(map, k) == /\ Slot(map, k) \in DOMAIN map
                   /\ map[Slot(map, k)].key = k

Get(map, k) == map[Slot(map, k)].value
Set(map, k, v) == [map EXCEPT ![Slot(map, k)].value = v]
Keys(map) == {map[i].key : i \in DOMAIN map}

\* insert_with_options(.., new = true) into an array of length len.
Insertable(map, k, len) == ~Present(map, k) /\ Len(map) < len

Inserted(map, k, v) == InsertAt(map, Slot(map, k), Entry(k, v))

\* remove shifts data[i + 1] to data[i] up to i = count - 1, which is one
\* past the array, and panics, when the array is full.
Removable(map, k, len) == Present(map, k) /\ Len(map) < len

Removed(map, k) == RemoveAt(map, Slot(map, k))
=============================================================================

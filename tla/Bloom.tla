------------------------------- MODULE Bloom --------------------------------
(***************************************************************************)
(* The Bloom filter of the discovery manifests                             *)
(* (packages/core/src/bloom.ts).  A filter is the set of its bits that are *)
(* set; what bloomHash returns for an item and a seed is a parameter, so   *)
(* that items may collide in any way.                                      *)
(***************************************************************************)
EXTENDS Integers

CONSTANTS
    Items,
    Seeds,          \* 0 .. BLOOM_HASHES - 1 in the code
    Bits,           \* 0 .. BLOOM_BITS - 1
    Hash            \* Hash[x][i]: the bit of item x for seed i

ASSUME HashAssumption == Hash \in [Items -> [Seeds -> Bits]]

Filter == SUBSET Bits
NoBits == {}

\* Mutant of Positions: the loop over the seeds stops early.
PositionsShort(x) == {Hash[x][i] : i \in Seeds \ {0}}

\* The bits that add sets for an item.
Positions(x) == {Hash[x][i] : i \in Seeds}

Add(filter, x)  == filter \cup Positions(x)
Has(filter, x)  == \A i \in Seeds : Hash[x][i] \in filter
Merge(f, g)     == f \cup g
From(items)     == UNION {Positions(x) : x \in items}

=============================================================================

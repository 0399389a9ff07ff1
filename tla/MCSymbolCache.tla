--------------------------- MODULE MCSymbolCache ---------------------------
(* Small instances of SymbolCache for TLC.                                 *)
EXTENDS SymbolCache

CONSTANTS r1, r2, l1, l2, c1, c2, c3

(* The third change is another replica's; every lookup is the first's.     *)
MCReplicaOf == [x \in Lookups \cup Changes |-> IF x = c3 THEN r2 ELSE r1]

MCSymmetry == Permutations(Lookups)

MCKeys == {<<1, "f">>, <<1, "g">>, <<2, "f">>}

(* All are about one file; what the cache holds of the other two is that   *)
(* they are missing.                                                       *)
MCTargets == {[c \in Changes |-> <<1, "f">>]}

(* The second map alone is over the bound of 3 bytes.                      *)
Sizes == [c \in Changes |-> IF c = c2 THEN 4 ELSE 1]
=============================================================================

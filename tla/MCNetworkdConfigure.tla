------------------------- MODULE MCNetworkdConfigure -------------------------
(* Model-checking instance of NetworkdConfigure: two links, two keys,    *)
(* two values, three requests.                                            *)
EXTENDS NetworkdConfigure

CONSTANTS k1, k2, a, b

(* Request bodies: one sets only k1, one sets only k2 (disjoint updates,  *)
(* as in the spec's concurrency test), one sets both to other values.     *)
MCFields == {[k \in Keys |-> IF k = k1 THEN a ELSE NoVal],
             [k \in Keys |-> IF k = k2 THEN b ELSE NoVal],
             [k \in Keys |-> b]}

MCReqChoices == {[link |-> l, fields |-> f] : l \in Links, f \in MCFields}

(* A unit file an administrator wrote and networkd loaded: k1 = b. *)
MCInitDocs == {[kv |-> [k \in Keys |-> IF k = k1 THEN b ELSE NoVal], vlan |-> <<>>]}
=============================================================================

-------------------------- MODULE MCNetworkdNetDev --------------------------
(* Model-checking instance of NetworkdNetDev: one link, one configure    *)
(* request, two netdev requests for one VLAN name and one bridge.         *)
EXTENDS NetworkdNetDev

CONSTANTS k1, k2, a, b, l1, v1, br

MCFields == {[k \in Keys |-> IF k = k1 THEN a ELSE NoVal]}

MCReqChoices == {[link |-> l, fields |-> f] : l \in Links, f \in MCFields}

MCInitDocs == {[kv |-> [k \in Keys |-> NoVal], vlan |-> <<>>]}

(* vlan v1 with a valid Id, with an out-of-range Id, without a Kind, a   *)
(* nameless netdev, and a bridge br; all on link l1.                      *)
MCDevChoices ==
    {[name |-> v1, kind |-> "vlan", attrs |-> TRUE, id |-> i, link |-> l1] : i \in {"ok", "bad"}}
    \cup {[name |-> v1, kind |-> NoVal, attrs |-> TRUE, id |-> "ok", link |-> l1],
          [name |-> NoVal, kind |-> "vlan", attrs |-> TRUE, id |-> "ok", link |-> l1],
          [name |-> br, kind |-> "bridge", attrs |-> TRUE, id |-> "none", link |-> l1]}
=============================================================================

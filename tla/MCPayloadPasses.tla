--------------------------- MODULE MCPayloadPasses ---------------------------
EXTENDS PayloadPasses

(***************************************************************************)
(* Every body of at most MostNodes nodes over the ids PostedIds, ids       *)
(* repeated or not; nothing, a parent, or a parent and a grandparent above *)
(* its root.                                                               *)
(***************************************************************************)
PostedIds == {1, 2, 3, 4}
MostNodes == 4

Nestings(n) == {under \in [1..n -> 0..(n - 1)] :
                  \A k \in 1..n : under[k] < k /\ (under[k] = 0 <=> k = 1)}

MCBodies ==
  UNION {{[id |-> ids,
           type |-> [k \in 1..n |-> IF k = 1 THEN "management_group" ELSE "resource_group"],
           under |-> under] : ids \in [1..n -> PostedIds], under \in Nestings(n)} :
           n \in 1..MostNodes}

MCAncestries == {{}, {AncestorRow(9, 1)}, {AncestorRow(9, 1), AncestorRow(8, 2)}}

=============================================================================

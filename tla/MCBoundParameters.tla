-------------------------- MODULE MCBoundParameters --------------------------
(***************************************************************************)
(* Shapes on either side of the limit.                                     *)
(***************************************************************************)
EXTENDS BoundParameters

Stars == {<<1, leaves>> : leaves \in 10915..10930}

Chains == {[d \in 1..length |-> 1] : length \in {1, 2, 147, 148} \union (204..212)}

Bushes ==
  {[d \in 1..levels |-> IF d = 1 THEN 1 ELSE leaves] :
     levels \in {3, 9}, leaves \in {240, 260, 1450, 2450}}

MCWidths == Stars \union Chains \union Bushes

=============================================================================

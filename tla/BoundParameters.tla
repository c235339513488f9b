--------------------------- MODULE BoundParameters ---------------------------
(***************************************************************************)
(* How many parameters the statements of one POST bind.  Each states all   *)
(* its rows or ids at once ("the batch has to land as a unit"), and the    *)
(* wire protocol carries at most 65535 parameters in one statement.        *)
(*                                                                         *)
(* Which nodes are posted does not matter here: width[d] is how many of    *)
(* them are on level d, the posted root being level 1.                     *)
(***************************************************************************)
EXTENDS Naturals, Sequences

CONSTANTS
  Widths,         \* the shapes that are posted
  AncestorCounts, \* how many stored nodes are above the posted root
  DroppedCounts,  \* how many stored nodes the payload drops
  MostParameters

ASSUME MostParametersAssumption == MostParameters \in Nat \ {0}

ASSUME WidthsAssumption == \A w \in Widths : w \in Seq(Nat) /\ Len(w) > 0 /\ w[1] = 1

ASSUME CountsAssumption == AncestorCounts \subseteq Nat /\ DroppedCounts \subseteq Nat

VARIABLES width, above, dropped, statement

vars == <<width, above, dropped, statement>>

(***************************************************************************)
(* How many there are on all levels together.                              *)
(***************************************************************************)
Total(counts) ==
  LET sum[n \in 0..Len(counts)] == IF n = 0 THEN 0 ELSE sum[n - 1] + counts[n]
  IN  sum[Len(counts)]

NodeCount == Total(width)

(***************************************************************************)
(* closure_rows: a node on level d has d - 1 ancestors in the payload,     *)
(* every captured one, and its self-row.                                   *)
(***************************************************************************)
ClosureRowCount == Total([d \in DOMAIN width |-> width[d] * (d + above)])

BoundPerNode ==  \* mistake: replace_closure also states the type of the descendant
  [fetch_descendant_ids |-> NodeCount, upsert_nodes |-> 3 * NodeCount, delete_nodes |-> dropped,
   delete_closure |-> NodeCount, insert_closure |-> 4 * ClosureRowCount]

Bound ==
  [fetch_descendant_ids |-> NodeCount,            \* IN (one for each id)
   upsert_nodes         |-> 3 * NodeCount,        \* id, type, parent_id
   delete_nodes         |-> dropped,              \* IN (one for each id)
   delete_closure       |-> NodeCount,            \* IN (one for each id)
   insert_closure       |-> 3 * ClosureRowCount]  \* ancestor_id, descendant_id, depth

Following ==
  [fetch_descendant_ids |-> "upsert_nodes",
   upsert_nodes         |-> IF dropped > 0 THEN "delete_nodes" ELSE "delete_closure",
   delete_nodes         |-> "delete_closure",
   delete_closure       |-> "insert_closure",
   insert_closure       |-> "stored"]

Init ==
  /\ width \in Widths
  /\ above \in AncestorCounts
  /\ dropped \in DroppedCounts
  /\ statement = "fetch_descendant_ids"

(***************************************************************************)
(* A statement that binds too many is an OperationalError, and a 500.      *)
(***************************************************************************)
Execute ==
  /\ statement \in DOMAIN Bound
  /\ statement' = IF Bound[statement] =< MostParameters THEN Following[statement] ELSE "refused"
  /\ UNCHANGED <<width, above, dropped>>

Next == Execute

Spec == Init /\ [][Next]_vars

(***************************************************************************)
(* How large a write is safe: only one that drops more nodes than there    *)
(* are parameters, or whose nodes times the depth at which the deepest of  *)
(* them comes to be stored exceed a third of that, can be refused.         *)
(***************************************************************************)
OnlyLargeWritesAreRefused ==
  statement = "refused" =>
    \/ dropped > MostParameters
    \/ 3 * NodeCount * (Len(width) + above) > MostParameters

(***************************************************************************)
(* "no 500 for *any* reachable input" (tests/test_error_contract.py): no   *)
(* payload that is well-formed is answered 500.                            *)
(***************************************************************************)
NoServerError == statement /= "refused"

=============================================================================

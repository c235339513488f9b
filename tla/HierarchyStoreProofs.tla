-------------------------- MODULE HierarchyStoreProofs --------------------------
(***************************************************************************)
(* Proofs about HierarchyStore, for any clients, ids, types and payloads:  *)
(* the stored graph stays a forest, a POST does what it promises, and      *)
(* posting back what was read does nothing.                                *)
(***************************************************************************)
EXTENDS HierarchyStore, HierarchyProofs

-----------------------------------------------------------------------------
(* Descendants. *)

(***************************************************************************)
(* The descendants of some ids are the least set of stored ids that holds  *)
(* the stored ones among them and every child of its members.              *)
(***************************************************************************)
LEMMA DescendantsAre ==
  ASSUME NEW S, NEW ids
  PROVE  /\ Descendants(S, ids) \subseteq DOMAIN S
         /\ ids \intersect DOMAIN S \subseteq Descendants(S, ids)
         /\ IsClosedDownward(S, Descendants(S, ids))
BY DEF Descendants, IsClosedDownward

LEMMA DescendantsAreLeast ==
  ASSUME NEW S, NEW ids, NEW U, ids \intersect DOMAIN S \subseteq U, IsClosedDownward(S, U)
  PROVE  Descendants(S, ids) \subseteq U
<1> DEFINE V == U \intersect DOMAIN S
<1>1. V \in SUBSET DOMAIN S /\ ids \intersect DOMAIN S \subseteq V
  OBVIOUS
<1>2. IsClosedDownward(S, V)
  BY DEF IsClosedDownward
<1> HIDE DEF V
<1>3. Descendants(S, ids) \subseteq V
  BY <1>1, <1>2 DEF Descendants
<1> QED
  BY <1>3 DEF V

LEMMA DescendantsGrow ==
  ASSUME NEW S, NEW ids, NEW others, ids \intersect DOMAIN S \subseteq Descendants(S, others)
  PROVE  Descendants(S, ids) \subseteq Descendants(S, others)
BY DescendantsAre, DescendantsAreLeast

-----------------------------------------------------------------------------
(* Forests. *)

IsForest(S) ==
  \A id \in DOMAIN S :
    /\ S[id].parent_id \in DOMAIN S \union {NoParent}
    /\ S[id].parent_id \notin Descendants(S, {id})

(***************************************************************************)
(* Before the write: the payload hangs, by its root, from something the    *)
(* write neither touches nor drops.                                        *)
(***************************************************************************)
LEMMA RootHangsFromUntouched ==
  ASSUME NEW S \in NodeTables, IsForest(S), NEW p, IsFlattened(p), ~WouldFormCycle(S, p),
         p.root \in DOMAIN S
  PROVE  S[p.root].parent_id \notin Descendants(S, PayloadIds(p)) \union PayloadIds(p)
<1> DEFINE above == S[p.root].parent_id
           others == PayloadIds(p) \ {p.root}
           U == Descendants(S, {p.root}) \union Descendants(S, others)
<1>1. p.root \in PayloadIds(p) /\ PayloadIds(p) \subseteq NodeIds
  BY PayloadShape
<1>2. above \notin Descendants(S, {p.root})
  BY DEF IsForest
<1>3. above \notin Descendants(S, others)
  BY DescendantsAre DEF IsClosedDownward, WouldFormCycle
<1>4. PayloadIds(p) \intersect DOMAIN S \subseteq U
  BY <1>1, DescendantsAre
<1>5. IsClosedDownward(S, U)
  BY DescendantsAre DEF IsClosedDownward
<1>6. Descendants(S, PayloadIds(p)) \subseteq U
  BY <1>4, <1>5, DescendantsAreLeast
<1>7. above \in DOMAIN S \union {NoParent}
  BY DEF IsForest
<1>8. above \notin PayloadIds(p)
  BY <1>1, <1>2, <1>3, <1>4, <1>7, NoParentAssumption
<1> QED
  BY <1>2, <1>3, <1>6, <1>8

(***************************************************************************)
(* The table after the write.                                              *)
(***************************************************************************)
IsApplied(T, S, p) ==
  /\ T \in NodeTables
  /\ DOMAIN T = (DOMAIN S \ Descendants(S, PayloadIds(p))) \union PayloadIds(p)
  /\ \A id \in DOMAIN T \ PayloadIds(p) : T[id] = S[id]
  /\ \A id \in PayloadIds(p) : T[id].type = p.nodes[id].type
  /\ \A id \in PayloadIds(p) \ {p.root} : T[id].parent_id = p.nodes[id].parent_id
  /\ T[p.root].parent_id = IF p.root \in DOMAIN S THEN S[p.root].parent_id ELSE NoParent

LEMMA AppliedTableIs ==
  ASSUME NEW S \in NodeTables, NEW p, IsFlattened(p)
  PROVE  IsApplied(Apply(S, p), S, p)
<1> DEFINE T == Apply(S, p)
           P == PayloadIds(p)
           parent(id) == IF id /= p.root THEN p.nodes[id].parent_id
                         ELSE IF id \in DOMAIN S THEN S[id].parent_id ELSE NoParent
<1>1. /\ T = [id \in DOMAIN T |-> T[id]]
      /\ DOMAIN T = (DOMAIN S \ Dropped(S, p)) \union P
      /\ \A id \in DOMAIN T \ P : T[id] = S[id]
      /\ \A id \in P : T[id] = [type |-> p.nodes[id].type, parent_id |-> parent(id)]
  BY DEF Apply
<1>2. DOMAIN T = (DOMAIN S \ Descendants(S, P)) \union P
  BY <1>1 DEF Dropped
<1>3. /\ DOMAIN S \subseteq NodeIds /\ \A id \in DOMAIN S : S[id] \in NodeData
      /\ P \subseteq NodeIds /\ \A id \in P : p.nodes[id].type \in NodeTypes
      /\ \A id \in P \ {p.root} : p.nodes[id].parent_id \in P
  BY NodeTableIs, PayloadShape
<1> HIDE DEF T, P
<1>4. \A id \in P : parent(id) \in ParentIds
  BY <1>3 DEF ParentIds, NodeData
<1> HIDE DEF parent
<1>5. \A id \in DOMAIN T : T[id] \in NodeData
  BY <1>1, <1>2, <1>3, <1>4 DEF NodeData
<1>6. T \in NodeTables
  BY <1>1, <1>2, <1>3, <1>5, NodeTableIs
<1>7. /\ p.root \in P
      /\ \A id \in P : T[id].type = p.nodes[id].type /\ T[id].parent_id = parent(id)
  BY <1>1, PayloadShape DEF P
<1> QED
  BY <1>1, <1>2, <1>6, <1>7 DEF T, P, parent, IsApplied

(***************************************************************************)
(* After it nothing hangs from the payload but the payload: it is whole,   *)
(* and what is left of the rest hangs together without it.                 *)
(***************************************************************************)
LEMMA PayloadStandsAlone ==
  ASSUME NEW S \in NodeTables, IsForest(S), NEW p, IsFlattened(p), ~WouldFormCycle(S, p)
  PROVE  LET T == Apply(S, p)
         IN  /\ \A id \in DOMAIN T \ PayloadIds(p) :
                  /\ id \in DOMAIN S \ Descendants(S, PayloadIds(p))
                  /\ T[id].parent_id = S[id].parent_id
                  /\ \/ T[id].parent_id = NoParent
                     \/ T[id].parent_id \in DOMAIN T \ PayloadIds(p)
             /\ \A id \in PayloadIds(p) \ {p.root} :
                  /\ T[id].parent_id = p.nodes[id].parent_id
                  /\ T[id].parent_id \in PayloadIds(p)
             /\ \/ T[p.root].parent_id = NoParent
                \/ /\ p.root \in DOMAIN S /\ T[p.root].parent_id = S[p.root].parent_id
                   /\ T[p.root].parent_id \in DOMAIN T \ PayloadIds(p)
<1> DEFINE T == Apply(S, p)
           D == Descendants(S, PayloadIds(p))
<1>1. /\ DOMAIN T = (DOMAIN S \ D) \union PayloadIds(p)
      /\ \A id \in DOMAIN T \ PayloadIds(p) : T[id] = S[id]
      /\ \A id \in PayloadIds(p) \ {p.root} : T[id].parent_id = p.nodes[id].parent_id
      /\ T[p.root].parent_id = IF p.root \in DOMAIN S THEN S[p.root].parent_id ELSE NoParent
  <2>1. IsApplied(T, S, p)
    BY AppliedTableIs
  <2> HIDE DEF T
  <2> QED
    BY <2>1 DEF IsApplied
<1>2. PayloadIds(p) \intersect DOMAIN S \subseteq D /\ IsClosedDownward(S, D)
  BY DescendantsAre
<1>3. \A id \in DOMAIN S : S[id].parent_id \in DOMAIN S \union {NoParent}
  BY DEF IsForest
<1> HIDE DEF T, D
<1>4. ASSUME NEW id \in DOMAIN T \ PayloadIds(p)
      PROVE  /\ id \in DOMAIN S \ D
             /\ T[id].parent_id = S[id].parent_id
             /\ T[id].parent_id = NoParent \/ T[id].parent_id \in DOMAIN T \ PayloadIds(p)
  <2>1. id \in DOMAIN S \ D /\ T[id].parent_id = S[id].parent_id
    BY <1>1
  <2>2. S[id].parent_id \notin D
    BY <1>2, <2>1 DEF IsClosedDownward
  <2> QED
    BY <1>1, <1>2, <1>3, <2>1, <2>2
<1>5. ASSUME NEW id \in PayloadIds(p) \ {p.root}
      PROVE  T[id].parent_id = p.nodes[id].parent_id /\ T[id].parent_id \in PayloadIds(p)
  BY <1>1, PayloadShape
<1>6. \/ T[p.root].parent_id = NoParent
      \/ /\ p.root \in DOMAIN S /\ T[p.root].parent_id = S[p.root].parent_id
         /\ T[p.root].parent_id \in DOMAIN T \ PayloadIds(p)
  <2>1. p.root \in PayloadIds(p)
    BY PayloadShape
  <2>2. CASE p.root \notin DOMAIN S
    BY <1>1, <2>1, <2>2
  <2>3. CASE p.root \in DOMAIN S
    <3>1. S[p.root].parent_id \notin D \union PayloadIds(p)
      BY <2>3, RootHangsFromUntouched DEF D
    <3> QED
      BY <1>1, <1>3, <2>1, <2>3, <3>1
  <2> QED
    BY <2>2, <2>3
<1> QED
  BY <1>4, <1>5, <1>6 DEF T, D

(***************************************************************************)
(* Nothing applied is above itself: for each id, a set that holds it and   *)
(* every child of its members, and not its parent.                         *)
(***************************************************************************)
LEMMA ApplyKeepsForest ==
  ASSUME NEW S \in NodeTables, IsForest(S), NEW p, IsFlattened(p), ~WouldFormCycle(S, p)
  PROVE  IsForest(Apply(S, p))
<1> DEFINE T == Apply(S, p)
           P == PayloadIds(p)
           deep(x) == p.nodes[x].depth
<1>1. /\ \A id \in DOMAIN T \ P :
           /\ id \in DOMAIN S \ Descendants(S, P)
           /\ T[id].parent_id = S[id].parent_id
           /\ T[id].parent_id = NoParent \/ T[id].parent_id \in DOMAIN T \ P
      /\ \A id \in P \ {p.root} :
           T[id].parent_id = p.nodes[id].parent_id /\ T[id].parent_id \in P
      /\ \/ T[p.root].parent_id = NoParent
         \/ /\ p.root \in DOMAIN S /\ T[p.root].parent_id = S[p.root].parent_id
            /\ T[p.root].parent_id \in DOMAIN T \ P
  BY PayloadStandsAlone
<1>2. DOMAIN T = (DOMAIN S \ Descendants(S, P)) \union P
  <2>1. IsApplied(T, S, p)
    BY AppliedTableIs
  <2> HIDE DEF T
  <2> QED
    BY <2>1 DEF IsApplied
<1>3. p.root \in P /\ P \subseteq NodeIds /\ DOMAIN S \subseteq NodeIds
  BY PayloadShape, NodeTableIs
<1>4. \A id \in P : deep(id) \in Nat /\ (id /= p.root => deep(id) = deep(p.nodes[id].parent_id) + 1)
  BY PayloadShape
<1> HIDE DEF T, P, deep
<1>5. \A id \in DOMAIN T : T[id].parent_id \in DOMAIN T \union {NoParent}
  BY <1>1, <1>2
<1>6. ASSUME NEW id \in DOMAIN T, NEW U, id \in U, IsClosedDownward(T, U), T[id].parent_id \notin U
      PROVE  T[id].parent_id \notin Descendants(T, {id})
  BY <1>6, DescendantsAreLeast
<1>7. ASSUME NEW id \in P \ {p.root} PROVE T[id].parent_id \notin Descendants(T, {id})
  <2> DEFINE U == {x \in P : deep(x) >= deep(id)}
  <2>1. T[id].parent_id \notin U
    BY <1>1, <1>4
  <2>2. ASSUME NEW x \in DOMAIN T, T[x].parent_id \in U PROVE x \in U
    <3>1. x \in P \ {p.root}
      BY <1>1, <1>3, <2>2, NoParentAssumption
    <3>2. deep(x) = deep(T[x].parent_id) + 1 /\ deep(x) \in Nat
      BY <1>1, <1>4, <3>1
    <3> QED
      BY <1>4, <2>2, <3>1, <3>2
  <2>3. IsClosedDownward(T, U)
    BY <2>2 DEF IsClosedDownward
  <2>4. id \in U /\ id \in DOMAIN T
    BY <1>2, <1>4
  <2> QED
    BY <1>6, <2>1, <2>3, <2>4
<1>8. T[p.root].parent_id \notin Descendants(T, {p.root})
  <2>1. IsClosedDownward(T, P)
    BY <1>1, <1>3, NoParentAssumption DEF IsClosedDownward
  <2>2. T[p.root].parent_id \notin P
    BY <1>1, <1>3, NoParentAssumption
  <2> QED
    BY <1>2, <1>3, <1>6, <2>1, <2>2
<1>9. ASSUME NEW id \in DOMAIN T \ P PROVE T[id].parent_id \notin Descendants(T, {id})
  <2> DEFINE V == Descendants(S, {id})
             U == (V \ P) \union (IF T[p.root].parent_id \in V THEN P ELSE {})
  <2>1. id \in DOMAIN S /\ id \in V /\ V \subseteq DOMAIN S /\ IsClosedDownward(S, V)
    BY <1>1, DescendantsAre
  <2>2. S[id].parent_id \notin V
    BY <2>1 DEF IsForest
  <2>3. T[id].parent_id \notin U
    BY <1>1, <1>3, <2>2, NoParentAssumption
  <2>4. ASSUME NEW x \in DOMAIN T, T[x].parent_id \in U PROVE x \in U
    <3>1. CASE x \notin P
      <4>1. T[x].parent_id \in V /\ x \in DOMAIN S /\ T[x].parent_id = S[x].parent_id
        BY <1>1, <1>3, <2>1, <2>4, <3>1, NoParentAssumption
      <4> QED
        BY <2>1, <3>1, <4>1 DEF IsClosedDownward
    <3>2. CASE x \in P \ {p.root}
      BY <1>1, <2>4, <3>2
    <3>3. CASE x = p.root
      BY <1>1, <1>3, <2>4, <3>3, NoParentAssumption
    <3> QED
      BY <3>1, <3>2, <3>3
  <2>5. IsClosedDownward(T, U)
    BY <2>4 DEF IsClosedDownward
  <2>6. id \in U
    BY <2>1
  <2> QED
    BY <1>6, <2>3, <2>5, <2>6
<1> QED
  BY <1>2, <1>5, <1>7, <1>8, <1>9 DEF IsForest, T, P

-----------------------------------------------------------------------------
(* What is stored after a write. *)

(***************************************************************************)
(* Under the root of an applied payload is the payload: nothing else hangs *)
(* from it, and all of it hangs from the root, level by level.             *)
(***************************************************************************)
LEMMA PayloadIsBelowItsRoot ==
  ASSUME NEW S \in NodeTables, IsForest(S), NEW p, IsFlattened(p), ~WouldFormCycle(S, p)
  PROVE  Descendants(Apply(S, p), {p.root}) = PayloadIds(p)
<1> DEFINE T == Apply(S, p)
           P == PayloadIds(p)
           D == Descendants(T, {p.root})
           deep(id) == p.nodes[id].depth
           levels == {n \in Nat : \A id \in P : deep(id) = n => id \in D}
<1>1. P \subseteq DOMAIN T
  <2>1. IsApplied(T, S, p)
    BY AppliedTableIs
  <2> HIDE DEF T
  <2> QED
    BY <2>1 DEF IsApplied
<1>2. /\ \A id \in DOMAIN T \ P : T[id].parent_id \notin P
      /\ \A id \in P \ {p.root} : T[id].parent_id = p.nodes[id].parent_id
  <2>1. P \subseteq NodeIds
    BY PayloadShape
  <2> QED
    BY <2>1, PayloadStandsAlone, NoParentAssumption
<1>3. /\ p.root \in P
      /\ \A id \in P : deep(id) \in Nat
      /\ \A id \in P : deep(id) = 0 <=> id = p.root
      /\ \A id \in P \ {p.root} : p.nodes[id].parent_id \in P
      /\ \A id \in P \ {p.root} : deep(id) = deep(p.nodes[id].parent_id) + 1
  BY PayloadShape
<1>4. p.root \in D /\ D \subseteq DOMAIN T /\ IsClosedDownward(T, D)
  <2> HIDE DEF T, P
  <2> QED
    BY <1>1, <1>3, DescendantsAre
<1> HIDE DEF T, P, deep
<1>5. D \subseteq P
  <2>1. P \intersect DOMAIN T = P /\ IsClosedDownward(T, P)
    BY <1>1, <1>2 DEF IsClosedDownward
  <2> QED
    BY <1>3, <2>1, DescendantsAreLeast
<1> HIDE DEF D
<1>6. 0 \in levels
  BY <1>3, <1>4
<1>7. ASSUME NEW n \in levels PROVE n + 1 \in levels
  <2> SUFFICES ASSUME NEW id \in P, deep(id) = n + 1 PROVE id \in D
    OBVIOUS
  <2>1. id /= p.root
    BY <1>3
  <2>2. p.nodes[id].parent_id \in P /\ deep(p.nodes[id].parent_id) = n
    BY <1>3, <2>1
  <2>3. p.nodes[id].parent_id \in D
    BY <2>2
  <2> QED
    BY <1>1, <1>2, <1>4, <2>1, <2>3 DEF IsClosedDownward
<1>8. levels = Nat
  <2> HIDE DEF levels
  <2> QED
    BY <1>6, <1>7, SetInduction DEF levels
<1>9. P \subseteq D
  BY <1>3, <1>8
<1> QED
  BY <1>5, <1>9 DEF D, T, P

LEMMA PostedTreeIsStored ==
  ASSUME NEW S \in NodeTables, IsForest(S), NEW p, IsFlattened(p), ~WouldFormCycle(S, p)
  PROVE  Subtree(Apply(S, p), p.root) = PostedTree(p)
<1> DEFINE T == Apply(S, p)
           P == PayloadIds(p)
<1>1. Descendants(T, {p.root}) = P
  BY PayloadIsBelowItsRoot
<1>2. /\ T \in NodeTables /\ P \subseteq DOMAIN T
      /\ \A id \in P : T[id].type = p.nodes[id].type
      /\ \A id \in P \ {p.root} : T[id].parent_id = p.nodes[id].parent_id
  <2>1. IsApplied(T, S, p)
    BY AppliedTableIs
  <2> HIDE DEF T
  <2> QED
    BY <2>1 DEF IsApplied
<1>3. p.nodes[p.root].parent_id = NoParent
  BY PayloadShape
<1> HIDE DEF T, P
<1>4. \A id \in P : T[id] \in NodeData
  BY <1>2, NodeTableIs
<1>5. ASSUME NEW id \in P
      PROVE  (IF id = p.root THEN [T[id] EXCEPT !.parent_id = NoParent] ELSE T[id])
               = [type |-> p.nodes[id].type, parent_id |-> p.nodes[id].parent_id]
  <2>1. T[id] = [type |-> T[id].type, parent_id |-> T[id].parent_id]
    BY <1>4 DEF NodeData
  <2>2. CASE id = p.root
    BY <1>2, <1>3, <1>4, <2>1, <2>2 DEF NodeData
  <2>3. CASE id /= p.root
    BY <1>2, <2>1, <2>3
  <2> QED
    BY <2>2, <2>3
<1> QED
  BY <1>1, <1>5 DEF Subtree, PostedTree, T, P

(***************************************************************************)
(* Of what the payload does not mention, what was beneath it is gone, and  *)
(* the rest is as it was.                                                  *)
(***************************************************************************)
LEMMA OnlyTheMentionedChanges ==
  ASSUME NEW S \in NodeTables, NEW p, IsFlattened(p), NEW id \in DOMAIN S \ PayloadIds(p)
  PROVE  IF id \in Descendants(S, PayloadIds(p))
         THEN id \notin DOMAIN Apply(S, p)
         ELSE id \in DOMAIN Apply(S, p) /\ Apply(S, p)[id] = S[id]
<1> DEFINE T == Apply(S, p)
<1>1. /\ DOMAIN T = (DOMAIN S \ Descendants(S, PayloadIds(p))) \union PayloadIds(p)
      /\ \A x \in DOMAIN T \ PayloadIds(p) : T[x] = S[x]
  <2>1. IsApplied(T, S, p)
    BY AppliedTableIs
  <2> HIDE DEF T
  <2> QED
    BY <2>1 DEF IsApplied
<1> HIDE DEF T
<1> QED
  BY <1>1 DEF T

(***************************************************************************)
(* A payload that is what is stored under its root: no cycle, no change.   *)
(***************************************************************************)
LEMMA RepostIsIdle ==
  ASSUME NEW S \in NodeTables, IsForest(S), NEW p, IsFlattened(p),
         p.root \in DOMAIN S, PostedTree(p) = Subtree(S, p.root)
  PROVE  ~WouldFormCycle(S, p) /\ Apply(S, p) = S
<1> DEFINE T == Apply(S, p)
           P == PayloadIds(p)
<1>1. P = Descendants(S, {p.root})
  <2>1. PostedTree(p).nodes = Subtree(S, p.root).nodes
    OBVIOUS
  <2>2. DOMAIN PostedTree(p).nodes = P
    BY DEF PostedTree
  <2>3. DOMAIN Subtree(S, p.root).nodes = Descendants(S, {p.root})
    BY DEF Subtree
  <2> HIDE DEF P
  <2> QED
    BY <2>1, <2>2, <2>3
<1>2. P \subseteq DOMAIN S /\ IsClosedDownward(S, P) /\ p.root \in P
  BY <1>1, DescendantsAre, PayloadShape
<1>3. S[p.root].parent_id \notin P
  BY <1>1 DEF IsForest
<1>4. ~WouldFormCycle(S, p)
  <2>1. IsClosedDownward(S, P \ {p.root})
    BY <1>2, <1>3 DEF IsClosedDownward
  <2>2. Descendants(S, P \ {p.root}) \subseteq P \ {p.root}
    BY <2>1, DescendantsAreLeast
  <2> QED
    BY <2>2 DEF WouldFormCycle
<1>5. Descendants(S, P) = P
  BY <1>2, DescendantsAre, DescendantsAreLeast
<1>6. /\ T \in NodeTables /\ DOMAIN T = (DOMAIN S \ Descendants(S, P)) \union P
      /\ \A id \in DOMAIN T \ P : T[id] = S[id]
      /\ \A id \in P : T[id].type = p.nodes[id].type
      /\ \A id \in P \ {p.root} : T[id].parent_id = p.nodes[id].parent_id
      /\ T[p.root].parent_id = IF p.root \in DOMAIN S THEN S[p.root].parent_id ELSE NoParent
  <2>1. IsApplied(T, S, p)
    BY AppliedTableIs
  <2> HIDE DEF T
  <2> QED
    BY <2>1 DEF IsApplied
<1>7. ASSUME NEW id \in P
      PROVE  /\ p.nodes[id].type = S[id].type
             /\ id /= p.root => p.nodes[id].parent_id = S[id].parent_id
  <2>1. PostedTree(p).nodes[id] = [type |-> p.nodes[id].type, parent_id |-> p.nodes[id].parent_id]
    BY DEF PostedTree
  <2>2. Subtree(S, p.root).nodes[id] =
          IF id = p.root THEN [S[id] EXCEPT !.parent_id = NoParent] ELSE S[id]
    BY <1>1 DEF Subtree
  <2>3. S[id] \in NodeData
    BY <1>2, NodeTableIs
  <2>4. PostedTree(p).nodes[id].type = S[id].type
    BY <2>2, <2>3 DEF NodeData
  <2>5. id /= p.root => PostedTree(p).nodes[id].parent_id = S[id].parent_id
    BY <2>2
  <2> QED
    BY <2>1, <2>4, <2>5
<1> HIDE DEF T, P
<1>8. DOMAIN T = DOMAIN S
  BY <1>2, <1>5, <1>6
<1>9. ASSUME NEW id \in DOMAIN S PROVE T[id] = S[id]
  <2>1. CASE id \notin P
    BY <1>6, <1>8, <2>1
  <2>2. CASE id \in P
    <3>1. T[id].type = S[id].type /\ T[id].parent_id = S[id].parent_id
      BY <1>2, <1>6, <1>7, <2>2
    <3>2. T[id] \in NodeData /\ S[id] \in NodeData
      BY <1>6, <1>8, NodeTableIs
    <3> QED
      BY <3>1, <3>2 DEF NodeData
  <2> QED
    BY <2>1, <2>2
<1>10. T = S
  <2>1. T = [id \in DOMAIN T |-> T[id]] /\ S = [id \in DOMAIN S |-> S[id]]
    BY <1>6, NodeTableIs
  <2> QED
    BY <1>8, <1>9, <2>1
<1> QED
  BY <1>4, <1>10 DEF T

-----------------------------------------------------------------------------
(* Requests and answers. *)

LEMMA RequestsDiffer ==
  /\ NoRequest.method = "none"
  /\ \A p : PostRequest(p).method = "POST" /\ PostRequest(p).payload = p
  /\ \A id : GetRequest(id).method = "GET" /\ GetRequest(id).id = id
BY DEF NoRequest, PostRequest, GetRequest

LEMMA StatusOfAnswers ==
  /\ NotFound.status = 404 /\ RepeatedId.status = 409 /\ Cycle.status = 409
  /\ Unavailable.status = 500 /\ NoAnswer.status = 0
  /\ \A tree : Success(tree).status = 200
BY DEF NotFound, RepeatedId, Cycle, Unavailable, NoAnswer, Failure, Success

LEMMA TreesAre ==
  ASSUME NEW S \in NodeTables, NEW root \in NodeIds, root \in DOMAIN S
  PROVE  Subtree(S, root) \in Trees
<1> DEFINE D == Descendants(S, {root})
           tree == [id \in D |-> IF id = root THEN [S[id] EXCEPT !.parent_id = NoParent] ELSE S[id]]
<1>1. D \subseteq DOMAIN S /\ root \in D
  BY DescendantsAre
<1>2. DOMAIN S \subseteq NodeIds /\ \A id \in DOMAIN S : S[id] \in NodeData
  BY NodeTableIs
<1> HIDE DEF D
<1>3. \A id \in D : tree[id] \in NodeData
  BY <1>1, <1>2 DEF NodeData, ParentIds
<1>4. tree = [id \in DOMAIN tree |-> tree[id]] /\ DOMAIN tree = D
  OBVIOUS
<1> HIDE DEF tree
<1>5. tree \in NodeTables
  BY <1>1, <1>2, <1>3, <1>4, NodeTableIs
<1>6. [root |-> root, nodes |-> tree] \in Trees
  BY <1>1, <1>4, <1>5 DEF Trees
<1> QED
  BY <1>6 DEF Subtree, tree, D

(***************************************************************************)
(* What a client waits for is a request, and its payload a flattened one   *)
(* unless it repeats an id.                                                *)
(***************************************************************************)
LEMMA WaitingForPost ==
  ASSUME TypeOK, NEW c \in Clients, request[c].method = "POST"
  PROVE  /\ request[c] = PostRequest(request[c].payload)
         /\ request[c].payload.repeats \/ IsFlattened(request[c].payload)
<1>1. request[c] \in Requests
  BY RequestsDiffer DEF TypeOK
<1>2. PICK p \in Payloads : request[c] = PostRequest(p)
  BY <1>1, RequestsDiffer DEF Requests
<1> QED
  BY <1>2, RequestsDiffer, PayloadsAssumption

-----------------------------------------------------------------------------
(* The inductive invariant: TypeOK and StoredIsForest. *)

LEMMA ForestIs == StoredIsForest <=> IsForest(stored)
BY DEF StoredIsForest, IsForest

(***************************************************************************)
(* The one action that changes what is stored.                             *)
(***************************************************************************)
LEMMA ApplyPostKeeps ==
  ASSUME TypeOK, StoredIsForest, NEW c \in Clients, ApplyPost(c)
  PROVE  /\ stored' = Apply(stored, request[c].payload)
         /\ request[c].payload.root \in NodeIds \intersect DOMAIN stored'
         /\ stored' \in NodeTables
         /\ StoredIsForest'
<1> DEFINE p == request[c].payload
<1>1. request[c].method = "POST" /\ ~p.repeats /\ stored' = Apply(stored, p) /\ ~WouldFormCycle(stored, p)
  BY DEF ApplyPost, IsWaiting
<1>2. IsFlattened(p)
  BY <1>1, WaitingForPost
<1>3. stored \in NodeTables /\ IsForest(stored)
  BY ForestIs DEF TypeOK
<1> HIDE DEF p
<1>4. IsForest(stored')
  BY <1>1, <1>2, <1>3, ApplyKeepsForest
<1>5. stored' \in NodeTables /\ p.root \in NodeIds \intersect DOMAIN stored'
  <2>1. IsApplied(stored', stored, p)
    BY <1>1, <1>2, <1>3, AppliedTableIs
  <2>2. p.root \in PayloadIds(p) /\ PayloadIds(p) \subseteq NodeIds
    BY <1>2, PayloadShape
  <2> QED
    BY <2>1, <2>2 DEF IsApplied
<1> QED
  BY <1>1, <1>4, <1>5 DEF p, StoredIsForest, IsForest

LEMMA TellKeepsTypes ==
  ASSUME TypeOK, NEW c \in Clients, NEW reply \in Answers, Tell(c, reply), stored' \in NodeTables
  PROVE  TypeOK'
BY DEF TypeOK, Tell

LEMMA StepKeeps ==
  ASSUME TypeOK, StoredIsForest, Next
  PROVE  TypeOK' /\ StoredIsForest'
<1> DEFINE Quiet == stored' = stored
<1>1. ASSUME Quiet PROVE StoredIsForest' /\ stored' \in NodeTables
  BY <1>1 DEF StoredIsForest, TypeOK
<1>2. {NotFound, RepeatedId, Cycle, Unavailable} \subseteq Answers
  BY DEF Answers
<1>3. \A tree \in Trees : Success(tree) \in Answers
  BY DEF Answers
<1>4. ASSUME NEW c \in Clients, Send(c) PROVE TypeOK' /\ StoredIsForest'
  BY <1>1, <1>4 DEF Send, TypeOK
<1>5. ASSUME NEW c \in Clients, RefusePost(c) PROVE TypeOK' /\ StoredIsForest'
  BY <1>1, <1>2, <1>5, TellKeepsTypes DEF RefusePost
<1>6. ASSUME NEW c \in Clients, StorePost(c) PROVE TypeOK' /\ StoredIsForest'
  <2>1. /\ request[c].payload.root \in NodeIds \intersect DOMAIN stored'
        /\ stored' \in NodeTables /\ StoredIsForest'
    BY <1>6, ApplyPostKeeps DEF StorePost
  <2>2. Success(Subtree(stored', request[c].payload.root)) \in Answers
    BY <1>3, <2>1, TreesAre
  <2> QED
    BY <1>6, <2>1, <2>2, TellKeepsTypes DEF StorePost
<1>7. ASSUME NEW c \in Clients, LeavePostInDoubt(c) PROVE TypeOK' /\ StoredIsForest'
  BY <1>2, <1>7, ApplyPostKeeps, TellKeepsTypes DEF LeavePostInDoubt
<1>8. ASSUME NEW c \in Clients, AnswerGet(c) PROVE TypeOK' /\ StoredIsForest'
  <2>1. PICK id \in NodeIds : request[c] = GetRequest(id)
    BY <1>8, RequestsDiffer DEF AnswerGet, IsWaiting, TypeOK, Requests
  <2>2. request[c].id \in NodeIds
    BY <2>1, RequestsDiffer
  <2>3. request[c].id \in DOMAIN stored => Success(Subtree(stored, request[c].id)) \in Answers
    BY <1>3, <2>2, TreesAre DEF TypeOK
  <2> QED
    BY <1>1, <1>2, <1>8, <2>3, TellKeepsTypes DEF AnswerGet
<1>9. ASSUME NEW c \in Clients, FailRequest(c) PROVE TypeOK' /\ StoredIsForest'
  BY <1>1, <1>2, <1>9, TellKeepsTypes DEF FailRequest
<1>10. ASSUME NEW c \in Clients, Receive(c) PROVE TypeOK' /\ StoredIsForest'
  BY <1>1, <1>10 DEF Receive, TypeOK
<1>11. ASSUME Crash PROVE TypeOK' /\ StoredIsForest'
  BY <1>1, <1>11 DEF Crash, TypeOK
<1> QED
  BY <1>4, <1>5, <1>6, <1>7, <1>8, <1>9, <1>10, <1>11 DEF Next

LEMMA StoreInvariant == Spec => [](TypeOK /\ StoredIsForest)
<1>1. Init => TypeOK /\ StoredIsForest
  BY NodeTableIs DEF Init, TypeOK, StoredIsForest
<1>2. TypeOK /\ StoredIsForest /\ [Next]_vars => (TypeOK /\ StoredIsForest)'
  BY StepKeeps DEF vars, TypeOK, StoredIsForest
<1> QED
  BY <1>1, <1>2, PTL DEF Spec

(***************************************************************************)
(* Every variable keeps its type; every tree that is answered is one.      *)
(***************************************************************************)
THEOREM TypesAreKept == Spec => []TypeOK
BY StoreInvariant, PTL

(***************************************************************************)
(* The stored graph is a forest, whatever is posted on top of what: the    *)
(* one cycle check is enough.                                              *)
(***************************************************************************)
THEOREM ForestIsKept == Spec => []StoredIsForest
BY StoreInvariant, PTL

-----------------------------------------------------------------------------
(* What a step may do. *)

(***************************************************************************)
(* A client's answer comes from its own request.                           *)
(***************************************************************************)
Answered(c) ==
  RefusePost(c) \/ StorePost(c) \/ LeavePostInDoubt(c) \/ AnswerGet(c) \/ FailRequest(c)

LEMMA TellsNobodyElse ==
  ASSUME TypeOK, NEW d, NEW reply, Tell(d, reply), NEW c \in Clients, answer'[c] /= answer[c]
  PROVE  d = c /\ answer'[c] = reply
BY DEF TypeOK, Tell

LEMMA AnswersComeFrom ==
  ASSUME TypeOK, [Next]_vars, NEW c \in Clients, answer'[c] /= answer[c]
  PROVE  \/ Answered(c)
         \/ stored' = stored /\ answer'[c] = NoAnswer
<1>1. Next
  BY DEF vars
<1>2. CASE Crash
  BY <1>2 DEF Crash
<1>3. ASSUME NEW d \in Clients, Receive(d) PROVE stored' = stored /\ answer'[c] = NoAnswer
  BY <1>3 DEF Receive, TypeOK
<1>4. ASSUME NEW d \in Clients, Send(d) PROVE FALSE
  BY <1>4 DEF Send
<1>5. ASSUME NEW d \in Clients, Answered(d) PROVE d = c
  BY <1>5, TellsNobodyElse
     DEF Answered, RefusePost, StorePost, LeavePostInDoubt, AnswerGet, FailRequest
<1> QED
  BY <1>1, <1>2, <1>3, <1>4, <1>5 DEF Next, Answered

LEMMA StepStoresPosted ==
  ASSUME TypeOK, StoredIsForest, [Next]_vars, NEW c \in Clients,
         request[c].method = "POST", answer'[c] /= answer[c],
         stored' /= stored \/ answer'[c].status = 200
  PROVE  LET p == request[c].payload
         IN  /\ Subtree(stored', p.root) = PostedTree(p)
             /\ \A id \in DOMAIN stored \ PayloadIds(p) :
                  IF id \in Descendants(stored, PayloadIds(p))
                  THEN id \notin DOMAIN stored'
                  ELSE id \in DOMAIN stored' /\ stored'[id] = stored[id]
<1> DEFINE p == request[c].payload
<1>1. Answered(c)
  BY AnswersComeFrom, StatusOfAnswers
<1>2. ASSUME RefusePost(c) PROVE FALSE
  BY <1>2, TellsNobodyElse, StatusOfAnswers DEF RefusePost
<1>3. ~AnswerGet(c)
  BY DEF AnswerGet, IsWaiting
<1>4. ASSUME FailRequest(c) PROVE FALSE
  BY <1>4, TellsNobodyElse, StatusOfAnswers DEF FailRequest
<1>5. ApplyPost(c)
  BY <1>1, <1>2, <1>3, <1>4 DEF Answered, StorePost, LeavePostInDoubt
<1>6. ~p.repeats /\ stored' = Apply(stored, p) /\ ~WouldFormCycle(stored, p)
  BY <1>5 DEF ApplyPost
<1>7. IsFlattened(p) /\ stored \in NodeTables /\ IsForest(stored)
  BY <1>6, WaitingForPost, ForestIs DEF TypeOK
<1> HIDE DEF p
<1>8. Subtree(stored', p.root) = PostedTree(p)
  BY <1>6, <1>7, PostedTreeIsStored
<1>9. \A id \in DOMAIN stored \ PayloadIds(p) :
        IF id \in Descendants(stored, PayloadIds(p))
        THEN id \notin DOMAIN stored'
        ELSE id \in DOMAIN stored' /\ stored'[id] = stored[id]
  BY <1>6, <1>7, OnlyTheMentionedChanges
<1> QED
  BY <1>8, <1>9 DEF p

(***************************************************************************)
(* "The payload is authoritative for the entire subtree under every node   *)
(* it mentions", and for nothing else.                                     *)
(***************************************************************************)
THEOREM PostsDoAsPromised == Spec => PostedIsStored
<1>1. TypeOK /\ StoredIsForest /\ [Next]_vars => [\A c \in Clients : StoresThePosted(c)]_vars
  BY StepStoresPosted DEF StoresThePosted
<1> QED
  BY <1>1, StoreInvariant, PTL DEF Spec, PostedIsStored

LEMMA StepRepostsIdly ==
  ASSUME TypeOK, StoredIsForest, [Next]_vars, NEW c \in Clients,
         request[c].method = "POST", ~request[c].payload.repeats,
         request[c].payload.root \in DOMAIN stored,
         PostedTree(request[c].payload) = Subtree(stored, request[c].payload.root),
         answer[c] = NoAnswer, answer'[c] /= NoAnswer
  PROVE  /\ stored' = stored
         /\ answer'[c] \in {Success(PostedTree(request[c].payload)), Unavailable}
<1> DEFINE p == request[c].payload
<1>1. IsFlattened(p) /\ stored \in NodeTables /\ IsForest(stored)
  BY WaitingForPost, ForestIs DEF TypeOK
<1>2. ~WouldFormCycle(stored, p) /\ Apply(stored, p) = stored
  BY <1>1, RepostIsIdle
<1>3. Answered(c)
  BY AnswersComeFrom
<1>4. ~RefusePost(c) /\ ~AnswerGet(c)
  BY <1>2 DEF RefusePost, AnswerGet, IsWaiting
<1>5. CASE StorePost(c)
  <2>1. stored' = stored
    BY <1>2, <1>5 DEF StorePost, ApplyPost
  <2>2. answer'[c] = Success(Subtree(stored', p.root))
    BY <1>5, TellsNobodyElse DEF StorePost
  <2> QED
    BY <2>1, <2>2
<1>6. CASE LeavePostInDoubt(c)
  BY <1>2, <1>6, TellsNobodyElse DEF LeavePostInDoubt, ApplyPost
<1>7. CASE FailRequest(c)
  BY <1>7, TellsNobodyElse DEF FailRequest
<1> QED
  BY <1>3, <1>4, <1>5, <1>6, <1>7 DEF Answered

(***************************************************************************)
(* Whoever posts back what is stored, because it was read or because an    *)
(* answer was lost, changes nothing and is not refused.                    *)
(***************************************************************************)
THEOREM RepostsChangeNothing == Spec => RepostChangesNothing
<1>1. TypeOK /\ StoredIsForest /\ [Next]_vars => [\A c \in Clients : IgnoresTheReposted(c)]_vars
  BY StepRepostsIdly DEF IgnoresTheReposted
<1> QED
  BY <1>1, StoreInvariant, PTL DEF Spec, RepostChangesNothing

=============================================================================

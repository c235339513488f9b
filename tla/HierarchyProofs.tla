--------------------------- MODULE HierarchyProofs ---------------------------
(***************************************************************************)
(* Lemmas about the pure half: what closure_rows computes for any payload, *)
(* what agreeing tables look like, and that the statements of a write take *)
(* agreeing tables to agreeing tables without ever being refused.          *)
(***************************************************************************)
EXTENDS PostgresTables, TLAPS, WellFoundedInduction, FiniteSetTheorems

-----------------------------------------------------------------------------
(* Induction on distances. *)

LEMMA NatOrderIsWellFounded ==
  IsWellFoundedOn({pair \in Nat \X Nat : pair[1] < pair[2]}, Nat)
BY NatLessThanWellFounded DEF OpToRel

(***************************************************************************)
(* A set of naturals that holds 0 and the successor of each of its members *)
(* is all of Nat.                                                          *)
(***************************************************************************)
LEMMA SetInduction ==
  ASSUME NEW T \in SUBSET Nat, 0 \in T, \A n \in T : n + 1 \in T
  PROVE  T = Nat
<1> DEFINE R == {pair \in Nat \X Nat : pair[1] < pair[2]}
<1>1. SUFFICES ASSUME Nat \ T /= {} PROVE FALSE
  OBVIOUS
<1>2. IsWellFoundedOn(R, Nat)
  BY NatOrderIsWellFounded
<1> HIDE DEF R
<1>3. PICK least \in Nat \ T : \A n \in Nat \ T : <<n, least>> \notin R
  BY <1>1, <1>2, WFMin
<1>4. \A n \in Nat \ T : ~(n < least)
  BY <1>3 DEF R
<1>5. least - 1 \in T
  BY <1>3, <1>4
<1> QED
  BY <1>3, <1>5

-----------------------------------------------------------------------------
(* Payloads. *)

(***************************************************************************)
(* The root of a payload is its one node at depth 0, and depths are the    *)
(* distances to it.                                                        *)
(***************************************************************************)
LEMMA PayloadShape ==
  ASSUME NEW p, IsFlattened(p)
  PROVE  /\ PayloadIds(p) \subseteq NodeIds
         /\ p.root \in PayloadIds(p)
         /\ p.nodes[p.root].parent_id = NoParent
         /\ p.nodes[p.root].depth = 0
         /\ \A id \in PayloadIds(p) :
              /\ p.nodes[id].type \in NodeTypes
              /\ p.nodes[id].depth \in Nat
              /\ p.nodes[id].depth = 0 <=> id = p.root
              /\ p.nodes[id].parent_id = NoParent <=> id = p.root
              /\ id /= p.root =>
                   /\ p.nodes[id].parent_id \in PayloadIds(p)
                   /\ p.nodes[id].depth = p.nodes[p.nodes[id].parent_id].depth + 1
<1>1. \A id \in PayloadIds(p) : p.nodes[id] \in [type : NodeTypes, parent_id : ParentIds, depth : Nat]
  BY DEF IsFlattened
<1>2. \A id \in PayloadIds(p) : id /= p.root =>
        /\ p.nodes[id].parent_id \in PayloadIds(p)
        /\ p.nodes[id].depth = p.nodes[p.nodes[id].parent_id].depth + 1
  BY DEF IsFlattened
<1>3. p.root \in PayloadIds(p) /\ p.nodes[p.root].parent_id = NoParent /\ p.nodes[p.root].depth = 0
  BY DEF IsFlattened
<1>4. PayloadIds(p) \subseteq NodeIds
  BY DEF IsFlattened
<1>5. \A id \in PayloadIds(p) : p.nodes[id].depth \in Nat /\ p.nodes[id].type \in NodeTypes
  BY <1>1
<1>6. \A id \in PayloadIds(p) : p.nodes[id].depth = 0 <=> id = p.root
  BY <1>2, <1>3, <1>5
<1>7. \A id \in PayloadIds(p) : p.nodes[id].parent_id = NoParent <=> id = p.root
  BY <1>2, <1>3, <1>4, NoParentAssumption
<1> QED
  BY <1>2, <1>3, <1>4, <1>5, <1>6, <1>7

(***************************************************************************)
(* A chain of length n from one payload node up to another.                *)
(***************************************************************************)
Chains(p, id, ancestor_id, n) ==
  {chain \in [0..n -> PayloadIds(p)] :
     /\ chain[0] = id
     /\ chain[n] = ancestor_id
     /\ \A k \in 0..n : k < n => p.nodes[chain[k]].parent_id = chain[k + 1]}

(***************************************************************************)
(* The recursion of AncestorsWithinPayload has a solution, the rows that   *)
(* chains reach, and so it satisfies its own equation.                     *)
(***************************************************************************)
LEMMA AncestorsEquation ==
  ASSUME NEW p, IsFlattened(p)
  PROVE  AncestorsWithinPayload(p) =
           [id \in PayloadIds(p) |->
              IF p.nodes[id].parent_id = NoParent
              THEN {}
              ELSE {AncestorRow(p.nodes[id].parent_id, 1)}
                   \union {AncestorRow(above.ancestor_id, above.depth + 1) :
                       above \in AncestorsWithinPayload(p)[p.nodes[id].parent_id]}]
<1> DEFINE Ids == PayloadIds(p)
           par(id) == p.nodes[id].parent_id
           W == [id \in Ids |->
                   {row \in [ancestor_id : Ids, depth : Nat \ {0}] :
                      Chains(p, id, row.ancestor_id, row.depth) /= {}}]
           Step(id) == {AncestorRow(par(id), 1)}
                         \union {AncestorRow(above.ancestor_id, above.depth + 1) : above \in W[par(id)]}
<1>1. \A id \in Ids : par(id) = NoParent => W[id] = {}
  <2> SUFFICES ASSUME NEW id \in Ids, par(id) = NoParent, NEW row \in W[id] PROVE FALSE
    OBVIOUS
  <2>1. PICK chain \in Chains(p, id, row.ancestor_id, row.depth) : TRUE
    OBVIOUS
  <2>2. row.depth \in Nat \ {0}
    OBVIOUS
  <2>3. chain[0] = id /\ par(chain[0]) = chain[1] /\ chain[1] \in Ids
    BY <2>1, <2>2 DEF Chains
  <2> QED
    BY <2>3, PayloadShape, NoParentAssumption
<1>2. ASSUME NEW id \in Ids, par(id) /= NoParent
      PROVE  W[id] \subseteq Step(id)
  <2>1. par(id) \in Ids
    BY <1>2, PayloadShape
  <2> SUFFICES ASSUME NEW row \in W[id] PROVE row \in Step(id)
    OBVIOUS
  <2>2. row \in [ancestor_id : Ids, depth : Nat \ {0}]
    OBVIOUS
  <2>3. PICK chain \in Chains(p, id, row.ancestor_id, row.depth) : TRUE
    OBVIOUS
  <2>4. /\ chain \in [0..row.depth -> Ids]
        /\ chain[0] = id /\ chain[row.depth] = row.ancestor_id
        /\ \A k \in 0..row.depth : k < row.depth => par(chain[k]) = chain[k + 1]
    BY <2>3 DEF Chains
  <2>5. chain[1] = par(id)
    BY <2>2, <2>4
  <2>6. CASE row.depth = 1
    BY <2>2, <2>4, <2>5, <2>6 DEF AncestorRow
  <2>7. CASE row.depth > 1
    <3> DEFINE n == row.depth - 1
               rest == [k \in 0..n |-> chain[k + 1]]
               above == [ancestor_id |-> row.ancestor_id, depth |-> n]
    <3>1. n \in Nat \ {0} /\ row.depth = n + 1
      BY <2>2, <2>7
    <3>2. rest \in [0..n -> Ids]
      BY <2>4, <3>1
    <3>3. rest[0] = par(id) /\ rest[n] = row.ancestor_id
      BY <2>4, <2>5, <3>1
    <3>4. \A k \in 0..n : k < n => par(rest[k]) = rest[k + 1]
      <4> TAKE k \in 0..n
      <4> HAVE k < n
      <4>1. k + 1 \in 0..row.depth /\ k + 1 < row.depth /\ k + 1 \in 0..n
        BY <3>1
      <4>2. par(chain[k + 1]) = chain[(k + 1) + 1]
        BY <2>4, <4>1
      <4> QED
        BY <4>1, <4>2
    <3>5. rest \in Chains(p, par(id), row.ancestor_id, n)
      BY <3>2, <3>3, <3>4 DEF Chains
    <3>6. above \in W[par(id)]
      BY <2>1, <2>2, <3>1, <3>5
    <3>7. row = AncestorRow(above.ancestor_id, above.depth + 1)
      BY <2>2, <3>1 DEF AncestorRow
    <3> QED
      BY <3>6, <3>7
  <2>8. row.depth = 1 \/ row.depth > 1
    BY <2>2
  <2> HIDE DEF W, Step
  <2> QED
    BY <2>6, <2>7, <2>8
<1>3. ASSUME NEW id \in Ids, par(id) /= NoParent
      PROVE  Step(id) \subseteq W[id]
  <2>1. par(id) \in Ids
    BY <1>3, PayloadShape
  <2>2. AncestorRow(par(id), 1) \in W[id]
    <3> DEFINE chain == [k \in 0..1 |-> IF k = 0 THEN id ELSE par(id)]
    <3>1. chain \in Chains(p, id, par(id), 1)
      BY <2>1 DEF Chains
    <3> QED
      BY <2>1, <3>1 DEF AncestorRow
  <2>3. ASSUME NEW above \in W[par(id)]
        PROVE  AncestorRow(above.ancestor_id, above.depth + 1) \in W[id]
    <3> DEFINE n == above.depth
    <3>1. above \in [ancestor_id : Ids, depth : Nat \ {0}]
      BY <2>1
    <3>2. PICK chain \in Chains(p, par(id), above.ancestor_id, n) : TRUE
      BY <2>1
    <3>3. /\ chain \in [0..n -> Ids]
          /\ chain[0] = par(id) /\ chain[n] = above.ancestor_id
          /\ \A k \in 0..n : k < n => par(chain[k]) = chain[k + 1]
      BY <3>2 DEF Chains
    <3> DEFINE longer == [k \in 0..(n + 1) |-> IF k = 0 THEN id ELSE chain[k - 1]]
    <3>4. longer \in [0..(n + 1) -> Ids]
      BY <3>1, <3>3
    <3>5. longer[0] = id /\ longer[n + 1] = above.ancestor_id
      BY <3>1, <3>3
    <3>6. \A k \in 0..(n + 1) : k < n + 1 => par(longer[k]) = longer[k + 1]
      <4> TAKE k \in 0..(n + 1)
      <4> HAVE k < n + 1
      <4>1. CASE k = 0
        BY <3>1, <3>3, <4>1
      <4>2. CASE k /= 0
        <5>1. k - 1 \in 0..n /\ k - 1 < n /\ (k - 1) + 1 = k
          BY <3>1, <4>2
        <5>2. par(chain[k - 1]) = chain[(k - 1) + 1]
          BY <3>3, <5>1
        <5>3. longer[k] = chain[k - 1] /\ longer[k + 1] = chain[k]
          BY <3>1, <4>2
        <5> QED
          BY <5>1, <5>2, <5>3
      <4> QED
        BY <4>1, <4>2
    <3>7. longer \in Chains(p, id, above.ancestor_id, n + 1)
      BY <3>4, <3>5, <3>6 DEF Chains
    <3> QED
      BY <3>1, <3>7 DEF AncestorRow
  <2> QED
    BY <2>2, <2>3
<1>4. \A id \in Ids : W[id] = IF par(id) = NoParent THEN {} ELSE Step(id)
  <2> HIDE DEF W, Step
  <2> QED
    BY <1>1, <1>2, <1>3
<1>5. W = [id \in Ids |-> IF par(id) = NoParent THEN {} ELSE Step(id)]
  <2> HIDE DEF Step
  <2> QED
    BY <1>4
<1> HIDE DEF W
<1> QED
  BY <1>5 DEF AncestorsWithinPayload

(***************************************************************************)
(* What the recursion says of one payload node.                            *)
(***************************************************************************)
LEMMA AncestorsOfNode ==
  ASSUME NEW p, IsFlattened(p)
  PROVE  LET within == AncestorsWithinPayload(p)
         IN  /\ within[p.root] = {}
             /\ \A id \in PayloadIds(p) \ {p.root} :
                  within[id] = {AncestorRow(p.nodes[id].parent_id, 1)}
                     \union {AncestorRow(above.ancestor_id, above.depth + 1) :
                               above \in within[p.nodes[id].parent_id]}
<1> DEFINE within == AncestorsWithinPayload(p)
           par(id) == p.nodes[id].parent_id
           Step(id) == {AncestorRow(par(id), 1)}
                         \union {AncestorRow(above.ancestor_id, above.depth + 1) :
                                   above \in within[par(id)]}
<1>1. within = [id \in PayloadIds(p) |-> IF par(id) = NoParent THEN {} ELSE Step(id)]
  BY AncestorsEquation
<1>2. \A id \in PayloadIds(p) : par(id) = NoParent <=> id = p.root
  BY PayloadShape
<1>3. p.root \in PayloadIds(p)
  BY PayloadShape
<1> HIDE DEF within, Step
<1>4. \A id \in PayloadIds(p) : within[id] = IF par(id) = NoParent THEN {} ELSE Step(id)
  BY <1>1
<1>5. within[p.root] = {} /\ \A id \in PayloadIds(p) \ {p.root} : within[id] = Step(id)
  BY <1>2, <1>3, <1>4
<1> QED
  BY <1>5 DEF within, Step

(***************************************************************************)
(* Every row of `within` is as long as the difference of two depths, and   *)
(* the root is above every other node, at that node's depth.               *)
(***************************************************************************)
DepthsAddUp(p, id) ==
  /\ \A above \in AncestorsWithinPayload(p)[id] :
       /\ above = AncestorRow(above.ancestor_id, above.depth)
       /\ above.ancestor_id \in PayloadIds(p)
       /\ above.depth \in Nat \ {0}
       /\ p.nodes[above.ancestor_id].depth + above.depth = p.nodes[id].depth
  /\ id /= p.root =>
       AncestorRow(p.root, p.nodes[id].depth) \in AncestorsWithinPayload(p)[id]

LEMMA DepthsWithinPayload ==
  ASSUME NEW p, IsFlattened(p), NEW id \in PayloadIds(p)
  PROVE  DepthsAddUp(p, id)
<1> DEFINE within == AncestorsWithinPayload(p)
           par(x) == p.nodes[x].parent_id
           deep(x) == p.nodes[x].depth
           T == {n \in Nat : \A x \in PayloadIds(p) : deep(x) = n => DepthsAddUp(p, x)}
<1>1. 0 \in T
  <2> SUFFICES ASSUME NEW x \in PayloadIds(p), deep(x) = 0 PROVE DepthsAddUp(p, x)
    OBVIOUS
  <2>1. x = p.root
    BY PayloadShape
  <2> QED
    BY <2>1, AncestorsOfNode DEF DepthsAddUp
<1>2. ASSUME NEW n \in T PROVE n + 1 \in T
  <2> SUFFICES ASSUME NEW x \in PayloadIds(p), deep(x) = n + 1 PROVE DepthsAddUp(p, x)
    OBVIOUS
  <2>1. x /= p.root
    BY PayloadShape
  <2>2. par(x) \in PayloadIds(p) /\ deep(x) = deep(par(x)) + 1 /\ deep(par(x)) \in Nat
    BY <2>1, PayloadShape
  <2>3. deep(par(x)) = n
    BY <2>2
  <2>4. DepthsAddUp(p, par(x))
    BY <2>2, <2>3
  <2>5. within[x] = {AncestorRow(par(x), 1)}
                      \union {AncestorRow(above.ancestor_id, above.depth + 1) :
                                above \in within[par(x)]}
    BY <2>1, AncestorsOfNode
  <2> HIDE DEF within, T
  <2>6. ASSUME NEW above \in within[x]
        PROVE  /\ above = AncestorRow(above.ancestor_id, above.depth)
               /\ above.ancestor_id \in PayloadIds(p)
               /\ above.depth \in Nat \ {0}
               /\ deep(above.ancestor_id) + above.depth = deep(x)
    <3>1. CASE above = AncestorRow(par(x), 1)
      BY <2>2, <3>1 DEF AncestorRow
    <3>2. CASE above \in {AncestorRow(higher.ancestor_id, higher.depth + 1) :
                            higher \in within[par(x)]}
      <4>1. PICK higher \in within[par(x)] :
              above = AncestorRow(higher.ancestor_id, higher.depth + 1)
        BY <3>2
      <4>2. /\ higher.ancestor_id \in PayloadIds(p)
            /\ higher.depth \in Nat \ {0}
            /\ deep(higher.ancestor_id) + higher.depth = deep(par(x))
        BY <2>4 DEF DepthsAddUp, within
      <4>3. deep(higher.ancestor_id) \in Nat
        BY <4>2, PayloadShape
      <4> QED
        BY <2>2, <4>1, <4>2, <4>3 DEF AncestorRow
    <3> QED
      BY <2>5, <3>1, <3>2
  <2>7. AncestorRow(p.root, deep(x)) \in within[x]
    <3>1. CASE par(x) = p.root
      <4>1. deep(x) = 1
        BY <2>2, <3>1, PayloadShape
      <4> QED
        BY <2>5, <3>1, <4>1
    <3>2. CASE par(x) /= p.root
      <4>1. AncestorRow(p.root, deep(par(x))) \in within[par(x)]
        BY <2>4, <3>2 DEF DepthsAddUp, within
      <4>2. AncestorRow(AncestorRow(p.root, deep(par(x))).ancestor_id,
                        AncestorRow(p.root, deep(par(x))).depth + 1) \in within[x]
        BY <2>5, <4>1
      <4> QED
        BY <2>2, <4>2 DEF AncestorRow
    <3> QED
      BY <3>1, <3>2
  <2> QED
    BY <2>6, <2>7 DEF DepthsAddUp, within
<1>3. T = Nat
  <2>1. T \in SUBSET Nat
    OBVIOUS
  <2> HIDE DEF T
  <2> QED
    BY <1>1, <1>2, <2>1, SetInduction
<1>4. deep(id) \in Nat
  BY PayloadShape
<1> QED
  BY <1>3, <1>4

(***************************************************************************)
(* The rows closure_rows states for payload node y.                        *)
(***************************************************************************)
IsStated(p, captured_ancestors, x, y, k) ==
  /\ y \in PayloadIds(p)
  /\ \/ x = y /\ k = 0
     \/ AncestorRow(x, k) \in AncestorsWithinPayload(p)[y]
     \/ \E d \in Nat : AncestorRow(x, d) \in captured_ancestors /\ k = d + p.nodes[y].depth

LEMMA RowsStated ==
  ASSUME NEW p, IsFlattened(p), NEW A \in SUBSET AncestorRows
  PROVE  /\ ClosureRowsOf(p, A) \subseteq ClosureRows
         /\ \A x \in NodeIds, y \in NodeIds, k \in Nat :
              ClosureRow(x, y, k) \in ClosureRowsOf(p, A) <=> IsStated(p, A, x, y, k)
<1> DEFINE within == AncestorsWithinPayload(p)
           Self == {ClosureRow(id, id, 0) : id \in PayloadIds(p)}
           In == UNION {{ClosureRow(above.ancestor_id, id, above.depth) :
                           above \in within[id]} : id \in PayloadIds(p)}
           Over == UNION {{ClosureRow(above.ancestor_id, id, above.depth + p.nodes[id].depth) :
                           above \in A} : id \in PayloadIds(p)}
<1>1. ClosureRowsOf(p, A) = Self \union In \union Over
  BY DEF ClosureRowsOf
<1>2. \A id \in PayloadIds(p) : \A above \in within[id] :
        /\ above = AncestorRow(above.ancestor_id, above.depth)
        /\ above.ancestor_id \in PayloadIds(p)
        /\ above.depth \in Nat
  BY DepthsWithinPayload DEF DepthsAddUp
<1>3. PayloadIds(p) \subseteq NodeIds /\ \A id \in PayloadIds(p) : p.nodes[id].depth \in Nat
  BY PayloadShape
<1>4. \A above \in A : /\ above = AncestorRow(above.ancestor_id, above.depth)
                       /\ above.ancestor_id \in NodeIds
                       /\ above.depth \in Nat
  BY DEF AncestorRows, AncestorRow
<1> HIDE DEF within
<1>5. Self \subseteq ClosureRows /\ In \subseteq ClosureRows /\ Over \subseteq ClosureRows
  BY <1>2, <1>3, <1>4 DEF ClosureRows, ClosureRow
<1>6. ASSUME NEW x \in NodeIds, NEW y \in NodeIds, NEW k \in Nat
      PROVE  /\ ClosureRow(x, y, k) \in Self <=> y \in PayloadIds(p) /\ x = y /\ k = 0
             /\ ClosureRow(x, y, k) \in In <=>
                  y \in PayloadIds(p) /\ AncestorRow(x, k) \in within[y]
             /\ ClosureRow(x, y, k) \in Over <=>
                  /\ y \in PayloadIds(p)
                  /\ \E d \in Nat : AncestorRow(x, d) \in A /\ k = d + p.nodes[y].depth
  <2>1. ClosureRow(x, y, k) \in Self <=> y \in PayloadIds(p) /\ x = y /\ k = 0
    BY DEF ClosureRow
  <2>2. ClosureRow(x, y, k) \in In <=> y \in PayloadIds(p) /\ AncestorRow(x, k) \in within[y]
    <3>1. ASSUME ClosureRow(x, y, k) \in In
          PROVE  y \in PayloadIds(p) /\ AncestorRow(x, k) \in within[y]
      <4>1. PICK id \in PayloadIds(p) :
              ClosureRow(x, y, k) \in {ClosureRow(above.ancestor_id, id, above.depth) :
                                         above \in within[id]}
        BY <3>1
      <4>2. PICK above \in within[id] :
              ClosureRow(x, y, k) = ClosureRow(above.ancestor_id, id, above.depth)
        BY <4>1
      <4>3. x = above.ancestor_id /\ y = id /\ k = above.depth
        BY <4>2 DEF ClosureRow
      <4> QED
        BY <1>2, <4>3
    <3>2. ASSUME y \in PayloadIds(p), AncestorRow(x, k) \in within[y]
          PROVE  ClosureRow(x, y, k) \in In
      <4>1. AncestorRow(x, k).ancestor_id = x /\ AncestorRow(x, k).depth = k
        BY DEF AncestorRow
      <4> QED
        BY <3>2, <4>1
    <3> QED
      BY <3>1, <3>2
  <2>3. ClosureRow(x, y, k) \in Over <=>
          /\ y \in PayloadIds(p)
          /\ \E d \in Nat : AncestorRow(x, d) \in A /\ k = d + p.nodes[y].depth
    <3>1. ASSUME ClosureRow(x, y, k) \in Over
          PROVE  /\ y \in PayloadIds(p)
                 /\ \E d \in Nat : AncestorRow(x, d) \in A /\ k = d + p.nodes[y].depth
      <4>1. PICK id \in PayloadIds(p) :
              ClosureRow(x, y, k) \in
                {ClosureRow(above.ancestor_id, id, above.depth + p.nodes[id].depth) : above \in A}
        BY <3>1
      <4>2. PICK above \in A :
              ClosureRow(x, y, k) =
                ClosureRow(above.ancestor_id, id, above.depth + p.nodes[id].depth)
        BY <4>1
      <4>3. x = above.ancestor_id /\ y = id /\ k = above.depth + p.nodes[id].depth
        BY <4>2 DEF ClosureRow
      <4> QED
        BY <1>4, <4>3
    <3>2. ASSUME y \in PayloadIds(p), NEW d \in Nat, AncestorRow(x, d) \in A,
                 k = d + p.nodes[y].depth
          PROVE  ClosureRow(x, y, k) \in Over
      <4>1. AncestorRow(x, d).ancestor_id = x /\ AncestorRow(x, d).depth = d
        BY DEF AncestorRow
      <4> QED
        BY <3>2, <4>1
    <3> QED
      BY <3>1, <3>2
  <2> QED
    BY <2>1, <2>2, <2>3
<1> QED
  <2> HIDE DEF Self, In, Over
  <2> QED
    BY <1>1, <1>5, <1>6 DEF IsStated, within

-----------------------------------------------------------------------------
(* Agreeing tables. *)

(***************************************************************************)
(* Agrees, of the rows one by one.                                         *)
(***************************************************************************)
Walks(N, C) ==
  \A x, y \in NodeIds, k \in Nat :
    ClosureRow(x, y, k) \in C =>
      /\ x \in DOMAIN N /\ y \in DOMAIN N
      /\ \A j \in Nat : ClosureRow(x, y, j) \in C => j = k
      /\ k = 0 => x = y
      /\ k > 0 => /\ N[y].parent_id \in DOMAIN N
                  /\ ClosureRow(x, N[y].parent_id, k - 1) \in C
      /\ \A id \in DOMAIN N : N[id].parent_id = y => ClosureRow(x, id, k + 1) \in C

LEMMA AgreesIsWalks ==
  ASSUME NEW N \in NodeTables, NEW C \in SUBSET ClosureRows
  PROVE  Agrees(N, C) <=> /\ ParentsAreStored(N)
                          /\ \A id \in DOMAIN N : ClosureRow(id, id, 0) \in C
                          /\ Walks(N, C)
<1>1. DOMAIN N \subseteq NodeIds
  BY DEF NodeTables
<1>2. \A row \in C : /\ row = ClosureRow(row.ancestor_id, row.descendant_id, row.depth)
                     /\ row.ancestor_id \in NodeIds
                     /\ row.descendant_id \in NodeIds
                     /\ row.depth \in Nat
  BY DEF ClosureRows, ClosureRow
<1>3. \A x, y, k : /\ ClosureRow(x, y, k).ancestor_id = x
                   /\ ClosureRow(x, y, k).descendant_id = y
                   /\ ClosureRow(x, y, k).depth = k
  BY DEF ClosureRow
<1>4. ASSUME Agrees(N, C) PROVE Walks(N, C)
  <2> SUFFICES ASSUME NEW x \in NodeIds, NEW y \in NodeIds, NEW k \in Nat,
                      ClosureRow(x, y, k) \in C
               PROVE  /\ x \in DOMAIN N /\ y \in DOMAIN N
                      /\ \A j \in Nat : ClosureRow(x, y, j) \in C => j = k
                      /\ k = 0 => x = y
                      /\ k > 0 => /\ N[y].parent_id \in DOMAIN N
                                  /\ ClosureRow(x, N[y].parent_id, k - 1) \in C
                      /\ \A id \in DOMAIN N :
                           N[id].parent_id = y => ClosureRow(x, id, k + 1) \in C
    BY DEF Walks
  <2>1. x \in DOMAIN N /\ y \in DOMAIN N
    BY <1>3, <1>4 DEF Agrees, EndsAreStored
  <2>2. \A j \in Nat : ClosureRow(x, y, j) \in C => j = k
    <3> SUFFICES ASSUME NEW j \in Nat, ClosureRow(x, y, j) \in C PROVE j = k
      OBVIOUS
    <3>1. ClosureRow(x, y, j) = ClosureRow(x, y, k)
      BY <1>3, <1>4 DEF Agrees, OneRowPerPair
    <3> QED
      BY <1>3, <3>1
  <2>3. k = 0 => x = y
    BY <1>3, <1>4 DEF Agrees, SelfRowsAgree
  <2>4. k > 0 => /\ N[y].parent_id /= NoParent
                 /\ ClosureRow(x, N[y].parent_id, k - 1) \in C
    BY <1>3, <1>4 DEF Agrees, RowsGoThroughParents
  <2>5. k > 0 => N[y].parent_id \in DOMAIN N
    BY <1>4, <2>1, <2>4 DEF Agrees, ParentsAreStored
  <2>6. \A id \in DOMAIN N : N[id].parent_id = y => ClosureRow(x, id, k + 1) \in C
    BY <1>3, <1>4 DEF Agrees, RowsReachChildren
  <2> QED
    BY <2>1, <2>2, <2>3, <2>4, <2>5, <2>6
<1>5. ASSUME ParentsAreStored(N), \A id \in DOMAIN N : ClosureRow(id, id, 0) \in C, Walks(N, C)
      PROVE  Agrees(N, C)
  <2>1. \A row \in C :
          /\ row.ancestor_id \in DOMAIN N /\ row.descendant_id \in DOMAIN N
          /\ \A j \in Nat : ClosureRow(row.ancestor_id, row.descendant_id, j) \in C => j = row.depth
          /\ row.depth = 0 => row.ancestor_id = row.descendant_id
          /\ row.depth > 0 =>
               /\ N[row.descendant_id].parent_id \in DOMAIN N
               /\ ClosureRow(row.ancestor_id, N[row.descendant_id].parent_id, row.depth - 1) \in C
          /\ \A id \in DOMAIN N : N[id].parent_id = row.descendant_id =>
               ClosureRow(row.ancestor_id, id, row.depth + 1) \in C
    BY <1>2, <1>5 DEF Walks
  <2>2. EndsAreStored(N, C)
    BY <2>1 DEF EndsAreStored
  <2>3. OneRowPerPair(C)
    BY <1>2, <2>1 DEF OneRowPerPair
  <2>4. SelfRowsAgree(N, C)
    BY <1>5, <2>1 DEF SelfRowsAgree
  <2>5. RowsGoThroughParents(N, C)
    BY <1>1, <2>1, NoParentAssumption DEF RowsGoThroughParents
  <2>6. RowsReachChildren(N, C)
    BY <2>1 DEF RowsReachChildren
  <2> QED
    BY <1>5, <2>2, <2>3, <2>4, <2>5, <2>6 DEF Agrees
<1>6. Agrees(N, C) => ParentsAreStored(N) /\ \A id \in DOMAIN N : ClosureRow(id, id, 0) \in C
  BY DEF Agrees, SelfRowsAgree
<1> QED
  BY <1>4, <1>5, <1>6

(***************************************************************************)
(* The rows of agreeing tables compose: what is above an ancestor is above *)
(* the node, at the sum of the distances.                                  *)
(***************************************************************************)
LEMMA RowsCompose ==
  ASSUME NEW N \in NodeTables, NEW C \in SUBSET ClosureRows, Agrees(N, C),
         NEW x \in NodeIds, NEW y \in NodeIds, NEW z \in NodeIds,
         NEW k \in Nat, NEW d \in Nat,
         ClosureRow(x, y, k) \in C, ClosureRow(y, z, d) \in C
  PROVE  ClosureRow(x, z, k + d) \in C
<1> DEFINE T == {n \in Nat : \A w \in NodeIds :
                   ClosureRow(y, w, n) \in C => ClosureRow(x, w, k + n) \in C}
<1>1. Walks(N, C) /\ DOMAIN N \subseteq NodeIds
  BY AgreesIsWalks DEF NodeTables
<1>2. 0 \in T
  BY <1>1 DEF Walks
<1>3. ASSUME NEW n \in T PROVE n + 1 \in T
  <2> SUFFICES ASSUME NEW w \in NodeIds, ClosureRow(y, w, n + 1) \in C
               PROVE  ClosureRow(x, w, k + (n + 1)) \in C
    OBVIOUS
  <2>1. /\ w \in DOMAIN N
        /\ N[w].parent_id \in DOMAIN N
        /\ ClosureRow(y, N[w].parent_id, (n + 1) - 1) \in C
    BY <1>1 DEF Walks
  <2>2. (n + 1) - 1 = n /\ k + n \in Nat /\ (k + n) + 1 = k + (n + 1)
    OBVIOUS
  <2>3. N[w].parent_id \in NodeIds
    BY <1>1, <2>1
  <2>4. ClosureRow(x, N[w].parent_id, k + n) \in C
    BY <2>1, <2>2, <2>3
  <2>5. ClosureRow(x, w, (k + n) + 1) \in C
    BY <1>1, <2>1, <2>2, <2>3, <2>4 DEF Walks
  <2> QED
    BY <2>2, <2>5
<1>4. T = Nat
  <2>1. T \in SUBSET Nat
    OBVIOUS
  <2> HIDE DEF T
  <2> QED
    BY <1>2, <1>3, <2>1, SetInduction
<1> QED
  BY <1>4

(***************************************************************************)
(* What one write touches: the payload and everything stored beneath it.   *)
(***************************************************************************)
Touched(C, p) == FetchDescendantIds(C, PayloadIds(p)) \union PayloadIds(p)

DoomedIn(C, p) == FetchDescendantIds(C, PayloadIds(p)) \ PayloadIds(p)

(***************************************************************************)
(* The cycle check let the payload pass.                                   *)
(***************************************************************************)
PassesCheck(C, p) ==
  \A above \in FetchAncestorDepths(C, p.root) : above.ancestor_id \notin PayloadIds(p)

LEMMA CapturedRows ==
  ASSUME NEW C \in SUBSET ClosureRows, NEW id \in NodeIds
  PROVE  /\ FetchAncestorDepths(C, id) \in SUBSET AncestorRows
         /\ \A x \in NodeIds, d \in Nat :
              AncestorRow(x, d) \in FetchAncestorDepths(C, id) <=>
                ClosureRow(x, id, d) \in C /\ d > 0
<1>1. \A row \in C : /\ row = ClosureRow(row.ancestor_id, row.descendant_id, row.depth)
                     /\ row.ancestor_id \in NodeIds /\ row.depth \in Nat
  BY DEF ClosureRows, ClosureRow
<1>2. FetchAncestorDepths(C, id) \in SUBSET AncestorRows
  BY <1>1 DEF FetchAncestorDepths, AncestorRows, AncestorRow
<1>3. ASSUME NEW x \in NodeIds, NEW d \in Nat,
             AncestorRow(x, d) \in FetchAncestorDepths(C, id)
      PROVE  ClosureRow(x, id, d) \in C /\ d > 0
  <2>1. PICK row \in C : /\ row.descendant_id = id /\ row.depth > 0
                         /\ AncestorRow(x, d) = AncestorRow(row.ancestor_id, row.depth)
    BY <1>3 DEF FetchAncestorDepths
  <2>2. row.ancestor_id = x /\ row.depth = d
    BY <2>1 DEF AncestorRow
  <2> QED
    BY <1>1, <2>1, <2>2
<1>4. ASSUME NEW x \in NodeIds, NEW d \in Nat, ClosureRow(x, id, d) \in C, d > 0
      PROVE  AncestorRow(x, d) \in FetchAncestorDepths(C, id)
  <2>1. /\ ClosureRow(x, id, d).ancestor_id = x
        /\ ClosureRow(x, id, d).descendant_id = id
        /\ ClosureRow(x, id, d).depth = d
    BY DEF ClosureRow
  <2> QED
    BY <1>4, <2>1 DEF FetchAncestorDepths
<1> QED
  BY <1>2, <1>3, <1>4

LEMMA TouchedRows ==
  ASSUME NEW C \in SUBSET ClosureRows, NEW p, IsFlattened(p)
  PROVE  /\ Touched(C, p) \subseteq NodeIds
         /\ Touched(C, p) = DoomedIn(C, p) \union PayloadIds(p)
         /\ \A y \in NodeIds :
              y \in FetchDescendantIds(C, PayloadIds(p)) <=>
                \E x \in PayloadIds(p), k \in Nat : ClosureRow(x, y, k) \in C
<1>1. \A row \in C : /\ row = ClosureRow(row.ancestor_id, row.descendant_id, row.depth)
                     /\ row.descendant_id \in NodeIds /\ row.depth \in Nat
  BY DEF ClosureRows, ClosureRow
<1>2. \A x, y, k : /\ ClosureRow(x, y, k).ancestor_id = x
                   /\ ClosureRow(x, y, k).descendant_id = y
  BY DEF ClosureRow
<1>3. Touched(C, p) \subseteq NodeIds
  BY <1>1, PayloadShape DEF Touched, FetchDescendantIds
<1>4. \A y \in NodeIds :
        y \in FetchDescendantIds(C, PayloadIds(p)) <=>
          \E x \in PayloadIds(p), k \in Nat : ClosureRow(x, y, k) \in C
  BY <1>1, <1>2 DEF FetchDescendantIds
<1> QED
  BY <1>3, <1>4 DEF Touched, DoomedIn

(***************************************************************************)
(* Nothing untouched hangs from, or lies beneath, anything touched; and    *)
(* once the cycle check has passed, neither does the posted root.          *)
(***************************************************************************)
LEMMA NothingHangsFromTouched ==
  ASSUME NEW N \in NodeTables, NEW C \in SUBSET ClosureRows, Agrees(N, C),
         NEW p, IsFlattened(p)
  PROVE  /\ \A id \in DOMAIN N \ Touched(C, p) : N[id].parent_id \notin Touched(C, p)
         /\ \A x, y \in NodeIds, k \in Nat :
              ClosureRow(x, y, k) \in C /\ y \notin Touched(C, p) => x \notin Touched(C, p)
         /\ PassesCheck(C, p) =>
              /\ \A x \in NodeIds, k \in Nat :
                   ClosureRow(x, p.root, k) \in C /\ k > 0 => x \notin Touched(C, p)
              /\ p.root \in DOMAIN N => N[p.root].parent_id \notin Touched(C, p)
<1> DEFINE Ids == PayloadIds(p)
           Below == FetchDescendantIds(C, Ids)
<1>1. /\ Walks(N, C) /\ ParentsAreStored(N) /\ DOMAIN N \subseteq NodeIds
      /\ \A id \in DOMAIN N : ClosureRow(id, id, 0) \in C
  BY AgreesIsWalks DEF NodeTables
<1>2. Ids \subseteq NodeIds /\ p.root \in Ids
  BY PayloadShape
<1>3. \A y \in NodeIds : y \in Below <=> \E x \in Ids, k \in Nat : ClosureRow(x, y, k) \in C
  BY TouchedRows
<1>4. Touched(C, p) = Below \union Ids
  BY DEF Touched
<1> HIDE DEF Ids, Below
<1>5. \A id \in DOMAIN N : id \in Touched(C, p) => id \in Below
  BY <1>1, <1>3, <1>4
<1>6. ASSUME NEW x \in NodeIds, NEW y \in NodeIds, NEW k \in Nat,
             ClosureRow(x, y, k) \in C, x \in Touched(C, p)
      PROVE  \E top \in Ids, n \in Nat : ClosureRow(top, y, n + k) \in C
  <2>1. x \in DOMAIN N
    BY <1>1, <1>6 DEF Walks
  <2>2. PICK top \in Ids, n \in Nat : ClosureRow(top, x, n) \in C
    BY <1>3, <1>5, <1>6, <2>1
  <2>3. ClosureRow(top, y, n + k) \in C
    BY <1>2, <1>6, <2>2, RowsCompose
  <2> QED
    BY <2>3
<1>7. \A x, y \in NodeIds, k \in Nat :
        ClosureRow(x, y, k) \in C /\ y \notin Touched(C, p) => x \notin Touched(C, p)
  <2> SUFFICES ASSUME NEW x \in NodeIds, NEW y \in NodeIds, NEW k \in Nat,
                      ClosureRow(x, y, k) \in C, x \in Touched(C, p)
               PROVE  y \in Touched(C, p)
    OBVIOUS
  <2>1. PICK top \in Ids, n \in Nat : ClosureRow(top, y, n + k) \in C
    BY <1>6
  <2>2. n + k \in Nat
    OBVIOUS
  <2> QED
    BY <1>3, <1>4, <2>1, <2>2
<1>8. \A id \in DOMAIN N : N[id].parent_id \in DOMAIN N => ClosureRow(N[id].parent_id, id, 1) \in C
  <2> SUFFICES ASSUME NEW id \in DOMAIN N, N[id].parent_id \in DOMAIN N
               PROVE  ClosureRow(N[id].parent_id, id, 0 + 1) \in C
    OBVIOUS
  <2>1. ClosureRow(N[id].parent_id, N[id].parent_id, 0) \in C /\ N[id].parent_id \in NodeIds
    BY <1>1
  <2> QED
    BY <1>1, <2>1 DEF Walks
<1>9. \A id \in DOMAIN N : N[id].parent_id \in Touched(C, p) => N[id].parent_id \in DOMAIN N
  BY <1>1, <1>2, NoParentAssumption, TouchedRows DEF ParentsAreStored
<1>10. \A id \in DOMAIN N \ Touched(C, p) : N[id].parent_id \notin Touched(C, p)
  BY <1>1, <1>7, <1>8, <1>9
<1>11. ASSUME PassesCheck(C, p), NEW x \in NodeIds, NEW k \in Nat,
              ClosureRow(x, p.root, k) \in C, k > 0
       PROVE  x \notin Touched(C, p)
  <2> SUFFICES ASSUME x \in Touched(C, p) PROVE FALSE
    OBVIOUS
  <2>1. PICK top \in Ids, n \in Nat : ClosureRow(top, p.root, n + k) \in C
    BY <1>2, <1>6, <1>11
  <2>2. n + k \in Nat /\ n + k > 0
    BY <1>11
  <2>3. AncestorRow(top, n + k) \in FetchAncestorDepths(C, p.root)
    BY <1>2, <2>1, <2>2, CapturedRows
  <2>4. AncestorRow(top, n + k).ancestor_id = top
    BY DEF AncestorRow
  <2> QED
    BY <1>11, <2>3, <2>4 DEF PassesCheck, Ids
<1>12. ASSUME PassesCheck(C, p), p.root \in DOMAIN N PROVE N[p.root].parent_id \notin Touched(C, p)
  <2> SUFFICES ASSUME N[p.root].parent_id \in Touched(C, p) PROVE FALSE
    OBVIOUS
  <2>1. N[p.root].parent_id \in DOMAIN N
    BY <1>9, <1>12
  <2>2. ClosureRow(N[p.root].parent_id, p.root, 1) \in C /\ N[p.root].parent_id \in NodeIds
    BY <1>1, <1>8, <1>12, <2>1
  <2> QED
    BY <1>11, <1>12, <2>2
<1> QED
  BY <1>7, <1>10, <1>11, <1>12

-----------------------------------------------------------------------------
(* What one write leaves. *)

RowsUpserted(N, p) == NodeRows(p, FetchParentId(N, p.root))

NodesStored(N, C, p) == WithUpserted(WithoutNodes(N, DoomedIn(C, p)), RowsUpserted(N, p))

RowsKept(C, p) == WithoutDescendants(WithoutRowsOf(C, DoomedIn(C, p)), PayloadIds(p))

RowsAdded(C, p) == ClosureRowsOf(p, FetchAncestorDepths(C, p.root))

ClosureStored(C, p) == RowsKept(C, p) \union RowsAdded(C, p)

(***************************************************************************)
(* A table of nodes, opened up.                                            *)
(***************************************************************************)
LEMMA NodeTableIs ==
  ASSUME NEW N
  PROVE  N \in NodeTables <=>
           /\ N = [id \in DOMAIN N |-> N[id]]
           /\ DOMAIN N \subseteq NodeIds
           /\ \A id \in DOMAIN N : N[id] \in NodeData
<1>1. ASSUME N \in NodeTables
      PROVE  /\ N = [id \in DOMAIN N |-> N[id]]
             /\ DOMAIN N \subseteq NodeIds
             /\ \A id \in DOMAIN N : N[id] \in NodeData
  <2>1. PICK stored \in SUBSET NodeIds : N \in [stored -> NodeData]
    BY <1>1 DEF NodeTables
  <2> QED
    BY <2>1
<1>2. ASSUME N = [id \in DOMAIN N |-> N[id]],
             DOMAIN N \subseteq NodeIds,
             \A id \in DOMAIN N : N[id] \in NodeData
      PROVE  N \in NodeTables
  <2>1. N \in [DOMAIN N -> NodeData]
    BY <1>2
  <2> QED
    BY <1>2, <2>1 DEF NodeTables
<1> QED
  BY <1>1, <1>2

LEMMA RowsUpsertedAre ==
  ASSUME NEW N \in NodeTables, NEW p, IsFlattened(p)
  PROVE  /\ RowsUpserted(N, p) \in NodeTables
         /\ DOMAIN RowsUpserted(N, p) = PayloadIds(p)
         /\ FetchParentId(N, p.root) \in ParentIds
         /\ \A id \in PayloadIds(p) :
              /\ RowsUpserted(N, p)[id].type = p.nodes[id].type
              /\ RowsUpserted(N, p)[id].parent_id =
                   IF id = p.root THEN FetchParentId(N, p.root) ELSE p.nodes[id].parent_id
<1>1. FetchParentId(N, p.root) \in ParentIds
  BY NodeTableIs DEF FetchParentId, NodeData, ParentIds
<1>2. /\ DOMAIN RowsUpserted(N, p) = PayloadIds(p)
      /\ RowsUpserted(N, p) = [id \in PayloadIds(p) |-> RowsUpserted(N, p)[id]]
  BY DEF RowsUpserted, NodeRows
<1>3. ASSUME NEW id \in PayloadIds(p)
      PROVE  RowsUpserted(N, p)[id] =
               [type |-> p.nodes[id].type,
                parent_id |-> IF id = p.root THEN FetchParentId(N, p.root)
                                             ELSE p.nodes[id].parent_id]
  <2>1. p.nodes[id].depth = 0 <=> id = p.root
    BY PayloadShape
  <2> QED
    BY <2>1 DEF RowsUpserted, NodeRows
<1>4. ASSUME NEW id \in PayloadIds(p) PROVE RowsUpserted(N, p)[id] \in NodeData
  <2>1. p.nodes[id].type \in NodeTypes /\ (id /= p.root => p.nodes[id].parent_id \in ParentIds)
    BY PayloadShape DEF ParentIds
  <2> DEFINE parent == IF id = p.root THEN FetchParentId(N, p.root) ELSE p.nodes[id].parent_id
  <2>2. parent \in ParentIds
    BY <1>1, <2>1
  <2>3. RowsUpserted(N, p)[id] = [type |-> p.nodes[id].type, parent_id |-> parent]
    BY <1>3, Zenon
  <2> HIDE DEF parent
  <2> QED
    BY <2>1, <2>2, <2>3 DEF NodeData
<1>5. RowsUpserted(N, p) \in NodeTables
  BY <1>2, <1>4, NodeTableIs, PayloadShape
<1> QED
  BY <1>1, <1>2, <1>3, <1>5

LEMMA NodesStoredAre ==
  ASSUME NEW N \in NodeTables, NEW C \in SUBSET ClosureRows, NEW p, IsFlattened(p)
  PROVE  /\ NodesStored(N, C, p) \in NodeTables
         /\ DOMAIN NodesStored(N, C, p) = (DOMAIN N \ Touched(C, p)) \union PayloadIds(p)
         /\ \A id \in DOMAIN N \ Touched(C, p) : NodesStored(N, C, p)[id] = N[id]
         /\ \A id \in PayloadIds(p) : NodesStored(N, C, p)[id] = RowsUpserted(N, p)[id]
<1> DEFINE S == NodesStored(N, C, p)
           U == RowsUpserted(N, p)
<1>1. Touched(C, p) = DoomedIn(C, p) \union PayloadIds(p)
  BY TouchedRows
<1>2. DOMAIN U = PayloadIds(p) /\ U \in NodeTables
  BY RowsUpsertedAre
<1>3. S = [id \in (DOMAIN N \ DoomedIn(C, p)) \union DOMAIN U |->
             IF id \in DOMAIN U THEN U[id] ELSE N[id]]
  BY DEF NodesStored, WithUpserted, WithoutNodes
<1>4. DOMAIN S = (DOMAIN N \ Touched(C, p)) \union PayloadIds(p)
  BY <1>1, <1>2, <1>3
<1>5. /\ \A id \in DOMAIN N \ Touched(C, p) : S[id] = N[id]
      /\ \A id \in PayloadIds(p) : S[id] = U[id]
  BY <1>1, <1>2, <1>3
<1>6. S = [id \in DOMAIN S |-> S[id]]
  BY <1>3
<1>7. \A id \in DOMAIN S : S[id] \in NodeData
  BY <1>2, <1>4, <1>5, NodeTableIs
<1>8. DOMAIN S \subseteq NodeIds
  BY <1>4, NodeTableIs, PayloadShape
<1> HIDE DEF S
<1>9. S \in NodeTables
  BY <1>6, <1>7, <1>8, NodeTableIs
<1> QED
  BY <1>4, <1>5, <1>9 DEF S

LEMMA RowsKeptAre ==
  ASSUME NEW N \in NodeTables, NEW C \in SUBSET ClosureRows, Agrees(N, C),
         NEW p, IsFlattened(p)
  PROVE  /\ RowsKept(C, p) \subseteq C
         /\ \A x, y \in NodeIds, k \in Nat :
              ClosureRow(x, y, k) \in RowsKept(C, p) <=>
                ClosureRow(x, y, k) \in C /\ y \notin Touched(C, p)
<1>1. Touched(C, p) = DoomedIn(C, p) \union PayloadIds(p)
  BY TouchedRows
<1>2. RowsKept(C, p) = {row \in C : /\ row.ancestor_id \notin DoomedIn(C, p)
                                    /\ row.descendant_id \notin Touched(C, p)}
  BY <1>1 DEF RowsKept, WithoutDescendants, WithoutRowsOf
<1>3. \A x, y, k : /\ ClosureRow(x, y, k).ancestor_id = x
                   /\ ClosureRow(x, y, k).descendant_id = y
  BY DEF ClosureRow
<1>4. \A x, y \in NodeIds, k \in Nat :
        ClosureRow(x, y, k) \in C /\ y \notin Touched(C, p) => x \notin DoomedIn(C, p)
  BY <1>1, NothingHangsFromTouched
<1> QED
  BY <1>2, <1>3, <1>4

(***************************************************************************)
(* Neither the upsert nor the delete leaves a node whose parent is not     *)
(* stored: fk_nodes_parent refuses neither.                                *)
(***************************************************************************)
LEMMA ParentsStayStored ==
  ASSUME NEW N \in NodeTables, NEW C \in SUBSET ClosureRows, Agrees(N, C),
         NEW p, IsFlattened(p), PassesCheck(C, p)
  PROVE  /\ ParentsAreStored(WithUpserted(N, RowsUpserted(N, p)))
         /\ ParentsAreStored(NodesStored(N, C, p))
<1> DEFINE U == RowsUpserted(N, p)
           Ids == PayloadIds(p)
<1>1. ParentsAreStored(N) /\ DOMAIN N \subseteq NodeIds
  BY NodeTableIs DEF Agrees
<1>2. DOMAIN U = Ids
  BY RowsUpsertedAre
<1>3. \A id \in Ids \ {p.root} : U[id].parent_id \in Ids
  BY RowsUpsertedAre, PayloadShape
<1>4. U[p.root].parent_id = FetchParentId(N, p.root) /\ p.root \in Ids
  BY RowsUpsertedAre, PayloadShape
<1>5. U[p.root].parent_id \in (DOMAIN N \ Touched(C, p)) \union {NoParent}
  <2>1. CASE p.root \in DOMAIN N
    <3>1. U[p.root].parent_id = N[p.root].parent_id
      BY <1>4, <2>1 DEF FetchParentId
    <3>2. N[p.root].parent_id \in DOMAIN N \union {NoParent}
      BY <1>1, <2>1 DEF ParentsAreStored
    <3>3. N[p.root].parent_id \notin Touched(C, p)
      BY <2>1, NothingHangsFromTouched
    <3> QED
      BY <3>1, <3>2, <3>3
  <2>2. CASE p.root \notin DOMAIN N
    BY <1>4, <2>2 DEF FetchParentId
  <2> QED
    BY <2>1, <2>2
<1>6. ParentsAreStored(WithUpserted(N, U))
  <2> DEFINE S == WithUpserted(N, U)
  <2>1. DOMAIN S = DOMAIN N \union Ids
    BY <1>2 DEF WithUpserted
  <2>2. \A id \in DOMAIN S : S[id] = IF id \in Ids THEN U[id] ELSE N[id]
    BY <1>2 DEF WithUpserted
  <2> HIDE DEF S, U
  <2>3. \A id \in DOMAIN S : S[id].parent_id \in DOMAIN S \union {NoParent}
    BY <1>1, <1>3, <1>5, <2>1, <2>2 DEF ParentsAreStored
  <2> QED
    BY <2>3 DEF ParentsAreStored, S
<1>7. ParentsAreStored(NodesStored(N, C, p))
  <2>1. /\ DOMAIN NodesStored(N, C, p) = (DOMAIN N \ Touched(C, p)) \union PayloadIds(p)
        /\ \A id \in DOMAIN N \ Touched(C, p) : NodesStored(N, C, p)[id] = N[id]
        /\ \A id \in PayloadIds(p) : NodesStored(N, C, p)[id] = RowsUpserted(N, p)[id]
    BY NodesStoredAre
  <2>2. \A id \in DOMAIN N \ Touched(C, p) : N[id].parent_id \notin Touched(C, p)
    BY NothingHangsFromTouched
  <2> HIDE DEF U
  <2>3. \A id \in DOMAIN N \ Touched(C, p) : 
          NodesStored(N, C, p)[id].parent_id \in (DOMAIN N \ Touched(C, p)) \union {NoParent}
    BY <1>1, <2>1, <2>2 DEF ParentsAreStored
  <2>4. \A id \in PayloadIds(p) :
          NodesStored(N, C, p)[id].parent_id \in
            (DOMAIN N \ Touched(C, p)) \union PayloadIds(p) \union {NoParent}
    BY <1>3, <1>5, <2>1 DEF U
  <2> QED
    BY <2>1, <2>3, <2>4 DEF ParentsAreStored
<1> QED
  BY <1>6, <1>7

(***************************************************************************)
(* What is stated for a node is what is stated for its parent, one edge    *)
(* further away; for the posted root it is its self-row and what was       *)
(* captured above it.                                                      *)
(***************************************************************************)
LEMMA StatedThroughParent ==
  ASSUME NEW p, IsFlattened(p), NEW A \in SUBSET AncestorRows,
         NEW y \in PayloadIds(p) \ {p.root}, NEW x \in NodeIds, NEW k \in Nat
  PROVE  IsStated(p, A, x, y, k + 1) <=> IsStated(p, A, x, p.nodes[y].parent_id, k)
<1> DEFINE within == AncestorsWithinPayload(p)
           par == p.nodes[y].parent_id
<1>1. par \in PayloadIds(p) /\ p.nodes[par].depth \in Nat /\ p.nodes[y].depth = p.nodes[par].depth + 1
  BY PayloadShape
<1>2. within[y] = {AncestorRow(par, 1)}
                    \union {AncestorRow(above.ancestor_id, above.depth + 1) : above \in within[par]}
  BY AncestorsOfNode
<1>3. \A above \in within[par] : /\ above = AncestorRow(above.ancestor_id, above.depth)
                                 /\ above.depth \in Nat
  BY <1>1, DepthsWithinPayload DEF DepthsAddUp
<1> HIDE DEF within
<1>4. AncestorRow(x, k + 1) \in within[y] <=> (x = par /\ k = 0) \/ AncestorRow(x, k) \in within[par]
  <2>1. ASSUME AncestorRow(x, k + 1) \in within[y], AncestorRow(x, k + 1) /= AncestorRow(par, 1)
        PROVE  AncestorRow(x, k) \in within[par]
    <3>1. PICK above \in within[par] :
            AncestorRow(x, k + 1) = AncestorRow(above.ancestor_id, above.depth + 1)
      BY <1>2, <2>1
    <3>2. x = above.ancestor_id /\ k + 1 = above.depth + 1
      BY <3>1 DEF AncestorRow
    <3> QED
      BY <1>3, <3>2
  <2>2. AncestorRow(x, k + 1) = AncestorRow(par, 1) <=> x = par /\ k = 0
    BY DEF AncestorRow
  <2>3. ASSUME AncestorRow(x, k) \in within[par] PROVE AncestorRow(x, k + 1) \in within[y]
    <3>1. AncestorRow(x, k).ancestor_id = x /\ AncestorRow(x, k).depth = k
      BY DEF AncestorRow
    <3> QED
      BY <1>2, <2>3, <3>1
  <2> QED
    BY <1>2, <2>1, <2>2, <2>3
<1>5. (\E d \in Nat : AncestorRow(x, d) \in A /\ k + 1 = d + p.nodes[y].depth)
        <=> \E d \in Nat : AncestorRow(x, d) \in A /\ k = d + p.nodes[par].depth
  BY <1>1
<1> QED
  BY <1>1, <1>4, <1>5 DEF IsStated, within

LEMMA StatedForRoot ==
  ASSUME NEW C \in SUBSET ClosureRows, NEW p, IsFlattened(p),
         NEW x \in NodeIds, NEW k \in Nat
  PROVE  IsStated(p, FetchAncestorDepths(C, p.root), x, p.root, k) <=>
           \/ x = p.root /\ k = 0
           \/ ClosureRow(x, p.root, k) \in C /\ k > 0
<1>1. p.root \in PayloadIds(p) /\ p.root \in NodeIds /\ p.nodes[p.root].depth = 0
  BY PayloadShape
<1>2. AncestorsWithinPayload(p)[p.root] = {}
  BY AncestorsOfNode
<1>3. AncestorRow(x, k) \in FetchAncestorDepths(C, p.root) <=> ClosureRow(x, p.root, k) \in C /\ k > 0
  BY <1>1, CapturedRows
<1> HIDE DEF FetchAncestorDepths
<1> QED
  BY <1>1, <1>2, <1>3 DEF IsStated

(***************************************************************************)
(* Stated rows lead from inside the payload, at the difference of the two  *)
(* depths, or from above it, through the root.                             *)
(***************************************************************************)
LEMMA StatedRowsAre ==
  ASSUME NEW C \in SUBSET ClosureRows, NEW p, IsFlattened(p),
         NEW x \in NodeIds, NEW y \in NodeIds, NEW k \in Nat,
         IsStated(p, FetchAncestorDepths(C, p.root), x, y, k)
  PROVE  /\ y \in PayloadIds(p)
         /\ \/ /\ x \in PayloadIds(p)
               /\ p.nodes[x].depth + k = p.nodes[y].depth
               /\ k = 0 => x = y
            \/ \E d \in Nat : /\ d > 0
                              /\ ClosureRow(x, p.root, d) \in C
                              /\ k = d + p.nodes[y].depth
<1>1. y \in PayloadIds(p) /\ p.nodes[y].depth \in Nat /\ p.root \in NodeIds
  BY PayloadShape DEF IsStated
<1>2. CASE x = y /\ k = 0
  BY <1>1, <1>2
<1>3. CASE AncestorRow(x, k) \in AncestorsWithinPayload(p)[y]
  <2>1. AncestorRow(x, k).ancestor_id = x /\ AncestorRow(x, k).depth = k
    BY DEF AncestorRow
  <2>2. x \in PayloadIds(p) /\ k /= 0 /\ p.nodes[x].depth + k = p.nodes[y].depth
    BY <1>1, <1>3, <2>1, DepthsWithinPayload DEF DepthsAddUp
  <2> QED
    BY <1>1, <2>2
<1>4. CASE \E d \in Nat : /\ AncestorRow(x, d) \in FetchAncestorDepths(C, p.root)
                          /\ k = d + p.nodes[y].depth
  BY <1>1, <1>4, CapturedRows
<1> QED
  BY <1>2, <1>3, <1>4 DEF IsStated

LEMMA ClosureStoredIs ==
  ASSUME NEW N \in NodeTables, NEW C \in SUBSET ClosureRows, Agrees(N, C),
         NEW p, IsFlattened(p)
  PROVE  /\ ClosureStored(C, p) \in SUBSET ClosureRows
         /\ \A x, y \in NodeIds, k \in Nat :
              ClosureRow(x, y, k) \in ClosureStored(C, p) <=>
                \/ ClosureRow(x, y, k) \in C /\ y \notin Touched(C, p)
                \/ IsStated(p, FetchAncestorDepths(C, p.root), x, y, k)
<1>1. p.root \in NodeIds
  BY PayloadShape
<1>2. FetchAncestorDepths(C, p.root) \in SUBSET AncestorRows
  BY <1>1, CapturedRows
<1>3. /\ RowsAdded(C, p) \subseteq ClosureRows
      /\ \A x \in NodeIds, y \in NodeIds, k \in Nat :
           ClosureRow(x, y, k) \in RowsAdded(C, p) <=>
             IsStated(p, FetchAncestorDepths(C, p.root), x, y, k)
  BY <1>2, RowsStated DEF RowsAdded
<1>4. /\ RowsKept(C, p) \subseteq C
      /\ \A x, y \in NodeIds, k \in Nat :
           ClosureRow(x, y, k) \in RowsKept(C, p) <=>
             ClosureRow(x, y, k) \in C /\ y \notin Touched(C, p)
  BY RowsKeptAre
<1> QED
  BY <1>3, <1>4 DEF ClosureStored

(***************************************************************************)
(* The heart of store_hierarchy: if node_closure agreed with the parent    *)
(* edges before a write that passed the cycle check, it agrees after it.   *)
(***************************************************************************)
LEMMA StoreKeepsAgreement ==
  ASSUME NEW N \in NodeTables, NEW C \in SUBSET ClosureRows, Agrees(N, C),
         NEW p, IsFlattened(p), PassesCheck(C, p)
  PROVE  /\ NodesStored(N, C, p) \in NodeTables
         /\ ClosureStored(C, p) \in SUBSET ClosureRows
         /\ Agrees(NodesStored(N, C, p), ClosureStored(C, p))
<1> DEFINE S == NodesStored(N, C, p)
           D == ClosureStored(C, p)
           T == Touched(C, p)
           Ids == PayloadIds(p)
           A == FetchAncestorDepths(C, p.root)
           Stated(x, y, k) == IsStated(p, A, x, y, k)
           deep(id) == p.nodes[id].depth
           par(id) == p.nodes[id].parent_id
<1>1. /\ S \in NodeTables
      /\ DOMAIN S = (DOMAIN N \ T) \union Ids
      /\ \A id \in DOMAIN N \ T : S[id] = N[id]
      /\ \A id \in Ids : S[id] = RowsUpserted(N, p)[id]
  <2>1. NodesStored(N, C, p) \in NodeTables
    BY NodesStoredAre
  <2>2. /\ DOMAIN NodesStored(N, C, p) = (DOMAIN N \ Touched(C, p)) \union PayloadIds(p)
        /\ \A id \in DOMAIN N \ Touched(C, p) : NodesStored(N, C, p)[id] = N[id]
        /\ \A id \in PayloadIds(p) : NodesStored(N, C, p)[id] = RowsUpserted(N, p)[id]
    BY NodesStoredAre
  <2> QED
    BY <2>1, <2>2
<1>2. /\ D \in SUBSET ClosureRows
      /\ \A x, y \in NodeIds, k \in Nat :
           ClosureRow(x, y, k) \in D <=>
             (ClosureRow(x, y, k) \in C /\ y \notin T) \/ Stated(x, y, k)
  BY ClosureStoredIs
<1>3. Walks(N, C) /\ DOMAIN N \subseteq NodeIds
  BY AgreesIsWalks, NodeTableIs
<1>4. /\ \A id \in DOMAIN N \ T : N[id].parent_id \notin T
      /\ \A x, y \in NodeIds, k \in Nat : ClosureRow(x, y, k) \in C /\ y \notin T => x \notin T
      /\ \A x \in NodeIds, k \in Nat : ClosureRow(x, p.root, k) \in C /\ k > 0 => x \notin T
      /\ p.root \in DOMAIN N => N[p.root].parent_id \notin T
  BY NothingHangsFromTouched
<1>5. /\ Ids \subseteq NodeIds /\ p.root \in Ids /\ Ids \subseteq T
      /\ \A id \in Ids : deep(id) \in Nat
      /\ deep(p.root) = 0
      /\ \A id \in Ids \ {p.root} : par(id) \in Ids /\ deep(id) = deep(par(id)) + 1
  BY PayloadShape DEF Touched
<1>6. /\ \A id \in Ids \ {p.root} : S[id].parent_id = par(id)
      /\ S[p.root].parent_id = FetchParentId(N, p.root)
  BY <1>1, <1>5, RowsUpsertedAre
<1>7. \A x, y \in NodeIds, k \in Nat : Stated(x, y, k) =>
        /\ y \in Ids
        /\ \/ x \in Ids /\ deep(x) + k = deep(y) /\ (k = 0 => x = y)
           \/ \E d \in Nat : d > 0 /\ ClosureRow(x, p.root, d) \in C /\ k = d + deep(y)
  <2> TAKE x, y \in NodeIds, k \in Nat
  <2> HAVE Stated(x, y, k)
  <2> QED
    BY StatedRowsAre
<1>8. \A y \in Ids \ {p.root}, x \in NodeIds, k \in Nat : Stated(x, y, k + 1) <=> Stated(x, par(y), k)
  <2>1. A \in SUBSET AncestorRows
    BY <1>5, CapturedRows
  <2> QED
    BY <2>1, StatedThroughParent
<1>9. \A x \in NodeIds, k \in Nat :
        Stated(x, p.root, k) <=> (x = p.root /\ k = 0) \/ (ClosureRow(x, p.root, k) \in C /\ k > 0)
  BY StatedForRoot
<1>11. \A id \in NodeIds : FetchParentId(N, p.root) = id =>
         p.root \in DOMAIN N /\ N[p.root].parent_id = id /\ id \notin T
  BY <1>4, NoParentAssumption DEF FetchParentId
<1> HIDE DEF S, D, T, Ids, A, Stated, deep, par
<1>12. DOMAIN S \subseteq NodeIds
  BY <1>1, <1>3, <1>5
<1>13. ParentsAreStored(S)
  BY ParentsStayStored DEF S
<1>14. \A id \in DOMAIN S : ClosureRow(id, id, 0) \in D
  <2> TAKE id \in DOMAIN S
  <2>1. id \in NodeIds
    BY <1>12
  <2>2. CASE id \in DOMAIN N \ T
    <3>1. ClosureRow(id, id, 0) \in C
      BY <2>2, AgreesIsWalks
    <3> QED
      BY <1>2, <2>1, <2>2, <3>1
  <2>3. CASE id \in Ids
    <3>1. Stated(id, id, 0)
      BY <2>3 DEF Stated, IsStated, Ids
    <3> QED
      BY <1>2, <2>1, <3>1
  <2> QED
    BY <1>1, <2>2, <2>3
<1>15. ASSUME NEW x \in NodeIds, NEW y \in NodeIds, NEW k \in Nat,
              ClosureRow(x, y, k) \in C, y \notin T
       PROVE  /\ x \in DOMAIN S /\ y \in DOMAIN S
              /\ \A j \in Nat : ClosureRow(x, y, j) \in D => j = k
              /\ k = 0 => x = y
              /\ k > 0 => S[y].parent_id \in DOMAIN S /\ ClosureRow(x, S[y].parent_id, k - 1) \in D
              /\ \A id \in DOMAIN S : S[id].parent_id = y => ClosureRow(x, id, k + 1) \in D
  <2>1. /\ x \in DOMAIN N /\ y \in DOMAIN N
        /\ \A j \in Nat : ClosureRow(x, y, j) \in C => j = k
        /\ k = 0 => x = y
        /\ k > 0 => N[y].parent_id \in DOMAIN N /\ ClosureRow(x, N[y].parent_id, k - 1) \in C
        /\ \A id \in DOMAIN N : N[id].parent_id = y => ClosureRow(x, id, k + 1) \in C
    BY <1>3, <1>15 DEF Walks
  <2>2. x \notin T
    BY <1>4, <1>15
  <2>3. x \in DOMAIN S /\ y \in DOMAIN S /\ S[y] = N[y]
    BY <1>1, <1>15, <2>1, <2>2
  <2>4. \A j \in Nat : ClosureRow(x, y, j) \in D => j = k
    BY <1>2, <1>5, <1>7, <1>15, <2>1
  <2>5. ASSUME k > 0
        PROVE  S[y].parent_id \in DOMAIN S /\ ClosureRow(x, S[y].parent_id, k - 1) \in D
    <3>1. N[y].parent_id \in DOMAIN N \ T /\ N[y].parent_id \in NodeIds /\ k - 1 \in Nat
      BY <1>3, <1>4, <1>15, <2>1, <2>5
    <3> QED
      BY <1>1, <1>2, <2>1, <2>3, <2>5, <3>1
  <2>6. ASSUME NEW id \in DOMAIN S, S[id].parent_id = y
        PROVE  ClosureRow(x, id, k + 1) \in D
    <3>1. id \in NodeIds /\ k + 1 \in Nat /\ k + 1 > 0
      BY <1>12
    <3>2. CASE id \in DOMAIN N \ T
      BY <1>1, <1>2, <2>1, <2>6, <3>1, <3>2
    <3>3. CASE id \in Ids
      <4>1. id = p.root
        BY <1>5, <1>6, <1>15, <2>6, <3>3
      <4>2. p.root \in DOMAIN N /\ N[p.root].parent_id = y
        BY <1>6, <1>11, <2>6, <4>1
      <4>3. ClosureRow(x, p.root, k + 1) \in C
        BY <2>1, <4>2
      <4> QED
        BY <1>2, <1>9, <3>1, <4>1, <4>3
    <3> QED
      BY <1>1, <3>2, <3>3
  <2> QED
    BY <2>1, <2>3, <2>4, <2>5, <2>6
<1>16. ASSUME NEW x \in NodeIds, NEW y \in NodeIds, NEW k \in Nat, Stated(x, y, k)
       PROVE  /\ x \in DOMAIN S /\ y \in DOMAIN S
              /\ \A j \in Nat : ClosureRow(x, y, j) \in D => j = k
              /\ k = 0 => x = y
              /\ k > 0 => S[y].parent_id \in DOMAIN S /\ ClosureRow(x, S[y].parent_id, k - 1) \in D
              /\ \A id \in DOMAIN S : S[id].parent_id = y => ClosureRow(x, id, k + 1) \in D
  <2>1. y \in Ids /\ y \in DOMAIN S /\ y \in T /\ deep(y) \in Nat
    BY <1>1, <1>5, <1>7, <1>16
  <2>2. \A d \in Nat : d > 0 /\ ClosureRow(x, p.root, d) \in C =>
          x \in DOMAIN N \ T /\ \A j \in Nat : ClosureRow(x, p.root, j) \in C => j = d
    BY <1>3, <1>4, <1>5 DEF Walks
  <2>3. x \in DOMAIN S /\ (k = 0 => x = y)
    BY <1>1, <1>7, <1>16, <2>1, <2>2
  <2>4. ASSUME NEW j \in Nat, ClosureRow(x, y, j) \in D PROVE j = k
    <3>1. Stated(x, y, j)
      BY <1>2, <2>1, <2>4
    <3>2. CASE x \in Ids
      <4>1. x \in T /\ deep(x) \in Nat
        BY <1>5, <3>2
      <4>2. deep(x) + k = deep(y) /\ deep(x) + j = deep(y)
        BY <1>7, <1>16, <2>2, <3>1, <4>1
      <4> QED
        BY <2>1, <4>1, <4>2
    <3>3. CASE x \notin Ids
      <4>1. PICK d \in Nat : d > 0 /\ ClosureRow(x, p.root, d) \in C /\ k = d + deep(y)
        BY <1>7, <1>16, <3>3
      <4>2. PICK e \in Nat : e > 0 /\ ClosureRow(x, p.root, e) \in C /\ j = e + deep(y)
        BY <1>7, <3>1, <3>3
      <4>3. d = e
        BY <2>2, <4>1, <4>2
      <4> QED
        BY <4>1, <4>2, <4>3
    <3> QED
      BY <3>2, <3>3
  <2>5. ASSUME k > 0
        PROVE  S[y].parent_id \in DOMAIN S /\ ClosureRow(x, S[y].parent_id, k - 1) \in D
    <3>1. k - 1 \in Nat /\ (k - 1) + 1 = k
      BY <2>5
    <3>2. CASE y /= p.root
      <4>1. Stated(x, par(y), k - 1)
        BY <1>8, <1>16, <2>1, <3>1, <3>2
      <4>2. par(y) \in Ids /\ par(y) \in NodeIds /\ S[y].parent_id = par(y)
        BY <1>5, <1>6, <2>1, <3>2
      <4> QED
        BY <1>1, <1>2, <3>1, <4>1, <4>2
    <3>3. CASE y = p.root
      <4>1. ClosureRow(x, p.root, k) \in C
        BY <1>9, <1>16, <2>5, <3>3
      <4>2. p.root \in DOMAIN N /\ N[p.root].parent_id \in DOMAIN N
            /\ ClosureRow(x, N[p.root].parent_id, k - 1) \in C
        BY <1>3, <1>5, <2>5, <4>1 DEF Walks
      <4>3. N[p.root].parent_id \in DOMAIN N \ T /\ N[p.root].parent_id \in NodeIds
        BY <1>3, <1>4, <4>2
      <4>4. S[y].parent_id = N[p.root].parent_id
        BY <1>6, <3>3, <4>2 DEF FetchParentId
      <4> QED
        BY <1>1, <1>2, <3>1, <4>2, <4>3, <4>4
    <3> QED
      BY <3>2, <3>3
  <2>6. ASSUME NEW id \in DOMAIN S, S[id].parent_id = y
        PROVE  ClosureRow(x, id, k + 1) \in D
    <3>1. id \in Ids
      BY <1>1, <1>4, <2>1, <2>6
    <3>2. id /= p.root
      BY <1>6, <1>11, <2>1, <2>6
    <3>3. Stated(x, id, k + 1)
      BY <1>6, <1>8, <1>16, <2>6, <3>1, <3>2
    <3> QED
      BY <1>2, <1>12, <3>3
  <2> QED
    BY <2>1, <2>3, <2>4, <2>5, <2>6
<1>17. Walks(S, D)
  BY <1>2, <1>15, <1>16 DEF Walks
<1>18. Agrees(S, D)
  BY <1>1, <1>2, <1>13, <1>14, <1>17, AgreesIsWalks
<1> QED
  BY <1>1, <1>2, <1>18 DEF S, D

(***************************************************************************)
(* Agreeing tables meet every constraint, so the insert that makes them    *)
(* agree again is accepted, and states no pair that is still there.        *)
(***************************************************************************)
LEMMA AgreeingRowsAreAccepted ==
  ASSUME NEW N \in NodeTables, NEW C \in SUBSET ClosureRows, Agrees(N, C)
  PROVE  ClosureIsAccepted(N, C)
<1>1. \A row \in C : /\ row = ClosureRow(row.ancestor_id, row.descendant_id, row.depth)
                     /\ row.depth \in Nat
  BY DEF ClosureRows, ClosureRow
<1>2. ASSUME NEW row \in C, row.depth = 1 PROVE row.ancestor_id = N[row.descendant_id].parent_id
  <2>1. ClosureRow(row.ancestor_id, N[row.descendant_id].parent_id, 0) \in C
    BY <1>2 DEF Agrees, RowsGoThroughParents
  <2>2. ClosureRow(row.ancestor_id, N[row.descendant_id].parent_id, 0).depth = 0
    BY DEF ClosureRow
  <2> QED
    BY <2>1, <2>2 DEF Agrees, SelfRowsAgree, ClosureRow
<1>3. SingleParent(C)
  BY <1>1, <1>2 DEF SingleParent
<1> QED
  BY <1>1, <1>3 DEF Agrees, ClosureIsAccepted

LEMMA InsertIsAccepted ==
  ASSUME NEW N \in NodeTables, NEW C \in SUBSET ClosureRows, Agrees(N, C),
         NEW p, IsFlattened(p), PassesCheck(C, p)
  PROVE  /\ RowsKept(C, p) \intersect RowsAdded(C, p) = {}
         /\ ClosureIsAccepted(NodesStored(N, C, p), ClosureStored(C, p))
<1>1. ClosureIsAccepted(NodesStored(N, C, p), ClosureStored(C, p))
  BY StoreKeepsAgreement, AgreeingRowsAreAccepted
<1>2. ASSUME NEW row \in RowsKept(C, p), row \in RowsAdded(C, p) PROVE FALSE
  <2>1. row.descendant_id \notin PayloadIds(p)
    BY DEF RowsKept, WithoutDescendants
  <2>2. FetchAncestorDepths(C, p.root) \in SUBSET AncestorRows
    BY CapturedRows, PayloadShape
  <2>3. row \in ClosureRows
    BY <1>2, <2>2, RowsStated DEF RowsAdded
  <2>4. PICK x \in NodeIds, y \in NodeIds, k \in Nat : row = ClosureRow(x, y, k)
    BY <2>3 DEF ClosureRows, ClosureRow
  <2>5. IsStated(p, FetchAncestorDepths(C, p.root), x, y, k)
    BY <1>2, <2>2, <2>4, RowsStated DEF RowsAdded
  <2>6. row.descendant_id = y
    BY <2>4 DEF ClosureRow
  <2> QED
    BY <2>1, <2>5, <2>6 DEF IsStated
<1> QED
  BY <1>1, <1>2

-----------------------------------------------------------------------------
(* What reading back finds. *)

(***************************************************************************)
(* The rows of a subtree: one for each id that root_id is above.           *)
(***************************************************************************)
SubtreeRow(N, id, depth) ==
  [id |-> id, type |-> N[id].type, parent_id |-> N[id].parent_id, depth |-> depth]

LEMMA SubtreeRowsAre ==
  ASSUME NEW N \in NodeTables, NEW C \in SUBSET ClosureRows, Agrees(N, C),
         NEW root_id \in NodeIds
  PROVE  /\ \A row \in FetchSubtreeRows(N, C, root_id) :
              /\ row.id \in DOMAIN N /\ row.depth \in Nat
              /\ ClosureRow(root_id, row.id, row.depth) \in C
              /\ row = SubtreeRow(N, row.id, row.depth)
         /\ \A id \in NodeIds, k \in Nat :
              ClosureRow(root_id, id, k) \in C =>
                SubtreeRow(N, id, k) \in FetchSubtreeRows(N, C, root_id)
<1>1. \A row \in C : /\ row = ClosureRow(row.ancestor_id, row.descendant_id, row.depth)
                     /\ row.depth \in Nat
  BY DEF ClosureRows, ClosureRow
<1>2. ASSUME NEW row \in FetchSubtreeRows(N, C, root_id)
      PROVE  /\ row.id \in DOMAIN N /\ row.depth \in Nat
             /\ ClosureRow(root_id, row.id, row.depth) \in C
             /\ row = SubtreeRow(N, row.id, row.depth)
  <2>1. PICK r \in C : /\ r.ancestor_id = root_id /\ r.descendant_id \in DOMAIN N
                       /\ row = SubtreeRow(N, r.descendant_id, r.depth)
    BY DEF FetchSubtreeRows, SubtreeRow
  <2>2. row.id = r.descendant_id /\ row.depth = r.depth
    BY <2>1 DEF SubtreeRow
  <2> QED
    BY <1>1, <2>1, <2>2
<1>3. ASSUME NEW id \in NodeIds, NEW k \in Nat, ClosureRow(root_id, id, k) \in C
      PROVE  SubtreeRow(N, id, k) \in FetchSubtreeRows(N, C, root_id)
  <2>1. /\ ClosureRow(root_id, id, k).ancestor_id = root_id
        /\ ClosureRow(root_id, id, k).descendant_id = id
        /\ ClosureRow(root_id, id, k).depth = k
    BY DEF ClosureRow
  <2>2. id \in DOMAIN N
    BY <1>3, <2>1 DEF Agrees, EndsAreStored
  <2> QED
    BY <1>3, <2>1, <2>2 DEF FetchSubtreeRows, SubtreeRow
<1> QED
  BY <1>2, <1>3

(***************************************************************************)
(* The rows of agreeing tables always assemble: the posted root comes      *)
(* first, every other row after the row of its parent.                     *)
(***************************************************************************)
LEMMA SubtreeRowsAssemble ==
  ASSUME NEW N \in NodeTables, NEW C \in SUBSET ClosureRows, Agrees(N, C),
         NEW root_id \in NodeIds
  PROVE  LET rows == FetchSubtreeRows(N, C, root_id)
         IN  /\ rows = {} <=> root_id \notin DOMAIN N
             /\ Assembles(rows)
             /\ rows /= {} => FirstRow(rows).id = root_id
<1> DEFINE rows == FetchSubtreeRows(N, C, root_id)
           first == SubtreeRow(N, root_id, 0)
<1>1. /\ \A row \in rows : /\ row.id \in DOMAIN N /\ row.depth \in Nat
                           /\ ClosureRow(root_id, row.id, row.depth) \in C
                           /\ row = SubtreeRow(N, row.id, row.depth)
      /\ \A id \in NodeIds, k \in Nat :
           ClosureRow(root_id, id, k) \in C => SubtreeRow(N, id, k) \in rows
  BY SubtreeRowsAre
<1>2. Walks(N, C) /\ DOMAIN N \subseteq NodeIds
      /\ \A id \in DOMAIN N : ClosureRow(id, id, 0) \in C
  BY AgreesIsWalks, NodeTableIs
<1> HIDE DEF rows
<1>3. root_id \in DOMAIN N => first \in rows
  BY <1>1, <1>2
<1>4. rows /= {} => root_id \in DOMAIN N
  BY <1>1, <1>2 DEF Walks
<1>5. first.id = root_id /\ first.depth = 0
  BY DEF SubtreeRow
<1>6. \A row \in rows \ {first} : row.depth > 0
  <2> SUFFICES ASSUME NEW row \in rows, row.depth = 0 PROVE row = first
    BY <1>1
  <2>1. row.id = root_id
    BY <1>1, <1>2 DEF Walks
  <2> QED
    BY <1>1, <2>1
<1>7. \A row \in rows \ {first} : Before(first, row)
  BY <1>5, <1>6 DEF Before
<1>8. Assembles(rows)
  <2> SUFFICES ASSUME NEW row \in rows, row /= first
               PROVE  \E other \in rows : other.id = row.parent_id /\ Before(other, row)
    BY <1>7 DEF Assembles
  <2>1. row.depth > 0 /\ row.depth - 1 \in Nat
    BY <1>1, <1>6
  <2>2. /\ N[row.id].parent_id \in NodeIds
        /\ ClosureRow(root_id, N[row.id].parent_id, row.depth - 1) \in C
    BY <1>1, <1>2, <2>1 DEF Walks
  <2> DEFINE other == SubtreeRow(N, N[row.id].parent_id, row.depth - 1)
  <2>3. other \in rows
    BY <1>1, <2>1, <2>2
  <2>4. other.id = N[row.id].parent_id /\ other.depth = row.depth - 1
    BY DEF SubtreeRow
  <2>5. row.parent_id = N[row.id].parent_id
    BY <1>1 DEF SubtreeRow
  <2>6. Before(other, row)
    BY <1>1, <2>1, <2>4 DEF Before
  <2> QED
    BY <2>3, <2>4, <2>5, <2>6
<1>9. ASSUME rows /= {} PROVE FirstRow(rows).id = root_id
  <2>1. first \in rows
    BY <1>3, <1>4, <1>9
  <2> DEFINE found == FirstRow(rows)
  <2>2. found \in rows /\ \A other \in rows \ {found} : Before(found, other)
    BY <1>7, <2>1 DEF FirstRow
  <2> HIDE DEF found
  <2>3. found = first
    <3> SUFFICES ASSUME found /= first PROVE FALSE
      OBVIOUS
    <3>1. Before(found, first)
      BY <2>1, <2>2
    <3>2. found.depth \in Nat /\ found.depth > 0
      BY <1>1, <1>6, <2>2
    <3> HIDE DEF first
    <3> QED
      BY <1>5, <3>1, <3>2 DEF Before
  <2> QED
    BY <1>5, <2>3 DEF found
<1> QED
  BY <1>3, <1>4, <1>8, <1>9 DEF rows

(***************************************************************************)
(* And what they assemble to, node by node.                                *)
(***************************************************************************)
LEMMA AssembledTreeIs ==
  ASSUME NEW N \in NodeTables, NEW C \in SUBSET ClosureRows, Agrees(N, C),
         NEW root_id \in NodeIds, root_id \in DOMAIN N
  PROVE  LET rows == FetchSubtreeRows(N, C, root_id)
             reached == {row.id : row \in rows}
         IN  /\ AssembleTree(rows) =
                  [root |-> root_id,
                   nodes |-> [id \in reached |->
                                [type |-> N[id].type,
                                 parent_id |-> IF id = root_id THEN NoParent ELSE N[id].parent_id]]]
             /\ AssembleTree(rows) \in Trees
<1> DEFINE rows == FetchSubtreeRows(N, C, root_id)
           reached == {row.id : row \in rows}
           RowOf(id) == CHOOSE r \in rows : r.id = id
           parent(id) == IF id = root_id THEN NoParent ELSE N[id].parent_id
           built == [id \in reached |-> [type |-> N[id].type, parent_id |-> parent(id)]]
<1>1. \A row \in rows : /\ row.id \in DOMAIN N
                        /\ row = SubtreeRow(N, row.id, row.depth)
  BY SubtreeRowsAre
<1>2. rows /= {} /\ FirstRow(rows).id = root_id
  BY SubtreeRowsAssemble
<1>3. root_id \in reached
  <2>1. ClosureRow(root_id, root_id, 0) \in C
    BY AgreesIsWalks
  <2>2. SubtreeRow(N, root_id, 0) \in rows
    BY <2>1, SubtreeRowsAre
  <2> QED
    BY <2>2 DEF SubtreeRow
<1> HIDE DEF rows
<1>4. \A id \in reached : RowOf(id).type = N[id].type /\ RowOf(id).parent_id = N[id].parent_id
  <2> TAKE id \in reached
  <2>1. RowOf(id) \in rows /\ RowOf(id).id = id
    OBVIOUS
  <2> HIDE DEF RowOf
  <2> QED
    BY <1>1, <2>1 DEF SubtreeRow
<1>5. AssembleTree(rows) =
        [root |-> root_id,
         nodes |-> [id \in reached |->
                      [type |-> RowOf(id).type,
                       parent_id |-> IF id = root_id THEN NoParent ELSE RowOf(id).parent_id]]]
  BY <1>2, Zenon DEF AssembleTree
<1> HIDE DEF RowOf
<1>6. [id \in reached |->
         [type |-> RowOf(id).type,
          parent_id |-> IF id = root_id THEN NoParent ELSE RowOf(id).parent_id]] = built
  BY <1>4
<1>7. AssembleTree(rows) = [root |-> root_id, nodes |-> built]
  BY <1>5, <1>6
<1>8. reached \subseteq DOMAIN N /\ DOMAIN N \subseteq NodeIds
      /\ \A id \in DOMAIN N : N[id] \in NodeData
  BY <1>1, NodeTableIs
<1> HIDE DEF reached
<1>9. \A id \in reached : built[id] \in NodeData
  <2> TAKE id \in reached
  <2>1. N[id].type \in NodeTypes /\ N[id].parent_id \in ParentIds
    BY <1>8 DEF NodeData
  <2>2. parent(id) \in ParentIds
    BY <2>1 DEF ParentIds
  <2> HIDE DEF parent
  <2> QED
    BY <2>1, <2>2 DEF NodeData
<1>10. built \in NodeTables
  <2>1. built = [id \in DOMAIN built |-> built[id]] /\ DOMAIN built = reached
    OBVIOUS
  <2> HIDE DEF built
  <2> QED
    BY <1>8, <1>9, <2>1, NodeTableIs
<1>11. [root |-> root_id, nodes |-> built] \in Trees
  <2>1. DOMAIN built = reached
    OBVIOUS
  <2> HIDE DEF built
  <2> QED
    BY <1>3, <1>10, <2>1 DEF Trees
<1> QED
  BY <1>7, <1>11 DEF rows, reached

(***************************************************************************)
(* Reading back what a write stored finds the hierarchy that was posted,   *)
(* whatever was stored before.                                             *)
(***************************************************************************)
LEMMA PostedIsReadBack ==
  ASSUME NEW N \in NodeTables, NEW C \in SUBSET ClosureRows, Agrees(N, C),
         NEW p, IsFlattened(p), PassesCheck(C, p)
  PROVE  LET rows == FetchSubtreeRows(NodesStored(N, C, p), ClosureStored(C, p), p.root)
         IN  /\ rows /= {}
             /\ Assembles(rows)
             /\ AssembleTree(rows) = PostedTree(p)
             /\ AssembleTree(rows) \in Trees
<1> DEFINE S == NodesStored(N, C, p)
           D == ClosureStored(C, p)
           rows == FetchSubtreeRows(S, D, p.root)
           reached == {row.id : row \in rows}
           A == FetchAncestorDepths(C, p.root)
<1>1. S \in NodeTables /\ D \in SUBSET ClosureRows /\ Agrees(S, D)
  BY StoreKeepsAgreement
<1>2. /\ PayloadIds(p) \subseteq NodeIds /\ p.root \in PayloadIds(p)
      /\ \A id \in PayloadIds(p) : p.nodes[id].depth \in Nat
      /\ p.nodes[p.root].parent_id = NoParent
  BY PayloadShape
<1>3. /\ p.root \in DOMAIN S
      /\ \A id \in PayloadIds(p) : S[id] = RowsUpserted(N, p)[id]
  <2>1. /\ DOMAIN NodesStored(N, C, p) = (DOMAIN N \ Touched(C, p)) \union PayloadIds(p)
        /\ \A id \in DOMAIN N \ Touched(C, p) : NodesStored(N, C, p)[id] = N[id]
        /\ \A id \in PayloadIds(p) : NodesStored(N, C, p)[id] = RowsUpserted(N, p)[id]
    BY NodesStoredAre
  <2> QED
    BY <1>2, <2>1
<1>4. \A id \in PayloadIds(p) :
        /\ S[id].type = p.nodes[id].type
        /\ (IF id = p.root THEN NoParent ELSE S[id].parent_id) = p.nodes[id].parent_id
  <2> HIDE DEF S
  <2> QED
    BY <1>2, <1>3, RowsUpsertedAre
<1>5. /\ \A row \in rows : row.id \in NodeIds /\ row.depth \in Nat
                           /\ ClosureRow(p.root, row.id, row.depth) \in D
      /\ \A id \in NodeIds, k \in Nat :
           ClosureRow(p.root, id, k) \in D => SubtreeRow(S, id, k) \in rows
  <2>1. DOMAIN S \subseteq NodeIds
    BY <1>1, NodeTableIs
  <2> HIDE DEF S, D
  <2> QED
    BY <1>1, <1>2, <2>1, SubtreeRowsAre
<1>6. \A x, y \in NodeIds, k \in Nat :
        ClosureRow(x, y, k) \in D <=>
          (ClosureRow(x, y, k) \in C /\ y \notin Touched(C, p)) \/ IsStated(p, A, x, y, k)
  BY ClosureStoredIs
<1>7. p.root \in Touched(C, p)
      /\ \A x, y \in NodeIds, k \in Nat :
           ClosureRow(x, y, k) \in C /\ y \notin Touched(C, p) => x \notin Touched(C, p)
  BY <1>2, NothingHangsFromTouched DEF Touched
<1>8. \A y \in NodeIds, k \in Nat : ClosureRow(p.root, y, k) \in D => y \in PayloadIds(p)
  <2> HIDE DEF D
  <2> QED
    BY <1>2, <1>6, <1>7 DEF IsStated
<1>9. ASSUME NEW id \in PayloadIds(p) PROVE id \in reached
  <2>1. IsStated(p, A, p.root, id, p.nodes[id].depth)
    <3>1. CASE id = p.root
      BY <3>1, PayloadShape DEF IsStated
    <3>2. CASE id /= p.root
      BY <3>2, DepthsWithinPayload DEF DepthsAddUp, IsStated
    <3> QED
      BY <3>1, <3>2
  <2> HIDE DEF D, S, A, rows
  <2>2. ClosureRow(p.root, id, p.nodes[id].depth) \in D
    BY <1>2, <1>6, <2>1
  <2>3. SubtreeRow(S, id, p.nodes[id].depth) \in rows
    BY <1>2, <1>5, <2>2
  <2> QED
    BY <2>3 DEF SubtreeRow
<1>10. reached = PayloadIds(p)
  <2> HIDE DEF rows, D
  <2> QED
    BY <1>5, <1>8, <1>9
<1>11. /\ AssembleTree(rows) =
            [root |-> p.root,
             nodes |-> [id \in reached |->
                          [type |-> S[id].type,
                           parent_id |-> IF id = p.root THEN NoParent ELSE S[id].parent_id]]]
       /\ AssembleTree(rows) \in Trees
  <2> HIDE DEF S, D
  <2> QED
    BY <1>1, <1>2, <1>3, AssembledTreeIs
<1>12. rows /= {} /\ Assembles(rows)
  <2> HIDE DEF S, D
  <2> QED
    BY <1>1, <1>2, <1>3, SubtreeRowsAssemble
<1> HIDE DEF S, reached, rows
<1>13. AssembleTree(rows) = PostedTree(p)
  BY <1>4, <1>10, <1>11 DEF PostedTree
<1> QED
  BY <1>11, <1>12, <1>13 DEF rows, S, D

(***************************************************************************)
(* Deleting no node deletes none.                                          *)
(***************************************************************************)
LEMMA NoneDeleted ==
  ASSUME NEW N \in NodeTables, NEW C
  PROVE  /\ WithoutNodes(N, {}) = N
         /\ WithoutRowsOf(C, {}) = C
         /\ WithoutDescendants(C, {}) = C
<1>1. N = [id \in DOMAIN N |-> N[id]]
  BY NodeTableIs
<1> QED
  BY <1>1 DEF WithoutNodes, WithoutRowsOf, WithoutDescendants

-----------------------------------------------------------------------------
(* Agreeing tables and the oracle of the tests. *)

(***************************************************************************)
(* The node `steps` above `id`, as the closure has it.                     *)
(***************************************************************************)
IsAbove(C, x, id, steps) == x \in NodeIds /\ ClosureRow(x, id, steps) \in C

Above(C, id, steps) ==
  IF \E x : IsAbove(C, x, id, steps) THEN CHOOSE x : IsAbove(C, x, id, steps) ELSE NoParent

LEMMA OneIsAbove ==
  ASSUME NEW N \in NodeTables, NEW C \in SUBSET ClosureRows, Agrees(N, C),
         NEW id \in DOMAIN N, NEW steps \in Nat
  PROVE  \A x, y : IsAbove(C, x, id, steps) /\ IsAbove(C, y, id, steps) => x = y
<1> DEFINE T == {n \in Nat : \A w \in DOMAIN N : \A x, y :
                   IsAbove(C, x, w, n) /\ IsAbove(C, y, w, n) => x = y}
<1>1. Walks(N, C) /\ DOMAIN N \subseteq NodeIds
  BY AgreesIsWalks DEF NodeTables
<1>2. 0 \in T
  BY <1>1 DEF Walks, IsAbove
<1>3. ASSUME NEW n \in T PROVE n + 1 \in T
  <2> SUFFICES ASSUME NEW w \in DOMAIN N, NEW x, NEW y,
                      IsAbove(C, x, w, n + 1), IsAbove(C, y, w, n + 1)
               PROVE  x = y
    OBVIOUS
  <2>1. /\ N[w].parent_id \in DOMAIN N
        /\ ClosureRow(x, N[w].parent_id, (n + 1) - 1) \in C
        /\ ClosureRow(y, N[w].parent_id, (n + 1) - 1) \in C
    BY <1>1 DEF Walks, IsAbove
  <2>2. IsAbove(C, x, N[w].parent_id, n) /\ IsAbove(C, y, N[w].parent_id, n)
    BY <2>1 DEF IsAbove
  <2> QED
    BY <2>1, <2>2
<1>4. T = Nat
  <2>1. T \in SUBSET Nat
    OBVIOUS
  <2> HIDE DEF T
  <2> QED
    BY <1>2, <1>3, <2>1, SetInduction
<1> QED
  BY <1>4

(***************************************************************************)
(* One edge further up is the parent of what is there.                     *)
(***************************************************************************)
LEMMA AboveIsParent ==
  ASSUME NEW N \in NodeTables, NEW C \in SUBSET ClosureRows, Agrees(N, C),
         NEW id \in DOMAIN N, NEW steps \in Nat, NEW x
  PROVE  IsAbove(C, x, id, steps + 1) <=>
           x /= NoParent /\ \E y \in DOMAIN N : IsAbove(C, y, id, steps) /\ N[y].parent_id = x
<1> DEFINE T == {n \in Nat : \A w \in DOMAIN N :
                   IsAbove(C, x, w, n + 1) =>
                     \E y \in DOMAIN N : IsAbove(C, y, w, n) /\ N[y].parent_id = x}
<1>1. /\ Walks(N, C) /\ DOMAIN N \subseteq NodeIds
      /\ \A w \in DOMAIN N : ClosureRow(w, w, 0) \in C
      /\ \A w \in DOMAIN N : N[w].parent_id \in DOMAIN N \union {NoParent}
  BY AgreesIsWalks DEF NodeTables, ParentsAreStored
<1>2. 0 \in T
  <2> SUFFICES ASSUME NEW w \in DOMAIN N, IsAbove(C, x, w, 1)
               PROVE  IsAbove(C, w, w, 0) /\ N[w].parent_id = x
    OBVIOUS
  <2>1. N[w].parent_id \in DOMAIN N /\ ClosureRow(x, N[w].parent_id, 1 - 1) \in C
    BY <1>1 DEF Walks, IsAbove
  <2>2. x = N[w].parent_id
    BY <1>1, <2>1 DEF Walks, IsAbove
  <2> QED
    BY <1>1, <2>2 DEF IsAbove
<1>3. ASSUME NEW n \in T PROVE n + 1 \in T
  <2> SUFFICES ASSUME NEW w \in DOMAIN N, IsAbove(C, x, w, (n + 1) + 1)
               PROVE  \E y \in DOMAIN N : IsAbove(C, y, w, n + 1) /\ N[y].parent_id = x
    OBVIOUS
  <2>1. /\ N[w].parent_id \in DOMAIN N
        /\ ClosureRow(x, N[w].parent_id, ((n + 1) + 1) - 1) \in C
    BY <1>1 DEF Walks, IsAbove
  <2>2. IsAbove(C, x, N[w].parent_id, n + 1)
    BY <2>1 DEF IsAbove
  <2>3. PICK y \in DOMAIN N : IsAbove(C, y, N[w].parent_id, n) /\ N[y].parent_id = x
    BY <2>1, <2>2
  <2>4. IsAbove(C, y, w, n + 1)
    BY <1>1, <2>1, <2>3 DEF Walks, IsAbove
  <2> QED
    BY <2>3, <2>4
<1>4. T = Nat
  <2>1. T \in SUBSET Nat
    OBVIOUS
  <2> HIDE DEF T
  <2> QED
    BY <1>2, <1>3, <2>1, SetInduction
<1>5. ASSUME x /= NoParent, NEW y \in DOMAIN N, IsAbove(C, y, id, steps), N[y].parent_id = x
      PROVE  IsAbove(C, x, id, steps + 1)
  <2>1. x \in DOMAIN N /\ ClosureRow(x, x, 0) \in C
    BY <1>1, <1>5
  <2>2. ClosureRow(x, y, 0 + 1) \in C
    BY <1>1, <1>5, <2>1 DEF Walks
  <2>3. ClosureRow(x, id, 1 + steps) \in C
    BY <1>1, <1>5, <2>1, <2>2, RowsCompose DEF IsAbove
  <2> QED
    BY <1>1, <2>1, <2>3 DEF IsAbove
<1>6. IsAbove(C, x, id, steps + 1) => x /= NoParent
  BY NoParentAssumption DEF IsAbove
<1> QED
  BY <1>4, <1>5, <1>6

LEMMA AboveIs ==
  ASSUME NEW N \in NodeTables, NEW C \in SUBSET ClosureRows, Agrees(N, C),
         NEW id \in DOMAIN N, NEW steps \in Nat
  PROVE  /\ Above(C, id, steps) \in DOMAIN N \union {NoParent}
         /\ \A x \in NodeIds : Above(C, id, steps) = x <=> ClosureRow(x, id, steps) \in C
<1>1. CASE \E x : IsAbove(C, x, id, steps)
  <2>1. IsAbove(C, Above(C, id, steps), id, steps)
    BY <1>1 DEF Above
  <2>2. Above(C, id, steps) \in DOMAIN N
    BY <2>1, AgreesIsWalks DEF IsAbove, Walks, NodeTables
  <2>3. \A x \in NodeIds : ClosureRow(x, id, steps) \in C => Above(C, id, steps) = x
    BY <2>1, OneIsAbove DEF IsAbove
  <2> QED
    BY <2>1, <2>2, <2>3 DEF IsAbove
<1>2. CASE ~\E x : IsAbove(C, x, id, steps)
  BY <1>2, NoParentAssumption DEF Above, IsAbove
<1> QED
  BY <1>1, <1>2

LEMMA AboveStepByStep ==
  ASSUME NEW N \in NodeTables, NEW C \in SUBSET ClosureRows, Agrees(N, C),
         NEW id \in DOMAIN N, NEW steps \in Nat
  PROVE  Above(C, id, steps) = IF steps = 0 THEN id
                               ELSE IF Above(C, id, steps - 1) = NoParent THEN NoParent
                               ELSE N[Above(C, id, steps - 1)].parent_id
<1>1. /\ DOMAIN N \subseteq NodeIds /\ NoParent \notin NodeIds
      /\ \A w \in DOMAIN N : ClosureRow(w, w, 0) \in C
      /\ \A w \in DOMAIN N : N[w].parent_id \in DOMAIN N \union {NoParent}
  BY AgreesIsWalks, NoParentAssumption DEF NodeTables, ParentsAreStored
<1>2. CASE steps = 0
  BY <1>1, <1>2, AboveIs
<1>3. CASE steps /= 0
  <2> DEFINE n == steps - 1
             below == Above(C, id, n)
             here == Above(C, id, steps)
  <2>1. n \in Nat /\ steps = n + 1
    BY <1>3
  <2>2. /\ below \in DOMAIN N \union {NoParent}
        /\ \A y \in NodeIds : below = y <=> IsAbove(C, y, id, n)
    BY <2>1, AboveIs DEF IsAbove
  <2>3. /\ here \in DOMAIN N \union {NoParent}
        /\ \A x \in NodeIds : here = x <=> IsAbove(C, x, id, steps)
    BY AboveIs DEF IsAbove
  <2>4. \A x : IsAbove(C, x, id, steps) <=>
                 x /= NoParent /\ \E y \in DOMAIN N : IsAbove(C, y, id, n) /\ N[y].parent_id = x
    BY <2>1, AboveIsParent
  <2> HIDE DEF below, here, n
  <2>5. \A x \in DOMAIN N :
          here = x <=> below /= NoParent /\ N[below].parent_id = x
    BY <1>1, <2>2, <2>3, <2>4
  <2>6. here = IF below = NoParent THEN NoParent ELSE N[below].parent_id
    BY <1>1, <2>2, <2>3, <2>5
  <2> QED
    BY <1>3, <2>6 DEF below, here, n
<1> QED
  BY <1>2, <1>3

(***************************************************************************)
(* The walk of the oracle is the one the closure tells: the rows solve its *)
(* recursion, and nothing else does.                                       *)
(***************************************************************************)
LEMMA WalkUpIsAbove ==
  ASSUME NEW N \in NodeTables, NEW C \in SUBSET ClosureRows, Agrees(N, C),
         Cardinality(DOMAIN N) \in Nat
  PROVE  WalkUp(N) = [steps \in 0..Cardinality(DOMAIN N) |->
                        [id \in DOMAIN N |-> Above(C, id, steps)]]
<1> DEFINE n == Cardinality(DOMAIN N)
           G == [steps \in 0..n |-> [id \in DOMAIN N |-> Above(C, id, steps)]]
           Body(up, steps) ==
             [id \in DOMAIN N |->
                IF steps = 0 THEN id
                ELSE IF up[steps - 1][id] = NoParent THEN NoParent
                ELSE N[up[steps - 1][id]].parent_id]
           Solves(up) == up = [steps \in 0..n |-> Body(up, steps)]
<1>1. Solves(G)
  <2> SUFFICES ASSUME NEW steps \in 0..n
               PROVE  [id \in DOMAIN N |-> Above(C, id, steps)] = Body(G, steps)
    OBVIOUS
  <2>1. ASSUME NEW id \in DOMAIN N
        PROVE  Above(C, id, steps) =
                 IF steps = 0 THEN id
                 ELSE IF G[steps - 1][id] = NoParent THEN NoParent
                 ELSE N[G[steps - 1][id]].parent_id
    <3>1. steps /= 0 => G[steps - 1][id] = Above(C, id, steps - 1)
      OBVIOUS
    <3> HIDE DEF G
    <3> QED
      BY <3>1, AboveStepByStep
  <2> HIDE DEF G
  <2> QED
    BY <2>1
<1>2. WalkUp(N) = CHOOSE up : Solves(up)
  BY DEF WalkUp
<1>3. Solves(WalkUp(N))
  <2> HIDE DEF G, Solves
  <2> QED
    BY <1>1, <1>2
<1> DEFINE W == WalkUp(N)
           T == {k \in Nat : k \in 0..n => W[k] = G[k]}
<1>4. \A steps \in 0..n : W[steps] = Body(W, steps) /\ G[steps] = Body(G, steps)
  <2>1. W = [steps \in 0..n |-> Body(W, steps)] /\ G = [steps \in 0..n |-> Body(G, steps)]
    BY <1>1, <1>3
  <2> HIDE DEF W, G, Body
  <2> QED
    BY <2>1
<1> HIDE DEF W, G, n
<1>5. n \in Nat
  BY DEF n
<1>6. 0 \in T
  BY <1>4, <1>5
<1>7. ASSUME NEW k \in T PROVE k + 1 \in T
  <2> SUFFICES ASSUME k + 1 \in 0..n PROVE W[k + 1] = G[k + 1]
    OBVIOUS
  <2>1. W[k] = G[k] /\ (k + 1) - 1 = k
    BY <1>5
  <2>2. Body(W, k + 1) = Body(G, k + 1)
    BY <2>1
  <2> HIDE DEF Body
  <2> QED
    BY <1>4, <2>2
<1>8. T = Nat
  <2>1. T \in SUBSET Nat
    OBVIOUS
  <2> HIDE DEF T
  <2> QED
    BY <1>6, <1>7, <2>1, SetInduction
<1>9. DOMAIN W = 0..n /\ W = [steps \in 0..n |-> W[steps]]
  <2>1. W = [steps \in 0..n |-> Body(W, steps)]
    BY <1>3 DEF W, n
  <2> HIDE DEF Body
  <2> QED
    BY <2>1
<1>10. G = [steps \in 0..n |-> G[steps]]
  BY DEF G
<1>11. \A steps \in 0..n : W[steps] = G[steps]
  BY <1>5, <1>8
<1>12. W = G
  BY <1>9, <1>10, <1>11
<1> QED
  BY <1>12 DEF W, G, n

(***************************************************************************)
(* No row is longer than there are nodes: the nodes on the way are as many *)
(* as its depth and one more, and all different.                           *)
(***************************************************************************)
LEMMA RowsAreShort ==
  ASSUME NEW N \in NodeTables, NEW C \in SUBSET ClosureRows, Agrees(N, C),
         IsFiniteSet(DOMAIN N), NEW x \in NodeIds, NEW y \in NodeIds, NEW k \in Nat,
         ClosureRow(x, y, k) \in C
  PROVE  k < Cardinality(DOMAIN N)
<1> DEFINE way == [steps \in 0..k |-> Above(C, y, steps)]
           T == {n \in Nat : n \in 0..k => way[k - n] /= NoParent}
<1>1. /\ Walks(N, C) /\ DOMAIN N \subseteq NodeIds /\ y \in DOMAIN N
  BY AgreesIsWalks DEF NodeTables, Walks
<1>2. 0 \in T
  <2>1. way[k - 0] = x
    BY <1>1, AboveIs
  <2> QED
    BY <2>1, NoParentAssumption
<1>3. ASSUME NEW n \in T PROVE n + 1 \in T
  <2> SUFFICES ASSUME n + 1 \in 0..k, Above(C, y, k - (n + 1)) = NoParent PROVE FALSE
    OBVIOUS
  <2>1. k - n \in Nat /\ k - n /= 0 /\ k - n \in 0..k /\ (k - n) - 1 = k - (n + 1)
    OBVIOUS
  <2>2. Above(C, y, k - n) = NoParent
    BY <1>1, <2>1, AboveStepByStep
  <2> QED
    BY <2>1, <2>2
<1>4. T = Nat
  <2>1. T \in SUBSET Nat
    OBVIOUS
  <2> HIDE DEF T
  <2> QED
    BY <1>2, <1>3, <2>1, SetInduction
<1>5. \A steps \in 0..k : way[steps] \in DOMAIN N
  <2> SUFFICES ASSUME NEW steps \in 0..k PROVE way[steps] \in DOMAIN N
    OBVIOUS
  <2>1. k - steps \in Nat /\ k - steps \in 0..k /\ k - (k - steps) = steps
    OBVIOUS
  <2>2. way[k - (k - steps)] /= NoParent
    <3>1. k - steps \in T
      <4> HIDE DEF T
      <4> QED
        BY <1>4, <2>1
    <3> HIDE DEF way
    <3> QED
      BY <2>1, <3>1
  <2> QED
    BY <1>1, <2>1, <2>2, AboveIs
<1>6. \A i, j \in 0..k : way[i] = way[j] => i = j
  <2> SUFFICES ASSUME NEW i \in 0..k, NEW j \in 0..k, way[i] = way[j] PROVE i = j
    OBVIOUS
  <2> DEFINE z == way[i]
  <2>1. z \in NodeIds /\ ClosureRow(z, y, i) \in C /\ ClosureRow(z, y, j) \in C
    BY <1>1, <1>5, AboveIs
  <2> HIDE DEF z
  <2> QED
    BY <1>1, <2>1 DEF Walks
<1>7. IsFiniteSet(0..k) /\ Cardinality(0..k) = k + 1
  BY FS_Interval
<1>8. Cardinality(DOMAIN N) \in Nat
  BY FS_CardinalityType
<1>9. way \in [0..k -> DOMAIN N]
  BY <1>5
<1>10. ~(Cardinality(DOMAIN N) < Cardinality(0..k))
  <2> HIDE DEF way
  <2> QED
    BY <1>6, <1>7, <1>9, FS_PigeonHole
<1> QED
  BY <1>7, <1>8, <1>10

(***************************************************************************)
(* Of two tables that agree, the closure is what the tests' oracle makes   *)
(* of the parent edges alone.                                              *)
(***************************************************************************)
LEMMA AgreementIsTheOracles ==
  ASSUME NEW N \in NodeTables, NEW C \in SUBSET ClosureRows, Agrees(N, C),
         IsFiniteSet(DOMAIN N)
  PROVE  C = ClosureFromParentEdges(N)
<1> DEFINE n == Cardinality(DOMAIN N)
           up == WalkUp(N)
           Rows == [ancestor_id : DOMAIN N, descendant_id : DOMAIN N, depth : 0..n]
<1>1. Walks(N, C) /\ DOMAIN N \subseteq NodeIds
  BY AgreesIsWalks DEF NodeTables
<1>2. n \in Nat
  BY FS_CardinalityType
<1>3. up = [steps \in 0..n |-> [id \in DOMAIN N |-> Above(C, id, steps)]]
  BY <1>2, WalkUpIsAbove
<1>4. ClosureFromParentEdges(N) =
        {row \in Rows : up[row.depth][row.descendant_id] = row.ancestor_id}
  BY <1>3 DEF ClosureFromParentEdges
<1> HIDE DEF n, up
<1>5. \A row : row \in ClosureRows \/ row \in Rows =>
                 row = ClosureRow(row.ancestor_id, row.descendant_id, row.depth)
  BY DEF ClosureRows, ClosureRow
<1>6. ASSUME NEW row \in C PROVE row \in Rows
  <2>1. /\ row \in ClosureRows
        /\ row = ClosureRow(row.ancestor_id, row.descendant_id, row.depth)
        /\ row.ancestor_id \in NodeIds /\ row.descendant_id \in NodeIds /\ row.depth \in Nat
    BY <1>5 DEF ClosureRows
  <2>2. row.ancestor_id \in DOMAIN N /\ row.descendant_id \in DOMAIN N
    BY <1>1, <2>1 DEF Walks
  <2>3. row.depth < n
    BY <2>1, RowsAreShort DEF n
  <2>4. row.depth \in 0..n
    BY <1>2, <2>1, <2>3
  <2> QED
    BY <2>1, <2>2, <2>4 DEF ClosureRow
<1>7. ASSUME NEW row \in Rows
      PROVE  row \in C <=> up[row.depth][row.descendant_id] = row.ancestor_id
  <2>1. /\ row.ancestor_id \in NodeIds /\ row.descendant_id \in DOMAIN N
        /\ row.depth \in 0..n /\ row.depth \in Nat
    BY <1>1, <1>2
  <2>2. up[row.depth][row.descendant_id] = Above(C, row.descendant_id, row.depth)
    BY <1>3, <2>1
  <2>3. Above(C, row.descendant_id, row.depth) = row.ancestor_id
          <=> ClosureRow(row.ancestor_id, row.descendant_id, row.depth) \in C
    BY <2>1, AboveIs
  <2> QED
    BY <1>5, <2>2, <2>3
<1> QED
  BY <1>4, <1>6, <1>7

=============================================================================

------------------------- MODULE PayloadPassesProofs -------------------------
(***************************************************************************)
(* Proofs about PayloadPasses: what the three loops of HierarchyService    *)
(* compute, for any body and anything stored above its root.               *)
(***************************************************************************)
EXTENDS PayloadPasses, HierarchyProofs, SequenceTheorems

-----------------------------------------------------------------------------
(* Sorting. *)

IsStrictOrder(R, S) ==
  /\ \A x, y \in S : x /= y => <<x, y>> \in R \/ <<y, x>> \in R
  /\ \A x \in S : <<x, x>> \notin R
  /\ \A x, y, z \in S : <<x, y>> \in R /\ <<y, z>> \in R => <<x, z>> \in R

IsInOrder(s, R, S) ==
  /\ s \in [1..Cardinality(S) -> S]
  /\ \A i, j \in 1..Cardinality(S) : i < j => <<s[i], s[j]>> \in R

(***************************************************************************)
(* A member comes after as many others as precede it.                      *)
(***************************************************************************)
LEMMA RanksAreDifferent ==
  ASSUME NEW S, IsFiniteSet(S), NEW R, IsStrictOrder(R, S)
  PROVE  LET preceding(x) == {y \in S : <<y, x>> \in R}
         IN  \A x \in S : /\ Cardinality(preceding(x)) + 1 \in 1..Cardinality(S)
                          /\ \A y \in S : <<x, y>> \in R =>
                               Cardinality(preceding(x)) < Cardinality(preceding(y))
<1> DEFINE preceding(x) == {y \in S : <<y, x>> \in R}
<1>1. ASSUME NEW x \in S
      PROVE  /\ preceding(x) \subseteq S /\ x \notin preceding(x)
             /\ IsFiniteSet(preceding(x)) /\ Cardinality(preceding(x)) \in Nat
             /\ Cardinality(preceding(x)) < Cardinality(S)
  <2>1. preceding(x) \subseteq S /\ x \notin preceding(x)
    BY DEF IsStrictOrder
  <2> HIDE DEF preceding
  <2>2. /\ IsFiniteSet(preceding(x)) /\ Cardinality(preceding(x)) <= Cardinality(S)
        /\ Cardinality(preceding(x)) /= Cardinality(S)
    BY <2>1, FS_Subset
  <2>3. Cardinality(preceding(x)) \in Nat /\ Cardinality(S) \in Nat
    BY <2>2, FS_CardinalityType
  <2> QED
    BY <2>1, <2>2, <2>3
<1>2. ASSUME NEW x \in S, NEW y \in S, <<x, y>> \in R
      PROVE  Cardinality(preceding(x)) < Cardinality(preceding(y))
  <2>1. preceding(x) \subseteq preceding(y) /\ x \in preceding(y) /\ x \notin preceding(x)
    BY <1>1, <1>2 DEF IsStrictOrder
  <2> HIDE DEF preceding
  <2>2. /\ Cardinality(preceding(x)) <= Cardinality(preceding(y))
        /\ Cardinality(preceding(x)) /= Cardinality(preceding(y))
    BY <1>1, <2>1, FS_Subset
  <2> QED
    BY <1>1, <2>2
<1> HIDE DEF preceding
<1>3. Cardinality(S) \in Nat
  BY FS_CardinalityType
<1>4. \A x \in S : Cardinality(preceding(x)) + 1 \in 1..Cardinality(S)
  BY <1>1, <1>3
<1> QED
  BY <1>2, <1>4 DEF preceding

(***************************************************************************)
(* A finite set can be put in order: every place is some member's, since   *)
(* there are as many places as members and no two share one.               *)
(***************************************************************************)
LEMMA OrderExists ==
  ASSUME NEW S, IsFiniteSet(S), NEW R, IsStrictOrder(R, S)
  PROVE  \E s : IsInOrder(s, R, S)
<1> DEFINE n == Cardinality(S)
           place == [x \in S |-> Cardinality({y \in S : <<y, x>> \in R}) + 1]
           s == [i \in 1..n |-> CHOOSE x \in S : place[x] = i]
<1>1. /\ place \in [S -> 1..n]
      /\ \A x, y \in S : <<x, y>> \in R => place[x] < place[y]
  <2>1. \A x \in S : /\ Cardinality({y \in S : <<y, x>> \in R}) + 1 \in 1..n
                     /\ \A y \in S : <<x, y>> \in R =>
                          Cardinality({z \in S : <<z, x>> \in R})
                            < Cardinality({z \in S : <<z, y>> \in R})
    BY RanksAreDifferent
  <2>2. place \in [S -> 1..n]
    BY <2>1
  <2>3. ASSUME NEW x \in S, NEW y \in S, <<x, y>> \in R PROVE place[x] < place[y]
    <3>1. place[x] = Cardinality({z \in S : <<z, x>> \in R}) + 1
          /\ place[y] = Cardinality({z \in S : <<z, y>> \in R}) + 1
      OBVIOUS
    <3>2. /\ Cardinality({z \in S : <<z, x>> \in R}) + 1 \in 1..n
          /\ Cardinality({z \in S : <<z, y>> \in R}) + 1 \in 1..n
          /\ Cardinality({z \in S : <<z, x>> \in R}) < Cardinality({z \in S : <<z, y>> \in R})
      BY <2>1, <2>3
    <3>3. IsFiniteSet({z \in S : <<z, x>> \in R}) /\ IsFiniteSet({z \in S : <<z, y>> \in R})
      BY FS_Subset
    <3>4. Cardinality({z \in S : <<z, x>> \in R}) \in Nat
          /\ Cardinality({z \in S : <<z, y>> \in R}) \in Nat
      BY <3>3, FS_CardinalityType
    <3> HIDE DEF place
    <3> QED
      BY <3>1, <3>2, <3>4
  <2> QED
    BY <2>2, <2>3
<1> HIDE DEF place
<1>2. n \in Nat /\ IsFiniteSet(1..n) /\ Cardinality(1..n) = n
  <2>1. n \in Nat
    BY FS_CardinalityType
  <2> QED
    BY <2>1, FS_Interval
<1>3. \A x, y \in S : place[x] = place[y] => x = y
  <2> SUFFICES ASSUME NEW x \in S, NEW y \in S, place[x] = place[y], x /= y PROVE FALSE
    OBVIOUS
  <2>1. <<x, y>> \in R \/ <<y, x>> \in R
    BY DEF IsStrictOrder
  <2>2. place[x] \in 1..n /\ place[y] \in 1..n
    BY <1>1
  <2>3. ~(place[x] < place[y]) /\ ~(place[y] < place[x])
    BY <1>2, <2>2
  <2> QED
    BY <1>1, <2>1, <2>3
<1>4. place \in Injection(S, 1..n)
  BY <1>1, <1>3 DEF Injection, IsInjective
<1>5. place \in Surjection(S, 1..n)
  BY <1>2, <1>4, FS_Injection
<1>6. \A i \in 1..n : \E x \in S : place[x] = i
  BY <1>5 DEF Surjection
<1>7. \A i \in 1..n : s[i] \in S /\ place[s[i]] = i
  BY <1>6
<1>8. s \in [1..n -> S]
  BY <1>7
<1> HIDE DEF s
<1>9. ASSUME NEW i \in 1..n, NEW j \in 1..n, i < j PROVE <<s[i], s[j]>> \in R
  <2>1. s[i] \in S /\ s[j] \in S /\ place[s[i]] = i /\ place[s[j]] = j
    BY <1>7
  <2>2. s[i] /= s[j] /\ <<s[j], s[i]>> \notin R
    BY <1>1, <1>2, <1>9, <2>1
  <2> QED
    BY <2>1, <2>2 DEF IsStrictOrder
<1>10. IsInOrder(s, R, S)
  BY <1>8, <1>9 DEF IsInOrder
<1> QED
  BY <1>10

(***************************************************************************)
(* InOrder lists every member once.                                        *)
(***************************************************************************)
LEMMA InOrderIs ==
  ASSUME NEW S, IsFiniteSet(S), NEW R, IsStrictOrder(R, S)
  PROVE  /\ Cardinality(S) \in Nat
         /\ InOrder(S, R) \in [1..Cardinality(S) -> S]
         /\ \A i, j \in 1..Cardinality(S) : i < j => <<InOrder(S, R)[i], InOrder(S, R)[j]>> \in R
         /\ \A x \in S : \E i \in 1..Cardinality(S) : InOrder(S, R)[i] = x
<1> DEFINE s == InOrder(S, R)
           n == Cardinality(S)
<1>1. IsInOrder(s, R, S)
  <2>1. \E t \in [1..n -> S] : \A i, j \in 1..n : i < j => <<t[i], t[j]>> \in R
    BY OrderExists DEF IsInOrder
  <2> QED
    BY <2>1 DEF InOrder, IsInOrder
<1> HIDE DEF s
<1>2. n \in Nat /\ IsFiniteSet(1..n) /\ Cardinality(1..n) = n
  <2>1. n \in Nat
    BY FS_CardinalityType
  <2> QED
    BY <2>1, FS_Interval
<1>3. s \in [1..n -> S] /\ \A i, j \in 1..n : i < j => <<s[i], s[j]>> \in R
  BY <1>1 DEF IsInOrder
<1>4. \A i, j \in 1..n : s[i] = s[j] => i = j
  <2> SUFFICES ASSUME NEW i \in 1..n, NEW j \in 1..n, s[i] = s[j], i /= j PROVE FALSE
    OBVIOUS
  <2>1. i < j \/ j < i
    BY <1>2
  <2>2. <<s[i], s[j]>> \in R \/ <<s[j], s[i]>> \in R
    BY <1>3, <2>1
  <2>3. s[i] \in S /\ <<s[i], s[i]>> \in R
    BY <1>3, <2>2
  <2> QED
    BY <2>3 DEF IsStrictOrder
<1>5. s \in Injection(1..n, S)
  BY <1>3, <1>4 DEF Injection, IsInjective
<1>6. s \in Surjection(1..n, S)
  BY <1>2, <1>5, FS_Injection
<1>7. \A x \in S : \E i \in 1..n : s[i] = x
  BY <1>6 DEF Surjection
<1> QED
  BY <1>2, <1>3, <1>7 DEF s

-----------------------------------------------------------------------------
(* flatten_payload. *)

Positions == DOMAIN body.id

HeldBy(k) == IF k = 1 THEN NoParent ELSE body.id[body.under[k]]

(***************************************************************************)
(* The nodes listed so far are those `deep` has a depth for, which is      *)
(* their distance from the root of the body.                               *)
(***************************************************************************)
ListedNode(deep, k) ==
  [id |-> body.id[k], type |-> body.type[k], parent_id |-> HeldBy(k), depth |-> deep[k]]

CountsDown(deep) ==
  /\ DOMAIN deep \subseteq Positions
  /\ depth \in Nat
  /\ \A k \in DOMAIN deep : deep[k] \in Nat /\ deep[k] < depth
  /\ \A k \in DOMAIN deep :
       IF k = 1 THEN deep[k] = 0
       ELSE body.under[k] \in DOMAIN deep /\ deep[k] = deep[body.under[k]] + 1

ListedOnce(deep) == \A j, k \in DOMAIN deep : body.id[j] = body.id[k] => j = k

(***************************************************************************)
(* The level is what was not listed and is held by what was, one edge      *)
(* further down.                                                           *)
(***************************************************************************)
Waiting(deep) ==
  {k \in Positions \ DOMAIN deep : k = 1 \/ body.under[k] \in DOMAIN deep}

LevelIsNext(deep) ==
  /\ seen = {body.id[k] : k \in DOMAIN deep}
  /\ level = {[at |-> k, parent_id |-> HeldBy(k)] : k \in Waiting(deep)}
  /\ \A k \in Waiting(deep) :
       IF k = 1 THEN depth = 0 ELSE depth = deep[body.under[k]] + 1

NodesAreListed(deep) ==
  /\ nodes \in Seq(SubtreeRows)
  /\ Range(nodes) = {ListedNode(deep, k) : k \in DOMAIN deep}
  /\ \A i, j \in DOMAIN nodes : i < j => Before(nodes[i], nodes[j])

FlattenedSoFar(deep) ==
  /\ CountsDown(deep)
  /\ ListedOnce(deep)
  /\ LevelIsNext(deep)
  /\ NodesAreListed(deep)

Passes == {"flatten_payload", "raised", "closure_rows", "assemble_tree", "returned"}

FlattenInvariant ==
  /\ body \in Bodies
  /\ captured_ancestors \in Ancestries
  /\ pass \in Passes
  /\ \E deep : FlattenedSoFar(deep)
  /\ pass = "raised" => BodyRepeats
  /\ pass \notin {"raised", "flatten_payload"} => level = {}

LEMMA BodyShape ==
  ASSUME body \in Bodies
  PROVE  /\ Len(body.id) \in Nat \ {0}
         /\ Positions = 1..Len(body.id)
         /\ IsFiniteSet(Positions)
         /\ 1 \in Positions
         /\ \A k \in Positions : body.id[k] \in NodeIds /\ body.id[k] \in Int
         /\ \A k \in Positions : body.type[k] \in NodeTypes
         /\ body.under[1] = 0
         /\ \A k \in Positions \ {1} : body.under[k] \in Positions /\ body.under[k] < k
         /\ \A k \in Positions : HeldBy(k) \in ParentIds
<1>1. /\ body.id \in Seq(NodeIds) /\ body.id /= <<>>
      /\ body.type \in [DOMAIN body.id -> NodeTypes]
      /\ body.under \in [DOMAIN body.id -> 0..Len(body.id)]
      /\ \A k \in DOMAIN body.id : body.under[k] < k /\ (body.under[k] = 0 <=> k = 1)
  BY BodiesAssumption
<1>2. Len(body.id) \in Nat \ {0} /\ Positions = 1..Len(body.id)
  BY <1>1 DEF Positions
<1>3. IsFiniteSet(Positions)
  BY <1>2, FS_Interval
<1>4. 1 \in Positions /\ body.under[1] = 0
  BY <1>1, <1>2 DEF Positions
<1>5. \A k \in Positions : body.id[k] \in NodeIds /\ body.id[k] \in Int
  <2>1. \A k \in Positions : body.id[k] \in NodeIds
    BY <1>1, <1>2
  <2> QED
    BY <2>1, NodeIdsAssumption
<1>6. \A k \in Positions : body.type[k] \in NodeTypes
  BY <1>1 DEF Positions
<1>7. \A k \in Positions \ {1} : body.under[k] \in Positions /\ body.under[k] < k
  <2> TAKE k \in Positions \ {1}
  <2>1. body.under[k] \in 0..Len(body.id) /\ body.under[k] < k /\ body.under[k] /= 0
    BY <1>1 DEF Positions
  <2> QED
    BY <1>2, <2>1
<1>8. \A k \in Positions : HeldBy(k) \in ParentIds
  BY <1>5, <1>7 DEF HeldBy, ParentIds
<1> QED
  BY <1>2, <1>3, <1>4, <1>5, <1>6, <1>7, <1>8

(***************************************************************************)
(* A level without repeats is listed in ascending id order.                *)
(***************************************************************************)
LEMMA LevelIsSorted ==
  ASSUME body \in Bodies, NEW deep, FlattenedSoFar(deep), ~LevelRepeats
  PROVE  /\ LevelInOrder \in Seq(level)
         /\ \A this \in level : \E i \in DOMAIN LevelInOrder : LevelInOrder[i] = this
         /\ \A i, j \in DOMAIN LevelInOrder :
              i < j => body.id[LevelInOrder[i].at] < body.id[LevelInOrder[j].at]
<1> DEFINE R == {pair \in level \X level :
                   \/ body.id[pair[1].at] < body.id[pair[2].at]
                   \/ body.id[pair[1].at] = body.id[pair[2].at] /\ pair[1].at < pair[2].at}
<1>1. level = {[at |-> k, parent_id |-> HeldBy(k)] : k \in Waiting(deep)}
  BY DEF FlattenedSoFar, LevelIsNext
<1>2. Waiting(deep) \subseteq Positions
  BY DEF Waiting
<1>3. IsFiniteSet(level)
  <2> DEFINE f == [this \in level |-> this.at]
  <2>1. f \in [level -> Positions]
    BY <1>1, <1>2
  <2>2. \A this, other \in level : f[this] = f[other] => this = other
    BY <1>1
  <2>3. f \in Injection(level, Positions)
    BY <2>1, <2>2 DEF Injection, IsInjective
  <2> QED
    BY <2>3, BodyShape, FS_Injection
<1>4. \A this \in level : body.id[this.at] \in Int
  BY <1>1, <1>2, BodyShape
<1>5. \A this, other \in level : body.id[this.at] = body.id[other.at] => this = other
  BY DEF LevelRepeats
<1>6. \A this, other \in level : <<this, other>> \in R <=> body.id[this.at] < body.id[other.at]
  <2> SUFFICES ASSUME NEW this \in level, NEW other \in level
               PROVE  <<this, other>> \in R <=> body.id[this.at] < body.id[other.at]
    OBVIOUS
  <2>1. body.id[this.at] = body.id[other.at] => ~(this.at < other.at)
    <3> SUFFICES ASSUME body.id[this.at] = body.id[other.at] PROVE ~(this.at < other.at)
      OBVIOUS
    <3>1. this = other
      BY <1>5
    <3>2. this.at \in Int
      BY <1>1, <1>2, BodyShape
    <3> QED
      BY <3>1, <3>2
  <2> QED
    BY <2>1
<1> HIDE DEF R
<1>7. IsStrictOrder(R, level)
  BY <1>4, <1>5, <1>6 DEF IsStrictOrder
<1> DEFINE n == Cardinality(level)
           s == InOrder(level, R)
<1>8. /\ n \in Nat /\ s \in [1..n -> level]
      /\ \A i, j \in 1..n : i < j => <<s[i], s[j]>> \in R
      /\ \A x \in level : \E i \in 1..n : s[i] = x
  BY <1>3, <1>7, InOrderIs
<1>9. s = LevelInOrder
  BY DEF R, LevelInOrder
<1> HIDE DEF n, s
<1>10. s \in Seq(level) /\ DOMAIN s = 1..n
  BY <1>8, SeqDef
<1>11. \A i, j \in 1..n : i < j => body.id[s[i].at] < body.id[s[j].at]
  BY <1>6, <1>8
<1> QED
  BY <1>8, <1>9, <1>10, <1>11

(***************************************************************************)
(* One round lists the level behind everything listed before.              *)
(***************************************************************************)
LEMMA RoundKeepsFlattened ==
  ASSUME FlattenInvariant, FlattenLevel, ~LevelRepeats, NEW deep, FlattenedSoFar(deep)
  PROVE  \E deeper : FlattenedSoFar(deeper)'
<1> DEFINE W == Waiting(deep)
<1> PICK deeper :
      deeper = [k \in DOMAIN deep \union W |-> IF k \in DOMAIN deep THEN deep[k] ELSE depth]
  OBVIOUS
<1>1. /\ body' = body /\ level /= {}
      /\ nodes' = nodes \o [k \in DOMAIN LevelInOrder |->
                              [id |-> body.id[LevelInOrder[k].at],
                               type |-> body.type[LevelInOrder[k].at],
                               parent_id |-> LevelInOrder[k].parent_id,
                               depth |-> depth]]
      /\ seen' = seen \union {body.id[this.at] : this \in level}
      /\ level' = NextLevel
      /\ depth' = depth + 1
  BY DEF FlattenLevel
<1>2. /\ W \subseteq Positions /\ DOMAIN deep \subseteq Positions
      /\ \A k \in W : k \notin DOMAIN deep /\ (k = 1 \/ body.under[k] \in DOMAIN deep)
      /\ \A k \in Positions : k \notin DOMAIN deep /\ (k = 1 \/ body.under[k] \in DOMAIN deep) => k \in W
  BY DEF Waiting, FlattenedSoFar, CountsDown
<1>3. level = {[at |-> k, parent_id |-> HeldBy(k)] : k \in W}
  BY DEF FlattenedSoFar, LevelIsNext
<1>4. /\ \A k \in W : \E this \in level : this.at = k
      /\ \A this \in level : this.at \in W
  <2> HIDE DEF W
  <2>1. \A k \in W : [at |-> k, parent_id |-> HeldBy(k)] \in level
    BY <1>3
  <2>2. \A k : [at |-> k, parent_id |-> HeldBy(k)].at = k
    OBVIOUS
  <2>3. \A this \in level : \E k \in W : this = [at |-> k, parent_id |-> HeldBy(k)]
    BY <1>3
  <2> QED
    BY <2>1, <2>2, <2>3
<1>5. /\ depth \in Nat
      /\ \A k \in DOMAIN deep : deep[k] \in Nat /\ deep[k] < depth
      /\ \A k \in W : IF k = 1 THEN depth = 0 ELSE depth = deep[body.under[k]] + 1
  BY DEF FlattenedSoFar, LevelIsNext, CountsDown
<1>6. body \in Bodies
  BY DEF FlattenInvariant
<1> HIDE DEF W
<1>7. /\ DOMAIN deeper = DOMAIN deep \union W
      /\ \A k \in DOMAIN deep : deeper[k] = deep[k]
      /\ \A k \in W : deeper[k] = depth
  BY <1>2
<1>8. CountsDown(deeper)'
  <2>1. /\ DOMAIN deeper \subseteq Positions /\ depth + 1 \in Nat
        /\ \A k \in DOMAIN deeper : deeper[k] \in Nat /\ deeper[k] < depth + 1
    BY <1>2, <1>5, <1>7
  <2>2. ASSUME NEW k \in DOMAIN deeper
        PROVE  IF k = 1 THEN deeper[k] = 0
               ELSE body.under[k] \in DOMAIN deeper /\ deeper[k] = deeper[body.under[k]] + 1
    <3>1. CASE k \in DOMAIN deep
      <4>1. IF k = 1 THEN deep[k] = 0
            ELSE body.under[k] \in DOMAIN deep /\ deep[k] = deep[body.under[k]] + 1
        BY <3>1 DEF FlattenedSoFar, CountsDown
      <4> QED
        BY <1>7, <3>1, <4>1
    <3>2. CASE k \in W
      BY <1>2, <1>5, <1>7, <3>2
    <3> QED
      BY <1>7, <3>1, <3>2
  <2> QED
    BY <1>1, <2>1, <2>2 DEF CountsDown, Positions
<1>9. ListedOnce(deeper)'
  <2>1. seen = {body.id[k] : k \in DOMAIN deep}
    BY DEF FlattenedSoFar, LevelIsNext
  <2>2. ASSUME NEW j \in W, NEW k \in W, body.id[j] = body.id[k] PROVE j = k
    <3> DEFINE this(i) == [at |-> i, parent_id |-> HeldBy(i)]
    <3>1. this(j) \in level /\ this(k) \in level
      BY <1>3
    <3>2. this(j).at = j /\ this(k).at = k
      OBVIOUS
    <3> HIDE DEF this
    <3>3. this(j) = this(k)
      BY <2>2, <3>1, <3>2 DEF LevelRepeats
    <3> QED
      BY <3>2, <3>3
  <2>3. ASSUME NEW j \in W, NEW k \in DOMAIN deep PROVE body.id[j] /= body.id[k]
    <3>1. [at |-> j, parent_id |-> HeldBy(j)] \in level
      BY <1>3
    <3>2. body.id[j] \notin seen
      BY <3>1 DEF LevelRepeats
    <3> QED
      BY <2>1, <3>2
  <2>4. \A j, k \in DOMAIN deep : body.id[j] = body.id[k] => j = k
    BY DEF FlattenedSoFar, ListedOnce
  <2>5. \A j, k \in DOMAIN deeper : body.id[j] = body.id[k] => j = k
    BY <1>7, <2>2, <2>3, <2>4
  <2> QED
    BY <1>1, <2>5 DEF ListedOnce
<1>10. LevelIsNext(deeper)'
  <2>1. seen' = {body.id[k] : k \in DOMAIN deeper}
    <3>1. seen = {body.id[k] : k \in DOMAIN deep}
      BY DEF FlattenedSoFar, LevelIsNext
    <3>2. \A id : (\E this \in level : id = body.id[this.at]) <=> (\E k \in W : id = body.id[k])
      <4> TAKE id
      <4>1. ASSUME NEW this \in level, id = body.id[this.at] PROVE \E k \in W : id = body.id[k]
        BY <1>4, <4>1
      <4>2. ASSUME NEW k \in W, id = body.id[k] PROVE \E this \in level : id = body.id[this.at]
        BY <1>4, <4>2
      <4> QED
        BY <4>1, <4>2
    <3>3. {body.id[this.at] : this \in level} = {body.id[k] : k \in W}
      BY <3>2
    <3>4. {body.id[k] : k \in DOMAIN deep \union W}
            = {body.id[k] : k \in DOMAIN deep} \union {body.id[k] : k \in W}
      OBVIOUS
    <3> QED
      BY <1>1, <1>7, <3>1, <3>3, <3>4
  <2> DEFINE V == {k \in Positions : body.under[k] \in W}
  <2>2. V = Waiting(deeper)
    <3>1. ASSUME NEW k \in V PROVE k \in Waiting(deeper)
      <4>1. k /= 1 /\ body.under[k] \in W /\ body.under[k] \notin DOMAIN deep
        BY <1>2, <1>6, BodyShape
      <4>2. k \notin DOMAIN deep
        BY <4>1 DEF FlattenedSoFar, CountsDown
      <4>3. k \notin W
        BY <1>2, <4>1
      <4> QED
        BY <1>7, <4>1, <4>2, <4>3 DEF Waiting
    <3>2. ASSUME NEW k \in Waiting(deeper) PROVE k \in V
      <4>1. /\ k \in Positions /\ k \notin DOMAIN deep /\ k \notin W
            /\ k = 1 \/ body.under[k] \in DOMAIN deep \union W
        BY <1>7 DEF Waiting
      <4>2. body.under[k] \notin DOMAIN deep /\ k /= 1
        BY <1>2, <4>1
      <4> QED
        BY <4>1, <4>2
    <3> HIDE DEF V
    <3> QED
      BY <3>1, <3>2
  <2>3. level' = {[at |-> k, parent_id |-> HeldBy(k)] : k \in V}
    <3>1. {k \in DOMAIN body.id : \E holder \in level : body.under[k] = holder.at} = V
      BY <1>4 DEF Positions
    <3>2. level' = {[at |-> child, parent_id |-> body.id[body.under[child]]] : child \in V}
      BY <1>1, <3>1 DEF NextLevel
    <3>3. \A k \in V : HeldBy(k) = body.id[body.under[k]]
      BY <1>2, <1>6, BodyShape DEF HeldBy
    <3> HIDE DEF V
    <3> QED
      BY <3>2, <3>3
  <2>4. \A k \in V : IF k = 1 THEN depth + 1 = 0 ELSE depth + 1 = deeper[body.under[k]] + 1
    <3> SUFFICES ASSUME NEW k \in V
                 PROVE  IF k = 1 THEN depth + 1 = 0 ELSE depth + 1 = deeper[body.under[k]] + 1
      OBVIOUS
    <3>1. k /= 1
      BY <1>2, <1>6, BodyShape
    <3> QED
      BY <1>7, <3>1
  <2>5. Waiting(deeper)' = V /\ \A k : HeldBy(k)' = HeldBy(k)
    BY <1>1, <2>2 DEF Waiting, HeldBy, Positions
  <2> HIDE DEF V
  <2>6. level' = {[at |-> k, parent_id |-> HeldBy(k)'] : k \in Waiting(deeper)'}
    BY <2>3, <2>5
  <2>7. \A k \in Waiting(deeper)' :
          IF k = 1 THEN depth' = 0 ELSE depth' = deeper[body'.under[k]] + 1
    BY <1>1, <2>4, <2>5
  <2>8. seen' = {body'.id[k] : k \in DOMAIN deeper}
    BY <1>1, <2>1
  <2> QED
    BY <2>6, <2>7, <2>8 DEF LevelIsNext
<1>11. NodesAreListed(deeper)'
  <2> DEFINE ordered == LevelInOrder
             added == [k \in DOMAIN ordered |->
                         [id |-> body.id[ordered[k].at],
                          type |-> body.type[ordered[k].at],
                          parent_id |-> ordered[k].parent_id,
                          depth |-> depth]]
  <2>1. /\ ordered \in Seq(level)
        /\ \A this \in level : \E i \in DOMAIN ordered : ordered[i] = this
        /\ \A i, j \in DOMAIN ordered : i < j => body.id[ordered[i].at] < body.id[ordered[j].at]
    BY <1>6, LevelIsSorted
  <2> HIDE DEF ordered
  <2>2. /\ Len(ordered) \in Nat /\ DOMAIN ordered = 1..Len(ordered)
        /\ \A i \in DOMAIN ordered : ordered[i] \in level
    BY <2>1, LenProperties
  <2>3. \A i \in DOMAIN ordered : \E k \in W : ordered[i] = [at |-> k, parent_id |-> HeldBy(k)]
    BY <1>3, <2>2
  <2>4. \A i \in DOMAIN added :
          /\ added[i] \in SubtreeRows
          /\ \E k \in W : added[i] = ListedNode(deeper, k)
    <3> TAKE i \in DOMAIN added
    <3>1. PICK k \in W : ordered[i] = [at |-> k, parent_id |-> HeldBy(k)]
      BY <2>3
    <3>2. added[i] = ListedNode(deeper, k)
      BY <1>7, <3>1 DEF ListedNode
    <3>3. ListedNode(deeper, k) \in SubtreeRows
      BY <1>2, <1>5, <1>6, <1>7, BodyShape DEF ListedNode, SubtreeRows
    <3> QED
      BY <3>2, <3>3
  <2>5. \A k \in W : \E i \in DOMAIN added : added[i] = ListedNode(deeper, k)
    <3> TAKE k \in W
    <3>1. PICK i \in DOMAIN ordered : ordered[i] = [at |-> k, parent_id |-> HeldBy(k)]
      BY <1>3, <2>1
    <3> QED
      BY <1>7, <3>1 DEF ListedNode
  <2>6. \A i, j \in DOMAIN added : i < j => added[i].id < added[j].id
    BY <2>1
  <2>7. /\ DOMAIN added = 1..Len(ordered)
        /\ \A i \in DOMAIN added : added[i].depth = depth
    BY <2>2
  <2>8. nodes' = nodes \o added
    BY <1>1 DEF ordered
  <2> HIDE DEF added
  <2>9. added \in Seq(SubtreeRows) /\ Len(added) = Len(ordered)
    <3>1. added \in [1..Len(ordered) -> SubtreeRows]
      <4>1. added = [i \in 1..Len(ordered) |-> added[i]]
        BY <2>2 DEF added
      <4> QED
        BY <2>4, <2>7, <4>1
    <3> QED
      BY <2>2, <3>1, SeqDef
  <2>10. /\ nodes \in Seq(SubtreeRows)
         /\ Range(nodes) = {ListedNode(deep, k) : k \in DOMAIN deep}
         /\ \A i, j \in DOMAIN nodes : i < j => Before(nodes[i], nodes[j])
    BY DEF FlattenedSoFar, NodesAreListed
  <2>11. Len(nodes) \in Nat /\ DOMAIN nodes = 1..Len(nodes)
    BY <2>10, LenProperties
  <2>12. /\ nodes' \in Seq(SubtreeRows)
         /\ Range(nodes') = Range(nodes) \union Range(added)
         /\ DOMAIN nodes' = 1..(Len(nodes) + Len(ordered))
         /\ \A i \in 1..(Len(nodes) + Len(ordered)) :
              nodes'[i] = IF i <= Len(nodes) THEN nodes[i] ELSE added[i - Len(nodes)]
    <3>1. /\ nodes' \in Seq(SubtreeRows) /\ Len(nodes') = Len(nodes) + Len(added)
          /\ \A i \in 1..(Len(nodes) + Len(added)) :
               nodes'[i] = IF i <= Len(nodes) THEN nodes[i] ELSE added[i - Len(nodes)]
      <4>1. nodes \in Seq(SubtreeRows) /\ added \in Seq(SubtreeRows)
        BY <2>9, <2>10
      <4> QED
        BY <2>8, <4>1, ConcatProperties
    <3>2. DOMAIN nodes' = 1..Len(nodes')
      BY <3>1, LenProperties
    <3> QED
      BY <2>8, <2>9, <2>10, <3>1, <3>2, RangeConcatenation
  <2>13. Range(nodes') = {ListedNode(deeper, k) : k \in DOMAIN deeper}
    <3>1. Range(added) = {ListedNode(deeper, k) : k \in W}
      BY <2>4, <2>5 DEF Range
    <3>2. \A k \in DOMAIN deep : ListedNode(deeper, k) = ListedNode(deep, k)
      BY <1>7 DEF ListedNode
    <3> QED
      BY <1>7, <2>10, <2>12, <3>1, <3>2
  <2>14. ASSUME NEW i \in DOMAIN nodes', NEW j \in DOMAIN nodes', i < j
         PROVE  Before(nodes'[i], nodes'[j])
    <3>1. CASE j <= Len(nodes)
      BY <2>10, <2>11, <2>12, <2>14, <3>1
    <3>2. CASE i > Len(nodes)
      <4>1. /\ i - Len(nodes) \in DOMAIN added /\ j - Len(nodes) \in DOMAIN added
            /\ i - Len(nodes) < j - Len(nodes)
            /\ nodes'[i] = added[i - Len(nodes)] /\ nodes'[j] = added[j - Len(nodes)]
        BY <2>2, <2>7, <2>11, <2>12, <2>14, <3>2
      <4> QED
        BY <2>6, <2>7, <4>1 DEF Before
    <3>3. CASE i <= Len(nodes) /\ j > Len(nodes)
      <4>1. /\ i \in DOMAIN nodes /\ nodes'[i] = nodes[i]
            /\ j - Len(nodes) \in DOMAIN added /\ nodes'[j] = added[j - Len(nodes)]
        BY <2>2, <2>7, <2>11, <2>12, <3>3
      <4>2. nodes[i] \in Range(nodes)
        BY <4>1 DEF Range
      <4>3. PICK k \in DOMAIN deep : nodes[i] = ListedNode(deep, k)
        BY <2>10, <4>2
      <4>4. nodes'[i].depth < depth
        BY <1>5, <4>1, <4>3 DEF ListedNode
      <4> QED
        BY <2>7, <4>1, <4>4 DEF Before
    <3> QED
      BY <2>2, <2>11, <2>12, <3>1, <3>2, <3>3
  <2>15. \A k : ListedNode(deeper, k)' = ListedNode(deeper, k)
    BY <1>1 DEF ListedNode, HeldBy
  <2>16. Range(nodes') = {ListedNode(deeper, k)' : k \in DOMAIN deeper}
    BY <2>13, <2>15
  <2> QED
    BY <2>12, <2>14, <2>16 DEF NodesAreListed
<1> QED
  BY <1>8, <1>9, <1>10, <1>11 DEF FlattenedSoFar

LEMMA FlattenInitially ==
  ASSUME Init
  PROVE  FlattenInvariant
<1> DEFINE none == [k \in {} |-> 0]
<1>1. body \in Bodies
  BY DEF Init
<1>2. CountsDown(none) /\ ListedOnce(none)
  BY DEF CountsDown, ListedOnce, Init
<1>3. LevelIsNext(none)
  <2>1. Waiting(none) = {1} /\ HeldBy(1) = NoParent
    BY <1>1, BodyShape DEF Waiting, HeldBy
  <2> QED
    BY <2>1 DEF LevelIsNext, Init
<1>4. NodesAreListed(none)
  <2>1. nodes = <<>>
    BY DEF Init
  <2> QED
    BY <2>1 DEF NodesAreListed, Range
<1>5. FlattenedSoFar(none)
  BY <1>2, <1>3, <1>4 DEF FlattenedSoFar
<1> QED
  BY <1>5 DEF FlattenInvariant, Init, Passes

(***************************************************************************)
(* An id that is refused occurs twice: it is at the node on the level and  *)
(* at one listed before, or at another on the same level.                  *)
(***************************************************************************)
LEMMA RefusedIsRepeated ==
  ASSUME FlattenInvariant, LevelRepeats
  PROVE  BodyRepeats
<1>1. PICK deep : FlattenedSoFar(deep)
  BY DEF FlattenInvariant
<1>2. /\ \A this \in level : \E k \in Waiting(deep) : this = [at |-> k, parent_id |-> HeldBy(k)]
      /\ seen = {body.id[k] : k \in DOMAIN deep}
      /\ Waiting(deep) \subseteq Positions /\ DOMAIN deep \subseteq Positions
      /\ \A k \in Waiting(deep) : k \notin DOMAIN deep
  BY <1>1 DEF FlattenedSoFar, LevelIsNext, CountsDown, Waiting
<1>3. PICK this \in level :
        \/ body.id[this.at] \in seen
        \/ \E other \in level \ {this} : body.id[other.at] = body.id[this.at]
  BY DEF LevelRepeats
<1>4. PICK j \in Waiting(deep) : this = [at |-> j, parent_id |-> HeldBy(j)]
  BY <1>2
<1>5. CASE body.id[this.at] \in seen
  BY <1>2, <1>4, <1>5 DEF BodyRepeats, Positions
<1>6. CASE \E other \in level \ {this} : body.id[other.at] = body.id[this.at]
  <2>1. PICK other \in level \ {this} : body.id[other.at] = body.id[this.at]
    BY <1>6
  <2>2. PICK k \in Waiting(deep) : other = [at |-> k, parent_id |-> HeldBy(k)]
    BY <1>2
  <2>3. j /= k /\ body.id[j] = body.id[k]
    BY <1>4, <2>1, <2>2
  <2> QED
    BY <1>2, <2>3 DEF BodyRepeats, Positions
<1> QED
  BY <1>3, <1>5, <1>6

LEMMA FlattenPreserved ==
  ASSUME FlattenInvariant, [Next]_vars
  PROVE  FlattenInvariant'
<1>1. PICK deep : FlattenedSoFar(deep)
  BY DEF FlattenInvariant
<1>2. ASSUME UNCHANGED flattening, body' = body PROVE FlattenedSoFar(deep)' /\ BodyRepeats' = BodyRepeats
  BY <1>1, <1>2 DEF FlattenedSoFar, CountsDown, ListedOnce, LevelIsNext, NodesAreListed,
                    Waiting, ListedNode, HeldBy, Positions, BodyRepeats, flattening
<1>3. CASE FlattenLevel
  <2>1. /\ body' = body /\ captured_ancestors' = captured_ancestors
        /\ pass = "flatten_payload"
    BY <1>3 DEF FlattenLevel
  <2>2. CASE LevelRepeats
    <3>1. pass' = "raised" /\ UNCHANGED flattening
      BY <1>3, <2>2 DEF FlattenLevel
    <3>2. BodyRepeats
      BY <2>2, RefusedIsRepeated
    <3> QED
      BY <1>2, <2>1, <3>1, <3>2 DEF FlattenInvariant, Passes
  <2>3. CASE ~LevelRepeats
    <3>1. pass' = pass
      BY <1>3, <2>3 DEF FlattenLevel
    <3>2. \E deeper : FlattenedSoFar(deeper)'
      BY <1>1, <1>3, <2>3, RoundKeepsFlattened
    <3> QED
      BY <2>1, <3>1, <3>2 DEF FlattenInvariant
  <2> QED
    BY <2>2, <2>3
<1>4. CASE Flattened
  BY <1>2, <1>4 DEF Flattened, FlattenInvariant, Passes, flattening
<1>5. CASE CloseOverNode
  BY <1>2, <1>5 DEF CloseOverNode, FlattenInvariant, flattening
<1>6. CASE Store
  BY <1>2, <1>6 DEF Store, FlattenInvariant, Passes, flattening
<1>7. CASE AttachRow
  BY <1>2, <1>7 DEF AttachRow, FlattenInvariant, flattening
<1>8. CASE Assembled
  BY <1>2, <1>8 DEF Assembled, FlattenInvariant, Passes, flattening
<1>9. CASE UNCHANGED vars
  BY <1>2, <1>9 DEF vars, FlattenInvariant, flattening
<1> QED
  BY <1>3, <1>4, <1>5, <1>6, <1>7, <1>8, <1>9 DEF Next, Finished

(***************************************************************************)
(* An empty level leaves nothing out: the first node left out would be     *)
(* held by one that is listed, and so be on the level.                     *)
(***************************************************************************)
LEMMA NothingIsLeftOut ==
  ASSUME body \in Bodies, level = {}, NEW deep, FlattenedSoFar(deep)
  PROVE  DOMAIN deep = Positions
<1> DEFINE T == {n \in Nat : \A k \in Positions : k <= n => k \in DOMAIN deep}
<1>1. \A k \in Positions : k \in Nat \ {0}
  BY BodyShape
<1>2. \A k \in Positions : k = 1 \/ body.under[k] \in DOMAIN deep => k \in DOMAIN deep
  BY DEF FlattenedSoFar, LevelIsNext, Waiting
<1>3. 0 \in T
  BY <1>1
<1>4. ASSUME NEW n \in T PROVE n + 1 \in T
  <2> SUFFICES ASSUME NEW k \in Positions, k <= n + 1, ~(k <= n) PROVE k \in DOMAIN deep
    OBVIOUS
  <2>1. k = 1 \/ (body.under[k] \in Positions /\ body.under[k] < k)
    BY BodyShape
  <2>2. k = n + 1 /\ (k = 1 \/ body.under[k] <= n)
    BY <1>1, <2>1
  <2> QED
    BY <1>2, <2>1, <2>2
<1>5. T = Nat
  <2>1. T \in SUBSET Nat
    OBVIOUS
  <2> HIDE DEF T
  <2> QED
    BY <1>3, <1>4, <2>1, SetInduction
<1>6. DOMAIN deep \subseteq Positions
  BY DEF FlattenedSoFar, CountsDown
<1> QED
  BY <1>1, <1>5, <1>6

(***************************************************************************)
(* The list flatten_payload returns.                                       *)
(***************************************************************************)
ListsTheBody(deep) ==
  /\ deep[1] = 0
  /\ \A k \in Positions : deep[k] \in Nat
  /\ \A k \in Positions \ {1} : deep[k] = deep[body.under[k]] + 1
  /\ \A j, k \in Positions : body.id[j] = body.id[k] => j = k
  /\ nodes \in Seq(SubtreeRows) /\ DOMAIN nodes = 1..Len(nodes)
  /\ \A k \in Positions : \E i \in DOMAIN nodes : nodes[i] = ListedNode(deep, k)
  /\ \A i \in DOMAIN nodes : \E k \in Positions : nodes[i] = ListedNode(deep, k)
  /\ \A i, j \in DOMAIN nodes : i < j => Before(nodes[i], nodes[j])
  /\ \A i, j \in DOMAIN nodes : nodes[i].id = nodes[j].id => i = j

LEMMA BodyIsListed ==
  ASSUME FlattenInvariant, pass \notin {"raised", "flatten_payload"}
  PROVE  \E deep : ListsTheBody(deep)
<1>1. body \in Bodies /\ level = {}
  BY DEF FlattenInvariant
<1>2. PICK deep : FlattenedSoFar(deep)
  BY DEF FlattenInvariant
<1>3. DOMAIN deep = Positions
  BY <1>1, <1>2, NothingIsLeftOut
<1>4. 1 \in Positions
  BY <1>1, BodyShape
<1>5. /\ deep[1] = 0
      /\ \A k \in Positions : deep[k] \in Nat
      /\ \A k \in Positions \ {1} : deep[k] = deep[body.under[k]] + 1
      /\ \A j, k \in Positions : body.id[j] = body.id[k] => j = k
  BY <1>2, <1>3, <1>4 DEF FlattenedSoFar, CountsDown, ListedOnce
<1>6. /\ nodes \in Seq(SubtreeRows)
      /\ Range(nodes) = {ListedNode(deep, k) : k \in Positions}
      /\ \A i, j \in DOMAIN nodes : i < j => Before(nodes[i], nodes[j])
  BY <1>2, <1>3 DEF FlattenedSoFar, NodesAreListed
<1>7. DOMAIN nodes = 1..Len(nodes) /\ Len(nodes) \in Nat
  BY <1>6, LenProperties
<1>8. \A k \in Positions : \E i \in DOMAIN nodes : nodes[i] = ListedNode(deep, k)
  <2> TAKE k \in Positions
  <2>1. ListedNode(deep, k) \in Range(nodes)
    BY <1>6
  <2> QED
    BY <2>1 DEF Range
<1>9. \A i \in DOMAIN nodes : \E k \in Positions : nodes[i] = ListedNode(deep, k)
  <2> TAKE i \in DOMAIN nodes
  <2>1. nodes[i] \in Range(nodes)
    BY DEF Range
  <2> QED
    BY <1>6, <2>1
<1>10. \A i, j \in DOMAIN nodes : nodes[i].id = nodes[j].id => i = j
  <2> SUFFICES ASSUME NEW i \in DOMAIN nodes, NEW j \in DOMAIN nodes,
                      nodes[i].id = nodes[j].id, i < j
               PROVE  FALSE
    BY <1>7
  <2>1. PICK k \in Positions : nodes[i] = ListedNode(deep, k)
    BY <1>9
  <2>2. PICK l \in Positions : nodes[j] = ListedNode(deep, l)
    BY <1>9
  <2>3. k = l
    BY <1>5, <2>1, <2>2 DEF ListedNode
  <2>4. nodes[i] = nodes[j] /\ nodes[i].depth \in Nat /\ nodes[i].id \in Int
    BY <1>1, <1>5, <2>1, <2>2, <2>3, BodyShape DEF ListedNode
  <2>5. Before(nodes[i], nodes[j])
    BY <1>6
  <2> QED
    BY <2>4, <2>5 DEF Before
<1>11. ListsTheBody(deep)
  BY <1>5, <1>6, <1>7, <1>8, <1>9, <1>10 DEF ListsTheBody
<1> QED
  BY <1>11

LEMMA AsManyNodes ==
  ASSUME body \in Bodies, NEW deep, ListsTheBody(deep)
  PROVE  Len(nodes) = Len(body.id)
<1> DEFINE at == [k \in Positions |-> CHOOSE i \in DOMAIN nodes : nodes[i] = ListedNode(deep, k)]
<1>1. \A k \in Positions : at[k] \in DOMAIN nodes /\ nodes[at[k]] = ListedNode(deep, k)
  BY DEF ListsTheBody
<1>2. at \in [Positions -> DOMAIN nodes]
  BY <1>1
<1> HIDE DEF at
<1>3. \A j, k \in Positions : at[j] = at[k] => j = k
  <2> SUFFICES ASSUME NEW j \in Positions, NEW k \in Positions, at[j] = at[k] PROVE j = k
    OBVIOUS
  <2>1. ListedNode(deep, j) = ListedNode(deep, k)
    BY <1>1
  <2>2. body.id[j] = body.id[k]
    BY <2>1 DEF ListedNode
  <2> QED
    BY <2>2 DEF ListsTheBody
<1>4. \A i \in DOMAIN nodes : \E k \in Positions : at[k] = i
  <2> TAKE i \in DOMAIN nodes
  <2>1. PICK k \in Positions : nodes[i] = ListedNode(deep, k)
    BY DEF ListsTheBody
  <2>2. nodes[at[k]] = nodes[i] /\ at[k] \in DOMAIN nodes
    BY <1>1, <2>1
  <2>3. at[k] = i
    BY <2>2 DEF ListsTheBody
  <2> QED
    BY <2>3
<1>5. Len(nodes) \in Nat /\ DOMAIN nodes = 1..Len(nodes)
  <2>1. nodes \in Seq(SubtreeRows)
    BY DEF ListsTheBody
  <2> QED
    BY <2>1, LenProperties
<1>6. Len(body.id) \in Nat /\ Positions = 1..Len(body.id)
  BY BodyShape
<1>7. /\ IsFiniteSet(DOMAIN nodes)
      /\ Cardinality(DOMAIN nodes) = Len(nodes) /\ Cardinality(Positions) = Len(body.id)
  <2>1. \A n \in Nat : IsFiniteSet(1..n) /\ Cardinality(1..n) = n
    BY FS_Interval
  <2> QED
    BY <1>5, <1>6, <2>1
<1>8. at \in Injection(Positions, DOMAIN nodes) /\ at \in Surjection(Positions, DOMAIN nodes)
  BY <1>2, <1>3, <1>4 DEF Injection, IsInjective, Surjection
<1> QED
  BY <1>7, <1>8, FS_Injection

(***************************************************************************)
(* The payload the list stands for has the listed nodes, and is flattened. *)
(***************************************************************************)
LEMMA PayloadIsTheList ==
  ASSUME body \in Bodies, NEW deep, ListsTheBody(deep)
  PROVE  /\ Payload.repeats = FALSE
         /\ Payload.root = nodes[1].id
         /\ PayloadIds(Payload) = {nodes[i].id : i \in DOMAIN nodes}
         /\ \A i \in DOMAIN nodes :
              Payload.nodes[nodes[i].id] =
                [type |-> nodes[i].type, parent_id |-> nodes[i].parent_id, depth |-> nodes[i].depth]
<1> DEFINE indexOf(id) == CHOOSE k \in DOMAIN nodes : nodes[k].id = id
           ids == {nodes[k].id : k \in DOMAIN nodes}
           table == [id \in ids |->
                       [type |-> nodes[indexOf(id)].type,
                        parent_id |-> nodes[indexOf(id)].parent_id,
                        depth |-> nodes[indexOf(id)].depth]]
<1>1. Payload = [repeats |-> FALSE, root |-> nodes[1].id, nodes |-> table]
  BY DEF Payload
<1>2. \A i \in DOMAIN nodes : indexOf(nodes[i].id) = i
  <2> TAKE i \in DOMAIN nodes
  <2>1. indexOf(nodes[i].id) \in DOMAIN nodes /\ nodes[indexOf(nodes[i].id)].id = nodes[i].id
    OBVIOUS
  <2> HIDE DEF indexOf
  <2> QED
    BY <2>1 DEF ListsTheBody
<1>3. DOMAIN table = ids
  OBVIOUS
<1>4. \A i \in DOMAIN nodes :
        table[nodes[i].id] =
          [type |-> nodes[i].type, parent_id |-> nodes[i].parent_id, depth |-> nodes[i].depth]
  <2> HIDE DEF indexOf
  <2> QED
    BY <1>2
<1> HIDE DEF table
<1> QED
  BY <1>1, <1>3, <1>4 DEF PayloadIds

LEMMA PayloadIsTheBody ==
  ASSUME body \in Bodies, NEW deep, ListsTheBody(deep)
  PROVE  /\ PayloadIds(Payload) = {body.id[k] : k \in Positions}
         /\ Payload.root = body.id[1]
         /\ \A k \in Positions :
              /\ Payload.nodes[body.id[k]].type = body.type[k]
              /\ Payload.nodes[body.id[k]].parent_id = HeldBy(k)
              /\ Payload.nodes[body.id[k]].depth = deep[k]
<1>1. \A k \in Positions :
        /\ body.id[k] \in PayloadIds(Payload)
        /\ Payload.nodes[body.id[k]].type = body.type[k]
        /\ Payload.nodes[body.id[k]].parent_id = HeldBy(k)
        /\ Payload.nodes[body.id[k]].depth = deep[k]
  <2> TAKE k \in Positions
  <2>1. PICK i \in DOMAIN nodes : nodes[i] = ListedNode(deep, k)
    BY DEF ListsTheBody
  <2>2. /\ nodes[i].id = body.id[k] /\ nodes[i].type = body.type[k]
        /\ nodes[i].parent_id = HeldBy(k) /\ nodes[i].depth = deep[k]
    BY <2>1 DEF ListedNode
  <2>3. nodes[i].id \in PayloadIds(Payload)
    BY PayloadIsTheList
  <2>4. Payload.nodes[nodes[i].id] =
          [type |-> nodes[i].type, parent_id |-> nodes[i].parent_id, depth |-> nodes[i].depth]
    BY PayloadIsTheList
  <2> QED
    BY <2>2, <2>3, <2>4
<1>2. \A id \in PayloadIds(Payload) : \E k \in Positions : id = body.id[k]
  <2> TAKE id \in PayloadIds(Payload)
  <2>0. PayloadIds(Payload) = {nodes[i].id : i \in DOMAIN nodes}
    BY PayloadIsTheList
  <2>1. PICK i \in DOMAIN nodes : id = nodes[i].id
    BY <2>0
  <2>2. PICK k \in Positions : nodes[i] = ListedNode(deep, k)
    BY DEF ListsTheBody
  <2> QED
    BY <2>1, <2>2 DEF ListedNode
<1>3. nodes[1].id = body.id[1]
  <2>1. 1 \in Positions /\ Positions = 1..Len(body.id) /\ Len(body.id) \in Nat \ {0}
    BY BodyShape
  <2>2. PICK i \in DOMAIN nodes : nodes[i] = ListedNode(deep, 1)
    BY <2>1 DEF ListsTheBody
  <2>3. DOMAIN nodes = 1..Len(nodes) /\ Len(nodes) = Len(body.id)
    BY AsManyNodes DEF ListsTheBody
  <2>4. PICK k \in Positions : nodes[1] = ListedNode(deep, k)
    BY <2>1, <2>3 DEF ListsTheBody
  <2>5. i = 1 \/ Before(nodes[1], nodes[i])
    <3>1. i = 1 \/ (1 \in DOMAIN nodes /\ 1 < i)
      BY <2>1, <2>3
    <3> QED
      BY <3>1 DEF ListsTheBody
  <2>6. CASE i = 1
    BY <2>2, <2>6 DEF ListedNode
  <2>7. CASE Before(nodes[1], nodes[i])
    <3>1. deep[1] = 0 /\ deep[k] \in Nat
      BY DEF ListsTheBody
    <3>2. deep[k] = 0
      BY <2>2, <2>4, <2>7, <3>1 DEF ListedNode, Before
    <3>3. k = 1
      <4> SUFFICES ASSUME k /= 1 PROVE FALSE
        OBVIOUS
      <4>1. body.under[k] \in Positions
        BY BodyShape
      <4>2. deep[k] = deep[body.under[k]] + 1 /\ deep[body.under[k]] \in Nat
        BY <4>1 DEF ListsTheBody
      <4> QED
        BY <3>2, <4>2
    <3> QED
      BY <2>4, <3>3 DEF ListedNode
  <2> QED
    BY <2>5, <2>6, <2>7
<1>4. Payload.root = body.id[1]
  BY <1>3, PayloadIsTheList
<1> QED
  BY <1>1, <1>2, <1>4

LEMMA PayloadIsFlattened ==
  ASSUME body \in Bodies, NEW deep, ListsTheBody(deep)
  PROVE  IsFlattened(Payload)
<1> DEFINE p == Payload
<1>1. /\ p.repeats = FALSE /\ p.root = body.id[1]
      /\ PayloadIds(p) = {body.id[k] : k \in Positions}
      /\ \A k \in Positions :
           /\ p.nodes[body.id[k]].type = body.type[k]
           /\ p.nodes[body.id[k]].parent_id = HeldBy(k)
           /\ p.nodes[body.id[k]].depth = deep[k]
  BY PayloadIsTheList, PayloadIsTheBody
<1>2. /\ p.nodes = [id \in PayloadIds(p) |-> p.nodes[id]]
      /\ \A id \in PayloadIds(p) :
           p.nodes[id] = [type |-> p.nodes[id].type,
                          parent_id |-> p.nodes[id].parent_id,
                          depth |-> p.nodes[id].depth]
  BY DEF PayloadIds, Payload
<1> HIDE DEF p
<1>3. /\ IsFiniteSet(Positions) /\ 1 \in Positions /\ body.under[1] = 0
      /\ \A k \in Positions : body.id[k] \in NodeIds /\ body.type[k] \in NodeTypes
      /\ \A k \in Positions \ {1} : body.under[k] \in Positions
      /\ \A k \in Positions : HeldBy(k) \in ParentIds
  BY BodyShape
<1>4. /\ deep[1] = 0
      /\ \A k \in Positions : deep[k] \in Nat
      /\ \A k \in Positions \ {1} : deep[k] = deep[body.under[k]] + 1
      /\ \A j, k \in Positions : body.id[j] = body.id[k] => j = k
  BY DEF ListsTheBody
<1>5. PayloadIds(p) \subseteq NodeIds /\ p.root \in PayloadIds(p)
  BY <1>1, <1>3
<1>6. IsFiniteSet(PayloadIds(p))
  <2> DEFINE f == [k \in Positions |-> body.id[k]]
  <2>1. f \in Surjection(Positions, PayloadIds(p))
    BY <1>1 DEF Surjection
  <2> QED
    BY <1>3, <2>1, FS_Surjection
<1>7. p.nodes \in [PayloadIds(p) -> [type : NodeTypes, parent_id : ParentIds, depth : Nat]]
  <2>1. ASSUME NEW id \in PayloadIds(p)
        PROVE  p.nodes[id] \in [type : NodeTypes, parent_id : ParentIds, depth : Nat]
    <3>1. PICK k \in Positions : id = body.id[k]
      BY <1>1
    <3>2. p.nodes[id].type \in NodeTypes /\ p.nodes[id].parent_id \in ParentIds
          /\ p.nodes[id].depth \in Nat
      BY <1>1, <1>3, <1>4, <3>1
    <3> DEFINE t == p.nodes[id].type
               u == p.nodes[id].parent_id
               d == p.nodes[id].depth
    <3>3. p.nodes[id] = [type |-> t, parent_id |-> u, depth |-> d]
      BY <1>2
    <3>4. t \in NodeTypes /\ u \in ParentIds /\ d \in Nat
      BY <3>2
    <3> HIDE DEF t, u, d
    <3> QED
      BY <3>3, <3>4
  <2> QED
    BY <1>2, <2>1
<1>8. ASSUME NEW id \in PayloadIds(p)
      PROVE  IF id = p.root
             THEN p.nodes[id].parent_id = NoParent /\ p.nodes[id].depth = 0
             ELSE /\ p.nodes[id].parent_id \in PayloadIds(p)
                  /\ p.nodes[id].depth = p.nodes[p.nodes[id].parent_id].depth + 1
  <2>1. PICK k \in Positions : id = body.id[k]
    BY <1>1
  <2>2. p.nodes[id].parent_id = HeldBy(k) /\ p.nodes[id].depth = deep[k]
    BY <1>1, <2>1
  <2>3. CASE k = 1
    BY <1>1, <1>4, <2>1, <2>2, <2>3 DEF HeldBy
  <2>4. CASE k /= 1
    <3>1. id /= p.root
      BY <1>1, <1>3, <1>4, <2>1, <2>4
    <3>2. HeldBy(k) = body.id[body.under[k]] /\ body.under[k] \in Positions
      BY <1>3, <2>4 DEF HeldBy
    <3>3. HeldBy(k) \in PayloadIds(p) /\ p.nodes[HeldBy(k)].depth = deep[body.under[k]]
      BY <1>1, <3>2
    <3> QED
      BY <1>4, <2>2, <2>4, <3>1, <3>2, <3>3
  <2> QED
    BY <2>3, <2>4
<1> QED
  BY <1>1, <1>5, <1>6, <1>7, <1>8 DEF p, IsFlattened

LEMMA FlattenMeansAsked ==
  ASSUME FlattenInvariant
  PROVE  RepeatsAreRefused /\ FlattenedAsNested
<1>1. RepeatsAreRefused
  <2>1. pass = "raised" => BodyRepeats
    BY DEF FlattenInvariant
  <2>2. ASSUME pass \notin {"raised", "flatten_payload"} PROVE ~BodyRepeats
    <3>1. PICK deep : ListsTheBody(deep)
      BY <2>2, BodyIsListed
    <3> QED
      BY <3>1 DEF ListsTheBody, BodyRepeats, Positions
  <2> QED
    BY <2>1, <2>2 DEF RepeatsAreRefused
<1>2. ASSUME pass \notin {"raised", "flatten_payload"} PROVE FlattenedAsNested
  <2>1. body \in Bodies
    BY DEF FlattenInvariant
  <2>2. PICK deep : ListsTheBody(deep)
    BY <1>2, BodyIsListed
  <2>3. Len(nodes) = Len(body.id)
    BY <2>1, <2>2, AsManyNodes
  <2>4. \A j, k \in DOMAIN nodes : j < k => Before(nodes[j], nodes[k])
    BY <2>2 DEF ListsTheBody
  <2>5. IsFlattened(Payload)
    BY <2>1, <2>2, PayloadIsFlattened
  <2>6. \A k \in DOMAIN body.id :
          Payload.nodes[body.id[k]].parent_id =
            IF k = 1 THEN NoParent ELSE body.id[body.under[k]]
    <3>1. \A k \in Positions : Payload.nodes[body.id[k]].parent_id = HeldBy(k)
      BY <2>1, <2>2, PayloadIsTheBody
    <3> QED
      BY <3>1 DEF Positions, HeldBy
  <2> QED
    BY <2>3, <2>4, <2>5, <2>6 DEF FlattenedAsNested
<1>3. pass \in {"raised", "flatten_payload"} => FlattenedAsNested
  BY DEF FlattenedAsNested
<1> QED
  BY <1>1, <1>2, <1>3

-----------------------------------------------------------------------------
(* closure_rows. *)

SamePair(row, other) ==
  row.ancestor_id = other.ancestor_id /\ row.descendant_id = other.descendant_id

NoPairTwice(s) == \A j, k \in DOMAIN s : j /= k => ~SamePair(s[j], s[k])

RowsOfNode(id) ==
  {ClosureRow(id, id, 0)}
  \union {ClosureRow(above.ancestor_id, id, above.depth) :
            above \in AncestorsWithinPayload(Payload)[id]}
  \union {ClosureRow(above.ancestor_id, id, above.depth + Payload.nodes[id].depth) :
            above \in captured_ancestors}

VisitedIds == {nodes[i].id : i \in 1..visited}

SelfRows(id) == <<ClosureRow(id, id, 0)>>

InnerRows(id, within) ==
  [k \in DOMAIN within |-> ClosureRow(within[k].ancestor_id, id, within[k].depth)]

OuterRows(id, at_depth, captured) ==
  [k \in DOMAIN captured |->
     ClosureRow(captured[k].ancestor_id, id, captured[k].depth + at_depth)]

(***************************************************************************)
(* A list of ancestors runs upwards, one edge at a time.                   *)
(***************************************************************************)
RunsUpwards(within) ==
  within \in Seq(AncestorRows) /\ \A k \in DOMAIN within : within[k].depth = k

ClosedSoFar ==
  /\ visited \in 0..Len(nodes)
  /\ DOMAIN ancestors_within_payload = VisitedIds
  /\ \A id \in VisitedIds :
       /\ RunsUpwards(ancestors_within_payload[id])
       /\ Range(ancestors_within_payload[id]) = AncestorsWithinPayload(Payload)[id]
  /\ rows \in Seq(ClosureRows)
  /\ Range(rows) = UNION {RowsOfNode(id) : id \in VisitedIds}
  /\ NoPairTwice(rows)

CloseInvariant ==
  /\ pass \in {"flatten_payload", "raised"} =>
       visited = 0 /\ ancestors_within_payload = NoFunction /\ rows = <<>>
  /\ pass \notin {"flatten_payload", "raised"} => ClosedSoFar
  /\ pass \in {"assemble_tree", "returned"} => visited = Len(nodes)

(***************************************************************************)
(* Rows added at the end stay one to a pair if none of them has the pair   *)
(* of a row that was there.                                                *)
(***************************************************************************)
LEMMA AddingRows ==
  ASSUME NEW s \in Seq(ClosureRows), NEW t \in Seq(ClosureRows),
         NoPairTwice(s), NoPairTwice(t),
         \A row \in Range(s), other \in Range(t) : ~SamePair(row, other)
  PROVE  /\ s \o t \in Seq(ClosureRows)
         /\ Range(s \o t) = Range(s) \union Range(t)
         /\ NoPairTwice(s \o t)
<1>1. /\ Len(s) \in Nat /\ DOMAIN s = 1..Len(s)
      /\ Len(t) \in Nat /\ DOMAIN t = 1..Len(t)
  BY LenProperties
<1>2. /\ s \o t \in Seq(ClosureRows) /\ Len(s \o t) = Len(s) + Len(t)
      /\ \A i \in 1..(Len(s) + Len(t)) :
           (s \o t)[i] = IF i <= Len(s) THEN s[i] ELSE t[i - Len(s)]
  BY ConcatProperties
<1>3. Range(s \o t) = Range(s) \union Range(t)
  BY RangeConcatenation
<1>4. DOMAIN (s \o t) = 1..(Len(s) + Len(t))
  BY <1>2, LenProperties
<1> DEFINE u == s \o t
<1>5. ASSUME NEW j \in DOMAIN u, NEW k \in DOMAIN u, j < k PROVE ~SamePair(u[j], u[k])
  <2>1. CASE k <= Len(s)
    BY <1>1, <1>2, <1>4, <1>5, <2>1 DEF NoPairTwice
  <2>2. CASE j > Len(s)
    <3>1. /\ j - Len(s) \in DOMAIN t /\ k - Len(s) \in DOMAIN t /\ j - Len(s) /= k - Len(s)
          /\ u[j] = t[j - Len(s)] /\ u[k] = t[k - Len(s)]
      BY <1>1, <1>2, <1>4, <1>5, <2>2
    <3> HIDE DEF u
    <3> QED
      BY <3>1 DEF NoPairTwice
  <2>3. CASE j <= Len(s) /\ k > Len(s)
    <3>1. /\ j \in DOMAIN s /\ u[j] = s[j]
          /\ k - Len(s) \in DOMAIN t /\ u[k] = t[k - Len(s)]
      BY <1>1, <1>2, <1>4, <1>5, <2>3
    <3> HIDE DEF u
    <3> QED
      BY <3>1 DEF Range
  <2> QED
    BY <1>1, <1>4, <1>5, <2>1, <2>2, <2>3
<1>6. NoPairTwice(u)
  <2> SUFFICES ASSUME NEW j \in DOMAIN u, NEW k \in DOMAIN u, j /= k PROVE ~SamePair(u[j], u[k])
    BY DEF NoPairTwice
  <2>1. j < k \/ k < j
    BY <1>1, <1>4
  <2> HIDE DEF u
  <2> QED
    BY <1>5, <2>1 DEF SamePair
<1> QED
  BY <1>2, <1>3, <1>6

(***************************************************************************)
(* The node at hand, as the payload has it.                                *)
(***************************************************************************)
LEMMA NodeAtHand ==
  ASSUME body \in Bodies, NEW deep, ListsTheBody(deep), NEW i \in DOMAIN nodes
  PROVE  /\ nodes[i].id \in PayloadIds(Payload) /\ nodes[i].id \in NodeIds
         /\ Payload.nodes[nodes[i].id].type = nodes[i].type
         /\ Payload.nodes[nodes[i].id].parent_id = nodes[i].parent_id
         /\ Payload.nodes[nodes[i].id].depth = nodes[i].depth
         /\ nodes[i].depth \in Nat
         /\ nodes[i].parent_id = NoParent <=> nodes[i].id = Payload.root
         /\ nodes[i].id /= Payload.root => nodes[i].parent_id \in PayloadIds(Payload)
<1>1. IsFlattened(Payload)
  BY PayloadIsFlattened
<1>2. /\ nodes[i].id \in PayloadIds(Payload)
      /\ Payload.nodes[nodes[i].id] =
           [type |-> nodes[i].type, parent_id |-> nodes[i].parent_id, depth |-> nodes[i].depth]
  BY PayloadIsTheList
<1>3. PayloadIds(Payload) \subseteq NodeIds
  BY <1>1, PayloadShape
<1>4. /\ Payload.nodes[nodes[i].id].type = nodes[i].type
      /\ Payload.nodes[nodes[i].id].parent_id = nodes[i].parent_id
      /\ Payload.nodes[nodes[i].id].depth = nodes[i].depth
  BY <1>2
<1>5. /\ Payload.nodes[nodes[i].id].depth \in Nat
      /\ Payload.nodes[nodes[i].id].parent_id = NoParent <=> nodes[i].id = Payload.root
      /\ nodes[i].id /= Payload.root =>
           Payload.nodes[nodes[i].id].parent_id \in PayloadIds(Payload)
  BY <1>1, <1>2, PayloadShape
<1> QED
  BY <1>2, <1>3, <1>4, <1>5

LEMMA WithinIsAncestors ==
  ASSUME FlattenInvariant, CloseInvariant, CloseOverNode
  PROVE  LET node == nodes[visited + 1]
         IN  /\ RunsUpwards(Within(node))
             /\ Range(Within(node)) = AncestorsWithinPayload(Payload)[node.id]
<1> DEFINE node == nodes[visited + 1]
           within == AncestorsWithinPayload(Payload)
           above == ancestors_within_payload[node.parent_id]
<1>1. /\ pass = "closure_rows" /\ visited < Len(nodes)
      /\ node.parent_id \in DOMAIN ancestors_within_payload \union {NoParent}
  BY DEF CloseOverNode
<1>2. ClosedSoFar /\ body \in Bodies
  BY <1>1 DEF CloseInvariant, FlattenInvariant
<1>3. PICK deep : ListsTheBody(deep)
  BY <1>1, BodyIsListed
<1>4. visited + 1 \in DOMAIN nodes
  <2>1. nodes \in Seq(SubtreeRows) /\ DOMAIN nodes = 1..Len(nodes)
    BY <1>3 DEF ListsTheBody
  <2>2. Len(nodes) \in Nat /\ visited \in 0..Len(nodes)
    BY <1>2, <2>1, LenProperties DEF ClosedSoFar
  <2> QED
    BY <1>1, <2>1, <2>2
<1>5. /\ node.id \in PayloadIds(Payload) /\ node.id \in NodeIds
      /\ Payload.nodes[node.id].parent_id = node.parent_id
      /\ node.parent_id = NoParent <=> node.id = Payload.root
      /\ node.id /= Payload.root => node.parent_id \in PayloadIds(Payload)
  BY <1>2, <1>3, <1>4, NodeAtHand
<1>6. IsFlattened(Payload)
  BY <1>2, <1>3, PayloadIsFlattened
<1> HIDE DEF node
<1>7. CASE node.parent_id = NoParent
  <2>1. Within(node) = <<>> /\ node.id = Payload.root
    BY <1>5, <1>7 DEF Within
  <2>2. within[node.id] = {}
    BY <1>6, <2>1, AncestorsOfNode
  <2>3. RunsUpwards(<<>>) /\ Range(<<>>) = {}
    BY DEF RunsUpwards, Range
  <2> QED
    BY <2>1, <2>2, <2>3 DEF node
<1>8. CASE node.parent_id /= NoParent
  <2>1. node.parent_id \in VisitedIds
    BY <1>1, <1>2, <1>8 DEF ClosedSoFar
  <2>2. above \in Seq(AncestorRows) /\ (\A k \in DOMAIN above : above[k].depth = k)
        /\ Range(above) = within[node.parent_id]
    BY <1>2, <2>1 DEF ClosedSoFar, RunsUpwards
  <2>3. node.id \in PayloadIds(Payload) \ {Payload.root}
    BY <1>5, <1>8
  <2>4. within[node.id] =
          {AncestorRow(node.parent_id, 1)}
            \union {AncestorRow(higher.ancestor_id, higher.depth + 1) : higher \in Range(above)}
    BY <1>5, <1>6, <2>2, <2>3, AncestorsOfNode
  <2> DEFINE first == <<AncestorRow(node.parent_id, 1)>>
             rest == [k \in DOMAIN above |-> AncestorRow(above[k].ancestor_id, above[k].depth + 1)]
  <2>5. Within(node) = first \o rest
    BY <1>8 DEF Within
  <2> HIDE DEF above, within
  <2>6. Len(above) \in Nat /\ DOMAIN above = 1..Len(above)
        /\ \A k \in DOMAIN above : above[k] \in AncestorRows
    BY <2>2, LenProperties
  <2>7. first \in Seq(AncestorRows) /\ Len(first) = 1 /\ first[1] = AncestorRow(node.parent_id, 1)
        /\ Range(first) = {AncestorRow(node.parent_id, 1)}
    <3>1. node.parent_id \in NodeIds
      BY <1>5, <1>6, <2>3, PayloadShape
    <3>2. AncestorRow(node.parent_id, 1) \in AncestorRows
      BY <3>1 DEF AncestorRow, AncestorRows
    <3> QED
      BY <3>2 DEF Range
  <2>8. rest \in Seq(AncestorRows) /\ Len(rest) = Len(above) /\ DOMAIN rest = DOMAIN above
    <3>1. \A k \in DOMAIN above :
            AncestorRow(above[k].ancestor_id, above[k].depth + 1) \in AncestorRows
      BY <2>6 DEF AncestorRow, AncestorRows
    <3>2. rest \in [1..Len(above) -> AncestorRows]
      BY <2>6, <3>1
    <3> QED
      BY <2>6, <3>2, SeqDef
  <2>9. \A k \in DOMAIN above : rest[k] = AncestorRow(above[k].ancestor_id, k + 1)
    BY <2>2
  <2>10. Range(rest) = {AncestorRow(higher.ancestor_id, higher.depth + 1) : higher \in Range(above)}
    BY DEF Range
  <2> HIDE DEF first, rest
  <2>11. /\ Within(node) \in Seq(AncestorRows)
         /\ DOMAIN Within(node) = 1..(Len(above) + 1)
         /\ Range(Within(node)) = Range(first) \union Range(rest)
         /\ \A k \in 1..(Len(above) + 1) :
              Within(node)[k] = IF k <= 1 THEN first[k] ELSE rest[k - 1]
    <3>1. /\ first \o rest \in Seq(AncestorRows)
          /\ Len(first \o rest) = Len(first) + Len(rest)
          /\ \A k \in 1..(Len(first) + Len(rest)) :
               (first \o rest)[k] = IF k <= Len(first) THEN first[k] ELSE rest[k - Len(first)]
      <4>1. first \in Seq(AncestorRows) /\ rest \in Seq(AncestorRows)
        BY <2>7, <2>8
      <4> QED
        BY <4>1, ConcatProperties
    <3>2. Len(first) + Len(rest) = Len(above) + 1
      BY <2>6, <2>7, <2>8
    <3>3. DOMAIN (first \o rest) = 1..(Len(above) + 1)
      BY <3>1, <3>2, LenProperties
    <3> QED
      BY <2>5, <2>7, <2>8, <3>1, <3>2, <3>3, RangeConcatenation
  <2>12. \A k \in DOMAIN Within(node) : Within(node)[k].depth = k
    <3> TAKE k \in DOMAIN Within(node)
    <3>1. CASE k = 1
      BY <2>7, <2>11, <3>1 DEF AncestorRow
    <3>2. CASE k /= 1
      <4>1. k - 1 \in DOMAIN above /\ (k - 1) + 1 = k /\ Within(node)[k] = rest[k - 1]
        BY <2>6, <2>11, <3>2
      <4>2. rest[k - 1] = AncestorRow(above[k - 1].ancestor_id, (k - 1) + 1)
        BY <2>9, <4>1
      <4>3. rest[k - 1].depth = (k - 1) + 1
        BY <4>2 DEF AncestorRow
      <4> QED
        BY <4>1, <4>3
    <3> QED
      BY <3>1, <3>2
  <2> QED
    BY <2>4, <2>7, <2>10, <2>11, <2>12 DEF RunsUpwards, node, within
<1> QED
  BY <1>7, <1>8 DEF node

(***************************************************************************)
(* What is above the posted root is listed by distance, each once.         *)
(***************************************************************************)
LEMMA CapturedInOrder ==
  ASSUME captured_ancestors \in Ancestries
  PROVE  LET captured == InOrder(captured_ancestors,
                                 {pair \in captured_ancestors \X captured_ancestors :
                                    pair[1].depth < pair[2].depth})
         IN  /\ captured \in Seq(AncestorRows)
             /\ Range(captured) = captured_ancestors
             /\ \A i, j \in DOMAIN captured :
                  captured[i].ancestor_id = captured[j].ancestor_id => i = j
<1> DEFINE S == captured_ancestors
           R == {pair \in S \X S : pair[1].depth < pair[2].depth}
           n == Cardinality(S)
           s == InOrder(S, R)
<1>1. /\ S \subseteq AncestorRows /\ IsFiniteSet(S)
      /\ \A above, other \in S :
           above.ancestor_id = other.ancestor_id \/ above.depth = other.depth => above = other
  BY AncestriesAssumption DEF IsAncestry
<1>2. \A above \in S : above.depth \in Nat
  BY <1>1 DEF AncestorRows
<1>3. \A x, y \in S : <<x, y>> \in R <=> x.depth < y.depth
  OBVIOUS
<1> HIDE DEF R
<1>4. IsStrictOrder(R, S)
  BY <1>1, <1>2, <1>3 DEF IsStrictOrder
<1>5. /\ n \in Nat /\ s \in [1..n -> S]
      /\ \A i, j \in 1..n : i < j => <<s[i], s[j]>> \in R
      /\ \A x \in S : \E i \in 1..n : s[i] = x
  BY <1>1, <1>4, InOrderIs
<1> HIDE DEF n, s
<1>6. s \in Seq(AncestorRows) /\ DOMAIN s = 1..n
  <2>1. s \in [1..n -> AncestorRows]
    BY <1>1, <1>5
  <2> QED
    BY <1>5, <2>1, SeqDef
<1>7. Range(s) = S
  BY <1>5, <1>6 DEF Range
<1>8. ASSUME NEW i \in 1..n, NEW j \in 1..n, s[i].ancestor_id = s[j].ancestor_id, i /= j
      PROVE  FALSE
  <2>1. s[i] = s[j] /\ s[i] \in S
    BY <1>1, <1>5, <1>8
  <2>2. i < j \/ j < i
    BY <1>5, <1>8
  <2>3. s[i].depth < s[i].depth
    BY <1>3, <1>5, <2>1, <2>2
  <2> QED
    BY <1>2, <2>1, <2>3
<1> QED
  BY <1>6, <1>7, <1>8 DEF s, R

(***************************************************************************)
(* The rows of one node: its self-row, those of its ancestors inside the   *)
(* payload and those of the ancestors captured above it.  No two of them   *)
(* name the same ancestor.                                                 *)
(***************************************************************************)
LEMMA RowsOfOneNode ==
  ASSUME FlattenInvariant, NEW deep, ListsTheBody(deep), NEW i \in DOMAIN nodes,
         NEW within, RunsUpwards(within),
         Range(within) = AncestorsWithinPayload(Payload)[nodes[i].id],
         NEW captured \in Seq(AncestorRows), Range(captured) = captured_ancestors,
         \A j, k \in DOMAIN captured : captured[j].ancestor_id = captured[k].ancestor_id => j = k
  PROVE  LET id == nodes[i].id
             self == SelfRows(id)
             inner == InnerRows(id, within)
             outer == OuterRows(id, nodes[i].depth, captured)
             added == (self \o inner) \o outer
         IN  /\ self \in Seq(ClosureRows) /\ inner \in Seq(ClosureRows) /\ outer \in Seq(ClosureRows)
             /\ added \in Seq(ClosureRows)
             /\ Range(added) = RowsOfNode(id)
             /\ NoPairTwice(added)
             /\ \A row \in Range(added) : row.descendant_id = id
<1> DEFINE id == nodes[i].id
           self == SelfRows(id)
           inner == InnerRows(id, within)
           outer == OuterRows(id, nodes[i].depth, captured)
           front == self \o inner
           added == front \o outer
<1>1. body \in Bodies /\ captured_ancestors \in Ancestries
  BY DEF FlattenInvariant
<1>2. /\ id \in PayloadIds(Payload) /\ id \in NodeIds
      /\ Payload.nodes[id].depth = nodes[i].depth /\ nodes[i].depth \in Nat
  BY <1>1, NodeAtHand
<1>3. IsFlattened(Payload)
  BY <1>1, PayloadIsFlattened
<1>4. /\ within \in Seq(AncestorRows) /\ \A k \in DOMAIN within : within[k].depth = k
  BY DEF RunsUpwards
<1>5. /\ Len(within) \in Nat /\ DOMAIN within = 1..Len(within)
      /\ \A k \in DOMAIN within : within[k] \in AncestorRows
      /\ Len(captured) \in Nat /\ DOMAIN captured = 1..Len(captured)
      /\ \A k \in DOMAIN captured : captured[k] \in AncestorRows
  BY <1>4, LenProperties
<1>6. \A k \in DOMAIN within :
        /\ within[k].ancestor_id \in PayloadIds(Payload)
        /\ Payload.nodes[within[k].ancestor_id].depth + k = nodes[i].depth
  <2> TAKE k \in DOMAIN within
  <2>1. within[k] \in AncestorsWithinPayload(Payload)[id]
    BY DEF Range
  <2>2. DepthsAddUp(Payload, id)
    BY <1>2, <1>3, DepthsWithinPayload
  <2>3. /\ within[k].ancestor_id \in PayloadIds(Payload)
        /\ Payload.nodes[within[k].ancestor_id].depth + within[k].depth = Payload.nodes[id].depth
    BY <2>1, <2>2 DEF DepthsAddUp
  <2> QED
    BY <1>2, <1>4, <2>3
<1>7. \A x \in PayloadIds(Payload) : Payload.nodes[x].depth \in Nat
  BY <1>3, PayloadShape
<1>8. \A k \in DOMAIN captured : captured[k].ancestor_id \notin PayloadIds(Payload)
  <2> TAKE k \in DOMAIN captured
  <2>1. captured[k] \in captured_ancestors
    BY DEF Range
  <2>2. captured[k].ancestor_id \notin Range(body.id)
    BY <1>1, <2>1, AncestriesAssumption
  <2>3. PayloadIds(Payload) = {body.id[j] : j \in Positions}
    BY <1>1, PayloadIsTheBody
  <2> QED
    BY <2>2, <2>3 DEF Range, Positions
<1> HIDE DEF id
<1>9. /\ self \in Seq(ClosureRows) /\ DOMAIN self = {1} /\ self[1] = ClosureRow(id, id, 0)
      /\ Range(self) = {ClosureRow(id, id, 0)}
  <2>1. ClosureRow(id, id, 0) \in ClosureRows
    BY <1>2 DEF ClosureRow, ClosureRows
  <2> QED
    BY <2>1 DEF Range, SelfRows
<1>10. inner \in Seq(ClosureRows) /\ DOMAIN inner = DOMAIN within
  <2>1. \A k \in DOMAIN within :
          ClosureRow(within[k].ancestor_id, id, within[k].depth) \in ClosureRows
    BY <1>2, <1>5 DEF AncestorRows, ClosureRow, ClosureRows
  <2>2. inner \in [1..Len(within) -> ClosureRows]
    BY <1>5, <2>1 DEF InnerRows
  <2> QED
    BY <1>5, <2>2, SeqDef
<1>11. outer \in Seq(ClosureRows) /\ DOMAIN outer = DOMAIN captured
  <2>1. \A k \in DOMAIN captured :
          ClosureRow(captured[k].ancestor_id, id, captured[k].depth + nodes[i].depth) \in ClosureRows
    BY <1>2, <1>5 DEF AncestorRows, ClosureRow, ClosureRows
  <2>2. outer \in [1..Len(captured) -> ClosureRows]
    BY <1>5, <2>1 DEF OuterRows
  <2> QED
    BY <1>5, <2>2, SeqDef
<1>12. /\ \A k \in DOMAIN within :
            /\ inner[k].ancestor_id = within[k].ancestor_id
            /\ inner[k].descendant_id = id
       /\ \A k \in DOMAIN captured :
            /\ outer[k].ancestor_id = captured[k].ancestor_id
            /\ outer[k].descendant_id = id
       /\ self[1].ancestor_id = id /\ self[1].descendant_id = id
  BY DEF ClosureRow, SelfRows, InnerRows, OuterRows
<1>13. /\ Range(inner) = {ClosureRow(above.ancestor_id, id, above.depth) : above \in Range(within)}
       /\ Range(outer) = {ClosureRow(above.ancestor_id, id, above.depth + nodes[i].depth) :
                            above \in Range(captured)}
  BY DEF Range, InnerRows, OuterRows
<1> HIDE DEF self, inner, outer
<1>14. NoPairTwice(self) /\ NoPairTwice(inner) /\ NoPairTwice(outer)
  <2>1. NoPairTwice(self)
    BY <1>9 DEF NoPairTwice
  <2>2. ASSUME NEW j \in DOMAIN inner, NEW k \in DOMAIN inner, SamePair(inner[j], inner[k])
        PROVE  j = k
    <3>1. within[j].ancestor_id = within[k].ancestor_id
      BY <1>10, <1>12, <2>2 DEF SamePair
    <3>2. /\ Payload.nodes[within[j].ancestor_id].depth \in Nat
          /\ Payload.nodes[within[j].ancestor_id].depth + j = nodes[i].depth
          /\ Payload.nodes[within[j].ancestor_id].depth + k = nodes[i].depth
      BY <1>6, <1>7, <1>10, <3>1
    <3>3. j \in Nat /\ k \in Nat
      BY <1>5, <1>10
    <3> QED
      BY <1>2, <3>2, <3>3
  <2>3. NoPairTwice(outer)
    BY <1>11, <1>12 DEF NoPairTwice, SamePair
  <2> QED
    BY <2>1, <2>2, <2>3 DEF NoPairTwice
<1>15. \A row \in Range(self), other \in Range(inner) : ~SamePair(row, other)
  <2> SUFFICES ASSUME NEW k \in DOMAIN within PROVE ~SamePair(self[1], inner[k])
    BY <1>9, <1>10 DEF Range
  <2>1. within[k].ancestor_id /= id
    <3>1. k \in Nat \ {0}
      BY <1>5
    <3>2. Payload.nodes[within[k].ancestor_id].depth + k = nodes[i].depth
      BY <1>6
    <3> QED
      BY <1>2, <3>1, <3>2
  <2> QED
    BY <1>12, <2>1 DEF SamePair
<1>16. /\ front \in Seq(ClosureRows) /\ NoPairTwice(front)
       /\ Range(front) = Range(self) \union Range(inner)
  BY <1>9, <1>10, <1>14, <1>15, AddingRows
<1>17. /\ \A row \in Range(front) : row.ancestor_id \in PayloadIds(Payload) /\ row.descendant_id = id
       /\ \A row \in Range(outer) : row.ancestor_id \notin PayloadIds(Payload) /\ row.descendant_id = id
  <2>1. \A row \in Range(self) : row.ancestor_id \in PayloadIds(Payload) /\ row.descendant_id = id
    BY <1>2, <1>9, <1>12 DEF Range
  <2>2. \A row \in Range(inner) : row.ancestor_id \in PayloadIds(Payload) /\ row.descendant_id = id
    BY <1>6, <1>10, <1>12 DEF Range
  <2>3. \A row \in Range(outer) : row.ancestor_id \notin PayloadIds(Payload) /\ row.descendant_id = id
    BY <1>8, <1>11, <1>12 DEF Range
  <2> QED
    BY <1>16, <2>1, <2>2, <2>3
<1> HIDE DEF front
<1>18. /\ added \in Seq(ClosureRows) /\ NoPairTwice(added)
       /\ Range(added) = Range(front) \union Range(outer)
  <2>1. \A row \in Range(front), other \in Range(outer) : ~SamePair(row, other)
    BY <1>17 DEF SamePair
  <2> QED
    BY <1>11, <1>14, <1>16, <2>1, AddingRows
<1>19. Range(added) = RowsOfNode(id)
  BY <1>2, <1>9, <1>13, <1>16, <1>18 DEF RowsOfNode, id
<1>20. \A row \in Range(added) : row.descendant_id = id
  BY <1>17, <1>18
<1> QED
  BY <1>9, <1>10, <1>11, <1>18, <1>19, <1>20 DEF added, front, self, inner, outer, id

LEMMA NodeKeepsClosed ==
  ASSUME FlattenInvariant, CloseInvariant, CloseOverNode
  PROVE  ClosedSoFar' /\ Payload' = Payload
<1> DEFINE node == nodes[visited + 1]
           id == node.id
           within == Within(node)
           captured == InOrder(captured_ancestors, {pair \in captured_ancestors \X captured_ancestors :
                                                      pair[1].depth < pair[2].depth})
           self == SelfRows(id)
           inner == InnerRows(id, within)
           outer == OuterRows(id, node.depth, captured)
           added == (self \o inner) \o outer
<1>1. /\ pass = "closure_rows" /\ visited < Len(nodes)
      /\ ancestors_within_payload' =
           [x \in DOMAIN ancestors_within_payload \union {id} |->
              IF x = id THEN within ELSE ancestors_within_payload[x]]
      /\ rows' = ((rows \o self) \o inner) \o outer
      /\ visited' = visited + 1
      /\ UNCHANGED <<nodes, captured_ancestors>>
  BY DEF CloseOverNode, flattening, SelfRows, InnerRows, OuterRows
<1>2. ClosedSoFar /\ body \in Bodies /\ captured_ancestors \in Ancestries
  BY <1>1 DEF CloseInvariant, FlattenInvariant
<1>3. PICK deep : ListsTheBody(deep)
  BY <1>1, BodyIsListed
<1>4. /\ Len(nodes) \in Nat /\ DOMAIN nodes = 1..Len(nodes)
      /\ visited \in Nat /\ visited + 1 \in DOMAIN nodes
  <2>1. nodes \in Seq(SubtreeRows) /\ DOMAIN nodes = 1..Len(nodes)
    BY <1>3 DEF ListsTheBody
  <2>2. Len(nodes) \in Nat /\ visited \in 0..Len(nodes)
    BY <1>2, <2>1, LenProperties DEF ClosedSoFar
  <2>3. visited \in Nat /\ visited + 1 \in 1..Len(nodes)
    BY <1>1, <2>2
  <2> QED
    BY <2>1, <2>2, <2>3
<1>5. RunsUpwards(within) /\ Range(within) = AncestorsWithinPayload(Payload)[id]
  BY WithinIsAncestors
<1>6. /\ captured \in Seq(AncestorRows) /\ Range(captured) = captured_ancestors
      /\ \A i, j \in DOMAIN captured :
           captured[i].ancestor_id = captured[j].ancestor_id => i = j
  BY <1>2, CapturedInOrder
<1> HIDE DEF within, captured
<1>7. /\ self \in Seq(ClosureRows) /\ inner \in Seq(ClosureRows) /\ outer \in Seq(ClosureRows)
      /\ added \in Seq(ClosureRows)
      /\ Range(added) = RowsOfNode(id)
      /\ NoPairTwice(added)
      /\ \A row \in Range(added) : row.descendant_id = id
  BY <1>3, <1>4, <1>5, <1>6, RowsOfOneNode
<1>8. Payload' = Payload
  BY <1>1 DEF Payload
<1>9. id \notin VisitedIds /\ VisitedIds' = VisitedIds \union {id}
  <2>1. \A i \in 1..visited : nodes[i].id /= id
    <3> TAKE i \in 1..visited
    <3>1. i \in DOMAIN nodes /\ i /= visited + 1
      BY <1>4
    <3> QED
      BY <1>3, <1>4, <3>1 DEF ListsTheBody
  <2>2. 1..(visited + 1) = 1..visited \union {visited + 1}
    BY <1>4
  <2>3. VisitedIds' = {nodes[i].id : i \in 1..(visited + 1)}
    BY <1>1 DEF VisitedIds
  <2> QED
    BY <2>1, <2>2, <2>3 DEF VisitedIds
<1> HIDE DEF self, inner, outer, id
<1>10. rows' = rows \o added
  <2>1. rows \in Seq(ClosureRows)
    BY <1>2 DEF ClosedSoFar
  <2> DEFINE front == self \o inner
  <2>2. front \in Seq(ClosureRows)
    BY <1>7, ConcatProperties
  <2>3. (rows \o self) \o inner = rows \o front
    BY <1>7, <2>1, ConcatAssociative
  <2> HIDE DEF front
  <2>4. outer \in Seq(ClosureRows)
    BY <1>7
  <2>5. (rows \o front) \o outer = rows \o (front \o outer)
    BY <2>1, <2>2, <2>4, ConcatAssociative
  <2>6. rows' = (rows \o front) \o outer
    BY <1>1, <2>3
  <2> QED
    BY <2>5, <2>6 DEF front
<1> HIDE DEF added
<1>11. /\ rows \in Seq(ClosureRows) /\ NoPairTwice(rows)
       /\ Range(rows) = UNION {RowsOfNode(x) : x \in VisitedIds}
  BY <1>2 DEF ClosedSoFar
<1>12. \A row \in Range(rows) : row.descendant_id \in VisitedIds
  <2> TAKE row \in Range(rows)
  <2>1. PICK x \in VisitedIds : row \in RowsOfNode(x)
    BY <1>11
  <2>2. row.descendant_id = x
    BY <2>1 DEF RowsOfNode, ClosureRow
  <2> QED
    BY <2>1, <2>2
<1>13. /\ rows' \in Seq(ClosureRows) /\ NoPairTwice(rows')
       /\ Range(rows') = Range(rows) \union Range(added)
  <2>1. \A row \in Range(rows), other \in Range(added) : ~SamePair(row, other)
    BY <1>7, <1>9, <1>12 DEF SamePair
  <2> QED
    BY <1>7, <1>10, <1>11, <2>1, AddingRows
<1>14. Range(rows') = UNION {RowsOfNode(x) : x \in VisitedIds'}
  BY <1>7, <1>9, <1>11, <1>13
<1>15. \A x : RowsOfNode(x)' = RowsOfNode(x)
  BY <1>1, <1>8 DEF RowsOfNode
<1>16. DOMAIN ancestors_within_payload = VisitedIds
  BY <1>2 DEF ClosedSoFar
<1>17. \A x \in VisitedIds' :
         /\ RunsUpwards(ancestors_within_payload'[x])
         /\ Range(ancestors_within_payload'[x]) = AncestorsWithinPayload(Payload')[x]
  <2> TAKE x \in VisitedIds'
  <2>1. CASE x = id
    BY <1>1, <1>5, <1>8, <2>1
  <2>2. CASE x /= id
    <3>1. x \in VisitedIds /\ ancestors_within_payload'[x] = ancestors_within_payload[x]
      BY <1>1, <1>9, <1>16, <2>2
    <3> QED
      BY <1>2, <1>8, <3>1 DEF ClosedSoFar
  <2> QED
    BY <2>1, <2>2
<1>18. DOMAIN ancestors_within_payload' = VisitedIds'
  BY <1>1, <1>9, <1>16
<1>19. visited' \in 0..Len(nodes')
  BY <1>1, <1>4
<1>20. /\ rows' \in Seq(ClosureRows)
       /\ Range(rows') = UNION {RowsOfNode(x)' : x \in VisitedIds'}
       /\ NoPairTwice(rows)'
  <2>1. {RowsOfNode(x)' : x \in VisitedIds'} = {RowsOfNode(x) : x \in VisitedIds'}
    BY <1>15
  <2> QED
    BY <1>13, <1>14, <2>1 DEF NoPairTwice
<1> QED
  BY <1>8, <1>17, <1>18, <1>19, <1>20 DEF ClosedSoFar, RunsUpwards

LEMMA ClosePreserved ==
  ASSUME FlattenInvariant, CloseInvariant, [Next]_vars
  PROVE  CloseInvariant'
<1>1. ASSUME UNCHANGED <<nodes, captured_ancestors, closing>>
      PROVE  ClosedSoFar => ClosedSoFar'
  <2>1. Payload' = Payload /\ VisitedIds' = VisitedIds /\ NoPairTwice(rows)' = NoPairTwice(rows)
    BY <1>1 DEF Payload, VisitedIds, NoPairTwice, closing
  <2>2. \A id : RowsOfNode(id)' = RowsOfNode(id)
    BY <1>1, <2>1 DEF RowsOfNode
  <2>3. {RowsOfNode(id)' : id \in VisitedIds'} = {RowsOfNode(id) : id \in VisitedIds}
    BY <2>1, <2>2
  <2> QED
    BY <1>1, <2>1, <2>3 DEF ClosedSoFar, RunsUpwards, closing
<1>2. CASE FlattenLevel
  BY <1>2 DEF FlattenLevel, CloseInvariant, closing
<1>3. CASE Flattened
  <2>1. /\ pass = "flatten_payload" /\ pass' = "closure_rows"
        /\ UNCHANGED <<nodes, captured_ancestors, closing>>
    BY <1>3 DEF Flattened, flattening
  <2>2. visited = 0 /\ ancestors_within_payload = NoFunction /\ rows = <<>>
    BY <2>1 DEF CloseInvariant
  <2>3. VisitedIds = {}
    BY <2>2 DEF VisitedIds
  <2>4. 0 \in 0..Len(nodes)
    <3>1. Len(nodes) \in Nat
      BY LenProperties DEF FlattenInvariant, FlattenedSoFar, NodesAreListed
    <3> QED
      BY <3>1
  <2>5. DOMAIN NoFunction = {}
    BY DEF NoFunction
  <2>6. rows \in Seq(ClosureRows) /\ Range(rows) = {} /\ NoPairTwice(rows)
    BY <2>2 DEF Range, NoPairTwice
  <2>7. ClosedSoFar
    BY <2>2, <2>3, <2>4, <2>5, <2>6 DEF ClosedSoFar
  <2> QED
    BY <1>1, <2>1, <2>7 DEF CloseInvariant
<1>4. CASE CloseOverNode
  BY <1>4, NodeKeepsClosed DEF CloseInvariant, CloseOverNode
<1>5. CASE Store
  BY <1>1, <1>5 DEF Store, CloseInvariant, closing, flattening
<1>6. CASE AttachRow
  BY <1>1, <1>6 DEF AttachRow, CloseInvariant, closing, flattening
<1>7. CASE Assembled
  BY <1>1, <1>7 DEF Assembled, CloseInvariant, closing, flattening
<1>8. CASE UNCHANGED vars
  BY <1>1, <1>8 DEF vars, CloseInvariant, closing
<1> QED
  BY <1>2, <1>3, <1>4, <1>5, <1>6, <1>7, <1>8 DEF Next, Finished

(***************************************************************************)
(* Over the whole list these are the rows of ClosureRowsOf.                *)
(***************************************************************************)
ClosedAll ==
  /\ FlattenInvariant
  /\ pass \notin {"flatten_payload", "raised"}
  /\ ClosedSoFar
  /\ visited = Len(nodes)

LEMMA RowsAreAll ==
  ASSUME ClosedAll
  PROVE  Range(rows) = ClosureRowsOf(Payload, captured_ancestors) /\ NoPairTwice(rows)
<1>1. ClosedSoFar /\ visited = Len(nodes) /\ body \in Bodies
  BY DEF ClosedAll, FlattenInvariant
<1>2. PICK deep : ListsTheBody(deep)
  BY BodyIsListed DEF ClosedAll
<1>3. VisitedIds = PayloadIds(Payload)
  <2>1. PayloadIds(Payload) = {nodes[i].id : i \in DOMAIN nodes}
    BY <1>1, <1>2, PayloadIsTheList
  <2>2. DOMAIN nodes = 1..visited
    BY <1>1, <1>2 DEF ListsTheBody
  <2> QED
    BY <2>1, <2>2 DEF VisitedIds
<1>4. Range(rows) = UNION {RowsOfNode(id) : id \in PayloadIds(Payload)}
  BY <1>1, <1>3 DEF ClosedSoFar
<1> DEFINE stated == ClosureRowsOf(Payload, captured_ancestors)
<1>5. ASSUME NEW row PROVE row \in stated <=> \E id \in PayloadIds(Payload) : row \in RowsOfNode(id)
  BY DEF ClosureRowsOf, RowsOfNode
<1>6. Range(rows) = stated
  <2> HIDE DEF stated
  <2> QED
    BY <1>4, <1>5
<1> QED
  BY <1>1, <1>6 DEF ClosedSoFar

LEMMA CloseMeansAsked ==
  ASSUME FlattenInvariant, CloseInvariant
  PROVE  RowsAreTheClosure
<1> SUFFICES ASSUME pass \in {"assemble_tree", "returned"} PROVE RowsAreTheClosure
  BY DEF RowsAreTheClosure
<1>1. ClosedAll
  BY DEF ClosedAll, CloseInvariant
<1> QED
  BY <1>1, RowsAreAll DEF RowsAreTheClosure, NoPairTwice, SamePair

-----------------------------------------------------------------------------
(* assemble_tree. *)

(***************************************************************************)
(* What the read returns of a payload node.                                *)
(***************************************************************************)
ReadRow(id) ==
  [id |-> id,
   type |-> Payload.nodes[id].type,
   parent_id |-> IF id = Payload.root THEN StoredParent ELSE Payload.nodes[id].parent_id,
   depth |-> Payload.nodes[id].depth]

(***************************************************************************)
(* The read of the root returns every payload node once, at its depth.     *)
(***************************************************************************)
LEMMA ReadIsThePayload ==
  ASSUME ClosedAll
  PROVE  /\ IsFlattened(Payload)
         /\ ReadRows = {ReadRow(id) : id \in PayloadIds(Payload)}
         /\ \A id \in PayloadIds(Payload) : ReadRow(id) \in SubtreeRows
<1> DEFINE p == Payload
           A == captured_ancestors
           C == ClosureRowsOf(p, A)
           N == NodeRows(p, StoredParent)
<1>1. body \in Bodies /\ A \in Ancestries
  BY DEF ClosedAll, FlattenInvariant
<1>2. PICK deep : ListsTheBody(deep)
  BY BodyIsListed DEF ClosedAll
<1>3. IsFlattened(p)
  BY <1>1, <1>2, PayloadIsFlattened
<1>4. Range(rows) = C
  BY RowsAreAll
<1>5. A \in SUBSET AncestorRows /\ \A above \in A : above.ancestor_id /= p.root
  <2>1. 1 \in Positions /\ p.root = body.id[1]
    BY <1>1, <1>2, BodyShape, PayloadIsTheBody
  <2>2. p.root \in Range(body.id)
    BY <2>1 DEF Positions, Range
  <2> QED
    BY <1>1, <2>2, AncestriesAssumption DEF IsAncestry
<1>6. StoredParent \in ParentIds
  <2>1. CASE \E above \in A : above.depth = 1
    <3>1. (CHOOSE above \in A : above.depth = 1) \in A
      BY <2>1
    <3> QED
      BY <1>5, <2>1, <3>1 DEF StoredParent, AncestorRows, ParentIds
  <2>2. CASE ~\E above \in A : above.depth = 1
    BY <2>2 DEF StoredParent, ParentIds
  <2> QED
    BY <2>1, <2>2
<1> HIDE DEF p, A, C
<1>7. /\ PayloadIds(p) \subseteq NodeIds /\ p.root \in PayloadIds(p)
      /\ p.nodes[p.root].depth = 0
      /\ \A id \in PayloadIds(p) :
           /\ p.nodes[id].type \in NodeTypes /\ p.nodes[id].depth \in Nat
           /\ p.nodes[id].depth = 0 <=> id = p.root
           /\ id /= p.root => p.nodes[id].parent_id \in PayloadIds(p)
  BY <1>3, PayloadShape
<1>8. ASSUME NEW id \in PayloadIds(p) PROVE ReadRow(id) \in SubtreeRows
  <2>1. StoredParent \in ParentIds /\ (id /= p.root => p.nodes[id].parent_id \in ParentIds)
    BY <1>6, <1>7 DEF ParentIds
  <2> QED
    BY <1>7, <2>1 DEF ReadRow, SubtreeRows, p
<1>9. ASSUME NEW y \in NodeIds, NEW k \in Nat
      PROVE  ClosureRow(p.root, y, k) \in C <=> y \in PayloadIds(p) /\ k = p.nodes[y].depth
  <2>1. ClosureRow(p.root, y, k) \in C <=> IsStated(p, A, p.root, y, k)
    BY <1>3, <1>5, <1>7, RowsStated DEF C
  <2>2. ~\E d \in Nat : AncestorRow(p.root, d) \in A
    BY <1>5 DEF AncestorRow
  <2>3. ASSUME y \in PayloadIds(p)
        PROVE  ((p.root = y /\ k = 0) \/ AncestorRow(p.root, k) \in AncestorsWithinPayload(p)[y])
                 <=> k = p.nodes[y].depth
    <3>1. DepthsAddUp(p, y)
      BY <1>3, <2>3, DepthsWithinPayload
    <3>2. AncestorRow(p.root, k) \in AncestorsWithinPayload(p)[y] =>
            k \in Nat \ {0} /\ k = p.nodes[y].depth
      <4> SUFFICES ASSUME AncestorRow(p.root, k) \in AncestorsWithinPayload(p)[y]
                   PROVE  k \in Nat \ {0} /\ k = p.nodes[y].depth
        OBVIOUS
      <4> DEFINE above == AncestorRow(p.root, k)
      <4>1. /\ above.depth \in Nat \ {0}
            /\ p.nodes[above.ancestor_id].depth + above.depth = p.nodes[y].depth
        BY <3>1 DEF DepthsAddUp
      <4>2. above.depth = k /\ above.ancestor_id = p.root
        BY DEF AncestorRow
      <4> HIDE DEF above
      <4> QED
        BY <1>7, <4>1, <4>2
    <3>3. y /= p.root => AncestorRow(p.root, p.nodes[y].depth) \in AncestorsWithinPayload(p)[y]
      BY <3>1 DEF DepthsAddUp
    <3> QED
      BY <1>7, <2>3, <3>2, <3>3
  <2> QED
    BY <2>1, <2>2, <2>3 DEF IsStated
<1>10. /\ DOMAIN N = PayloadIds(p)
       /\ \A id \in PayloadIds(p) :
            /\ N[id].type = p.nodes[id].type
            /\ N[id].parent_id =
                 IF p.nodes[id].depth = 0 THEN StoredParent ELSE p.nodes[id].parent_id
  BY DEF NodeRows
<1> HIDE DEF N
<1>11. C \subseteq ClosureRows
  BY <1>3, <1>5, RowsStated DEF C
<1>12. ASSUME NEW row \in C, row.ancestor_id = p.root, row.descendant_id \in DOMAIN N
       PROVE  /\ row.descendant_id \in PayloadIds(p)
              /\ [id |-> row.descendant_id, type |-> N[row.descendant_id].type,
                  parent_id |-> N[row.descendant_id].parent_id, depth |-> row.depth]
                   = ReadRow(row.descendant_id)
  <2>1. /\ row \in ClosureRows /\ row.descendant_id \in NodeIds /\ row.depth \in Nat
        /\ row = ClosureRow(p.root, row.descendant_id, row.depth)
    BY <1>11, <1>12 DEF ClosureRows, ClosureRow
  <2>2. row.descendant_id \in PayloadIds(p) /\ row.depth = p.nodes[row.descendant_id].depth
    BY <1>9, <2>1
  <2> QED
    BY <1>7, <1>10, <2>2 DEF ReadRow, p
<1>13. ASSUME NEW id \in PayloadIds(p)
       PROVE  \E row \in C : row.ancestor_id = p.root /\ row.descendant_id = id
  <2>1. ClosureRow(p.root, id, p.nodes[id].depth) \in C
    BY <1>7, <1>9
  <2> QED
    BY <2>1 DEF ClosureRow
<1> DEFINE asRow(row) == [id |-> row.descendant_id, type |-> N[row.descendant_id].type,
                          parent_id |-> N[row.descendant_id].parent_id, depth |-> row.depth]
           found == {row \in C : row.ancestor_id = p.root /\ row.descendant_id \in DOMAIN N}
<1>14. ReadRows = {asRow(row) : row \in found}
  BY <1>4 DEF ReadRows, FetchSubtreeRows, N, p
<1>15. \A row \in found : row.descendant_id \in PayloadIds(p) /\ asRow(row) = ReadRow(row.descendant_id)
  BY <1>12
<1>16. \A id \in PayloadIds(p) : \E row \in found : row.descendant_id = id
  BY <1>10, <1>13
<1> HIDE DEF asRow, found
<1>17. ReadRows = {ReadRow(id) : id \in PayloadIds(p)}
  BY <1>14, <1>15, <1>16
<1> QED
  BY <1>3, <1>8, <1>17 DEF p

LEMMA ReadRowIs ==
  ASSUME ClosedAll
  PROVE  /\ Payload.root \in PayloadIds(Payload) /\ PayloadIds(Payload) \subseteq NodeIds
         /\ \A id \in PayloadIds(Payload) :
              /\ ReadRow(id).id = id /\ id \in Int
              /\ ReadRow(id).type = Payload.nodes[id].type
              /\ ReadRow(id).depth = Payload.nodes[id].depth
              /\ ReadRow(id).depth \in Nat
              /\ ReadRow(id).depth = 0 <=> id = Payload.root
              /\ id /= Payload.root =>
                   /\ ReadRow(id).parent_id = Payload.nodes[id].parent_id
                   /\ Payload.nodes[id].parent_id \in PayloadIds(Payload)
                   /\ ReadRow(id).depth = ReadRow(Payload.nodes[id].parent_id).depth + 1
<1>1. IsFlattened(Payload)
  BY ReadIsThePayload
<1>2. /\ Payload.root \in PayloadIds(Payload) /\ PayloadIds(Payload) \subseteq NodeIds
      /\ \A id \in PayloadIds(Payload) :
           /\ Payload.nodes[id].depth \in Nat
           /\ Payload.nodes[id].depth = 0 <=> id = Payload.root
           /\ id /= Payload.root =>
                /\ Payload.nodes[id].parent_id \in PayloadIds(Payload)
                /\ Payload.nodes[id].depth =
                     Payload.nodes[Payload.nodes[id].parent_id].depth + 1
  BY <1>1, PayloadShape
<1>3. \A id : /\ ReadRow(id).id = id
              /\ ReadRow(id).type = Payload.nodes[id].type
              /\ ReadRow(id).depth = Payload.nodes[id].depth
              /\ id /= Payload.root => ReadRow(id).parent_id = Payload.nodes[id].parent_id
  BY DEF ReadRow
<1>4. \A id \in PayloadIds(Payload) : id \in Int
  BY <1>2, NodeIdsAssumption
<1>5. ASSUME NEW id \in PayloadIds(Payload), id /= Payload.root
      PROVE  /\ ReadRow(id).parent_id = Payload.nodes[id].parent_id
             /\ Payload.nodes[id].parent_id \in PayloadIds(Payload)
             /\ ReadRow(id).depth = ReadRow(Payload.nodes[id].parent_id).depth + 1
  BY <1>2, <1>3, <1>5
<1>6. ASSUME NEW id \in PayloadIds(Payload)
      PROVE  ReadRow(id).depth \in Nat /\ (ReadRow(id).depth = 0 <=> id = Payload.root)
  BY <1>2, <1>3
<1> QED
  BY <1>2, <1>3, <1>4, <1>5, <1>6

(***************************************************************************)
(* Read in (depth, id) order, every parent comes before its children, and  *)
(* the tree that is put together is the one posted.                        *)
(***************************************************************************)
LEMMA ReadAssembles ==
  ASSUME ClosedAll
  PROVE  Assembles(ReadRows) /\ AssembleTree(ReadRows) = PostedTree(Payload)
<1> DEFINE Ids == PayloadIds(Payload)
           R == ReadRows
           first == ReadRow(Payload.root)
<1>1. R = {ReadRow(id) : id \in Ids}
  BY ReadIsThePayload
<1>2. \A row \in R : row.id \in Ids /\ row = ReadRow(row.id)
  BY <1>1, ReadRowIs
<1>3. first \in R /\ first.id = Payload.root /\ first.depth = 0
  BY <1>1, ReadRowIs
<1> HIDE DEF R, first
<1>4. \A other \in R \ {first} : Before(first, other) /\ ~Before(other, first)
  <2> TAKE other \in R \ {first}
  <2>1. other.id \in Ids /\ other = ReadRow(other.id) /\ other.id /= Payload.root
    BY <1>2 DEF first
  <2>2. other.depth \in Nat /\ other.depth /= 0
    BY <2>1, ReadRowIs
  <2> QED
    BY <1>3, <2>2 DEF Before
<1>5. Assembles(R)
  <2> SUFFICES ASSUME NEW row \in R, row /= first
               PROVE  \E other \in R : other.id = row.parent_id /\ Before(other, row)
    BY <1>4 DEF Assembles
  <2>1. row.id \in Ids /\ row = ReadRow(row.id) /\ row.id /= Payload.root
    BY <1>2 DEF first
  <2> DEFINE other == ReadRow(Payload.nodes[row.id].parent_id)
  <2>2. /\ row.parent_id = Payload.nodes[row.id].parent_id
        /\ Payload.nodes[row.id].parent_id \in Ids
        /\ row.depth = other.depth + 1
    BY <2>1, ReadRowIs
  <2>3. other \in R /\ other.id = row.parent_id /\ other.depth \in Nat
    BY <1>1, <2>2, ReadRowIs DEF R
  <2> HIDE DEF other
  <2> QED
    BY <2>2, <2>3 DEF Before
<1>6. FirstRow(R) = first
  <2> DEFINE Leads(row) == \A other \in R \ {row} : Before(row, other)
  <2>1. Leads(first)
    BY <1>4
  <2>2. \A row \in R : Leads(row) => row = first
    BY <1>3, <1>4
  <2>3. FirstRow(R) = CHOOSE row \in R : Leads(row)
    BY DEF FirstRow
  <2> HIDE DEF Leads
  <2> QED
    BY <1>3, <2>1, <2>2, <2>3
<1> DEFINE rowOf(id) == CHOOSE r \in R : r.id = id
<1>7. \A id \in Ids : rowOf(id) = ReadRow(id)
  <2> TAKE id \in Ids
  <2>1. ReadRow(id) \in R /\ ReadRow(id).id = id
    BY <1>1, ReadRowIs DEF R
  <2>2. rowOf(id) \in R /\ rowOf(id).id = id
    BY <2>1
  <2> HIDE DEF rowOf
  <2> QED
    BY <1>2, <2>2
<1>8. {row.id : row \in R} = Ids
  BY <1>1, <1>2, ReadRowIs DEF R
<1>9. AssembleTree(R) =
        [root |-> Payload.root,
         nodes |-> [id \in Ids |->
                      [type |-> rowOf(id).type,
                       parent_id |-> IF id = Payload.root THEN NoParent ELSE rowOf(id).parent_id]]]
  BY <1>3, <1>6, <1>8 DEF AssembleTree
<1> HIDE DEF rowOf
<1>10. \A id \in Ids :
         /\ rowOf(id).type = Payload.nodes[id].type
         /\ (IF id = Payload.root THEN NoParent ELSE rowOf(id).parent_id)
              = Payload.nodes[id].parent_id
  <2> TAKE id \in Ids
  <2>1. IsFlattened(Payload)
    BY ReadIsThePayload
  <2>2. Payload.nodes[Payload.root].parent_id = NoParent
    BY <2>1, PayloadShape
  <2> QED
    BY <1>7, <2>2, ReadRowIs
<1>11. AssembleTree(R) = PostedTree(Payload)
  BY <1>9, <1>10 DEF PostedTree
<1> QED
  BY <1>5, <1>11 DEF R

(***************************************************************************)
(* The rows one after the other, as ORDER BY depth, id returns them.       *)
(***************************************************************************)
RowsInOrder ==
  InOrder(ReadRows, {pair \in ReadRows \X ReadRows : Before(pair[1], pair[2])})

LEMMA RowsInOrderAre ==
  ASSUME ClosedAll
  PROVE  /\ RowsInOrder \in Seq(SubtreeRows) /\ DOMAIN RowsInOrder = 1..Len(RowsInOrder)
         /\ Len(RowsInOrder) \in Nat \ {0}
         /\ \A i \in DOMAIN RowsInOrder :
              /\ RowsInOrder[i].id \in PayloadIds(Payload)
              /\ RowsInOrder[i] = ReadRow(RowsInOrder[i].id)
              /\ RowsInOrder[i].id = Payload.root <=> i = 1
         /\ \A id \in PayloadIds(Payload) : \E i \in DOMAIN RowsInOrder : RowsInOrder[i].id = id
         /\ \A i, j \in DOMAIN RowsInOrder :
              /\ i < j => Before(RowsInOrder[i], RowsInOrder[j])
              /\ RowsInOrder[i].id = RowsInOrder[j].id => i = j
<1> DEFINE Ids == PayloadIds(Payload)
           S == ReadRows
           R == {pair \in S \X S : Before(pair[1], pair[2])}
           n == Cardinality(S)
           s == InOrder(S, R)
<1>1. S = {ReadRow(id) : id \in Ids} /\ \A id \in Ids : ReadRow(id) \in SubtreeRows
  BY ReadIsThePayload
<1>2. \A row \in S : row.id \in Ids /\ row = ReadRow(row.id) /\ row.depth \in Nat /\ row.id \in Int
  BY <1>1, ReadRowIs
<1>3. \A row, other \in S : row.id = other.id => row = other
  BY <1>2
<1>4. IsFiniteSet(S)
  <2>1. IsFiniteSet(Ids)
    BY ReadIsThePayload DEF IsFlattened
  <2> DEFINE f == [id \in Ids |-> ReadRow(id)]
  <2>2. f \in Surjection(Ids, S)
    BY <1>1 DEF Surjection
  <2> QED
    BY <2>1, <2>2, FS_Surjection
<1>5. \A x, y \in S : <<x, y>> \in R <=> Before(x, y)
  OBVIOUS
<1> HIDE DEF R, S
<1>6. IsStrictOrder(R, S)
  <2>1. \A x, y \in S : x /= y => Before(x, y) \/ Before(y, x)
    BY <1>2, <1>3 DEF Before
  <2>2. \A x \in S : ~Before(x, x)
    BY <1>2 DEF Before
  <2>3. \A x, y, z \in S : Before(x, y) /\ Before(y, z) => Before(x, z)
    BY <1>2 DEF Before
  <2> QED
    BY <1>5, <2>1, <2>2, <2>3 DEF IsStrictOrder
<1>7. /\ n \in Nat /\ s \in [1..n -> S]
      /\ \A i, j \in 1..n : i < j => <<s[i], s[j]>> \in R
      /\ \A x \in S : \E i \in 1..n : s[i] = x
  BY <1>4, <1>6, InOrderIs
<1>8. s = RowsInOrder
  BY DEF R, S, RowsInOrder
<1> HIDE DEF n, s
<1>9. \A i, j \in 1..n : i < j => Before(s[i], s[j])
  BY <1>5, <1>7
<1>10. \A i, j \in 1..n : s[i].id = s[j].id => i = j
  <2> SUFFICES ASSUME NEW i \in 1..n, NEW j \in 1..n, s[i].id = s[j].id, i < j PROVE FALSE
    BY <1>7
  <2>1. s[i] = s[j] /\ s[i] \in S
    BY <1>3, <1>7
  <2>2. Before(s[i], s[i])
    BY <1>9, <2>1
  <2> QED
    BY <1>2, <2>1, <2>2 DEF Before
<1>11. s \in Seq(SubtreeRows) /\ DOMAIN s = 1..n /\ Len(s) = n
  <2>1. S \subseteq SubtreeRows
    BY <1>1 DEF S
  <2>2. s \in [1..n -> SubtreeRows]
    BY <1>7, <2>1
  <2> QED
    BY <1>7, <2>2, SeqDef
<1>12. \A i \in 1..n : s[i].id \in Ids /\ s[i] = ReadRow(s[i].id)
  BY <1>2, <1>7
<1>13. \A id \in Ids : \E i \in 1..n : s[i].id = id
  <2> TAKE id \in Ids
  <2>1. ReadRow(id) \in S /\ ReadRow(id).id = id
    BY <1>1, ReadRowIs DEF S
  <2> QED
    BY <1>7, <2>1
<1>14. PICK top \in 1..n : s[top].id = Payload.root
  BY <1>13, ReadRowIs
<1>15. top = 1 /\ n /= 0
  <2>1. n /= 0 /\ 1 \in 1..n /\ top \in Nat \ {0}
    BY <1>7, <1>14
  <2>2. s[top].depth = 0 /\ s[1].depth \in Nat
    BY <1>12, <1>14, <2>1, ReadRowIs
  <2> SUFFICES ASSUME top /= 1 PROVE FALSE
    BY <2>1
  <2>3. Before(s[1], s[top])
    BY <1>9, <2>1
  <2>4. s[1].depth = 0
    BY <2>2, <2>3 DEF Before
  <2>5. s[1].id = Payload.root
    BY <1>12, <2>1, <2>4, ReadRowIs
  <2> QED
    BY <1>10, <1>14, <2>1, <2>5
<1>16. \A i \in 1..n : s[i].id = Payload.root <=> i = 1
  BY <1>10, <1>14, <1>15
<1> QED
  BY <1>7, <1>8, <1>9, <1>10, <1>11, <1>12, <1>13, <1>15, <1>16

(***************************************************************************)
(* Of the rows read so far a tree is built: each has the children read so  *)
(* far, in ascending order.                                                *)
(***************************************************************************)
ChildrenRead(listed, id, read) ==
  {listed[j].id : j \in {m \in 2..read : listed[m].parent_id = id}}

Ascends(children) == \A i, j \in DOMAIN children : i < j => children[i] < children[j]

BuiltNodes == [type : NodeTypes, children : Seq(NodeIds)]

IsBuilt(listed, node, row, read) ==
  /\ node \in BuiltNodes
  /\ node.type = row.type
  /\ Range(node.children) = ChildrenRead(listed, row.id, read)
  /\ Ascends(node.children)

AssembledSoFar(read) ==
  /\ read \in 0..Len(RowsInOrder)
  /\ unread \in Seq(SubtreeRows)
  /\ Len(unread) = Len(RowsInOrder) - read
  /\ \A i \in 1..Len(unread) : unread[i] = RowsInOrder[read + i]
  /\ root = IF read = 0 THEN NoParent ELSE Payload.root
  /\ DOMAIN built = {RowsInOrder[i].id : i \in 1..read}
  /\ \A i \in 1..read : IsBuilt(RowsInOrder, built[RowsInOrder[i].id], RowsInOrder[i], read)

AssembleInvariant ==
  /\ pass \notin {"assemble_tree", "returned"} => root = NoParent /\ built = NoFunction
  /\ pass \in {"assemble_tree", "returned"} => \E read : AssembledSoFar(read)
  /\ pass = "returned" => unread = <<>>

LEMMA AppendAscends ==
  ASSUME NEW children \in Seq(NodeIds), Ascends(children), NEW id \in NodeIds,
         \A child \in Range(children) : child < id
  PROVE  /\ Append(children, id) \in Seq(NodeIds)
         /\ Range(Append(children, id)) = Range(children) \union {id}
         /\ Ascends(Append(children, id))
<1> DEFINE longer == Append(children, id)
           n == Len(children)
<1>1. n \in Nat /\ DOMAIN children = 1..n
  BY LenProperties
<1>2. /\ longer \in Seq(NodeIds) /\ Len(longer) = n + 1
      /\ \A i \in 1..n : longer[i] = children[i]
      /\ longer[n + 1] = id
  BY AppendProperties
<1>3. DOMAIN longer = 1..(n + 1)
  BY <1>2, LenProperties
<1> HIDE DEF longer, n
<1>4. Range(longer) = Range(children) \union {id}
  BY <1>1, <1>2, <1>3 DEF Range
<1>5. ASSUME NEW i \in DOMAIN longer, NEW j \in DOMAIN longer, i < j PROVE longer[i] < longer[j]
  <2>1. CASE j = n + 1
    <3>1. i \in DOMAIN children /\ longer[i] = children[i]
      BY <1>1, <1>2, <1>3, <1>5, <2>1
    <3> QED
      BY <1>2, <2>1, <3>1 DEF Range
  <2>2. CASE j /= n + 1
    <3>1. i \in DOMAIN children /\ j \in DOMAIN children
          /\ longer[i] = children[i] /\ longer[j] = children[j]
      BY <1>1, <1>2, <1>3, <1>5, <2>2
    <3> QED
      BY <1>5, <3>1 DEF Ascends
  <2> QED
    BY <2>1, <2>2
<1> QED
  BY <1>2, <1>4, <1>5 DEF Ascends, longer

LEMMA RowsGoDown ==
  ASSUME ClosedAll, NEW i \in DOMAIN RowsInOrder, NEW j \in DOMAIN RowsInOrder, j /= 1,
         RowsInOrder[j].parent_id = RowsInOrder[i].id
  PROVE  /\ RowsInOrder[i].depth \in Nat /\ RowsInOrder[j].depth = RowsInOrder[i].depth + 1
         /\ i < j
<1> DEFINE s == RowsInOrder
<1>1. /\ s[i].id \in PayloadIds(Payload) /\ s[i] = ReadRow(s[i].id)
      /\ s[j].id \in PayloadIds(Payload) /\ s[j] = ReadRow(s[j].id)
      /\ s[j].id /= Payload.root
      /\ DOMAIN s = 1..Len(s) /\ Len(s) \in Nat
      /\ j < i => Before(s[j], s[i])
  BY RowsInOrderAre
<1>2. /\ s[i].depth \in Nat
      /\ s[j].parent_id = Payload.nodes[s[j].id].parent_id
      /\ s[j].depth = ReadRow(Payload.nodes[s[j].id].parent_id).depth + 1
  BY <1>1, ReadRowIs
<1>3. s[j].depth = s[i].depth + 1
  BY <1>1, <1>2
<1>4. ~(j < i) /\ i /= j
  BY <1>1, <1>2, <1>3 DEF Before
<1> QED
  BY <1>1, <1>2, <1>3, <1>4

(***************************************************************************)
(* The next row is not built yet, and is a child of nothing built after    *)
(* it; the one it is attached to has only children read before it.         *)
(***************************************************************************)
LEMMA RowKeepsAssembled ==
  ASSUME ClosedAll, AttachRow, NEW read, AssembledSoFar(read)
  PROVE  AssembledSoFar(read + 1)'
<1> DEFINE s == RowsInOrder
           row == s[read + 1]
           next == read + 1
<1>1. /\ s \in Seq(SubtreeRows) /\ DOMAIN s = 1..Len(s) /\ Len(s) \in Nat \ {0}
      /\ \A i \in DOMAIN s : /\ s[i].id \in PayloadIds(Payload)
                             /\ s[i] = ReadRow(s[i].id)
                             /\ s[i].id = Payload.root <=> i = 1
      /\ \A i, j \in DOMAIN s : /\ i < j => Before(s[i], s[j])
                                /\ s[i].id = s[j].id => i = j
  BY RowsInOrderAre
<1>2. /\ read \in 0..Len(s) /\ unread \in Seq(SubtreeRows) /\ Len(unread) = Len(s) - read
      /\ \A i \in 1..Len(unread) : unread[i] = s[read + i]
      /\ root = IF read = 0 THEN NoParent ELSE Payload.root
      /\ DOMAIN built = {s[i].id : i \in 1..read}
      /\ \A i \in 1..read : IsBuilt(s, built[s[i].id], s[i], read)
  BY DEF AssembledSoFar
<1>3. unread /= <<>> /\ unread' = Tail(unread) /\ UNCHANGED <<nodes, rows, captured_ancestors>>
  BY DEF AttachRow, flattening, closing
<1>4. Payload' = Payload /\ RowsInOrder' = RowsInOrder
  <2>1. Payload' = Payload /\ StoredParent' = StoredParent
    BY <1>3 DEF Payload, StoredParent
  <2>2. ReadRows' = ReadRows
    BY <1>3, <2>1 DEF ReadRows
  <2> QED
    BY <2>1, <2>2 DEF RowsInOrder
<1>5. /\ Head(unread) = unread[1] /\ 1 \in 1..Len(unread)
      /\ unread' \in Seq(SubtreeRows) /\ Len(unread') = Len(unread) - 1
      /\ \A i \in 1..Len(unread') : unread'[i] = unread[i + 1]
  BY <1>2, <1>3, HeadTailProperties
<1>6. next \in 1..Len(s) /\ Head(unread) = row
  BY <1>1, <1>2, <1>5
<1>7. /\ next \in 0..Len(s) /\ Len(unread') = Len(s) - next
      /\ \A i \in 1..Len(unread') : unread'[i] = s[next + i]
  <2>1. next \in 0..Len(s) /\ Len(unread') = Len(s) - next
    BY <1>1, <1>2, <1>5, <1>6
  <2>2. ASSUME NEW i \in 1..Len(unread') PROVE unread'[i] = s[next + i]
    <3>1. i + 1 \in 1..Len(unread) /\ read + (i + 1) = next + i
      BY <1>1, <1>2, <1>5, <2>1
    <3> QED
      BY <1>2, <1>5, <3>1
  <2> QED
    BY <2>1, <2>2
<1> DEFINE leaf == [type |-> row.type, children |-> <<>>]
<1>8. IF root = NoParent
      THEN /\ root' = row.id
           /\ built' = [id \in {row.id} |-> leaf]
      ELSE /\ row.parent_id \in DOMAIN built
           /\ built' = [id \in DOMAIN built \union {row.id} |->
                          IF id = row.id THEN leaf
                          ELSE IF id = row.parent_id
                          THEN [built[id] EXCEPT !.children = Append(@, row.id)]
                          ELSE built[id]]
           /\ UNCHANGED root
  <2> DEFINE head == Head(unread)
  <2>1. IF root = NoParent
        THEN /\ root' = head.id
             /\ built' = [id \in {head.id} |-> [type |-> head.type, children |-> <<>>]]
        ELSE /\ head.parent_id \in DOMAIN built
             /\ built' = [id \in DOMAIN built \union {head.id} |->
                            IF id = head.id THEN [type |-> head.type, children |-> <<>>]
                            ELSE IF id = head.parent_id
                            THEN [built[id] EXCEPT !.children = Append(@, head.id)]
                            ELSE built[id]]
             /\ UNCHANGED root
    BY DEF AttachRow
  <2>2. head = row
    BY <1>6
  <2> HIDE DEF head, row
  <2> QED
    BY <2>1, <2>2
<1>9. read \in Nat /\ \A i \in 1..next : i \in DOMAIN s
  BY <1>1, <1>2, <1>6
<1>10. /\ row.id \in NodeIds /\ row.type \in NodeTypes
       /\ \A i \in 1..read : s[i].id /= row.id
       /\ \A i \in DOMAIN s : s[i].id \in Int /\ s[i].depth \in Nat
  <2>1. row \in SubtreeRows
    BY <1>1, <1>6, ElementOfSeq
  <2>2. \A i \in 1..read : i \in DOMAIN s /\ i /= next
    BY <1>9
  <2>3. \A i \in DOMAIN s : s[i].id \in Int /\ s[i].depth \in Nat
    BY <1>1, ReadRowIs
  <2> QED
    BY <1>1, <1>6, <2>1, <2>2, <2>3 DEF SubtreeRows
<1> HIDE DEF s, row, next
<1>11. \A id : ChildrenRead(s, id, next) =
                 IF next /= 1 /\ row.parent_id = id
                 THEN ChildrenRead(s, id, read) \union {row.id}
                 ELSE ChildrenRead(s, id, read)
  <2>1. \A m : m \in 2..next <=> m \in 2..read \/ (m = next /\ next /= 1)
    BY <1>9 DEF next
  <2> QED
    BY <2>1 DEF ChildrenRead, row, next, s
<1>12. leaf \in BuiltNodes /\ leaf.type = row.type /\ leaf.children = <<>>
  BY <1>10 DEF BuiltNodes
<1> HIDE DEF leaf
<1>13. ChildrenRead(s, row.id, next) = {}
  <2> SUFFICES ASSUME NEW j \in 2..next, s[j].parent_id = row.id PROVE FALSE
    BY DEF ChildrenRead, s
  <2>1. j \in DOMAIN s /\ next \in DOMAIN s /\ j /= 1
    BY <1>1, <1>6, <1>9 DEF next
  <2>2. next < j
    BY <2>1, RowsGoDown DEF s, row, next
  <2> QED
    BY <1>9, <2>2 DEF next
<1>14. IsBuilt(s, leaf, row, next)
  BY <1>12, <1>13 DEF IsBuilt, Range, Ascends
<1>15. ASSUME root' = Payload.root, next /= 0,
              DOMAIN built' = {s[i].id : i \in 1..next},
              \A i \in 1..next : IsBuilt(s, built'[s[i].id], s[i], next)
       PROVE  AssembledSoFar(read + 1)'
  <2>1. s = RowsInOrder' /\ next = read + 1 /\ root' = Payload'.root
    BY <1>4, <1>15 DEF s, next
  <2> HIDE DEF s, next
  <2>2. /\ next \in 0..Len(RowsInOrder') /\ Len(unread') = Len(RowsInOrder') - next
        /\ \A i \in 1..Len(unread') : unread'[i] = RowsInOrder'[next + i]
    BY <1>7, <2>1
  <2>3. DOMAIN built' = {RowsInOrder'[i].id : i \in 1..next}
    BY <1>15, <2>1
  <2>4. \A i \in 1..next :
          IsBuilt(RowsInOrder', built'[RowsInOrder'[i].id], RowsInOrder'[i], next)
    BY <1>15, <2>1
  <2>5. unread' \in Seq(SubtreeRows)
    BY <1>5
  <2>6. root' = IF next = 0 THEN NoParent ELSE Payload'.root
    BY <1>15, <2>1
  <2> QED
    BY <2>1, <2>2, <2>3, <2>4, <2>5, <2>6 DEF AssembledSoFar
<1>16. CASE read = 0
  <2>1. root' = row.id /\ built' = [id \in {row.id} |-> leaf] /\ next = 1
    BY <1>2, <1>8, <1>16 DEF next
  <2>2. root' = Payload.root
    BY <1>1, <1>6, <2>1 DEF row, next
  <2>3. DOMAIN built' = {s[i].id : i \in 1..next} /\ s[1] = row
    BY <2>1 DEF row, next
  <2>4. \A i \in 1..next : IsBuilt(s, built'[s[i].id], s[i], next)
    BY <1>14, <2>1, <2>3
  <2>5. next /= 0
    BY <2>1
  <2> QED
    BY <1>15, <2>2, <2>3, <2>4, <2>5
<1>17. CASE read /= 0
  <2>1. root = Payload.root /\ Payload.root /= NoParent
    BY <1>2, <1>17, ReadRowIs, NoParentAssumption
  <2>2. /\ row.parent_id \in DOMAIN built
        /\ built' = [id \in DOMAIN built \union {row.id} |->
                       IF id = row.id THEN leaf
                       ELSE IF id = row.parent_id
                       THEN [built[id] EXCEPT !.children = Append(@, row.id)]
                       ELSE built[id]]
        /\ root' = Payload.root
    BY <1>8, <2>1
  <2>3. DOMAIN built' = {s[i].id : i \in 1..next}
    <3>1. \A i : i \in 1..next <=> i \in 1..read \/ i = next
      BY <1>9 DEF next
    <3>2. row = s[next]
      BY DEF row, next
    <3> QED
      BY <1>2, <2>2, <3>1, <3>2
  <2>4. ASSUME NEW i \in 1..read PROVE IsBuilt(s, built'[s[i].id], s[i], next)
    <3>1. s[i].id \in DOMAIN built /\ s[i].id /= row.id /\ IsBuilt(s, built[s[i].id], s[i], read)
      BY <1>2, <1>10
    <3>2. CASE s[i].id /= row.parent_id
      <4>1. built'[s[i].id] = built[s[i].id]
        BY <2>2, <3>1, <3>2
      <4>2. ChildrenRead(s, s[i].id, next) = ChildrenRead(s, s[i].id, read)
        BY <1>11, <3>2
      <4> QED
        BY <3>1, <4>1, <4>2 DEF IsBuilt
    <3>3. CASE s[i].id = row.parent_id
      <4> DEFINE node == built[s[i].id]
                 longer == Append(node.children, row.id)
      <4>1. built'[s[i].id] = [node EXCEPT !.children = longer]
        BY <2>2, <3>1, <3>3
      <4>2. /\ node \in BuiltNodes /\ node.children \in Seq(NodeIds)
            /\ node.type = s[i].type
            /\ Range(node.children) = ChildrenRead(s, s[i].id, read) /\ Ascends(node.children)
        BY <3>1 DEF IsBuilt, BuiltNodes
      <4>3. next /= 1 /\ next \in DOMAIN s /\ i \in DOMAIN s
        BY <1>1, <1>6, <1>9, <1>17 DEF next
      <4>4. row.depth = s[i].depth + 1
        BY <3>3, <4>3, RowsGoDown DEF s, row, next
      <4>5. \A child \in Range(node.children) : child < row.id
        <5> TAKE child \in Range(node.children)
        <5>1. PICK j \in 2..read : s[j].parent_id = s[i].id /\ child = s[j].id
          BY <4>2 DEF ChildrenRead, s
        <5>2. j \in DOMAIN s /\ j /= 1 /\ j < next
          BY <1>9 DEF next
        <5>3. s[j].depth = s[i].depth + 1
          BY <4>3, <5>1, <5>2, RowsGoDown DEF s
        <5>4. Before(s[j], row)
          <6>1. Before(s[j], s[next])
            BY <1>1, <4>3, <5>2
          <6> QED
            BY <6>1 DEF row, next
        <5>5. row.depth \in Nat
          <6>1. s[next].depth \in Nat
            BY <1>10, <4>3
          <6> QED
            BY <6>1 DEF row, next
        <5> QED
          BY <4>4, <5>1, <5>3, <5>4, <5>5 DEF Before
      <4>6. /\ longer \in Seq(NodeIds) /\ Ascends(longer)
            /\ Range(longer) = Range(node.children) \union {row.id}
        BY <1>10, <4>2, <4>5, AppendAscends
      <4>7. ChildrenRead(s, s[i].id, next) = ChildrenRead(s, s[i].id, read) \union {row.id}
        BY <1>11, <3>3, <4>3
      <4> HIDE DEF longer, node
      <4>8. /\ [node EXCEPT !.children = longer] \in BuiltNodes
            /\ [node EXCEPT !.children = longer].type = node.type
            /\ [node EXCEPT !.children = longer].children = longer
        BY <4>2, <4>6 DEF BuiltNodes
      <4> QED
        BY <4>1, <4>2, <4>6, <4>7, <4>8 DEF IsBuilt
    <3> QED
      BY <3>2, <3>3
  <2>5. IsBuilt(s, built'[s[next].id], s[next], next)
    <3>1. built'[row.id] = leaf
      BY <2>2
    <3> QED
      BY <1>14, <3>1 DEF row, next
  <2>6. \A i \in 1..next : IsBuilt(s, built'[s[i].id], s[i], next)
    <3>1. \A i \in 1..next : i \in 1..read \/ i = next
      BY <1>9 DEF next
    <3> QED
      BY <2>4, <2>5, <3>1
  <2>7. next /= 0
    BY <1>9 DEF next
  <2> QED
    BY <1>15, <2>2, <2>3, <2>6, <2>7
<1> QED
  BY <1>16, <1>17

LEMMA AssemblePreserved ==
  ASSUME FlattenInvariant, CloseInvariant, AssembleInvariant, [Next]_vars
  PROVE  AssembleInvariant'
<1>1. ASSUME UNCHANGED <<nodes, rows, captured_ancestors>>
      PROVE  RowsInOrder' = RowsInOrder /\ Payload' = Payload
  <2>1. Payload' = Payload /\ StoredParent' = StoredParent
    BY <1>1 DEF Payload, StoredParent
  <2>2. ReadRows' = ReadRows
    BY <1>1, <2>1 DEF ReadRows
  <2> QED
    BY <2>1, <2>2 DEF RowsInOrder
<1>2. ASSUME UNCHANGED <<nodes, rows, captured_ancestors, unread, built, root>>, NEW read
      PROVE  AssembledSoFar(read) => AssembledSoFar(read)'
  <2> SUFFICES ASSUME AssembledSoFar(read) PROVE AssembledSoFar(read)'
    OBVIOUS
  <2>1. RowsInOrder' = RowsInOrder /\ Payload'.root = Payload.root
        /\ unread' = unread /\ built' = built /\ root' = root
    BY <1>1, <1>2
  <2>2. \A i \in 1..read :
          IsBuilt(RowsInOrder', built'[RowsInOrder'[i].id], RowsInOrder'[i], read)
    BY <2>1 DEF AssembledSoFar
  <2>3. DOMAIN built' = {RowsInOrder'[i].id : i \in 1..read}
    BY <2>1 DEF AssembledSoFar
  <2>4. /\ read \in 0..Len(RowsInOrder') /\ unread' \in Seq(SubtreeRows)
        /\ Len(unread') = Len(RowsInOrder') - read
        /\ \A i \in 1..Len(unread') : unread'[i] = RowsInOrder'[read + i]
        /\ root' = IF read = 0 THEN NoParent ELSE Payload'.root
    BY <2>1 DEF AssembledSoFar
  <2> QED
    BY <2>2, <2>3, <2>4 DEF AssembledSoFar
<1>3. CASE FlattenLevel
  BY <1>3 DEF FlattenLevel, AssembleInvariant, assembling
<1>4. CASE Flattened
  BY <1>4 DEF Flattened, AssembleInvariant, assembling
<1>5. CASE CloseOverNode
  BY <1>5 DEF CloseOverNode, AssembleInvariant, assembling
<1>6. CASE Store
  <2>1. /\ pass = "closure_rows" /\ visited = Len(nodes) /\ pass' = "assemble_tree"
        /\ unread' = RowsInOrder
        /\ UNCHANGED <<nodes, rows, captured_ancestors, built, root>>
    BY <1>6 DEF Store, RowsInOrder, flattening, closing
  <2>2. ClosedAll
    BY <2>1 DEF ClosedAll, CloseInvariant
  <2>3. root = NoParent /\ built = NoFunction /\ DOMAIN NoFunction = {}
    BY <2>1 DEF AssembleInvariant, NoFunction
  <2>4. /\ RowsInOrder \in Seq(SubtreeRows) /\ Len(RowsInOrder) \in Nat
        /\ RowsInOrder' = RowsInOrder
    BY <1>1, <2>1, <2>2, RowsInOrderAre
  <2>5. AssembledSoFar(0)'
    BY <2>1, <2>3, <2>4 DEF AssembledSoFar
  <2> QED
    BY <2>1, <2>5 DEF AssembleInvariant
<1>7. CASE AttachRow
  <2>1. pass = "assemble_tree" /\ pass' = pass
    BY <1>7 DEF AttachRow
  <2>2. ClosedAll
    BY <2>1 DEF ClosedAll, CloseInvariant
  <2>3. PICK read : AssembledSoFar(read)
    BY <2>1 DEF AssembleInvariant
  <2>4. AssembledSoFar(read + 1)'
    BY <1>7, <2>2, <2>3, RowKeepsAssembled
  <2> QED
    BY <2>1, <2>4 DEF AssembleInvariant
<1>8. CASE Assembled
  BY <1>2, <1>8 DEF Assembled, AssembleInvariant, assembling, flattening, closing
<1>9. CASE UNCHANGED vars
  BY <1>2, <1>9 DEF vars, AssembleInvariant
<1> QED
  BY <1>3, <1>4, <1>5, <1>6, <1>7, <1>8, <1>9 DEF Next, Finished

(***************************************************************************)
(* Once all rows are read, every node of the body is built, with the       *)
(* children it holds in the body.                                          *)
(***************************************************************************)
LEMMA AssembleMeansAsked ==
  ASSUME FlattenInvariant, CloseInvariant, AssembleInvariant
  PROVE  RoundTrips
<1> SUFFICES ASSUME pass = "returned" PROVE RoundTrips
  BY DEF RoundTrips
<1>1. ClosedAll
  BY DEF ClosedAll, CloseInvariant
<1>2. body \in Bodies
  BY DEF FlattenInvariant
<1>3. PICK deep : ListsTheBody(deep)
  BY BodyIsListed
<1>4. PICK read : AssembledSoFar(read)
  BY DEF AssembleInvariant
<1> DEFINE s == RowsInOrder
           n == Len(s)
<1>5. /\ DOMAIN s = 1..n /\ n \in Nat \ {0}
      /\ \A i \in DOMAIN s : /\ s[i].id \in PayloadIds(Payload)
                             /\ s[i] = ReadRow(s[i].id)
                             /\ s[i].id = Payload.root <=> i = 1
      /\ \A id \in PayloadIds(Payload) : \E i \in DOMAIN s : s[i].id = id
  BY <1>1, RowsInOrderAre
<1>6. unread = <<>> /\ Len(unread) = n - read /\ read \in 0..n
  BY <1>4 DEF AssembleInvariant, AssembledSoFar
<1>7. read = n
  <2>1. Len(unread) = 0
    BY <1>6
  <2>2. n - read = 0
    BY <1>6, <2>1
  <2>3. n \in Int /\ read \in Int
    BY <1>5, <1>6
  <2> QED
    BY <2>2, <2>3
<1>8. /\ root = Payload.root
      /\ DOMAIN built = {s[i].id : i \in 1..n}
      /\ \A i \in 1..n : IsBuilt(s, built[s[i].id], s[i], n)
  BY <1>4, <1>5, <1>7 DEF AssembledSoFar
<1> HIDE DEF s, n
<1>9. /\ PayloadIds(Payload) = {body.id[k] : k \in Positions}
      /\ Payload.root = body.id[1]
      /\ \A k \in Positions : /\ Payload.nodes[body.id[k]].type = body.type[k]
                              /\ Payload.nodes[body.id[k]].parent_id = HeldBy(k)
  BY <1>2, <1>3, PayloadIsTheBody
<1>10. /\ 1 \in Positions /\ body.under[1] = 0
       /\ \A k \in Positions \ {1} : body.under[k] \in Positions
       /\ \A k \in Positions : k /= 0
  BY <1>2, BodyShape
<1>11. \A j, k \in Positions : body.id[j] = body.id[k] => j = k
  BY <1>3 DEF ListsTheBody
<1>12. DOMAIN built = {body.id[k] : k \in DOMAIN body.id}
  <2>1. {s[i].id : i \in 1..n} = PayloadIds(Payload)
    BY <1>5
  <2> QED
    BY <1>8, <1>9, <2>1 DEF Positions
<1>13. ASSUME NEW k \in Positions
       PROVE  /\ built[body.id[k]].type = body.type[k]
              /\ Range(built[body.id[k]].children) =
                   {body.id[child] : child \in {c \in Positions : body.under[c] = k}}
              /\ Ascends(built[body.id[k]].children)
  <2>1. PICK i \in 1..n : s[i].id = body.id[k]
    BY <1>5, <1>9
  <2>2. IsBuilt(s, built[body.id[k]], s[i], n)
    BY <1>8, <2>1
  <2>3. s[i].type = body.type[k]
    <3>1. body.id[k] \in PayloadIds(Payload) /\ s[i] = ReadRow(body.id[k])
      BY <1>5, <1>9, <2>1
    <3> QED
      BY <1>1, <1>9, <3>1, ReadRowIs
  <2> DEFINE held == {body.id[child] : child \in {c \in Positions : body.under[c] = k}}
  <2>4. ASSUME NEW j \in 2..n, NEW c \in Positions, s[j].id = body.id[c]
        PROVE  c /= 1 /\ (s[j].parent_id = body.id[k] <=> body.under[c] = k)
    <3>1. /\ j \in DOMAIN s /\ j /= 1
          /\ body.id[c] \in PayloadIds(Payload) /\ s[j] = ReadRow(body.id[c])
          /\ body.id[c] /= Payload.root
      BY <1>5, <2>4
    <3>2. c /= 1
      BY <1>9, <3>1
    <3>3. s[j].parent_id = HeldBy(c)
      BY <1>1, <1>9, <3>1, ReadRowIs
    <3>4. HeldBy(c) = body.id[body.under[c]] /\ body.under[c] \in Positions
      BY <1>10, <3>2 DEF HeldBy
    <3> QED
      BY <1>11, <3>2, <3>3, <3>4
  <2>5. ChildrenRead(s, body.id[k], n) \subseteq held
    <3> SUFFICES ASSUME NEW j \in 2..n, s[j].parent_id = body.id[k] PROVE s[j].id \in held
      BY DEF ChildrenRead
    <3>1. j \in DOMAIN s
      BY <1>5
    <3>2. PICK c \in Positions : s[j].id = body.id[c]
      BY <1>5, <1>9, <3>1
    <3> QED
      BY <2>4, <3>2
  <2>6. held \subseteq ChildrenRead(s, body.id[k], n)
    <3> SUFFICES ASSUME NEW c \in Positions, body.under[c] = k
                 PROVE  body.id[c] \in ChildrenRead(s, body.id[k], n)
      OBVIOUS
    <3>1. PICK j \in DOMAIN s : s[j].id = body.id[c]
      BY <1>5, <1>9
    <3>2. j /= 1
      BY <1>5, <1>9, <1>10, <1>11, <3>1
    <3>3. j \in 2..n
      BY <1>5, <3>2
    <3> QED
      BY <2>4, <3>1, <3>3 DEF ChildrenRead
  <2>7. ChildrenRead(s, body.id[k], n) = held
    BY <2>5, <2>6
  <2> QED
    BY <2>1, <2>2, <2>3, <2>7 DEF IsBuilt
<1>14. Assembles(ReadRows) /\ AssembleTree(ReadRows) = PostedTree(Payload)
  BY <1>1, ReadAssembles
<1> QED
  BY <1>8, <1>9, <1>12, <1>13, <1>14 DEF RoundTrips, Ascends, Positions

-----------------------------------------------------------------------------
(* The theorems. *)

IInv == FlattenInvariant /\ CloseInvariant /\ AssembleInvariant

LEMMA PassesInvariant == Spec => []IInv
<1>1. Init => IInv
  <2> SUFFICES ASSUME Init PROVE IInv
    OBVIOUS
  <2>1. FlattenInvariant
    BY FlattenInitially
  <2>2. CloseInvariant /\ AssembleInvariant
    BY DEF Init, CloseInvariant, AssembleInvariant
  <2> QED
    BY <2>1, <2>2 DEF IInv
<1>2. IInv /\ [Next]_vars => IInv'
  BY FlattenPreserved, ClosePreserved, AssemblePreserved DEF IInv
<1> QED
  BY <1>1, <1>2, PTL DEF Spec

(***************************************************************************)
(* flatten_payload refuses exactly the bodies in which an id occurs twice, *)
(* whatever the shape of the body and wherever the two are.                *)
(***************************************************************************)
THEOREM RefusesTheRepeated == Spec => []RepeatsAreRefused
<1>1. IInv => RepeatsAreRefused
  BY FlattenMeansAsked DEF IInv
<1> QED
  BY <1>1, PassesInvariant, PTL

(***************************************************************************)
(* What it returns of any other body is that body, in (depth, id) order:   *)
(* a payload as the write path takes one for granted.                      *)
(***************************************************************************)
THEOREM FlattensTheBody == Spec => []FlattenedAsNested
<1>1. IInv => FlattenedAsNested
  BY FlattenMeansAsked DEF IInv
<1> QED
  BY <1>1, PassesInvariant, PTL

(***************************************************************************)
(* closure_rows returns the rows of ClosureRowsOf, the operator the write  *)
(* path inserts, and no pair of them twice.                                *)
(***************************************************************************)
THEOREM ClosesThePayload == Spec => []RowsAreTheClosure
<1>1. IInv => RowsAreTheClosure
  BY CloseMeansAsked DEF IInv
<1> QED
  BY <1>1, PassesInvariant, PTL

(***************************************************************************)
(* assemble_tree puts back together the hierarchy that was posted, every   *)
(* node's children in ascending id order.                                  *)
(***************************************************************************)
THEOREM ReadsBackThePosted == Spec => []RoundTrips
<1>1. IInv => RoundTrips
  BY AssembleMeansAsked DEF IInv
<1> QED
  BY <1>1, PassesInvariant, PTL

=============================================================================

------------------------ MODULE BoundParametersProofs ------------------------
(***************************************************************************)
(* Proof that only a large write can be refused, for payloads of any shape *)
(* and any limit on the parameters of a statement.                         *)
(***************************************************************************)
EXTENDS BoundParameters, NaturalsInduction, WellFoundedInduction, TLAPS

-----------------------------------------------------------------------------
(* Sums. *)

(***************************************************************************)
(* A set of naturals that holds 0 and the successor of each of its members *)
(* is all of Nat.                                                          *)
(***************************************************************************)
LEMMA SetInduction ==
  ASSUME NEW T \in SUBSET Nat, 0 \in T, \A n \in T : n + 1 \in T
  PROVE  T = Nat
<1> DEFINE R == {pair \in Nat \X Nat : pair[1] < pair[2]}
<1>1. SUFFICES ASSUME Nat \ T /= {} PROVE FALSE
  OBVIOUS
<1>2. IsWellFoundedOn(R, Nat)
  BY NatLessThanWellFounded DEF OpToRel
<1> HIDE DEF R
<1>3. PICK least \in Nat \ T : \A n \in Nat \ T : <<n, least>> \notin R
  BY <1>1, <1>2, WFMin
<1>4. \A n \in Nat \ T : ~(n < least)
  BY <1>3 DEF R
<1>5. least - 1 \in T
  BY <1>3, <1>4
<1> QED
  BY <1>3, <1>5

(***************************************************************************)
(* The sums of the first n counts, for each n up to some length.           *)
(***************************************************************************)
AreSums(sum, counts, length) ==
  /\ sum \in [0..length -> Nat]
  /\ sum[0] = 0
  /\ \A n \in 1..length : sum[n] = sum[n - 1] + counts[n]

LEMMA SumsExist ==
  ASSUME NEW counts \in Seq(Nat)
  PROVE  \E sum : AreSums(sum, counts, Len(counts))
<1> DEFINE T == {n \in Nat : n =< Len(counts) => \E sum : AreSums(sum, counts, n)}
<1>1. 0 \in T
  <2>1. AreSums([n \in 0..0 |-> 0], counts, 0)
    BY DEF AreSums
  <2> QED
    BY <2>1
<1>2. ASSUME NEW n \in T PROVE n + 1 \in T
  <2>1. SUFFICES ASSUME n + 1 =< Len(counts) PROVE \E sum : AreSums(sum, counts, n + 1)
    OBVIOUS
  <2>2. PICK sum : AreSums(sum, counts, n)
    BY <2>1
  <2>3. counts[n + 1] \in Nat
    BY <2>1
  <2> DEFINE longer == [k \in 0..(n + 1) |-> IF k = n + 1 THEN sum[n] + counts[n + 1] ELSE sum[k]]
  <2>4. AreSums(longer, counts, n + 1)
    <3>1. /\ n \in Nat /\ sum \in [0..n -> Nat] /\ sum[0] = 0
          /\ \A k \in 1..n : sum[k] = sum[k - 1] + counts[k]
      BY <2>2 DEF AreSums
    <3>2. sum[n] + counts[n + 1] \in Nat
      BY <2>3, <3>1
    <3>3. longer \in [0..(n + 1) -> Nat] /\ longer[0] = 0
      BY <3>1, <3>2
    <3>4. ASSUME NEW k \in 1..(n + 1) PROVE longer[k] = longer[k - 1] + counts[k]
      <4>1. CASE k = n + 1
        BY <3>1, <4>1
      <4>2. CASE k \in 1..n
        <5>1. longer[k] = sum[k] /\ longer[k - 1] = sum[k - 1]
          BY <3>1, <4>2
        <5> QED
          BY <3>1, <4>2, <5>1
      <4> QED
        BY <3>1, <4>1, <4>2
    <3> HIDE DEF longer
    <3> QED
      BY <3>3, <3>4 DEF AreSums
  <2> QED
    BY <2>4
<1>3. T = Nat
  <2>1. T \in SUBSET Nat
    OBVIOUS
  <2> HIDE DEF T
  <2> QED
    BY <1>1, <1>2, <2>1, SetInduction
<1>4. Len(counts) \in T
  <2>1. Len(counts) \in Nat
    OBVIOUS
  <2> HIDE DEF T
  <2> QED
    BY <1>3, <2>1
<1> QED
  BY <1>4

(***************************************************************************)
(* What Total recurses over are those sums.                                *)
(***************************************************************************)
LEMMA TotalIsLastSum ==
  ASSUME NEW counts \in Seq(Nat)
  PROVE  \E sum : AreSums(sum, counts, Len(counts)) /\ Total(counts) = sum[Len(counts)]
<1> DEFINE Solves(sum) ==
             sum = [n \in 0..Len(counts) |-> IF n = 0 THEN 0 ELSE sum[n - 1] + counts[n]]
           total == CHOOSE sum : Solves(sum)
<1>1. PICK sum : AreSums(sum, counts, Len(counts))
  BY SumsExist
<1>2. Solves(sum)
  BY <1>1 DEF AreSums
<1>3. Solves(total)
  BY <1>2
<1>4. Total(counts) = total[Len(counts)]
  BY DEF Total
<1> HIDE DEF total
<1> DEFINE T == {n \in Nat : n =< Len(counts) => total[n] \in Nat}
<1>5. 0 \in T
  BY <1>3
<1>6. ASSUME NEW n \in T PROVE n + 1 \in T
  <2>1. SUFFICES ASSUME n + 1 =< Len(counts) PROVE total[n + 1] \in Nat
    OBVIOUS
  <2>2. total[n + 1] = total[n] + counts[n + 1]
    BY <1>3, <2>1
  <2>3. total[n] \in Nat /\ counts[n + 1] \in Nat
    BY <2>1
  <2> QED
    BY <2>2, <2>3
<1>7. T = Nat
  <2>1. T \in SUBSET Nat
    OBVIOUS
  <2> HIDE DEF T
  <2> QED
    BY <1>5, <1>6, <2>1, SetInduction
<1>8. AreSums(total, counts, Len(counts))
  <2>1. \A n \in 0..Len(counts) : n \in T
    BY <1>7
  <2>2. total \in [0..Len(counts) -> Nat]
    BY <1>3, <2>1
  <2>3. total[0] = 0 /\ \A n \in 1..Len(counts) : total[n] = total[n - 1] + counts[n]
    BY <1>3
  <2> QED
    BY <2>2, <2>3 DEF AreSums
<1> QED
  BY <1>4, <1>8

LEMMA TotalIsNatural ==
  ASSUME NEW counts \in Seq(Nat)
  PROVE  Total(counts) \in Nat
BY TotalIsLastSum DEF AreSums

LEMMA ProductsGrow ==
  ASSUME NEW rows \in Nat, NEW ids \in Nat, NEW more \in Nat, NEW weight \in Nat, NEW most \in Nat,
         rows =< ids * most, weight =< most
  PROVE  rows + more * weight =< (ids + more) * most
<1>1. more * weight =< more * most
  <2>1. PICK rest \in Nat : most = weight + rest
    <3>1. most - weight \in Nat /\ most = weight + (most - weight)
      OBVIOUS
    <3> QED
      BY <3>1
  <2>2. more * most = more * weight + more * rest
    BY <2>1
  <2>3. more * rest \in Nat /\ more * weight \in Nat
    OBVIOUS
  <2> QED
    BY <2>2, <2>3
<1>2. (ids + more) * most = ids * most + more * most
  OBVIOUS
<1>3. ids * most \in Nat /\ more * most \in Nat /\ more * weight \in Nat
  OBVIOUS
<1> QED
  BY <1>1, <1>2, <1>3

(***************************************************************************)
(* Nobody is deeper than the last level: the weighted total is at most the *)
(* total times the largest weight.                                         *)
(***************************************************************************)
LEMMA WeightedTotalIsBounded ==
  ASSUME NEW counts \in Seq(Nat), NEW offset \in Nat
  PROVE  LET weighted == [d \in DOMAIN counts |-> counts[d] * (d + offset)]
         IN  Total(weighted) \in Nat /\ Total(weighted) =< Total(counts) * (Len(counts) + offset)
<1> DEFINE length == Len(counts)
           weighted == [d \in DOMAIN counts |-> counts[d] * (d + offset)]
           most == length + offset
<1>1. length \in Nat /\ DOMAIN counts = 1..length /\ \A d \in 1..length : counts[d] \in Nat
  OBVIOUS
<1>2. \A d \in 1..length : counts[d] * (d + offset) \in Nat
  BY <1>1
<1>3. weighted \in Seq(Nat) /\ Len(weighted) = length
  BY <1>1, <1>2
<1>4. \A d \in 1..length : weighted[d] = counts[d] * (d + offset)
  BY <1>1
<1> HIDE DEF weighted, length
<1>5. PICK ids : AreSums(ids, counts, length) /\ Total(counts) = ids[length]
  BY TotalIsLastSum DEF length
<1>6. PICK rows : AreSums(rows, weighted, length) /\ Total(weighted) = rows[length]
  BY <1>3, TotalIsLastSum
<1> DEFINE T == {n \in Nat : n =< length => rows[n] =< ids[n] * most}
<1>7. 0 \in T
  BY <1>1, <1>5, <1>6 DEF AreSums
<1>8. ASSUME NEW n \in T PROVE n + 1 \in T
  <2>1. SUFFICES ASSUME n + 1 =< length PROVE rows[n + 1] =< ids[n + 1] * most
    OBVIOUS
  <2>2. /\ rows[n] \in Nat /\ ids[n] \in Nat /\ most \in Nat /\ counts[n + 1] \in Nat
        /\ n + 1 + offset \in Nat /\ n + 1 + offset =< most
    BY <1>1, <1>5, <1>6, <2>1 DEF AreSums
  <2>3. rows[n] =< ids[n] * most
    BY <1>1, <2>1
  <2>4. /\ rows[n + 1] = rows[n] + counts[n + 1] * (n + 1 + offset)
        /\ ids[n + 1] = ids[n] + counts[n + 1]
    <3>1. n + 1 \in 1..length /\ (n + 1) - 1 = n
      BY <1>1, <2>1
    <3> QED
      BY <3>1, <1>4, <1>5, <1>6 DEF AreSums
  <2> HIDE DEF most
  <2>5. rows[n] + counts[n + 1] * (n + 1 + offset) =< (ids[n] + counts[n + 1]) * most
    BY <2>2, <2>3, ProductsGrow
  <2> QED
    BY <2>4, <2>5
<1>9. T = Nat
  <2>1. T \in SUBSET Nat
    OBVIOUS
  <2> HIDE DEF T
  <2> QED
    BY <1>7, <1>8, <2>1, SetInduction
<1>10. rows[length] =< ids[length] * most
  BY <1>1, <1>9
<1>11. Total(weighted) \in Nat
  BY <1>3, TotalIsNatural
<1> QED
  BY <1>5, <1>6, <1>10, <1>11 DEF weighted, length

-----------------------------------------------------------------------------
(* Statements. *)

IsLarge ==
  \/ dropped > MostParameters
  \/ 3 * NodeCount * (Len(width) + above) > MostParameters

(***************************************************************************)
(* Every statement of a write that is not large can be carried.            *)
(***************************************************************************)
LEMMA BoundsAreBounded ==
  ASSUME width \in Widths, above \in AncestorCounts, dropped \in DroppedCounts,
         NEW step \in DOMAIN Bound, ~IsLarge
  PROVE  Bound[step] =< MostParameters
<1> DEFINE ids == NodeCount
           most == Len(width) + above
<1>1. /\ width \in Seq(Nat) /\ Len(width) \in Nat \ {0}
      /\ above \in Nat /\ dropped \in Nat /\ MostParameters \in Nat
  BY WidthsAssumption, CountsAssumption, MostParametersAssumption
<1>2. ids \in Nat
  BY <1>1, TotalIsNatural DEF NodeCount
<1>3. ClosureRowCount \in Nat /\ ClosureRowCount =< ids * most
  BY <1>1, WeightedTotalIsBounded DEF ClosureRowCount, NodeCount
<1>4. most \in Nat /\ most >= 1
  BY <1>1
<1>5. dropped =< MostParameters /\ 3 * ids * most =< MostParameters
  <2>1. 3 * ids * most \in Nat
    BY <1>2, <1>4
  <2> QED
    BY <1>1, <2>1 DEF IsLarge
<1> HIDE DEF ids, most
<1>6. 3 * ids * most = 3 * (ids * most) /\ ids * most \in Nat
  BY <1>2, <1>4
<1>7. ids =< ids * most
  <2>1. PICK rest \in Nat : most = 1 + rest
    <3>1. most - 1 \in Nat /\ most = 1 + (most - 1)
      BY <1>4
    <3> QED
      BY <3>1
  <2>2. ids * most = ids + ids * rest /\ ids * rest \in Nat
    BY <1>2, <2>1
  <2> QED
    BY <1>2, <2>2
<1>8. /\ 3 * ClosureRowCount =< MostParameters
      /\ 3 * ids =< MostParameters
      /\ ids =< MostParameters
  BY <1>1, <1>2, <1>3, <1>5, <1>6, <1>7
<1> QED
  BY <1>5, <1>8 DEF Bound, ids

(***************************************************************************)
(* The inductive invariant: what is posted stays as it was.                *)
(***************************************************************************)
IInv ==
  /\ width \in Widths
  /\ above \in AncestorCounts
  /\ dropped \in DroppedCounts
  /\ OnlyLargeWritesAreRefused

LEMMA BoundsInvariant == Spec => []IInv
<1>1. Init => IInv
  BY DEF Init, IInv, OnlyLargeWritesAreRefused
<1>2. IInv /\ [Next]_vars => IInv'
  <2> SUFFICES ASSUME IInv, [Next]_vars PROVE IInv'
    OBVIOUS
  <2>1. CASE Execute
    <3>1. UNCHANGED <<width, above, dropped>>
      BY <2>1 DEF Execute
    <3>2. IsLarge' <=> IsLarge
      BY <3>1 DEF IsLarge, NodeCount
    <3>3. statement' = "refused" => IsLarge
      <4> SUFFICES ASSUME statement' = "refused", ~IsLarge PROVE FALSE
        OBVIOUS
      <4>1. statement \in DOMAIN Bound /\ Bound[statement] =< MostParameters
        BY <2>1, BoundsAreBounded DEF IInv, Execute
      <4>2. statement' = Following[statement]
        BY <2>1, <4>1 DEF Execute
      <4>3. Following[statement] /= "refused"
        BY <4>1 DEF Bound, Following
      <4> QED
        BY <4>2, <4>3
    <3> QED
      BY <3>1, <3>2, <3>3 DEF IInv, OnlyLargeWritesAreRefused, IsLarge
  <2>2. CASE UNCHANGED vars
    BY <2>2 DEF IInv, OnlyLargeWritesAreRefused, NodeCount, vars
  <2> QED
    BY <2>1, <2>2 DEF Next
<1> QED
  BY <1>1, <1>2, PTL DEF Spec

(***************************************************************************)
(* For payloads of any shape, any number of ancestors and of nodes that    *)
(* are dropped: no statement of a POST is refused for its parameters       *)
(* unless the write is large in the sense of OnlyLargeWritesAreRefused.    *)
(***************************************************************************)
THEOREM SmallWritesAreCarried == Spec => []OnlyLargeWritesAreRefused
<1>1. IInv => OnlyLargeWritesAreRefused
  BY DEF IInv
<1> QED
  BY <1>1, BoundsInvariant, PTL

=============================================================================

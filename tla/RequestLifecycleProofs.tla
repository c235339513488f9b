------------------------ MODULE RequestLifecycleProofs ------------------------
(***************************************************************************)
(* The lock and the connections of RequestLifecycle are never leaked, for  *)
(* any set of requests and any limit of the pool.                          *)
(***************************************************************************)
EXTENDS RequestLifecycle, FiniteSetTheorems, TLAPS

(***************************************************************************)
(* What a request may be waiting for, given what it is; and that one which *)
(* is not being answered has no answer.                                    *)
(***************************************************************************)
KnowsItsKind ==
  \A r \in Requests :
    /\ phase[r] = "connect" => kind[r] \in {"get", "post"}
    /\ phase[r] = "fetch_subtree_rows" => kind[r] = "get"
    /\ phase[r] \in {"lock_writes", "store", "commit"} => kind[r] = "post"
    /\ phase[r] \in {"none", "close"} => answer[r] = 0

IInv == TypeOK /\ NothingLeaks /\ KnowsItsKind /\ AnsweredWithoutPostgres

(***************************************************************************)
(* A session that takes a connection while the pool is not drained keeps   *)
(* the pool within its limit.                                              *)
(***************************************************************************)
LEMMA TakingOne ==
  ASSUME NEW r, IsFiniteSet(connected), ~PoolIsDrained
  PROVE  /\ IsFiniteSet(connected \union {r})
         /\ Cardinality(connected \union {r}) =< PoolLimit
<1>1. Cardinality(connected) \in Nat
  BY FS_CardinalityType
<1>2. Cardinality(connected) + 1 =< PoolLimit
  BY <1>1, PoolLimitAssumption DEF PoolIsDrained
<1>3. /\ IsFiniteSet(connected \union {r})
      /\ \/ Cardinality(connected \union {r}) = Cardinality(connected)
         \/ Cardinality(connected \union {r}) = Cardinality(connected) + 1
  BY FS_AddElement
<1> QED
  BY <1>1, <1>2, <1>3, PoolLimitAssumption

(***************************************************************************)
(* Giving one back keeps it within its limit, too.                         *)
(***************************************************************************)
LEMMA GivingOneBack ==
  ASSUME NEW r, IsFiniteSet(connected), Cardinality(connected) =< PoolLimit
  PROVE  /\ IsFiniteSet(connected \ {r})
         /\ Cardinality(connected \ {r}) =< PoolLimit
<1>1. Cardinality(connected) \in Nat
  BY FS_CardinalityType
<1>2. /\ IsFiniteSet(connected \ {r})
      /\ Cardinality(connected \ {r}) \in {Cardinality(connected), Cardinality(connected) - 1}
  BY FS_RemoveElement
<1> QED
  BY <1>1, <1>2, PoolLimitAssumption

-----------------------------------------------------------------------------

(***************************************************************************)
(* A step changes what it says of one request, and nothing of the others.  *)
(***************************************************************************)
LEMMA EveryStepKeepsIt ==
  ASSUME IInv, [Next]_vars
  PROVE  IInv'
<1> USE DEF IInv, StatusOf, Phases, Statements
<1> USE KindsAssumption, NoOneAssumption DEF AwaitTheDatabase
<1>1. ASSUME NEW r \in Requests, NEW what \in Kinds, Receive(r, what)
      PROVE  IInv'
  <2>1. TypeOK'
    BY <1>1 DEF TypeOK, Receive, At, GoTo, Answer, Raise, pool
  <2>2. NothingLeaks' /\ KnowsItsKind'
    BY <1>1 DEF TypeOK, NothingLeaks, KnowsItsKind, Receive, At, GoTo, Answer, Raise, pool
  <2>3. AnsweredWithoutPostgres'
    BY <1>1 DEF TypeOK, NothingLeaks, KnowsItsKind, AnsweredWithoutPostgres,
          Receive, At, GoTo, Answer, Raise, pool
  <2> QED
    BY <2>1, <2>2, <2>3
<1>2. ASSUME NEW r \in Requests, Connect(r)
      PROVE  IInv'
  <2>1. IsFiniteSet(connected') /\ Cardinality(connected') =< PoolLimit
    BY <1>2, TakingOne DEF TypeOK, Connect, At, GoTo, Answer, Raise, FirstStatement, pool
  <2>2. TypeOK'
    BY <1>2, <2>1 DEF TypeOK, Connect, At, GoTo, Answer, Raise, FirstStatement, pool
  <2>3. NothingLeaks' /\ KnowsItsKind'
    BY <1>2 DEF TypeOK, NothingLeaks, KnowsItsKind, Connect, At, GoTo, Answer, Raise,
       FirstStatement, pool
  <2>4. AnsweredWithoutPostgres'
    BY <1>2 DEF TypeOK, NothingLeaks, KnowsItsKind, AnsweredWithoutPostgres,
          Connect, At, GoTo, Answer, Raise, FirstStatement, pool
  <2> QED
    BY <2>2, <2>3, <2>4
<1>3. ASSUME NEW r \in Requests, TimeOut(r)
      PROVE  IInv'
  <2>1. TypeOK'
    BY <1>3 DEF TypeOK, TimeOut, At, GoTo, Answer, Raise, pool
  <2>2. NothingLeaks' /\ KnowsItsKind'
    BY <1>3 DEF TypeOK, NothingLeaks, KnowsItsKind, TimeOut, At, GoTo, Answer, Raise, pool
  <2>3. AnsweredWithoutPostgres'
    BY <1>3 DEF TypeOK, NothingLeaks, KnowsItsKind, AnsweredWithoutPostgres,
          TimeOut, At, GoTo, Answer, Raise, pool
  <2> QED
    BY <2>1, <2>2, <2>3
<1>4. ASSUME NEW r \in Requests, FetchSubtreeRows(r)
      PROVE  IInv'
  <2>1. TypeOK'
    BY <1>4 DEF TypeOK, FetchSubtreeRows, Executes, At, GoTo, Answer, Raise, pool
  <2>2. NothingLeaks' /\ KnowsItsKind'
    BY <1>4 DEF TypeOK, NothingLeaks, KnowsItsKind, FetchSubtreeRows, Executes, At, GoTo,
       Answer, Raise, pool
  <2>3. AnsweredWithoutPostgres'
    BY <1>4 DEF TypeOK, NothingLeaks, KnowsItsKind, AnsweredWithoutPostgres,
          FetchSubtreeRows, Executes, At, GoTo, Answer, Raise, pool
  <2> QED
    BY <2>1, <2>2, <2>3
<1>5. ASSUME NEW r \in Requests, LockWrites(r)
      PROVE  IInv'
  <2>1. TypeOK'
    BY <1>5 DEF TypeOK, LockWrites, Executes, At, GoTo, pool
  <2>2. NothingLeaks' /\ KnowsItsKind'
    BY <1>5 DEF TypeOK, NothingLeaks, KnowsItsKind, LockWrites, Executes, At, GoTo, pool
  <2>3. AnsweredWithoutPostgres'
    BY <1>5 DEF TypeOK, NothingLeaks, KnowsItsKind, AnsweredWithoutPostgres,
          LockWrites, Executes, At, GoTo, pool
  <2> QED
    BY <2>1, <2>2, <2>3
<1>6. ASSUME NEW r \in Requests, Store(r)
      PROVE  IInv'
  <2>1. TypeOK'
    BY <1>6 DEF TypeOK, Store, Executes, At, GoTo, Answer, Raise, pool
  <2>2. NothingLeaks' /\ KnowsItsKind'
    BY <1>6 DEF TypeOK, NothingLeaks, KnowsItsKind, Store, Executes, At, GoTo, Answer,
       Raise, pool
  <2>3. AnsweredWithoutPostgres'
    BY <1>6 DEF TypeOK, NothingLeaks, KnowsItsKind, AnsweredWithoutPostgres,
          Store, Executes, At, GoTo, Answer, Raise, pool
  <2> QED
    BY <2>1, <2>2, <2>3
<1>7. ASSUME NEW r \in Requests, Commit(r)
      PROVE  IInv'
  <2>1. IsFiniteSet(connected') /\ Cardinality(connected') =< PoolLimit
    BY <1>7, GivingOneBack DEF TypeOK, Commit, Executes, At, GoTo, Answer, LetGo,
       EndTransaction
  <2>2. TypeOK'
    BY <1>7, <2>1 DEF TypeOK, Commit, Executes, At, GoTo, Answer, LetGo, EndTransaction
  <2>3. NothingLeaks' /\ KnowsItsKind'
    BY <1>7 DEF TypeOK, NothingLeaks, KnowsItsKind, Commit, Executes, At, GoTo, Answer,
       LetGo, EndTransaction
  <2>4. AnsweredWithoutPostgres'
    BY <1>7 DEF TypeOK, NothingLeaks, KnowsItsKind, AnsweredWithoutPostgres,
          Commit, Executes, At, GoTo, Answer, LetGo, EndTransaction
  <2> QED
    BY <2>2, <2>3, <2>4
<1>8. ASSUME NEW r \in Requests, MeetClosedConnection(r)
      PROVE  IInv'
  <2>1. IsFiniteSet(connected') /\ Cardinality(connected') =< PoolLimit
    BY <1>8, GivingOneBack DEF TypeOK, MeetClosedConnection, Disconnect, LetGo, GoTo,
       Answer, Raise
  <2>2. TypeOK'
    <3>1. phase' \in [Requests -> Phases]
      BY <1>8 DEF TypeOK, MeetClosedConnection, GoTo, Raise
    <3>2. answer' \in [Requests -> {0, 200, 404, 409, 422, 500}]
      BY <1>8 DEF TypeOK, MeetClosedConnection, Answer, Raise
    <3>3. connected' \subseteq Requests /\ broken' \subseteq connected'
      BY <1>8 DEF TypeOK, MeetClosedConnection, Disconnect, LetGo
    <3>4. stale' \in BOOLEAN
      BY <1>8, Zenon DEF MeetClosedConnection, Disconnect
    <3> QED
      BY <1>8, <2>1, <3>1, <3>2, <3>3, <3>4 DEF TypeOK, MeetClosedConnection
  <2>3. NothingLeaks' /\ KnowsItsKind'
    BY <1>8 DEF TypeOK, NothingLeaks, KnowsItsKind, MeetClosedConnection, Disconnect, LetGo,
       GoTo, Answer, Raise
  <2>4. AnsweredWithoutPostgres'
    BY <1>8 DEF TypeOK, NothingLeaks, KnowsItsKind, AnsweredWithoutPostgres,
          MeetClosedConnection, Disconnect, LetGo, GoTo, Answer, Raise
  <2> QED
    BY <2>2, <2>3, <2>4
<1>9. ASSUME NEW r \in Requests, FailStatement(r)
      PROVE  IInv'
  <2>1. TypeOK'
    BY <1>9 DEF TypeOK, FailStatement, GoTo, Answer, Raise, pool
  <2>2. NothingLeaks' /\ KnowsItsKind'
    BY <1>9 DEF TypeOK, NothingLeaks, KnowsItsKind, FailStatement, GoTo, Answer, Raise, pool
  <2>3. AnsweredWithoutPostgres'
    BY <1>9 DEF TypeOK, NothingLeaks, KnowsItsKind, AnsweredWithoutPostgres,
          FailStatement, GoTo, Answer, Raise, pool
  <2> QED
    BY <2>1, <2>2, <2>3
<1>10. ASSUME NEW r \in Requests, Unwind(r)
      PROVE  IInv'
  <2>1. IsFiniteSet(connected') /\ Cardinality(connected') =< PoolLimit
    BY <1>10, GivingOneBack DEF TypeOK, Unwind, Disconnect, LetGo, EndTransaction, At, GoTo,
       Answer
  <2>2. TypeOK'
    <3>1. phase' \in [Requests -> Phases]
      BY <1>10 DEF TypeOK, Unwind, GoTo
    <3>2. answer' \in [Requests -> {0, 200, 404, 409, 422, 500}]
      BY <1>10 DEF TypeOK, Unwind, Answer
    <3>3. connected' \subseteq Requests /\ broken' \subseteq connected'
      BY <1>10 DEF TypeOK, Unwind, Disconnect, LetGo
    <3>4. stale' \in BOOLEAN
      BY <1>10, Zenon DEF TypeOK, Unwind, Disconnect
    <3>5. lock' \in Requests \union {NoOne}
      BY <1>10 DEF TypeOK, Unwind, EndTransaction
    <3> QED
      BY <1>10, <2>1, <3>1, <3>2, <3>3, <3>4, <3>5 DEF TypeOK, Unwind
  <2>3. NothingLeaks' /\ KnowsItsKind'
    BY <1>10 DEF TypeOK, NothingLeaks, KnowsItsKind, Unwind, Disconnect, LetGo,
       EndTransaction, At, GoTo, Answer
  <2>4. AnsweredWithoutPostgres'
    BY <1>10 DEF TypeOK, NothingLeaks, KnowsItsKind, AnsweredWithoutPostgres,
          Unwind, Disconnect, LetGo, EndTransaction, At, GoTo, Answer
  <2> QED
    BY <2>2, <2>3, <2>4
<1>11. ASSUME NEW r \in Requests, Respond(r)
      PROVE  IInv'
  <2>1. TypeOK'
    BY <1>11 DEF TypeOK, Respond, At, GoTo, Answer, pool
  <2>2. NothingLeaks' /\ KnowsItsKind'
    BY <1>11 DEF TypeOK, NothingLeaks, KnowsItsKind, Respond, At, GoTo, Answer, pool
  <2>3. AnsweredWithoutPostgres'
    BY <1>11 DEF TypeOK, NothingLeaks, KnowsItsKind, AnsweredWithoutPostgres,
          Respond, At, GoTo, Answer, pool
  <2> QED
    BY <2>1, <2>2, <2>3
<1>12. ASSUME NEW r \in Requests, Close(r)
      PROVE  IInv'
  <2>1. IsFiniteSet(connected') /\ Cardinality(connected') =< PoolLimit
    BY <1>12, GivingOneBack DEF TypeOK, Close, Disconnect, LetGo, At, GoTo
  <2>2. TypeOK'
    <3>1. phase' \in [Requests -> Phases] /\ kind' \in [Requests -> Kinds \union {"health"}]
      BY <1>12 DEF TypeOK, Close, GoTo
    <3>2. connected' \subseteq Requests /\ broken' \subseteq connected'
      BY <1>12 DEF TypeOK, Close, Disconnect, LetGo
    <3>3. stale' \in BOOLEAN
      BY <1>12, Zenon DEF TypeOK, Close, Disconnect
    <3> QED
      BY <1>12, <2>1, <3>1, <3>2, <3>3 DEF TypeOK, Close
  <2>3. NothingLeaks' /\ KnowsItsKind'
    BY <1>12 DEF TypeOK, NothingLeaks, KnowsItsKind, Close, Disconnect, LetGo, At, GoTo
  <2>4. AnsweredWithoutPostgres'
    BY <1>12 DEF TypeOK, NothingLeaks, KnowsItsKind, AnsweredWithoutPostgres,
          Close, Disconnect, LetGo, At, GoTo
  <2> QED
    BY <2>2, <2>3, <2>4
<1>13. ASSUME GoDown
      PROVE  IInv'
  <2>1. TypeOK'
    <3>1. stale' \in BOOLEAN /\ up' \in BOOLEAN
      BY <1>13, Zenon DEF GoDown
    <3>2. lock' \in Requests \union {NoOne} /\ broken' \subseteq connected'
      BY <1>13 DEF GoDown
    <3> QED
      BY <1>13, <3>1, <3>2 DEF TypeOK, GoDown
  <2>2. NothingLeaks' /\ KnowsItsKind'
    BY <1>13 DEF TypeOK, NothingLeaks, KnowsItsKind, GoDown
  <2>3. AnsweredWithoutPostgres'
    BY <1>13 DEF TypeOK, NothingLeaks, KnowsItsKind, AnsweredWithoutPostgres,
          GoDown
  <2> QED
    BY <2>1, <2>2, <2>3
<1>14. ASSUME ComeUp
      PROVE  IInv'
  <2>1. TypeOK'
    BY <1>14 DEF TypeOK, ComeUp, pool
  <2>2. NothingLeaks' /\ KnowsItsKind'
    BY <1>14 DEF TypeOK, NothingLeaks, KnowsItsKind, ComeUp, pool
  <2>3. AnsweredWithoutPostgres'
    BY <1>14 DEF TypeOK, NothingLeaks, KnowsItsKind, AnsweredWithoutPostgres,
          ComeUp, pool
  <2> QED
    BY <2>1, <2>2, <2>3
<1>15. ASSUME UNCHANGED vars
      PROVE  IInv'
  <2>1. TypeOK'
    BY <1>15 DEF TypeOK, vars, pool
  <2>2. NothingLeaks' /\ KnowsItsKind'
    BY <1>15 DEF TypeOK, NothingLeaks, KnowsItsKind, vars, pool
  <2>3. AnsweredWithoutPostgres'
    BY <1>15 DEF TypeOK, NothingLeaks, KnowsItsKind, AnsweredWithoutPostgres,
          vars, pool
  <2> QED
    BY <2>1, <2>2, <2>3
<1> QED
  BY <1>1, <1>2, <1>3, <1>4, <1>5, <1>6, <1>7, <1>8, <1>9, <1>10, <1>11, <1>12, <1>13,
     <1>14, <1>15 DEF Next, Proceed

LEMMA LifecycleInvariant == Spec => []IInv
<1>1. Init => IInv
  <2>1. IsFiniteSet({}) /\ Cardinality({}) =< PoolLimit
    BY FS_EmptySet, PoolLimitAssumption
  <2>2. Init => TypeOK
    <3> SUFFICES ASSUME Init
                 PROVE  TypeOK
      OBVIOUS
    <3>1. phase \in [Requests -> Phases]
      BY DEF Init, Phases
    <3>2. answer \in [Requests -> {0, 200, 404, 409, 422, 500}]
      BY DEF Init
    <3>3. IsFiniteSet(connected) /\ Cardinality(connected) =< PoolLimit
      BY <2>1 DEF Init
    <3>4. stale \in BOOLEAN /\ up \in BOOLEAN
      BY Zenon DEF Init
    <3> QED
      BY <3>1, <3>2, <3>3, <3>4 DEF Init, TypeOK
  <2>3. Init => NothingLeaks /\ KnowsItsKind /\ AnsweredWithoutPostgres
    BY NoOneAssumption DEF Init, NothingLeaks, KnowsItsKind, AnsweredWithoutPostgres,
       Statements
  <2> QED
    BY <2>2, <2>3 DEF IInv
<1>2. IInv /\ [Next]_vars => IInv'
  BY EveryStepKeepsIt
<1> QED
  BY <1>1, <1>2, PTL DEF Spec

-----------------------------------------------------------------------------
(* What follows from it. *)

(***************************************************************************)
(* The variables keep their types; in particular the pool never has more   *)
(* connections in use than its limit.                                      *)
(***************************************************************************)
THEOREM TypesAreKept == Spec => []TypeOK
<1>1. IInv => TypeOK
  BY DEF IInv
<1> QED
  BY <1>1, LifecycleInvariant, PTL

(***************************************************************************)
(* Whatever is requested, by however many, and however often Postgres goes *)
(* down: no lock and no connection outlives the request that took it.      *)
(***************************************************************************)
THEOREM NothingIsLeaked == Spec => []NothingLeaks
<1>1. IInv => NothingLeaks
  BY DEF IInv
<1> QED
  BY <1>1, LifecycleInvariant, PTL

(***************************************************************************)
(* What needs no database is answered without one: the health check and    *)
(* every refusal of a payload hold no connection and never end in a 500.   *)
(***************************************************************************)
THEOREM NoDatabaseIsNeeded == Spec => []AnsweredWithoutPostgres
<1>1. IInv => AnsweredWithoutPostgres
  BY DEF IInv
<1> QED
  BY <1>1, LifecycleInvariant, PTL

=============================================================================

---------------------------- MODULE WritePathProofs ----------------------------
(***************************************************************************)
(* Proofs about WritePath, for any clients, any payloads flatten_payload   *)
(* can return and any order of statements, failures and crashes: its       *)
(* invariant, and then that it implements HierarchyStore.  Whatever the    *)
(* statements of concurrent requests do, clients see one forest and        *)
(* requests that take effect on it in one step.                            *)
(***************************************************************************)
EXTENDS WritePath, HierarchyProofs

-----------------------------------------------------------------------------
(* The inductive invariant, one client at a time. *)

HoldsLock(c) == pc[c] \in LockedStatements => lock = c

KnowsRequest(c) ==
  /\ pc[c] = "idle" => request[c] = NoRequest
  /\ pc[c] = "flatten_payload" => \E p \in Payloads : request[c] = PostRequest(p)
  /\ pc[c] = "fetch_subtree_rows" => \E id \in NodeIds : request[c] = GetRequest(id)
  /\ pc[c] \in LockedStatements \union {"lock_writes"} => IsFlattened(Payload(c))

(***************************************************************************)
(* The locals, and the cycle check, are as the committed tables have it.   *)
(***************************************************************************)
ReadsHold(c) ==
  /\ pc[c] \in LockedStatements \ {"fetch_ancestor_depths"} =>
       /\ AncestorsStillTrue(c)
       /\ PassesCheck(closure, Payload(c))
  /\ pc[c] \in LockedStatements \ {"fetch_ancestor_depths", "fetch_parent_id"} =>
       RootParentStillTrue(c)
  /\ pc[c] \in LockedStatements \ {"fetch_ancestor_depths", "fetch_parent_id",
                                   "fetch_descendant_ids"} =>
       DoomedStillTrue(c)

(***************************************************************************)
(* How much of the write is done, from the statement that comes next.      *)
(***************************************************************************)
Written(put, gone, cut, add) == [put |-> put, gone |-> gone, cut |-> cut, add |-> add]

HasWritten(c) ==
  LET p == Payload(c)
      upserted == RowsUpserted(nodes, p)
      dropped == DoomedIn(closure, p)
  IN  /\ pc[c] = "delete_nodes" => writes[c] = Written(upserted, {}, {}, {})
      /\ pc[c] = "delete_closure" => writes[c] = Written(upserted, dropped, {}, {})
      /\ pc[c] = "insert_closure" => writes[c] = Written(upserted, dropped, PayloadIds(p), {})
      /\ pc[c] \in {"read_back", "commit"} =>
           writes[c] = Written(upserted, dropped, PayloadIds(p), RowsAdded(closure, p))
      /\ pc[c] \notin {"delete_nodes", "delete_closure", "insert_closure", "read_back",
                       "commit", "rollback"} =>
           writes[c] = NothingWritten

Answers200Posted(c) ==
  (request[c].method = "POST" /\ answer[c].status = 200) => answer[c].tree = PostedTree(Payload(c))

AnswersRight(c) ==
  /\ pc[c] \notin {"commit", "rollback", "answer"} => answer[c] = NoAnswer
  /\ answer[c] \notin {IntegrityRefused, Broken}
  /\ Answers200Posted(c)

ClientInv(c) ==
  HoldsLock(c) /\ KnowsRequest(c) /\ ReadsHold(c) /\ HasWritten(c) /\ AnswersRight(c)

IInv ==
  /\ TypeOK
  /\ RepresentationsAgree
  /\ \A c \in Clients : ClientInv(c)

-----------------------------------------------------------------------------
(* What a transaction sees. *)

(***************************************************************************)
(* Before its first write a transaction sees the committed tables.         *)
(***************************************************************************)
LEMMA NothingWrittenYet ==
  ASSUME TypeOK, NEW c \in Clients, writes[c] = NothingWritten
  PROVE  VisibleNodes(c) = nodes /\ VisibleClosure(c) = closure
<1>1. nodes \in NodeTables
  BY DEF TypeOK
<1>2. /\ writes[c].put = [id \in {} |-> NoParent]
      /\ writes[c].gone = {} /\ writes[c].cut = {} /\ writes[c].add = {}
  BY DEF NothingWritten
<1>3. VisibleClosure(c) = closure
  BY <1>1, <1>2, NoneDeleted DEF VisibleClosure, ClosureAfter
<1>4. VisibleNodes(c) = WithUpserted(nodes, [id \in {} |-> NoParent])
  BY <1>1, <1>2, NoneDeleted DEF VisibleNodes, NodesAfter
<1>5. WithUpserted(nodes, [id \in {} |-> NoParent]) = nodes
  <2>1. nodes = [id \in DOMAIN nodes |-> nodes[id]]
    BY <1>1, NodeTableIs
  <2> QED
    BY <2>1 DEF WithUpserted
<1> QED
  BY <1>3, <1>4, <1>5

(***************************************************************************)
(* After its last it sees what NodesStored and ClosureStored say.          *)
(***************************************************************************)
LEMMA AllWritten ==
  ASSUME NEW c \in Clients, NEW p, NEW add,
         writes[c] = Written(RowsUpserted(nodes, p), DoomedIn(closure, p), PayloadIds(p), add)
  PROVE  /\ VisibleNodes(c) = NodesStored(nodes, closure, p)
         /\ VisibleClosure(c) = RowsKept(closure, p) \union add
<1>1. /\ writes[c].put = RowsUpserted(nodes, p)
      /\ writes[c].gone = DoomedIn(closure, p)
      /\ writes[c].cut = PayloadIds(p)
      /\ writes[c].add = add
  BY DEF Written
<1> QED
  BY <1>1 DEF VisibleNodes, VisibleClosure, NodesAfter, ClosureAfter, NodesStored, RowsKept

-----------------------------------------------------------------------------
(* The other clients. *)

Untouched(d) ==
  /\ pc'[d] = pc[d] /\ request'[d] = request[d] /\ answer'[d] = answer[d]
  /\ captured_ancestors'[d] = captured_ancestors[d]
  /\ root_parent_id'[d] = root_parent_id[d]
  /\ doomed'[d] = doomed[d] /\ writes'[d] = writes[d]
  /\ pc[d] \in LockedStatements => nodes' = nodes /\ closure' = closure /\ lock' = lock

LEMMA Bystander ==
  ASSUME NEW d \in Clients, ClientInv(d), Untouched(d)
  PROVE  ClientInv(d)'
<1>1. HoldsLock(d)'
  BY DEF ClientInv, Untouched, HoldsLock
<1>2. KnowsRequest(d)'
  BY DEF ClientInv, Untouched, KnowsRequest, Payload
<1>3. ReadsHold(d)'
  BY DEF ClientInv, Untouched, ReadsHold, Payload, AncestorsStillTrue, RootParentStillTrue,
         DoomedStillTrue
<1>4. HasWritten(d)'
  BY DEF ClientInv, Untouched, HasWritten, Payload, LockedStatements
<1>5. AnswersRight(d)'
  BY DEF ClientInv, Untouched, AnswersRight, Answers200Posted, Payload
<1> QED
  BY <1>1, <1>2, <1>3, <1>4, <1>5 DEF ClientInv

(***************************************************************************)
(* A step of one client leaves every other as it was, and the tables too   *)
(* while that other holds the lock.                                        *)
(***************************************************************************)
LEMMA OthersUntouched ==
  ASSUME IInv, NEW c \in Clients, NEW d \in Clients \ {c},
         Arrive(c) \/ Handle(c) \/ GoWrong(c)
  PROVE  Untouched(d)
<1>1. /\ pc[d] \in LockedStatements => lock = d
      /\ pc[c] \in LockedStatements => lock = c
  BY DEF IInv, ClientInv, HoldsLock
<1>2. /\ pc \in [Clients -> Statements \union {"idle", "flatten_payload", "rollback", "answer"}]
      /\ request \in [Clients -> Requests \union {NoRequest}]
      /\ answer \in [Clients -> Answers \union {NoAnswer}]
      /\ captured_ancestors \in [Clients -> SUBSET AncestorRows]
      /\ root_parent_id \in [Clients -> ParentIds]
      /\ doomed \in [Clients -> SUBSET NodeIds]
      /\ writes \in [Clients -> WriteSets]
  BY DEF IInv, TypeOK
<1>3. lock = d => lock /= NoOne /\ lock /= c
  BY NoOneAssumption
<1>4. "commit" \in LockedStatements
  BY DEF LockedStatements
<1> USE DEF Untouched, tables, locals, At, GoTo, Write, Raise, Return, Release, Forget
<1>5. CASE Arrive(c)
  BY <1>2, <1>5 DEF Arrive, Post, Get
<1>6. CASE GetSubtree(c) \/ FlattenPayload(c)
  BY <1>2, <1>6 DEF GetSubtree, FlattenPayload
<1>7. CASE LockWrites(c)
  BY <1>1, <1>2, <1>3, <1>7 DEF LockWrites
<1>8. CASE CaptureAncestors(c) \/ ReadRootParent(c) \/ ReadDoomed(c)
  BY <1>2, <1>8 DEF CaptureAncestors, ReadRootParent, ReadDoomed
<1>9. CASE UpsertNodes(c)
  BY <1>2, <1>9 DEF UpsertNodes, WriteOrRefuse
<1>10. CASE DeleteNodes(c)
  BY <1>2, <1>10 DEF DeleteNodes, WriteOrRefuse
<1>11. CASE DeleteClosure(c)
  BY <1>2, <1>11 DEF DeleteClosure
<1>12. CASE InsertClosure(c)
  BY <1>2, <1>12 DEF InsertClosure, WriteOrRefuse
<1>13. CASE ReadBack(c)
  BY <1>2, <1>13 DEF ReadBack
<1>14. CASE Commit(c)
  BY <1>1, <1>2, <1>3, <1>4, <1>14 DEF Commit, Publish
<1>15. CASE CommitInDoubt(c)
  BY <1>1, <1>2, <1>3, <1>4, <1>15 DEF CommitInDoubt, Publish
<1>16. CASE Rollback(c) \/ LoseConnection(c)
  BY <1>1, <1>2, <1>3, <1>16 DEF Rollback, LoseConnection
<1>17. CASE Respond(c) \/ FailStatement(c)
  BY <1>2, <1>17 DEF Respond, FailStatement
<1> QED
  BY <1>5, <1>6, <1>7, <1>8, <1>9, <1>10, <1>11, <1>12, <1>13, <1>14, <1>15, <1>16, <1>17
     DEF Handle, GoWrong

-----------------------------------------------------------------------------
(* One client's step keeps the invariant of that client. *)

Kept(c) == TypeOK' /\ RepresentationsAgree' /\ ClientInv(c)'

(***************************************************************************)
(* A record of what was written is one of WriteSets.                       *)
(***************************************************************************)
LEMMA WrittenTypes ==
  /\ NothingWritten \in WriteSets
  /\ \A put \in NodeTables, gone, cut \in SUBSET NodeIds, add \in SUBSET ClosureRows :
       Written(put, gone, cut, add) \in WriteSets
<1>1. [id \in {} |-> NoParent] \in NodeTables
  <2> DEFINE none == [id \in {} |-> NoParent]
  <2>1. none = [id \in DOMAIN none |-> none[id]] /\ DOMAIN none = {}
    OBVIOUS
  <2> HIDE DEF none
  <2> QED
    BY <2>1, NodeTableIs
<1>2. NothingWritten \in WriteSets
  BY <1>1 DEF NothingWritten, WriteSets
<1> QED
  BY <1>2 DEF Written, WriteSets

(***************************************************************************)
(* The answers, told apart.                                                *)
(***************************************************************************)
Refusals == {NotFound, RepeatedId, Cycle, Unavailable}

LEMMA AnswersDiffer ==
  /\ \A reply \in Refusals \union {NoAnswer} :
       reply.status /= 200 /\ reply \notin {IntegrityRefused, Broken}
  /\ \A tree : /\ Success(tree).status = 200 /\ Success(tree).tree = tree
               /\ Success(tree) \notin {IntegrityRefused, Broken}
  /\ Refusals \subseteq Answers
  /\ \A tree \in Trees : Success(tree) \in Answers
<1>2. /\ NotFound.status = 404 /\ RepeatedId.status = 409 /\ Cycle.status = 409
      /\ Unavailable.status = 500 /\ NoAnswer.status = 0
      /\ IntegrityRefused.status = 409 /\ Broken.status = 500
  BY DEF NotFound, RepeatedId, Cycle, Unavailable, NoAnswer, IntegrityRefused, Broken, Failure
<1>3. /\ RepeatedId.detail = "an id repeated in the payload"
      /\ Cycle.detail = "a payload node is already above the root"
      /\ Unavailable.detail = "unavailable"
      /\ IntegrityRefused.detail = "a constraint refused a statement"
      /\ Broken.detail = "broken"
  BY DEF RepeatedId, Cycle, Unavailable, IntegrityRefused, Broken, Failure
<1>4. \A tree : Success(tree).status = 200 /\ Success(tree).tree = tree
  BY DEF Success
<1>5. RepeatedId /= IntegrityRefused /\ Cycle /= IntegrityRefused /\ Unavailable /= Broken
  BY <1>3
<1>6. Refusals \subseteq Answers /\ \A tree \in Trees : Success(tree) \in Answers
  BY Zenon DEF Refusals, Answers
<1> HIDE DEF Refusals
<1>7. \A reply \in Refusals \union {NoAnswer} :
        reply.status /= 200 /\ reply \notin {IntegrityRefused, Broken}
  BY <1>2, <1>5 DEF Refusals
<1>8. \A tree : Success(tree) \notin {IntegrityRefused, Broken}
  BY <1>2, <1>4
<1> QED
  BY <1>4, <1>6, <1>7, <1>8

LEMMA ArriveKeeps ==
  ASSUME IInv, NEW c \in Clients, Arrive(c)
  PROVE  Kept(c)
<1> USE DEF At, GoTo, tables, locals
<1>1. TypeOK /\ RepresentationsAgree /\ ClientInv(c)
  BY DEF IInv
<1>2. PICK message \in Requests :
        /\ \/ message.method = "POST" /\ pc' = [pc EXCEPT ![c] = "flatten_payload"]
              /\ \E p \in Payloads : message = PostRequest(p)
           \/ message.method = "GET" /\ pc' = [pc EXCEPT ![c] = "fetch_subtree_rows"]
              /\ \E id \in NodeIds : message = GetRequest(id)
        /\ pc[c] = "idle"
        /\ request' = [request EXCEPT ![c] = message]
        /\ UNCHANGED <<nodes, closure, lock, answer, captured_ancestors, root_parent_id,
                       doomed, writes>>
  BY DEF Arrive, Post, Get, Requests, PostRequest, GetRequest
<1>3. TypeOK'
  BY <1>1, <1>2 DEF TypeOK, Statements
<1>4. RepresentationsAgree'
  BY <1>1, <1>2 DEF RepresentationsAgree
<1>5. /\ pc'[c] \in {"flatten_payload", "fetch_subtree_rows"}
      /\ request'[c] = message
      /\ pc'[c] = "flatten_payload" => \E p \in Payloads : message = PostRequest(p)
      /\ pc'[c] = "fetch_subtree_rows" => \E id \in NodeIds : message = GetRequest(id)
  BY <1>1, <1>2 DEF TypeOK
<1>6. HoldsLock(c)' /\ ReadsHold(c)'
  BY <1>5 DEF HoldsLock, ReadsHold, LockedStatements
<1>7. KnowsRequest(c)'
  BY <1>5 DEF KnowsRequest, LockedStatements
<1>8. HasWritten(c)'
  BY <1>1, <1>2, <1>5 DEF ClientInv, HasWritten
<1>9. AnswersRight(c)'
  <2>1. answer'[c] = NoAnswer
    BY <1>1, <1>2 DEF ClientInv, AnswersRight
  <2> QED
    BY <2>1, AnswersDiffer DEF AnswersRight, Answers200Posted
<1> QED
  BY <1>3, <1>4, <1>6, <1>7, <1>8, <1>9 DEF Kept, ClientInv

LEMMA GetSubtreeKeeps ==
  ASSUME IInv, NEW c \in Clients, GetSubtree(c)
  PROVE  Kept(c)
<1> USE DEF At, GoTo, tables, locals
<1>1. TypeOK /\ RepresentationsAgree /\ ClientInv(c) /\ pc[c] = "fetch_subtree_rows"
  BY DEF IInv, GetSubtree
<1>2. PICK id \in NodeIds : request[c] = GetRequest(id)
  BY <1>1 DEF ClientInv, KnowsRequest
<1>3. request[c].id = id /\ request[c].method = "GET"
  BY <1>2 DEF GetRequest
<1>4. nodes \in NodeTables /\ closure \in SUBSET ClosureRows /\ Agrees(nodes, closure)
  BY <1>1 DEF TypeOK, RepresentationsAgree
<1> DEFINE rows == FetchSubtreeRows(nodes, closure, id)
<1>5. Assembles(rows) /\ (rows /= {} => AssembleTree(rows) \in Trees)
  BY <1>4, AssembledTreeIs, SubtreeRowsAssemble
<1>6. \/ Raise(c, NotFound)
      \/ rows /= {} /\ Return(c, Success(AssembleTree(rows)))
  BY <1>3, <1>5 DEF GetSubtree
<1> HIDE DEF rows
<1>7. PICK reply \in Answers :
        /\ reply \notin {IntegrityRefused, Broken}
        /\ answer' = [answer EXCEPT ![c] = reply]
        /\ pc' = [pc EXCEPT ![c] = "rollback"] \/ pc' = [pc EXCEPT ![c] = "answer"]
  BY <1>5, <1>6, AnswersDiffer DEF Raise, Return, Refusals
<1>8. UNCHANGED <<nodes, closure, lock, request, captured_ancestors, root_parent_id, doomed, writes>>
  BY DEF GetSubtree
<1>9. TypeOK'
  BY <1>1, <1>7, <1>8 DEF TypeOK
<1>10. pc'[c] \in {"rollback", "answer"} /\ answer'[c] = reply /\ request'[c] = request[c]
       /\ writes'[c] = writes[c]
  BY <1>1, <1>7, <1>8 DEF TypeOK
<1>11. HoldsLock(c)' /\ ReadsHold(c)' /\ KnowsRequest(c)'
  BY <1>10 DEF HoldsLock, ReadsHold, KnowsRequest, LockedStatements
<1>12. HasWritten(c)'
  BY <1>1, <1>10 DEF ClientInv, HasWritten
<1>13. AnswersRight(c)'
  BY <1>3, <1>7, <1>10 DEF AnswersRight, Answers200Posted
<1> QED
  BY <1>1, <1>8, <1>9, <1>11, <1>12, <1>13 DEF Kept, ClientInv, RepresentationsAgree

(***************************************************************************)
(* Leaving store_hierarchy by an exception: whatever was written waits for *)
(* the rollback.                                                           *)
(***************************************************************************)
LEMMA RaiseKeeps ==
  ASSUME IInv, NEW c \in Clients, NEW reply \in Refusals, Raise(c, reply),
         nodes' = nodes, closure' = closure, lock' \in {lock, NoOne}, request' = request,
         captured_ancestors' \in [Clients -> SUBSET AncestorRows],
         root_parent_id' \in [Clients -> ParentIds],
         doomed' \in [Clients -> SUBSET NodeIds],
         writes' \in [Clients -> WriteSets]
  PROVE  Kept(c)
<1>1. TypeOK /\ RepresentationsAgree
  BY DEF IInv
<1>2. pc' = [pc EXCEPT ![c] = "rollback"] /\ answer' = [answer EXCEPT ![c] = reply]
  BY DEF Raise, GoTo
<1>3. TypeOK'
  BY <1>1, <1>2, AnswersDiffer DEF TypeOK
<1>4. pc'[c] = "rollback" /\ answer'[c] = reply
  BY <1>1, <1>2 DEF TypeOK
<1>5. HoldsLock(c)' /\ KnowsRequest(c)' /\ ReadsHold(c)' /\ HasWritten(c)'
  BY <1>4 DEF HoldsLock, KnowsRequest, ReadsHold, HasWritten, LockedStatements
<1>6. AnswersRight(c)'
  BY <1>4, AnswersDiffer DEF AnswersRight, Answers200Posted
<1> QED
  BY <1>1, <1>3, <1>5, <1>6 DEF Kept, ClientInv, RepresentationsAgree

LEMMA FlattenPayloadKeeps ==
  ASSUME IInv, NEW c \in Clients, FlattenPayload(c)
  PROVE  Kept(c)
<1> USE DEF At, GoTo, tables, locals
<1>1. TypeOK /\ RepresentationsAgree /\ ClientInv(c) /\ pc[c] = "flatten_payload"
  BY DEF IInv, FlattenPayload
<1>2. CASE Payload(c).repeats
  BY <1>1, <1>2, RaiseKeeps DEF FlattenPayload, TypeOK, Refusals
<1>3. CASE ~Payload(c).repeats
  <2>1. /\ pc' = [pc EXCEPT ![c] = "lock_writes"]
        /\ UNCHANGED <<nodes, closure, lock, request, answer, captured_ancestors, root_parent_id,
                       doomed, writes>>
    BY <1>3 DEF FlattenPayload
  <2>2. TypeOK' /\ pc'[c] = "lock_writes"
    BY <1>1, <2>1 DEF TypeOK, Statements
  <2>3. PICK p \in Payloads : request[c] = PostRequest(p)
    BY <1>1 DEF ClientInv, KnowsRequest
  <2>4. Payload(c) = p
    BY <2>3 DEF Payload, PostRequest
  <2>5. IsFlattened(Payload(c))
    BY <1>3, <2>4, PayloadsAssumption
  <2>6. KnowsRequest(c)'
    BY <2>1, <2>2, <2>5 DEF KnowsRequest, Payload
  <2>7. HoldsLock(c)' /\ ReadsHold(c)'
    BY <2>2 DEF HoldsLock, ReadsHold, LockedStatements
  <2>8. HasWritten(c)'
    BY <1>1, <2>1, <2>2 DEF ClientInv, HasWritten
  <2>9. AnswersRight(c)'
    BY <1>1, <2>1, <2>2 DEF ClientInv, AnswersRight, Answers200Posted, Payload
  <2> QED
    BY <1>1, <2>1, <2>2, <2>6, <2>7, <2>8, <2>9 DEF Kept, ClientInv, RepresentationsAgree
<1> QED
  BY <1>2, <1>3

LEMMA LockWritesKeeps ==
  ASSUME IInv, NEW c \in Clients, LockWrites(c)
  PROVE  Kept(c)
<1>1. TypeOK /\ RepresentationsAgree /\ ClientInv(c) /\ pc[c] = "lock_writes"
  BY DEF IInv, LockWrites, At
<1>2. /\ pc' = [pc EXCEPT ![c] = "fetch_ancestor_depths"] /\ lock' = c
      /\ UNCHANGED <<nodes, closure, request, answer, captured_ancestors, root_parent_id,
                     doomed, writes>>
  BY DEF LockWrites, GoTo, tables, locals
<1>3. TypeOK' /\ pc'[c] = "fetch_ancestor_depths"
  BY <1>1, <1>2 DEF TypeOK, Statements, LockedStatements
<1>4. HoldsLock(c)' /\ ReadsHold(c)'
  BY <1>2, <1>3 DEF HoldsLock, ReadsHold
<1>5. KnowsRequest(c)'
  BY <1>1, <1>2, <1>3 DEF ClientInv, KnowsRequest, Payload
<1>6. HasWritten(c)' /\ AnswersRight(c)'
  BY <1>1, <1>2, <1>3 DEF ClientInv, HasWritten, AnswersRight, Answers200Posted, Payload
<1> QED
  BY <1>1, <1>2, <1>3, <1>4, <1>5, <1>6 DEF Kept, ClientInv, RepresentationsAgree

LEMMA CaptureAncestorsKeeps ==
  ASSUME IInv, NEW c \in Clients, CaptureAncestors(c)
  PROVE  Kept(c)
<1>1. TypeOK /\ RepresentationsAgree /\ ClientInv(c) /\ pc[c] = "fetch_ancestor_depths"
  BY DEF IInv, CaptureAncestors, At
<1>2. pc[c] \in LockedStatements /\ IsFlattened(Payload(c)) /\ writes[c] = NothingWritten
  BY <1>1 DEF ClientInv, KnowsRequest, HasWritten, LockedStatements
<1>3. VisibleClosure(c) = closure
  BY <1>1, <1>2, NothingWrittenYet
<1> DEFINE ancestors == FetchAncestorDepths(closure, Payload(c).root)
<1>4. /\ captured_ancestors' = [captured_ancestors EXCEPT ![c] = ancestors]
      /\ UNCHANGED <<nodes, closure, lock, request, root_parent_id, doomed, writes>>
      /\ IF AlreadyAbove(Payload(c), ancestors) /= {}
         THEN Raise(c, Cycle)
         ELSE pc' = [pc EXCEPT ![c] = "fetch_parent_id"] /\ UNCHANGED answer
  BY <1>3 DEF CaptureAncestors, GoTo, tables
<1>5. ancestors \in SUBSET AncestorRows
  BY <1>1, <1>2, CapturedRows, PayloadShape DEF TypeOK
<1>6. captured_ancestors' \in [Clients -> SUBSET AncestorRows] /\ captured_ancestors'[c] = ancestors
  BY <1>1, <1>4, <1>5 DEF TypeOK
<1>7. CASE AlreadyAbove(Payload(c), ancestors) /= {}
  BY <1>1, <1>4, <1>6, <1>7, RaiseKeeps DEF TypeOK, Refusals
<1>8. CASE AlreadyAbove(Payload(c), ancestors) = {}
  <2>1. /\ pc' = [pc EXCEPT ![c] = "fetch_parent_id"]
        /\ UNCHANGED <<nodes, closure, lock, request, answer, root_parent_id, doomed, writes>>
    BY <1>4, <1>8
  <2>2. TypeOK' /\ pc'[c] = "fetch_parent_id"
    BY <1>1, <1>6, <2>1 DEF TypeOK, Statements, LockedStatements
  <2>3. PassesCheck(closure, Payload(c))
    BY <1>8 DEF AlreadyAbove, PassesCheck
  <2>4. HoldsLock(c)'
    BY <1>1, <1>2, <2>1 DEF ClientInv, HoldsLock
  <2>5. KnowsRequest(c)'
    BY <1>2, <2>1, <2>2 DEF KnowsRequest, Payload
  <2>6. ReadsHold(c)'
    BY <1>6, <2>1, <2>2, <2>3 DEF ReadsHold, Payload, AncestorsStillTrue
  <2>7. HasWritten(c)' /\ AnswersRight(c)'
    BY <1>1, <2>1, <2>2 DEF ClientInv, HasWritten, AnswersRight, Answers200Posted, Payload
  <2> QED
    BY <1>1, <2>1, <2>2, <2>4, <2>5, <2>6, <2>7 DEF Kept, ClientInv, RepresentationsAgree
<1> QED
  BY <1>7, <1>8

LEMMA ReadRootParentKeeps ==
  ASSUME IInv, NEW c \in Clients, ReadRootParent(c)
  PROVE  Kept(c)
<1>1. TypeOK /\ RepresentationsAgree /\ ClientInv(c) /\ pc[c] = "fetch_parent_id"
  BY DEF IInv, ReadRootParent, At
<1>2. pc[c] \in LockedStatements /\ IsFlattened(Payload(c)) /\ writes[c] = NothingWritten
  BY <1>1 DEF ClientInv, KnowsRequest, HasWritten, LockedStatements
<1>3. VisibleNodes(c) = nodes
  BY <1>1, <1>2, NothingWrittenYet
<1>4. /\ root_parent_id' = [root_parent_id EXCEPT ![c] = FetchParentId(nodes, Payload(c).root)]
      /\ pc' = [pc EXCEPT ![c] = "fetch_descendant_ids"]
      /\ UNCHANGED <<nodes, closure, lock, request, answer, captured_ancestors, doomed, writes>>
  BY <1>3 DEF ReadRootParent, GoTo, tables
<1>5. FetchParentId(nodes, Payload(c).root) \in ParentIds
  BY <1>1, <1>2, RowsUpsertedAre DEF TypeOK
<1>6. /\ TypeOK' /\ pc'[c] = "fetch_descendant_ids"
      /\ root_parent_id'[c] = FetchParentId(nodes, Payload(c).root)
  BY <1>1, <1>4, <1>5 DEF TypeOK, Statements, LockedStatements
<1>7. HoldsLock(c)'
  BY <1>1, <1>2, <1>4 DEF ClientInv, HoldsLock
<1>8. KnowsRequest(c)'
  BY <1>2, <1>4, <1>6 DEF KnowsRequest, Payload
<1>9. ReadsHold(c)'
  BY <1>1, <1>2, <1>4, <1>6
     DEF ClientInv, ReadsHold, Payload, AncestorsStillTrue, RootParentStillTrue
<1>10. HasWritten(c)' /\ AnswersRight(c)'
  BY <1>1, <1>4, <1>6 DEF ClientInv, HasWritten, AnswersRight, Answers200Posted, Payload
<1> QED
  BY <1>1, <1>4, <1>6, <1>7, <1>8, <1>9, <1>10 DEF Kept, ClientInv, RepresentationsAgree

LEMMA ReadDoomedKeeps ==
  ASSUME IInv, NEW c \in Clients, ReadDoomed(c)
  PROVE  Kept(c)
<1>1. TypeOK /\ RepresentationsAgree /\ ClientInv(c) /\ pc[c] = "fetch_descendant_ids"
  BY DEF IInv, ReadDoomed, At
<1>2. pc[c] \in LockedStatements /\ IsFlattened(Payload(c)) /\ writes[c] = NothingWritten
  BY <1>1 DEF ClientInv, KnowsRequest, HasWritten, LockedStatements
<1>3. VisibleClosure(c) = closure
  BY <1>1, <1>2, NothingWrittenYet
<1>4. /\ doomed' = [doomed EXCEPT ![c] = DoomedBy(Payload(c), closure)]
      /\ pc' = [pc EXCEPT ![c] = "upsert_nodes"]
      /\ UNCHANGED <<nodes, closure, lock, request, answer, captured_ancestors, root_parent_id,
                     writes>>
  BY <1>3 DEF ReadDoomed, GoTo, tables
<1>5. DoomedBy(Payload(c), closure) \in SUBSET NodeIds
  BY <1>1 DEF TypeOK, DoomedBy, FetchDescendantIds, ClosureRows
<1>6. TypeOK' /\ pc'[c] = "upsert_nodes" /\ doomed'[c] = DoomedBy(Payload(c), closure)
  BY <1>1, <1>4, <1>5 DEF TypeOK, Statements, LockedStatements
<1>7. HoldsLock(c)'
  BY <1>1, <1>2, <1>4 DEF ClientInv, HoldsLock
<1>8. KnowsRequest(c)'
  BY <1>2, <1>4, <1>6 DEF KnowsRequest, Payload
<1>9. ReadsHold(c)'
  BY <1>1, <1>2, <1>4, <1>6
     DEF ClientInv, ReadsHold, Payload, AncestorsStillTrue, RootParentStillTrue, DoomedStillTrue
<1>10. HasWritten(c)' /\ AnswersRight(c)'
  BY <1>1, <1>4, <1>6 DEF ClientInv, HasWritten, AnswersRight, Answers200Posted, Payload
<1> QED
  BY <1>1, <1>4, <1>6, <1>7, <1>8, <1>9, <1>10 DEF Kept, ClientInv, RepresentationsAgree

(***************************************************************************)
(* What each statement adds to the record of what was written.             *)
(***************************************************************************)
LEMMA WrittenSoFar ==
  ASSUME NEW put, NEW gone, NEW cut, NEW add
  PROVE  /\ [NothingWritten EXCEPT !.put = put] = Written(put, {}, {}, {})
         /\ [Written(put, {}, {}, {}) EXCEPT !.gone = gone] = Written(put, gone, {}, {})
         /\ [Written(put, gone, {}, {}) EXCEPT !.cut = cut] = Written(put, gone, cut, {})
         /\ [Written(put, gone, cut, {}) EXCEPT !.add = add] = Written(put, gone, cut, add)
<1>1. PICK none : NothingWritten = [put |-> none, gone |-> {}, cut |-> {}, add |-> {}]
  BY DEF NothingWritten
<1>2. [NothingWritten EXCEPT !.put = put] = Written(put, {}, {}, {})
  BY <1>1 DEF Written
<1> QED
  BY <1>2 DEF Written

(***************************************************************************)
(* Moving on to the next statement of the write: the locals stay, so what  *)
(* was read is still what the tables say.                                  *)
(***************************************************************************)
WriteStatements ==
  {"upsert_nodes", "delete_nodes", "delete_closure", "insert_closure", "read_back", "commit"}

LEMMA WriteOnKeeps ==
  ASSUME IInv, NEW c \in Clients, pc[c] \in WriteStatements,
         NEW statement \in WriteStatements \ {"upsert_nodes", "commit"}, NEW w \in WriteSets,
         pc' = [pc EXCEPT ![c] = statement], writes' = [writes EXCEPT ![c] = w],
         UNCHANGED <<nodes, closure, lock, request, answer, captured_ancestors, root_parent_id,
                     doomed>>,
         pc[c] /= "commit",
         HasWritten(c)'
  PROVE  Kept(c)
<1>1. TypeOK /\ RepresentationsAgree /\ ClientInv(c)
  BY DEF IInv
<1>2. TypeOK' /\ pc'[c] = statement /\ writes'[c] = w
  BY <1>1 DEF TypeOK, Statements, LockedStatements, WriteStatements
<1>3. pc[c] \in LockedStatements /\ pc'[c] \in LockedStatements
  BY <1>2 DEF LockedStatements, WriteStatements
<1>4. HoldsLock(c)' /\ KnowsRequest(c)'
  BY <1>1, <1>2, <1>3
     DEF ClientInv, HoldsLock, KnowsRequest, Payload, LockedStatements, WriteStatements
<1>5. ReadsHold(c)'
  BY <1>1, <1>2, <1>3 DEF ClientInv, ReadsHold, Payload, AncestorsStillTrue, RootParentStillTrue,
                          DoomedStillTrue, WriteStatements
<1>6. AnswersRight(c)'
  BY <1>1, <1>2 DEF ClientInv, AnswersRight, Answers200Posted, Payload, WriteStatements
<1> QED
  BY <1>1, <1>2, <1>4, <1>5, <1>6 DEF Kept, ClientInv, RepresentationsAgree

(***************************************************************************)
(* What is known of a client that is about to write.                       *)
(***************************************************************************)
LEMMA WriterKnows ==
  ASSUME IInv, NEW c \in Clients, pc[c] \in WriteStatements
  PROVE  /\ nodes \in NodeTables /\ closure \in SUBSET ClosureRows /\ Agrees(nodes, closure)
         /\ IsFlattened(Payload(c)) /\ PassesCheck(closure, Payload(c))
         /\ NodeRows(Payload(c), root_parent_id[c]) = RowsUpserted(nodes, Payload(c))
         /\ doomed[c] = DoomedIn(closure, Payload(c))
         /\ ClosureRowsOf(Payload(c), captured_ancestors[c]) = RowsAdded(closure, Payload(c))
         /\ RowsUpserted(nodes, Payload(c)) \in NodeTables
         /\ DoomedIn(closure, Payload(c)) \in SUBSET NodeIds
         /\ PayloadIds(Payload(c)) \in SUBSET NodeIds
         /\ RowsAdded(closure, Payload(c)) \in SUBSET ClosureRows
<1>1. TypeOK /\ RepresentationsAgree /\ ClientInv(c)
  BY DEF IInv
<1>2. nodes \in NodeTables /\ closure \in SUBSET ClosureRows /\ Agrees(nodes, closure)
  BY <1>1 DEF TypeOK, RepresentationsAgree
<1>3. pc[c] \in LockedStatements \ {"fetch_ancestor_depths", "fetch_parent_id", "fetch_descendant_ids"}
  BY DEF LockedStatements, WriteStatements
<1>4. IsFlattened(Payload(c)) /\ PassesCheck(closure, Payload(c))
  BY <1>1, <1>3 DEF ClientInv, KnowsRequest, ReadsHold
<1>5. AncestorsStillTrue(c) /\ RootParentStillTrue(c) /\ DoomedStillTrue(c)
  BY <1>1, <1>3 DEF ClientInv, ReadsHold
<1>6. /\ NodeRows(Payload(c), root_parent_id[c]) = RowsUpserted(nodes, Payload(c))
      /\ doomed[c] = DoomedIn(closure, Payload(c))
      /\ ClosureRowsOf(Payload(c), captured_ancestors[c]) = RowsAdded(closure, Payload(c))
  BY <1>5 DEF RowsUpserted, DoomedIn, RowsAdded, AncestorsStillTrue, RootParentStillTrue,
              DoomedStillTrue, DoomedBy
<1>7. RowsUpserted(nodes, Payload(c)) \in NodeTables
  BY <1>2, <1>4, RowsUpsertedAre
<1>8. DoomedIn(closure, Payload(c)) \in SUBSET NodeIds /\ PayloadIds(Payload(c)) \in SUBSET NodeIds
  BY <1>2, <1>4, TouchedRows, PayloadShape
<1>9. RowsAdded(closure, Payload(c)) \in SUBSET ClosureRows
  <2>1. Payload(c).root \in NodeIds
    BY <1>4, PayloadShape
  <2>2. FetchAncestorDepths(closure, Payload(c).root) \in SUBSET AncestorRows
    BY <1>2, <2>1, CapturedRows
  <2> QED
    BY <1>4, <2>2, RowsStated DEF RowsAdded
<1> QED
  BY <1>2, <1>4, <1>6, <1>7, <1>8, <1>9

LEMMA UpsertNodesKeeps ==
  ASSUME IInv, NEW c \in Clients, UpsertNodes(c)
  PROVE  Kept(c)
<1> DEFINE p == Payload(c)
           upserted == RowsUpserted(nodes, p)
           w == Written(upserted, {}, {}, {})
           next == IF doomed[c] /= {} THEN "delete_nodes" ELSE "delete_closure"
<1>1. pc[c] = "upsert_nodes" /\ ClientInv(c) /\ pc[c] \in WriteStatements
  BY DEF IInv, UpsertNodes, At, WriteStatements
<1>2. /\ nodes \in NodeTables /\ closure \in SUBSET ClosureRows /\ Agrees(nodes, closure)
      /\ IsFlattened(p) /\ PassesCheck(closure, p)
      /\ NodeRows(p, root_parent_id[c]) = upserted
      /\ doomed[c] = DoomedIn(closure, p)
      /\ upserted \in NodeTables
  BY <1>1, WriterKnows
<1>3. writes[c] = NothingWritten
  BY <1>1 DEF ClientInv, HasWritten
<1>4. [writes[c] EXCEPT !.put = NodeRows(p, root_parent_id[c])] = w
  BY <1>2, <1>3, WrittenSoFar
<1>5. ParentsAreStored(NodesAfter(w))
  <2>1. NodesAfter(w) = WithUpserted(nodes, upserted)
    BY <1>2, NoneDeleted DEF NodesAfter, Written
  <2> QED
    BY <1>2, <2>1, ParentsStayStored
<1>6. /\ writes' = [writes EXCEPT ![c] = w] /\ pc' = [pc EXCEPT ![c] = next]
      /\ UNCHANGED <<nodes, closure, lock, request, answer, captured_ancestors, root_parent_id,
                     doomed>>
  <2> HIDE DEF w, next
  <2>1. WriteOrRefuse(c, w, ParentsAreStored(NodesAfter(w)), next)
    BY <1>4 DEF UpsertNodes, next
  <2> QED
    BY <1>5, <2>1 DEF WriteOrRefuse, Write, GoTo, UpsertNodes, tables, locals
<1>7. w \in WriteSets /\ next \in WriteStatements \ {"upsert_nodes", "commit"}
  BY <1>2, WrittenTypes DEF WriteStatements
<1>8. pc'[c] = next /\ writes'[c] = w /\ request'[c] = request[c]
  BY <1>6 DEF IInv, TypeOK
<1>9. HasWritten(c)'
  <2>1. CASE doomed[c] /= {}
    BY <1>6, <1>8, <2>1 DEF HasWritten, Payload
  <2>2. CASE doomed[c] = {}
    BY <1>2, <1>6, <1>8, <2>2 DEF HasWritten, Payload
  <2> QED
    BY <2>1, <2>2
<1> HIDE DEF w, next
<1> QED
  BY <1>1, <1>6, <1>7, <1>9, WriteOnKeeps

LEMMA DeleteNodesKeeps ==
  ASSUME IInv, NEW c \in Clients, DeleteNodes(c)
  PROVE  Kept(c)
<1> DEFINE p == Payload(c)
           upserted == RowsUpserted(nodes, p)
           w == Written(upserted, DoomedIn(closure, p), {}, {})
<1>1. pc[c] = "delete_nodes" /\ ClientInv(c) /\ pc[c] \in WriteStatements
  BY DEF IInv, DeleteNodes, At, WriteStatements
<1>2. /\ nodes \in NodeTables /\ closure \in SUBSET ClosureRows /\ Agrees(nodes, closure)
      /\ IsFlattened(p) /\ PassesCheck(closure, p)
      /\ doomed[c] = DoomedIn(closure, p)
      /\ upserted \in NodeTables
      /\ DoomedIn(closure, p) \in SUBSET NodeIds
  BY <1>1, WriterKnows
<1>3. writes[c] = Written(upserted, {}, {}, {})
  BY <1>1 DEF ClientInv, HasWritten
<1>4. [writes[c] EXCEPT !.gone = doomed[c]] = w
  BY <1>2, <1>3, WrittenSoFar
<1>5. ParentsAreStored(NodesAfter(w))
  <2>1. NodesAfter(w) = NodesStored(nodes, closure, p)
    BY DEF NodesAfter, NodesStored, Written
  <2> QED
    BY <1>2, <2>1, ParentsStayStored
<1>6. /\ writes' = [writes EXCEPT ![c] = w] /\ pc' = [pc EXCEPT ![c] = "delete_closure"]
      /\ UNCHANGED <<nodes, closure, lock, request, answer, captured_ancestors, root_parent_id,
                     doomed>>
  <2> HIDE DEF w
  <2>1. WriteOrRefuse(c, w, ParentsAreStored(NodesAfter(w)), "delete_closure")
    BY <1>4 DEF DeleteNodes
  <2> QED
    BY <1>5, <2>1 DEF WriteOrRefuse, Write, GoTo, DeleteNodes, tables, locals
<1>7. w \in WriteSets
  BY <1>2, WrittenTypes
<1>8. pc'[c] = "delete_closure" /\ writes'[c] = w /\ request'[c] = request[c]
  BY <1>6 DEF IInv, TypeOK
<1>9. HasWritten(c)'
  BY <1>6, <1>8 DEF HasWritten, Payload
<1> HIDE DEF w
<1> QED
  BY <1>1, <1>6, <1>7, <1>9, WriteOnKeeps DEF WriteStatements

LEMMA DeleteClosureKeeps ==
  ASSUME IInv, NEW c \in Clients, DeleteClosure(c)
  PROVE  Kept(c)
<1> DEFINE p == Payload(c)
           upserted == RowsUpserted(nodes, p)
           dropped == DoomedIn(closure, p)
           w == Written(upserted, dropped, PayloadIds(p), {})
<1>1. pc[c] = "delete_closure" /\ ClientInv(c) /\ pc[c] \in WriteStatements
  BY DEF IInv, DeleteClosure, At, WriteStatements
<1>2. /\ upserted \in NodeTables /\ dropped \in SUBSET NodeIds
      /\ PayloadIds(p) \in SUBSET NodeIds
  BY <1>1, WriterKnows
<1>3. writes[c] = Written(upserted, dropped, {}, {})
  BY <1>1 DEF ClientInv, HasWritten
<1>4. [writes[c] EXCEPT !.cut = PayloadIds(p)] = w
  BY <1>3, WrittenSoFar
<1>5. /\ writes' = [writes EXCEPT ![c] = w] /\ pc' = [pc EXCEPT ![c] = "insert_closure"]
      /\ UNCHANGED <<nodes, closure, lock, request, answer, captured_ancestors, root_parent_id,
                     doomed>>
  <2> HIDE DEF w
  <2> QED
    BY <1>4 DEF DeleteClosure, Write, GoTo, tables, locals
<1>6. w \in WriteSets
  BY <1>2, WrittenTypes
<1>7. pc'[c] = "insert_closure" /\ writes'[c] = w /\ request'[c] = request[c]
  BY <1>5 DEF IInv, TypeOK
<1>8. HasWritten(c)'
  BY <1>5, <1>7 DEF HasWritten, Payload
<1> HIDE DEF w
<1> QED
  BY <1>1, <1>5, <1>6, <1>8, WriteOnKeeps DEF WriteStatements

LEMMA InsertClosureKeeps ==
  ASSUME IInv, NEW c \in Clients, InsertClosure(c)
  PROVE  Kept(c)
<1> DEFINE p == Payload(c)
           upserted == RowsUpserted(nodes, p)
           dropped == DoomedIn(closure, p)
           added == RowsAdded(closure, p)
           w == Written(upserted, dropped, PayloadIds(p), added)
<1>1. pc[c] = "insert_closure" /\ ClientInv(c) /\ pc[c] \in WriteStatements
  BY DEF IInv, InsertClosure, At, WriteStatements
<1>2. /\ nodes \in NodeTables /\ closure \in SUBSET ClosureRows /\ Agrees(nodes, closure)
      /\ IsFlattened(p) /\ PassesCheck(closure, p)
      /\ ClosureRowsOf(p, captured_ancestors[c]) = added
      /\ upserted \in NodeTables /\ dropped \in SUBSET NodeIds
      /\ PayloadIds(p) \in SUBSET NodeIds /\ added \in SUBSET ClosureRows
  BY <1>1, WriterKnows
<1>3. writes[c] = Written(upserted, dropped, PayloadIds(p), {})
  BY <1>1 DEF ClientInv, HasWritten
<1>4. [writes[c] EXCEPT !.add = ClosureRowsOf(p, captured_ancestors[c])] = w
  BY <1>2, <1>3, WrittenSoFar
<1>5. VisibleNodes(c) = NodesStored(nodes, closure, p) /\ VisibleClosure(c) = RowsKept(closure, p)
  BY <1>3, AllWritten
<1>6. ClosureAfter(w) = ClosureStored(closure, p) /\ w.add = added
  BY DEF ClosureAfter, ClosureStored, RowsKept, Written
<1>7. /\ VisibleClosure(c) \intersect w.add = {}
      /\ ClosureIsAccepted(VisibleNodes(c), ClosureAfter(w))
  <2> HIDE DEF w
  <2> QED
    BY <1>2, <1>5, <1>6, InsertIsAccepted
<1>8. /\ writes' = [writes EXCEPT ![c] = w] /\ pc' = [pc EXCEPT ![c] = "read_back"]
      /\ UNCHANGED <<nodes, closure, lock, request, answer, captured_ancestors, root_parent_id,
                     doomed>>
  <2> HIDE DEF w
  <2>1. WriteOrRefuse(c, w,
                      /\ VisibleClosure(c) \intersect w.add = {}
                      /\ ClosureIsAccepted(VisibleNodes(c), ClosureAfter(w)),
                      "read_back")
    BY <1>4 DEF InsertClosure
  <2> QED
    BY <1>7, <2>1 DEF WriteOrRefuse, Write, GoTo, InsertClosure, tables, locals
<1>9. w \in WriteSets
  BY <1>2, WrittenTypes
<1>10. pc'[c] = "read_back" /\ writes'[c] = w /\ request'[c] = request[c]
  BY <1>8 DEF IInv, TypeOK
<1>11. HasWritten(c)'
  BY <1>8, <1>10 DEF HasWritten, Payload
<1> HIDE DEF w
<1> QED
  BY <1>1, <1>8, <1>9, <1>11, WriteOnKeeps DEF WriteStatements

LEMMA ReadBackKeeps ==
  ASSUME IInv, NEW c \in Clients, ReadBack(c)
  PROVE  Kept(c)
<1> DEFINE p == Payload(c)
           rows == FetchSubtreeRows(VisibleNodes(c), VisibleClosure(c), p.root)
<1>1. /\ pc[c] = "read_back" /\ pc[c] \in WriteStatements
      /\ TypeOK /\ RepresentationsAgree /\ ClientInv(c)
  BY DEF IInv, ReadBack, At, WriteStatements
<1>2. /\ nodes \in NodeTables /\ closure \in SUBSET ClosureRows /\ Agrees(nodes, closure)
      /\ IsFlattened(p) /\ PassesCheck(closure, p)
  BY <1>1, WriterKnows
<1>3. writes[c] = Written(RowsUpserted(nodes, p), DoomedIn(closure, p), PayloadIds(p),
                          RowsAdded(closure, p))
  BY <1>1 DEF ClientInv, HasWritten
<1>4. /\ VisibleNodes(c) = NodesStored(nodes, closure, p)
      /\ VisibleClosure(c) = ClosureStored(closure, p)
  BY <1>3, AllWritten DEF ClosureStored
<1>5. /\ rows /= {} /\ Assembles(rows)
      /\ AssembleTree(rows) = PostedTree(p) /\ AssembleTree(rows) \in Trees
  BY <1>2, <1>4, PostedIsReadBack
<1>6. /\ answer' = [answer EXCEPT ![c] = Success(PostedTree(p))]
      /\ pc' = [pc EXCEPT ![c] = "commit"]
      /\ UNCHANGED <<nodes, closure, lock, request, captured_ancestors, root_parent_id,
                     doomed, writes>>
  BY <1>5 DEF ReadBack, GoTo, tables, locals
<1> HIDE DEF rows
<1>7. Success(PostedTree(p)) \in Answers
  BY <1>5, AnswersDiffer
<1>8. TypeOK'
  BY <1>1, <1>6, <1>7 DEF TypeOK, Statements, LockedStatements
<1>9. /\ pc'[c] = "commit" /\ answer'[c] = Success(PostedTree(p)) /\ request'[c] = request[c]
      /\ writes'[c] = writes[c]
  BY <1>1, <1>6 DEF TypeOK
<1>10. HoldsLock(c)' /\ KnowsRequest(c)'
  BY <1>1, <1>6, <1>9 DEF ClientInv, HoldsLock, KnowsRequest, Payload, LockedStatements
<1>11. ReadsHold(c)'
  BY <1>1, <1>6, <1>9 DEF ClientInv, ReadsHold, Payload, AncestorsStillTrue, RootParentStillTrue,
                          DoomedStillTrue, LockedStatements
<1>12. HasWritten(c)'
  BY <1>3, <1>6, <1>9 DEF HasWritten, Payload
<1>13. AnswersRight(c)'
  BY <1>9, AnswersDiffer DEF AnswersRight, Answers200Posted, Payload
<1> QED
  BY <1>1, <1>6, <1>8, <1>10, <1>11, <1>12, <1>13 DEF Kept, ClientInv, RepresentationsAgree

(***************************************************************************)
(* The one step that changes what is committed.                            *)
(***************************************************************************)
LEMMA PublishAgrees ==
  ASSUME IInv, NEW c \in Clients, pc[c] = "commit", Publish(c)
  PROVE  /\ nodes' \in NodeTables /\ closure' \in SUBSET ClosureRows /\ RepresentationsAgree'
         /\ lock' \in Clients \union {NoOne}
         /\ captured_ancestors' \in [Clients -> SUBSET AncestorRows]
         /\ root_parent_id' \in [Clients -> ParentIds]
         /\ doomed' \in [Clients -> SUBSET NodeIds]
         /\ writes' \in [Clients -> WriteSets] /\ writes'[c] = NothingWritten
<1> DEFINE p == Payload(c)
<1>1. TypeOK /\ ClientInv(c) /\ pc[c] \in WriteStatements
  BY DEF IInv, WriteStatements
<1>2. /\ nodes \in NodeTables /\ closure \in SUBSET ClosureRows /\ Agrees(nodes, closure)
      /\ IsFlattened(p) /\ PassesCheck(closure, p)
  BY <1>1, WriterKnows
<1>3. writes[c] = Written(RowsUpserted(nodes, p), DoomedIn(closure, p), PayloadIds(p),
                          RowsAdded(closure, p))
  BY <1>1 DEF ClientInv, HasWritten
<1>4. nodes' = NodesStored(nodes, closure, p) /\ closure' = ClosureStored(closure, p)
  BY <1>3, AllWritten DEF ClosureStored, Publish
<1>5. nodes' \in NodeTables /\ closure' \in SUBSET ClosureRows /\ RepresentationsAgree'
  BY <1>2, <1>4, StoreKeepsAgreement DEF RepresentationsAgree
<1>6. lock' \in Clients \union {NoOne}
  BY <1>1 DEF Publish, Release, TypeOK
<1>7. /\ captured_ancestors' \in [Clients -> SUBSET AncestorRows]
      /\ root_parent_id' \in [Clients -> ParentIds]
      /\ doomed' \in [Clients -> SUBSET NodeIds]
      /\ writes' \in [Clients -> WriteSets] /\ writes'[c] = NothingWritten
  BY <1>1, WrittenTypes DEF Publish, Forget, Write, TypeOK, ParentIds
<1> QED
  BY <1>5, <1>6, <1>7

LEMMA CommitKeeps ==
  ASSUME IInv, NEW c \in Clients, Commit(c)
  PROVE  Kept(c)
<1>1. TypeOK /\ ClientInv(c) /\ pc[c] = "commit" /\ Publish(c)
  BY DEF IInv, Commit, At
<1>2. /\ nodes' \in NodeTables /\ closure' \in SUBSET ClosureRows /\ RepresentationsAgree'
      /\ lock' \in Clients \union {NoOne}
      /\ captured_ancestors' \in [Clients -> SUBSET AncestorRows]
      /\ root_parent_id' \in [Clients -> ParentIds]
      /\ doomed' \in [Clients -> SUBSET NodeIds]
      /\ writes' \in [Clients -> WriteSets] /\ writes'[c] = NothingWritten
  BY <1>1, PublishAgrees
<1>3. pc' = [pc EXCEPT ![c] = "answer"] /\ request' = request /\ answer' = answer
  BY DEF Commit, GoTo
<1>4. TypeOK' /\ pc'[c] = "answer"
  BY <1>1, <1>2, <1>3 DEF TypeOK
<1>5. HoldsLock(c)' /\ KnowsRequest(c)' /\ ReadsHold(c)'
  BY <1>4 DEF HoldsLock, KnowsRequest, ReadsHold, LockedStatements
<1>6. HasWritten(c)' /\ AnswersRight(c)'
  BY <1>1, <1>2, <1>3, <1>4 DEF ClientInv, HasWritten, AnswersRight, Answers200Posted, Payload
<1> QED
  BY <1>2, <1>4, <1>5, <1>6 DEF Kept, ClientInv

LEMMA CommitInDoubtKeeps ==
  ASSUME IInv, NEW c \in Clients, CommitInDoubt(c)
  PROVE  Kept(c)
<1>1. TypeOK /\ ClientInv(c) /\ pc[c] = "commit" /\ Publish(c)
  BY DEF IInv, CommitInDoubt, At
<1>2. /\ nodes' \in NodeTables /\ closure' \in SUBSET ClosureRows /\ RepresentationsAgree'
      /\ lock' \in Clients \union {NoOne}
      /\ captured_ancestors' \in [Clients -> SUBSET AncestorRows]
      /\ root_parent_id' \in [Clients -> ParentIds]
      /\ doomed' \in [Clients -> SUBSET NodeIds]
      /\ writes' \in [Clients -> WriteSets] /\ writes'[c] = NothingWritten
  BY <1>1, PublishAgrees
<1>3. /\ pc' = [pc EXCEPT ![c] = "rollback"] /\ request' = request
      /\ answer' = [answer EXCEPT ![c] = Unavailable]
  BY DEF CommitInDoubt, Raise, GoTo
<1>4. TypeOK' /\ pc'[c] = "rollback" /\ answer'[c] = Unavailable
  BY <1>1, <1>2, <1>3, AnswersDiffer DEF TypeOK, Refusals
<1>5. HoldsLock(c)' /\ KnowsRequest(c)' /\ ReadsHold(c)' /\ HasWritten(c)'
  BY <1>4 DEF HoldsLock, KnowsRequest, ReadsHold, HasWritten, LockedStatements
<1>6. AnswersRight(c)'
  BY <1>4, AnswersDiffer DEF AnswersRight, Answers200Posted, Refusals
<1> QED
  BY <1>2, <1>4, <1>5, <1>6 DEF Kept, ClientInv

LEMMA FailStatementKeeps ==
  ASSUME IInv, NEW c \in Clients, FailStatement(c) \/ LoseConnection(c)
  PROVE  Kept(c)
<1>1. TypeOK
  BY DEF IInv
<1>2. /\ Raise(c, Unavailable) /\ nodes' = nodes /\ closure' = closure
      /\ lock' \in {lock, NoOne} /\ request' = request
  BY DEF FailStatement, LoseConnection, tables, Release
<1>3. /\ captured_ancestors' \in [Clients -> SUBSET AncestorRows]
      /\ root_parent_id' \in [Clients -> ParentIds]
      /\ doomed' \in [Clients -> SUBSET NodeIds]
      /\ writes' \in [Clients -> WriteSets]
  BY <1>1, WrittenTypes DEF FailStatement, LoseConnection, Forget, Write, TypeOK, ParentIds, locals
<1> QED
  BY <1>2, <1>3, RaiseKeeps DEF Refusals

LEMMA RollbackKeeps ==
  ASSUME IInv, NEW c \in Clients, Rollback(c)
  PROVE  Kept(c)
<1>1. TypeOK /\ RepresentationsAgree /\ ClientInv(c)
  BY DEF IInv
<1>2. /\ pc' = [pc EXCEPT ![c] = "answer"] /\ request' = request /\ answer' = answer
      /\ nodes' = nodes /\ closure' = closure /\ lock' \in {lock, NoOne}
  BY DEF Rollback, GoTo, Release, tables
<1>3. /\ captured_ancestors' \in [Clients -> SUBSET AncestorRows]
      /\ root_parent_id' \in [Clients -> ParentIds]
      /\ doomed' \in [Clients -> SUBSET NodeIds]
      /\ writes' \in [Clients -> WriteSets] /\ writes'[c] = NothingWritten
  BY <1>1, WrittenTypes DEF Rollback, Forget, Write, TypeOK, ParentIds
<1>4. TypeOK' /\ pc'[c] = "answer"
  BY <1>1, <1>2, <1>3 DEF TypeOK
<1>5. HoldsLock(c)' /\ KnowsRequest(c)' /\ ReadsHold(c)' /\ HasWritten(c)'
  BY <1>3, <1>4 DEF HoldsLock, KnowsRequest, ReadsHold, HasWritten, LockedStatements
<1>6. AnswersRight(c)'
  BY <1>1, <1>2, <1>4 DEF ClientInv, AnswersRight, Answers200Posted, Payload
<1> QED
  BY <1>1, <1>2, <1>4, <1>5, <1>6 DEF Kept, ClientInv, RepresentationsAgree

LEMMA RespondKeeps ==
  ASSUME IInv, NEW c \in Clients, Respond(c)
  PROVE  Kept(c)
<1>1. TypeOK /\ RepresentationsAgree /\ ClientInv(c) /\ pc[c] = "answer"
  BY DEF IInv, Respond, At
<1>2. /\ pc' = [pc EXCEPT ![c] = "idle"] /\ request' = [request EXCEPT ![c] = NoRequest]
      /\ answer' = [answer EXCEPT ![c] = NoAnswer]
      /\ UNCHANGED <<nodes, closure, lock, captured_ancestors, root_parent_id, doomed, writes>>
  BY DEF Respond, GoTo, tables, locals
<1>3. TypeOK' /\ pc'[c] = "idle" /\ request'[c] = NoRequest /\ answer'[c] = NoAnswer
  BY <1>1, <1>2 DEF TypeOK
<1>4. HoldsLock(c)' /\ KnowsRequest(c)' /\ ReadsHold(c)'
  BY <1>3 DEF HoldsLock, KnowsRequest, ReadsHold, LockedStatements
<1>5. HasWritten(c)'
  BY <1>1, <1>2, <1>3 DEF ClientInv, HasWritten
<1>6. AnswersRight(c)'
  BY <1>3, AnswersDiffer DEF AnswersRight, Answers200Posted
<1> QED
  BY <1>1, <1>2, <1>3, <1>4, <1>5, <1>6 DEF Kept, ClientInv, RepresentationsAgree

-----------------------------------------------------------------------------
(* The invariant. *)

LEMMA InitEstablishes == Init => IInv
<1> SUFFICES ASSUME Init PROVE IInv
  OBVIOUS
<1>1. /\ nodes = [id \in {} |-> NoParent] /\ closure = {} /\ lock = NoOne
      /\ pc = [c \in Clients |-> "idle"] /\ request = [c \in Clients |-> NoRequest]
      /\ answer = [c \in Clients |-> NoAnswer]
      /\ captured_ancestors = [c \in Clients |-> {}]
      /\ root_parent_id = [c \in Clients |-> NoParent]
      /\ doomed = [c \in Clients |-> {}]
      /\ writes = [c \in Clients |-> NothingWritten]
  BY DEF Init
<1>2. DOMAIN nodes = {} /\ nodes \in NodeTables
  BY <1>1, WrittenTypes DEF NothingWritten, WriteSets
<1>3. writes \in [Clients -> WriteSets]
  BY <1>1, WrittenTypes
<1>4. TypeOK
  BY <1>1, <1>2, <1>3 DEF TypeOK, ParentIds
<1>5. RepresentationsAgree
  BY <1>1, <1>2 DEF RepresentationsAgree, Agrees, ParentsAreStored, EndsAreStored, OneRowPerPair,
                    SelfRowsAgree, RowsGoThroughParents, RowsReachChildren
<1>6. ASSUME NEW c \in Clients PROVE ClientInv(c)
  <2>1. /\ pc[c] = "idle" /\ request[c] = NoRequest /\ answer[c] = NoAnswer
        /\ writes[c] = NothingWritten
    BY <1>1
  <2>2. HoldsLock(c) /\ KnowsRequest(c) /\ ReadsHold(c) /\ HasWritten(c)
    BY <2>1 DEF HoldsLock, KnowsRequest, ReadsHold, HasWritten, LockedStatements
  <2>3. AnswersRight(c)
    BY <2>1, AnswersDiffer DEF AnswersRight, Answers200Posted
  <2> QED
    BY <2>2, <2>3 DEF ClientInv
<1> QED
  BY <1>4, <1>5, <1>6 DEF IInv

LEMMA CrashKeeps ==
  ASSUME IInv, ServerCrash
  PROVE  IInv'
<1>1. TypeOK /\ RepresentationsAgree
  BY DEF IInv
<1>2. /\ nodes' = nodes /\ closure' = closure /\ lock' = NoOne
      /\ pc' = [c \in Clients |-> "idle"] /\ request' = [c \in Clients |-> NoRequest]
      /\ answer' = [c \in Clients |-> NoAnswer]
      /\ captured_ancestors' = [c \in Clients |-> {}]
      /\ root_parent_id' = [c \in Clients |-> NoParent]
      /\ doomed' = [c \in Clients |-> {}]
      /\ writes' = [c \in Clients |-> NothingWritten]
  BY DEF ServerCrash, tables
<1>3. TypeOK'
  BY <1>1, <1>2, WrittenTypes DEF TypeOK, ParentIds
<1>4. ASSUME NEW c \in Clients PROVE ClientInv(c)'
  <2>1. /\ pc'[c] = "idle" /\ request'[c] = NoRequest /\ answer'[c] = NoAnswer
        /\ writes'[c] = NothingWritten
    BY <1>2
  <2>2. HoldsLock(c)' /\ KnowsRequest(c)' /\ ReadsHold(c)' /\ HasWritten(c)'
    BY <2>1 DEF HoldsLock, KnowsRequest, ReadsHold, HasWritten, LockedStatements
  <2>3. AnswersRight(c)'
    BY <2>1, AnswersDiffer DEF AnswersRight, Answers200Posted
  <2> QED
    BY <2>2, <2>3 DEF ClientInv
<1> QED
  BY <1>1, <1>2, <1>3, <1>4 DEF IInv, RepresentationsAgree

LEMMA StepKeeps ==
  ASSUME IInv, NEW c \in Clients, Arrive(c) \/ Handle(c) \/ GoWrong(c)
  PROVE  IInv'
<1>1. Kept(c)
  <2>1. CASE Arrive(c)
    BY <2>1, ArriveKeeps
  <2>2. CASE Handle(c)
    BY <2>2, GetSubtreeKeeps, FlattenPayloadKeeps, LockWritesKeeps, CaptureAncestorsKeeps,
       ReadRootParentKeeps, ReadDoomedKeeps, UpsertNodesKeeps, DeleteNodesKeeps,
       DeleteClosureKeeps, InsertClosureKeeps, ReadBackKeeps, CommitKeeps, RollbackKeeps,
       RespondKeeps DEF Handle
  <2>3. CASE GoWrong(c)
    BY <2>3, CommitInDoubtKeeps, FailStatementKeeps DEF GoWrong
  <2> QED
    BY <2>1, <2>2, <2>3
<1>2. ASSUME NEW d \in Clients \ {c} PROVE ClientInv(d)'
  <2>1. ClientInv(d) /\ Untouched(d)
    BY OthersUntouched DEF IInv
  <2> QED
    BY <2>1, Bystander
<1> QED
  BY <1>1, <1>2 DEF IInv, Kept

LEMMA StutterKeeps ==
  ASSUME IInv, UNCHANGED vars
  PROVE  IInv'
<1>1. UNCHANGED <<nodes, closure, lock, pc, request, answer, captured_ancestors, root_parent_id,
                  doomed, writes>>
  BY DEF vars
<1>2. TypeOK' /\ RepresentationsAgree'
  BY <1>1 DEF IInv, TypeOK, RepresentationsAgree
<1>3. ASSUME NEW d \in Clients PROVE ClientInv(d)'
  <2>1. ClientInv(d) /\ Untouched(d)
    BY <1>1 DEF IInv, Untouched
  <2> QED
    BY <2>1, Bystander
<1> QED
  BY <1>2, <1>3 DEF IInv

LEMMA NextKeeps == IInv /\ [Next]_vars => IInv'
BY CrashKeeps, StepKeeps, StutterKeeps DEF Next

(***************************************************************************)
(* The invariant the theorems rest on holds of every reachable state.      *)
(***************************************************************************)
THEOREM InvariantHolds == Spec => []IInv
BY InitEstablishes, NextKeeps, PTL DEF Spec

-----------------------------------------------------------------------------
(* What follows from it. *)

(***************************************************************************)
(* Every variable of the write path keeps its type: no statement ever      *)
(* produces a row, an id or an answer outside what the code can hold.      *)
(***************************************************************************)
THEOREM TypesAreKept == Spec => []TypeOK
<1>1. IInv => TypeOK
  BY DEF IInv
<1> QED
  BY <1>1, InvariantHolds, PTL

(***************************************************************************)
(* After every commit the closure table says exactly what walking the      *)
(* parent edges says: store_hierarchy keeps the two consistent for any     *)
(* clients, payloads, interleavings, failures and crashes.                 *)
(***************************************************************************)
THEOREM RepresentationsAlwaysAgree == Spec => []RepresentationsAgree
<1>1. IInv => RepresentationsAgree
  BY DEF IInv
<1> QED
  BY <1>1, InvariantHolds, PTL

(***************************************************************************)
(* What a write read under the lock stays true while the write uses it.    *)
(***************************************************************************)
THEOREM ReadsAlwaysHold == Spec => []WhatWasReadStillHolds
<1>1. IInv => WhatWasReadStillHolds
  BY DEF IInv, ClientInv, ReadsHold, WhatWasReadStillHolds
<1> QED
  BY <1>1, InvariantHolds, PTL

(***************************************************************************)
(* No constraint ever refuses a statement of a write, and no tree fails to *)
(* assemble.                                                               *)
(***************************************************************************)
THEOREM NothingIsEverRefused == Spec => []NothingRefused
<1>1. IInv => NothingRefused
  BY DEF IInv, ClientInv, AnswersRight, NothingRefused
<1> QED
  BY <1>1, InvariantHolds, PTL

(***************************************************************************)
(* A POST answered 200 is answered with exactly the hierarchy it posted.   *)
(***************************************************************************)
THEOREM PostsAreAnsweredAsPosted == Spec => []AnsweredAsPosted
<1>1. IInv => AnsweredAsPosted
  BY DEF IInv, ClientInv, AnswersRight, Answers200Posted, AnsweredAsPosted
<1> QED
  BY <1>1, InvariantHolds, PTL

(***************************************************************************)
(* The table nodes is finite: a commit adds what one payload mentions.     *)
(***************************************************************************)
NodesAreFinite == IsFiniteSet(DOMAIN nodes)

LEMMA PublishKeepsFinite ==
  ASSUME IInv, NodesAreFinite, NEW c \in Clients, pc[c] = "commit", Publish(c)
  PROVE  NodesAreFinite'
<1> DEFINE p == Payload(c)
<1>1. TypeOK /\ ClientInv(c) /\ pc[c] \in WriteStatements
  BY DEF IInv, WriteStatements
<1>2. nodes \in NodeTables /\ IsFlattened(p)
  BY <1>1, WriterKnows
<1>3. writes[c] = Written(RowsUpserted(nodes, p), DoomedIn(closure, p), PayloadIds(p),
                          RowsAdded(closure, p))
  BY <1>1 DEF ClientInv, HasWritten
<1>4. nodes' = NodesStored(nodes, closure, p)
  BY <1>3, AllWritten DEF Publish
<1>5. DOMAIN nodes' = (DOMAIN nodes \ Touched(closure, p)) \union PayloadIds(p)
  <2>1. closure \in SUBSET ClosureRows
    BY <1>1 DEF TypeOK
  <2> HIDE DEF p
  <2>2. DOMAIN NodesStored(nodes, closure, p) =
          (DOMAIN nodes \ Touched(closure, p)) \union PayloadIds(p)
    BY <1>2, <2>1, NodesStoredAre
  <2> QED
    BY <1>4, <2>2
<1>6. IsFiniteSet(DOMAIN nodes \ Touched(closure, p)) /\ IsFiniteSet(PayloadIds(p))
  BY <1>2, FS_Difference DEF NodesAreFinite, IsFlattened
<1>7. IsFiniteSet((DOMAIN nodes \ Touched(closure, p)) \union PayloadIds(p))
  BY <1>6, FS_Union
<1> QED
  BY <1>5, <1>7 DEF NodesAreFinite

LEMMA StepKeepsFinite ==
  ASSUME IInv, NodesAreFinite, [Next]_vars
  PROVE  NodesAreFinite'
<1>1. ASSUME NEW c \in Clients, Commit(c) \/ CommitInDoubt(c)
      PROVE  NodesAreFinite'
  BY <1>1, PublishKeepsFinite DEF Commit, CommitInDoubt, At
<1>2. ASSUME nodes' = nodes PROVE NodesAreFinite'
  BY <1>2 DEF NodesAreFinite
<1>3. ASSUME NEW c \in Clients, Arrive(c) PROVE nodes' = nodes
  BY <1>3 DEF Arrive, Post, Get, tables
<1>4. ASSUME NEW c \in Clients, Handle(c) PROVE Commit(c) \/ nodes' = nodes
  BY <1>4 DEF Handle, GetSubtree, FlattenPayload, LockWrites, CaptureAncestors, ReadRootParent,
              ReadDoomed, UpsertNodes, DeleteNodes, DeleteClosure, InsertClosure, ReadBack,
              Rollback, Respond, tables
<1>5. ASSUME NEW c \in Clients, GoWrong(c) PROVE CommitInDoubt(c) \/ nodes' = nodes
  BY <1>5 DEF GoWrong, FailStatement, LoseConnection, tables
<1>6. ServerCrash \/ UNCHANGED vars => nodes' = nodes
  BY DEF ServerCrash, tables, vars
<1> QED
  BY <1>1, <1>2, <1>3, <1>4, <1>5, <1>6 DEF Next

(***************************************************************************)
(* After every commit the closure is exactly what the tests' oracle makes  *)
(* of the parent edges: the check the tests make of a few stores, of every *)
(* store, and of whatever was interleaved with it.                         *)
(***************************************************************************)
THEOREM ClosureIsAlwaysTheOracles == Spec => []ClosureIsTheOracles
<1>1. Init => NodesAreFinite
  <2>1. Init => DOMAIN nodes = {}
    BY DEF Init
  <2> QED
    BY <2>1, FS_EmptySet DEF NodesAreFinite
<1>2. IInv /\ NodesAreFinite /\ [Next]_vars => NodesAreFinite'
  BY StepKeepsFinite
<1>3. IInv /\ NodesAreFinite => ClosureIsTheOracles
  BY AgreementIsTheOracles DEF IInv, TypeOK, RepresentationsAgree, NodesAreFinite,
     ClosureIsTheOracles
<1> QED
  BY <1>1, <1>2, <1>3, InvariantHolds, PTL DEF Spec

(***************************************************************************)
(* What is above a node in agreeing tables.                                *)
(***************************************************************************)
LEMMA AboveIsAncestry ==
  ASSUME NEW N \in NodeTables, IsFiniteSet(DOMAIN N),
         NEW C \in SUBSET ClosureRows, Agrees(N, C), NEW id \in NodeIds
  PROVE  IsAncestry(FetchAncestorDepths(C, id))
<1> DEFINE A == FetchAncestorDepths(C, id)
<1>1. A \in SUBSET AncestorRows
  BY CapturedRows
<1>2. ASSUME NEW above \in A
      PROVE  /\ ClosureRow(above.ancestor_id, id, above.depth) \in C
             /\ above = AncestorRow(above.ancestor_id, above.depth)
             /\ above.ancestor_id \in NodeIds /\ above.depth \in Nat
             /\ above.ancestor_id \in DOMAIN N /\ id \in DOMAIN N
  <2>1. /\ above = AncestorRow(above.ancestor_id, above.depth)
        /\ above.ancestor_id \in NodeIds /\ above.depth \in Nat
    BY <1>1 DEF AncestorRows, AncestorRow
  <2>2. ClosureRow(above.ancestor_id, id, above.depth) \in C
    BY <2>1, CapturedRows
  <2> QED
    BY <2>1, <2>2 DEF Agrees, EndsAreStored, ClosureRow
<1> HIDE DEF A
<1>3. ASSUME NEW above \in A, NEW other \in A, above.ancestor_id = other.ancestor_id
      PROVE  above = other
  <2>1. ClosureRow(above.ancestor_id, id, above.depth) = ClosureRow(other.ancestor_id, id, other.depth)
    BY <1>2, <1>3 DEF Agrees, OneRowPerPair, ClosureRow
  <2>2. above.depth = other.depth
    BY <2>1 DEF ClosureRow
  <2> QED
    BY <1>2, <1>3, <2>2
<1>4. ASSUME NEW above \in A, NEW other \in A, above.depth = other.depth
      PROVE  above = other
  <2>1. /\ IsAbove(C, above.ancestor_id, id, above.depth)
        /\ IsAbove(C, other.ancestor_id, id, above.depth)
    BY <1>2, <1>4 DEF IsAbove
  <2>2. above.ancestor_id = other.ancestor_id
    BY <1>2, <2>1, OneIsAbove
  <2> QED
    BY <1>2, <1>4, <2>2
<1>5. IsFiniteSet(A)
  <2> DEFINE f == [above \in A |-> above.ancestor_id]
  <2>1. f \in [A -> DOMAIN N] /\ \A above, other \in A : f[above] = f[other] => above = other
    BY <1>2, <1>3
  <2>2. f \in Injection(A, DOMAIN N)
    BY <2>1 DEF Injection, IsInjective
  <2> QED
    BY <2>2, FS_Injection
<1> QED
  BY <1>1, <1>3, <1>4, <1>5 DEF IsAncestry, A

(***************************************************************************)
(* The captured ancestors a write holds are a chain, and none of them is   *)
(* in its payload: what closure_rows is given is what PayloadPasses takes  *)
(* it to be given (AncestriesAssumption).                                  *)
(***************************************************************************)
CapturedIsAncestry ==
  \A c \in Clients :
    pc[c] \in LockedStatements \ {"fetch_ancestor_depths"} =>
      /\ IsAncestry(captured_ancestors[c])
      /\ \A above \in captured_ancestors[c] : above.ancestor_id \notin PayloadIds(Payload(c))

THEOREM CapturedIsAlwaysAncestry == Spec => []CapturedIsAncestry
<1>1. Init => NodesAreFinite
  <2>1. Init => DOMAIN nodes = {}
    BY DEF Init
  <2> QED
    BY <2>1, FS_EmptySet DEF NodesAreFinite
<1>2. IInv /\ NodesAreFinite /\ [Next]_vars => NodesAreFinite'
  BY StepKeepsFinite
<1>3. IInv /\ NodesAreFinite => CapturedIsAncestry
  <2> SUFFICES ASSUME IInv, NodesAreFinite, NEW c \in Clients,
                      pc[c] \in LockedStatements \ {"fetch_ancestor_depths"}
               PROVE  /\ IsAncestry(captured_ancestors[c])
                      /\ \A above \in captured_ancestors[c] :
                           above.ancestor_id \notin PayloadIds(Payload(c))
    BY DEF CapturedIsAncestry
  <2>1. /\ IsFlattened(Payload(c)) /\ PassesCheck(closure, Payload(c))
        /\ captured_ancestors[c] = FetchAncestorDepths(closure, Payload(c).root)
    BY DEF IInv, ClientInv, KnowsRequest, ReadsHold, AncestorsStillTrue
  <2>2. Payload(c).root \in NodeIds
    BY <2>1, PayloadShape
  <2>3. nodes \in NodeTables /\ closure \in SUBSET ClosureRows /\ Agrees(nodes, closure)
    BY DEF IInv, TypeOK, RepresentationsAgree
  <2>4. IsAncestry(FetchAncestorDepths(closure, Payload(c).root))
    BY <2>2, <2>3, AboveIsAncestry DEF NodesAreFinite
  <2> QED
    BY <2>1, <2>4 DEF PassesCheck
<1> QED
  BY <1>1, <1>2, <1>3, InvariantHolds, PTL DEF Spec

-----------------------------------------------------------------------------
(* What the tables say is what the forest of the store says. *)

(***************************************************************************)
(* The closure rows under some ids lead to what hangs from them, and to    *)
(* nothing else.                                                           *)
(***************************************************************************)
LEMMA DescendantsAreFetched ==
  ASSUME NEW N \in NodeTables, NEW C \in SUBSET ClosureRows, Agrees(N, C),
         NEW ids \in SUBSET NodeIds
  PROVE  Store!Descendants(N, ids) = FetchDescendantIds(C, ids)
<1> DEFINE F == FetchDescendantIds(C, ids)
<1>1. \A row \in C : /\ row = ClosureRow(row.ancestor_id, row.descendant_id, row.depth)
                     /\ row.ancestor_id \in DOMAIN N /\ row.descendant_id \in DOMAIN N
                     /\ row.depth \in Nat
  BY DEF Agrees, EndsAreStored, ClosureRows, ClosureRow
<1>2. \A x, y, k : ClosureRow(x, y, k) \in C =>
        x \in DOMAIN N /\ y \in DOMAIN N /\ k \in Nat
  BY <1>1 DEF ClosureRow
<1>3. \A y : y \in F <=> \E x \in ids, k \in Nat : ClosureRow(x, y, k) \in C
  <2>1. ASSUME NEW y \in F
        PROVE  \E x \in ids, k \in Nat : ClosureRow(x, y, k) \in C
    <3>1. PICK row \in C : row.ancestor_id \in ids /\ y = row.descendant_id
      BY <2>1 DEF FetchDescendantIds
    <3> QED
      BY <3>1, <1>1
  <2>2. ASSUME NEW y, NEW x \in ids, NEW k \in Nat, ClosureRow(x, y, k) \in C
        PROVE  y \in F
    BY <2>2 DEF FetchDescendantIds, ClosureRow
  <2> QED
    BY <2>1, <2>2
<1>4. F \in SUBSET DOMAIN N
  BY <1>2, <1>3
<1>5. ids \intersect DOMAIN N \subseteq F
  BY <1>3 DEF Agrees, SelfRowsAgree
<1>6. Store!IsClosedDownward(N, F)
  <2>1. ASSUME NEW id \in DOMAIN N, N[id].parent_id \in F
        PROVE  id \in F
    <3>1. PICK x \in ids, k \in Nat : ClosureRow(x, N[id].parent_id, k) \in C
      BY <2>1, <1>3
    <3>2. ClosureRow(x, id, k + 1) \in C
      BY <3>1 DEF Agrees, RowsReachChildren, ClosureRow
    <3> QED
      BY <3>2, <1>3
  <2> QED
    BY <2>1 DEF Store!IsClosedDownward
<1>7. ASSUME NEW U \in SUBSET DOMAIN N, ids \intersect DOMAIN N \subseteq U,
             Store!IsClosedDownward(N, U)
      PROVE  F \subseteq U
  <2> DEFINE T == {n \in Nat : \A x \in ids, y \in DOMAIN N : ClosureRow(x, y, n) \in C => y \in U}
  <2>1. 0 \in T
    <3>1. \A x \in ids, y \in DOMAIN N : ClosureRow(x, y, 0) \in C => x = y
      BY DEF Agrees, SelfRowsAgree, ClosureRow
    <3> QED
      BY <3>1, <1>7
  <2>2. \A n \in T : n + 1 \in T
    <3>1. ASSUME NEW n \in T, NEW x \in ids, NEW y \in DOMAIN N, ClosureRow(x, y, n + 1) \in C
          PROVE  y \in U
      <4>1. ClosureRow(x, N[y].parent_id, (n + 1) - 1) \in C
        BY <3>1 DEF Agrees, RowsGoThroughParents, ClosureRow
      <4>2. (n + 1) - 1 = n
        OBVIOUS
      <4>3. N[y].parent_id \in U
        BY <4>1, <4>2, <1>2
      <4> QED
        BY <4>3, <1>7 DEF Store!IsClosedDownward
    <3> QED
      BY <3>1
  <2>3. T = Nat
    <3> HIDE DEF T
    <3>1. T \in SUBSET Nat
      BY DEF T
    <3> QED
      BY <3>1, <2>1, <2>2, SetInduction
  <2> QED
    BY <2>3, <1>2, <1>3
<1> HIDE DEF F
<1> QED
  BY <1>4, <1>5, <1>6, <1>7 DEF F, Store!Descendants

(***************************************************************************)
(* What assemble_tree makes of the rows under a stored id is its subtree.  *)
(***************************************************************************)
LEMMA SubtreeIsAssembled ==
  ASSUME NEW N \in NodeTables, NEW C \in SUBSET ClosureRows, Agrees(N, C),
         NEW root_id \in NodeIds, root_id \in DOMAIN N
  PROVE  AssembleTree(FetchSubtreeRows(N, C, root_id)) = Store!Subtree(N, root_id)
<1> DEFINE rows == FetchSubtreeRows(N, C, root_id)
           reached == {row.id : row \in rows}
<1>1. AssembleTree(rows) =
        [root |-> root_id,
         nodes |-> [id \in reached |->
                      [type |-> N[id].type,
                       parent_id |-> IF id = root_id THEN NoParent ELSE N[id].parent_id]]]
  BY AssembledTreeIs
<1>2. reached = Store!Descendants(N, {root_id})
  <2>1. reached = FetchDescendantIds(C, {root_id})
    <3>1. \A id : id \in reached <=>
            \E row \in C : row.ancestor_id = root_id /\ row.descendant_id \in DOMAIN N
                          /\ id = row.descendant_id
      <4> DEFINE under == {row \in C : row.ancestor_id = root_id /\ row.descendant_id \in DOMAIN N}
                 as_read(row) == [id        |-> row.descendant_id,
                                  type      |-> N[row.descendant_id].type,
                                  parent_id |-> N[row.descendant_id].parent_id,
                                  depth     |-> row.depth]
      <4>1. rows = {as_read(row) : row \in under}
        BY DEF FetchSubtreeRows
      <4>2. \A row : as_read(row).id = row.descendant_id
        OBVIOUS
      <4> HIDE DEF as_read, rows
      <4>3. \A id : id \in reached <=> \E row \in under : id = row.descendant_id
        BY <4>1, <4>2
      <4> QED
        BY <4>3
    <3>2. \A id : id \in FetchDescendantIds(C, {root_id}) <=>
            \E row \in C : row.ancestor_id = root_id /\ id = row.descendant_id
      BY DEF FetchDescendantIds
    <3> QED
      BY <3>1, <3>2 DEF Agrees, EndsAreStored
  <2> QED
    BY <2>1, DescendantsAreFetched
<1>3. reached \subseteq DOMAIN N
  BY DEF FetchSubtreeRows
<1>4. \A id \in reached :
        [type |-> N[id].type, parent_id |-> IF id = root_id THEN NoParent ELSE N[id].parent_id]
          = IF id = root_id THEN [N[id] EXCEPT !.parent_id = NoParent] ELSE N[id]
  <2>1. \A id \in DOMAIN N : N[id] \in [type : NodeTypes, parent_id : ParentIds]
    BY NodeTableIs DEF NodeData
  <2>2. ASSUME NEW data \in [type : NodeTypes, parent_id : ParentIds]
        PROVE  /\ data = [type |-> data.type, parent_id |-> data.parent_id]
               /\ [data EXCEPT !.parent_id = NoParent] = [type |-> data.type, parent_id |-> NoParent]
    OBVIOUS
  <2> QED
    BY <2>1, <2>2, <1>3
<1> HIDE DEF reached, rows
<1>5. [id \in reached |->
         [type |-> N[id].type, parent_id |-> IF id = root_id THEN NoParent ELSE N[id].parent_id]]
      = [id \in Store!Descendants(N, {root_id}) |->
           IF id = root_id THEN [N[id] EXCEPT !.parent_id = NoParent] ELSE N[id]]
  BY <1>2, <1>4
<1> QED
  BY <1>1, <1>5 DEF rows, Store!Subtree

(***************************************************************************)
(* The check against the captured ancestors finds every cycle, and no      *)
(* more.                                                                   *)
(***************************************************************************)
LEMMA CheckFindsCycles ==
  ASSUME NEW N \in NodeTables, NEW C \in SUBSET ClosureRows, Agrees(N, C),
         NEW p, IsFlattened(p)
  PROVE  PassesCheck(C, p) <=> ~Store!WouldFormCycle(N, p)
<1>1. PayloadIds(p) \in SUBSET NodeIds /\ p.root \in NodeIds /\ p.root \in PayloadIds(p)
  BY DEF IsFlattened
<1>2. Store!Descendants(N, PayloadIds(p) \ {p.root})
        = FetchDescendantIds(C, PayloadIds(p) \ {p.root})
  BY <1>1, DescendantsAreFetched
<1>3. \A row \in C : /\ row = ClosureRow(row.ancestor_id, row.descendant_id, row.depth)
                     /\ row.depth \in Nat
                     /\ row.ancestor_id \in DOMAIN N
                     /\ row.depth = 0 => row.ancestor_id = row.descendant_id
  BY DEF Agrees, EndsAreStored, SelfRowsAgree, ClosureRows, ClosureRow
<1>4. \A row \in C : row.depth > 0 => row.ancestor_id /= row.descendant_id
  <2>1. ASSUME NEW row \in C, row.depth > 0, row.ancestor_id = row.descendant_id
        PROVE  FALSE
    <3>1. ClosureRow(row.ancestor_id, row.ancestor_id, 0) \in C
      BY <1>3 DEF Agrees, SelfRowsAgree
    <3>2. row = ClosureRow(row.ancestor_id, row.ancestor_id, 0)
      BY <2>1, <3>1 DEF Agrees, OneRowPerPair, ClosureRow
    <3> QED
      BY <3>2, <2>1 DEF ClosureRow
  <2> QED
    BY <2>1
<1>5. Store!WouldFormCycle(N, p) <=>
        \E row \in C : row.ancestor_id \in PayloadIds(p) \ {p.root} /\ row.descendant_id = p.root
  <2>1. Store!WouldFormCycle(N, p) <=> p.root \in FetchDescendantIds(C, PayloadIds(p) \ {p.root})
    BY <1>2 DEF Store!WouldFormCycle, Store!PayloadIds, PayloadIds
  <2> QED
    BY <2>1 DEF FetchDescendantIds
<1>6. PassesCheck(C, p) <=>
        \A row \in C : row.descendant_id = p.root /\ row.depth > 0 => row.ancestor_id \notin PayloadIds(p)
  <2>1. ASSUME NEW row \in C, row.descendant_id = p.root, row.depth > 0
        PROVE  AncestorRow(row.ancestor_id, row.depth) \in FetchAncestorDepths(C, p.root)
    BY <2>1 DEF FetchAncestorDepths
  <2>2. \A above \in FetchAncestorDepths(C, p.root) :
          \E row \in C : row.descendant_id = p.root /\ row.depth > 0
                        /\ above.ancestor_id = row.ancestor_id
    BY DEF FetchAncestorDepths, AncestorRow
  <2>3. \A row \in C : AncestorRow(row.ancestor_id, row.depth).ancestor_id = row.ancestor_id
    BY DEF AncestorRow
  <2> QED
    BY <2>1, <2>2, <2>3 DEF PassesCheck
<1> QED
  BY <1>1, <1>3, <1>4, <1>5, <1>6

(***************************************************************************)
(* The table a write leaves: untouched rows as they were, payload rows as  *)
(* upserted.                                                               *)
(***************************************************************************)
IsStoredTable(S, N, C, p) ==
  /\ S \in NodeTables
  /\ DOMAIN S = (DOMAIN N \ Touched(C, p)) \union PayloadIds(p)
  /\ \A id \in DOMAIN N \ Touched(C, p) : S[id] = N[id]
  /\ \A id \in PayloadIds(p) : S[id] = RowsUpserted(N, p)[id]

LEMMA StoredTable ==
  ASSUME NEW N \in NodeTables, NEW C \in SUBSET ClosureRows, NEW p, IsFlattened(p)
  PROVE  IsStoredTable(NodesStored(N, C, p), N, C, p)
BY NodesStoredAre DEF IsStoredTable

(***************************************************************************)
(* What is stored after a write is what the store makes of the payload.    *)
(***************************************************************************)
LEMMA StoredAsApplied ==
  ASSUME NEW N \in NodeTables, NEW C \in SUBSET ClosureRows, Agrees(N, C),
         NEW p, IsFlattened(p)
  PROVE  NodesStored(N, C, p) = Store!Apply(N, p)
<1>1. PICK S : S = NodesStored(N, C, p)
  OBVIOUS
<1>2. /\ S \in NodeTables
      /\ DOMAIN S = (DOMAIN N \ Touched(C, p)) \union PayloadIds(p)
      /\ \A id \in DOMAIN N \ Touched(C, p) : S[id] = N[id]
      /\ \A id \in PayloadIds(p) : S[id] = RowsUpserted(N, p)[id]
  <2>1. IsStoredTable(NodesStored(N, C, p), N, C, p)
    BY StoredTable
  <2> QED
    BY <1>1, <2>1 DEF IsStoredTable
<1>3. Touched(C, p) = DoomedIn(C, p) \union PayloadIds(p)
  BY TouchedRows
<1> DEFINE remaining == (DOMAIN N \ DoomedIn(C, p)) \union PayloadIds(p)
           applied(id) == IF id \notin PayloadIds(p)
                          THEN N[id]
                          ELSE [type |-> p.nodes[id].type,
                                parent_id |-> IF id /= p.root
                                              THEN p.nodes[id].parent_id
                                              ELSE IF id \in DOMAIN N THEN N[id].parent_id
                                                                      ELSE NoParent]
<1>4. DOMAIN S = remaining
  BY <1>2, <1>3
<1>5. \A id \in PayloadIds(p) : S[id] = applied(id)
  <2>1. ASSUME NEW id \in PayloadIds(p)
        PROVE  S[id] = applied(id)
    <3>1. /\ RowsUpserted(N, p)[id].type = p.nodes[id].type
          /\ RowsUpserted(N, p)[id].parent_id =
               IF id = p.root THEN FetchParentId(N, p.root) ELSE p.nodes[id].parent_id
          /\ RowsUpserted(N, p) \in NodeTables /\ id \in DOMAIN RowsUpserted(N, p)
      BY RowsUpsertedAre
    <3>2. RowsUpserted(N, p)[id] \in [type : NodeTypes, parent_id : ParentIds]
      BY <3>1, NodeTableIs DEF NodeData
    <3>3. RowsUpserted(N, p)[id] =
            [type |-> RowsUpserted(N, p)[id].type, parent_id |-> RowsUpserted(N, p)[id].parent_id]
      BY <3>2
    <3>4. FetchParentId(N, p.root) = IF p.root \in DOMAIN N THEN N[p.root].parent_id ELSE NoParent
      BY DEF FetchParentId
    <3> QED
      BY <3>1, <3>3, <3>4, <1>2
  <2> QED
    BY <2>1
<1>6. \A id \in remaining \ PayloadIds(p) : S[id] = applied(id)
  BY <1>2, <1>3
<1>7. S = [id \in DOMAIN S |-> S[id]]
  BY <1>2, NodeTableIs
<1>8. Store!Dropped(N, p) = DoomedIn(C, p)
  BY PayloadShape, DescendantsAreFetched DEF Store!Dropped, Store!PayloadIds, PayloadIds, DoomedIn
<1>9. Store!Apply(N, p) = [id \in remaining |-> applied(id)]
  BY <1>8 DEF Store!Apply, Store!PayloadIds, PayloadIds
<1>10. \A id \in remaining : S[id] = applied(id)
  BY <1>5, <1>6
<1> HIDE DEF remaining, applied
<1>11. S = [id \in remaining |-> S[id]]
  BY <1>4, <1>7
<1>12. S = [id \in remaining |-> applied(id)]
  BY <1>10, <1>11
<1> QED
  BY <1>1, <1>9, <1>12

-----------------------------------------------------------------------------
(* What clients see. *)

Shown == [c \in Clients |-> IF pc[c] \in {"rollback", "answer"} THEN answer[c] ELSE NoAnswer]

LEMMA SameApi ==
  /\ Store!NoAnswer = NoAnswer /\ Store!NoRequest = NoRequest /\ Store!Requests = Requests
  /\ Store!NotFound = NotFound /\ Store!RepeatedId = RepeatedId /\ Store!Cycle = Cycle
  /\ Store!Unavailable = Unavailable
  /\ \A tree : Store!Success(tree) = Success(tree)
BY DEF Store!NoAnswer, Store!NoRequest, Store!Requests, Store!NotFound, Store!RepeatedId,
       Store!Cycle, Store!Unavailable, Store!Success, Store!Failure, Store!NoTree,
       Store!PostRequest, Store!GetRequest, NoAnswer, NoRequest, Requests, NotFound, RepeatedId,
       Cycle, Unavailable, Success, Failure, NoTree, PostRequest, GetRequest

LEMMA ShownIs ==
  /\ DOMAIN Shown = Clients
  /\ \A c \in Clients :
       Shown[c] = IF pc[c] \in {"rollback", "answer"} THEN answer[c] ELSE NoAnswer
BY DEF Shown

(***************************************************************************)
(* A handler that goes on with its answer made, or not made yet.           *)
(***************************************************************************)
LEMMA ShownNext ==
  ASSUME TypeOK, NEW c \in Clients, NEW place, NEW reply,
         pc' = [pc EXCEPT ![c] = place], answer' = [answer EXCEPT ![c] = reply]
  PROVE  Shown' = [Shown EXCEPT ![c] =
                     IF place \in {"rollback", "answer"} THEN reply ELSE NoAnswer]
<1>1. /\ pc'[c] = place /\ answer'[c] = reply
      /\ \A d \in Clients \ {c} : pc'[d] = pc[d] /\ answer'[d] = answer[d]
  BY DEF TypeOK
<1> QED
  BY <1>1 DEF Shown

LEMMA ShownStill ==
  ASSUME TypeOK, NEW c \in Clients, NEW place,
         pc' = [pc EXCEPT ![c] = place],
         \A d \in Clients \ {c} : answer'[d] = answer[d],
         \/ pc[c] \notin {"rollback", "answer"} /\ place \notin {"rollback", "answer"}
         \/ /\ pc[c] \in {"rollback", "answer"} /\ place \in {"rollback", "answer"}
            /\ answer'[c] = answer[c]
  PROVE  Shown' = Shown
<1>1. /\ pc'[c] = place
      /\ \A d \in Clients \ {c} : pc'[d] = pc[d]
  BY DEF TypeOK
<1> QED
  BY <1>1 DEF Shown

-----------------------------------------------------------------------------
(* What the mapping needs to know besides IInv. *)

(***************************************************************************)
(* Which request a handler works on, and that it answers before it leaves. *)
(***************************************************************************)
KnowsAnswer(c) ==
  /\ pc[c] \in LockedStatements \union {"lock_writes"} =>
       \E p \in Payloads : request[c] = PostRequest(p)
  /\ pc[c] \in {"rollback", "answer"} => answer[c] /= NoAnswer
  /\ pc[c] = "commit" => answer[c] = Success(PostedTree(Payload(c)))

RInv == IInv /\ \A c \in Clients : KnowsAnswer(c)

Follows(c) == KnowsAnswer(c)' /\ [Store!Next]_(Store!vars)

LEMMA RequestsDiffer ==
  /\ NoRequest.method = "none"
  /\ \A p : PostRequest(p).method = "POST" /\ PostRequest(p).payload = p
  /\ \A id : GetRequest(id).method = "GET" /\ GetRequest(id).id = id
BY DEF NoRequest, PostRequest, GetRequest

LEMMA AnswersAreSome ==
  /\ \A reply \in Refusals : reply /= NoAnswer
  /\ \A tree : Success(tree) /= NoAnswer
<1>1. /\ NotFound.status = 404 /\ RepeatedId.status = 409 /\ Cycle.status = 409
      /\ Unavailable.status = 500 /\ NoAnswer.status = 0
      /\ \A tree : Success(tree).status = 200
  BY DEF NotFound, RepeatedId, Cycle, Unavailable, NoAnswer, Failure, Success
<1> QED
  BY <1>1 DEF Refusals

(***************************************************************************)
(* The store's operators, in the variables of the write path.              *)
(***************************************************************************)
LEMMA StoreStutters ==
  ASSUME nodes' = nodes, request' = request, Shown' = Shown
  PROVE  [Store!Next]_(Store!vars)
BY DEF Store!vars, Shown

LEMMA TellIs ==
  ASSUME NEW c \in Clients, NEW reply, Shown' = [Shown EXCEPT ![c] = reply], request' = request
  PROVE  Store!Tell(c, reply)
BY DEF Store!Tell, Shown

LEMMA WaitingIs ==
  ASSUME NEW c \in Clients, NEW method, request[c].method = method,
         pc[c] \notin {"rollback", "answer"}
  PROVE  Store!IsWaiting(c, method) /\ Shown[c] = NoAnswer
BY SameApi DEF Store!IsWaiting, Shown

(***************************************************************************)
(* The client at work is the only one whose knowledge changes.             *)
(***************************************************************************)
LEMMA OthersKnow ==
  ASSUME NEW d \in Clients, KnowsAnswer(d), Untouched(d)
  PROVE  KnowsAnswer(d)'
BY DEF KnowsAnswer, Untouched, Payload

-----------------------------------------------------------------------------
(* Each step is a step of the store, or none. *)

LEMMA ArriveFollows ==
  ASSUME RInv, NEW c \in Clients, Arrive(c)
  PROVE  Follows(c)
<1>1. TypeOK /\ pc[c] = "idle" /\ request[c] = NoRequest
  BY DEF RInv, IInv, ClientInv, KnowsRequest, Arrive, Post, Get, At
<1>2. PICK message \in Requests, place \in {"flatten_payload", "fetch_subtree_rows"} :
        /\ pc' = [pc EXCEPT ![c] = place]
        /\ request' = [request EXCEPT ![c] = message]
        /\ nodes' = nodes /\ answer' = answer
  BY DEF Arrive, Post, Get, GoTo, tables, Requests
<1>3. pc'[c] = place
  BY <1>1, <1>2 DEF TypeOK
<1>4. KnowsAnswer(c)'
  BY <1>3 DEF KnowsAnswer, LockedStatements
<1>5. Shown' = Shown
  BY <1>1, <1>2, ShownStill
<1>6. Store!Send(c)
  BY <1>1, <1>2, <1>5, SameApi DEF Store!Send, Shown
<1> QED
  BY <1>4, <1>6 DEF Follows, Store!Next

LEMMA RaiseShows ==
  ASSUME TypeOK, NEW c \in Clients, NEW reply \in Refusals, Raise(c, reply), request' = request
  PROVE  /\ Shown' = [Shown EXCEPT ![c] = reply]
         /\ KnowsAnswer(c)'
         /\ Store!Tell(c, reply)
<1>1. pc' = [pc EXCEPT ![c] = "rollback"] /\ answer' = [answer EXCEPT ![c] = reply]
  BY DEF Raise, GoTo
<1>2. Shown' = [Shown EXCEPT ![c] = reply]
  BY <1>1, ShownNext
<1>3. pc'[c] = "rollback" /\ answer'[c] = reply
  BY <1>1 DEF TypeOK
<1>4. KnowsAnswer(c)'
  BY <1>3, AnswersAreSome DEF KnowsAnswer, LockedStatements
<1> QED
  BY <1>2, <1>4, TellIs

LEMMA GetSubtreeFollows ==
  ASSUME RInv, NEW c \in Clients, GetSubtree(c)
  PROVE  Follows(c)
<1>1. TypeOK /\ RepresentationsAgree /\ pc[c] = "fetch_subtree_rows" /\ ClientInv(c)
  BY DEF RInv, IInv, GetSubtree, At
<1>2. PICK id \in NodeIds : request[c] = GetRequest(id)
  BY <1>1 DEF ClientInv, KnowsRequest
<1>3. request[c].id = id /\ request[c].method = "GET"
  BY <1>2, RequestsDiffer
<1>4. nodes \in NodeTables /\ closure \in SUBSET ClosureRows /\ Agrees(nodes, closure)
  BY <1>1 DEF TypeOK, RepresentationsAgree
<1> DEFINE rows == FetchSubtreeRows(nodes, closure, id)
<1>5. (rows = {} <=> id \notin DOMAIN nodes) /\ Assembles(rows)
  BY <1>4, SubtreeRowsAssemble
<1>6. id \in DOMAIN nodes => AssembleTree(rows) = Store!Subtree(nodes, id)
  BY <1>4, SubtreeIsAssembled
<1>7. \/ rows = {} /\ Raise(c, NotFound)
      \/ rows /= {} /\ Return(c, Success(AssembleTree(rows)))
  BY <1>3, <1>5 DEF GetSubtree
<1>8. nodes' = nodes /\ request' = request
  BY DEF GetSubtree, tables
<1> HIDE DEF rows
<1>9. Store!IsWaiting(c, "GET")
  BY <1>1, <1>3, WaitingIs
<1>10. CASE rows = {}
  <2>1. Raise(c, NotFound)
    BY <1>7, <1>10
  <2>2. KnowsAnswer(c)' /\ Store!Tell(c, NotFound)
    BY <1>1, <1>8, <2>1, RaiseShows DEF Refusals
  <2>3. (IF request[c].id \in DOMAIN nodes
         THEN Store!Success(Store!Subtree(nodes, request[c].id)) ELSE Store!NotFound) = NotFound
    BY <1>3, <1>5, <1>10, SameApi
  <2>4. Store!AnswerGet(c)
    BY <1>8, <1>9, <2>2, <2>3 DEF Store!AnswerGet, Store!Tell
  <2> QED
    BY <2>2, <2>4 DEF Follows, Store!Next
<1>11. CASE rows /= {}
  <2>1. PICK reply : reply = Success(Store!Subtree(nodes, id))
    OBVIOUS
  <2>2. pc' = [pc EXCEPT ![c] = "answer"] /\ answer' = [answer EXCEPT ![c] = reply]
    BY <1>5, <1>6, <1>7, <1>11, <2>1 DEF Return, GoTo
  <2>3. Shown' = [Shown EXCEPT ![c] = reply]
    BY <1>1, <2>2, ShownNext
  <2>4. pc'[c] = "answer" /\ answer'[c] = reply
    BY <1>1, <2>2 DEF TypeOK
  <2>5. KnowsAnswer(c)'
    BY <2>1, <2>4, AnswersAreSome DEF KnowsAnswer, LockedStatements
  <2>6. Store!Tell(c, reply)
    BY <1>8, <2>3, TellIs
  <2>7. (IF request[c].id \in DOMAIN nodes
         THEN Store!Success(Store!Subtree(nodes, request[c].id)) ELSE Store!NotFound) = reply
    BY <1>3, <1>5, <1>11, <2>1, SameApi
  <2>8. Store!AnswerGet(c)
    BY <1>8, <1>9, <2>6, <2>7 DEF Store!AnswerGet, Store!Tell
  <2> QED
    BY <2>5, <2>8 DEF Follows, Store!Next
<1> QED
  BY <1>10, <1>11

LEMMA FlattenPayloadFollows ==
  ASSUME RInv, NEW c \in Clients, FlattenPayload(c)
  PROVE  Follows(c)
<1>1. TypeOK /\ pc[c] = "flatten_payload" /\ ClientInv(c)
  BY DEF RInv, IInv, FlattenPayload, At
<1>2. PICK p \in Payloads : request[c] = PostRequest(p)
  BY <1>1 DEF ClientInv, KnowsRequest
<1>3. request[c].method = "POST" /\ request[c].payload = p /\ Payload(c) = p
  BY <1>2, RequestsDiffer DEF Payload
<1>4. nodes' = nodes /\ request' = request
  BY DEF FlattenPayload, tables
<1>5. CASE p.repeats
  <2>1. Raise(c, RepeatedId)
    BY <1>3, <1>5 DEF FlattenPayload
  <2>2. KnowsAnswer(c)' /\ Store!Tell(c, RepeatedId)
    BY <1>1, <1>4, <2>1, RaiseShows DEF Refusals
  <2>3. Store!RefusePost(c)
    BY <1>1, <1>3, <1>4, <1>5, <2>2, WaitingIs, SameApi DEF Store!RefusePost
  <2> QED
    BY <2>2, <2>3 DEF Follows, Store!Next
<1>6. CASE ~p.repeats
  <2>1. pc' = [pc EXCEPT ![c] = "lock_writes"] /\ answer' = answer
    BY <1>3, <1>6 DEF FlattenPayload, GoTo
  <2>2. Shown' = Shown
    BY <1>1, <2>1, ShownStill
  <2>3. pc'[c] = "lock_writes" /\ request'[c] = PostRequest(p)
    BY <1>1, <1>2, <1>4, <2>1 DEF TypeOK
  <2>4. KnowsAnswer(c)'
    BY <2>3 DEF KnowsAnswer, LockedStatements
  <2> QED
    BY <1>4, <2>2, <2>4, StoreStutters DEF Follows
<1> QED
  BY <1>5, <1>6

LEMMA CaptureAncestorsFollows ==
  ASSUME RInv, NEW c \in Clients, CaptureAncestors(c)
  PROVE  Follows(c)
<1>1. TypeOK /\ pc[c] = "fetch_ancestor_depths" /\ ClientInv(c) /\ KnowsAnswer(c)
  BY DEF RInv, IInv, CaptureAncestors, At
<1>2. PICK p \in Payloads : request[c] = PostRequest(p)
  BY <1>1 DEF KnowsAnswer, LockedStatements
<1>3. request[c].method = "POST" /\ request[c].payload = p /\ Payload(c) = p
  BY <1>2, RequestsDiffer DEF Payload
<1>4. IsFlattened(p) /\ writes[c] = NothingWritten
  BY <1>1, <1>3 DEF ClientInv, KnowsRequest, HasWritten, LockedStatements
<1>5. VisibleClosure(c) = closure
  BY <1>1, <1>4, NothingWrittenYet
<1>6. nodes \in NodeTables /\ closure \in SUBSET ClosureRows /\ Agrees(nodes, closure)
  BY DEF RInv, IInv, TypeOK, RepresentationsAgree
<1> DEFINE ancestors == FetchAncestorDepths(closure, p.root)
<1>7. AlreadyAbove(p, ancestors) = {} <=> ~Store!WouldFormCycle(nodes, p)
  <2>1. AlreadyAbove(p, ancestors) = {} <=> PassesCheck(closure, p)
    BY DEF AlreadyAbove, PassesCheck
  <2> QED
    BY <1>4, <1>6, <2>1, CheckFindsCycles
<1>8. /\ nodes' = nodes /\ request' = request
      /\ IF AlreadyAbove(p, ancestors) /= {}
         THEN Raise(c, Cycle)
         ELSE pc' = [pc EXCEPT ![c] = "fetch_parent_id"] /\ answer' = answer
  BY <1>3, <1>5 DEF CaptureAncestors, GoTo, tables
<1> HIDE DEF ancestors
<1>9. CASE AlreadyAbove(p, ancestors) /= {}
  <2>1. KnowsAnswer(c)' /\ Store!Tell(c, Cycle)
    BY <1>1, <1>8, <1>9, RaiseShows DEF Refusals
  <2>2. p.repeats = FALSE
    BY <1>4 DEF IsFlattened
  <2>3. Store!RefusePost(c)
    BY <1>1, <1>3, <1>7, <1>8, <1>9, <2>1, <2>2, WaitingIs, SameApi DEF Store!RefusePost
  <2> QED
    BY <2>1, <2>3 DEF Follows, Store!Next
<1>10. CASE AlreadyAbove(p, ancestors) = {}
  <2>1. pc' = [pc EXCEPT ![c] = "fetch_parent_id"] /\ answer' = answer
    BY <1>8, <1>10
  <2>2. Shown' = Shown
    BY <1>1, <2>1, ShownStill
  <2>3. pc'[c] = "fetch_parent_id" /\ request'[c] = PostRequest(p)
    BY <1>1, <1>2, <1>8, <2>1 DEF TypeOK
  <2>4. KnowsAnswer(c)'
    BY <2>3 DEF KnowsAnswer
  <2> QED
    BY <1>8, <2>2, <2>4, StoreStutters DEF Follows
<1> QED
  BY <1>9, <1>10

(***************************************************************************)
(* Going from one statement to the next before the commit shows nothing.   *)
(***************************************************************************)
LEMMA MovingOnFollows ==
  ASSUME RInv, NEW c \in Clients, pc[c] \in LockedStatements \union {"lock_writes"},
         NEW place \in LockedStatements \ {"commit"},
         pc' = [pc EXCEPT ![c] = place],
         nodes' = nodes, request' = request, answer' = answer
  PROVE  Follows(c)
<1>1. TypeOK /\ KnowsAnswer(c)
  BY DEF RInv, IInv
<1>2. /\ pc[c] \notin {"rollback", "answer"} /\ place \notin {"rollback", "answer"}
      /\ place /= "commit"
  BY DEF LockedStatements
<1>3. Shown' = Shown
  BY <1>1, <1>2, ShownStill
<1>4. pc'[c] = place /\ request'[c] = request[c]
  BY <1>1 DEF TypeOK
<1>5. KnowsAnswer(c)'
  BY <1>1, <1>2, <1>4 DEF KnowsAnswer
<1> QED
  BY <1>3, <1>5, StoreStutters DEF Follows

(***************************************************************************)
(* No statement that writes is refused, so each moves on to the next.      *)
(***************************************************************************)
LEMMA NotRefused ==
  ASSUME NEW c \in Clients, NEW w, NEW accepted, NEW place, IInv,
         WriteOrRefuse(c, w, accepted, place), Kept(c)
  PROVE  pc' = [pc EXCEPT ![c] = place] /\ answer' = answer
<1>1. CASE accepted
  BY <1>1 DEF WriteOrRefuse, GoTo
<1>2. CASE ~accepted
  <2>1. answer' = [answer EXCEPT ![c] = IntegrityRefused]
    BY <1>2 DEF WriteOrRefuse, Raise
  <2>2. answer'[c] = IntegrityRefused
    BY <2>1 DEF IInv, TypeOK
  <2>3. answer'[c] /= IntegrityRefused
    BY DEF Kept, ClientInv, AnswersRight
  <2> QED
    BY <2>2, <2>3
<1> QED
  BY <1>1, <1>2

LEMMA WriteFollows ==
  ASSUME RInv, NEW c \in Clients,
         \/ UpsertNodes(c) \/ DeleteNodes(c) \/ DeleteClosure(c) \/ InsertClosure(c)
  PROVE  Follows(c)
<1>1. IInv /\ nodes' = nodes /\ request' = request
  BY DEF RInv, UpsertNodes, DeleteNodes, DeleteClosure, InsertClosure, tables
<1>2. pc[c] \in LockedStatements
  BY DEF UpsertNodes, DeleteNodes, DeleteClosure, InsertClosure, At, LockedStatements
<1>3. PICK place \in LockedStatements \ {"commit"} :
        pc' = [pc EXCEPT ![c] = place] /\ answer' = answer
  <2>1. CASE UpsertNodes(c)
    <3>1. Kept(c)
      BY <1>1, <2>1, UpsertNodesKeeps
    <3>2. PICK w, accepted, place :
            WriteOrRefuse(c, w, accepted, place) /\ place \in {"delete_nodes", "delete_closure"}
      BY <2>1 DEF UpsertNodes
    <3> QED
      BY <1>1, <3>1, <3>2, NotRefused DEF LockedStatements
  <2>2. CASE DeleteNodes(c)
    <3>1. Kept(c)
      BY <1>1, <2>2, DeleteNodesKeeps
    <3>2. PICK w, accepted : WriteOrRefuse(c, w, accepted, "delete_closure")
      BY <2>2 DEF DeleteNodes
    <3> QED
      BY <1>1, <3>1, <3>2, NotRefused DEF LockedStatements
  <2>3. CASE DeleteClosure(c)
    BY <2>3 DEF DeleteClosure, GoTo, LockedStatements
  <2>4. CASE InsertClosure(c)
    <3>1. Kept(c)
      BY <1>1, <2>4, InsertClosureKeeps
    <3>2. PICK w, accepted : WriteOrRefuse(c, w, accepted, "read_back")
      BY <2>4 DEF InsertClosure
    <3> QED
      BY <1>1, <3>1, <3>2, NotRefused DEF LockedStatements
  <2> QED
    BY <2>1, <2>2, <2>3, <2>4
<1> QED
  BY <1>1, <1>2, <1>3, MovingOnFollows

LEMMA ReadFollows ==
  ASSUME RInv, NEW c \in Clients, LockWrites(c) \/ ReadRootParent(c) \/ ReadDoomed(c)
  PROVE  Follows(c)
<1>1. /\ pc[c] \in LockedStatements \union {"lock_writes"}
      /\ nodes' = nodes /\ request' = request /\ answer' = answer
  BY DEF LockWrites, ReadRootParent, ReadDoomed, At, tables, LockedStatements
<1>2. PICK place \in LockedStatements \ {"commit"} : pc' = [pc EXCEPT ![c] = place]
  BY DEF LockWrites, ReadRootParent, ReadDoomed, GoTo, LockedStatements
<1> QED
  BY <1>1, <1>2, MovingOnFollows

LEMMA ReadBackFollows ==
  ASSUME RInv, NEW c \in Clients, ReadBack(c)
  PROVE  Follows(c)
<1> DEFINE p == Payload(c)
           rows == FetchSubtreeRows(VisibleNodes(c), VisibleClosure(c), p.root)
<1>1. /\ IInv /\ TypeOK /\ ClientInv(c) /\ KnowsAnswer(c)
      /\ pc[c] = "read_back" /\ pc[c] \in WriteStatements
  BY DEF RInv, IInv, ReadBack, At, WriteStatements
<1>2. /\ nodes \in NodeTables /\ closure \in SUBSET ClosureRows /\ Agrees(nodes, closure)
      /\ IsFlattened(p) /\ PassesCheck(closure, p)
  BY <1>1, WriterKnows
<1>3. writes[c] = Written(RowsUpserted(nodes, p), DoomedIn(closure, p), PayloadIds(p),
                          RowsAdded(closure, p))
  BY <1>1 DEF ClientInv, HasWritten
<1>4. /\ VisibleNodes(c) = NodesStored(nodes, closure, p)
      /\ VisibleClosure(c) = ClosureStored(closure, p)
  BY <1>3, AllWritten DEF ClosureStored
<1>5. rows /= {} /\ Assembles(rows) /\ AssembleTree(rows) = PostedTree(p)
  BY <1>2, <1>4, PostedIsReadBack
<1>6. /\ answer' = [answer EXCEPT ![c] = Success(PostedTree(p))]
      /\ pc' = [pc EXCEPT ![c] = "commit"] /\ nodes' = nodes /\ request' = request
  BY <1>5 DEF ReadBack, GoTo, tables
<1> HIDE DEF rows
<1>7. /\ pc'[c] = "commit" /\ answer'[c] = Success(PostedTree(p)) /\ request'[c] = request[c]
      /\ \A d \in Clients \ {c} : answer'[d] = answer[d]
  BY <1>1, <1>6 DEF TypeOK
<1>8. Shown' = Shown
  BY <1>1, <1>6, <1>7, ShownStill
<1>9. KnowsAnswer(c)'
  BY <1>1, <1>7 DEF KnowsAnswer, Payload, LockedStatements
<1> QED
  BY <1>6, <1>8, <1>9, StoreStutters DEF Follows

(***************************************************************************)
(* The one step that changes the forest, whatever its client is told.      *)
(***************************************************************************)
LEMMA PublishApplies ==
  ASSUME RInv, NEW c \in Clients, pc[c] = "commit", Publish(c)
  PROVE  /\ Store!ApplyPost(c)
         /\ Store!Success(Store!Subtree(nodes', request[c].payload.root)) = answer[c]
<1>1. IInv /\ TypeOK /\ ClientInv(c) /\ KnowsAnswer(c) /\ pc[c] \in WriteStatements
  BY DEF RInv, IInv, WriteStatements
<1>2. PICK p \in Payloads : request[c] = PostRequest(p)
  BY <1>1 DEF KnowsAnswer, LockedStatements
<1>3. request[c].method = "POST" /\ request[c].payload = p /\ Payload(c) = p
  BY <1>2, RequestsDiffer DEF Payload
<1>4. /\ nodes \in NodeTables /\ closure \in SUBSET ClosureRows /\ Agrees(nodes, closure)
      /\ IsFlattened(p) /\ PassesCheck(closure, p)
  BY <1>1, <1>3, WriterKnows
<1>5. writes[c] = Written(RowsUpserted(nodes, p), DoomedIn(closure, p), PayloadIds(p),
                          RowsAdded(closure, p))
  BY <1>1, <1>3 DEF ClientInv, HasWritten
<1>6. nodes' = NodesStored(nodes, closure, p)
  BY <1>5, AllWritten DEF Publish
<1>7. nodes' = Store!Apply(nodes, p) /\ ~Store!WouldFormCycle(nodes, p) /\ p.repeats = FALSE
  BY <1>4, <1>6, StoredAsApplied, CheckFindsCycles DEF IsFlattened
<1>8. Store!IsWaiting(c, "POST")
  BY <1>3, WaitingIs
<1>9. Store!ApplyPost(c)
  BY <1>3, <1>7, <1>8 DEF Store!ApplyPost
<1>10. Store!Subtree(nodes', p.root) = PostedTree(p)
  <2>1. PICK N : N = NodesStored(nodes, closure, p)
    OBVIOUS
  <2>2. PICK C : C = ClosureStored(closure, p)
    OBVIOUS
  <2>3. N \in NodeTables /\ C \in SUBSET ClosureRows /\ Agrees(N, C)
    BY <1>4, <2>1, <2>2, StoreKeepsAgreement
  <2>4. p.root \in NodeIds /\ p.root \in DOMAIN N
    <3>1. IsStoredTable(N, nodes, closure, p)
      BY <1>4, <2>1, StoredTable
    <3>2. p.root \in PayloadIds(p) /\ PayloadIds(p) \subseteq NodeIds
      BY <1>4, PayloadShape
    <3> QED
      BY <3>1, <3>2 DEF IsStoredTable
  <2>5. AssembleTree(FetchSubtreeRows(N, C, p.root)) = Store!Subtree(N, p.root)
    BY <2>3, <2>4, SubtreeIsAssembled
  <2>6. AssembleTree(FetchSubtreeRows(N, C, p.root)) = PostedTree(p)
    BY <1>4, <2>1, <2>2, PostedIsReadBack
  <2> QED
    BY <1>6, <2>1, <2>5, <2>6
<1>11. answer[c] = Success(PostedTree(p))
  BY <1>1, <1>3 DEF KnowsAnswer
<1> QED
  BY <1>3, <1>9, <1>10, <1>11, SameApi

LEMMA CommitFollows ==
  ASSUME RInv, NEW c \in Clients, Commit(c)
  PROVE  Follows(c)
<1>1. TypeOK /\ KnowsAnswer(c) /\ pc[c] = "commit" /\ Publish(c)
  BY DEF RInv, IInv, Commit, At
<1>2. pc' = [pc EXCEPT ![c] = "answer"] /\ request' = request /\ answer' = answer
  BY DEF Commit, GoTo
<1>3. PICK reply : reply = answer[c]
  OBVIOUS
<1>4. pc'[c] = "answer" /\ answer' = [answer EXCEPT ![c] = reply]
  BY <1>1, <1>2, <1>3 DEF TypeOK
<1>5. Store!Tell(c, reply)
  <2>1. Shown' = [Shown EXCEPT ![c] = reply]
    <3>1. TypeOK
      BY <1>1
    <3>2. pc' = [pc EXCEPT ![c] = "answer"] /\ answer' = [answer EXCEPT ![c] = reply]
      BY <1>2, <1>4
    <3>3. Shown' = [Shown EXCEPT ![c] =
                      IF "answer" \in {"rollback", "answer"} THEN reply ELSE NoAnswer]
      BY <3>1, <3>2, ShownNext
    <3> QED
      BY <3>3
  <2> QED
    BY <1>2, <2>1, TellIs
<1>6. /\ Store!ApplyPost(c)
      /\ Store!Success(Store!Subtree(nodes', request[c].payload.root)) = reply
  BY <1>1, <1>3, PublishApplies
<1>7. Store!StorePost(c)
  BY <1>5, <1>6 DEF Store!StorePost, Store!Tell
<1>8. KnowsAnswer(c)'
  BY <1>1, <1>2, <1>4, AnswersAreSome DEF KnowsAnswer, LockedStatements
<1> QED
  BY <1>7, <1>8 DEF Follows, Store!Next

LEMMA CommitInDoubtFollows ==
  ASSUME RInv, NEW c \in Clients, CommitInDoubt(c)
  PROVE  Follows(c)
<1>1. TypeOK /\ pc[c] = "commit" /\ Publish(c) /\ Raise(c, Unavailable) /\ request' = request
  BY DEF RInv, IInv, CommitInDoubt, At
<1>2. KnowsAnswer(c)' /\ Store!Tell(c, Unavailable)
  BY <1>1, RaiseShows DEF Refusals
<1>3. Store!LeavePostInDoubt(c)
  BY <1>1, <1>2, PublishApplies, SameApi DEF Store!LeavePostInDoubt
<1> QED
  BY <1>2, <1>3 DEF Follows, Store!Next

LEMMA FailFollows ==
  ASSUME RInv, NEW c \in Clients, FailStatement(c) \/ LoseConnection(c)
  PROVE  Follows(c)
<1>1. /\ TypeOK /\ ClientInv(c) /\ KnowsAnswer(c) /\ pc[c] \in Statements
      /\ Raise(c, Unavailable) /\ nodes' = nodes /\ request' = request
  BY DEF RInv, IInv, FailStatement, LoseConnection, tables
<1>2. request[c] /= NoRequest
  <2>1. CASE pc[c] = "fetch_subtree_rows"
    BY <1>1, <2>1, RequestsDiffer DEF ClientInv, KnowsRequest
  <2>2. CASE pc[c] \in LockedStatements \union {"lock_writes"}
    BY <1>1, <2>2, RequestsDiffer DEF KnowsAnswer
  <2> QED
    BY <1>1, <2>1, <2>2 DEF Statements
<1>3. KnowsAnswer(c)' /\ Store!Tell(c, Unavailable)
  BY <1>1, RaiseShows DEF Refusals
<1>4. pc[c] \notin {"rollback", "answer"}
  BY <1>1 DEF Statements, LockedStatements
<1>5. Shown[c] = NoAnswer
  BY <1>4, WaitingIs
<1>6. Store!FailRequest(c)
  BY <1>1, <1>2, <1>3, <1>5, SameApi DEF Store!FailRequest, Shown
<1> QED
  BY <1>3, <1>6 DEF Follows, Store!Next

LEMMA RollbackFollows ==
  ASSUME RInv, NEW c \in Clients, Rollback(c)
  PROVE  Follows(c)
<1>1. TypeOK /\ KnowsAnswer(c) /\ pc[c] = "rollback"
  BY DEF RInv, IInv, Rollback, At
<1>2. /\ pc' = [pc EXCEPT ![c] = "answer"]
      /\ nodes' = nodes /\ request' = request /\ answer' = answer
  BY DEF Rollback, GoTo, tables
<1>3. Shown' = Shown
  BY <1>1, <1>2, ShownStill
<1>4. pc'[c] = "answer"
  BY <1>1, <1>2 DEF TypeOK
<1>5. KnowsAnswer(c)'
  BY <1>1, <1>2, <1>4 DEF KnowsAnswer, LockedStatements
<1> QED
  BY <1>2, <1>3, <1>5, StoreStutters DEF Follows

LEMMA RespondFollows ==
  ASSUME RInv, NEW c \in Clients, Respond(c)
  PROVE  Follows(c)
<1>1. TypeOK /\ KnowsAnswer(c) /\ pc[c] = "answer"
  BY DEF RInv, IInv, Respond, At
<1>2. /\ pc' = [pc EXCEPT ![c] = "idle"] /\ answer' = [answer EXCEPT ![c] = NoAnswer]
      /\ request' = [request EXCEPT ![c] = NoRequest] /\ nodes' = nodes
  BY DEF Respond, GoTo, tables
<1>3. Shown' = [Shown EXCEPT ![c] = NoAnswer]
  BY <1>1, <1>2, ShownNext
<1>4. Shown[c] /= NoAnswer
  BY <1>1, ShownIs DEF KnowsAnswer
<1>5. Store!Receive(c)
  BY <1>2, <1>3, <1>4, SameApi DEF Store!Receive, Shown
<1>6. pc'[c] = "idle"
  BY <1>1, <1>2 DEF TypeOK
<1>7. KnowsAnswer(c)'
  BY <1>6 DEF KnowsAnswer, LockedStatements
<1> QED
  BY <1>5, <1>7 DEF Follows, Store!Next

LEMMA CrashFollows ==
  ASSUME RInv, ServerCrash
  PROVE  [Store!Next]_(Store!vars) /\ \A c \in Clients : KnowsAnswer(c)'
<1>1. /\ pc' = [c \in Clients |-> "idle"] /\ request' = [c \in Clients |-> NoRequest]
      /\ answer' = [c \in Clients |-> NoAnswer] /\ nodes' = nodes
  BY DEF ServerCrash, tables
<1>2. Shown' = [c \in Clients |-> NoAnswer]
  BY <1>1 DEF Shown
<1>3. Store!Crash
  BY <1>1, <1>2, SameApi DEF Store!Crash, Shown
<1>4. \A c \in Clients : KnowsAnswer(c)'
  BY <1>1 DEF KnowsAnswer, LockedStatements
<1> QED
  BY <1>3, <1>4 DEF Store!Next

-----------------------------------------------------------------------------

LEMMA StepFollows ==
  ASSUME RInv, NEW c \in Clients, Arrive(c) \/ Handle(c) \/ GoWrong(c)
  PROVE  [Store!Next]_(Store!vars) /\ \A d \in Clients : KnowsAnswer(d)'
<1>1. Follows(c)
  <2>1. CASE Arrive(c)
    BY <2>1, ArriveFollows
  <2>2. CASE Handle(c)
    BY <2>2, GetSubtreeFollows, FlattenPayloadFollows, CaptureAncestorsFollows, ReadFollows,
       WriteFollows, ReadBackFollows, CommitFollows, RollbackFollows, RespondFollows DEF Handle
  <2>3. CASE GoWrong(c)
    BY <2>3, CommitInDoubtFollows, FailFollows DEF GoWrong
  <2> QED
    BY <2>1, <2>2, <2>3
<1>2. ASSUME NEW d \in Clients \ {c} PROVE KnowsAnswer(d)'
  BY OthersUntouched, OthersKnow DEF RInv
<1> QED
  BY <1>1, <1>2 DEF Follows

LEMMA NextFollows == RInv /\ [Next]_vars => RInv' /\ [Store!Next]_(Store!vars)
<1> SUFFICES ASSUME RInv, [Next]_vars
             PROVE  RInv' /\ [Store!Next]_(Store!vars)
  OBVIOUS
<1>1. IInv'
  BY NextKeeps DEF RInv
<1>2. CASE UNCHANGED vars
  <2>1. /\ nodes' = nodes /\ request' = request /\ pc' = pc /\ answer' = answer
    BY <1>2 DEF vars
  <2>2. Shown' = Shown
    BY <2>1 DEF Shown
  <2>3. \A c \in Clients : KnowsAnswer(c)'
    BY <2>1 DEF RInv, KnowsAnswer, Payload
  <2> QED
    BY <1>1, <2>1, <2>2, <2>3, StoreStutters DEF RInv
<1>3. CASE Next
  BY <1>1, <1>3, StepFollows, CrashFollows DEF RInv, Next
<1> QED
  BY <1>2, <1>3

LEMMA InitFollows == Init => RInv /\ Store!Init
<1> SUFFICES ASSUME Init PROVE RInv /\ Store!Init
  OBVIOUS
<1>1. /\ nodes = [id \in {} |-> NoParent] /\ pc = [c \in Clients |-> "idle"]
      /\ request = [c \in Clients |-> NoRequest] /\ answer = [c \in Clients |-> NoAnswer]
  BY DEF Init
<1>2. Shown = [c \in Clients |-> NoAnswer]
  BY <1>1 DEF Shown
<1>3. Store!Init
  BY <1>1, <1>2, SameApi DEF Store!Init, Shown
<1>4. \A c \in Clients : KnowsAnswer(c)
  BY <1>1 DEF KnowsAnswer, LockedStatements
<1> QED
  BY <1>3, <1>4, InitEstablishes DEF RInv

(***************************************************************************)
(* The write path implements the store: for any clients, payloads and      *)
(* order of statements, failures and crashes, what clients see of the      *)
(* concurrent handlers is one forest on which each request takes effect in *)
(* one step between its arrival and its answer.                            *)
(***************************************************************************)
THEOREM WritePathImplementsStore == Spec => ImplementsStore
BY InitFollows, NextFollows, PTL DEF Spec, ImplementsStore, Store!Spec

(***************************************************************************)
(* Where the tables agree, the parents form a forest.                      *)
(***************************************************************************)
LEMMA AgreeingTablesAreForests ==
  ASSUME nodes \in NodeTables, closure \in SUBSET ClosureRows, Agrees(nodes, closure)
  PROVE  Store!StoredIsForest
<1> SUFFICES ASSUME NEW id \in DOMAIN nodes
             PROVE  /\ nodes[id].parent_id \in DOMAIN nodes \union {NoParent}
                    /\ nodes[id].parent_id \notin Store!Descendants(nodes, {id})
  BY DEF Store!StoredIsForest
<1>1. nodes[id].parent_id \in DOMAIN nodes \union {NoParent} /\ id \in NodeIds
  BY NodeTableIs DEF Agrees, ParentsAreStored
<1>2. Store!Descendants(nodes, {id}) = FetchDescendantIds(closure, {id})
  BY <1>1, DescendantsAreFetched
<1>3. ASSUME nodes[id].parent_id \in FetchDescendantIds(closure, {id})
      PROVE  FALSE
  <2>1. PICK row \in closure : row.ancestor_id = id /\ row.descendant_id = nodes[id].parent_id
    BY <1>3 DEF FetchDescendantIds
  <2>2. row.depth \in Nat
    BY <2>1 DEF ClosureRows, ClosureRow
  <2>3. ClosureRow(id, id, row.depth + 1) \in closure
    BY <2>1 DEF Agrees, RowsReachChildren
  <2>4. ClosureRow(id, id, 0) \in closure
    BY DEF Agrees, SelfRowsAgree
  <2>5. ClosureRow(id, id, row.depth + 1) = ClosureRow(id, id, 0)
    BY <2>3, <2>4 DEF Agrees, OneRowPerPair, ClosureRow
  <2> QED
    BY <2>2, <2>5 DEF ClosureRow
<1> QED
  BY <1>1, <1>2, <1>3

(***************************************************************************)
(* What the table nodes holds is a forest after every commit: no order of  *)
(* concurrent requests, failures and crashes ever leaves a cycle or a      *)
(* parent that is not stored.                                              *)
(***************************************************************************)
THEOREM CommittedIsForest == Spec => []Store!StoredIsForest
<1>1. IInv => Store!StoredIsForest
  BY AgreeingTablesAreForests DEF IInv, TypeOK, RepresentationsAgree
<1> QED
  BY <1>1, InvariantHolds, PTL

-----------------------------------------------------------------------------
(* What the store promises, the service keeps. *)

(***************************************************************************)
(* The theorems about the store, in the variables of the write path.       *)
(***************************************************************************)
Promises == INSTANCE HierarchyStoreProofs WITH stored <- nodes, answer <- Shown

LEMMA SameForestOperators ==
  /\ \A p : Store!PayloadIds(p) = Promises!PayloadIds(p)
  /\ \A p : Store!PostedTree(p) = Promises!PostedTree(p)
  /\ \A S, ids : Store!Descendants(S, ids) = Promises!Descendants(S, ids)
  /\ \A S, root : Store!Subtree(S, root) = Promises!Subtree(S, root)
  /\ \A S, p : Store!WouldFormCycle(S, p) = Promises!WouldFormCycle(S, p)
  /\ \A S, p : Store!Apply(S, p) = Promises!Apply(S, p)
<1> USE DEF Store!PayloadIds, Promises!PayloadIds
<1>1. \A S, ids : Store!Descendants(S, ids) = Promises!Descendants(S, ids)
  BY DEF Store!Descendants, Promises!Descendants, Store!IsClosedDownward, Promises!IsClosedDownward
<1>2. \A S, root : Store!Subtree(S, root) = Promises!Subtree(S, root)
  BY <1>1 DEF Store!Subtree, Promises!Subtree
<1>3. \A S, p : Store!WouldFormCycle(S, p) = Promises!WouldFormCycle(S, p)
  BY <1>1 DEF Store!WouldFormCycle, Promises!WouldFormCycle
<1>4. \A S, p : Store!Apply(S, p) = Promises!Apply(S, p)
  BY <1>1 DEF Store!Apply, Promises!Apply, Store!Dropped, Promises!Dropped
<1>5. \A p : Store!PostedTree(p) = Promises!PostedTree(p)
  BY DEF Store!PostedTree, Promises!PostedTree
<1> QED
  BY <1>1, <1>2, <1>3, <1>4, <1>5

LEMMA SameMessages ==
  /\ Store!NoRequest = Promises!NoRequest
  /\ Store!Requests = Promises!Requests
  /\ Store!NoAnswer = Promises!NoAnswer
  /\ Store!NotFound = Promises!NotFound
  /\ Store!RepeatedId = Promises!RepeatedId
  /\ Store!Cycle = Promises!Cycle
  /\ Store!Unavailable = Promises!Unavailable
  /\ \A tree : Store!Success(tree) = Promises!Success(tree)
BY DEF Store!NoRequest, Promises!NoRequest, Store!Requests, Promises!Requests,
       Store!PostRequest, Promises!PostRequest, Store!GetRequest, Promises!GetRequest,
       Store!NoAnswer, Promises!NoAnswer, Store!Failure, Promises!Failure,
       Store!NoTree, Promises!NoTree, Store!NotFound, Promises!NotFound,
       Store!RepeatedId, Promises!RepeatedId, Store!Cycle, Promises!Cycle,
       Store!Unavailable, Promises!Unavailable, Store!Success, Promises!Success

LEMMA SameVars == Store!vars = Promises!vars /\ (Store!vars = Promises!vars)'
BY DEF Store!vars, Promises!vars, Shown

LEMMA SameSteps ==
  /\ Store!Init => Promises!Init
  /\ Store!Next => Promises!Next
<1> USE SameForestOperators, SameMessages
    DEF Shown, Store!Tell, Promises!Tell, Store!IsWaiting, Promises!IsWaiting
<1>1. Store!Init => Promises!Init
  BY DEF Store!Init, Promises!Init
<1>2. ASSUME NEW c \in Clients, Store!Send(c) PROVE Promises!Send(c)
  BY <1>2 DEF Store!Send, Promises!Send
<1>3. ASSUME NEW c \in Clients, Store!RefusePost(c) PROVE Promises!RefusePost(c)
  BY <1>3 DEF Store!RefusePost, Promises!RefusePost
<1>4. ASSUME NEW c \in Clients, Store!ApplyPost(c) PROVE Promises!ApplyPost(c)
  BY <1>4 DEF Store!ApplyPost, Promises!ApplyPost
<1>5. ASSUME NEW c \in Clients, Store!StorePost(c) PROVE Promises!StorePost(c)
  BY <1>4, <1>5 DEF Store!StorePost, Promises!StorePost
<1>6. ASSUME NEW c \in Clients, Store!LeavePostInDoubt(c) PROVE Promises!LeavePostInDoubt(c)
  BY <1>4, <1>6 DEF Store!LeavePostInDoubt, Promises!LeavePostInDoubt
<1>7. ASSUME NEW c \in Clients, Store!AnswerGet(c) PROVE Promises!AnswerGet(c)
  BY <1>7 DEF Store!AnswerGet, Promises!AnswerGet
<1>8. ASSUME NEW c \in Clients, Store!FailRequest(c) PROVE Promises!FailRequest(c)
  BY <1>8 DEF Store!FailRequest, Promises!FailRequest
<1>9. ASSUME NEW c \in Clients, Store!Receive(c) PROVE Promises!Receive(c)
  BY <1>9 DEF Store!Receive, Promises!Receive
<1>10. ASSUME Store!Crash PROVE Promises!Crash
  BY <1>10 DEF Store!Crash, Promises!Crash
<1>11. Store!Next => Promises!Next
  BY <1>2, <1>3, <1>5, <1>6, <1>7, <1>8, <1>9, <1>10 DEF Store!Next, Promises!Next
<1> QED
  BY <1>1, <1>11

LEMMA PromisedSpec == Spec => Promises!Spec
<1>1. [Store!Next]_(Store!vars) => [Promises!Next]_(Promises!vars)
  BY SameSteps, SameVars
<1> QED
  BY <1>1, SameSteps, WritePathImplementsStore, PTL DEF ImplementsStore, Store!Spec, Promises!Spec

LEMMA AssumptionsHold ==
  /\ NodeIds \subseteq Int /\ NoParent \notin NodeIds
  /\ \A p \in Payloads : p.repeats \/ Promises!IsFlattened(p)
<1>1. \A S : IsFiniteSet(S) => Promises!IsFiniteSet(S)
  BY DEF IsFiniteSet, Promises!IsFiniteSet
<1>2. ASSUME NEW p, IsFlattened(p) PROVE Promises!IsFlattened(p)
  BY <1>1, <1>2 DEF IsFlattened, Promises!IsFlattened, PayloadIds, Promises!PayloadIds,
              ParentIds, Promises!ParentIds
<1> QED
  BY <1>2, NodeIdsAssumption, NoParentAssumption, PayloadsAssumption

(***************************************************************************)
(* A POST that is committed, confirmed or not, leaves exactly the posted   *)
(* hierarchy under its root, and of the rest it takes away what was below  *)
(* a node it mentions and nothing more: the docstring of store_hierarchy,  *)
(* of the statements it makes.                                             *)
(***************************************************************************)
THEOREM ServiceStoresWhatIsPosted == Spec => Store!PostedIsStored
<1>1. \A c : Promises!StoresThePosted(c) => Store!StoresThePosted(c)
  BY SameForestOperators DEF Promises!StoresThePosted, Store!StoresThePosted, Shown
<1>2. [\A c \in Clients : Promises!StoresThePosted(c)]_(Promises!vars)
      => [\A c \in Clients : Store!StoresThePosted(c)]_(Store!vars)
  BY <1>1, SameVars
<1>3. Promises!Spec => Promises!PostedIsStored
  BY AssumptionsHold, Promises!PostsDoAsPromised, Zenon
<1> QED
  BY <1>2, <1>3, PromisedSpec, PTL
     DEF Promises!PostedIsStored, Store!PostedIsStored

(***************************************************************************)
(* Whoever sends back what it read, or sends again what it got no          *)
(* confirmation of, changes nothing and is not refused, whatever others    *)
(* have in flight.                                                         *)
(***************************************************************************)
THEOREM ServiceIgnoresReposts == Spec => Store!RepostChangesNothing
<1>1. \A c : Promises!IgnoresTheReposted(c) => Store!IgnoresTheReposted(c)
  BY SameForestOperators, SameMessages
     DEF Promises!IgnoresTheReposted, Store!IgnoresTheReposted, Shown
<1>2. [\A c \in Clients : Promises!IgnoresTheReposted(c)]_(Promises!vars)
      => [\A c \in Clients : Store!IgnoresTheReposted(c)]_(Store!vars)
  BY <1>1, SameVars
<1>3. Promises!Spec => Promises!RepostChangesNothing
  BY AssumptionsHold, Promises!RepostsChangeNothing, Zenon
<1> QED
  BY <1>2, <1>3, PromisedSpec, PTL
     DEF Promises!RepostChangesNothing, Store!RepostChangesNothing

=============================================================================

------------------------------ MODULE WritePath ------------------------------
(***************************************************************************)
(* store_hierarchy and get_hierarchy over PostgresHierarchyRepository, one *)
(* action per statement, for clients whose requests interleave.            *)
(*                                                                         *)
(* Every statement is an await, so other requests run between any two of   *)
(* them.  The isolation level is READ COMMITTED: a statement sees what is  *)
(* committed when it starts, and what its own transaction has written.     *)
(* What a transaction has written is kept apart, in writes[c], until it    *)
(* commits; the tables hold what is committed.                             *)
(***************************************************************************)
EXTENDS HierarchyApi, PostgresTables

CONSTANT NoOne

ASSUME NoOneAssumption == NoOne \notin Clients

VARIABLES
  nodes,               \* the committed table nodes
  closure,             \* the committed table node_closure
  lock,                \* who holds the advisory lock HIERARCHY_WRITE_LOCK
  pc,                  \* the statement the handler of c awaits next
  request,             \* the request of c being handled
  answer,              \* what its handler will answer
  captured_ancestors,  \* the locals of store_hierarchy
  root_parent_id,
  doomed,
  writes               \* what the transaction of c has written so far

tables == <<nodes, closure>>
locals == <<captured_ancestors, root_parent_id, doomed>>
vars == <<nodes, closure, lock, pc, request, answer,
          captured_ancestors, root_parent_id, doomed, writes>>

-----------------------------------------------------------------------------
(* Transactions. *)

(***************************************************************************)
(* put: the nodes upserted; gone: the nodes deleted; cut: the descendants  *)
(* whose closure rows were deleted; add: the closure rows inserted since.  *)
(***************************************************************************)
NothingWritten == [put |-> [id \in {} |-> NoParent], gone |-> {}, cut |-> {}, add |-> {}]

WriteSets == [put : NodeTables, gone : SUBSET NodeIds, cut : SUBSET NodeIds,
              add : SUBSET ClosureRows]

NodesAfter(w) == WithUpserted(WithoutNodes(nodes, w.gone), w.put)

ClosureAfter(w) == WithoutDescendants(WithoutRowsOf(closure, w.gone), w.cut) \union w.add

VisibleNodes(c) == NodesAfter(writes[c])

VisibleClosure(c) == ClosureAfter(writes[c])

-----------------------------------------------------------------------------

(***************************************************************************)
(* The statements between taking the lock and releasing it.                *)
(***************************************************************************)
LockedStatements ==
  {"fetch_ancestor_depths", "fetch_parent_id", "fetch_descendant_ids", "upsert_nodes",
   "delete_nodes", "delete_closure", "insert_closure", "read_back", "commit"}

Statements == LockedStatements \union {"lock_writes", "fetch_subtree_rows"}

TypeOK ==
  /\ nodes \in NodeTables
  /\ closure \subseteq ClosureRows
  /\ lock \in Clients \union {NoOne}
  /\ pc \in [Clients -> Statements \union {"idle", "flatten_payload", "rollback", "answer"}]
  /\ request \in [Clients -> Requests \union {NoRequest}]
  /\ answer \in [Clients -> Answers \union {NoAnswer}]
  /\ captured_ancestors \in [Clients -> SUBSET AncestorRows]
  /\ root_parent_id \in [Clients -> ParentIds]
  /\ doomed \in [Clients -> SUBSET NodeIds]
  /\ writes \in [Clients -> WriteSets]

Init ==
  /\ nodes = [id \in {} |-> NoParent]
  /\ closure = {}
  /\ lock = NoOne
  /\ pc = [c \in Clients |-> "idle"]
  /\ request = [c \in Clients |-> NoRequest]
  /\ answer = [c \in Clients |-> NoAnswer]
  /\ captured_ancestors = [c \in Clients |-> {}]
  /\ root_parent_id = [c \in Clients |-> NoParent]
  /\ doomed = [c \in Clients |-> {}]
  /\ writes = [c \in Clients |-> NothingWritten]

-----------------------------------------------------------------------------
(* How a handler moves on. *)

At(c, statement) == pc[c] = statement

GoTo(c, statement) == pc' = [pc EXCEPT ![c] = statement]

Write(c, w) == writes' = [writes EXCEPT ![c] = w]

(***************************************************************************)
(* An exception leaves store_hierarchy or get_hierarchy: get_session       *)
(* closes the session, and the exception handlers make the answer.         *)
(***************************************************************************)
Raise(c, reply) ==
  /\ GoTo(c, "rollback")
  /\ answer' = [answer EXCEPT ![c] = reply]

Return(c, reply) ==
  /\ GoTo(c, "answer")
  /\ answer' = [answer EXCEPT ![c] = reply]

Release(c) == lock' = IF lock = c THEN NoOne ELSE lock

(***************************************************************************)
(* The transaction of c and the locals of its handler are gone.            *)
(***************************************************************************)
Forget(c) ==
  /\ captured_ancestors' = [captured_ancestors EXCEPT ![c] = {}]
  /\ root_parent_id' = [root_parent_id EXCEPT ![c] = NoParent]
  /\ doomed' = [doomed EXCEPT ![c] = {}]
  /\ Write(c, NothingWritten)

-----------------------------------------------------------------------------
(* The requests. *)

Post(c, p) ==
  /\ At(c, "idle")
  /\ request' = [request EXCEPT ![c] = PostRequest(p)]
  /\ GoTo(c, "flatten_payload")
  /\ UNCHANGED <<tables, lock, answer, locals, writes>>

Get(c, id) ==
  /\ At(c, "idle")
  /\ request' = [request EXCEPT ![c] = GetRequest(id)]
  /\ GoTo(c, "fetch_subtree_rows")
  /\ UNCHANGED <<tables, lock, answer, locals, writes>>

GetSubtreeOrNone(c) ==  \* mistake: None is answered 200
  /\ At(c, "fetch_subtree_rows")
  /\ LET rows == FetchSubtreeRows(nodes, closure, request[c].id)
     IN  Return(c, Success(IF rows = {} THEN NoTree ELSE AssembleTree(rows)))
  /\ UNCHANGED <<tables, lock, request, locals, writes>>

GetSubtree(c) ==
  /\ At(c, "fetch_subtree_rows")
  /\ LET rows == FetchSubtreeRows(nodes, closure, request[c].id)
     IN  \/ rows = {} /\ Raise(c, NotFound)
         \/ rows /= {} /\ Assembles(rows) /\ Return(c, Success(AssembleTree(rows)))
         \/ ~Assembles(rows) /\ Raise(c, Broken)
  /\ UNCHANGED <<tables, lock, request, locals, writes>>

-----------------------------------------------------------------------------
(* store_hierarchy. *)

Payload(c) == request[c].payload

FlattenPayload(c) ==
  /\ At(c, "flatten_payload")
  /\ IF Payload(c).repeats
     THEN Raise(c, RepeatedId)
     ELSE GoTo(c, "lock_writes") /\ UNCHANGED answer
  /\ UNCHANGED <<tables, lock, request, locals, writes>>

LockWritesWithoutWaiting(c) ==  \* mistake: nobody waits
  /\ At(c, "lock_writes")
  /\ lock' = c
  /\ GoTo(c, "fetch_ancestor_depths")
  /\ UNCHANGED <<tables, request, answer, locals, writes>>

LockWrites(c) ==
  /\ At(c, "lock_writes")
  /\ lock = NoOne
  /\ lock' = c
  /\ GoTo(c, "fetch_ancestor_depths")
  /\ UNCHANGED <<tables, request, answer, locals, writes>>

NoneAlreadyAbove(p, ancestors) == {}  \* mistake: no cycle check

AlreadyAbove(p, ancestors) == PayloadIds(p) \intersect {above.ancestor_id : above \in ancestors}

CaptureAncestors(c) ==
  /\ At(c, "fetch_ancestor_depths")
  /\ LET ancestors == FetchAncestorDepths(VisibleClosure(c), Payload(c).root)
     IN  /\ captured_ancestors' = [captured_ancestors EXCEPT ![c] = ancestors]
         /\ IF AlreadyAbove(Payload(c), ancestors) /= {}
            THEN Raise(c, Cycle)
            ELSE GoTo(c, "fetch_parent_id") /\ UNCHANGED answer
  /\ UNCHANGED <<tables, lock, request, root_parent_id, doomed, writes>>

ReadRootParent(c) ==
  /\ At(c, "fetch_parent_id")
  /\ root_parent_id' =
       [root_parent_id EXCEPT ![c] = FetchParentId(VisibleNodes(c), Payload(c).root)]
  /\ GoTo(c, "fetch_descendant_ids")
  /\ UNCHANGED <<tables, lock, request, answer, captured_ancestors, doomed, writes>>

DoomedByRoot(p, visible_closure) ==  \* mistake: looks below the posted root alone
  FetchDescendantIds(visible_closure, {p.root}) \ PayloadIds(p)

DoomedBy(p, visible_closure) ==
  FetchDescendantIds(visible_closure, PayloadIds(p)) \ PayloadIds(p)

ReadDoomed(c) ==
  /\ At(c, "fetch_descendant_ids")
  /\ doomed' = [doomed EXCEPT ![c] = DoomedBy(Payload(c), VisibleClosure(c))]
  /\ GoTo(c, "upsert_nodes")
  /\ UNCHANGED <<tables, lock, request, answer, captured_ancestors, root_parent_id, writes>>

(***************************************************************************)
(* A statement that writes is refused when a constraint does not hold of   *)
(* the tables as its transaction would see them.                           *)
(***************************************************************************)
WriteOrRefuse(c, w, accepted, next) ==
  IF accepted
  THEN Write(c, w) /\ GoTo(c, next) /\ UNCHANGED answer
  ELSE Raise(c, IntegrityRefused) /\ UNCHANGED writes

UpsertNodesDeletingNone(c) ==  \* mistake: what the payload dropped stays
  /\ At(c, "upsert_nodes")
  /\ LET w == [writes[c] EXCEPT !.put = NodeRows(Payload(c), root_parent_id[c])]
     IN  WriteOrRefuse(c, w, ParentsAreStored(NodesAfter(w)), "delete_closure")
  /\ UNCHANGED <<tables, lock, request, locals>>

UpsertNodes(c) ==
  /\ At(c, "upsert_nodes")
  /\ LET w == [writes[c] EXCEPT !.put = NodeRows(Payload(c), root_parent_id[c])]
     IN  WriteOrRefuse(c, w, ParentsAreStored(NodesAfter(w)),
                       IF doomed[c] /= {} THEN "delete_nodes" ELSE "delete_closure")
  /\ UNCHANGED <<tables, lock, request, locals>>

DeleteNodes(c) ==
  /\ At(c, "delete_nodes")
  /\ LET w == [writes[c] EXCEPT !.gone = doomed[c]]
     IN  WriteOrRefuse(c, w, ParentsAreStored(NodesAfter(w)), "delete_closure")
  /\ UNCHANGED <<tables, lock, request, locals>>

DeleteClosure(c) ==
  /\ At(c, "delete_closure")
  /\ Write(c, [writes[c] EXCEPT !.cut = PayloadIds(Payload(c))])
  /\ GoTo(c, "insert_closure")
  /\ UNCHANGED <<tables, lock, request, answer, locals>>

InsertClosure(c) ==
  /\ At(c, "insert_closure")
  /\ LET w == [writes[c] EXCEPT !.add = ClosureRowsOf(Payload(c), captured_ancestors[c])]
     IN  WriteOrRefuse(c, w,
                       /\ VisibleClosure(c) \intersect w.add = {}
                       /\ ClosureIsAccepted(VisibleNodes(c), ClosureAfter(w)),
                       "read_back")
  /\ UNCHANGED <<tables, lock, request, locals>>

(***************************************************************************)
(* The hierarchy is read back before the commit.  Reading none would be    *)
(* committed all the same, and fail only as a response body.               *)
(***************************************************************************)
ReadBack(c) ==
  /\ At(c, "read_back")
  /\ LET rows == FetchSubtreeRows(VisibleNodes(c), VisibleClosure(c), Payload(c).root)
     IN  IF Assembles(rows)
         THEN /\ answer' = [answer EXCEPT ![c] =
                              IF rows = {} THEN Broken ELSE Success(AssembleTree(rows))]
              /\ GoTo(c, "commit")
         ELSE Raise(c, Broken)
  /\ UNCHANGED <<tables, lock, request, locals, writes>>

Publish(c) ==
  /\ nodes' = VisibleNodes(c)
  /\ closure' = VisibleClosure(c)
  /\ Release(c)
  /\ Forget(c)

Commit(c) ==
  /\ At(c, "commit")
  /\ Publish(c)
  /\ GoTo(c, "answer")
  /\ UNCHANGED <<request, answer>>

-----------------------------------------------------------------------------
(* What can go wrong around the statements. *)

(***************************************************************************)
(* COMMIT was carried out and the connection failed before saying so.      *)
(***************************************************************************)
CommitInDoubt(c) ==
  /\ At(c, "commit")
  /\ Publish(c)
  /\ Raise(c, Unavailable)
  /\ UNCHANGED request

(***************************************************************************)
(* The server fails a statement and keeps the transaction open, aborted.   *)
(***************************************************************************)
FailStatement(c) ==
  /\ pc[c] \in Statements
  /\ Raise(c, Unavailable)
  /\ UNCHANGED <<tables, lock, request, locals, writes>>

(***************************************************************************)
(* The connection is lost: Postgres ends the transaction by itself.        *)
(***************************************************************************)
LoseConnection(c) ==
  /\ pc[c] \in Statements
  /\ Raise(c, Unavailable)
  /\ Release(c)
  /\ Forget(c)
  /\ UNCHANGED <<tables, request>>

RollbackKeepingLock(c) ==  \* mistake: a session-level advisory lock
  /\ At(c, "rollback")
  /\ Forget(c)
  /\ GoTo(c, "answer")
  /\ UNCHANGED <<tables, lock, request, answer>>

(***************************************************************************)
(* Closing the session rolls back; the advisory lock goes with it.         *)
(***************************************************************************)
Rollback(c) ==
  /\ At(c, "rollback")
  /\ Release(c)
  /\ Forget(c)
  /\ GoTo(c, "answer")
  /\ UNCHANGED <<tables, request, answer>>

Respond(c) ==
  /\ At(c, "answer")
  /\ GoTo(c, "idle")
  /\ request' = [request EXCEPT ![c] = NoRequest]
  /\ answer' = [answer EXCEPT ![c] = NoAnswer]
  /\ UNCHANGED <<tables, lock, locals, writes>>

(***************************************************************************)
(* The server process dies and is started again.                           *)
(***************************************************************************)
ServerCrash ==
  /\ lock' = NoOne
  /\ pc' = [c \in Clients |-> "idle"]
  /\ request' = [c \in Clients |-> NoRequest]
  /\ answer' = [c \in Clients |-> NoAnswer]
  /\ captured_ancestors' = [c \in Clients |-> {}]
  /\ root_parent_id' = [c \in Clients |-> NoParent]
  /\ doomed' = [c \in Clients |-> {}]
  /\ writes' = [c \in Clients |-> NothingWritten]
  /\ UNCHANGED tables

-----------------------------------------------------------------------------

Arrive(c) ==
  \/ \E p \in Payloads : Post(c, p)
  \/ \E id \in NodeIds : Get(c, id)

Handle(c) ==
  \/ GetSubtree(c)
  \/ FlattenPayload(c)
  \/ LockWrites(c)
  \/ CaptureAncestors(c)
  \/ ReadRootParent(c)
  \/ ReadDoomed(c)
  \/ UpsertNodes(c)
  \/ DeleteNodes(c)
  \/ DeleteClosure(c)
  \/ InsertClosure(c)
  \/ ReadBack(c)
  \/ Commit(c)
  \/ Rollback(c)
  \/ Respond(c)

GoWrong(c) ==
  \/ CommitInDoubt(c)
  \/ FailStatement(c)
  \/ LoseConnection(c)

Next ==
  \/ \E c \in Clients : Arrive(c) \/ Handle(c) \/ GoWrong(c)
  \/ ServerCrash

Spec == Init /\ [][Next]_vars

(***************************************************************************)
(* The event loop and Postgres carry on with every handler, and the lock   *)
(* is granted in the order it was asked for, so nobody waits while others  *)
(* pass for ever.  No request need arrive and nothing need go wrong.       *)
(***************************************************************************)
FairSpec ==
  /\ Spec
  /\ \A c \in Clients : WF_vars(Handle(c)) /\ SF_vars(LockWrites(c))

-----------------------------------------------------------------------------

(***************************************************************************)
(* "no constraint can check that the two agree -- this method is the only  *)
(* thing that keeps them consistent" (store_hierarchy's docstring): after  *)
(* every commit, whatever was interleaved with it and wherever it failed.  *)
(***************************************************************************)
RepresentationsAgree == Agrees(nodes, closure)

(***************************************************************************)
(* The committed closure is what the tests' oracle computes from the       *)
(* committed parent edges: every row they imply, and no others.            *)
(***************************************************************************)
ClosureIsTheOracles == closure = ClosureFromParentEdges(nodes)

(***************************************************************************)
(* What store_hierarchy read under the lock is still what the tables say   *)
(* for as long as it is used: "Before any read, so that everything below   *)
(* sees one unchanging stored state".                                      *)
(***************************************************************************)
AncestorsStillTrue(c) ==
  captured_ancestors[c] = FetchAncestorDepths(closure, Payload(c).root)

RootParentStillTrue(c) ==
  root_parent_id[c] = FetchParentId(nodes, Payload(c).root)

DoomedStillTrue(c) ==
  doomed[c] = DoomedBy(Payload(c), closure)

WhatWasReadStillHolds ==
  \A c \in Clients :
    /\ pc[c] \in LockedStatements \ {"fetch_ancestor_depths"} => AncestorsStillTrue(c)
    /\ pc[c] \in LockedStatements \ {"fetch_ancestor_depths", "fetch_parent_id"} =>
         RootParentStillTrue(c)
    /\ pc[c] \in LockedStatements \ {"fetch_ancestor_depths", "fetch_parent_id",
                                     "fetch_descendant_ids"} =>
         DoomedStillTrue(c)

(***************************************************************************)
(* No statement of a write is ever refused by a constraint, and no tree    *)
(* fails to assemble: upserting before deleting, and the cycle check, are  *)
(* enough for every payload and every order of requests.                   *)
(***************************************************************************)
NothingRefused ==
  \A c \in Clients : answer[c] \notin {IntegrityRefused, Broken}

(***************************************************************************)
(* A POST that is answered 200 is answered with the hierarchy it posted:   *)
(* every node of it, in place, and nothing that was there before.          *)
(***************************************************************************)
AnsweredAsPosted ==
  \A c \in Clients :
    (request[c].method = "POST" /\ answer[c].status = 200) =>
      answer[c].tree = PostedTree(Payload(c))

(***************************************************************************)
(* Every request is answered, or dropped by a crash: a handler waiting for *)
(* the lock gets it, whatever happens to the handlers that hold it.        *)
(***************************************************************************)
EveryRequestEnds ==
  \A c \in Clients : (request[c] /= NoRequest) ~> (request[c] = NoRequest)

(***************************************************************************)
(* Clients cannot tell the service from the store of HierarchyStore: a     *)
(* POST takes effect at its COMMIT, or is refused at the cycle check; a    *)
(* GET takes effect at its one SELECT.                                     *)
(***************************************************************************)
Store == INSTANCE HierarchyStore WITH
           stored <- nodes,
           answer <- [c \in Clients |->
                        IF pc[c] \in {"rollback", "answer"} THEN answer[c] ELSE NoAnswer]

ImplementsStore == Store!Spec

=============================================================================

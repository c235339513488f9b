---------------------------- MODULE HierarchyStore ----------------------------
(***************************************************************************)
(* What the service promises: one stored forest, and every request takes   *)
(* effect on it in one step between the request and its answer.            *)
(*                                                                         *)
(* The promise of store_hierarchy's docstring is Apply: the payload is     *)
(* authoritative for everything beneath every node it mentions, its root   *)
(* stays where it hangs, and what it does not reach is left alone.         *)
(***************************************************************************)
EXTENDS HierarchyApi

VARIABLES
  stored,   \* the forest: for every stored id its type and its parent
  request,  \* request[c]: what client c is waiting for
  answer    \* answer[c]: what it will be told

vars == <<stored, request, answer>>

-----------------------------------------------------------------------------
(* The forest. *)

(***************************************************************************)
(* Everything at or below the stored nodes among `ids`: the least set that *)
(* holds them and holds every child of its members.                        *)
(***************************************************************************)
IsClosedDownward(S, U) ==
  \A id \in DOMAIN S : S[id].parent_id \in U => id \in U

Descendants(S, ids) ==
  LET holding == {U \in SUBSET DOMAIN S :
                    ids \intersect DOMAIN S \subseteq U /\ IsClosedDownward(S, U)}
  IN  {id \in DOMAIN S : \A U \in holding : id \in U}

Subtree(S, root) ==
  [root |-> root,
   nodes |-> [id \in Descendants(S, {root}) |->
                IF id = root THEN [S[id] EXCEPT !.parent_id = NoParent] ELSE S[id]]]

NeverFormsCycle(S, p) == FALSE  \* mistake: no cycle check

WouldFormCycle(S, p) == p.root \in Descendants(S, PayloadIds(p) \ {p.root})

DroppedBelowRoot(S, p) ==  \* mistake: looks below the posted root alone
  Descendants(S, {p.root}) \ PayloadIds(p)

Dropped(S, p) == Descendants(S, PayloadIds(p)) \ PayloadIds(p)

ApplyDetachingRoot(S, p) ==  \* mistake: the posted root loses its parent
  [id \in (DOMAIN S \ Dropped(S, p)) \union PayloadIds(p) |->
     IF id \notin PayloadIds(p)
     THEN S[id]
     ELSE [type |-> p.nodes[id].type, parent_id |-> p.nodes[id].parent_id]]

Apply(S, p) ==
  [id \in (DOMAIN S \ Dropped(S, p)) \union PayloadIds(p) |->
     IF id \notin PayloadIds(p)
     THEN S[id]
     ELSE [type |-> p.nodes[id].type,
           parent_id |-> IF id /= p.root
                         THEN p.nodes[id].parent_id
                         ELSE IF id \in DOMAIN S THEN S[id].parent_id ELSE NoParent]]

-----------------------------------------------------------------------------

TypeOK ==
  /\ stored \in NodeTables
  /\ request \in [Clients -> Requests \union {NoRequest}]
  /\ answer \in [Clients -> Answers \union {NoAnswer}]

Init ==
  /\ stored = [id \in {} |-> NoParent]
  /\ request = [c \in Clients |-> NoRequest]
  /\ answer = [c \in Clients |-> NoAnswer]

IsWaiting(c, method) == request[c].method = method /\ answer[c] = NoAnswer

Send(c) ==
  /\ request[c] = NoRequest
  /\ \E message \in Requests : request' = [request EXCEPT ![c] = message]
  /\ UNCHANGED <<stored, answer>>

Tell(c, reply) ==
  /\ answer' = [answer EXCEPT ![c] = reply]
  /\ UNCHANGED request

(***************************************************************************)
(* A POST that repeats an id or would form a cycle is refused; any other   *)
(* is applied whole, and answered with the hierarchy now stored under its  *)
(* root.                                                                   *)
(***************************************************************************)
RefusePost(c) ==
  /\ IsWaiting(c, "POST")
  /\ LET p == request[c].payload
     IN  \/ Tell(c, RepeatedId) /\ p.repeats
         \/ Tell(c, Cycle) /\ ~p.repeats /\ WouldFormCycle(stored, p)
  /\ UNCHANGED stored

ApplyPost(c) ==
  /\ IsWaiting(c, "POST")
  /\ LET p == request[c].payload
     IN  /\ ~p.repeats
         /\ stored' = Apply(stored, p)
         /\ ~WouldFormCycle(stored, p)

StorePost(c) ==
  /\ ApplyPost(c)
  /\ Tell(c, Success(Subtree(stored', request[c].payload.root)))

(***************************************************************************)
(* The commit went through and its confirmation did not.                   *)
(***************************************************************************)
LeavePostInDoubt(c) == Tell(c, Unavailable) /\ ApplyPost(c)

AnswerGetAlways(c) ==  \* mistake: a missing node is not told apart
  /\ IsWaiting(c, "GET")
  /\ Tell(c, Success(Subtree(stored, request[c].id)))
  /\ UNCHANGED stored

AnswerGet(c) ==
  /\ IsWaiting(c, "GET")
  /\ Tell(c, IF request[c].id \in DOMAIN stored
             THEN Success(Subtree(stored, request[c].id))
             ELSE NotFound)
  /\ UNCHANGED stored

(***************************************************************************)
(* A request that meets a failing database has no effect.                  *)
(***************************************************************************)
FailRequest(c) ==
  /\ request[c] /= NoRequest
  /\ answer[c] = NoAnswer
  /\ Tell(c, Unavailable)
  /\ UNCHANGED stored

Receive(c) ==
  /\ answer[c] /= NoAnswer
  /\ request' = [request EXCEPT ![c] = NoRequest]
  /\ answer' = [answer EXCEPT ![c] = NoAnswer]
  /\ UNCHANGED stored

(***************************************************************************)
(* The server dies: nobody is answered, and what was applied stays.        *)
(***************************************************************************)
Crash ==
  /\ request' = [c \in Clients |-> NoRequest]
  /\ answer' = [c \in Clients |-> NoAnswer]
  /\ UNCHANGED stored

Next ==
  \/ \E c \in Clients :
       \/ Send(c)
       \/ RefusePost(c)
       \/ StorePost(c)
       \/ LeavePostInDoubt(c)
       \/ AnswerGet(c)
       \/ FailRequest(c)
       \/ Receive(c)
  \/ Crash

Spec == Init /\ [][Next]_vars

-----------------------------------------------------------------------------

(***************************************************************************)
(* The stored graph is a forest: every parent is stored, and nothing is    *)
(* strictly above itself.  README.md says of the store that it can only    *)
(* ever be one; here that is a fact about Apply and the one cycle check.   *)
(***************************************************************************)
StoredIsForest ==
  \A id \in DOMAIN stored :
    /\ stored[id].parent_id \in DOMAIN stored \union {NoParent}
    /\ stored[id].parent_id \notin Descendants(stored, {id})

(***************************************************************************)
(* If this step applies the POST of c: what is left under its root, and    *)
(* what becomes of the nodes it does not mention.                          *)
(***************************************************************************)
StoresThePosted(c) ==
  /\ request[c].method = "POST"
  /\ answer'[c] /= answer[c]
  /\ stored' /= stored \/ answer'[c].status = 200
  =>
    LET p == request[c].payload
    IN  /\ Subtree(stored', p.root) = PostedTree(p)
        /\ \A id \in DOMAIN stored \ PayloadIds(p) :
             IF id \in Descendants(stored, PayloadIds(p))
             THEN id \notin DOMAIN stored'
             ELSE id \in DOMAIN stored' /\ stored'[id] = stored[id]

(***************************************************************************)
(* A POST that is applied leaves exactly the posted hierarchy under its    *)
(* root, takes nothing away but what was beneath a node it mentions, and   *)
(* changes no node it does not mention: "the payload is authoritative for  *)
(* the entire subtree under every node it mentions".                       *)
(***************************************************************************)
PostedIsStored == [][\A c \in Clients : StoresThePosted(c)]_vars

(***************************************************************************)
(* If this step answers a c that posts what is stored under its root.      *)
(***************************************************************************)
IgnoresTheReposted(c) ==
  /\ request[c].method = "POST" /\ ~request[c].payload.repeats
  /\ request[c].payload.root \in DOMAIN stored
  /\ PostedTree(request[c].payload) = Subtree(stored, request[c].payload.root)
  /\ answer[c] = NoAnswer /\ answer'[c] /= NoAnswer
  =>
    /\ stored' = stored
    /\ answer'[c] \in {Success(PostedTree(request[c].payload)), Unavailable}

(***************************************************************************)
(* Posting back what a GET returned is accepted and changes nothing: a     *)
(* client that read a subtree, or was left in doubt by a lost answer, may  *)
(* send it again.                                                          *)
(***************************************************************************)
RepostChangesNothing == [][\A c \in Clients : IgnoresTheReposted(c)]_vars

=============================================================================

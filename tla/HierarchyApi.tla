----------------------------- MODULE HierarchyApi -----------------------------
(***************************************************************************)
(* What crosses the HTTP boundary: the two requests of app/api/routes/     *)
(* hierarchy.py and the answers app/api/errors.py makes of what happens to *)
(* them.  A client sends its next request when the last one is answered.   *)
(***************************************************************************)
EXTENDS Hierarchy

CONSTANTS
  Clients,   \* whoever may have a request in flight at the same time
  Payloads   \* the hierarchies they post

ASSUME PayloadsAssumption == \A p \in Payloads : p.repeats \/ IsFlattened(p)

-----------------------------------------------------------------------------

PostRequest(p) == [method |-> "POST", payload |-> p]

GetRequest(id) == [method |-> "GET", id |-> id]

NoRequest == [method |-> "none"]

Requests == {PostRequest(p) : p \in Payloads} \union {GetRequest(id) : id \in NodeIds}

-----------------------------------------------------------------------------

NoTree == [root |-> NoParent, nodes |-> [id \in {} |-> NoParent]]

Success(tree) == [status |-> 200, detail |-> "stored", tree |-> tree]

Failure(status, detail) == [status |-> status, detail |-> detail, tree |-> NoTree]

NotFound == Failure(404, "no such node")

RepeatedId == Failure(409, "an id repeated in the payload")

Cycle == Failure(409, "a payload node is already above the root")

IntegrityRefused == Failure(409, "a constraint refused a statement")

(***************************************************************************)
(* The generic 500.  Unavailable stands for the database or the connection *)
(* failing under a statement, Broken for the service failing by itself: a  *)
(* KeyError in assemble_tree, or a stored hierarchy it reads back as None. *)
(***************************************************************************)
Unavailable == Failure(500, "unavailable")

Broken == Failure(500, "broken")

NoAnswer == Failure(0, "none yet")

Answers ==
  {Success(tree) : tree \in Trees}
    \union {NotFound, RepeatedId, Cycle, IntegrityRefused, Unavailable, Broken}

=============================================================================

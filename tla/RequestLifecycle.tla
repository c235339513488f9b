--------------------------- MODULE RequestLifecycle ---------------------------
(***************************************************************************)
(* Requests from their arrival to the end of their session: the connection *)
(* pool they share, the write lock they queue for, and Postgres going down *)
(* and coming back under them.                                             *)
(*                                                                         *)
(* What a write does between its lock and its commit is in WritePath; here *)
(* it is one step.  The pool is what create_async_engine makes by default: *)
(* at most PoolLimit connections (pool_size and max_overflow together), a  *)
(* timeout for those who wait for one, and no ping before use.             *)
(***************************************************************************)
EXTENDS Naturals, FiniteSets

CONSTANTS
  Kinds,      \* what may be requested
  Requests,   \* the requests that may be in flight together
  PoolLimit,  \* how many connections may be in use
  NoOne

ASSUME KindsAssumption == Kinds \subseteq {"health", "invalid", "repeated", "get", "post"}

ASSUME PoolLimitAssumption == PoolLimit \in Nat \ {0}

ASSUME NoOneAssumption == NoOne \notin Requests

VARIABLES
  phase,      \* what the handler of a request awaits next
  kind,       \* what is requested
  answer,     \* the status it is going to be answered with
  connected,  \* the requests whose session holds a connection of the pool
  broken,     \* those whose connection Postgres has closed since
  stale,      \* connections lie in the pool that Postgres has closed since
  lock,       \* the request whose transaction holds HIERARCHY_WRITE_LOCK
  up          \* Postgres accepts connections

pool == <<connected, broken, stale>>
vars == <<phase, kind, answer, pool, lock, up>>

Statements == {"fetch_subtree_rows", "lock_writes", "store", "commit"}

Phases == Statements \union {"none", "connect", "raised", "respond", "close"}

StatusOf ==
  [RequestValidationError |-> 422, InvalidHierarchy |-> 409, IntegrityError |-> 409,
   HTTPException |-> 404, Unmapped |-> 500]

(***************************************************************************)
(* The types, and the bound of the pool.                                   *)
(***************************************************************************)
TypeOK ==
  /\ phase \in [Requests -> Phases]
  /\ kind \in [Requests -> Kinds \union {"health"}]
  /\ answer \in [Requests -> {0, 200, 404, 409, 422, 500}]
  /\ connected \subseteq Requests
  /\ IsFiniteSet(connected)
  /\ Cardinality(connected) =< PoolLimit
  /\ broken \subseteq connected
  /\ stale \in BOOLEAN
  /\ lock \in Requests \union {NoOne}
  /\ up \in BOOLEAN

Init ==
  /\ phase = [r \in Requests |-> "none"]
  /\ kind = [r \in Requests |-> "health"]
  /\ answer = [r \in Requests |-> 0]
  /\ connected = {}
  /\ broken = {}
  /\ stale = FALSE
  /\ lock = NoOne
  /\ up = TRUE

-----------------------------------------------------------------------------

At(r, place) == phase[r] = place

GoTo(r, place) == phase' = [phase EXCEPT ![r] = place]

Answer(r, status) == answer' = [answer EXCEPT ![r] = status]

(***************************************************************************)
(* An exception leaves the handler.  get_session closes the session first, *)
(* then errors.py makes the answer.                                        *)
(***************************************************************************)
Raise(r, exception) == GoTo(r, "raised") /\ Answer(r, StatusOf[exception])

(***************************************************************************)
(* The connection of r is back in the pool, or given up.                   *)
(***************************************************************************)
LetGo(r) ==
  /\ connected' = connected \ {r}
  /\ broken' = broken \ {r}

EndTransaction(r) == lock' = IF lock = r THEN NoOne ELSE lock

(***************************************************************************)
(* The connection of r proves to be closed: it is dropped, and whatever    *)
(* else was opened before will be opened again when next taken.            *)
(***************************************************************************)
Disconnect(r) ==
  /\ LetGo(r)
  /\ stale' = FALSE

-----------------------------------------------------------------------------

AwaitTheDatabaseFirst == {"get", "post", "repeated"}  \* mistake: lock_writes, then flatten_payload

(***************************************************************************)
(* The health route has no session; what does not match the schema, and    *)
(* what repeats an id, is refused before its session has reached for a     *)
(* connection.                                                             *)
(***************************************************************************)
AwaitTheDatabase == {"get", "post"}

Receive(r, what) ==
  /\ At(r, "none")
  /\ kind' = [kind EXCEPT ![r] = what]
  /\ IF what \in AwaitTheDatabase
     THEN GoTo(r, "connect") /\ UNCHANGED answer
     ELSE \/ what = "health" /\ GoTo(r, "respond") /\ Answer(r, 200)
          \/ what = "invalid" /\ Raise(r, "RequestValidationError")
          \/ what = "repeated" /\ Raise(r, "InvalidHierarchy")
  /\ UNCHANGED <<pool, lock, up>>

PoolIsDrained == Cardinality(connected) >= PoolLimit

FirstStatement(r) == IF kind[r] = "get" THEN "fetch_subtree_rows" ELSE "lock_writes"

ConnectPastTheLimit(r) ==  \* mistake: overflow without an end
  /\ At(r, "connect")
  /\ up
  /\ GoTo(r, FirstStatement(r))
  /\ connected' = connected \union {r}
  /\ UNCHANGED <<kind, answer, broken, stale, lock, up>>

(***************************************************************************)
(* The first statement of a session takes a connection as it lies in the   *)
(* pool, or opens one.                                                     *)
(***************************************************************************)
Connect(r) ==
  /\ At(r, "connect")
  /\ ~PoolIsDrained
  /\ \/ /\ connected' = connected \union {r}
        /\ \/ up /\ UNCHANGED broken
           \/ stale /\ broken' = broken \union {r}
        /\ GoTo(r, FirstStatement(r))
        /\ UNCHANGED answer
     \/ ~up /\ Raise(r, "Unmapped") /\ UNCHANGED <<connected, broken>>
  /\ UNCHANGED <<kind, stale, lock, up>>

(***************************************************************************)
(* Nobody gave a connection back in the thirty seconds one waits for it.   *)
(***************************************************************************)
TimeOut(r) ==
  /\ At(r, "connect")
  /\ PoolIsDrained
  /\ Raise(r, "Unmapped")
  /\ UNCHANGED <<kind, pool, lock, up>>

-----------------------------------------------------------------------------
(* The statements. *)

Executes(r, statement) == At(r, statement) /\ r \notin broken

(***************************************************************************)
(* A hierarchy is answered while the session is still open; that there is  *)
(* none is an exception.                                                   *)
(***************************************************************************)
FetchSubtreeRows(r) ==
  /\ Executes(r, "fetch_subtree_rows")
  /\ \/ GoTo(r, "respond") /\ Answer(r, 200)
     \/ Raise(r, "HTTPException")
  /\ UNCHANGED <<kind, pool, lock, up>>

LockWrites(r) ==
  /\ Executes(r, "lock_writes")
  /\ lock = NoOne
  /\ lock' = r
  /\ GoTo(r, "store")
  /\ UNCHANGED <<kind, answer, pool, up>>

StoreReadingBackElsewhere(r) ==  \* mistake: get_hierarchy takes a session of its own
  /\ Executes(r, "store")
  /\ ~PoolIsDrained
  /\ GoTo(r, "commit")
  /\ UNCHANGED <<kind, answer, pool, lock, up>>

(***************************************************************************)
(* Everything between the lock and the commit, over the one connection the *)
(* session has; the cycle check may refuse.                                *)
(***************************************************************************)
Store(r) ==
  /\ Executes(r, "store")
  /\ \/ GoTo(r, "commit") /\ UNCHANGED answer
     \/ Raise(r, "InvalidHierarchy")
  /\ UNCHANGED <<kind, pool, lock, up>>

(***************************************************************************)
(* COMMIT gives up the lock, and the session its connection.               *)
(***************************************************************************)
Commit(r) ==
  /\ Executes(r, "commit")
  /\ EndTransaction(r)
  /\ LetGo(r)
  /\ GoTo(r, "respond")
  /\ Answer(r, 200)
  /\ UNCHANGED <<kind, stale, up>>

-----------------------------------------------------------------------------
(* What goes wrong. *)

(***************************************************************************)
(* Postgres refuses a statement, or cancels it.  The transaction is left   *)
(* open, with the lock if it has it.                                       *)
(***************************************************************************)
FailStatement(r) ==
  /\ phase[r] \in Statements
  /\ r \notin broken
  /\ \E exception \in {"IntegrityError", "Unmapped"} : Raise(r, exception)
  /\ UNCHANGED <<kind, pool, lock, up>>

MeetClosedConnection(r) ==
  /\ phase[r] \in Statements
  /\ r \in broken
  /\ Disconnect(r)
  /\ Raise(r, "Unmapped")
  /\ UNCHANGED <<kind, lock, up>>

(***************************************************************************)
(* Postgres stops: the transactions are over, the connections are closed.  *)
(* Whether any lies in the pool is left open.                              *)
(***************************************************************************)
GoDown ==
  /\ up
  /\ up' = FALSE
  /\ lock' = NoOne
  /\ broken' = connected
  /\ stale' = TRUE
  /\ UNCHANGED <<phase, kind, answer, connected>>

ComeUp ==
  /\ ~up
  /\ up' = TRUE
  /\ UNCHANGED <<phase, kind, answer, pool, lock>>

-----------------------------------------------------------------------------
(* The end of a request. *)

UnwindKeepingSession(r) ==  \* mistake: the session is not closed when a request fails
  /\ At(r, "raised")
  /\ GoTo(r, "respond")
  /\ UNCHANGED <<kind, answer, pool, lock, up>>

(***************************************************************************)
(* Closing the session rolls back what is left open.  A rollback over a    *)
(* closed connection is an exception itself, and replaces the first one.   *)
(***************************************************************************)
Unwind(r) ==
  /\ At(r, "raised")
  /\ GoTo(r, "respond")
  /\ \/ r \in broken /\ Disconnect(r) /\ Answer(r, StatusOf.Unmapped) /\ UNCHANGED lock
     \/ r \notin broken /\ LetGo(r) /\ EndTransaction(r) /\ UNCHANGED <<answer, stale>>
  /\ UNCHANGED <<kind, up>>

Respond(r) ==
  /\ At(r, "respond")
  /\ GoTo(r, "close")
  /\ Answer(r, 0)
  /\ UNCHANGED <<kind, pool, lock, up>>

(***************************************************************************)
(* The session of a GET is closed when its response has been sent.         *)
(***************************************************************************)
Close(r) ==
  /\ At(r, "close")
  /\ GoTo(r, "none")
  /\ \/ r \in broken /\ Disconnect(r)
     \/ r \notin broken /\ LetGo(r) /\ UNCHANGED stale
  /\ kind' = [kind EXCEPT ![r] = "health"]
  /\ UNCHANGED <<answer, lock, up>>

-----------------------------------------------------------------------------

Proceed(r) ==
  \/ Connect(r)
  \/ FetchSubtreeRows(r)
  \/ LockWrites(r)
  \/ Store(r)
  \/ Commit(r)
  \/ MeetClosedConnection(r)
  \/ Unwind(r)
  \/ Respond(r)
  \/ Close(r)

Next ==
  \/ \E r \in Requests :
       \/ \E what \in Kinds : Receive(r, what)
       \/ Proceed(r)
       \/ TimeOut(r)
       \/ FailStatement(r)
  \/ GoDown
  \/ ComeUp

Spec == Init /\ [][Next]_vars

(***************************************************************************)
(* The event loop resumes every handler whose wait is over; those who wait *)
(* for a connection, or for the lock, are served in order, so that nobody  *)
(* is passed for ever; clients read what they are answered.  No timeout    *)
(* need expire, no statement need fail, and Postgres need not come back.   *)
(***************************************************************************)
FairSpec == Spec /\ \A r \in Requests : SF_vars(Proceed(r))

-----------------------------------------------------------------------------

(***************************************************************************)
(* Only a write that is past its lock, or is being unwound, holds the lock *)
(* (so the lock always belongs to an open transaction).  A connection is   *)
(* held only by a request whose session has begun and is not closed: when  *)
(* a POST, or a request that failed, is being answered, its connection and *)
(* the lock are back already.                                              *)
(***************************************************************************)
NothingLeaks ==
  \A r \in Requests :
    /\ lock = r =>
         /\ r \in connected \ broken
         /\ kind[r] = "post"
         /\ phase[r] \in {"store", "commit", "raised"}
    /\ r \in connected =>
         \/ phase[r] \in Statements \union {"raised"}
         \/ kind[r] = "get" /\ phase[r] \in {"respond", "close"}
    /\ phase[r] \in Statements => r \in connected
    /\ phase[r] \in {"store", "commit"} => r \in broken \/ lock = r

(***************************************************************************)
(* Health, and every refusal that is not about what is stored, is answered *)
(* as it would be with Postgres stopped: never by a 500, and never with a  *)
(* connection that a write waits for.                                      *)
(***************************************************************************)
AnsweredWithoutPostgres ==
  \A r \in Requests :
    kind[r] \in {"health", "invalid", "repeated"} => r \notin connected /\ answer[r] /= 500

(***************************************************************************)
(* Every request is answered and its session closed: neither a pool full   *)
(* of writers that wait for the lock nor a stopped Postgres keeps one for  *)
(* ever, and no timeout is needed for that.                                *)
(***************************************************************************)
EveryRequestEnds == \A r \in Requests : ~At(r, "none") ~> At(r, "none")

=============================================================================

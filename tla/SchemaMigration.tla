--------------------------- MODULE SchemaMigration ---------------------------
(***************************************************************************)
(* Alembic commands over migration 0001, statement by statement, while     *)
(* other commands run and while requests read and write the tables.        *)
(*                                                                         *)
(* env.py runs a command in one transaction.  Postgres makes a statement   *)
(* wait while another transaction has the same object, or the table it     *)
(* belongs to; requests lock the tables they name until they end.          *)
(***************************************************************************)
EXTENDS Naturals, Sequences, FiniteSets

CONSTANTS
  Commands,  \* the alembic commands that may run together
  Requests   \* the requests that may be in flight meanwhile

VARIABLES
  schema,    \* the objects that are committed
  running,   \* what a command was asked to do
  found,     \* whether it found revision 0001 in alembic_version when it began
  touched,   \* the objects it has created or dropped, not committed yet
  waiting,   \* the commands in line for a table
  shared     \* the tables a request has named so far

vars == <<schema, running, found, touched, waiting, shared>>

Tables == {"nodes", "node_closure"}

(***************************************************************************)
(* In the order of upgrade() and of downgrade().  "revision" is the row of *)
(* alembic_version, which alembic writes when the function has returned.   *)
(***************************************************************************)
DowngradeKeepingType ==  \* mistake: DROP TABLE is left to drop the type
  <<"uq_node_single_parent", "ix_closure_descendant_depth", "node_closure",
    "ix_nodes_parent_id", "nodes", "revision">>

DowngradeFromNodes ==  \* mistake: the index of nodes goes first
  <<"ix_nodes_parent_id", "uq_node_single_parent", "ix_closure_descendant_depth",
    "node_closure", "nodes", "node_type", "revision">>

Upgrade ==
  <<"node_type", "nodes", "ix_nodes_parent_id", "node_closure",
    "ix_closure_descendant_depth", "uq_node_single_parent", "revision">>

Downgrade ==
  <<"uq_node_single_parent", "ix_closure_descendant_depth", "node_closure",
    "ix_nodes_parent_id", "nodes", "node_type", "revision">>

Everything == {Upgrade[i] : i \in DOMAIN Upgrade}

Statements(m) == IF running[m] = "upgrade" THEN Upgrade ELSE Downgrade

IsRunning(m) == running[m] \in {"upgrade", "downgrade"}

TypeOK ==
  /\ schema \subseteq Everything
  /\ running \in [Commands -> {"none", "upgrade", "downgrade", "failed"}]
  /\ found \in [Commands -> BOOLEAN]
  /\ touched \in [Commands -> SUBSET Everything]
  /\ waiting \subseteq Commands
  /\ shared \in [Requests -> {{}, {"node_closure"}, Tables}]

Init ==
  /\ schema = {}
  /\ running = [m \in Commands |-> "none"]
  /\ found = [m \in Commands |-> FALSE]
  /\ touched = [m \in Commands |-> {}]
  /\ waiting = {}
  /\ shared = [r \in Requests |-> {}]

-----------------------------------------------------------------------------
(* Who waits for whom. *)

(***************************************************************************)
(* The tables a statement that drops the object locks.  Dropping the       *)
(* closure drops its foreign keys, and so changes nodes.                   *)
(***************************************************************************)
TablesLockedFor(object) ==
  CASE object \in {"uq_node_single_parent", "ix_closure_descendant_depth"} -> {"node_closure"}
    [] object = "node_closure" -> Tables
    [] object \in {"ix_nodes_parent_id", "nodes"} -> {"nodes"}
    [] OTHER -> {}

TablesLockedBy(m) ==
  IF running[m] = "downgrade" THEN UNION {TablesLockedFor(object) : object \in touched[m]} ELSE {}

(***************************************************************************)
(* Another command has not ended with the object, or a request with its    *)
(* table.                                                                  *)
(***************************************************************************)
IsHeldUp(m, object) ==
  \/ \E other \in Commands \ {m} :
       \/ object \in touched[other]
       \/ running[m] = "downgrade" /\ TablesLockedFor(object) \intersect TablesLockedBy(other) /= {}
  \/ /\ running[m] = "downgrade"
     /\ \E r \in Requests : TablesLockedFor(object) \intersect shared[r] /= {}

-----------------------------------------------------------------------------
(* A command. *)

(***************************************************************************)
(* It reads the revision the database is at before anything else.  At the  *)
(* target already there is nothing to do.                                  *)
(***************************************************************************)
Begin(m, command) ==
  /\ ~IsRunning(m)
  /\ found' = [found EXCEPT ![m] = "revision" \in schema]
  /\ running' = [running EXCEPT ![m] =
                   IF command = (IF "revision" \in schema THEN "downgrade" ELSE "upgrade")
                   THEN command ELSE "none"]
  /\ UNCHANGED <<schema, touched, waiting, shared>>

Object(m) == Statements(m)[Cardinality(touched[m]) + 1]

IsDone(m) == Cardinality(touched[m]) = Len(Statements(m))

(***************************************************************************)
(* What is there already cannot be created, what is not cannot be dropped: *)
(* checkfirst=False for the type, and no IF EXISTS for the rest.           *)
(***************************************************************************)
IsRefused(m) == (Object(m) \in schema) = (running[m] = "upgrade")

(***************************************************************************)
(* The transaction of m is over.                                           *)
(***************************************************************************)
End(m, outcome) ==
  /\ running' = [running EXCEPT ![m] = outcome]
  /\ touched' = [touched EXCEPT ![m] = {}]
  /\ waiting' = waiting \ {m}

(***************************************************************************)
(* It gets in line.  Who names the table after that waits behind it.       *)
(***************************************************************************)
Wait(m) ==
  /\ IsRunning(m) /\ ~IsDone(m) /\ IsHeldUp(m, Object(m))
  /\ waiting' = waiting \union {m}
  /\ UNCHANGED <<schema, running, found, touched, shared>>

ExecuteAndCommit(m) ==  \* mistake: run_migrations outside of begin_transaction
  /\ IsRunning(m) /\ ~IsDone(m) /\ ~IsHeldUp(m, Object(m))
  /\ schema' = IF running[m] = "upgrade" THEN schema \union {Object(m)} ELSE schema \ {Object(m)}
  /\ touched' = [touched EXCEPT ![m] = @ \union {Object(m)}]
  /\ waiting' = waiting \ {m}
  /\ UNCHANGED <<running, found, shared>>

Execute(m) ==
  /\ IsRunning(m) /\ ~IsDone(m) /\ ~IsHeldUp(m, Object(m))
  /\ IF IsRefused(m)
     THEN End(m, "failed")
     ELSE /\ touched' = [touched EXCEPT ![m] = @ \union {Object(m)}]
          /\ waiting' = waiting \ {m}
          /\ UNCHANGED running
  /\ UNCHANGED <<schema, found, shared>>

Commit(m) ==
  /\ IsRunning(m) /\ IsDone(m)
  /\ schema' = IF running[m] = "upgrade" THEN schema \union touched[m] ELSE schema \ touched[m]
  /\ End(m, "none")
  /\ UNCHANGED <<found, shared>>

(***************************************************************************)
(* The command is killed, or loses its connection.                         *)
(***************************************************************************)
Die(m) ==
  /\ IsRunning(m)
  /\ End(m, "none")
  /\ UNCHANGED <<schema, found, shared>>

-----------------------------------------------------------------------------
(* A request. *)

NextTableFromNodes(r) ==  \* mistake: the leftmost FROM is that of the first column
  IF shared[r] = {} THEN "nodes" ELSE "node_closure"

(***************************************************************************)
(* Every request reads node_closure first, and nodes next.                 *)
(***************************************************************************)
NextTable(r) == IF shared[r] = {} THEN "node_closure" ELSE "nodes"

(***************************************************************************)
(* A table that is not there is an error, and the session is closed.       *)
(***************************************************************************)
NameTable(r) ==
  LET table == NextTable(r)
  IN  /\ shared[r] /= Tables
      /\ \A m \in Commands : table \notin TablesLockedBy(m)
      /\ \A m \in waiting : running[m] = "downgrade" => table \notin TablesLockedFor(Object(m))
      /\ shared' = [shared EXCEPT ![r] = IF table \in schema THEN @ \union {table} ELSE {}]
      /\ UNCHANGED <<schema, running, found, touched, waiting>>

EndRequest(r) ==
  /\ shared[r] /= {}
  /\ shared' = [shared EXCEPT ![r] = {}]
  /\ UNCHANGED <<schema, running, found, touched, waiting>>

-----------------------------------------------------------------------------

Next ==
  \/ \E m \in Commands :
       \/ \E command \in {"upgrade", "downgrade"} : Begin(m, command)
       \/ Wait(m)
       \/ Execute(m)
       \/ Commit(m)
       \/ Die(m)
  \/ \E r \in Requests : NameTable(r) \/ EndRequest(r)

Spec == Init /\ [][Next]_vars

(***************************************************************************)
(* Locks are granted in the order they are asked for.  A request that has  *)
(* named both tables ends; one that has named the first may be waiting for *)
(* the second, so that it ends then is not assumed.  No command need die.  *)
(***************************************************************************)
FairSpec ==
  /\ Spec
  /\ \A m \in Commands : SF_vars(Wait(m)) /\ SF_vars(Execute(m)) /\ WF_vars(Commit(m))
  /\ \A r \in Requests :
       SF_vars(shared[r] /= {} /\ NameTable(r)) /\ WF_vars(shared[r] = Tables /\ EndRequest(r))

-----------------------------------------------------------------------------

(***************************************************************************)
(* Whatever dies in the middle of whatever command, the schema and the     *)
(* revision that says so are there whole or not at all; and they stay as   *)
(* they are while a request is reading or writing.                         *)
(***************************************************************************)
WholeOrNone ==
  /\ schema \in {{}, Everything}
  /\ \A r \in Requests : shared[r] /= {} => schema = Everything

(***************************************************************************)
(* A statement of a command is refused only when another command has been  *)
(* committed since this one read the revision.  In particular a downgrade  *)
(* leaves nothing behind on which the next upgrade would fail ("a break    *)
(* that only shows up for whoever resets their database next").            *)
(***************************************************************************)
FailsOnlyWhenOvertaken ==
  [][\A m \in Commands :
       running'[m] = "failed" /\ running[m] /= "failed" =>
         found[m] /= ("revision" \in schema)]_vars

(***************************************************************************)
(* Commands and requests never wait for each other in a circle: everything *)
(* that has begun ends.                                                    *)
(***************************************************************************)
NobodyWaitsForEver ==
  /\ \A m \in Commands : IsRunning(m) ~> ~IsRunning(m)
  /\ \A r \in Requests : shared[r] /= {} ~> shared[r] = {}

=============================================================================

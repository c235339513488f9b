------------------------- MODULE SchemaMigrationProofs -------------------------
(***************************************************************************)
(* Proofs about SchemaMigration, for any commands and any requests.        *)
(***************************************************************************)
EXTENDS SchemaMigration, FiniteSetTheorems, TLAPS

-----------------------------------------------------------------------------
(* The inductive invariant. *)

(***************************************************************************)
(* No request holds a table that a downgrade has locked.                   *)
(***************************************************************************)
LocksExclude ==
  \A m \in Commands, r \in Requests : TablesLockedBy(m) \intersect shared[r] = {}

IdleTouchesNothing == \A m \in Commands : ~IsRunning(m) => touched[m] = {}

IInv == TypeOK /\ WholeOrNone /\ LocksExclude /\ IdleTouchesNothing

-----------------------------------------------------------------------------
(* The statements. *)

LEMMA StatementsAre ==
  /\ Len(Upgrade) = 7 /\ DOMAIN Upgrade = 1..7
  /\ Len(Downgrade) = 7
  /\ \A i \in 1..7 : Upgrade[i] \in Everything /\ Downgrade[i] \in Everything
  /\ Everything = {"node_type", "nodes", "ix_nodes_parent_id", "node_closure",
                   "ix_closure_descendant_depth", "uq_node_single_parent", "revision"}
<1>1. Len(Upgrade) = 7 /\ DOMAIN Upgrade = 1..7 /\ Len(Downgrade) = 7
  BY DEF Upgrade, Downgrade
<1>2. /\ Upgrade[1] = "node_type" /\ Upgrade[2] = "nodes" /\ Upgrade[3] = "ix_nodes_parent_id"
      /\ Upgrade[4] = "node_closure" /\ Upgrade[5] = "ix_closure_descendant_depth"
      /\ Upgrade[6] = "uq_node_single_parent" /\ Upgrade[7] = "revision"
  BY DEF Upgrade
<1>3. /\ Downgrade[1] = "uq_node_single_parent" /\ Downgrade[2] = "ix_closure_descendant_depth"
      /\ Downgrade[3] = "node_closure" /\ Downgrade[4] = "ix_nodes_parent_id"
      /\ Downgrade[5] = "nodes" /\ Downgrade[6] = "node_type" /\ Downgrade[7] = "revision"
  BY DEF Downgrade
<1>4. \A i : i \in 1..7 <=> i = 1 \/ i = 2 \/ i = 3 \/ i = 4 \/ i = 5 \/ i = 6 \/ i = 7
  OBVIOUS
<1>5. Everything = {"node_type", "nodes", "ix_nodes_parent_id", "node_closure",
                    "ix_closure_descendant_depth", "uq_node_single_parent", "revision"}
  BY <1>1, <1>2, <1>4 DEF Everything
<1> QED
  BY <1>1, <1>2, <1>3, <1>4, <1>5

LEMMA EverythingIsSeven == IsFiniteSet(Everything) /\ Cardinality(Everything) = 7
<1> DEFINE A1 == {} \cup {"node_type"}
           A2 == A1 \cup {"nodes"}
           A3 == A2 \cup {"ix_nodes_parent_id"}
           A4 == A3 \cup {"node_closure"}
           A5 == A4 \cup {"ix_closure_descendant_depth"}
           A6 == A5 \cup {"uq_node_single_parent"}
           A7 == A6 \cup {"revision"}
<1>1. IsFiniteSet(A1) /\ Cardinality(A1) = 1
  <2>1. IsFiniteSet({}) /\ Cardinality({}) = 0 /\ "node_type" \notin {}
    BY FS_EmptySet
  <2>2. PICK none : none = {}
    OBVIOUS
  <2>3. IsFiniteSet(none \cup {"node_type"}) /\ Cardinality(none \cup {"node_type"}) = 1
    BY <2>1, <2>2, FS_AddElement
  <2> QED
    BY <2>2, <2>3
<1>2. "nodes" \notin A1 /\ "ix_nodes_parent_id" \notin A2 /\ "node_closure" \notin A3
  OBVIOUS
<1>3. /\ "ix_closure_descendant_depth" \notin A4 /\ "uq_node_single_parent" \notin A5
      /\ "revision" \notin A6
  OBVIOUS
<1>4. Everything = A7
  BY StatementsAre
<1> HIDE DEF A1
<1>5. IsFiniteSet(A2) /\ Cardinality(A2) = 2
  BY <1>1, <1>2, FS_AddElement
<1> HIDE DEF A2
<1>6. IsFiniteSet(A3) /\ Cardinality(A3) = 3
  BY <1>2, <1>5, FS_AddElement
<1> HIDE DEF A3
<1>7. IsFiniteSet(A4) /\ Cardinality(A4) = 4
  BY <1>2, <1>6, FS_AddElement
<1> HIDE DEF A4
<1>8. IsFiniteSet(A5) /\ Cardinality(A5) = 5
  BY <1>3, <1>7, FS_AddElement
<1> HIDE DEF A5
<1>9. IsFiniteSet(A6) /\ Cardinality(A6) = 6
  BY <1>3, <1>8, FS_AddElement
<1> HIDE DEF A6
<1>10. IsFiniteSet(A7) /\ Cardinality(A7) = 7
  BY <1>3, <1>9, FS_AddElement
<1> QED
  BY <1>4, <1>10

(***************************************************************************)
(* A command is at one of its seven statements until it has touched all    *)
(* there is.                                                               *)
(***************************************************************************)
LEMMA AtSomeStatement ==
  ASSUME TypeOK, NEW m \in Commands
  PROVE  /\ ~IsDone(m) => Object(m) \in Everything
         /\ IsDone(m) => touched[m] = Everything
<1>1. touched[m] \in SUBSET Everything
  BY DEF TypeOK
<1>2. Cardinality(touched[m]) \in Nat /\ Cardinality(touched[m]) <= 7
  <2>1. IsFiniteSet(touched[m]) /\ Cardinality(touched[m]) <= 7
    BY <1>1, EverythingIsSeven, FS_Subset
  <2> QED
    BY <2>1, FS_CardinalityType
<1>3. Cardinality(touched[m]) = 7 => touched[m] = Everything
  BY <1>1, EverythingIsSeven, FS_Subset
<1>4. Len(Statements(m)) = 7
  BY StatementsAre DEF Statements
<1>5. Cardinality(touched[m]) /= 7 => Cardinality(touched[m]) + 1 \in 1..7
  BY <1>2
<1> QED
  BY <1>3, <1>4, <1>5, StatementsAre DEF IsDone, Object, Statements

(***************************************************************************)
(* What a command locks depends on itself alone.                           *)
(***************************************************************************)
LEMMA LocksStay ==
  ASSUME NEW m, running'[m] = running[m], touched'[m] = touched[m]
  PROVE  TablesLockedBy(m)' = TablesLockedBy(m)
BY DEF TablesLockedBy

LEMMA NothingTouchedNothingLocked ==
  ASSUME NEW m, touched[m] = {}
  PROVE  TablesLockedBy(m) = {}
BY DEF TablesLockedBy

(***************************************************************************)
(* The end of a command releases everything it held.                       *)
(***************************************************************************)
LEMMA EndKeeps ==
  ASSUME IInv, NEW m \in Commands, NEW outcome \in {"none", "failed"}, End(m, outcome),
         found' = found, shared' = shared
  PROVE  /\ running' \in [Commands -> {"none", "upgrade", "downgrade", "failed"}]
         /\ touched' \in [Commands -> SUBSET Everything]
         /\ waiting' \subseteq Commands
         /\ LocksExclude' /\ IdleTouchesNothing'
<1>1. /\ running' = [running EXCEPT ![m] = outcome] /\ touched' = [touched EXCEPT ![m] = {}]
      /\ waiting' = waiting \ {m}
  BY DEF End
<1>2. /\ running' \in [Commands -> {"none", "upgrade", "downgrade", "failed"}]
      /\ touched' \in [Commands -> SUBSET Everything]
      /\ waiting' \subseteq Commands
  BY <1>1 DEF IInv, TypeOK
<1>3. /\ touched'[m] = {}
      /\ \A other \in Commands \ {m} :
           running'[other] = running[other] /\ touched'[other] = touched[other]
  BY <1>1 DEF IInv, TypeOK
<1>4. TablesLockedBy(m)' = {}
  BY <1>3 DEF TablesLockedBy
<1>5. LocksExclude'
  BY <1>3, <1>4, LocksStay DEF IInv, LocksExclude
<1>6. IdleTouchesNothing'
  BY <1>3 DEF IInv, IdleTouchesNothing, IsRunning
<1> QED
  BY <1>2, <1>5, <1>6

-----------------------------------------------------------------------------
(* Each step keeps the invariant. *)

LEMMA BeginKeeps ==
  ASSUME IInv, NEW m \in Commands, NEW command \in {"upgrade", "downgrade"}, Begin(m, command)
  PROVE  IInv'
<1>1. PICK place \in {"none", "upgrade", "downgrade"} :
        running' = [running EXCEPT ![m] = place]
  <2>1. CASE command = (IF "revision" \in schema THEN "downgrade" ELSE "upgrade")
    BY <2>1 DEF Begin
  <2>2. CASE command /= (IF "revision" \in schema THEN "downgrade" ELSE "upgrade")
    BY <2>2 DEF Begin
  <2> QED
    BY <2>1, <2>2
<1>2. /\ touched[m] = {} /\ UNCHANGED <<schema, touched, waiting, shared>>
  BY DEF Begin, IInv, IdleTouchesNothing
<1>3. found' \in [Commands -> BOOLEAN]
  <2>1. found \in [Commands -> BOOLEAN]
    BY DEF IInv, TypeOK
  <2>2. found' = [found EXCEPT ![m] = "revision" \in schema]
    BY DEF Begin
  <2> QED
    BY <2>1, <2>2
<1>4. TypeOK'
  BY <1>1, <1>2, <1>3 DEF IInv, TypeOK
<1>5. \A other \in Commands \ {m} : running'[other] = running[other]
  BY <1>1 DEF IInv, TypeOK
<1>6. TablesLockedBy(m)' = {}
  BY <1>2 DEF TablesLockedBy
<1>7. LocksExclude'
  BY <1>2, <1>5, <1>6, LocksStay DEF IInv, LocksExclude
<1>8. IdleTouchesNothing'
  BY <1>2, <1>5 DEF IInv, IdleTouchesNothing, IsRunning
<1> QED
  BY <1>2, <1>4, <1>7, <1>8 DEF IInv, WholeOrNone

LEMMA ExecuteKeeps ==
  ASSUME IInv, NEW m \in Commands, Execute(m)
  PROVE  IInv'
<1>1. TypeOK /\ WholeOrNone /\ schema' = schema /\ found' = found /\ shared' = shared
  BY DEF IInv, Execute
<1>2. CASE IsRefused(m)
  <2>1. End(m, "failed")
    BY <1>2 DEF Execute
  <2> QED
    BY <1>1, <2>1, EndKeeps DEF IInv, TypeOK, WholeOrNone
<1>3. CASE ~IsRefused(m)
  <2>1. /\ touched' = [touched EXCEPT ![m] = touched[m] \union {Object(m)}]
        /\ waiting' = waiting \ {m} /\ running' = running
        /\ IsRunning(m) /\ ~IsDone(m) /\ ~IsHeldUp(m, Object(m))
    BY <1>3 DEF Execute
  <2>2. Object(m) \in Everything
    BY <1>1, <2>1, AtSomeStatement
  <2>3. /\ touched'[m] = touched[m] \union {Object(m)}
        /\ \A other \in Commands \ {m} : touched'[other] = touched[other]
    BY <1>1, <2>1 DEF TypeOK
  <2>4. TypeOK'
    <3> HIDE DEF Object
    <3> QED
      BY <1>1, <2>1, <2>2 DEF TypeOK
  <2>5. ASSUME NEW r \in Requests
        PROVE  TablesLockedBy(m)' \intersect shared[r] = {}
    <3>1. CASE running[m] = "downgrade"
      <4>1. TablesLockedFor(Object(m)) \intersect shared[r] = {}
        BY <2>1, <3>1 DEF IsHeldUp
      <4>2. TablesLockedBy(m) \intersect shared[r] = {}
        BY DEF IInv, LocksExclude
      <4>3. TablesLockedBy(m)' = TablesLockedBy(m) \union TablesLockedFor(Object(m))
        BY <2>1, <2>3, <3>1 DEF TablesLockedBy
      <4> QED
        BY <4>1, <4>2, <4>3
    <3>2. CASE running[m] /= "downgrade"
      BY <2>1, <3>2 DEF TablesLockedBy
    <3> QED
      BY <3>1, <3>2
  <2>6. LocksExclude'
    BY <1>1, <2>1, <2>3, <2>5, LocksStay DEF IInv, LocksExclude
  <2>7. IdleTouchesNothing'
    BY <2>1, <2>3 DEF IInv, IdleTouchesNothing, IsRunning
  <2> QED
    BY <1>1, <2>4, <2>6, <2>7 DEF IInv, WholeOrNone
<1> QED
  BY <1>2, <1>3

LEMMA CommitKeeps ==
  ASSUME IInv, NEW m \in Commands, Commit(m)
  PROVE  IInv'
<1>1. TypeOK /\ WholeOrNone /\ End(m, "none") /\ found' = found /\ shared' = shared
  BY DEF IInv, Commit
<1>2. touched[m] = Everything
  BY <1>1, AtSomeStatement DEF Commit
<1>3. CASE running[m] = "upgrade"
  <2>1. schema' = Everything
    BY <1>1, <1>2, <1>3 DEF Commit, TypeOK
  <2> QED
    BY <1>1, <2>1, EndKeeps DEF IInv, TypeOK, WholeOrNone
<1>4. CASE running[m] = "downgrade"
  <2>1. schema' = {}
    BY <1>1, <1>2, <1>4 DEF Commit, TypeOK
  <2>2. "node_closure" \in touched[m] /\ TablesLockedFor("node_closure") = Tables
    BY <1>2, StatementsAre DEF TablesLockedFor
  <2>3. Tables \subseteq TablesLockedBy(m)
    BY <1>4, <2>2 DEF TablesLockedBy
  <2>4. ASSUME NEW r \in Requests
        PROVE  shared[r] = {}
    <3>1. shared[r] \subseteq Tables
      BY <1>1 DEF TypeOK, Tables
    <3>2. TablesLockedBy(m) \intersect shared[r] = {}
      BY DEF IInv, LocksExclude
    <3> QED
      BY <2>3, <3>1, <3>2
  <2> QED
    BY <1>1, <2>1, <2>4, EndKeeps DEF IInv, TypeOK, WholeOrNone
<1> QED
  BY <1>3, <1>4 DEF Commit, IsRunning

LEMMA DieKeeps ==
  ASSUME IInv, NEW m \in Commands, Die(m)
  PROVE  IInv'
BY EndKeeps DEF IInv, Die, TypeOK, WholeOrNone

(***************************************************************************)
(* A request that is given a table finds the schema whole, or ends.        *)
(***************************************************************************)
LEMMA NameTableKeeps ==
  ASSUME IInv, NEW r \in Requests, NameTable(r)
  PROVE  IInv'
<1> DEFINE table == NextTable(r)
           named == IF table \in schema THEN shared[r] \union {table} ELSE {}
<1>1. /\ TypeOK /\ WholeOrNone /\ UNCHANGED <<schema, running, found, touched, waiting>>
      /\ \A m \in Commands : table \notin TablesLockedBy(m)
      /\ shared' = [shared EXCEPT ![r] = named]
      /\ shared[r] \in {{}, {"node_closure"}, Tables}
  BY DEF IInv, NameTable, TypeOK
<1>2. named \in {{}, {"node_closure"}, Tables}
  <2>1. CASE shared[r] = {}
    BY <2>1 DEF NextTable
  <2>2. CASE shared[r] /= {}
    BY <1>1, <2>2 DEF NextTable, Tables
  <2> QED
    BY <2>1, <2>2
<1>3. named /= {} => schema = Everything
  BY <1>1 DEF WholeOrNone
<1>4. \A m \in Commands : TablesLockedBy(m) \intersect named = {}
  BY <1>1 DEF IInv, LocksExclude
<1> HIDE DEF named, table
<1>5. TypeOK'
  BY <1>1, <1>2 DEF TypeOK
<1>6. shared'[r] = named /\ \A other \in Requests \ {r} : shared'[other] = shared[other]
  BY <1>1 DEF TypeOK
<1>7. WholeOrNone'
  BY <1>1, <1>3, <1>6 DEF WholeOrNone
<1>8. LocksExclude'
  BY <1>1, <1>4, <1>6, LocksStay DEF IInv, LocksExclude
<1>9. IdleTouchesNothing'
  BY <1>1 DEF IInv, IdleTouchesNothing, IsRunning
<1> QED
  BY <1>5, <1>7, <1>8, <1>9 DEF IInv

LEMMA QuietStepKeeps ==
  ASSUME IInv,
         \/ \E m \in Commands : Wait(m)
         \/ \E r \in Requests : EndRequest(r)
         \/ UNCHANGED vars
  PROVE  IInv'
<1>1. /\ UNCHANGED <<schema, running, found, touched>> /\ waiting' \subseteq Commands
      /\ shared' \in [Requests -> {{}, {"node_closure"}, Tables}]
      /\ \A r \in Requests : shared'[r] = shared[r] \/ shared'[r] = {}
  BY DEF IInv, TypeOK, Wait, EndRequest, vars
<1>2. TypeOK'
  BY <1>1 DEF IInv, TypeOK
<1>3. LocksExclude'
  BY <1>1, LocksStay DEF IInv, LocksExclude
<1> QED
  BY <1>1, <1>2, <1>3 DEF IInv, WholeOrNone, IdleTouchesNothing, IsRunning

LEMMA MigrationInvariant == Spec => []IInv
<1>1. Init => IInv
  BY DEF Init, IInv, TypeOK, WholeOrNone, LocksExclude, IdleTouchesNothing, TablesLockedBy
<1>2. IInv /\ [Next]_vars => IInv'
  BY BeginKeeps, ExecuteKeeps, CommitKeeps, DieKeeps, NameTableKeeps, QuietStepKeeps DEF Next
<1> QED
  BY <1>1, <1>2, PTL DEF Spec

(***************************************************************************)
(* The variables keep their types; in particular a command touches nothing *)
(* but what the migration creates, and a request names node_closure before *)
(* nodes.                                                                  *)
(***************************************************************************)
THEOREM TypesAreKept == Spec => []TypeOK
<1>1. IInv => TypeOK
  BY DEF IInv
<1> QED
  BY <1>1, MigrationInvariant, PTL

(***************************************************************************)
(* Whatever commands run together, whichever of them dies between which    *)
(* statements, and whatever requests do meanwhile: the schema and the      *)
(* revision are there whole or not at all, and stay while a request has    *)
(* named a table.                                                          *)
(***************************************************************************)
THEOREM SchemaIsWholeOrNone == Spec => []WholeOrNone
<1>1. IInv => WholeOrNone
  BY DEF IInv
<1> QED
  BY <1>1, MigrationInvariant, PTL

-----------------------------------------------------------------------------
(* What a command may fail on. *)

(***************************************************************************)
(* A command goes up from where it found no revision, and down from where  *)
(* it found one.                                                           *)
(***************************************************************************)
RunsFromWhatItFound ==
  \A m \in Commands : IsRunning(m) => found[m] = (running[m] = "downgrade")

(***************************************************************************)
(* No step but the first turns a command round, or changes what it found.  *)
(***************************************************************************)
LEMMA RunsAsItBegan ==
  ASSUME TypeOK, [Next]_vars, NEW m \in Commands,
         \A command \in {"upgrade", "downgrade"} : ~Begin(m, command)
  PROVE  /\ found'[m] = found[m]
         /\ running'[m] \in {running[m], "none", "failed"}
<1> USE DEF TypeOK
<1>1. ASSUME NEW other \in Commands \ {m}, NEW command \in {"upgrade", "downgrade"},
             Begin(other, command)
      PROVE  found'[m] = found[m] /\ running'[m] = running[m]
  <2>1. found' = [found EXCEPT ![other] = found'[other]]
        /\ running' = [running EXCEPT ![other] = running'[other]]
    <3>1. found' = [found EXCEPT ![other] = "revision" \in schema]
          /\ \E place : running' = [running EXCEPT ![other] = place]
      BY <1>1 DEF Begin
    <3> QED
      BY <3>1
  <2> QED
    BY <2>1
<1>2. ASSUME NEW other \in Commands, NEW outcome \in {"none", "failed"}, End(other, outcome)
      PROVE  running'[m] \in {running[m], outcome}
  BY <1>2 DEF End
<1>3. ASSUME NEW other \in Commands,
             Wait(other) \/ Execute(other) \/ Commit(other) \/ Die(other)
      PROVE  found' = found /\ running'[m] \in {running[m], "none", "failed"}
  BY <1>2, <1>3 DEF Wait, Execute, Commit, Die
<1>4. ASSUME NEW r \in Requests, NameTable(r) \/ EndRequest(r)
      PROVE  found' = found /\ running' = running
  BY <1>4 DEF NameTable, EndRequest
<1> QED
  BY <1>1, <1>3, <1>4 DEF Next, vars

LEMMA StepRunsFromWhatItFound ==
  ASSUME TypeOK, RunsFromWhatItFound, [Next]_vars
  PROVE  RunsFromWhatItFound'
<1> SUFFICES ASSUME NEW m \in Commands, IsRunning(m)'
             PROVE  found'[m] = (running'[m] = "downgrade")
  BY DEF RunsFromWhatItFound
<1>1. ASSUME NEW command \in {"upgrade", "downgrade"}, Begin(m, command)
      PROVE  found'[m] = (running'[m] = "downgrade")
  <2>1. found'[m] = ("revision" \in schema)
    BY <1>1, Zenon DEF Begin, TypeOK
  <2>2. running'[m] = IF command = (IF "revision" \in schema THEN "downgrade" ELSE "upgrade")
                      THEN command ELSE "none"
    BY <1>1 DEF Begin, TypeOK
  <2>3. running'[m] = (IF "revision" \in schema THEN "downgrade" ELSE "upgrade")
    BY <2>2 DEF IsRunning
  <2> QED
    BY <2>1, <2>3
<1>2. CASE \A command \in {"upgrade", "downgrade"} : ~Begin(m, command)
  <2>1. found'[m] = found[m] /\ running'[m] = running[m] /\ IsRunning(m)
    BY <1>2, RunsAsItBegan DEF IsRunning
  <2> QED
    BY <2>1 DEF RunsFromWhatItFound
<1> QED
  BY <1>1, <1>2

(***************************************************************************)
(* A command fails by a refused statement alone.  The schema is whole or   *)
(* not there at all, so that what is refused to a command that goes up is  *)
(* refused because all is there, the revision it had not found included.   *)
(***************************************************************************)
LEMMA StepFailsWhenOvertaken ==
  ASSUME IInv, RunsFromWhatItFound, [Next]_vars, NEW m \in Commands,
         running'[m] = "failed", running[m] /= "failed"
  PROVE  found[m] /= ("revision" \in schema)
<1> USE DEF IInv
<1>1. Execute(m) /\ IsRefused(m)
  <2>1. ASSUME NEW other \in Commands, NEW outcome, End(other, outcome)
        PROVE  other = m /\ outcome = "failed"
    BY <2>1 DEF End, TypeOK
  <2>2. ~\E other \in Commands : Commit(other) \/ Die(other)
    BY <2>1 DEF Commit, Die
  <2>3. ASSUME NEW other \in Commands, Execute(other)
        PROVE  other = m /\ IsRefused(m)
    BY <2>1, <2>3 DEF Execute
  <2>4. ~\E other \in Commands, command \in {"upgrade", "downgrade"} : Begin(other, command)
    <3> SUFFICES ASSUME NEW other \in Commands, NEW command \in {"upgrade", "downgrade"},
                        Begin(other, command)
                 PROVE  FALSE
      OBVIOUS
    <3>1. PICK place \in {"none", "upgrade", "downgrade"} :
            running' = [running EXCEPT ![other] = place]
      BY DEF Begin
    <3> QED
      BY <3>1 DEF TypeOK
  <2>5. ~(\E other \in Commands : Wait(other))
        /\ ~(\E r \in Requests : NameTable(r) \/ EndRequest(r)) /\ ~UNCHANGED vars
    BY DEF Wait, NameTable, EndRequest, vars
  <2> QED
    BY <2>2, <2>3, <2>4, <2>5 DEF Next
<1>2. IsRunning(m) /\ Object(m) \in Everything
  BY <1>1, AtSomeStatement DEF Execute
<1>3. found[m] = (running[m] = "downgrade")
  BY <1>2 DEF RunsFromWhatItFound
<1>4. "revision" \in Everything
  BY StatementsAre
<1>5. CASE running[m] = "upgrade"
  <2>1. schema = Everything
    BY <1>1, <1>5 DEF IsRefused, WholeOrNone
  <2> QED
    BY <1>3, <1>4, <1>5, <2>1
<1>6. CASE running[m] = "downgrade"
  <2>1. schema = {}
    BY <1>1, <1>2, <1>6 DEF IsRefused, WholeOrNone
  <2> QED
    BY <1>3, <1>6, <2>1
<1> QED
  BY <1>2, <1>5, <1>6 DEF IsRunning

(***************************************************************************)
(* No command fails but for what another one committed since it read the   *)
(* revision: a downgrade, whole or broken off, leaves nothing that the     *)
(* next upgrade would trip over.                                           *)
(***************************************************************************)
THEOREM FailuresAreOvertakings == Spec => FailsOnlyWhenOvertaken
<1>1. Init => RunsFromWhatItFound
  BY DEF Init, RunsFromWhatItFound, IsRunning
<1>2. IInv => TypeOK
  BY DEF IInv
<1>3. TypeOK /\ RunsFromWhatItFound /\ [Next]_vars => RunsFromWhatItFound'
  BY StepRunsFromWhatItFound
<1>4. IInv /\ RunsFromWhatItFound /\ [Next]_vars =>
        [\A m \in Commands :
           running'[m] = "failed" /\ running[m] /= "failed" =>
             found[m] /= ("revision" \in schema)]_vars
  BY StepFailsWhenOvertaken
<1> QED
  BY <1>1, <1>2, <1>3, <1>4, MigrationInvariant, PTL DEF Spec, FailsOnlyWhenOvertaken

=============================================================================

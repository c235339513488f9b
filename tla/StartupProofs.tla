----------------------------- MODULE StartupProofs -----------------------------
(***************************************************************************)
(* Proofs about Startup, for any number of retries.                        *)
(***************************************************************************)
EXTENDS Startup, TLAPS

-----------------------------------------------------------------------------
(* The inductive invariant. *)

(***************************************************************************)
(* Postgres is never set up a second time, so that it has been up lasts.   *)
(***************************************************************************)
HealthyMeansWasUp ==
  healthy = "healthy" \/ api \in {"loading", "connecting", "upgrading"}
    => postgres \in {"accepting", "down"}

(***************************************************************************)
(* An upgrade that has nothing to do says so of what it read, which may    *)
(* have changed since: only by a command that is remembered.               *)
(***************************************************************************)
FoundIsRemembered ==
  api = "upgrading" /\ found = "0001" /\ outcome = "stands" => revision = "0001"

IInv == TypeOK /\ HealthyMeansWasUp /\ FoundIsRemembered /\ ServesOverItsSchema

LEMMA CountStays ==
  ASSUME TypeOK, CheckHealth
  PROVE  failures' \in 0..Retries
<1>1. failures \in 0..Retries
  BY DEF TypeOK
<1>2. failures' = 0 \/ failures' = IF failures < Retries THEN failures + 1 ELSE Retries
  BY DEF CheckHealth
<1> QED
  BY <1>1, <1>2, RetriesAssumption

LEMMA TypesStep ==
  ASSUME TypeOK, Next
  PROVE  TypeOK'
<1> USE DEF TypeOK
<1>1. CASE InitDb \/ Accept \/ PostgresStops
  BY <1>1 DEF InitDb, Accept, PostgresStops
<1>2. CASE CheckHealth
  <2>1. healthy' \in {"starting", "healthy", "unhealthy"}
    BY <1>2 DEF CheckHealth
  <2>2. failures' \in 0..Retries
    BY <1>2, CountStays
  <2> QED
    BY <1>2, <2>1, <2>2 DEF CheckHealth
<1>3. CASE StartApi \/ LoadSettings
  BY <1>3 DEF StartApi, LoadSettings, Move
<1>4. CASE ReadRevision
  BY <1>4 DEF ReadRevision, Move, Revisions
<1>5. CASE Upgrade
  <2>1. api' \in {"upgraded", "stopped"}
    BY <1>5 DEF Upgrade, Move
  <2>2. revision' \in Revisions /\ outcome' \in {"stands", "undone"}
    BY <1>5 DEF Upgrade, NothingToUpgrade, CommitUpgrade, Revisions
  <2>3. UNCHANGED <<url, postgres, failures, healthy, complaint, found>>
    BY <1>5 DEF Upgrade
  <2> QED
    BY <2>1, <2>2, <2>3
<1>6. CASE Serve \/ ApiStops
  BY <1>6 DEF Serve, ApiStops, Move
<1>7. CASE UpAgain \/ MigrateByHand
  BY <1>7 DEF UpAgain, MigrateByHand, Move, Revisions
<1> QED
  BY <1>1, <1>2, <1>3, <1>4, <1>5, <1>6, <1>7 DEF Next

(***************************************************************************)
(* Whether a command has left 0001 is remembered from the reading of the   *)
(* revision until the server stops.                                        *)
(***************************************************************************)
LEMMA SchemaStep ==
  ASSUME TypeOK, FoundIsRemembered, ServesOverItsSchema, Next
  PROVE  FoundIsRemembered' /\ ServesOverItsSchema'
<1> USE DEF FoundIsRemembered, ServesOverItsSchema
<1>1. CASE InitDb \/ Accept \/ PostgresStops \/ CheckHealth
  BY <1>1 DEF InitDb, Accept, PostgresStops, CheckHealth
<1>2. CASE StartApi \/ LoadSettings \/ ApiStops \/ UpAgain
  BY <1>2 DEF StartApi, LoadSettings, ApiStops, UpAgain, Move
<1>3. CASE ReadRevision
  BY <1>3 DEF ReadRevision, Move
<1>4. CASE Upgrade
  <2>1. api = "upgrading"
    BY <1>4 DEF Upgrade
  <2>2. CASE NothingToUpgrade /\ Move("upgraded")
    BY <2>1, <2>2 DEF NothingToUpgrade, Move
  <2>3. CASE CommitUpgrade /\ Move("upgraded")
    BY <2>3 DEF CommitUpgrade, Move
  <2>4. CASE Move("stopped")
    BY <2>4 DEF Move
  <2> QED
    BY <1>4, <2>2, <2>3, <2>4 DEF Upgrade
<1>5. CASE Serve
  BY <1>5 DEF Serve, Move
<1>6. CASE MigrateByHand
  BY <1>6 DEF MigrateByHand
<1> QED
  BY <1>1, <1>2, <1>3, <1>4, <1>5, <1>6 DEF Next

LEMMA StepKeeps ==
  ASSUME IInv, Next
  PROVE  IInv'
<1>1. TypeOK' /\ FoundIsRemembered' /\ ServesOverItsSchema'
  BY TypesStep, SchemaStep DEF IInv
<1> USE DEF IInv, HealthyMeansWasUp
<1>2. CASE InitDb \/ Accept \/ PostgresStops
  BY <1>1, <1>2 DEF InitDb, Accept, PostgresStops
<1>3. CASE CheckHealth
  <2>1. healthy' = "healthy" => postgres = "accepting" \/ healthy = "healthy"
    BY <1>3 DEF CheckHealth, AnswersCheck
  <2> QED
    BY <1>1, <1>3, <2>1 DEF CheckHealth
<1>4. CASE StartApi
  BY <1>1, <1>4 DEF StartApi, Move
<1>5. CASE LoadSettings \/ ReadRevision
  BY <1>1, <1>5 DEF LoadSettings, ReadRevision, Move
<1>6. CASE Upgrade
  BY <1>1, <1>6 DEF Upgrade, Move
<1>7. CASE Serve \/ ApiStops
  BY <1>1, <1>7 DEF Serve, ApiStops, Move
<1>8. CASE UpAgain \/ MigrateByHand
  BY <1>1, <1>8 DEF UpAgain, MigrateByHand, Move
<1> QED
  BY <1>2, <1>3, <1>4, <1>5, <1>6, <1>7, <1>8 DEF Next

LEMMA InvariantHolds == Spec => []IInv
<1>1. Init => TypeOK
  BY RetriesAssumption DEF Init, TypeOK, Revisions
<1>2. Init => IInv
  BY <1>1 DEF Init, IInv, HealthyMeansWasUp, FoundIsRemembered, ServesOverItsSchema
<1>3. TypeOK /\ UNCHANGED vars => TypeOK'
  BY DEF TypeOK, vars
<1>4. IInv /\ UNCHANGED vars => IInv'
  BY <1>3 DEF IInv, HealthyMeansWasUp, FoundIsRemembered, ServesOverItsSchema, vars
<1> QED
  BY <1>2, <1>4, StepKeeps, PTL DEF Spec

-----------------------------------------------------------------------------
(* What follows from it. *)

(***************************************************************************)
(* The variables keep their types: no failed check is counted beyond the   *)
(* retries of the health check, and no state of a container is made up.    *)
(***************************************************************************)
THEOREM TypesAreKept == Spec => []TypeOK
<1>1. IInv => TypeOK
  BY DEF IInv
<1> QED
  BY <1>1, InvariantHolds, PTL

(***************************************************************************)
(* The server's container never migrates while Postgres is being set up:   *)
(* the health check looks where initdb's own server does not listen.       *)
(***************************************************************************)
THEOREM NeverRacesInitdbHolds == Spec => []NeverRacesInitdb
<1>1. IInv => NeverRacesInitdb
  BY DEF IInv, HealthyMeansWasUp, NeverRacesInitdb
<1> QED
  BY <1>1, InvariantHolds, PTL

(***************************************************************************)
(* Whatever other commands do, and wherever the containers are stopped, a  *)
(* server is over revision 0001 unless a command has left it after the     *)
(* upgrade of the server's own container had found or made it.             *)
(***************************************************************************)
THEOREM ServesOverItsSchemaHolds == Spec => []ServesOverItsSchema
<1>1. IInv => ServesOverItsSchema
  BY DEF IInv
<1> QED
  BY <1>1, InvariantHolds, PTL

=============================================================================

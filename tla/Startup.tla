------------------------------- MODULE Startup -------------------------------
(***************************************************************************)
(* docker-compose.yml bringing up the two containers: Postgres and its     *)
(* health check, then the server's container, in which alembic reads its   *)
(* settings and upgrades the database, and after it uvicorn serves.  Other *)
(* commands are carried out meanwhile, from the host or by hand in the     *)
(* container.  SchemaMigration looks into commands; here each commits      *)
(* as a whole or fails.                                                    *)
(***************************************************************************)
EXTENDS Naturals

CONSTANT Retries  \* failed health checks, those of the start period included

ASSUME RetriesAssumption == Retries \in Nat \ {0}

VARIABLES
  url,        \* what DATABASE_URL is
  postgres,   \* what the Postgres container does
  failures,   \* health checks that have failed in a row
  healthy,    \* what docker makes of them
  api,        \* what the server's container does
  complaint,  \* what its log says of DATABASE_URL when it stopped on it
  revision,   \* the revision the database is at
  found,      \* the revision the container's own upgrade has read
  outcome     \* history: "undone" if a command has left 0001 since that upgrade had it

vars == <<url, postgres, failures, healthy, api, complaint, revision, found, outcome>>

Revisions == {"none", "0001", "newer"}

(***************************************************************************)
(* A plain URL is rewritten to the async driver; one that names a driver   *)
(* is left alone.  Neither config.py nor pydantic parses it.               *)
(***************************************************************************)
Usable == {"plain", "async"}

RefusedBySettings == {"unset", "empty"}

RefusedByEngine == {"unparseable", "other driver"}

TypeOK ==
  /\ url \in Usable \union RefusedBySettings \union RefusedByEngine
  /\ postgres \in {"created", "initdb", "accepting", "down"}
  /\ failures \in 0..Retries
  /\ healthy \in {"starting", "healthy", "unhealthy"}
  /\ api \in {"created", "loading", "connecting", "upgrading", "upgraded", "serving", "stopped"}
  /\ complaint \in {"none", "names the variable", "names a URL"}
  /\ revision \in Revisions
  /\ found \in Revisions \union {"connection lost"}
  /\ outcome \in {"stands", "undone"}

Init ==
  /\ url \in Usable \union RefusedBySettings \union RefusedByEngine
  /\ postgres = "created"
  /\ failures = 0
  /\ healthy = "starting"
  /\ api = "created"
  /\ complaint = "none"
  /\ revision \in Revisions
  /\ found = "none"
  /\ outcome = "stands"

-----------------------------------------------------------------------------
(* Postgres. *)

(***************************************************************************)
(* Over an empty data directory the entrypoint first runs a server of its  *)
(* own, on the unix socket only.                                           *)
(***************************************************************************)
InitDb ==
  /\ postgres = "created" /\ revision = "none"
  /\ postgres' = "initdb"
  /\ UNCHANGED <<url, failures, healthy, api, complaint, revision, found, outcome>>

Accept ==
  /\ postgres /= "accepting"
  /\ postgres' = "accepting"
  /\ UNCHANGED <<url, failures, healthy, api, complaint, revision, found, outcome>>

PostgresStops ==
  /\ postgres = "accepting"
  /\ postgres' = "down"
  /\ found' = IF api = "upgrading" THEN "connection lost" ELSE found
  /\ UNCHANGED <<url, failures, healthy, api, complaint, revision, outcome>>

AnswersOnSocket == postgres \in {"initdb", "accepting"}  \* mistake: pg_isready without -h

(***************************************************************************)
(* pg_isready -h 127.0.0.1.                                                *)
(***************************************************************************)
AnswersCheck == postgres = "accepting"

CheckHealthForEver ==  \* mistake: no retries, and so never unhealthy
  /\ IF AnswersCheck
     THEN failures' = 0 /\ healthy' = "healthy"
     ELSE failures' = failures + 1 /\ UNCHANGED healthy
  /\ UNCHANGED <<url, postgres, api, complaint, revision, found, outcome>>

CheckHealth ==
  /\ IF AnswersCheck
     THEN failures' = 0 /\ healthy' = "healthy"
     ELSE /\ failures' = IF failures < Retries THEN failures + 1 ELSE Retries
          /\ healthy' = IF failures' = Retries THEN "unhealthy" ELSE healthy
  /\ UNCHANGED <<url, postgres, api, complaint, revision, found, outcome>>

-----------------------------------------------------------------------------
(* The server's container. *)

Move(place) == api' = place

StartWithoutGivingUp ==  \* mistake: whoever waits is never told
  /\ api = "created"
  /\ healthy = "healthy"
  /\ Move("loading")
  /\ UNCHANGED <<url, postgres, failures, healthy, complaint, revision, found, outcome>>

(***************************************************************************)
(* condition: service_healthy.  An unhealthy Postgres is the end of        *)
(* `docker compose up`.                                                    *)
(***************************************************************************)
StartApi ==
  /\ api = "created"
  /\ \/ healthy = "healthy" /\ Move("loading")
     \/ healthy = "unhealthy" /\ Move("stopped")
  /\ UNCHANGED <<url, postgres, failures, healthy, complaint, revision, found, outcome>>

(***************************************************************************)
(* env.py imports app.config, whose settings may not be there, and then    *)
(* makes an engine of the URL.                                             *)
(***************************************************************************)
LoadSettings ==
  /\ api = "loading"
  /\ \/ url \in Usable /\ Move("connecting") /\ UNCHANGED complaint
     \/ url \in RefusedBySettings /\ Move("stopped") /\ complaint' = "names the variable"
     \/ url \in RefusedByEngine /\ Move("stopped") /\ complaint' = "names a URL"
  /\ UNCHANGED <<url, postgres, failures, healthy, revision, found, outcome>>

(***************************************************************************)
(* alembic opens the one connection of its process and reads               *)
(* alembic_version over it.                                                *)
(***************************************************************************)
ReadRevision ==
  /\ api = "connecting"
  /\ \/ /\ postgres = "accepting"
        /\ Move("upgrading")
        /\ found' = revision /\ outcome' = "stands"
     \/ Move("stopped") /\ UNCHANGED <<found, outcome>>
  /\ UNCHANGED <<url, postgres, failures, healthy, complaint, revision>>

(***************************************************************************)
(* At 0001 there is nothing to do.  From nothing, the statements of the    *)
(* migration are refused if somebody else's are committed by then, and a   *)
(* commit may be carried out without the container hearing of it.  An      *)
(* upgrade fails over a revision that is not in this image, over a lost    *)
(* connection, or for whatever else.                                       *)
(***************************************************************************)
NothingToUpgrade == found = "0001" /\ UNCHANGED <<revision, outcome>>

CommitUpgrade == found = "none" /\ revision = "none" /\ revision' = "0001" /\ outcome' = "stands"

UpgradeThenServeAnyway ==  \* mistake: `;` for `&&`
  /\ api = "upgrading"
  /\ Move("upgraded")
  /\ NothingToUpgrade \/ CommitUpgrade \/ UNCHANGED <<revision, outcome>>
  /\ UNCHANGED <<url, postgres, failures, healthy, complaint, found>>

Upgrade ==
  /\ api = "upgrading"
  /\ \/ (NothingToUpgrade \/ CommitUpgrade) /\ Move("upgraded")
     \/ (CommitUpgrade \/ UNCHANGED <<revision, outcome>>) /\ Move("stopped")
  /\ UNCHANGED <<url, postgres, failures, healthy, complaint, found>>

(***************************************************************************)
(* `alembic upgrade head && exec uvicorn`: the shell has seen the upgrade  *)
(* succeed and runs the server, which opens no connection and does not     *)
(* look at the revision.                                                   *)
(***************************************************************************)
Serve ==
  /\ api = "upgraded"
  /\ Move("serving")
  /\ UNCHANGED <<url, postgres, failures, healthy, complaint, revision, found, outcome>>

(***************************************************************************)
(* The container is stopped, or its process dies, wherever it is.          *)
(***************************************************************************)
ApiStops ==
  /\ api \in {"loading", "connecting", "upgrading", "upgraded", "serving"}
  /\ Move("stopped")
  /\ UNCHANGED <<url, postgres, failures, healthy, complaint, revision, found, outcome>>

-----------------------------------------------------------------------------
(* Operators. *)

(***************************************************************************)
(* `docker compose up` again, maybe with another DATABASE_URL.             *)
(***************************************************************************)
UpAgain ==
  /\ api = "stopped"
  /\ Move("created")
  /\ complaint' = "none"
  /\ url' \in Usable \union RefusedBySettings \union RefusedByEngine
  /\ UNCHANGED <<postgres, failures, healthy, revision, found, outcome>>

(***************************************************************************)
(* Another alembic command commits: from the host, from a newer image, or  *)
(* by hand in the server's container.  It needs Postgres and nothing else. *)
(***************************************************************************)
MigrateByHand ==
  /\ postgres = "accepting"
  /\ revision' \in Revisions \ {revision}
  /\ outcome' = IF revision = "0001" THEN "undone" ELSE outcome
  /\ UNCHANGED <<url, postgres, failures, healthy, api, complaint, found>>

-----------------------------------------------------------------------------

Next ==
  \/ InitDb \/ Accept \/ PostgresStops \/ CheckHealth
  \/ StartApi \/ LoadSettings \/ ReadRevision \/ Upgrade \/ Serve \/ ApiStops
  \/ UpAgain \/ MigrateByHand

Spec == Init /\ [][Next]_vars

(***************************************************************************)
(* Docker goes on checking and starts what it has been waiting to start;   *)
(* a container that has been started runs.  Nobody has to start anything   *)
(* again.                                                                  *)
(***************************************************************************)
FairSpec ==
  /\ Spec
  /\ WF_vars(CheckHealth) /\ SF_vars(StartApi)
  /\ WF_vars(LoadSettings) /\ WF_vars(ReadRevision) /\ WF_vars(Upgrade) /\ WF_vars(Serve)

-----------------------------------------------------------------------------

(***************************************************************************)
(* A server that is about to come up, or is up, is over revision 0001,     *)
(* whatever other commands did while it upgraded: over another schema it   *)
(* is only if one of them left 0001 after its own upgrade had found or     *)
(* made that, of which the container takes no notice.                      *)
(***************************************************************************)
ServesOverItsSchema ==
  api \in {"upgraded", "serving"} /\ outcome = "stands" => revision = "0001"

(***************************************************************************)
(* A migration is never begun while Postgres is still being set up: it     *)
(* can miss its database only if that went down after it had been up.      *)
(***************************************************************************)
NeverRacesInitdb ==
  api \in {"loading", "connecting", "upgrading"} => postgres \in {"accepting", "down"}

(***************************************************************************)
(* Every `docker compose up` comes to an end, one way or the other.        *)
(***************************************************************************)
EveryStartEnds ==
  api \in {"created", "loading", "connecting", "upgrading", "upgraded"}
    ~> api \in {"serving", "stopped"}

(***************************************************************************)
(* "an unset or malformed URL is a startup failure that names the          *)
(* variable" (README.md).                                                  *)
(***************************************************************************)
BadUrlNamesTheVariable == complaint \in {"none", "names the variable"}

=============================================================================

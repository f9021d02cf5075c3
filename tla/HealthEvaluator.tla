-------------------------- MODULE HealthEvaluator --------------------------
(***************************************************************************)
(* The conditions of ops_agent/evaluator.py that are judged from a single  *)
(* bundle alone: DB_DEGRADED and WORKER_REPLICA_UNAVAILABLE.               *)
(*                                                                         *)
(* Besides the fields ConditionEvaluator reads, a bundle has               *)
(*   health      the readiness item: status, freshness, contract (as in a  *)
(*               Kafka item; both readiness items come from one response), *)
(*               and of an OK item body with http, status, reasons, pg     *)
(*   deployment  the item of the worker deployment: status, freshness,     *)
(*               contract, and of an OK item body with generation,         *)
(*               observed, desired, current, available; a count that the   *)
(*               API server leaves out is None                             *)
(***************************************************************************)
EXTENDS ConditionEvaluator

CONSTANTS
  RequiredStandbys, RequiredSync, AllowedDelay   \* EvaluationPolicy.local_ha_*

ResponseUsable(i) == i.status = "OK" /\ i.freshness = "FRESH" /\ i.contract

-----------------------------------------------------------------------------
(* DB_DEGRADED                                                             *)

\* the status line and the body agree, and the body names its reasons
ReadinessUsable(b) ==
  /\ ResponseUsable(b.health)
  /\ b.health.body.status \in {"ready", "degraded", "not_ready"}
  /\ b.health.body.http = IF b.health.body.status = "not_ready" THEN 503 ELSE 200

\* what the policy calls degraded, seen in the counts of the same response
Degradations(pg) ==
  LET observed == [postgres_primary_unreachable |-> ~pg.primary,
                   postgres_ready_standbys_below_minimum |-> pg.standbys < RequiredStandbys,
                   postgres_sync_standbys_below_minimum |-> pg.sync < RequiredSync,
                   postgres_replication_delay_high |-> pg.delay > AllowedDelay]
  IN  {r \in DOMAIN observed : observed[r]}

NotPostgres == {"schema_not_ready", "kafka_unreachable", "unsafe_auth_secret"}

DbReasons(b) == b.health.body.reasons \ NotPostgres

\* a deployment without Pgpool, a reason that the counts do not bear out, or a
\* count that should have been a reason
DbCoherent(b) ==
  /\ b.health.body.pg.ha
  /\ DbReasons(b) = Degradations(b.health.body.pg)
  /\ (b.health.body.status = "ready") <=> (b.health.body.reasons = {})

DbState(b) ==
  IF ~ReadinessUsable(b) \/ ~DbCoherent(b) THEN "UNKNOWN"
  ELSE IF DbReasons(b) # {} THEN "PRESENT" ELSE "ABSENT"

-----------------------------------------------------------------------------
(* WORKER_REPLICA_UNAVAILABLE: a shortfall in one snapshot may still be    *)
(* within its grace, so it is never PRESENT                                *)

CountsKnown(d) ==
  None \notin {d.generation, d.observed, d.desired, d.current, d.available}

DeploymentUsable(b) ==
  /\ ResponseUsable(b.deployment)
  /\ LET d == b.deployment.body
     IN  /\ CountsKnown(d)
         /\ d.generation = d.observed
         /\ d.available <= d.current

WorkerState(b) ==
  IF /\ DeploymentUsable(b)
     /\ b.deployment.body.current >= b.deployment.body.desired
     /\ b.deployment.body.available >= b.deployment.body.desired
  THEN "ABSENT" ELSE "UNKNOWN"

-----------------------------------------------------------------------------
(* evaluate_bundle                                                         *)

\* ConditionEvaluation.validate_output_contract
MeetsContract(e) ==
  LET conditions == {e.core, e.concentration, e.db, e.worker}
  IN  /\ (e.status = "PARTIAL") <=> ("UNKNOWN" \in conditions \cup {e.noBacklog})
      /\ e.noBacklog = Assessment({e.core, e.concentration})

\* a bundle outside the policy's scope is refused
Evaluation(b) ==
  LET core == CoreState(b)
      concentration == ConcentrationState(b)
      noBacklog == Assessment({core, concentration})
      unknown == "UNKNOWN" \in {core, concentration, DbState(b), WorkerState(b), noBacklog}
      e == [core |-> core, concentration |-> concentration,
            db |-> DbState(b), worker |-> WorkerState(b), noBacklog |-> noBacklog,
            status |-> IF unknown THEN "PARTIAL" ELSE "COMPLETE"]
  IN  IF b.inScope /\ MeetsContract(e) THEN e ELSE None
=============================================================================

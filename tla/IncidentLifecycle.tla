-------------------------- MODULE IncidentLifecycle --------------------------
(***************************************************************************)
(* ops_agent/incident_lifecycle.py: the record of one backlog incident and *)
(* the transitions that attach artifacts to it.  Artifacts are named by    *)
(* their digest, so two artifacts with one id are the same artifact.       *)
(*                                                                         *)
(* An activation is [id, present, incident, incidents, identity,           *)
(* completed, stamp], a diagnosis [id, activation, valid, completed] and a *)
(* recovery evaluation RecoveryEvaluator's Artifact.                       *)
(***************************************************************************)
EXTENDS RecoveryEvaluator

VARIABLE record   \* None, or the stored ops.incident.v1 record

Event(type, at, artifact, state) ==
  [type |-> type, at |-> at, artifact |-> artifact, state |-> state]

IsOpen == record # None /\ record.state # "CLOSED"

LastEvent == record.timeline[Len(record.timeline)]

\* create_incident refuses an activation that is not PRESENT or whose
\* captures do not share one complete source identity
CreateIncident(activation) ==
  /\ record = None
  /\ activation.present /\ activation.identity # None
  /\ record' =
       [activation |-> activation,
        state |-> "ACTIVE",
        outcome |-> None,
        closedAt |-> None,
        diagnosis |-> None,
        evaluations |-> << >>,
        current |-> None,
        timeline |-> <<Event("DETECTED", activation.completed, activation.id, "DETECTED"),
                       Event("ACTIVE", activation.completed, activation.id, "ACTIVE")>>]

\* the one diagnosis of an incident; the same one again changes nothing
AcceptsDiagnosis(d) ==
  /\ IsOpen
  /\ record.diagnosis = None
  /\ d.activation = record.activation.id
  /\ d.valid
  /\ d.completed >= LastEvent.at

AttachDiagnosis(d) ==
  /\ AcceptsDiagnosis(d)
  /\ record' =
       [record EXCEPT
          !.diagnosis = d.id,
          !.timeline = Append(@, Event("DIAGNOSIS_ATTACHED", d.completed, d.id, record.state))]

NotAttached(e) ==
  \A k \in DOMAIN record.evaluations : record.evaluations[k].id # e.id

\* mutant: only the evaluations have to be in order
InOrder_History(e) ==
  record.evaluations # << >> => e.observed >= Last(record.evaluations).observed

\* mutant: anything after the detection is in order
InOrder_SinceDetection(e) == e.observed >= record.activation.completed

InOrder(e) ==
  /\ e.observed >= LastEvent.at
  /\ record.evaluations # << >> => e.observed >= Last(record.evaluations).observed

ClosesWith(e) == record.state # "CLOSED" /\ e.state = "RECOVERED"

\* a repeated evaluation returns the record unchanged; one that is none, one of
\* another incident, one out of order and a RECOVERED of policy v1 are refused
AcceptsRecovery(e) ==
  /\ record # None
  /\ MeetsRecoveryContract(e)
  /\ NotAttached(e)
  /\ e.incident = record.activation.incident
  /\ e.activation = record.activation.id
  /\ InOrder(e)
  /\ ClosesWith(e) => e.policy = "v2"

\* mutant: the branch for closed records is missing
NextState_Reopens(e) ==
  IF e.state = "UNKNOWN" THEN record.state ELSE e.state

NextState(e) ==
  IF record.state = "CLOSED" \/ e.state = "UNKNOWN" THEN record.state ELSE e.state

EventType(e) ==
  IF record.state = "CLOSED" \/ e.state = "UNKNOWN" THEN "OBSERVATION_UPDATED"
  ELSE IF e.state = "ACTIVE" THEN "RECOVERY_OBSERVED" ELSE e.state

Observed(e) ==
  [record EXCEPT
     !.evaluations = Append(@, [id |-> e.id, state |-> e.state, observed |-> e.observed]),
     !.current = [state |-> e.state, observed |-> e.observed],
     !.state = NextState(e),
     !.timeline = Append(@, Event(EventType(e), e.observed, e.id, NextState(e)))]

Closed(r, e) ==
  [r EXCEPT !.state = "CLOSED",
            !.outcome = "RECOVERED",
            !.closedAt = e.observed,
            !.timeline = Append(@, Event("CLOSED", e.observed, e.id, "CLOSED"))]

AttachRecovery(e) ==
  /\ AcceptsRecovery(e)
  /\ record' = IF ClosesWith(e) THEN Closed(Observed(e), e) ELSE Observed(e)

-----------------------------------------------------------------------------
(* IncidentRecord.validate_incident, evaluated on every stored record      *)

Chronological(events, time(_)) ==
  \A j, k \in DOMAIN events : j <= k => time(events[j]) <= time(events[k])

OfType(type) ==
  {k \in DOMAIN record.timeline : record.timeline[k].type = type}

\* history in order from the two events of the creation on, nothing twice, one
\* closing event exactly when it is closed, at the time it was closed
ValidRecord ==
  /\ Chronological(record.timeline, LAMBDA t : t.at)
  /\ \A j, k \in DOMAIN record.timeline :
       record.timeline[j] = record.timeline[k] => j = k
  /\ record.timeline[1].type = "DETECTED" /\ record.timeline[2].type = "ACTIVE"
  /\ Chronological(record.evaluations, LAMBDA e : e.observed)
  /\ \A j, k \in DOMAIN record.evaluations :
       record.evaluations[j].id = record.evaluations[k].id => j = k
  /\ IF record.state = "CLOSED"
     THEN /\ record.outcome = "RECOVERED"
          /\ OfType("RECOVERED") # {}
          /\ \E k \in DOMAIN record.timeline :
               OfType("CLOSED") = {k} /\ record.timeline[k].at = record.closedAt
     ELSE record.outcome = None /\ record.closedAt = None

\* _materialize raises when the rules of the record do not hold: no history that
\* create_incident and the attach functions accept is refused by them, whatever
\* the order in which diagnoses and evaluations arrive
RecordIsValid == record # None => ValidRecord
=============================================================================

-------------------------- MODULE RecoveryEvaluator --------------------------
(***************************************************************************)
(* ops_agent/recovery_evaluator.py: ACTIVE, RECOVERING, UNKNOWN and, under *)
(* policy v2, RECOVERED from the captures after an activation.  A global   *)
(* integrity issue (another source, another incident, a decreasing offset, *)
(* a timestamp that goes back) spoils every later capture of the sequence; *)
(* any other issue spoils the windows its capture lies in.                 *)
(*                                                                         *)
(* A readiness item is [status, freshness, selector, provenance, body]:    *)
(* selector and provenance tell whether those checks hold and body whether *)
(* the answer is 200, ready, without reasons, in HA mode, with a primary.  *)
(***************************************************************************)
EXTENDS SequenceEvaluator

CONSTANTS
  RecoveryCount,            \* captures in a draining or a settled window (3)
  MinInterval, MaxInterval, \* tolerated distance of two exporter stamps
  LagMaximum,               \* the recovered envelope: total lag,
  ProduceMinimum, ProduceMaximum  \* and produce rate; the slope may be 0

ASSUME RecoveryAssumption ==
  /\ RecoveryCount \in Nat \ {0}
  /\ {MinInterval, MaxInterval, LagMaximum, ProduceMinimum, ProduceMaximum} \subseteq Nat

Policies == {"v1", "v2"}

\* what a policy calls recovered: v1 leaves it to be calibrated
Envelope(policy) ==
  IF policy = "v1" THEN None
  ELSE [lag |-> LagMaximum, slope |-> 0, produce |-> ProduceMinimum..ProduceMaximum,
        count |-> RecoveryCount]

\* a calibrated envelope is not a missing one
ASSUME NoneIsNoEnvelope == Envelope("v2") # None

\* the same identity as the activation's, but the application endpoint counts
ConditionIdentity(b) == IF Endpoint(b.application) = None THEN None ELSE SourceIdentity(b)

RecoveryIdentity(b) ==
  LET own == ConditionIdentity(b) IN IF own = None THEN None ELSE <<own, Endpoint(b.application)>>

PostgresReady(b) ==
  One(b.readiness) /\ \A r \in b.readiness :
    r.status = "OK" /\ r.freshness = "FRESH" /\ r.selector /\ r.provenance /\ r.body

\* activation: [present, incident, incidents, identity, completed, stamp]; an
\* activation that is not one spoils everything after it
ActivationUsable(activation) ==
  /\ activation.present
  /\ activation.incidents = {activation.incident}
  /\ activation.identity # None

\* what the loop over the bundles carries from one to the next
FirstScan(activation) ==
  [completed |-> activation.completed, stamp |-> activation.stamp, identity |-> None,
   offsets |-> None, broken |-> ~ActivationUsable(activation), seen |-> << >>]

OffsetsDecrease(offsets, previous) ==
  /\ previous # None
  /\ \E p \in DOMAIN offsets :
       \/ p \notin DOMAIN previous
       \/ offsets[p].end < previous[p].end
       \/ offsets[p].committed < previous[p].committed

ExpectedIdentity(scan, b) ==
  IF scan.identity = None THEN RecoveryIdentity(b) ELSE scan.identity

IntegrityBroken(activation, scan, b) ==
  \/ ~b.inScope
  \/ b.incident # activation.incident
  \/ b.started <= activation.completed
  \/ b.completed <= scan.completed
  \/ ConditionIdentity(b) # activation.identity
  \/ RecoveryIdentity(b) # ExpectedIdentity(scan, b)
  \/ OffsetsDecrease(Offsets(b), scan.offsets)

Interval(scan, b) == KafkaStamp(b) - scan.stamp

\* a negative lag of the exporter is an issue, whatever the offsets say
NegativeLag(b) ==
  {i \in b.lag : i.status = "OK" /\ \E k \in DOMAIN i.samples : i.samples[k] < 0}

LocallyUsable(scan, b, m) ==
  /\ CoreUsable(b) /\ NegativeLag(b) = {}
  /\ ConditionIdentity(b) # None /\ PostgresReady(b)
  /\ PartitionSet(b) = Partitions
  /\ KafkaStamp(b) # None /\ scan.stamp # None
  /\ Interval(scan, b) \in MinInterval..MaxInterval
  /\ m # None /\ Consistent(m)

ScanNext(activation, scan, b) ==
  LET broken == scan.broken \/ IntegrityBroken(activation, scan, b)
      m      == Measurement(b)
  IN  [completed |-> b.completed,
       stamp |-> KafkaStamp(b),
       identity |-> ExpectedIdentity(scan, b),
       offsets |-> IF Measured(b) = {} THEN scan.offsets ELSE Offsets(b),
       broken |-> broken,
       seen |-> Append(scan.seen, [usable |-> ~broken /\ LocallyUsable(scan, b, m), m |-> m])]

\* the observations of a sequence of bundles: [usable, m]
Observe(activation, bs) ==
  LET scan[k \in 0..Len(bs)] ==
        IF k = 0 THEN FirstScan(activation) ELSE ScanNext(activation, scan[k-1], bs[k])
  IN  scan[Len(bs)].seen

Draining(m) ==
  m # None /\ Consistent(m) /\ m.slope < 0 /\ m.commit >= m.produce

Window(k) == (IF k < RecoveryCount THEN 1 ELSE k - RecoveryCount + 1)..k

StateAfter(obs, k) ==
  IF \E j \in Window(k) : ~obs[j].usable THEN "UNKNOWN"
  ELSE IF k >= RecoveryCount /\ \A j \in Window(k) : Draining(obs[j].m) THEN "RECOVERING"
  ELSE "ACTIVE"

InEnvelope(o, envelope) ==
  /\ o.usable
  /\ o.m.lag <= envelope.lag /\ o.m.slope <= envelope.slope
  /\ o.m.produce \in envelope.produce /\ o.m.commit >= o.m.produce

\* mutant: a capture outside the envelope does not end the run
Reentry_NotReset(obs, envelope) ==
  LET Drained(k) == \E j \in 1..k : StateAfter(obs, j) = "RECOVERING"
      run[k \in 0..Len(obs)] ==
        IF k = 0 THEN 0
        ELSE run[k-1] + (IF Drained(k) /\ InEnvelope(obs[k], envelope) THEN 1 ELSE 0)
  IN  run[Len(obs)]

\* how long the run of captures in the envelope is at the end, counted only
\* from the first RECOVERING capture on
Reentry(obs, envelope) ==
  LET Drained(k) == \E j \in 1..k : StateAfter(obs, j) = "RECOVERING"
      run[k \in 0..Len(obs)] ==
        IF k = 0 THEN 0
        ELSE IF Drained(k) /\ InEnvelope(obs[k], envelope) THEN run[k-1] + 1 ELSE 0
  IN  run[Len(obs)]

\* evaluate_recovery for a non-empty sequence of bundles; only the last
\* observation is promoted to RECOVERED
EvaluateRecovery(activation, bs, policy) ==
  LET obs == Observe(activation, bs)
      envelope == Envelope(policy)
  IN  IF envelope # None /\ Reentry(obs, envelope) >= envelope.count THEN "RECOVERED"
      ELSE StateAfter(obs, Len(bs))

-----------------------------------------------------------------------------
(* The artifact of an evaluation, ops.recovery.v1                          *)

\* PARTIAL stands for an UNKNOWN state, and v1 completes nothing
StatusOf(state) == IF state = "UNKNOWN" THEN "PARTIAL" ELSE "COMPLETE"

CompletionOf(state, policy) ==
  IF policy = "v1" THEN "CALIBRATION_PENDING"
  ELSE IF state = "RECOVERED" THEN "COMPLETE" ELSE "IN_PROGRESS"

\* of the evaluation that found this state, its last bundle completed then
Artifact(id, activation, policy, state, observed) ==
  [id |-> id, activation |-> activation.id, incident |-> activation.incident,
   policy |-> policy, state |-> state, status |-> StatusOf(state),
   completion |-> CompletionOf(state, policy), observed |-> observed]

\* RecoveryEvaluation.validate_output_contract, checked of every artifact that is
\* made or read
MeetsRecoveryContract(e) ==
  /\ e.state = "RECOVERED" => e.policy = "v2"
  /\ e.status = StatusOf(e.state)
  /\ e.completion = CompletionOf(e.state, e.policy)
=============================================================================

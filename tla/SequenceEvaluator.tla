-------------------------- MODULE SequenceEvaluator --------------------------
(***************************************************************************)
(* ops_agent/sequence_evaluator.py: the rule that activates a backlog      *)
(* incident from an ordered sequence of bundles.  Problems anywhere in the *)
(* sequence make the condition UNKNOWN; without problems any window of     *)
(* ActivationCount consecutive captures at both floors and with strictly   *)
(* growing lag makes it PRESENT.                                           *)
(***************************************************************************)
EXTENDS ConditionEvaluator

CONSTANTS
  ActivationCount,  \* consecutive captures that activate (3 in the code)
  LagFloor,         \* total lag each of them must reach
  SlopeFloor        \* growth of the lag over the window each must reach

ASSUME ActivationAssumption ==
  /\ ActivationCount \in Nat \ {0}
  /\ LagFloor \in Nat /\ SlopeFloor \in Nat \ {0}

KafkaItems(b) == {i \in b.end \cup b.committed \cup b.lag : i.status = "OK"}

PartitionSet(b) == {i.partition : i \in KafkaItems(b)}

KafkaStamp(b) ==
  LET stamps == Stamps(KafkaItems(b))
  IN  IF One(stamps) THEN CHOOSE t \in stamps : TRUE ELSE None

\* the endpoint a collector says it used, if it says so once and for sure
Endpoint(items) ==
  IF One(items) /\ \A i \in items : i.status = "OK" /\ i.freshness = "FRESH" /\ i.contract
  THEN (CHOOSE i \in items : TRUE).identity
  ELSE None

\* who measured: None unless the endpoint, the exporter and the stamp are known
SourceIdentity(b) ==
  IF Endpoint(b.prometheus) # None /\ One(Exporters(KafkaItems(b))) /\ KafkaStamp(b) # None
  THEN <<Endpoint(b.prometheus), CHOOSE e \in Exporters(KafkaItems(b)) : TRUE, PartitionSet(b)>>
  ELSE None

Consistent(m) == m.produce - m.commit = m.slope

\* _measurement, of three families that are usable
Totals(b) ==
  [lag |-> TotalLag(b.lag), slope |-> Change(b.lag),
   produce |-> Change(b.end), commit |-> Change(b.committed)]

\* required_evidence_usable of one capture
CaptureUsable(b) ==
  /\ b.inScope /\ CoreUsable(b) /\ SourceIdentity(b) # None
  /\ Consistent(Totals(b))

Rises(f(_), bs) == \A k \in 2..Len(bs) : f(bs[k]) > f(bs[k-1])

Same(f(_), bs) == One({f(bs[k]) : k \in 1..Len(bs)})

\* mutant: captures of two exporters are one sequence
Coherent_MixedSources(bs) ==
  /\ Len(bs) >= ActivationCount
  /\ \A k \in 1..Len(bs) : CaptureUsable(bs[k])
  /\ Rises(LAMBDA b : b.started, bs) /\ Rises(LAMBDA b : b.completed, bs)
  /\ Rises(KafkaStamp, bs)

\* none of the problems of _core_sequence_result
Coherent(bs) ==
  /\ Len(bs) >= ActivationCount
  /\ \A k \in 1..Len(bs) : CaptureUsable(bs[k])
  /\ Rises(LAMBDA b : b.started, bs) /\ Rises(LAMBDA b : b.completed, bs)
  /\ Rises(KafkaStamp, bs)
  /\ Same(SourceIdentity, bs) /\ Same(PartitionSet, bs)

Pressing(b) ==
  Totals(b).lag >= LagFloor /\ Totals(b).slope >= SlopeFloor

Activates(window) ==
  /\ \A k \in 1..Len(window) : Pressing(window[k])
  /\ Rises(LAMBDA b : Totals(b).lag, window)

MatchedWindows(bs) ==
  {s \in 1..(Len(bs) - ActivationCount + 1) :
     Activates(SubSeq(bs, s, s + ActivationCount - 1))}

Compatible(bs) == SelectSeq(bs, LAMBDA b : b.inScope)

\* _core_sequence_result, for a sequence with a compatible bundle
SequenceCore(bs) ==
  IF ~Coherent(bs) THEN "UNKNOWN"
  ELSE IF MatchedWindows(bs) # {} THEN "PRESENT"
  ELSE CoreState(Last(Compatible(bs)))

\* evaluate_bundle_sequence: the last bundle of the scope as it stands, but for
\* its backlog condition; a sequence without such a bundle is refused.  (DB and
\* worker conditions are HealthEvaluator's.)
SequenceEvaluation(bs) ==
  IF Compatible(bs) = << >> THEN None
  ELSE LET core == SequenceCore(bs)
           concentration == ConcentrationState(Last(Compatible(bs)))
       IN  [core |-> core, concentration |-> concentration,
            noBacklog |-> Assessment({core, concentration})]
=============================================================================

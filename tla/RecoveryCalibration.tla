------------------------- MODULE RecoveryCalibration -------------------------
(***************************************************************************)
(* scripts/worker_recovery_calibration.py around run_scenario (which       *)
(* LoadScenario models), with the statistics of                            *)
(* ops_agent/recovery_calibration.py: scenarios under load one after       *)
(* another, a gate that the first two recoveries must pass before more of  *)
(* them are run, and an analysis of all runs.                              *)
(*                                                                         *)
(* A sample is a capture's summary                                         *)
(*   profile, settled, usable   its phase's load, whether the rate window  *)
(*                              lies in that phase, and its quality        *)
(*   kafka                      None, or [lag, slope, produce, commit]     *)
(*   ready                      PostgreSQL is ready, its primary reachable *)
(***************************************************************************)
EXTENDS SequenceEvaluator

CONSTANTS
  Outcomes(_),  \* the samples a scenario may leave
  Modes,        \* --mode, of those that run something
  Repeats       \* --e-repeats

Scenarios == {"PREFLIGHT", "A", "B", "C", "E", "F"}

\* every summary measures lag, end and committed offsets over one window
ASSUME CalibrationAssumption ==
  /\ Modes \subseteq {"preflight", "calibrate"} /\ Repeats \in Nat \ {0}
  /\ \A scenario \in Scenarios : \A samples \in Outcomes(scenario) : \A k \in DOMAIN samples :
       samples[k].kafka # None =>
         /\ {samples[k].kafka.produce, samples[k].kafka.commit, samples[k].kafka.slope} \subseteq Int
         /\ Consistent(samples[k].kafka)

VARIABLES
  mode,      \* the mode of this calibration
  step,      \* what main does
  ran,       \* the runs that returned: [scenario, samples]
  gate,      \* None, or the recoveries the gate passed
  analysis,  \* None, or what analysis.json says
  ledger     \* the stored manifest: [status, runs]

calibrationVars == <<mode, step, ran, gate, analysis, ledger>>

-----------------------------------------------------------------------------
(* The operating envelope                                                  *)

\* of values by some index: the largest, and twice the median
Stats(values) ==
  LET n == Cardinality(DOMAIN values)
      nth(k) == CHOOSE v \in Range(values) :
                  /\ Cardinality({x \in DOMAIN values : values[x] < v}) < k
                  /\ Cardinality({x \in DOMAIN values : values[x] <= v}) >= k
  IN  [max |-> nth(n), middle |-> nth((n + 1) \div 2) + nth(n \div 2 + 1)]

\* the samples of the runs that are to show the normal loads, by run and number
Baseline(runs) ==
  UNION {{<<i, j>> : j \in DOMAIN runs[i].samples} :
           i \in {k \in DOMAIN runs : runs[k].scenario \in {"A", "B", "C"}}}

At(runs, x) == runs[x[1]].samples[x[2]]

\* in the order of their names, which decides between equally near ones
Profiles == <<"HIGH_SUSTAINABLE", "IDLE", "LOW", "MEDIUM">>

\* what the settled, usable samples of the n-th load show
Settled(runs, n) ==
  {x \in Baseline(runs) : LET s == At(runs, x) IN s.profile = Profiles[n] /\ s.settled /\ s.usable}

Values(runs, n, field) == [x \in Settled(runs, n) |-> At(runs, x).kafka[field]]

Normal(runs, n) ==
  [rank    |-> n,
   produce |-> Stats(Values(runs, n, "produce")).middle,
   lag     |-> Stats(Values(runs, n, "lag")).max,
   slope   |-> Stats(Values(runs, n, "slope")).max]

\* build_operating_envelope: a load without such a sample is missing
OperatingEnvelope(runs) ==
  {Normal(runs, n) : n \in {m \in DOMAIN Profiles : Settled(runs, m) # {}}}

CompleteEnvelope(e) == Cardinality(e) = Len(Profiles)

\* _profile_for_rate
Nearest(e, rate) ==
  LET Off(normal) == LET d == 2 * rate - normal.produce IN IF d < 0 THEN -d ELSE d
  IN  CHOOSE n \in e : \A m \in e :
        Off(n) < Off(m) \/ (Off(n) = Off(m) /\ n.rank <= m.rank)

-----------------------------------------------------------------------------
(* analyze_recovery_candidates                                             *)

\* where a window of growing pressure ends
Pressure(samples) ==
  {k \in ActivationCount..Len(samples) :
     LET first == k - ActivationCount + 1
     IN  \A j \in first..k :
           /\ samples[j].usable
           /\ samples[j].kafka.lag >= LagFloor /\ samples[j].kafka.slope >= SlopeFloor
           /\ j > first => samples[j - 1].kafka.lag < samples[j].kafka.lag}

\* the longest runs of neighbours in a list of indexes that are in a set
Blocks(indexes, chosen) ==
  LET n     == Len(indexes)
      In(k) == k \in 1..n /\ indexes[k] \in chosen
      ends  == {p \in (1..n) \X (1..n) :
                  /\ p[1] <= p[2] /\ \A k \in p[1]..p[2] : In(k)
                  /\ ~In(p[1] - 1) /\ ~In(p[2] + 1)}
  IN  {{indexes[k] : k \in p[1]..p[2]} : p \in ends}

\* mutant: whether the workers keep up with the load is not looked at
Stable_Growing(s, e) ==
  LET normal == Nearest(e, s.kafka.produce)
  IN  s.kafka.lag <= normal.lag /\ s.kafka.slope <= normal.slope /\ s.usable /\ s.ready

\* load that is keeping up within its envelope, in evidence that can be used
Stable(s, e) ==
  LET normal == Nearest(e, s.kafka.produce)
  IN  /\ s.kafka.lag <= normal.lag /\ s.kafka.slope <= normal.slope
      /\ s.kafka.commit >= s.kafka.produce
      /\ s.usable /\ s.ready

\* Draining counts every capture since the peak, a return only those whose rate
\* window is settled and whose values are known: others are passed over.
Recovery(samples, e) ==
  LET known   == {k \in DOMAIN samples : samples[k].kafka # None}
      since   == known \cap (Min(Pressure(samples))..Len(samples))
      peak    == Min({k \in since :
                        \A l \in since : samples[l].kafka.lag <= samples[k].kafka.lag})
      later   == SubSeq([k \in DOMAIN samples |-> k], peak, Len(samples))
      settled == SelectSeq(later, LAMBDA k : k \in known /\ samples[k].settled)
  IN  [peak     |-> peak,
       draining |-> Blocks(later, {k \in known : samples[k].kafka.slope < 0}),
       stable   |-> Blocks(settled, {k \in known : Stable(samples[k], e)})]

Recoveries(runs, e) ==
  [k \in {i \in DOMAIN runs : runs[i].scenario \in {"E", "F"}} |-> Recovery(runs[k].samples, e)]

-----------------------------------------------------------------------------
(* main                                                                    *)

CalibrationInit ==
  /\ mode \in Modes /\ step = "runs"
  /\ ran = << >> /\ gate = None /\ analysis = None
  /\ ledger = [status |-> "RUNNING", runs |-> << >>]

\* calibration_run_stages
InitialRuns == IF mode = "preflight" THEN <<"PREFLIGHT">> ELSE <<"A", "B", "C", "E", "F">>

Requested ==
  InitialRuns \o (IF mode = "preflight" THEN << >> ELSE [k \in 1..(Repeats - 1) |-> "E"])

\* a baseline that shows pressure and a recovery that does not are errors
Accepted(scenario, samples) ==
  /\ scenario \in {"A", "B", "C"} => Pressure(samples) = {}
  /\ scenario \in {"E", "F"} => Pressure(samples) # {}

FailCalibration == step' = "handler" /\ UNCHANGED <<mode, ran, gate, analysis, ledger>>

\* the next run of the stage; a returned one is in the stored manifest at once
RunNext ==
  /\ step = "runs"
  /\ Len(ran) < Len(IF gate = None THEN InitialRuns ELSE Requested)
  /\ LET scenario == Requested[Len(ran) + 1]
     IN  \E samples \in Outcomes(scenario) :
           IF Accepted(scenario, samples)
           THEN /\ ran' = Append(ran, [scenario |-> scenario, samples |-> samples])
                /\ ledger' = [ledger EXCEPT !.runs = Append(@, scenario)]
                /\ UNCHANGED <<mode, step, gate, analysis>>
           ELSE FailCalibration

\* validate_initial_recovery_pair
CheckPair ==
  /\ step = "runs" /\ mode = "calibrate" /\ gate = None /\ Len(ran) = Len(InitialRuns)
  /\ \E e \in {OperatingEnvelope(ran)} : \E pair \in {Recoveries(ran, e)} :
       IF /\ CompleteEnvelope(e)
          /\ \A k \in DOMAIN pair :
               /\ pair[k].draining # {} /\ pair[k].stable # {}
               /\ \A s \in Range(ran[k].samples) : s.ready
       THEN gate' = pair /\ UNCHANGED <<mode, step, ran, analysis, ledger>>
       ELSE FailCalibration

\* analyze_experiment; the compact summaries and analysis.json follow.  A preflight
\* stores its samples.
Analyse ==
  /\ step = "runs" /\ Len(ran) = Len(Requested)
  /\ mode = "calibrate" => gate # None
  /\ step' = "finish"
  /\ \E e \in {OperatingEnvelope(ran)} :
       analysis' = IF mode = "preflight" THEN [k \in DOMAIN ran |-> ran[k].samples]
                   ELSE Recoveries(ran, e)
  /\ UNCHANGED <<mode, ran, gate, ledger>>

Finish ==
  /\ step = "finish"
  /\ step' = "over" /\ ledger' = [ledger EXCEPT !.status = "COMPLETE"]
  /\ UNCHANGED <<mode, ran, gate, analysis>>

\* a bad load, a collection, a stored capture that has changed, a file that cannot
\* be written
CalibrationRaises == step \in {"runs", "finish"} /\ FailCalibration

HandleFailure ==
  /\ step = "handler"
  /\ step' = "over" /\ ledger' = [ledger EXCEPT !.status = "FAILED"]
  /\ UNCHANGED <<mode, ran, gate, analysis>>

\* an interrupt is not caught: the manifest stays as it was stored last
Interrupted ==
  /\ step # "over"
  /\ step' = "over"
  /\ UNCHANGED <<mode, ran, gate, analysis, ledger>>

CalibrationStep == RunNext \/ CheckPair \/ Analyse \/ Finish \/ HandleFailure

CalibrationNext == CalibrationStep \/ CalibrationRaises \/ Interrupted

-----------------------------------------------------------------------------
\* A completed calibration agrees with itself: its manifest lists every run that
\* was requested; the analysis says of the first two recoveries what the gate
\* saw before the others were run, so more recoveries do not move the envelope
\* they are judged by; and no capture that was counted as a return to normal is
\* part of a window of growing pressure (validate_initial_recovery_pair,
\* analyze_experiment, analyze_recovery_candidates).
CalibrationIsConsistent ==
  ledger.status = "COMPLETE" /\ mode = "calibrate" =>
    /\ ledger.runs = Requested
    /\ \A k \in DOMAIN gate : analysis[k] = gate[k]
    /\ \A k \in DOMAIN analysis : \A counted \in analysis[k].stable :
         \A end \in Pressure(ran[k].samples) :
           counted \cap ((end - ActivationCount + 1)..end) = {}
=============================================================================

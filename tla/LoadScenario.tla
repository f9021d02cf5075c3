---------------------------- MODULE LoadScenario ----------------------------
(***************************************************************************)
(* run_scenario of scripts/worker_recovery_calibration.py: wait for a      *)
(* clean baseline, start the load generator, collect evidence at a fixed   *)
(* interval while it runs, stop it whatever happens, and judge the run.    *)
(* The generator is a process of its own: it may end early, go on longer   *)
(* than planned, or not stop when told to.                                 *)
(***************************************************************************)
EXTENDS IncidentLifecycle

CONSTANTS
  Profile,         \* what the phases of the load let a collection read, in order
  Disturbed,       \* readings of a collection that something went wrong with
  Evidence(_, _),  \* Evidence(reading, at): the bundle collected at that time
  Reports,         \* what the generator may leave behind, see below
  Cadence,         \* time between two collections
  Planned,         \* collections in the planned time of the load
  Overtime,        \* collections in the time that is waited for it afterwards
  MaxPolls,        \* collections until a clean baseline is given up
  MaxFaults        \* bound: disturbed readings

\* time enough between two collections for something to happen
ASSUME ScenarioAssumption ==
  /\ {Planned, Overtime, MaxPolls, MaxFaults} \subseteq Nat
  /\ Cadence \in Nat \ {0, 1}

\* a collection is named for the time it ended at, and what it read of a metric
\* is finitely many series of integers
ASSUME CollectionAssumption ==
  /\ None \notin [lag : Int, slope : Int, produce : Int, commit : Int]
  /\ \A reading \in Range(Profile) \cup Disturbed, n \in 1..(Planned + Overtime) :
       LET b == Evidence(reading, Cadence * n)
       IN  /\ b.completed = Cadence * n
           /\ \A f \in Range(Families(b)) :
                IsFiniteSet(f) /\ \A i \in f : i.samples \in Seq(Int)

VARIABLES
  stage,     \* what the main thread does
  polls,     \* collections of the preflight or the baseline wait
  load,      \* the generator: "none", "running", "ended", "stuck"
  captures,  \* the collections under load: [reading, at, phase]
  raised     \* the exception on its way: "no", "error", "workload"

scenarioVars == <<stage, polls, load, captures, raised>>

Bundles(cs) == [k \in DOMAIN cs |-> Evidence(cs[k].reading, cs[k].at)]

ScenarioInit ==
  stage = "preflight" /\ polls = 0 /\ load = "none" /\ captures = << >> /\ raised = "no"

Goto(s) == stage' = s /\ polls' = 0 /\ UNCHANGED raised

Throw(kind) == stage' = "handler" /\ raised' = kind /\ UNCHANGED polls

-----------------------------------------------------------------------------
(* wait_for_clean_baseline: no lag, the Deployment at its minimum and      *)
(* available, PostgreSQL ready with a synchronous standby, whichever the   *)
(* collection finds                                                        *)

PollBaseline ==
  /\ stage = "baseline" /\ polls < MaxPolls
  /\ polls' = polls + 1
  /\ UNCHANGED <<stage, load, captures, raised>>

BaselineTimesOut ==
  /\ stage = "baseline" /\ polls = MaxPolls
  /\ Throw("error")
  /\ UNCHANGED <<load, captures>>

StartLoad ==
  /\ stage = "baseline"
  /\ Goto("setup") /\ load' = "running"
  /\ UNCHANGED captures

-----------------------------------------------------------------------------
(* the block between try and finally                                       *)

SetupSeen ==
  /\ stage = "setup"
  /\ Goto("capture")
  /\ UNCHANGED <<load, captures>>

Over ==
  \/ Len(captures) >= Planned /\ load = "ended"
  \/ Len(captures) >= Planned + Overtime

\* what one collection of the loop may add: every phase is longer than the time
\* between two of them
Collections(cs) ==
  LET at     == Cadence * (Len(cs) + 1)
      phase  == IF cs = << >> THEN 1 ELSE Last(cs).phase
      faults == Cardinality({k \in DOMAIN cs : cs[k].reading \in Disturbed})
  IN  {[reading |-> Profile[f], at |-> at, phase |-> f] :
         f \in {phase, phase + 1} \cap DOMAIN Profile}
      \cup {[reading |-> r, at |-> at, phase |-> phase] :
              r \in IF faults < MaxFaults THEN Disturbed ELSE {}}

\* the captures of all loads, by their number
Histories[n \in 0..(Planned + Overtime)] ==
  IF n = 0 THEN {<< >>}
  ELSE UNION {{Append(cs, c) : c \in Collections(cs)} : cs \in Histories[n - 1]}

AllHistories == UNION {Histories[n] : n \in 0..(Planned + Overtime)}

-----------------------------------------------------------------------------
(* the summary of a capture                                                *)

\* every partition once in each family, read and fresh
KafkaQuality(b) ==
  \A f \in Range(Families(b)) :
    /\ {i.partition : i \in f} = Partitions /\ Cardinality(f) = Cardinality(Partitions)
    /\ \A i \in f : i.status = "OK" /\ i.freshness = "FRESH"

\* summarize_recovery_capture, for every capture once; a summary with an anomaly
\* has no measurement
Sample ==
  [c \in UNION {Range(cs) : cs \in AllHistories} |->
     LET b == Evidence(c.reading, c.at)
     IN  [phase |-> c.phase, at |-> b.completed, kafka |-> Measurement(b),
          usable |-> KafkaQuality(b) /\ Measurement(b) # None]]

Samples(cs) == [k \in DOMAIN cs |-> Sample[cs[k]]]

\* validate_ordered_capture_summaries
Ordered(samples) ==
  /\ samples # << >>
  /\ \A k \in 2..Len(samples) :
       samples[k - 1].at < samples[k].at /\ samples[k - 1].phase <= samples[k].phase

-----------------------------------------------------------------------------
\* evaluate_activation_windows, for every history once: the files stay what they
\* are, so the live evaluation of a window and a later one agree
Activating ==
  [cs \in AllHistories |->
     {k \in ActivationCount..Len(cs) :
        SequenceCore(SubSeq(Bundles(cs), k - ActivationCount + 1, k)) = "PRESENT"}]

ActivationWindows == Activating[captures]

\* what on_capture does is added by the experiment
Capture(c) ==
  /\ stage = "capture" /\ ~Over
  /\ captures' = Append(captures, c)
  /\ UNCHANGED <<stage, polls, load, raised>>

CapturesDone ==
  /\ stage = "capture" /\ Over
  /\ Goto("wait")
  /\ UNCHANGED <<load, captures>>

LoadEnds ==
  /\ load = "running"
  /\ load' = "ended"
  /\ UNCHANGED <<stage, polls, captures, raised>>

LoadAwaited ==
  /\ stage = "wait" /\ load = "ended"
  /\ Goto("stop")
  /\ UNCHANGED <<load, captures>>

\* process.wait(timeout=120)
LoadTimesOut ==
  /\ stage = "wait"
  /\ stage' = "stop" /\ raised' = "error"
  /\ UNCHANGED <<polls, load, captures>>

\* a collection, a file or the generator's setup fails, or the operator
\* interrupts
ScenarioThrows ==
  /\ stage \in {"setup", "capture", "wait"}
  /\ stage' = "stop" /\ raised' = "error"
  /\ UNCHANGED <<polls, load, captures>>

\* the finally clause
StopLoad ==
  /\ stage = "stop"
  /\ stage' = IF raised = "no" THEN "judge" ELSE "handler"
  /\ load' = "ended"
  /\ UNCHANGED <<polls, captures, raised>>

StopTimesOut ==
  /\ stage = "stop" /\ load = "running"
  /\ Throw("error") /\ load' = "stuck"
  /\ UNCHANGED captures

-----------------------------------------------------------------------------
(* after it.  A report of the generator is None or                         *)
(*   [phases, dropped, points, exit]                                       *)
(* with the target and the actual rate of every phase, the failures its    *)
(* script and its HTTP client counted and whether the telemetry is there;  *)
(* points are the dropped iterations in the time series of the metrics.    *)

\* at least nine tenths of the rate, without a failure
Attained(phase) ==
  IF phase.target = 0 THEN phase.actual = 0
  ELSE 10 * phase.actual >= 9 * phase.target /\ phase.failed = 0

\* analyze_k6_granular_metrics
ObservedDrops(points) == FoldLeft(+, 0, SelectSeq(points, LAMBDA v : v > 0))

\* validate_workload_quality; every reason alone fails the run
QualityReasons(report) ==
  LET phases == Range(report.phases)
      rules  ==
        {[code |-> "LOAD_GENERATOR_TELEMETRY_INCOMPLETE",
          broken |-> \E p \in phases : p.target > 0 /\ ~p.complete],
         [code |-> "PHASE_TARGET_ATTAINMENT_FAILED",
          broken |-> \E p \in phases : ~Attained(p)],
         [code |-> "HTTP_FAILURES_OBSERVED",
          broken |-> \E p \in phases : p.failed > 0 \/ p.refused > 0],
         [code |-> "DROPPED_ITERATIONS_OBSERVED", broken |-> report.dropped > 0],
         [code |-> "DROPPED_ITERATION_TIMESERIES_MISMATCH",
          broken |-> ObservedDrops(report.points) # report.dropped]}
  IN  {r.code : r \in {q \in rules : q.broken}}

\* a log without a summary and a scenario that is to activate and did not are
\* errors before the quality of the load counts
JudgeRun ==
  /\ stage = "judge"
  /\ \/ /\ None \in Reports \/ ActivationWindows = {} \/ ~Ordered(Samples(captures))
        /\ Throw("error")
     \/ /\ ActivationWindows # {} /\ Ordered(Samples(captures))
        /\ \E attained \in {r.exit = 0 /\ QualityReasons(r) = {} : r \in Reports \ {None}} :
             IF attained THEN Goto("gate") ELSE Throw("workload")
  /\ UNCHANGED <<load, captures>>

\* what the script does on its own
ScenarioStep ==
  \/ PollBaseline \/ BaselineTimesOut \/ StartLoad \/ SetupSeen \/ CapturesDone
  \/ LoadAwaited \/ LoadTimesOut \/ StopLoad \/ StopTimesOut \/ JudgeRun

\* and what happens to it
ScenarioEvent == LoadEnds \/ ScenarioThrows
=============================================================================

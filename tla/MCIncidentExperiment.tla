------------------------ MODULE MCIncidentExperiment ------------------------
(***************************************************************************)
(* A small instance of Laboratory.  The experiment: scenario E with the    *)
(* bundles of MCEvidence, windows of two captures instead of three, and a  *)
(* model that gives one of the answers below.  The calibration: a few      *)
(* captures of every scenario, good ones and one for every way to miss.    *)
(***************************************************************************)
EXTENDS Laboratory, MCEvidence

CONSTANT t1

MCProfile == <<"steady", "growth", "drain", "steady">>

\* reports of three phases: a good one, and one for every way to fail
Phase(target, actual, failed, refused, complete) ==
  [target |-> target, actual |-> actual, failed |-> failed, refused |-> refused,
   complete |-> complete]

Report(middle, dropped, points, exit) ==
  [phases |-> <<Phase(10, 9, 0, 0, TRUE), middle, Phase(0, 0, 0, 0, FALSE)>>,
   dropped |-> dropped, points |-> points, exit |-> exit]

Good == Phase(20, 18, 0, 0, TRUE)

MCReports ==
  {None, Report(Good, 0, <<0>>, 0), Report(Good, 0, << >>, 1),
   Report(Phase(20, 18, 0, 0, FALSE), 0, << >>, 0), Report(Phase(20, 17, 0, 0, TRUE), 0, << >>, 0),
   Report(Phase(20, 20, 1, 0, TRUE), 0, << >>, 0), Report(Phase(20, 20, 0, 1, TRUE), 0, << >>, 0),
   Report(Good, 2, <<1, 1>>, 0), Report(Good, 0, <<1>>, 0)}

Hypothesis(name, status, supporting, conflicting, gaps) ==
  [name |-> name, status |-> status, forbidden |-> FALSE,
   supporting |-> supporting, conflicting |-> conflicting, gaps |-> gaps]

\* an answer that is grounded once t1 was called, and one that always is; before
\* that the first is what a repair may or may not put right
Supported  == Hypothesis("cause", "SUPPORTED", {t1}, {}, {})
Conflicted == Hypothesis("cause", "CONFLICTED", {"activation"}, {t1}, {})
Rebalance  == Hypothesis("rebalance", "INSUFFICIENT", {}, {}, {"telemetry_unavailable"})
Unclear    == Hypothesis("insufficient", "INSUFFICIENT", {}, {}, {"gap"})

MCAnswers ==
  {[hypotheses |-> <<Supported, Conflicted, Rebalance>>, stop |-> "sufficient_evidence"],
   [hypotheses |-> <<Unclear>>, stop |-> "insufficient_evidence"]}

-----------------------------------------------------------------------------
(* captures of the calibration                                             *)

Seen(profile, settled, lag, slope, produce) ==
  [profile |-> profile, settled |-> settled, usable |-> TRUE, ready |-> TRUE,
   kafka |-> [lag |-> lag, slope |-> slope, produce |-> produce, commit |-> produce - slope]]

Unusable(profile) ==
  [profile |-> profile, settled |-> TRUE, usable |-> FALSE, ready |-> TRUE, kafka |-> None]

Idle   == Seen("IDLE", TRUE, 0, 0, 0)
Low    == Seen("LOW", TRUE, 1, 0, 3)
Medium == Seen("MEDIUM", TRUE, 3, 0, 7)
High   == Seen("HIGH_SUSTAINABLE", TRUE, 12, 2, 11)
Onset  == Seen("OVERLOAD", FALSE, 10, 4, 20)
Peak   == Seen("OVERLOAD", TRUE, 16, 6, 20)
Drain  == Seen("MEDIUM", FALSE, 9, -7, 7)

\* a peak that is within the envelope of the highest normal load
Mild == Seen("OVERLOAD", TRUE, 12, 2, 11)

Unready(s) == [s EXCEPT !.ready = FALSE]

MCOutcomes(scenario) ==
  CASE scenario = "PREFLIGHT" -> {<<Low, Medium, High, Onset>>}
    [] scenario = "A" -> {<<Idle, Unusable("LOW"), Idle>>}
    [] scenario = "B" -> {<<Low, Medium, Low>>, <<Low, [Medium EXCEPT !.settled = FALSE], Low>>}
    [] scenario = "C" -> {<<Medium, High, Medium>>,
                          <<Medium, Unusable("HIGH_SUSTAINABLE"), Medium>>,
                          <<Medium, High, [High EXCEPT !.kafka.lag = 14]>>}
    [] scenario = "E" -> {<<Medium, Onset, Peak, Drain, Unusable("MEDIUM"), Medium>>,
                          <<Onset, Mild, Drain, Medium, Unusable("MEDIUM"), Medium>>,
                          <<Medium, Onset, Peak, Unusable("MEDIUM")>>,
                          <<Medium, Onset, Peak, Drain, Unready(Medium)>>,
                          <<Medium, Onset, Medium>>}
    [] scenario = "F" -> {<<Medium, Onset, Peak, Drain, Idle, Idle>>,
                          <<Onset, Mild, Drain, Seen("IDLE", TRUE, 5, 0, 0)>>}
=============================================================================

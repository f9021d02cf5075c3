----------------------------- MODULE Laboratory -----------------------------
(***************************************************************************)
(* The two scripts that put the cluster under load.  Nothing in them keeps *)
(* them apart; the operator runs one at a time, since both begin with a    *)
(* wait for a cluster without load and measure what they cause.            *)
(***************************************************************************)
EXTENDS IncidentExperiment, RecoveryCalibration

VARIABLE script  \* "incident" or "calibration"

labVars == <<script, vars, calibrationVars>>

\* the variables of the script that does not run stay as they are
LabInit ==
  /\ script \in {"incident", "calibration"} /\ Init /\ CalibrationInit
  /\ script = "incident" => mode = CHOOSE m \in Modes : TRUE

IncidentMain      == script = "incident" /\ MainStep /\ UNCHANGED <<script, calibrationVars>>
IncidentDiagnosis == script = "incident" /\ DiagnosisStep /\ UNCHANGED <<script, calibrationVars>>
CalibrationMain   == script = "calibration" /\ CalibrationStep /\ UNCHANGED <<script, vars>>

LabNext ==
  \/ script = "incident" /\ Next /\ UNCHANGED <<script, calibrationVars>>
  \/ script = "calibration" /\ CalibrationNext /\ UNCHANGED <<script, vars>>

\* every wait of the scripts has a timeout, the diagnosis is a bounded number of
\* requests with a timeout each, and threads are scheduled
LabSpec ==
  /\ LabInit /\ [][LabNext]_labVars
  /\ WF_labVars(IncidentMain) /\ WF_labVars(IncidentDiagnosis) /\ WF_labVars(CalibrationMain)

-----------------------------------------------------------------------------
\* A script comes to an end, completed, failed or interrupted: the experiment
\* with its thread ended and its artifacts as they then are, however the model,
\* the load and the collections behave, and the calibration with its last run
\* (main of both, _diagnosis_worker).
ScriptsEnd ==
  <>[](IF script = "incident" THEN stage = "over" /\ Ended ELSE step = "over")
=============================================================================

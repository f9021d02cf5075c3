------------------------- MODULE IncidentExperiment -------------------------
(***************************************************************************)
(* scripts/worker_incident_e2e.py: one load scenario that has to produce   *)
(* an incident, its diagnosis and its recovery.  The first captures that   *)
(* activate create the incident and start the diagnosis in a thread beside *)
(* the collection; when the load is over the thread is joined, the         *)
(* recovery is evaluated over prefixes of the captures, and everything is  *)
(* attached to the record in the order it happened.                        *)
(***************************************************************************)
EXTENDS LoadScenario, DiagnosisAgent

\* an artifact's id is never missing
ASSUME IdAssumption == None # "diagnosis"

VARIABLES
  started,    \* the capture the diagnosis was started at, or 0
  completed,  \* when the diagnosis was, or 0
  pending,    \* artifacts still to attach
  manifest,   \* [status, gate, recovery, closed]
  canonical   \* None, or what the verified incident was written with

vars == <<record, scenarioVars, agentVars, started, completed, pending, manifest, canonical>>

Init ==
  /\ record = None
  /\ ScenarioInit /\ AgentInit
  /\ started = 0 /\ completed = 0 /\ pending = {}
  /\ manifest = [status |-> "RUNNING", gate |-> None, recovery |-> FALSE, closed |-> FALSE]
  /\ canonical = None

\* between two captures
Now == Cadence * Len(captures) + 1

\* collect_clean_preflight: three collections, each of them clean
Preflight ==
  /\ stage = "preflight"
  /\ IF polls < 2 THEN polls' = polls + 1 /\ UNCHANGED <<stage, raised>> ELSE Goto("baseline")
  /\ UNCHANGED <<record, load, captures, agentVars, started, completed, pending, manifest, canonical>>

\* any call outside the scenario's try block fails, or the operator interrupts
Throws ==
  /\ stage \in {"preflight", "baseline", "judge", "gate", "join", "recover", "assemble",
                "check", "write", "finish"}
  /\ Throw("error")
  /\ UNCHANGED <<record, load, captures, agentVars, started, completed, pending, manifest, canonical>>

-----------------------------------------------------------------------------
(* on_capture                                                              *)

\* the window that ends with the k-th of these bundles
ActivationOf(bs, k) ==
  [id |-> k, present |-> TRUE, incident |-> bs[k].incident,
   incidents |-> {bs[j].incident : j \in (k - ActivationCount + 1)..k},
   identity |-> SourceIdentity(bs[k]), completed |-> bs[k].completed,
   stamp |-> KafkaStamp(bs[k])]

OnCapture(cs) ==
  IF started = 0 /\ Len(cs) \in Activating[cs]
  THEN /\ CreateIncident(ActivationOf(Bundles(cs), Len(cs)))
       /\ StartDiagnosis
       /\ started' = Len(cs)
  ELSE UNCHANGED <<record, agentVars, started>>

CaptureStep(c) ==
  /\ Capture(c)
  /\ OnCapture(captures')
  /\ UNCHANGED <<completed, pending, manifest, canonical>>

-----------------------------------------------------------------------------
(* the diagnosis thread                                                    *)

DiagnosisStep ==
  /\ AgentStep
  /\ completed' = IF turn' = "done" THEN Now ELSE completed
  /\ UNCHANGED <<record, scenarioVars, started, pending, manifest, canonical>>

-----------------------------------------------------------------------------
(* after the scenario                                                      *)

QualityGate ==
  /\ stage = "gate"
  /\ Goto("join")
  /\ manifest' = [manifest EXCEPT !.gate = "PASS"]
  /\ UNCHANGED <<record, load, captures, agentVars, started, completed, pending, canonical>>

JoinDiagnosis ==
  /\ stage = "join" /\ Ended
  /\ IF diagnosis = Undecided
     THEN Throw("error") /\ UNCHANGED manifest
     ELSE Goto("recover") /\ manifest' = [manifest EXCEPT !.recovery = TRUE]
  /\ UNCHANGED <<record, load, captures, agentVars, started, completed, pending, canonical>>

Post(cs, k) == SubSeq(cs, k + 1, Len(cs))

SampleSettled(m) ==
  /\ m.lag <= LagMaximum /\ m.slope <= 0
  /\ m.produce \in ProduceMinimum..ProduceMaximum /\ m.commit >= m.produce

SampleDrains(m) == m.slope < 0 /\ m.commit >= m.produce

EndsWith(samples, c, Holds(_)) ==
  \A k \in (c - RecoveryCount + 1)..c : samples[k].usable /\ Holds(samples[k].kafka)

\* mutant: a settled window is evaluated only when another one has followed it
Candidates_SettledTwice(samples) ==
  LET n == Len(samples)
      drained == {c \in RecoveryCount..n : EndsWith(samples, c, SampleDrains)}
      settled == {c \in RecoveryCount..n : EndsWith(samples, c, SampleSettled)}
  IN  {1, n} \cup drained \cup ({c + RecoveryCount - 1 : c \in settled} \cap 1..n)

\* the lengths of the prefixes that are evaluated
Candidates(samples) ==
  LET n == Len(samples)
      drained == {c \in RecoveryCount..n : EndsWith(samples, c, SampleDrains)}
      settled == {c \in RecoveryCount..n : EndsWith(samples, c, SampleSettled)}
  IN  {1, n} \cup drained \cup settled
        \cup ({c + RecoveryCount - 1 : c \in settled} \cap 1..n)

\* for every history and activation once: what the evaluator says of every
\* prefix, and whether the experiment asks
Verdicts ==
  [cs \in AllHistories |-> [k \in Activating[cs] |->
     LET post == Post(cs, k)
         bs == Bundles(post)
         activation == ActivationOf(Bundles(cs), k)
         asked == IF post = << >> THEN {} ELSE Candidates(Samples(post))
     IN  {[count |-> c, asked |-> c \in asked,
           state |-> EvaluateRecovery(activation, SubSeq(bs, 1, c), "v2")] : c \in DOMAIN bs}]]

Counts(state, asked) ==
  {v.count : v \in {w \in Verdicts[captures][started] : w.state = state /\ w.asked \in asked}}

Required == {"ACTIVE", "RECOVERING", "RECOVERED"}

\* the first candidate of each state, up to the one that completes them
FirstOf == [s \in {t \in Required : Counts(t, {TRUE}) # {}} |-> Min(Counts(s, {TRUE}))]

Final == CHOOSE v \in Verdicts[captures][started] : v.count = Len(captures) - started

RecoveryArtifact(c, state) ==
  LET b == Bundles(Post(captures, started))[c]
  IN  Artifact(c, record.activation, "v2", state, b.completed)

DiagnosisArtifact ==
  [id |-> "diagnosis", activation |-> record.activation.id, valid |-> TRUE,
   completed |-> completed]

ToAttach(kind, artifact, at) == [kind |-> kind, artifact |-> artifact, at |-> at]

\* _evaluate_recovery_prefixes and the actions _assemble_incident collects
EvaluateRecoveryPrefixes ==
  /\ stage = "recover"
  /\ LET first == FirstOf
     IN  IF DOMAIN first # Required
         THEN Throw("error") /\ UNCHANGED pending
         ELSE /\ Goto("assemble")
              /\ pending' =
                   {LET e == RecoveryArtifact(first[s], s) IN ToAttach("recovery", e, e.observed) :
                      s \in Required}
                   \cup {ToAttach("diagnosis", DiagnosisArtifact, completed)}
  /\ UNCHANGED <<record, load, captures, agentVars, started, completed, manifest, canonical>>

Earliest(a) == a \in pending /\ \A b \in pending : a.at <= b.at

Accepts(a) ==
  IF a.kind = "diagnosis" THEN AcceptsDiagnosis(a.artifact) ELSE AcceptsRecovery(a.artifact)

\* in the order of their times; attach_diagnosis and attach_recovery_evaluation
\* may refuse
AttachNext ==
  /\ stage = "assemble"
  /\ \E a \in pending :
       /\ Earliest(a)
       /\ IF Accepts(a)
          THEN /\ IF a.kind = "diagnosis" THEN AttachDiagnosis(a.artifact)
                                         ELSE AttachRecovery(a.artifact)
               /\ pending' = pending \ {a} /\ UNCHANGED <<stage, polls, raised>>
          ELSE Throw("error") /\ UNCHANGED <<record, pending>>
  /\ UNCHANGED <<load, captures, agentVars, started, completed, manifest, canonical>>

\* the evaluation over all captures is added to the closed record when it is
\* not one of the three
AttachFinal ==
  /\ stage = "assemble" /\ pending = {}
  /\ LET e == RecoveryArtifact(Final.count, Final.state)
     IN  IF record.state # "CLOSED" THEN Throw("error") /\ UNCHANGED record
         ELSE /\ Goto("check")
              /\ IF NotAttached(e) /\ e.observed >= record.closedAt
                 THEN AttachRecovery(e) ELSE UNCHANGED record
  /\ UNCHANGED <<load, captures, agentVars, started, completed, pending, manifest, canonical>>

\* validate_capture_artifacts: the stored files are read again and compared with
\* the digests in the samples; any of them may have changed or gone since
CheckArtifacts ==
  /\ stage = "check"
  /\ \E damaged \in BOOLEAN : IF damaged THEN Throw("error") ELSE Goto("write")
  /\ UNCHANGED <<record, load, captures, agentVars, started, completed, pending, manifest, canonical>>

Usable == {k \in DOMAIN captures : Sample[captures[k]].usable}

\* _canonical_summary and write_canonical_incident; max() of no sample raises
Promote ==
  /\ stage = "write"
  /\ IF Usable = {} THEN Throw("error") /\ UNCHANGED canonical
     ELSE /\ Goto("finish")
          /\ canonical' = [incident |-> record,
                           peak |-> Max({Sample[captures[k]].kafka.lag : k \in Usable})]
  /\ UNCHANGED <<record, load, captures, agentVars, started, completed, pending, manifest>>

Complete ==
  /\ stage = "finish"
  /\ Goto("over")
  /\ manifest' = [manifest EXCEPT !.status = "COMPLETE", !.closed = TRUE]
  /\ UNCHANGED <<record, load, captures, agentVars, started, completed, pending, canonical>>

\* a run with a bad load waits for the thread, any other failure does not
Handle ==
  /\ stage = "handler"
  /\ stage' = "over"
  /\ \/ /\ raised = "workload" /\ Ended
        /\ manifest' = [manifest EXCEPT !.status = "FAILED", !.recovery = FALSE, !.closed = FALSE]
     \/ /\ raised = "error"
        /\ manifest' = [manifest EXCEPT !.status = "FAILED"]
  /\ UNCHANGED <<record, polls, load, captures, raised, agentVars, started, completed, pending, canonical>>

OthersUnchanged == UNCHANGED <<record, agentVars, started, completed, pending, manifest, canonical>>

MainStep ==
  \/ Preflight
  \/ ScenarioStep /\ OthersUnchanged
  \/ stage = "capture" /\ \E c \in Collections(captures) : CaptureStep(c)
  \/ QualityGate \/ JoinDiagnosis \/ EvaluateRecoveryPrefixes \/ AttachNext \/ AttachFinal
  \/ CheckArtifacts \/ Promote \/ Complete \/ Handle

Next == MainStep \/ DiagnosisStep \/ Throws \/ (ScenarioEvent /\ OthersUnchanged)

Spec == Init /\ [][Next]_vars

-----------------------------------------------------------------------------
\* What is written as a verified incident can be derived again from the
\* captures it is stored with: its activation is the first window that shows
\* growing pressure, the peak of its load is no lower than the lag there, it
\* closed with the first prefix the evaluator calls recovered although only some
\* prefixes were evaluated, the diagnosis was complete before that, and the load
\* had ended (on_capture, _evaluate_recovery_prefixes, _assemble_incident,
\* write_canonical_incident).
PromotedIsReplayable ==
  canonical # None =>
    LET incident == canonical.incident
    IN  /\ started = Min(ActivationWindows)
        /\ incident.activation.id = started
        /\ canonical.peak >= Sample[captures[started]].kafka.lag
        /\ LET recovered == Counts("RECOVERED", BOOLEAN)
           IN  recovered # {} /\ incident.closedAt = captures[started + Min(recovered)].at
        /\ incident.diagnosis # None /\ completed < incident.closedAt
        /\ load = "ended"
=============================================================================

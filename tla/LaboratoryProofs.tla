-------------------------- MODULE LaboratoryProofs --------------------------
(***************************************************************************)
(* Theorems about the scripts that Laboratory runs: a diagnosis is         *)
(* grounded for any model that keeps to its schema, any tools and budgets, *)
(* a completed calibration agrees with itself for any samples, the rules   *)
(* say RECOVERED of nothing but a settled end, and a verified incident can *)
(* be derived again from the captures of any load.                         *)
(***************************************************************************)
EXTENDS Laboratory, FiniteSetTheorems, SequenceTheorems, WellFoundedInduction, TLAPS

-----------------------------------------------------------------------------
(* The diagnosis.                                                          *)

\* What the agent may have at each turn.
StepsOK ==
  /\ turn \in {"idle", "ask", "judge", "repair", "done", "failed"}
  /\ steps \in Seq(Tools)
  /\ IsInjective(steps) /\ Len(steps) <= MaxToolCalls
  /\ requests \in Nat
  /\ turn = "idle" => steps = << >> /\ requests = 0
  /\ turn = "ask" => requests = Len(steps)
  /\ turn \in {"judge", "repair"} => requests = Len(steps) + 1

Schema(d) ==
  \A h \in Range(d.hypotheses) : h.name \in {"cause", "rebalance", "insufficient"}

AgentInv ==
  /\ StepsOK
  /\ turn \in {"judge", "repair"} => Schema(decision)
  /\ DiagnosisIsGrounded

\* A capture starts the diagnosis once.
StartInv ==
  /\ captures \in Seq(Range(captures))
  /\ started = 0 => turn = "idle"

\* What a decision that passes the validator keeps to.
LEMMA ValidDecision ==
  ASSUME NEW d, Valid(d), Schema(d), NEW h \in Range(d.hypotheses)
  PROVE  /\ ~h.forbidden /\ Cited(h) \subseteq KnownIds
         /\ h.status = "SUPPORTED" => h.supporting # {} /\ h.name # "rebalance"
<1>1. \A r \in HypothesisRules(h) : ~r.broken
  BY DEF Valid, BrokenRules
<1>2. /\ [code |-> "FORBIDDEN_DIAGNOSIS_CLAIM", broken |-> h.forbidden] \in HypothesisRules(h)
      /\ [code |-> "UNKNOWN_EVIDENCE_CITATION", broken |-> ~(Cited(h) \subseteq KnownIds)]
           \in HypothesisRules(h)
      /\ [code |-> "SUPPORTED_REQUIRES_SUPPORTING_CITATION",
          broken |-> h.status = "SUPPORTED" /\ h.supporting = {}] \in HypothesisRules(h)
      /\ [code |-> "REBALANCE_TELEMETRY_UNAVAILABLE",
          broken |-> h.name = "rebalance" /\ h.status # "INSUFFICIENT"] \in HypothesisRules(h)
  BY DEF HypothesisRules
<1>3. ~h.forbidden
  BY <1>1, <1>2
<1>4. Cited(h) \subseteq KnownIds
  BY <1>1, <1>2
<1>5. ~(h.status = "SUPPORTED" /\ h.supporting = {})
  BY <1>1, <1>2
<1>6. ~(h.name = "rebalance" /\ h.status # "INSUFFICIENT")
  BY <1>1, <1>2
<1>7. h.status = "SUPPORTED" => h.supporting # {} /\ h.name # "rebalance"
  BY <1>5, <1>6
<1> QED
  BY ONLY <1>3, <1>4, <1>7, Zenon

\* A sufficient stop comes with a cause that is supported.
LEMMA ValidStop ==
  ASSUME NEW d, Valid(d), Schema(d), d.stop = "sufficient_evidence"
  PROVE  \E h \in Range(d.hypotheses) :
           h.name = "cause" /\ h.status = "SUPPORTED" /\ h.supporting # {}
<1>1. \A r \in StopRules(d) : ~r.broken
  BY DEF Valid, BrokenRules
<1>2. [code |-> "SUFFICIENT_STOP_REQUIRES_SUPPORTED_CAUSE",
       broken |-> d.stop = "sufficient_evidence" /\ ~SupportedCause(d)] \in StopRules(d)
  BY DEF StopRules
<1>3. ~(d.stop = "sufficient_evidence" /\ ~SupportedCause(d))
  BY <1>1, <1>2
<1>4. PICK k \in DOMAIN d.hypotheses :
        d.hypotheses[k].name # "insufficient" /\ d.hypotheses[k].status = "SUPPORTED"
  BY <1>3 DEF SupportedCause
<1>5. PICK h : h = d.hypotheses[k] /\ h \in Range(d.hypotheses)
  BY <1>4 DEF Range
<1>6. h.supporting # {} /\ h.name # "rebalance"
  BY <1>4, <1>5, ValidDecision
<1> QED
  BY <1>4, <1>5, <1>6 DEF Schema

\* A run with a validated decision is grounded: what it cites is known, and its
\* requests are its calls and its validations.
LEMMA RunIsGrounded ==
  ASSUME StepsOK, NEW d, Schema(d), Valid(d), NEW n \in Nat, NEW results,
         n = Len(steps) + Len(results),
         diagnosis' = Run(d, n, results)
  PROVE  DiagnosisIsGrounded'
<1> DEFINE run == Run(d, n, results)
<1>1. /\ run.decision = d /\ run.steps = steps /\ run.requests = n
      /\ run.validations = results
  BY DEF Run
<1>2. \A h \in Range(d.hypotheses) : Cited(h) \subseteq Initial \cup Range(steps) /\ ~h.forbidden
  BY ValidDecision DEF KnownIds
<1>3. d.stop = "sufficient_evidence" =>
        \E h \in Range(d.hypotheses) :
          h.name = "cause" /\ h.status = "SUPPORTED" /\ h.supporting # {}
  BY ValidStop
<1>4. IsInjective(steps) /\ Len(steps) <= MaxToolCalls
  BY DEF StepsOK
<1> HIDE DEF run
<1>5. diagnosis' = run
  BY DEF run
<1> QED
  BY <1>1, <1>2, <1>3, <1>4, <1>5 DEF DiagnosisIsGrounded, Cited

\* What the agent says in the model's place is within the schema.
LEMMA FallbackSchema ==
  ASSUME NEW stop, NEW forbidden
  PROVE  Schema(Fallback(stop, forbidden))
BY DEF Schema, Fallback, Range

\* Leaving the loop, with a run or with an error, leaves what a turn may have.
LEMMA Leaving ==
  ASSUME AgentInv, turn' \in {"done", "failed"}, steps' = << >>, requests' = 0,
         DiagnosisIsGrounded'
  PROVE  AgentInv'
<1>1. << >> \in Seq(Tools) /\ Len(<< >>) = 0 /\ IsInjective(<< >>)
  BY DEF IsInjective
<1>2. StepsOK'
  BY <1>1, PolicyAssumption DEF StepsOK
<1> QED
  BY <1>2 DEF AgentInv

LEMMA RaiseKeeps ==
  ASSUME AgentInv, Raise
  PROVE  AgentInv'
<1>1. DiagnosisIsGrounded'
  BY DEF AgentInv, Raise, DiagnosisIsGrounded
<1> QED
  BY <1>1, Leaving DEF Raise

LEMMA ReturnKeeps ==
  ASSUME AgentInv, NEW d, Schema(d), Valid(d), NEW n \in Nat, NEW results,
         n = Len(steps) + Len(results),
         Return(Run(d, n, results))
  PROVE  AgentInv'
<1>1. CASE Raise
  BY <1>1, RaiseKeeps
<1>2. CASE ~Raise
  <2>1. turn' = "done" /\ steps' = << >> /\ requests' = 0 /\ diagnosis' = Run(d, n, results)
    BY <1>2 DEF Return
  <2> QED
    BY <2>1, RunIsGrounded, Leaving DEF AgentInv
<1> QED
  BY <1>1, <1>2

\* A decision that is to be judged comes from the model or from the agent.
LEMMA JudgeKeeps ==
  ASSUME AgentInv, turn = "ask", NEW d, Schema(d), Judge(d)
  PROVE  AgentInv'
<1>1. /\ turn' = "judge" /\ decision' = d /\ requests' = requests + 1
      /\ UNCHANGED <<steps, diagnosis>>
  BY DEF Judge, Answered
<1>2. StepsOK'
  BY <1>1 DEF AgentInv, StepsOK
<1>3. DiagnosisIsGrounded'
  BY <1>1 DEF AgentInv, DiagnosisIsGrounded
<1> QED
  BY <1>1, <1>2, <1>3 DEF AgentInv

\* Every step of the agent keeps the invariant.
LEMMA AgentStepKeeps ==
  ASSUME AgentInv, AgentStep
  PROVE  AgentInv'
<1> USE DEF AgentInv
<1>1. CASE RetryRequest
  BY <1>1 DEF RetryRequest, StepsOK, DiagnosisIsGrounded
<1>2. CASE RequestFails
  BY <1>2, RaiseKeeps DEF RequestFails
<1>3. CASE CallBeyondBudget
  BY <1>3, FallbackSchema, JudgeKeeps DEF CallBeyondBudget
<1>4. CASE BadAnswer
  BY <1>4, RaiseKeeps DEF BadAnswer
<1>5. ASSUME NEW name \in Names, ExecuteTool(name)
      PROVE  AgentInv'
  <2>1. /\ turn = "ask" /\ turn' = "ask" /\ steps' = Append(steps, name)
        /\ requests' = requests + 1 /\ UNCHANGED diagnosis
        /\ Len(steps) < MaxToolCalls /\ name \in Tools /\ name \notin Range(steps)
    BY <1>5 DEF ExecuteTool, Offered, Answered
  <2>2. /\ steps' \in Seq(Tools) /\ Len(steps') = Len(steps) + 1
        /\ \A k \in 1..Len(steps) : steps'[k] = steps[k] /\ steps[k] # name
        /\ steps'[Len(steps) + 1] = name /\ DOMAIN steps' = 1..(Len(steps) + 1)
    BY <2>1 DEF StepsOK, Range
  <2>3. IsInjective(steps')
    BY <2>2 DEF StepsOK, IsInjective
  <2>4. StepsOK'
    BY <2>1, <2>2, <2>3, PolicyAssumption DEF StepsOK
  <2> QED
    BY <2>1, <2>4 DEF DiagnosisIsGrounded
<1>6. ASSUME NEW name \in Names, ToolFails(name)
      PROVE  AgentInv'
  BY <1>6, FallbackSchema, JudgeKeeps DEF ToolFails
<1>7. ASSUME NEW d \in Answers, Decide(d)
      PROVE  AgentInv'
  BY <1>7, AnswersAssumption, JudgeKeeps DEF Decide, Schema
<1>8. ASSUME NEW d \in Answers, Repair(d)
      PROVE  AgentInv'
  <2>1. Len(<<"INVALID", "VALID">>) = 2
    OBVIOUS
  <2>2. turn = "repair" /\ requests + 1 \in Nat /\ requests + 1 = Len(steps) + 2
    BY <1>8 DEF Repair, StepsOK
  <2>3. Schema(d)
    BY AnswersAssumption DEF Schema
  <2> QED
    BY <1>8, <2>1, <2>2, <2>3, RaiseKeeps, ReturnKeeps DEF Repair
<1>9. CASE Validate
  <2>1. Len(<<"VALID">>) = 1
    OBVIOUS
  <2>2. /\ turn = "judge" /\ requests \in Nat /\ requests = Len(steps) + 1
        /\ Schema(decision)
    BY <1>9 DEF Validate, StepsOK
  <2>3. CASE Valid(decision)
    BY <1>9, <2>1, <2>2, <2>3, ReturnKeeps DEF Validate
  <2>4. CASE AskForRepair
    BY <2>2, <2>4 DEF AskForRepair, StepsOK, DiagnosisIsGrounded
  <2>5. CASE Raise
    BY <2>5, RaiseKeeps
  <2> QED
    BY <1>9, <2>3, <2>4, <2>5 DEF Validate
<1>10. CASE Unnamed
  BY <1>10, RaiseKeeps DEF Unnamed
<1>11. CASE BadRepair
  BY <1>11, RaiseKeeps DEF BadRepair
<1> QED
  BY <1>1, <1>2, <1>3, <1>4, <1>5, <1>6, <1>7, <1>8, <1>9, <1>10, <1>11 DEF AgentStep

LEMMA AppendOwn ==
  ASSUME NEW cs, cs \in Seq(Range(cs)), NEW c
  PROVE  Append(cs, c) \in Seq(Range(Append(cs, c))) /\ Len(Append(cs, c)) > 0
<1> DEFINE S == Range(cs) \cup {c}
<1>1. cs \in Seq(S)
  <2>1. Range(cs) \subseteq S
    OBVIOUS
  <2> HIDE DEF S
  <2> QED
    BY <2>1
<1>2. PICK ds : ds = Append(cs, c)
  OBVIOUS
<1>3. /\ ds \in Seq(S) /\ Len(ds) = Len(cs) + 1 /\ Len(cs) \in Nat
      /\ DOMAIN ds = 1..Len(ds)
      /\ ds[Len(cs) + 1] = c /\ \A k \in DOMAIN cs : ds[k] = cs[k]
  BY <1>1, <1>2
<1>4. \A k \in DOMAIN ds : ds[k] \in Range(ds)
  BY DEF Range
<1>5. ds \in Seq(Range(ds))
  BY <1>3, <1>4
<1> QED
  BY <1>2, <1>3, <1>5

\* The experiment starts the diagnosis once, and otherwise leaves it alone.
DiagnosisInv == AgentInv /\ StartInv

LEMMA AgentAlone ==
  ASSUME DiagnosisInv, UNCHANGED <<agentVars, started, captures>>
  PROVE  DiagnosisInv'
BY DEF DiagnosisInv, AgentInv, StartInv, StepsOK, Schema, DiagnosisIsGrounded, agentVars

LEMMA CaptureKeeps ==
  ASSUME DiagnosisInv, NEW c, CaptureStep(c)
  PROVE  DiagnosisInv'
<1>1. captures' = Append(captures, c)
  BY DEF CaptureStep, Capture
<1>2. captures' \in Seq(Range(captures')) /\ Len(captures') > 0
  BY <1>1, AppendOwn DEF DiagnosisInv, StartInv
<1>3. CASE started = 0 /\ StartDiagnosis /\ started' = Len(captures')
  <2>1. AgentInv'
    BY <1>3 DEF DiagnosisInv, AgentInv, StartInv, StepsOK, StartDiagnosis, DiagnosisIsGrounded
  <2> QED
    BY <1>2, <1>3, <2>1 DEF DiagnosisInv, StartInv
<1>4. CASE UNCHANGED <<record, agentVars, started>>
  BY <1>2, <1>4
     DEF DiagnosisInv, AgentInv, StartInv, StepsOK, Schema, DiagnosisIsGrounded, agentVars
<1> QED
  BY <1>3, <1>4 DEF CaptureStep, OnCapture

LEMMA DiagnosisInvStep ==
  ASSUME DiagnosisInv, [LabNext]_labVars
  PROVE  DiagnosisInv'
<1>1. CASE DiagnosisStep
  <2>1. AgentInv' /\ UNCHANGED <<started, captures>>
    BY <1>1, AgentStepKeeps DEF DiagnosisStep, DiagnosisInv, scenarioVars
  <2>2. turn # "idle"
    BY <1>1 DEF DiagnosisStep, AgentStep, RetryRequest, RequestFails, CallBeyondBudget,
                BadAnswer, ExecuteTool, ToolFails, Decide, Repair, Validate, Unnamed, BadRepair
  <2> QED
    BY <2>1, <2>2 DEF DiagnosisInv, StartInv
<1>2. ASSUME NEW c, CaptureStep(c)
      PROVE  DiagnosisInv'
  BY <1>2, CaptureKeeps
<1>3. CASE UNCHANGED <<agentVars, started, captures>>
  BY <1>3, AgentAlone
<1>4. CASE (ScenarioStep \/ ScenarioEvent) /\ OthersUnchanged
  BY <1>3, <1>4
     DEF ScenarioStep, ScenarioEvent, OthersUnchanged, PollBaseline, BaselineTimesOut, StartLoad,
         SetupSeen, CapturesDone, LoadAwaited, LoadTimesOut, StopLoad, StopTimesOut, JudgeRun,
         LoadEnds, ScenarioThrows
<1>5. CASE \/ Preflight \/ QualityGate \/ JoinDiagnosis \/ EvaluateRecoveryPrefixes
           \/ AttachNext \/ AttachFinal \/ CheckArtifacts \/ Promote \/ Complete
           \/ Handle \/ Throws
  BY <1>3, <1>5
     DEF Preflight, QualityGate, JoinDiagnosis, EvaluateRecoveryPrefixes, AttachNext, AttachFinal,
         CheckArtifacts, Promote, Complete, Handle, Throws
<1>6. CASE UNCHANGED vars
  BY <1>3, <1>6 DEF vars, scenarioVars
<1> QED
  BY <1>1, <1>2, <1>4, <1>5, <1>6 DEF LabNext, labVars, Next, MainStep

\* Whatever the model answers within its schema, whichever tools, budgets and
\* repeated requests: what run_diagnosis returns cites only what its own calls
\* returned and the activation's evidence.
THEOREM DiagnosisGrounded == LabSpec => []DiagnosisIsGrounded
<1>1. LabInit => DiagnosisInv
  <2>1. << >> \in Seq(Tools) /\ Len(<< >>) = 0 /\ IsInjective(<< >>)
    BY DEF IsInjective
  <2>2. << >> \in Seq(Range(<< >>))
    OBVIOUS
  <2> QED
    BY <2>1, <2>2, PolicyAssumption
       DEF LabInit, Init, AgentInit, ScenarioInit, DiagnosisInv, AgentInv, StartInv, StepsOK,
           DiagnosisIsGrounded
<1>2. DiagnosisInv /\ [LabNext]_labVars => DiagnosisInv'
  BY DiagnosisInvStep
<1>3. DiagnosisInv => DiagnosisIsGrounded
  BY DEF DiagnosisInv, AgentInv
<1> QED
  BY <1>1, <1>2, <1>3, PTL DEF LabSpec

-----------------------------------------------------------------------------
(* The calibration.                                                        *)

Returned == UNION {[scenario : {s}, samples : Outcomes(s)] : s \in Scenarios}

\* What was run is what was requested so far.
RunsInv ==
  /\ mode \in Modes /\ ran \in Seq(Returned)
  /\ ledger = [status |-> ledger.status, runs |-> [k \in DOMAIN ran |-> ran[k].scenario]]
  /\ Len(ran) <= Len(Requested)
  /\ \A k \in DOMAIN ran : ran[k].scenario = Requested[k]

\* What the gate saw is what the runs still show.
GateInv ==
  gate # None =>
    /\ mode = "calibrate" /\ Len(ran) >= 5
    /\ gate = [k \in {4, 5} |-> Recovery(ran[k].samples, OperatingEnvelope(ran))]

EndInv ==
  /\ ledger.status = "COMPLETE" => step = "over"
  /\ step = "finish" \/ ledger.status = "COMPLETE" =>
       /\ Len(ran) = Len(Requested)
       /\ mode = "calibrate" =>
            gate # None /\ analysis = Recoveries(ran, OperatingEnvelope(ran))

CalibrationInv == RunsInv /\ GateInv /\ EndInv

LEMMA RequestedRuns ==
  ASSUME mode \in Modes
  PROVE  /\ mode \in {"preflight", "calibrate"}
         /\ Requested \in Seq(Scenarios)
         /\ mode = "calibrate" => /\ InitialRuns = <<"A", "B", "C", "E", "F">>
                                  /\ Len(InitialRuns) = 5
                                  /\ Len(Requested) >= 5
                                  /\ Requested[1] = "A" /\ Requested[2] = "B" /\ Requested[3] = "C"
                                  /\ Requested[4] = "E" /\ Requested[5] = "F"
                                  /\ \A k \in 6..Len(Requested) : Requested[k] = "E"
         /\ mode = "preflight" => /\ InitialRuns = <<"PREFLIGHT">> /\ Len(InitialRuns) = 1
                                  /\ Len(Requested) = 1 /\ Requested[1] = "PREFLIGHT"
<1>1. mode \in {"preflight", "calibrate"} /\ Repeats \in Nat \ {0}
  BY CalibrationAssumption
<1>2. CASE mode = "preflight"
  <2>1. Requested = <<"PREFLIGHT">> \o << >> /\ InitialRuns = <<"PREFLIGHT">>
    BY <1>2 DEF Requested, InitialRuns
  <2> QED
    BY <1>2, <2>1 DEF Scenarios
<1>3. CASE mode = "calibrate"
  <2> DEFINE first == <<"A", "B", "C", "E", "F">>
             more == [k \in 1..(Repeats - 1) |-> "E"]
  <2>1. Requested = first \o more /\ InitialRuns = first
    BY <1>3 DEF Requested, InitialRuns
  <2>2. first \in Seq(Scenarios) /\ Len(first) = 5
    BY DEF Scenarios
  <2>3. /\ first[1] = "A" /\ first[2] = "B" /\ first[3] = "C" /\ first[4] = "E"
        /\ first[5] = "F"
    OBVIOUS
  <2>4. more \in Seq(Scenarios) /\ Len(more) = Repeats - 1
        /\ \A k \in 1..Len(more) : more[k] = "E"
    BY <1>1 DEF Scenarios
  <2> HIDE DEF first, more
  <2>5. /\ first \o more \in Seq(Scenarios) /\ Len(first \o more) = 5 + Len(more)
        /\ \A k \in 1..5 : (first \o more)[k] = first[k]
        /\ \A k \in 6..(5 + Len(more)) : (first \o more)[k] = more[k - 5]
    <3>1. Len(more) \in Nat
      BY <2>4
    <3>2. /\ first \o more \in Seq(Scenarios) /\ Len(first \o more) = Len(first) + Len(more)
          /\ \A k \in 1..(Len(first) + Len(more)) :
               (first \o more)[k] = IF k <= Len(first) THEN first[k] ELSE more[k - Len(first)]
      BY <2>2, <2>4, ConcatProperties
    <3> QED
      BY <2>2, <3>1, <3>2
  <2>6. Len(Requested) = 4 + Repeats /\ Len(Requested) >= 5 /\ Len(InitialRuns) = 5
    BY <1>1, <2>1, <2>2, <2>4, <2>5
  <2>7. \A k \in 6..Len(Requested) : Requested[k] = "E"
    <3> SUFFICES ASSUME NEW k \in 6..Len(Requested)
                 PROVE  Requested[k] = "E"
      OBVIOUS
    <3>1. k \in 6..(5 + Len(more)) /\ k - 5 \in 1..Len(more)
      BY <1>1, <2>4, <2>6
    <3> QED
      BY <2>1, <2>4, <2>5, <3>1
  <2>8. /\ Requested[1] = "A" /\ Requested[2] = "B" /\ Requested[3] = "C" /\ Requested[4] = "E"
        /\ Requested[5] = "F"
    BY <2>1, <2>3, <2>5
  <2>9. Requested \in Seq(Scenarios) /\ InitialRuns = <<"A", "B", "C", "E", "F">>
    BY <2>1, <2>5 DEF first
  <2> QED
    BY <1>3, <2>6, <2>7, <2>8, <2>9
<1> QED
  BY <1>1, <1>2, <1>3

\* Another recovery does not move the envelope.
LEMMA EnvelopeStays ==
  ASSUME NEW runs \in Seq(Returned), NEW run \in Returned, run.scenario \notin {"A", "B", "C"}
  PROVE  OperatingEnvelope(Append(runs, run)) = OperatingEnvelope(runs)
<1>1. PICK all : all = Append(runs, run)
  OBVIOUS
<1>2. /\ DOMAIN all = 1..(Len(runs) + 1) /\ DOMAIN runs = 1..Len(runs) /\ Len(runs) \in Nat
      /\ \A k \in 1..Len(runs) : all[k] = runs[k]
      /\ all[Len(runs) + 1] = run
  BY <1>1
<1>3. {k \in DOMAIN all : all[k].scenario \in {"A", "B", "C"}}
        = {k \in DOMAIN runs : runs[k].scenario \in {"A", "B", "C"}}
  BY <1>2
<1>4. Baseline(all) = Baseline(runs)
  BY <1>2, <1>3 DEF Baseline
<1>5. \A x \in Baseline(runs) : At(all, x) = At(runs, x)
  <2>1. SUFFICES ASSUME NEW x \in Baseline(runs)
                 PROVE  x[1] \in DOMAIN runs
    BY <1>2 DEF At
  <2> QED
    BY DEF Baseline
<1>6. \A n : Settled(all, n) = Settled(runs, n)
  BY <1>4, <1>5 DEF Settled
<1>7. \A n, field : Values(all, n, field) = Values(runs, n, field)
  <2> SUFFICES ASSUME NEW n, NEW field
               PROVE  Values(all, n, field) = Values(runs, n, field)
    OBVIOUS
  <2>1. \A x \in Settled(runs, n) : At(all, x) = At(runs, x)
    BY <1>5 DEF Settled
  <2> QED
    BY <1>6, <2>1 DEF Values
<1>8. \A n : Normal(all, n) = Normal(runs, n)
  BY <1>7 DEF Normal
<1> QED
  BY <1>1, <1>6, <1>8 DEF OperatingEnvelope

LEMMA RunStep ==
  ASSUME CalibrationInv, RunNext
  PROVE  CalibrationInv'
<1> DEFINE scenario == Requested[Len(ran) + 1]
<1>1. Len(ran) \in Nat /\ Len(ran) < Len(Requested)
  <2>1. mode \in Modes /\ ran \in Seq(Returned)
        /\ Len(ran) < Len(IF gate = None THEN InitialRuns ELSE Requested)
    BY DEF CalibrationInv, RunsInv, RunNext
  <2>2. Len(InitialRuns) \in Nat /\ Len(Requested) \in Nat /\ Len(InitialRuns) <= Len(Requested)
    BY <2>1, RequestedRuns
  <2>3. Len(ran) \in Nat
    BY <2>1
  <2>4. CASE gate = None
    BY <2>1, <2>2, <2>3, <2>4
  <2>5. CASE gate # None
    BY <2>1, <2>2, <2>3, <2>5
  <2> QED
    BY <2>4, <2>5
<1>2. scenario \in Scenarios
  BY <1>1, RequestedRuns DEF CalibrationInv, RunsInv
<1>3. CASE FailCalibration
  BY <1>3 DEF FailCalibration, CalibrationInv, RunsInv, GateInv, EndInv, Requested, InitialRuns,
              RunNext
<1>4. ASSUME NEW samples \in Outcomes(scenario),
             ran' = Append(ran, [scenario |-> scenario, samples |-> samples]),
             ledger' = [ledger EXCEPT !.runs = Append(@, scenario)],
             UNCHANGED <<mode, step, gate, analysis>>
      PROVE  CalibrationInv'
  <2> DEFINE run == [scenario |-> scenario, samples |-> samples]
  <2>1. run \in Returned /\ run.scenario = scenario
    BY <1>2 DEF Returned
  <2> HIDE DEF run
  <2>2. ran' = Append(ran, run)
    BY <1>4 DEF run
  <2>3. /\ ran' \in Seq(Returned) /\ Len(ran') = Len(ran) + 1 /\ DOMAIN ran' = 1..(Len(ran) + 1)
        /\ DOMAIN ran = 1..Len(ran)
        /\ \A k \in 1..Len(ran) : ran'[k] = ran[k]
        /\ ran'[Len(ran) + 1] = run
    BY <2>1, <2>2 DEF CalibrationInv, RunsInv
  <2>4. Requested' = Requested
    BY <1>4 DEF Requested, InitialRuns
  <2>5. \A k \in DOMAIN ran' : ran'[k].scenario = Requested'[k]
    BY <2>1, <2>3, <2>4 DEF CalibrationInv, RunsInv
  <2>6. ledger'.runs = [k \in DOMAIN ran' |-> ran'[k].scenario]
    <3>1. PICK rs : rs = [k \in DOMAIN ran |-> ran[k].scenario]
      OBVIOUS
    <3>2. \A k \in 1..Len(ran) : ran[k] \in Returned
      BY <2>3 DEF CalibrationInv, RunsInv
    <3>3. \A k \in 1..Len(ran) : ran[k].scenario \in Scenarios
      BY <3>2 DEF Returned
    <3>4. rs \in Seq(Scenarios) /\ Len(rs) = Len(ran)
      BY <1>1, <2>3, <3>1, <3>3
    <3>5. ledger'.runs = Append(rs, scenario)
      BY <1>4, <3>1 DEF CalibrationInv, RunsInv
    <3>6. /\ DOMAIN Append(rs, scenario) = 1..(Len(ran) + 1)
          /\ Append(rs, scenario)[Len(ran) + 1] = scenario
          /\ \A k \in 1..Len(ran) : Append(rs, scenario)[k] = rs[k]
          /\ Append(rs, scenario) \in Seq(Scenarios)
      BY <1>1, <1>2, <3>4
    <3>7. \A k \in 1..(Len(ran) + 1) : Append(rs, scenario)[k] = ran'[k].scenario
      BY <1>1, <2>1, <2>3, <3>1, <3>6
    <3> QED
      BY <2>3, <3>5, <3>6, <3>7
  <2>7. ledger' = [status |-> ledger'.status, runs |-> ledger'.runs]
        /\ ledger'.status = ledger.status
    BY <1>4 DEF CalibrationInv, RunsInv
  <2>8. RunsInv'
    <3>1. Len(ran') <= Len(Requested')
      <4>1. Len(Requested) \in Nat
        BY RequestedRuns DEF CalibrationInv, RunsInv
      <4> QED
        BY <1>1, <2>3, <2>4, <4>1
    <3>2. ledger' = [status |-> ledger'.status, runs |-> [k \in DOMAIN ran' |-> ran'[k].scenario]]
      BY <2>6, <2>7
    <3> QED
      BY <1>4, <2>3, <2>5, <3>1, <3>2 DEF CalibrationInv, RunsInv
  <2>9. GateInv'
    <3>1. SUFFICES ASSUME gate # None
                   PROVE  /\ mode = "calibrate" /\ Len(ran) >= 5
                          /\ gate = [k \in {4, 5} |->
                                       Recovery(ran'[k].samples, OperatingEnvelope(ran'))]
      BY <1>1, <1>4, <2>3 DEF GateInv
    <3>2. /\ mode = "calibrate" /\ Len(ran) >= 5
          /\ gate = [k \in {4, 5} |-> Recovery(ran[k].samples, OperatingEnvelope(ran))]
      BY <3>1 DEF CalibrationInv, GateInv
    <3>3. scenario = "E"
      <4>1. mode \in Modes /\ Len(Requested) \in Nat
        BY RequestedRuns DEF CalibrationInv, RunsInv
      <4>2. Len(ran) + 1 \in 6..Len(Requested)
        BY <1>1, <3>2, <4>1
      <4> QED
        BY <3>2, <4>1, <4>2, RequestedRuns
    <3>4. OperatingEnvelope(ran') = OperatingEnvelope(ran)
      BY <2>1, <2>2, <3>3, EnvelopeStays DEF CalibrationInv, RunsInv
    <3>5. ran'[4] = ran[4] /\ ran'[5] = ran[5]
      BY <1>1, <2>3, <3>2
    <3> QED
      BY <3>2, <3>4, <3>5
  <2>10. EndInv'
    BY <1>4, <2>7 DEF CalibrationInv, EndInv, RunNext
  <2> QED
    BY <2>8, <2>9, <2>10 DEF CalibrationInv
<1> QED
  BY <1>3, <1>4 DEF RunNext

LEMMA RecoveredRuns ==
  ASSUME RunsInv, mode = "calibrate", Len(ran) >= 5
  PROVE  {i \in DOMAIN ran : ran[i].scenario \in {"E", "F"}} = 4..Len(ran)
<1>1. DOMAIN ran = 1..Len(ran) /\ Len(ran) \in Nat /\ Len(Requested) \in Nat
  BY RequestedRuns DEF RunsInv
<1>2. \A k \in 4..Len(ran) : Requested[k] \in {"E", "F"}
  <2>1. \A k \in 4..Len(ran) : k = 4 \/ k = 5 \/ k \in 6..Len(Requested)
    BY <1>1 DEF RunsInv
  <2> QED
    BY <2>1, RequestedRuns DEF RunsInv
<1>3. \A k \in 1..3 : Requested[k] \notin {"E", "F"}
  BY RequestedRuns DEF RunsInv
<1>4. \A k \in 1..Len(ran) : k \in 1..3 \/ k \in 4..Len(ran)
  BY <1>1
<1>5. \A k \in 1..Len(ran) : ran[k].scenario \in {"E", "F"} <=> k \in 4..Len(ran)
  <2>1. \A k \in 1..Len(ran) : ran[k].scenario = Requested[k]
    BY <1>1 DEF RunsInv
  <2>2. \A k \in 1..3 : k \notin 4..Len(ran)
    OBVIOUS
  <2> QED
    BY <1>2, <1>3, <1>4, <2>1, <2>2
<1>6. 4..Len(ran) \subseteq 1..Len(ran)
  BY <1>1
<1> QED
  BY <1>1, <1>5, <1>6

LEMMA CheckStep ==
  ASSUME CalibrationInv, CheckPair
  PROVE  CalibrationInv'
<1>1. mode = "calibrate" /\ Len(ran) = 5 /\ step = "runs" /\ gate = None
  BY RequestedRuns DEF CalibrationInv, RunsInv, CheckPair
<1>2. CASE FailCalibration
  BY <1>1, <1>2 DEF FailCalibration, CalibrationInv, RunsInv, GateInv, EndInv, Requested, InitialRuns
<1>3. CASE gate' = Recoveries(ran, OperatingEnvelope(ran))
           /\ UNCHANGED <<mode, step, ran, analysis, ledger>>
  <2>1. {i \in DOMAIN ran : ran[i].scenario \in {"E", "F"}} = {4, 5}
    BY <1>1, RecoveredRuns DEF CalibrationInv
  <2>2. gate' = [k \in {4, 5} |-> Recovery(ran[k].samples, OperatingEnvelope(ran))]
    BY <1>3, <2>1 DEF Recoveries
  <2>3. GateInv'
    BY <1>1, <1>3, <2>2 DEF GateInv
  <2> QED
    BY <1>1, <1>3, <2>3 DEF CalibrationInv, RunsInv, EndInv, Requested, InitialRuns
<1> QED
  BY <1>2, <1>3 DEF CheckPair

LEMMA CalibrationInvStep ==
  ASSUME CalibrationInv, [LabNext]_labVars
  PROVE  CalibrationInv'
<1>1. CASE RunNext
  BY <1>1, RunStep
<1>2. CASE CheckPair
  BY <1>2, CheckStep
<1>3. CASE Analyse
  <2>1. Len(ran) = Len(Requested) /\ step' = "finish" /\ step = "runs"
        /\ UNCHANGED <<mode, ran, gate, ledger>> /\ (mode = "calibrate" => gate # None)
    BY <1>3 DEF Analyse
  <2>2. mode = "calibrate" => analysis' = Recoveries(ran, OperatingEnvelope(ran))
    BY <1>3 DEF Analyse
  <2> QED
    BY <2>1, <2>2 DEF CalibrationInv, RunsInv, GateInv, EndInv, Requested, InitialRuns
<1>4. CASE Finish \/ HandleFailure
  <2>1. /\ UNCHANGED <<mode, ran, gate, analysis>> /\ step' = "over"
        /\ ledger' = [status |-> ledger'.status, runs |-> ledger.runs]
        /\ step = "finish" \/ ledger'.status = "FAILED"
    BY <1>4 DEF Finish, HandleFailure, CalibrationInv, RunsInv
  <2>2. Requested' = Requested /\ InitialRuns' = InitialRuns
    BY <2>1 DEF Requested, InitialRuns
  <2>3. RunsInv'
    BY <2>1, <2>2 DEF CalibrationInv, RunsInv
  <2>4. GateInv'
    BY <2>1 DEF CalibrationInv, GateInv
  <2>5. ledger'.status = "COMPLETE" => step = "finish"
    BY <2>1
  <2>6. EndInv'
    BY <2>1, <2>2, <2>5 DEF CalibrationInv, EndInv
  <2> QED
    BY <2>3, <2>4, <2>6 DEF CalibrationInv
<1>5. CASE (CalibrationRaises \/ Interrupted) /\ step # "over"
  BY <1>5 DEF CalibrationRaises, FailCalibration, Interrupted, CalibrationInv, RunsInv, GateInv,
              EndInv, Requested, InitialRuns
<1>6. CASE UNCHANGED calibrationVars
  BY <1>6 DEF calibrationVars, CalibrationInv, RunsInv, GateInv, EndInv, Requested, InitialRuns
<1> QED
  BY <1>1, <1>2, <1>3, <1>4, <1>5, <1>6
     DEF LabNext, labVars, CalibrationNext, CalibrationStep, CalibrationRaises, Interrupted

\* Every index of a block is one of the chosen.
LEMMA BlocksAreChosen ==
  ASSUME NEW indexes, NEW chosen, NEW block \in Blocks(indexes, chosen), NEW x \in block
  PROVE  x \in chosen
<1> DEFINE n == Len(indexes)
           In(k) == k \in 1..n /\ indexes[k] \in chosen
<1>1. PICK p \in (1..n) \X (1..n) :
        /\ \A k \in p[1]..p[2] : In(k)
        /\ block = {indexes[k] : k \in p[1]..p[2]}
  BY DEF Blocks
<1>2. PICK k \in p[1]..p[2] : x = indexes[k]
  BY <1>1
<1> QED
  BY <1>1, <1>2

\* A capture that keeps up with its load is in no window of growing pressure: its
\* growth is the difference of the two rates, and the growth's floor is positive.
LEMMA StableIsNotPressed ==
  ASSUME NEW s \in Scenarios, NEW samples \in Outcomes(s), NEW e,
         NEW counted \in Recovery(samples, e).stable,
         NEW end \in Pressure(samples)
  PROVE  counted \cap ((end - ActivationCount + 1)..end) = {}
<1>1. SUFFICES ASSUME NEW x \in counted, x \in (end - ActivationCount + 1)..end
               PROVE  FALSE
  OBVIOUS
<1>2. x \in DOMAIN samples /\ samples[x].kafka # None /\ Stable(samples[x], e)
  <2> DEFINE known == {k \in DOMAIN samples : samples[k].kafka # None}
  <2>1. PICK settled : counted \in Blocks(settled, {k \in known : Stable(samples[k], e)})
    BY DEF Recovery
  <2>2. x \in {k \in known : Stable(samples[k], e)}
    BY <1>1, <2>1, BlocksAreChosen
  <2> QED
    BY <2>2
<1> DEFINE m == samples[x].kafka
<1>3. m.commit >= m.produce
  BY <1>2 DEF Stable
<1>4. m.slope >= SlopeFloor
  BY <1>1 DEF Pressure
<1>5. m.produce \in Int /\ m.commit \in Int /\ m.slope \in Int /\ m.produce - m.commit = m.slope
  BY <1>2, CalibrationAssumption DEF Consistent
<1>6. SlopeFloor \in Nat \ {0}
  BY ActivationAssumption
<1> HIDE DEF m
<1> QED
  BY <1>3, <1>4, <1>5, <1>6

LEMMA CalibrationInvHolds == LabSpec => []CalibrationInv
<1>1. LabInit => CalibrationInv
  <2> SUFFICES ASSUME LabInit PROVE CalibrationInv
    OBVIOUS
  <2>1. /\ mode \in Modes /\ ran = << >> /\ gate = None /\ step = "runs"
        /\ ledger.status = "RUNNING" /\ ledger.runs = << >>
        /\ ledger = [status |-> ledger.status, runs |-> << >>]
    BY DEF LabInit, CalibrationInit
  <2>2. DOMAIN ran = {} /\ Len(ran) = 0 /\ ran \in Seq(Returned)
        /\ << >> = [k \in DOMAIN ran |-> ran[k].scenario]
    BY <2>1
  <2>3. Len(Requested) \in Nat
    BY <2>1, RequestedRuns
  <2> QED
    BY <2>1, <2>2, <2>3 DEF CalibrationInv, RunsInv, GateInv, EndInv
<1>2. CalibrationInv /\ [LabNext]_labVars => CalibrationInv'
  BY CalibrationInvStep
<1> QED
  BY <1>1, <1>2, PTL DEF LabSpec

\* A completed calibration ran what was requested, judges the first two
\* recoveries as its gate did, and counts no capture of growing pressure as a
\* return, for any samples whose rates and growth agree, however many recoveries
\* are repeated.
THEOREM CalibrationConsistent == LabSpec => []CalibrationIsConsistent
<1>1. CalibrationInv => CalibrationIsConsistent
  <2> SUFFICES ASSUME CalibrationInv, ledger.status = "COMPLETE", mode = "calibrate"
               PROVE  /\ ledger.runs = Requested
                      /\ \A k \in DOMAIN gate : analysis[k] = gate[k]
                      /\ \A k \in DOMAIN analysis : \A counted \in analysis[k].stable :
                           \A end \in Pressure(ran[k].samples) :
                             counted \cap ((end - ActivationCount + 1)..end) = {}
    BY DEF CalibrationIsConsistent
  <2>1. /\ Len(ran) = Len(Requested) /\ gate # None
        /\ analysis = Recoveries(ran, OperatingEnvelope(ran))
    BY DEF CalibrationInv, EndInv
  <2>2. /\ Len(ran) >= 5
        /\ gate = [k \in {4, 5} |-> Recovery(ran[k].samples, OperatingEnvelope(ran))]
    BY <2>1 DEF CalibrationInv, GateInv
  <2>3. analysis = [k \in 4..Len(ran) |-> Recovery(ran[k].samples, OperatingEnvelope(ran))]
    BY <2>1, <2>2, RecoveredRuns DEF CalibrationInv, Recoveries
  <2>4. ran \in Seq(Returned) /\ Requested \in Seq(Scenarios) /\ Len(ran) \in Nat
    BY RequestedRuns DEF CalibrationInv, RunsInv
  <2>5. ledger.runs = Requested
    <3>1. DOMAIN ran = DOMAIN Requested
      BY <2>1, <2>4
    <3>2. ledger.runs = [k \in DOMAIN ran |-> Requested[k]]
      BY DEF CalibrationInv, RunsInv
    <3> QED
      BY <2>4, <3>1, <3>2
  <2>6. \A k \in DOMAIN gate : analysis[k] = gate[k]
    BY <2>2, <2>3, <2>4
  <2>7. ASSUME NEW k \in DOMAIN analysis, NEW counted \in analysis[k].stable,
               NEW end \in Pressure(ran[k].samples)
        PROVE  counted \cap ((end - ActivationCount + 1)..end) = {}
    <3>1. ran[k] \in Returned /\ analysis[k] = Recovery(ran[k].samples, OperatingEnvelope(ran))
      BY <2>3, <2>4
    <3>2. PICK s \in Scenarios : ran[k].samples \in Outcomes(s)
      BY <3>1 DEF Returned
    <3> QED
      BY <2>7, <3>1, <3>2, StableIsNotPressed
  <2> QED
    BY <2>5, <2>6, <2>7
<1> QED
  BY <1>1, CalibrationInvHolds, PTL

-----------------------------------------------------------------------------
(* Numbers: the smallest of a set, induction over a set, and what is       *)
(* defined by recursion.                                                   *)

\* Among the intervals 0..x one is in all others.
LEMMA SmallestExists ==
  ASSUME NEW T, T \subseteq Nat, T # {}
  PROVE  \E x \in T : \A y \in T : x <= y
<1>1. PICK F : F = {0..x : x \in T}
  OBVIOUS
<1>2. ASSUME NEW I \in F
      PROVE  I \subseteq Nat /\ IsFiniteSet(I)
  <2>1. PICK x \in Nat : I = 0..x
    BY <1>1
  <2>2. IsFiniteSet(0..x)
    BY FS_Interval
  <2> QED
    BY <2>1, <2>2
<1>3. F \subseteq FiniteSubsetsOf(Nat) /\ F # {}
  BY <1>1, <1>2 DEF FiniteSubsetsOf
<1>4. IsWellFoundedOn(StrictSubsetOrdering(Nat), FiniteSubsetsOf(Nat))
  BY FS_StrictSubsetOrderingWellFounded
<1>5. PICK I \in F : \A J \in F : ~ (<<J, I>> \in StrictSubsetOrdering(Nat))
  BY ONLY <1>3, <1>4, WFMin
<1>6. PICK x \in T : I = 0..x
  BY <1>1, <1>5
<1>7. ASSUME NEW y \in T, y < x
      PROVE  FALSE
  <2>1. 0..y \in F
    BY <1>1
  <2>2. 0..y \subseteq 0..x /\ x \in 0..x /\ x \notin 0..y
    BY <1>7
  <2>3. <<0..y, I>> \in StrictSubsetOrdering(Nat)
    BY <1>2, <1>6, <2>1, <2>2 DEF StrictSubsetOrdering
  <2> QED
    BY <1>5, <2>1, <2>3
<1> QED
  BY <1>7

\* Min of some natural numbers is the smallest of them.
LEMMA SmallestIsMin ==
  ASSUME NEW T, T \subseteq Nat, T # {}
  PROVE  Min(T) \in T /\ \A y \in T : Min(T) <= y
BY SmallestExists DEF Min

\* A set with 0 and with the successor of each of its numbers has them all.
LEMMA NaturalInduction ==
  ASSUME NEW S, 0 \in S, \A n \in Nat : n \in S => n + 1 \in S
  PROVE  Nat \subseteq S
<1> DEFINE T == Nat \ S
<1>1. SUFFICES ASSUME T # {} PROVE FALSE
  OBVIOUS
<1>2. PICK x \in T : \A y \in T : x <= y
  <2>1. T \subseteq Nat
    OBVIOUS
  <2> HIDE DEF T
  <2> QED
    BY <1>1, <2>1, SmallestExists
<1>3. x # 0 /\ x - 1 \in Nat
  OBVIOUS
<1>4. x - 1 \in S
  BY <1>2, <1>3
<1> QED
  BY <1>3, <1>4

\* Of the values a function has on some of 1..n one is the largest.
LEMMA LargestExists ==
  ASSUME NEW n \in Nat, NEW U, U \subseteq 1..n, U # {}, NEW f, \A k \in U : f[k] \in Int
  PROVE  \E k \in U : \A j \in U : f[k] >= f[j]
<1> DEFINE S == {m \in Nat : U \cap 1..m # {} =>
                               \E k \in U \cap 1..m : \A j \in U \cap 1..m : f[k] >= f[j]}
<1>1. 0 \in S
  OBVIOUS
<1>2. ASSUME NEW m \in Nat, m \in S
      PROVE  m + 1 \in S
  <2>1. 1..(m + 1) = 1..m \cup {m + 1}
    OBVIOUS
  <2>2. CASE m + 1 \notin U
    <3>1. U \cap 1..(m + 1) = U \cap 1..m
      BY <2>1, <2>2
    <3> QED
      BY <1>2, <3>1
  <2>3. CASE m + 1 \in U /\ U \cap 1..m = {}
    <3>1. U \cap 1..(m + 1) = {m + 1}
      BY <2>1, <2>3
    <3> QED
      BY <2>3, <3>1
  <2>4. CASE m + 1 \in U /\ U \cap 1..m # {}
    <3>1. PICK k \in U \cap 1..m : \A j \in U \cap 1..m : f[k] >= f[j]
      BY <1>2, <2>4
    <3>2. U \cap 1..(m + 1) = (U \cap 1..m) \cup {m + 1}
      BY <2>1, <2>4
    <3>3. f[k] \in Int /\ f[m + 1] \in Int /\ \A j \in U \cap 1..m : f[j] \in Int
      BY <2>4
    <3>4. CASE f[k] >= f[m + 1]
      BY <3>1, <3>2, <3>3, <3>4
    <3>5. CASE f[m + 1] > f[k]
      <4>1. \A j \in U \cap 1..(m + 1) : f[m + 1] >= f[j]
        BY <3>1, <3>2, <3>3, <3>5
      <4> QED
        BY <2>4, <3>2, <4>1
    <3> QED
      BY <3>3, <3>4, <3>5
  <2> QED
    BY <2>2, <2>3, <2>4
<1>3. n \in S
  <2> HIDE DEF S
  <2> QED
    BY <1>1, <1>2, NaturalInduction
<1>4. U \cap 1..n = U
  OBVIOUS
<1> QED
  BY <1>3, <1>4

-----------------------------------------------------------------------------
(* The histories of the captures.                                          *)

HistoryStep(f, n) ==
  IF n = 0 THEN {<< >>}
  ELSE UNION {{Append(cs, c) : c \in Collections(cs)} : cs \in f[n - 1]}

\* There is a function that is defined from one length of a history to the next.
LEMMA HistoriesExist ==
  ASSUME NEW m \in Nat
  PROVE  \E f : f = [n \in 0..m |-> HistoryStep(f, n)]
<1> DEFINE S == {k \in Nat : \E f : f = [n \in 0..k |-> HistoryStep(f, n)]}
<1>1. 0 \in S
  <2> DEFINE f == [n \in 0..0 |-> {<< >>}]
  <2>1. f = [n \in 0..0 |-> HistoryStep(f, n)]
    BY DEF HistoryStep
  <2> QED
    BY <2>1
<1>2. ASSUME NEW k \in Nat, k \in S
      PROVE  k + 1 \in S
  <2>1. PICK f : f = [n \in 0..k |-> HistoryStep(f, n)]
    BY <1>2
  <2> DEFINE g == [n \in 0..(k + 1) |-> IF n = k + 1 THEN HistoryStep(f, n) ELSE f[n]]
  <2>2. \A n \in 0..(k + 1) : n # 0 => n - 1 \in 0..k /\ g[n - 1] = f[n - 1]
    OBVIOUS
  <2>3. \A n \in 0..(k + 1) : HistoryStep(g, n) = HistoryStep(f, n)
    BY <2>2 DEF HistoryStep
  <2>4. \A n \in 0..(k + 1) : g[n] = HistoryStep(f, n)
    BY <2>1
  <2>5. g = [n \in 0..(k + 1) |-> HistoryStep(g, n)]
    BY <2>3, <2>4
  <2> HIDE DEF g
  <2>6. \E h : h = [n \in 0..(k + 1) |-> HistoryStep(h, n)]
    BY <2>5
  <2> QED
    BY <2>6
<1>3. m \in S
  <2> HIDE DEF S
  <2> QED
    BY <1>1, <1>2, NaturalInduction
<1> QED
  BY <1>3

\* Histories is that function.
LEMMA HistoriesAre ==
  Histories = [n \in 0..(Planned + Overtime) |-> HistoryStep(Histories, n)]
<1>1. Histories = CHOOSE f : f = [n \in 0..(Planned + Overtime) |-> HistoryStep(f, n)]
  BY DEF Histories, HistoryStep
<1>2. Planned + Overtime \in Nat
  BY ScenarioAssumption
<1>3. PICK m : m = Planned + Overtime
  OBVIOUS
<1>4. \E f : f = [n \in 0..m |-> HistoryStep(f, n)]
  BY <1>2, <1>3, HistoriesExist
<1> QED
  BY <1>1, <1>3, <1>4

-----------------------------------------------------------------------------
(* Sums over the partitions.                                               *)

Picked(s) == CHOOSE x \in s : TRUE

SumStep(f, g, s) == IF s = {} THEN 0 ELSE f[Picked(s)] + g[s \ {Picked(s)}]

Small(D, n) == {s \in SUBSET D : Cardinality(s) <= n}

\* All but one of the elements are one element less.
LEMMA AllButOne ==
  ASSUME NEW D, IsFiniteSet(D), NEW s \in SUBSET D, s # {}
  PROVE  /\ Picked(s) \in s /\ s \ {Picked(s)} \in SUBSET D
         /\ Cardinality(s) \in Nat \ {0} /\ Cardinality(s \ {Picked(s)}) = Cardinality(s) - 1
<1>1. Picked(s) \in s
  BY DEF Picked
<1>2. IsFiniteSet(s)
  BY FS_Subset
<1>3. Cardinality(s) \in Nat /\ Cardinality(s) # 0
  BY <1>2, FS_CardinalityType, FS_EmptySet
<1>4. Cardinality(s \ {Picked(s)}) = Cardinality(s) - 1
  BY <1>1, <1>2, FS_RemoveElement
<1> QED
  BY <1>1, <1>3, <1>4

\* No element is no set but the empty one.
LEMMA NoneIsSmall ==
  ASSUME NEW D, IsFiniteSet(D)
  PROVE  Small(D, 0) = {{}}
<1>1. \A s \in SUBSET D : IsFiniteSet(s) /\ Cardinality(s) \in Nat
  BY FS_Subset, FS_CardinalityType
<1>2. \A s \in SUBSET D : Cardinality(s) <= 0 <=> s = {}
  BY <1>1, FS_EmptySet
<1>3. {} \in SUBSET D
  OBVIOUS
<1> QED
  BY <1>2, <1>3 DEF Small

\* There is a function that sums over the subsets, one element at a time.
LEMMA SumsExist ==
  ASSUME NEW f, NEW D, IsFiniteSet(D), NEW m \in Nat
  PROVE  \E g : g = [s \in Small(D, m) |-> SumStep(f, g, s)]
<1> DEFINE S == {n \in Nat : \E g : g = [s \in Small(D, n) |-> SumStep(f, g, s)]}
<1>1. 0 \in S
  <2> DEFINE h == [s \in Small(D, 0) |-> 0]
  <2>1. \A s \in Small(D, 0) : SumStep(f, h, s) = 0
    BY NoneIsSmall DEF SumStep
  <2>2. h = [s \in Small(D, 0) |-> SumStep(f, h, s)]
    BY <2>1
  <2> HIDE DEF h
  <2>3. \E g : g = [s \in Small(D, 0) |-> SumStep(f, g, s)]
    BY <2>2
  <2> QED
    BY <2>3
<1>2. ASSUME NEW n \in Nat, n \in S
      PROVE  n + 1 \in S
  <2>1. PICK g : g = [s \in Small(D, n) |-> SumStep(f, g, s)]
    BY <1>2
  <2> DEFINE h == [s \in Small(D, n + 1) |-> SumStep(f, g, s)]
  <2>2. ASSUME NEW s \in Small(D, n + 1), s # {}
        PROVE  s \ {Picked(s)} \in Small(D, n) /\ s \ {Picked(s)} \in Small(D, n + 1)
    <3>1. s \in SUBSET D /\ Cardinality(s) <= n + 1
      BY DEF Small
    <3>2. /\ s \ {Picked(s)} \in SUBSET D
          /\ Cardinality(s) \in Nat \ {0} /\ Cardinality(s \ {Picked(s)}) = Cardinality(s) - 1
      BY <2>2, <3>1, AllButOne
    <3>3. Cardinality(s \ {Picked(s)}) <= n /\ Cardinality(s \ {Picked(s)}) <= n + 1
      BY <3>1, <3>2
    <3> QED
      BY <3>2, <3>3 DEF Small
  <2>3. \A s \in Small(D, n + 1) : s # {} => h[s \ {Picked(s)}] = g[s \ {Picked(s)}]
    <3> SUFFICES ASSUME NEW s \in Small(D, n + 1), s # {}
                 PROVE  h[s \ {Picked(s)}] = g[s \ {Picked(s)}]
      OBVIOUS
    <3>1. PICK t : t = s \ {Picked(s)} /\ t \in Small(D, n) /\ t \in Small(D, n + 1)
      BY <2>2
    <3>2. h[t] = SumStep(f, g, t) /\ g[t] = SumStep(f, g, t)
      BY <2>1, <3>1
    <3> QED
      BY <3>1, <3>2
  <2> HIDE DEF h
  <2>4. \A s \in Small(D, n + 1) : SumStep(f, h, s) = SumStep(f, g, s)
    BY <2>3 DEF SumStep
  <2>5. h = [s \in Small(D, n + 1) |-> SumStep(f, h, s)]
    BY <2>4 DEF h
  <2>6. \E e : e = [s \in Small(D, n + 1) |-> SumStep(f, e, s)]
    BY <2>5
  <2> QED
    BY <2>6
<1>3. m \in S
  <2> HIDE DEF S
  <2> QED
    BY <1>1, <1>2, NaturalInduction
<1> QED
  BY <1>3

\* The sum of integers is an integer.
LEMMA SumIsInteger ==
  ASSUME NEW f, IsFiniteSet(DOMAIN f), \A x \in DOMAIN f : f[x] \in Int
  PROVE  SumFunction(f) \in Int
<1>0. PICK D : D = DOMAIN f
  OBVIOUS
<1>1. SumFunction(f) = (CHOOSE g : g = [s \in SUBSET D |-> SumStep(f, g, s)])[D]
  BY <1>0 DEF SumFunction, SumFunctionOnSet, FoldFunctionOnSet, MapThenFoldSet, SumStep, Picked
<1>2. PICK m \in Nat : m = Cardinality(D)
  BY <1>0, FS_CardinalityType
<1>3. Small(D, m) = SUBSET D
  BY <1>0, <1>2, FS_Subset DEF Small
<1>4. IsFiniteSet(D)
  BY <1>0
<1>5. PICK g : /\ g = CHOOSE e : e = [s \in SUBSET D |-> SumStep(f, e, s)]
               /\ g = [s \in SUBSET D |-> SumStep(f, g, s)]
  <2>1. PICK h : h = [s \in Small(D, m) |-> SumStep(f, h, s)]
    BY ONLY m \in Nat, <1>4, SumsExist
  <2>2. h = [s \in SUBSET D |-> SumStep(f, h, s)]
    BY <1>3, <2>1
  <2> QED
    BY <2>2
<1> DEFINE S == {n \in Nat : \A s \in Small(D, n) : g[s] \in Int}
<1>6. 0 \in S
  <2>1. g[{}] = SumStep(f, g, {})
    BY <1>5
  <2>2. g[{}] = 0
    BY <2>1 DEF SumStep
  <2>3. Small(D, 0) = {{}}
    BY <1>4, NoneIsSmall
  <2>4. \A s \in Small(D, 0) : g[s] \in Int
    <3>1. \A s \in {{}} : s = {}
      OBVIOUS
    <3> QED
      BY <2>2, <2>3, <3>1
  <2> QED
    BY <2>4
<1>7. ASSUME NEW n \in Nat, n \in S
      PROVE  n + 1 \in S
  <2> SUFFICES ASSUME NEW s \in Small(D, n + 1)
               PROVE  g[s] \in Int
    OBVIOUS
  <2>1. s \in SUBSET D /\ Cardinality(s) <= n + 1 /\ g[s] = SumStep(f, g, s)
    BY <1>5 DEF Small
  <2>2. CASE s = {}
    BY <2>1, <2>2 DEF SumStep
  <2>3. CASE s # {}
    <3>1. PICK t : t = s \ {Picked(s)}
      OBVIOUS
    <3>2. /\ Picked(s) \in s /\ t \in SUBSET D
          /\ Cardinality(s) \in Nat \ {0} /\ Cardinality(t) = Cardinality(s) - 1
      BY <1>4, <2>1, <2>3, <3>1, AllButOne
    <3>3. t \in Small(D, n)
      BY <2>1, <3>2 DEF Small
    <3>4. g[t] \in Int /\ f[Picked(s)] \in Int
      BY <1>0, <1>7, <2>1, <3>2, <3>3
    <3>5. g[s] = f[Picked(s)] + g[t]
      BY <2>1, <2>3, <3>1 DEF SumStep
    <3> QED
      BY <3>4, <3>5
  <2> QED
    BY <2>2, <2>3
<1>8. m \in S
  <2> HIDE DEF S
  <2> QED
    BY <1>6, <1>7, NaturalInduction
<1>9. D \in Small(D, m)
  BY <1>3
<1> QED
  BY <1>1, <1>5, <1>8, <1>9

-----------------------------------------------------------------------------
(* What can be measured.                                                   *)

\* Finitely many series of integers.
Readable(items) == IsFiniteSet(items) /\ \A i \in items : i.samples \in Seq(Int)

ReadableBundle(b) == Readable(b.end) /\ Readable(b.committed) /\ Readable(b.lag)

\* A bundle has three families.
LEMMA ThreeFamilies ==
  ASSUME NEW b
  PROVE  Range(Families(b)) = {b.end, b.committed, b.lag}
<1>1. Families(b) = <<b.end, b.committed, b.lag>>
  BY DEF Families
<1>2. DOMAIN <<b.end, b.committed, b.lag>> = 1..3
  OBVIOUS
<1>3. 1..3 = {1, 2, 3}
  OBVIOUS
<1> QED
  BY <1>1, <1>2, <1>3 DEF Range

\* A usable family is read completely, and has one item for each partition.
LEMMA UsableFamily ==
  ASSUME NEW b, NEW items, NEW monotonic, FamilyUsable(b, items, monotonic)
  PROVE  /\ \A i \in items : i.status = "OK" /\ i.freshness = "FRESH"
         /\ \A i \in items : Len(i.samples) = SampleCount
         /\ \A i \in items : \A k \in 1..SampleCount : i.samples[k] >= 0
         /\ monotonic =>
              \A i \in items : \A k \in 2..SampleCount : i.samples[k-1] <= i.samples[k]
         /\ Parsed(items) = items /\ Known(items) = Partitions
         /\ {i.partition : i \in items} = Partitions
         /\ Cardinality(items) = Cardinality(Partitions)
         /\ \A p \in Partitions : Item(items, p) \in items
<1>1. DependencyUsable(items) /\ \A i \in items : SeriesUsable(b, i, monotonic)
  BY DEF FamilyUsable
<1>2. \A i \in items : i.status = "OK" /\ i.freshness = "FRESH"
  BY <1>1 DEF DependencyUsable, ItemUsable
<1>3. /\ \A i \in items : Len(i.samples) = SampleCount
      /\ \A i \in items : \A k \in 1..SampleCount : i.samples[k] >= 0
      /\ monotonic =>
              \A i \in items : \A k \in 2..SampleCount : i.samples[k-1] <= i.samples[k]
  BY <1>1 DEF SeriesUsable
<1>4. SampleCount > 1
  BY EvidenceAssumption
<1>5. Parsed(items) = items
  BY <1>2, <1>3, <1>4 DEF Parsed
<1>6. /\ {i.partition : i \in items} = Partitions
      /\ Cardinality(items) = Cardinality(Partitions)
  BY DEF FamilyUsable
<1>7. \A p \in Partitions : Item(items, p) \in items
  BY <1>6 DEF Item
<1> QED
  BY <1>2, <1>3, <1>5, <1>6, <1>7 DEF Known

\* What a function makes of finitely many elements is finitely many.
LEMMA ImageIsFinite ==
  ASSUME NEW S, IsFiniteSet(S), NEW f
  PROVE  IsFiniteSet({f[x] : x \in S})
<1> DEFINE T == {f[x] : x \in S}
           g == [x \in S |-> f[x]]
<1>1. g \in Surjection(S, T)
  BY DEF Surjection
<1> QED
  BY <1>1, FS_Surjection

\* Items of one grid.
LEMMA OneGrid ==
  ASSUME NEW S, IsFiniteSet(S), One({i.grid : i \in S})
  PROVE  \E g : \A i \in S : i.grid = g
<1> DEFINE f == [i \in S |-> i.grid]
<1>1. {f[i] : i \in S} = {i.grid : i \in S}
  OBVIOUS
<1>2. IsFiniteSet({f[i] : i \in S})
  <2> HIDE DEF f
  <2> QED
    BY ImageIsFinite
<1>3. PICK g : {i.grid : i \in S} = {g}
  BY <1>1, <1>2, FS_Singleton DEF One
<1> QED
  BY <1>3

\* A capture that a window can use is measured completely.
LEMMA UsableIsMeasured ==
  ASSUME NEW b, ReadableBundle(b), CoreUsable(b)
  PROVE  KafkaQuality(b) /\ ~Anomalous(b) /\ Measured(b) = Partitions
<1>1. /\ FamilyUsable(b, b.end, TRUE) /\ FamilyUsable(b, b.committed, TRUE)
      /\ FamilyUsable(b, b.lag, FALSE)
      /\ \A p \in Partitions : LagIsDifference(b, p)
  BY DEF CoreUsable
<1>2. KafkaQuality(b)
  <2>1. ASSUME NEW f \in {b.end, b.committed, b.lag}
        PROVE  /\ {i.partition : i \in f} = Partitions /\ Cardinality(f) = Cardinality(Partitions)
               /\ \A i \in f : i.status = "OK" /\ i.freshness = "FRESH"
    <3>1. FamilyUsable(b, f, TRUE) \/ FamilyUsable(b, f, FALSE)
      BY <1>1
    <3> QED
      BY <3>1, UsableFamily
  <2> QED
    BY <2>1, ThreeFamilies DEF KafkaQuality
<1>3. /\ Parsed(b.end) = b.end /\ Parsed(b.committed) = b.committed /\ Parsed(b.lag) = b.lag
      /\ Known(b.end) = Partitions /\ Known(b.committed) = Partitions /\ Known(b.lag) = Partitions
  BY <1>1, UsableFamily
<1>4. \A p \in Partitions : /\ Item(b.end, p) \in b.end /\ Item(b.committed, p) \in b.committed
                            /\ Item(b.lag, p) \in b.lag
  BY <1>1, UsableFamily
<1>5. PICK g : \A i \in (b.end \cup b.committed) \cup b.lag : i.grid = g
  <2>1. IsFiniteSet((b.end \cup b.committed) \cup b.lag)
    BY FS_Union DEF ReadableBundle, Readable
  <2>2. One({i.grid : i \in (b.end \cup b.committed) \cup b.lag})
    BY DEF CoreUsable
  <2> QED
    BY <2>1, <2>2, OneGrid
<1>6. ASSUME NEW p \in Partitions
      PROVE  SameGrid(b, p)
  <2>1. {Item(Parsed(f), p).grid : f \in {b.end, b.committed, b.lag}} = {g}
    BY <1>3, <1>4, <1>5
  <2>2. One({g})
    BY FS_Singleton DEF One
  <2> QED
    BY <2>1, <2>2 DEF SameGrid
<1>7. Measured(b) = Partitions
  BY <1>3, <1>6 DEF Measured
<1>8. ASSUME NEW p \in Partitions
      PROVE  /\ ~Decreases(Item(b.end, p).samples) /\ ~Decreases(Item(b.committed, p).samples)
             /\ \A k \in 1..Len(Item(b.lag, p).samples) :
                  /\ ~(Item(b.end, p).samples[k] < 0) /\ ~(Item(b.committed, p).samples[k] < 0)
                  /\ ~(Item(b.lag, p).samples[k] < 0)
                  /\ Item(b.lag, p).samples[k] =
                       Item(b.end, p).samples[k] - Item(b.committed, p).samples[k]
  <2>1. PICK e, c, l : /\ e = Item(b.end, p).samples /\ c = Item(b.committed, p).samples
                       /\ l = Item(b.lag, p).samples
    OBVIOUS
  <2>2. /\ e \in Seq(Int) /\ c \in Seq(Int) /\ l \in Seq(Int)
        /\ Len(e) = SampleCount /\ Len(c) = SampleCount /\ Len(l) = SampleCount
    <3>1. e \in Seq(Int) /\ c \in Seq(Int) /\ l \in Seq(Int)
      BY <1>4, <2>1 DEF ReadableBundle, Readable
    <3>2. Len(e) = SampleCount
      <4>1. \A i \in b.end : Len(i.samples) = SampleCount
        BY <1>1, UsableFamily
      <4> QED
        BY <1>4, <2>1, <4>1
    <3>4. Len(c) = SampleCount
      <4>1. \A i \in b.committed : Len(i.samples) = SampleCount
        BY <1>1, UsableFamily
      <4> QED
        BY <1>4, <2>1, <4>1
    <3>3. Len(l) = SampleCount
      BY <1>1, <1>4, <2>1, UsableFamily
    <3> QED
      BY <3>1, <3>2, <3>3, <3>4
  <2>3. \A k \in 1..SampleCount : e[k] >= 0 /\ c[k] >= 0 /\ l[k] >= 0
    BY <1>1, <1>4, <2>1, UsableFamily
  <2>4. \A k \in 2..SampleCount : e[k-1] <= e[k] /\ c[k-1] <= c[k]
    BY <1>1, <1>4, <2>1, UsableFamily
  <2>5. \A k \in 1..SampleCount : l[k] = e[k] - c[k]
    BY <1>1, <2>1 DEF LagIsDifference
  <2>6. \A k \in 1..SampleCount : e[k] \in Int /\ c[k] \in Int /\ l[k] \in Int
    BY <2>2
  <2>7. \A k \in 2..SampleCount : k \in 1..SampleCount /\ k - 1 \in 1..SampleCount
    <3>1. SampleCount \in Nat
      BY EvidenceAssumption
    <3> QED
      BY ONLY <3>1
  <2>8. ~Decreases(e) /\ ~Decreases(c)
    <3>1. Len(e) = SampleCount /\ Len(c) = SampleCount
      BY ONLY <2>2
    <3>2. \A k \in 2..SampleCount : ~(e[k] < e[k-1]) /\ ~(c[k] < c[k-1])
      BY ONLY <2>4, <2>6, <2>7
    <3> QED
      BY ONLY <3>1, <3>2 DEF Decreases
  <2>9. \A k \in 1..Len(l) : ~(e[k] < 0) /\ ~(c[k] < 0) /\ ~(l[k] < 0)
    BY <2>2, <2>3, <2>6
  <2> QED
    BY <2>1, <2>2, <2>5, <2>8, <2>9
<1>9. ~Anomalous(b)
  BY <1>3, <1>7, <1>8 DEF Anomalous
<1> QED
  BY <1>2, <1>7, <1>9

\* The totals and the changes are numbers.
LEMMA TotalsAreNumbers ==
  ASSUME NEW b, ReadableBundle(b), ~Anomalous(b), NEW items \in {b.end, b.committed, b.lag}
  PROVE  TotalLag(Parsed(items)) \in Int /\ Change(Parsed(items)) \in Int
<1>1. Measured(b) = Partitions
  BY DEF Anomalous
<1>2. ASSUME NEW p \in Partitions
      PROVE  Latest(Parsed(items), p) \in Int /\ Item(Parsed(items), p).samples[1] \in Int
  <2>1. p \in Known(items)
    BY <1>1 DEF Measured
  <2>2. Item(Parsed(items), p) \in Parsed(items)
    BY <2>1 DEF Known, Item
  <2>3. PICK s \in Seq(Int) : s = Item(Parsed(items), p).samples /\ Len(s) > 1
    BY <2>2 DEF Parsed, ReadableBundle, Readable
  <2>4. Last(s) \in Int /\ s[1] \in Int
    BY <2>3 DEF Last
  <2> QED
    BY <2>3, <2>4 DEF Latest
<1> DEFINE f == [p \in Partitions |-> Latest(Parsed(items), p)]
           g == [p \in Partitions |-> Latest(Parsed(items), p) - Item(Parsed(items), p).samples[1]]
<1>3. /\ DOMAIN f = Partitions /\ \A p \in DOMAIN f : f[p] \in Int
      /\ DOMAIN g = Partitions /\ \A p \in DOMAIN g : g[p] \in Int
  BY <1>2
<1>4. IsFiniteSet(Partitions)
  BY EvidenceAssumption
<1> HIDE DEF f, g
<1>5. SumFunction(f) \in Int /\ SumFunction(g) \in Int
  BY <1>3, <1>4, SumIsInteger
<1> QED
  BY <1>5 DEF TotalLag, Change, f, g

\* What is measured without an anomaly is a measurement of numbers, not the
\* missing value.
LEMMA MeasuredIsThere ==
  ASSUME NEW b, ReadableBundle(b), ~Anomalous(b)
  PROVE  Measurement(b) # None /\ Measurement(b).lag \in Int
<1>1. /\ TotalLag(Parsed(b.lag)) \in Int /\ Change(Parsed(b.lag)) \in Int
      /\ Change(Parsed(b.end)) \in Int /\ Change(Parsed(b.committed)) \in Int
  BY TotalsAreNumbers
<1>2. Measurement(b) = [lag |-> TotalLag(Parsed(b.lag)), slope |-> Change(Parsed(b.lag)),
                        produce |-> Change(Parsed(b.end)), commit |-> Change(Parsed(b.committed))]
  BY DEF Measurement
<1>3. Measurement(b) \in [lag : Int, slope : Int, produce : Int, commit : Int]
  BY <1>1, <1>2
<1> QED
  BY <1>3, CollectionAssumption

\* A sequence, of whatever it holds.
IsSequence(s) == s \in Seq(Range(s))

\* A sequence of members of any set is one of its own elements.
LEMMA ElementsOfSequence ==
  ASSUME NEW S, NEW t \in Seq(S)
  PROVE  IsSequence(t)
<1>1. Len(t) \in Nat /\ DOMAIN t = 1..Len(t) /\ t = [i \in 1..Len(t) |-> t[i]]
  OBVIOUS
<1>2. \A i \in 1..Len(t) : t[i] \in Range(t)
  BY <1>1 DEF Range
<1> QED
  BY <1>1, <1>2 DEF IsSequence

\* What appending does to a sequence of anything.
LEMMA AppendToAny ==
  ASSUME NEW s, IsSequence(s), NEW e
  PROVE  /\ IsSequence(Append(s, e))
         /\ Len(s) \in Nat
         /\ Len(Append(s, e)) = Len(s) + 1
         /\ \A i \in 1..Len(s) : Append(s, e)[i] = s[i]
         /\ Append(s, e)[Len(s) + 1] = e
<1> DEFINE S == Range(s) \cup {e}
           t == Append(s, e)
<1>1. s \in Seq(S)
  <2>1. Len(s) \in Nat /\ s = [i \in 1..Len(s) |-> s[i]]
    BY DEF IsSequence
  <2>2. \A i \in 1..Len(s) : s[i] \in S
    BY DEF IsSequence
  <2> QED
    BY <2>1, <2>2
<1>2. /\ t \in Seq(S) /\ Len(s) \in Nat /\ Len(t) = Len(s) + 1
      /\ \A i \in 1..Len(s) : t[i] = s[i]
      /\ t[Len(s) + 1] = e
  <2>1. e \in S
    OBVIOUS
  <2> HIDE DEF S
  <2> QED
    BY <1>1, <2>1, AppendProperties
<1>3. IsSequence(t)
  <2> HIDE DEF S, t
  <2> QED
    BY <1>2, ElementsOfSequence
<1> QED
  BY <1>2, <1>3


-----------------------------------------------------------------------------
(* What the recovery rules observe: the loop over the bundles.             *)

ScanStep(activation, bs, f, k) ==
  IF k = 0 THEN FirstScan(activation) ELSE ScanNext(activation, f[k - 1], bs[k])

Scans(activation, bs) ==
  CHOOSE f : f = [k \in 0..Len(bs) |-> ScanStep(activation, bs, f, k)]

\* There is a function that scans one bundle after another.
LEMMA ScansExist ==
  ASSUME NEW activation, NEW bs, NEW m \in Nat
  PROVE  \E f : f = [k \in 0..m |-> ScanStep(activation, bs, f, k)]
<1> DEFINE S == {n \in Nat : \E f : f = [k \in 0..n |-> ScanStep(activation, bs, f, k)]}
<1>1. 0 \in S
  <2> DEFINE h == [k \in 0..0 |-> FirstScan(activation)]
  <2>1. h = [k \in 0..0 |-> ScanStep(activation, bs, h, k)]
    BY DEF ScanStep
  <2> HIDE DEF h
  <2>2. \E f : f = [k \in 0..0 |-> ScanStep(activation, bs, f, k)]
    BY <2>1
  <2> QED
    BY <2>2
<1>2. ASSUME NEW n \in Nat, n \in S
      PROVE  n + 1 \in S
  <2>1. PICK f : f = [k \in 0..n |-> ScanStep(activation, bs, f, k)]
    BY <1>2
  <2> DEFINE h == [k \in 0..(n + 1) |-> ScanStep(activation, bs, f, k)]
  <2>2. \A k \in 0..(n + 1) : k # 0 => k - 1 \in 0..n /\ h[k - 1] = f[k - 1]
    BY <2>1
  <2> HIDE DEF h
  <2>3. \A k \in 0..(n + 1) : ScanStep(activation, bs, h, k) = ScanStep(activation, bs, f, k)
    BY <2>2 DEF ScanStep
  <2>4. h = [k \in 0..(n + 1) |-> ScanStep(activation, bs, h, k)]
    BY <2>3 DEF h
  <2>5. \E e : e = [k \in 0..(n + 1) |-> ScanStep(activation, bs, e, k)]
    BY <2>4
  <2> QED
    BY <2>5
<1>3. m \in S
  <2> HIDE DEF S
  <2> QED
    BY <1>1, <1>2, NaturalInduction
<1> QED
  BY <1>3

\* It is the one the observations are taken from.
LEMMA ScansAre ==
  ASSUME NEW activation, NEW bs, Len(bs) \in Nat
  PROVE  /\ \A k \in 0..Len(bs) :
              Scans(activation, bs)[k] = ScanStep(activation, bs, Scans(activation, bs), k)
         /\ Observe(activation, bs) = Scans(activation, bs)[Len(bs)].seen
<1>1. PICK m \in Nat : m = Len(bs)
  OBVIOUS
<1>2. \E f : f = [k \in 0..m |-> ScanStep(activation, bs, f, k)]
  BY ScansExist
<1>3. Scans(activation, bs) =
        [k \in 0..m |-> ScanStep(activation, bs, Scans(activation, bs), k)]
  BY <1>1, <1>2 DEF Scans
<1>4. Observe(activation, bs) = Scans(activation, bs)[Len(bs)].seen
  BY DEF Observe, Scans, ScanStep
<1> QED
  BY <1>1, <1>3, <1>4


\* What the scan of one bundle carries on.
LEMMA ScanNextFields ==
  ASSUME NEW activation, NEW scan, NEW b, NEW next, next = ScanNext(activation, scan, b)
  PROVE  /\ next.broken <=> scan.broken \/ IntegrityBroken(activation, scan, b)
         /\ next.completed = b.completed
         /\ next.seen = Append(scan.seen,
                          [usable |-> ~next.broken /\ LocallyUsable(scan, b, Measurement(b)),
                           m |-> Measurement(b)])
<1>1. PICK br \in BOOLEAN : br = (scan.broken \/ IntegrityBroken(activation, scan, b))
  OBVIOUS
<1>2. PICK u \in BOOLEAN : u = (~br /\ LocallyUsable(scan, b, Measurement(b)))
  OBVIOUS
<1>3. next =
        [completed |-> b.completed,
       stamp |-> KafkaStamp(b),
       identity |-> ExpectedIdentity(scan, b),
       offsets |-> IF Measured(b) = {} THEN scan.offsets ELSE Offsets(b),
       broken |-> br,
       seen |-> Append(scan.seen, [usable |-> u, m |-> Measurement(b)])]
  BY <1>1, <1>2, Zenon DEF ScanNext
<1>4. /\ next.broken = br /\ next.completed = b.completed
      /\ next.seen = Append(scan.seen, [usable |-> u, m |-> Measurement(b)])
  BY ONLY <1>3
<1> QED
  BY ONLY <1>1, <1>2, <1>4, Zenon

\* One observation for each bundle, and what it says.
LEMMA Observations ==
  ASSUME NEW activation, NEW bs, Len(bs) \in Nat
  PROVE  /\ Len(Observe(activation, bs)) = Len(bs)
         /\ \A k \in 1..Len(bs) :
              Observe(activation, bs)[k] =
                [usable |-> /\ ~Scans(activation, bs)[k].broken
                            /\ LocallyUsable(Scans(activation, bs)[k - 1], bs[k], Measurement(bs[k])),
                 m |-> Measurement(bs[k])]
<1> DEFINE scan == Scans(activation, bs)
           Saw(k) == [usable |-> ~scan[k].broken /\ LocallyUsable(scan[k - 1], bs[k], Measurement(bs[k])),
                      m |-> Measurement(bs[k])]
           Shaped(k) == /\ IsSequence(scan[k].seen) /\ Len(scan[k].seen) = k
                        /\ \A j \in 1..k : scan[k].seen[j] = Saw(j)
           S == {k \in Nat : k <= Len(bs) => Shaped(k)}
<1> HIDE DEF scan
<1>1. \A k \in 0..Len(bs) : scan[k] = ScanStep(activation, bs, scan, k)
  BY ScansAre DEF scan
<1>2. 0 \in S
  <2>1. scan[0] = FirstScan(activation)
    BY <1>1 DEF ScanStep
  <2>2. scan[0].seen = << >>
    BY <2>1 DEF FirstScan
  <2>3. IsSequence(<< >>) /\ Len(<< >>) = 0
    BY DEF IsSequence
  <2> QED
    BY <2>2, <2>3
<1>3. ASSUME NEW k \in Nat, k \in S
      PROVE  k + 1 \in S
  <2> HIDE DEF Shaped
  <2> SUFFICES ASSUME k + 1 <= Len(bs)
               PROVE  Shaped(k + 1)
    OBVIOUS
  <2>1. Shaped(k)
    BY <1>3
  <2> USE DEF Shaped
  <2>2. scan[k + 1] = ScanNext(activation, scan[k], bs[k + 1])
    <3>1. k + 1 \in 0..Len(bs) /\ k + 1 # 0 /\ (k + 1) - 1 = k
      OBVIOUS
    <3> QED
      BY <1>1, <3>1 DEF ScanStep
  <2>3. scan[k + 1].seen = Append(scan[k].seen, Saw(k + 1))
    <3>1. PICK prev, next, b : prev = scan[k] /\ next = scan[k + 1] /\ b = bs[k + 1]
      OBVIOUS
    <3>2. scan[(k + 1) - 1] = prev
      BY <3>1
    <3>3. next = ScanNext(activation, prev, b)
      BY <2>2, <3>1
    <3>4. next.seen =
            Append(prev.seen,
                   [usable |-> ~next.broken /\ LocallyUsable(prev, b, Measurement(b)),
                    m |-> Measurement(b)])
      BY ONLY <3>3, ScanNextFields
    <3>5. Saw(k + 1) =
            [usable |-> ~next.broken /\ LocallyUsable(prev, b, Measurement(b)),
             m |-> Measurement(b)]
      BY <3>1, <3>2, Zenon
    <3> HIDE DEF Saw
    <3> QED
      BY ONLY <3>1, <3>4, <3>5, Zenon
  <2> HIDE DEF Saw
  <2>4. PICK e : e = Saw(k + 1)
    OBVIOUS
  <2>5. PICK s, t : s = scan[k].seen /\ t = scan[k + 1].seen
    OBVIOUS
  <2>6. /\ IsSequence(t) /\ Len(t) = k + 1
        /\ \A i \in 1..k : t[i] = s[i]
        /\ t[k + 1] = e
    BY <2>1, <2>3, <2>4, <2>5, AppendToAny
  <2>7. \A j \in 1..(k + 1) : t[j] = Saw(j)
    <3>1. \A j \in 1..(k + 1) : j \in 1..k \/ j = k + 1
      OBVIOUS
    <3> QED
      BY <2>1, <2>4, <2>5, <2>6, <3>1
  <2> QED
    BY <2>5, <2>6, <2>7
<1>4. Shaped(Len(bs))
  <2>1. Nat \subseteq S
    <3> HIDE DEF S
    <3> QED
      BY <1>2, <1>3, NaturalInduction
  <2> QED
    BY <2>1
<1>5. Observe(activation, bs) = scan[Len(bs)].seen
  BY ScansAre DEF scan
<1> QED
  BY <1>4, <1>5 DEF scan

\* A usable observation is one of a bundle that is usable where it stands.
LEMMA ObservedUsable ==
  ASSUME NEW activation, NEW bs, Len(bs) \in Nat, NEW k \in 1..Len(bs)
  PROVE  /\ Observe(activation, bs)[k].m = Measurement(bs[k])
         /\ Observe(activation, bs)[k].usable <=>
              /\ ~Scans(activation, bs)[k].broken
              /\ LocallyUsable(Scans(activation, bs)[k - 1], bs[k], Measurement(bs[k]))
<1> DEFINE o == Observe(activation, bs)[k]
           Good == /\ ~Scans(activation, bs)[k].broken
                   /\ LocallyUsable(Scans(activation, bs)[k - 1], bs[k], Measurement(bs[k]))
<1>1. o = [usable |-> Good, m |-> Measurement(bs[k])]
  BY Observations
<1>2. PICK u \in BOOLEAN : u = Good
  OBVIOUS
<1> HIDE DEF o, Good
<1>3. o = [usable |-> u, m |-> Measurement(bs[k])]
  BY ONLY <1>1, <1>2, Zenon
<1>4. o.usable = u /\ o.m = Measurement(bs[k])
  BY ONLY <1>3
<1>5. o.usable <=> Good
  BY ONLY <1>2, <1>4
<1> QED
  BY <1>4, <1>5 DEF o, Good

-----------------------------------------------------------------------------
(* The run of captures in the envelope.                                    *)

DrainedBy(obs, k) == \E j \in 1..k : StateAfter(obs, j) = "RECOVERING"

InRun(obs, envelope, k) == DrainedBy(obs, k) /\ InEnvelope(obs[k], envelope)

LengthStep(obs, envelope, f, k) ==
  IF k = 0 THEN 0 ELSE IF InRun(obs, envelope, k) THEN f[k - 1] + 1 ELSE 0

\* There is a function that counts the run.
LEMMA RunsExist ==
  ASSUME NEW obs, NEW envelope, NEW m \in Nat
  PROVE  \E f : f = [k \in 0..m |-> LengthStep(obs, envelope, f, k)]
<1> DEFINE S == {n \in Nat : \E f : f = [k \in 0..n |-> LengthStep(obs, envelope, f, k)]}
<1>1. 0 \in S
  <2> DEFINE h == [k \in 0..0 |-> 0]
  <2>1. h = [k \in 0..0 |-> LengthStep(obs, envelope, h, k)]
    BY DEF LengthStep
  <2> HIDE DEF h
  <2>2. \E f : f = [k \in 0..0 |-> LengthStep(obs, envelope, f, k)]
    BY <2>1
  <2> QED
    BY <2>2
<1>2. ASSUME NEW n \in Nat, n \in S
      PROVE  n + 1 \in S
  <2>1. PICK f : f = [k \in 0..n |-> LengthStep(obs, envelope, f, k)]
    BY <1>2
  <2> DEFINE h == [k \in 0..(n + 1) |-> LengthStep(obs, envelope, f, k)]
  <2>2. \A k \in 0..(n + 1) : k # 0 => k - 1 \in 0..n /\ h[k - 1] = f[k - 1]
    BY <2>1
  <2> HIDE DEF h
  <2>3. \A k \in 0..(n + 1) : LengthStep(obs, envelope, h, k) = LengthStep(obs, envelope, f, k)
    BY <2>2 DEF LengthStep
  <2>4. h = [k \in 0..(n + 1) |-> LengthStep(obs, envelope, h, k)]
    BY <2>3 DEF h
  <2>5. \E e : e = [k \in 0..(n + 1) |-> LengthStep(obs, envelope, e, k)]
    BY <2>4
  <2> QED
    BY <2>5
<1>3. m \in S
  <2> HIDE DEF S
  <2> QED
    BY <1>1, <1>2, NaturalInduction
<1> QED
  BY <1>3

\* A run is at least n long when the last n captures are in it.
LEMMA ReentryCounts ==
  ASSUME NEW obs, Len(obs) \in Nat, NEW envelope, NEW n \in Nat \ {0}
  PROVE  Reentry(obs, envelope) >= n <=>
           n <= Len(obs) /\ \A j \in (Len(obs) - n + 1)..Len(obs) : InRun(obs, envelope, j)
<1> DEFINE Fixed(f) == f = [k \in 0..Len(obs) |-> LengthStep(obs, envelope, f, k)]
<1>1. Reentry(obs, envelope) = (CHOOSE f : Fixed(f))[Len(obs)]
  BY DEF Reentry, LengthStep, InRun, DrainedBy
<1>2. PICK run : run = (CHOOSE f : Fixed(f)) /\ Fixed(run)
  <2>1. PICK m \in Nat : m = Len(obs)
    OBVIOUS
  <2>2. PICK f : f = [k \in 0..m |-> LengthStep(obs, envelope, f, k)]
    BY RunsExist
  <2>3. Fixed(f)
    BY <2>1, <2>2
  <2> HIDE DEF Fixed
  <2> QED
    BY <2>3
<1>3. \A k \in 0..Len(obs) : run[k] = LengthStep(obs, envelope, run, k)
  BY <1>2
<1> HIDE DEF Fixed
<1> DEFINE Counted(k) ==
             /\ run[k] \in 0..k
             /\ \A i \in 1..k : run[k] >= i <=>
                                  \A j \in (k - i + 1)..k : InRun(obs, envelope, j)
           S == {k \in Nat : k <= Len(obs) => Counted(k)}
<1>4. 0 \in S
  <2>1. run[0] = 0
    BY <1>3 DEF LengthStep
  <2>2. Counted(0)
    BY <2>1
  <2> QED
    BY <2>2
<1>5. ASSUME NEW k \in Nat, k \in S
      PROVE  k + 1 \in S
  <2> HIDE DEF Counted
  <2> SUFFICES ASSUME k + 1 <= Len(obs)
               PROVE  Counted(k + 1)
    OBVIOUS
  <2>1. Counted(k)
    BY <1>5
  <2> USE DEF Counted
  <2>2. run[k + 1] = IF InRun(obs, envelope, k + 1) THEN run[k] + 1 ELSE 0
    <3>1. k + 1 \in 0..Len(obs) /\ k + 1 # 0 /\ (k + 1) - 1 = k
      OBVIOUS
    <3> QED
      BY <1>3, <3>1 DEF LengthStep
  <2>3. CASE ~InRun(obs, envelope, k + 1)
    <3>1. run[k + 1] = 0
      BY <2>2, <2>3
    <3>2. \A i \in 1..(k + 1) : k + 1 \in ((k + 1) - i + 1)..(k + 1)
      OBVIOUS
    <3> QED
      BY <2>3, <3>1, <3>2
  <2>4. CASE InRun(obs, envelope, k + 1)
    <3>1. run[k + 1] = run[k] + 1 /\ run[k] \in 0..k
      BY <2>1, <2>2, <2>4
    <3>2. ASSUME NEW i \in 1..(k + 1)
          PROVE  run[k + 1] >= i <=>
                   \A j \in ((k + 1) - i + 1)..(k + 1) : InRun(obs, envelope, j)
      <4>1. CASE i = 1
        <5>1. ((k + 1) - i + 1)..(k + 1) = {k + 1}
          BY <4>1
        <5> QED
          BY <2>4, <3>1, <4>1, <5>1
      <4>2. CASE i > 1
        <5>1. i - 1 \in 1..k /\ (run[k + 1] >= i <=> run[k] >= i - 1)
          BY <3>1, <4>2
        <5>2. ((k + 1) - i + 1)..(k + 1) = ((k - (i - 1) + 1)..k) \cup {k + 1}
          BY <4>2
        <5>3. run[k] >= i - 1 <=> \A j \in (k - (i - 1) + 1)..k : InRun(obs, envelope, j)
          BY <2>1, <5>1
        <5> QED
          BY <2>4, <5>1, <5>2, <5>3
      <4> QED
        BY <4>1, <4>2
    <3> QED
      BY <3>1, <3>2
  <2> QED
    BY <2>3, <2>4
<1>6. Counted(Len(obs))
  <2>1. Nat \subseteq S
    <3> HIDE DEF S
    <3> QED
      BY <1>4, <1>5, NaturalInduction
  <2> QED
    BY <2>1
<1>7. Reentry(obs, envelope) = run[Len(obs)]
  BY <1>1, <1>2
<1>8. CASE n <= Len(obs)
  BY <1>6, <1>7, <1>8
<1>9. CASE ~(n <= Len(obs))
  BY <1>6, <1>7, <1>9
<1> QED
  BY <1>8, <1>9

\* When the rules of policy v2 say RECOVERED.
SettledAtEnd(obs) ==
  LET n == Len(obs)
  IN  /\ n >= RecoveryCount
      /\ \A k \in (n - RecoveryCount + 1)..n : InEnvelope(obs[k], Envelope("v2"))
      /\ \E k \in 1..(n - RecoveryCount + 1) : StateAfter(obs, k) = "RECOVERING"

\* evaluate_recovery says RECOVERED exactly when the last captures are all in the
\* envelope, as many as policy v2 asks for, and the backlog drained before the
\* first of them or with it, for any activation and captures: current_reentry
\* is never carried over a capture outside the envelope, and a settled load that
\* was not seen to drain is no recovery.
THEOREM RecoveredMeansSettled ==
  ASSUME NEW activation, NEW bs, Len(bs) \in Nat
  PROVE  EvaluateRecovery(activation, bs, "v2") = "RECOVERED" <=>
           SettledAtEnd(Observe(activation, bs))
<1> DEFINE obs == Observe(activation, bs)
           envelope == Envelope("v2")
           n == Len(obs)
<1>1. Len(obs) = Len(bs)
  BY Observations
<1>2. envelope.count = RecoveryCount /\ RecoveryCount \in Nat \ {0}
  BY RecoveryAssumption DEF Envelope
<1> HIDE DEF obs, envelope
<1>3. StateAfter(obs, Len(bs)) # "RECOVERED"
  BY DEF StateAfter
<1>4. EvaluateRecovery(activation, bs, "v2") = "RECOVERED" <=>
        Reentry(obs, envelope) >= RecoveryCount
  <2>1. EvaluateRecovery(activation, bs, "v2") =
          IF envelope # None /\ Reentry(obs, envelope) >= envelope.count THEN "RECOVERED"
          ELSE StateAfter(obs, Len(bs))
    BY DEF EvaluateRecovery, obs, envelope
  <2>2. envelope # None
    BY NoneIsNoEnvelope DEF envelope
  <2> QED
    BY <1>2, <1>3, <2>1, <2>2
<1>5. Reentry(obs, envelope) >= RecoveryCount <=>
        /\ RecoveryCount <= n
        /\ \A j \in (n - RecoveryCount + 1)..n : InRun(obs, envelope, j)
  BY <1>1, <1>2, ReentryCounts
<1>6. ASSUME RecoveryCount <= n
      PROVE  (\A j \in (n - RecoveryCount + 1)..n : InRun(obs, envelope, j)) <=>
               /\ \A j \in (n - RecoveryCount + 1)..n : InEnvelope(obs[j], envelope)
               /\ DrainedBy(obs, n - RecoveryCount + 1)
  <2>1. n - RecoveryCount + 1 \in (n - RecoveryCount + 1)..n
    BY <1>1, <1>2, <1>6
  <2>2. \A j \in (n - RecoveryCount + 1)..n :
          DrainedBy(obs, n - RecoveryCount + 1) => DrainedBy(obs, j)
    BY <1>1, <1>2 DEF DrainedBy
  <2> QED
    BY <2>1, <2>2 DEF InRun
<1> QED
  BY <1>1, <1>2, <1>4, <1>5, <1>6 DEF SettledAtEnd, DrainedBy, obs, envelope

\* Captures that belong to an activation: of its scope, incident and source, begun
\* after it, and each completed after the one before.
Belong(activation, bs) ==
  /\ ActivationUsable(activation)
  /\ \A k \in 1..Len(bs) :
       /\ bs[k].inScope /\ bs[k].incident = activation.incident
       /\ ConditionIdentity(bs[k]) = activation.identity
       /\ ~(bs[k].started <= activation.completed)
       /\ ~(bs[k].completed <= IF k = 1 THEN activation.completed ELSE bs[k - 1].completed)

\* A break is never mended.
LEMMA UnbrokenBefore ==
  ASSUME NEW activation, NEW bs, NEW n \in Nat, n = Len(bs),
         ~Scans(activation, bs)[n].broken
  PROVE  \A k \in 0..n : ~Scans(activation, bs)[k].broken
<1> DEFINE scan == Scans(activation, bs)
           S == {i \in Nat : i <= n => ~scan[n - i].broken}
<1>1. \A k \in 0..n : scan[k] = ScanStep(activation, bs, scan, k)
  BY ScansAre
<1> HIDE DEF scan
<1>2. 0 \in S
  BY DEF scan
<1>3. ASSUME NEW i \in Nat, i \in S
      PROVE  i + 1 \in S
  <2> SUFFICES ASSUME i + 1 <= n, scan[n - (i + 1)].broken
               PROVE  FALSE
    OBVIOUS
  <2>1. PICK k \in 1..n : k = n - i /\ k - 1 = n - (i + 1)
    <3>1. n - i \in 1..n /\ (n - i) - 1 = n - (i + 1)
      BY ONLY n \in Nat, i \in Nat, i + 1 <= n
    <3> QED
      BY ONLY <3>1
  <2>2. ~scan[k].broken /\ scan[k - 1].broken
    BY <1>3, <2>1
  <2>3. scan[k] = ScanNext(activation, scan[k - 1], bs[k])
    BY <1>1 DEF ScanStep
  <2>4. scan[k].broken <=> scan[k - 1].broken \/ IntegrityBroken(activation, scan[k - 1], bs[k])
    BY <2>3, ScanNextFields
  <2> QED
    BY <2>2, <2>4
<1>4. Nat \subseteq S
  <2> HIDE DEF S
  <2> QED
    BY <1>2, <1>3, NaturalInduction
<1>5. \A k \in 0..n : n - k \in Nat /\ n - (n - k) = k
  OBVIOUS
<1>6. \A k \in 0..n : ~scan[k].broken
  BY <1>4, <1>5
<1> QED
  BY <1>6 DEF scan

\* Captures whose scan was not broken belong to the activation.
LEMMA UnbrokenBelong ==
  ASSUME NEW activation, NEW bs, NEW n \in Nat, n = Len(bs),
         ~Scans(activation, bs)[n].broken
  PROVE  Belong(activation, bs)
<1> DEFINE scan == Scans(activation, bs)
<1>1. \A k \in 0..n : scan[k] = ScanStep(activation, bs, scan, k) /\ ~scan[k].broken
  BY ScansAre, UnbrokenBefore
<1> HIDE DEF scan
<1>2. scan[0] = FirstScan(activation)
  BY <1>1 DEF ScanStep
<1>3. ActivationUsable(activation) /\ scan[0].completed = activation.completed
  <2>1. ~scan[0].broken
    BY <1>1
  <2>2. PICK br \in BOOLEAN : br = (~ActivationUsable(activation))
    OBVIOUS
  <2>3. scan[0] = [completed |-> activation.completed, stamp |-> activation.stamp, identity |-> None,
                   offsets |-> None, broken |-> br, seen |-> << >>]
    BY <1>2, <2>2, Zenon DEF FirstScan
  <2>4. scan[0].broken = br /\ scan[0].completed = activation.completed
    BY ONLY <2>3
  <2> QED
    BY <2>1, <2>2, <2>4
<1>4. ASSUME NEW k \in 1..n
      PROVE  /\ ~IntegrityBroken(activation, scan[k - 1], bs[k])
             /\ scan[k].completed = bs[k].completed
  <2>1. PICK prev, next, b : prev = scan[k - 1] /\ next = scan[k] /\ b = bs[k]
    OBVIOUS
  <2>2. next = ScanNext(activation, prev, b) /\ ~next.broken
    BY <1>1, <2>1 DEF ScanStep
  <2>3. next.broken <=> prev.broken \/ IntegrityBroken(activation, prev, b)
    BY ONLY <2>2, ScanNextFields
  <2>4. next.completed = b.completed
    BY ONLY <2>2, ScanNextFields
  <2> QED
    BY <2>1, <2>2, <2>3, <2>4
<1>5. \A k \in 1..n : scan[k - 1].completed =
                        IF k = 1 THEN activation.completed ELSE bs[k - 1].completed
  <2>1. \A k \in 1..n : k # 1 => k - 1 \in 1..n
    OBVIOUS
  <2> QED
    BY <1>3, <1>4, <2>1
<1> QED
  BY <1>3, <1>4, <1>5 DEF Belong, IntegrityBroken

\* evaluate_recovery gives a state other than UNKNOWN only for captures that all
\* belong to the activation, from the first to the last, for any activation,
\* captures and policy: what another source, another incident, a capture out of
\* order or one from before the activation brings in is never judged, however
\* good the captures after it are.
THEOREM JudgedMeansBelonging ==
  ASSUME NEW activation, NEW bs, Len(bs) \in Nat \ {0}, NEW policy \in Policies,
         EvaluateRecovery(activation, bs, policy) # "UNKNOWN"
  PROVE  Belong(activation, bs)
<1> DEFINE obs == Observe(activation, bs)
           envelope == Envelope(policy)
           n == Len(bs)
<1>1. Len(obs) = n /\ n \in Nat \ {0}
  BY Observations
<1>2. RecoveryCount \in Nat \ {0}
  BY RecoveryAssumption
<1> HIDE DEF obs
<1>3. obs[n].usable
  <2>1. CASE StateAfter(obs, n) # "UNKNOWN"
    <3>1. n \in Window(n)
      BY <1>1, <1>2 DEF Window
    <3> QED
      BY <2>1, <3>1 DEF StateAfter
  <2>2. CASE envelope # None /\ Reentry(obs, envelope) >= envelope.count
    <3>1. envelope.count = RecoveryCount
      BY <2>2 DEF Envelope
    <3>2. /\ RecoveryCount <= n
          /\ \A j \in (n - RecoveryCount + 1)..n : InRun(obs, envelope, j)
      BY <1>1, <1>2, <2>2, <3>1, ReentryCounts
    <3>3. n \in (n - RecoveryCount + 1)..n
      BY <1>1, <1>2
    <3> QED
      BY <3>2, <3>3 DEF InRun, InEnvelope
  <2> QED
    BY <2>1, <2>2 DEF EvaluateRecovery, obs
<1>4. ~Scans(activation, bs)[n].broken
  BY <1>1, <1>3, ObservedUsable DEF obs
<1> QED
  BY <1>1, <1>4, UnbrokenBelong

-----------------------------------------------------------------------------
(* The captures and the windows among them.                                *)

\* A part of a sequence of anything.
LEMMA PartOf ==
  ASSUME NEW s, NEW m \in Int, NEW n \in Int, m <= n + 1
  PROVE  /\ IsSequence(SubSeq(s, m, n)) /\ Len(SubSeq(s, m, n)) = n - m + 1
         /\ \A i \in 1..(n - m + 1) : SubSeq(s, m, n)[i] = s[m + i - 1]
<1> DEFINE S == {s[i] : i \in m..n}
<1>1. \A i \in m..n : s[i] \in S
  OBVIOUS
<1> HIDE DEF S
<1>2. /\ SubSeq(s, m, n) \in Seq(S)
      /\ Len(SubSeq(s, m, n)) = IF m <= n THEN n - m + 1 ELSE 0
      /\ \A i \in 1..(n - m + 1) : SubSeq(s, m, n)[i] = s[m + i - 1]
  BY <1>1, SubSeqProperties
<1>3. Len(SubSeq(s, m, n)) = n - m + 1
  BY <1>2
<1>4. IsSequence(SubSeq(s, m, n))
  BY <1>2, ElementsOfSequence
<1> QED
  BY <1>2, <1>3, <1>4

\* Sequences that agree on a part have the same part.
LEMMA SameParts ==
  ASSUME NEW s, NEW t, NEW m \in Int, NEW n \in Int, m <= n + 1,
         \A i \in m..n : s[i] = t[i]
  PROVE  SubSeq(s, m, n) = SubSeq(t, m, n)
<1>1. PICK u, v : u = SubSeq(s, m, n) /\ v = SubSeq(t, m, n)
  OBVIOUS
<1>2. /\ IsSequence(u) /\ Len(u) = n - m + 1 /\ \A i \in 1..(n - m + 1) : u[i] = s[m + i - 1]
      /\ IsSequence(v) /\ Len(v) = n - m + 1 /\ \A i \in 1..(n - m + 1) : v[i] = t[m + i - 1]
  BY <1>1, PartOf
<1>3. \A i \in 1..(n - m + 1) : u[i] = v[i]
  BY <1>2
<1>4. u = v
  BY <1>2, <1>3 DEF IsSequence
<1> QED
  BY <1>1, <1>4

Moments == Planned + Overtime

Readings == Range(Profile) \cup Disturbed

\* The captures so far: one of the histories, collected one interval after another.
HistoryInv ==
  /\ IsSequence(captures) /\ Len(captures) <= Moments
  /\ captures \in Histories[Len(captures)]
  /\ \A k \in 1..Len(captures) : captures[k].at = Cadence * k /\ captures[k].reading \in Readings

\* The domain of a sequence of anything.
LEMMA DomainOfAny ==
  ASSUME NEW s, IsSequence(s)
  PROVE  DOMAIN s = 1..Len(s) /\ Len(s) \in Nat
BY DEF IsSequence

\* The captures so far are one of all the histories.
LEMMA OneOfAll ==
  ASSUME HistoryInv
  PROVE  captures \in AllHistories
<1>1. Len(captures) \in 0..Moments
  BY DomainOfAny, ScenarioAssumption DEF HistoryInv, Moments
<1> QED
  BY <1>1 DEF AllHistories, Moments, HistoryInv

\* One more capture.
LEMMA NextHistory ==
  ASSUME HistoryInv, NEW cs, NEW c \in Collections(captures), cs = Append(captures, c),
         Len(captures) < Moments
  PROVE  /\ IsSequence(cs) /\ Len(cs) = Len(captures) + 1 /\ Len(captures) \in Nat
         /\ cs \in Histories[Len(cs)]
         /\ \A k \in 1..Len(captures) : cs[k] = captures[k]
         /\ cs[Len(cs)] = c
         /\ c.at = Cadence * Len(cs) /\ c.reading \in Readings
<1>1. /\ IsSequence(cs) /\ Len(captures) \in Nat /\ Len(cs) = Len(captures) + 1
      /\ \A k \in 1..Len(captures) : cs[k] = captures[k]
      /\ cs[Len(captures) + 1] = c
  BY AppendToAny DEF HistoryInv
<1>2. PICK n \in 1..Moments : n = Len(cs) /\ n # 0 /\ n - 1 = Len(captures)
  BY <1>1, ScenarioAssumption DEF Moments
<1>3. Histories[n] = UNION {{Append(ds, d) : d \in Collections(ds)} : ds \in Histories[n - 1]}
  <2>1. \A i \in 0..(Planned + Overtime) : Histories[i] = HistoryStep(Histories, i)
    BY HistoriesAre
  <2>2. n \in 0..(Planned + Overtime) /\ n # 0
    BY <1>2 DEF Moments
  <2>3. Histories[n] = HistoryStep(Histories, n)
    BY <2>1, <2>2
  <2> QED
    BY <2>2, <2>3 DEF HistoryStep
<1>4. captures \in Histories[n - 1]
  BY <1>2 DEF HistoryInv
<1>5. cs \in Histories[n]
  BY <1>3, <1>4
<1>6. c.at = Cadence * (Len(captures) + 1) /\ c.reading \in Readings
  <2> DEFINE at == Cadence * (Len(captures) + 1)
             phase == IF captures = << >> THEN 1 ELSE Last(captures).phase
             faults == Cardinality({k \in DOMAIN captures : captures[k].reading \in Disturbed})
             Usual == {[reading |-> Profile[f], at |-> at, phase |-> f] :
                         f \in {phase, phase + 1} \cap DOMAIN Profile}
             Unusual == {[reading |-> r, at |-> at, phase |-> phase] :
                           r \in IF faults < MaxFaults THEN Disturbed ELSE {}}
  <2>1. c \in Usual \/ c \in Unusual
    BY DEF Collections
  <2> HIDE DEF at, phase, faults
  <2>2. CASE c \in Usual
    BY <2>2 DEF Readings, Range, at
  <2>3. CASE c \in Unusual
    BY <2>3 DEF Readings, at
  <2> QED
    BY <2>1, <2>2, <2>3
<1> QED
  BY <1>1, <1>2, <1>5, <1>6

\* More captures do not change what the earlier windows say.
LEMMA WindowsStay ==
  ASSUME NEW cs \in AllHistories, NEW ds \in AllHistories, IsSequence(cs), IsSequence(ds),
         Len(cs) <= Len(ds), \A k \in 1..Len(cs) : ds[k] = cs[k]
  PROVE  Activating[cs] = Activating[ds] \cap 1..Len(cs)
<1>1. /\ Len(cs) \in Nat /\ DOMAIN cs = 1..Len(cs) /\ Len(ds) \in Nat /\ DOMAIN ds = 1..Len(ds)
      /\ ActivationCount \in Nat \ {0}
  BY DomainOfAny, ActivationAssumption
<1>2. ASSUME NEW k \in ActivationCount..Len(cs)
      PROVE  SubSeq(Bundles(cs), k - ActivationCount + 1, k)
               = SubSeq(Bundles(ds), k - ActivationCount + 1, k)
  <2>1. \A i \in (k - ActivationCount + 1)..k : i \in 1..Len(cs) /\ i \in 1..Len(ds)
    BY <1>1
  <2>2. \A i \in (k - ActivationCount + 1)..k : Bundles(cs)[i] = Bundles(ds)[i]
    BY <1>1, <2>1 DEF Bundles
  <2>3. k - ActivationCount + 1 \in Int /\ k \in Int /\ k - ActivationCount + 1 <= k + 1
    BY <1>1
  <2> QED
    BY <2>2, <2>3, SameParts
<1>3. Activating[cs] = {k \in ActivationCount..Len(cs) :
        SequenceCore(SubSeq(Bundles(cs), k - ActivationCount + 1, k)) = "PRESENT"}
  BY DEF Activating
<1>4. Activating[ds] = {k \in ActivationCount..Len(ds) :
        SequenceCore(SubSeq(Bundles(ds), k - ActivationCount + 1, k)) = "PRESENT"}
  BY DEF Activating
<1>5. \A k : k \in ActivationCount..Len(cs) <=> k \in ActivationCount..Len(ds) /\ k \in 1..Len(cs)
  BY <1>1
<1>6. ASSUME NEW k
      PROVE  k \in Activating[cs] <=> k \in Activating[ds] /\ k \in 1..Len(cs)
  <2>1. CASE k \in ActivationCount..Len(cs)
    <3>1. SequenceCore(SubSeq(Bundles(cs), k - ActivationCount + 1, k))
           = SequenceCore(SubSeq(Bundles(ds), k - ActivationCount + 1, k))
      BY <1>2, <2>1
    <3> QED
      BY <1>3, <1>4, <1>5, <2>1, <3>1
  <2>2. CASE k \notin ActivationCount..Len(cs)
    BY <1>3, <1>4, <1>5, <2>2
  <2> QED
    BY <2>1, <2>2
<1> QED
  BY <1>6

\* A capture that ends a window of growing pressure is measured.
LEMMA PresentIsMeasured ==
  ASSUME NEW cs \in AllHistories, IsSequence(cs), NEW k \in Activating[cs]
  PROVE  k \in 1..Len(cs) /\ CoreUsable(Bundles(cs)[k])
<1>1. Len(cs) \in Nat /\ DOMAIN cs = 1..Len(cs) /\ ActivationCount \in Nat \ {0}
  BY DomainOfAny, ActivationAssumption
<1> DEFINE first == k - ActivationCount + 1
           window == SubSeq(Bundles(cs), first, k)
<1>2. k \in ActivationCount..Len(cs) /\ SequenceCore(window) = "PRESENT"
  BY DEF Activating
<1>3. first \in Int /\ k \in Int /\ first <= k + 1 /\ k - first + 1 = ActivationCount
  BY <1>1, <1>2
<1> HIDE DEF first
<1>4. /\ Len(window) = ActivationCount
      /\ \A i \in 1..ActivationCount : window[i] = Bundles(cs)[first + i - 1]
  BY <1>3, PartOf
<1>5. window[ActivationCount] = Bundles(cs)[k]
  <2>1. ActivationCount \in 1..ActivationCount /\ first + ActivationCount - 1 = k
    BY <1>1, <1>3
  <2> QED
    BY <1>4, <2>1
<1> HIDE DEF window
<1>6. Coherent(window)
  <2>1. CoreState(Last(Compatible(window))) # "PRESENT"
    BY DEF CoreState
  <2> QED
    BY <1>2, <2>1 DEF SequenceCore
<1>7. CaptureUsable(window[ActivationCount])
  BY <1>1, <1>4, <1>6 DEF Coherent
<1> QED
  BY <1>1, <1>2, <1>5, <1>7 DEF CaptureUsable

-----------------------------------------------------------------------------
(* The prefixes that are evaluated.                                        *)

BundleAt(k) == Evidence(captures[k].reading, captures[k].at)

\* What is assumed of every collection holds of those that were made.
LEMMA CollectedIsReadable ==
  ASSUME HistoryInv, NEW k \in 1..Len(captures)
  PROVE  ReadableBundle(BundleAt(k)) /\ BundleAt(k).completed = captures[k].at
<1>1. k \in 1..(Planned + Overtime)
  BY DomainOfAny, ScenarioAssumption DEF HistoryInv, Moments
<1>2. captures[k].at = Cadence * k /\ captures[k].reading \in Range(Profile) \cup Disturbed
  BY DEF HistoryInv, Readings
<1>3. PICK b : b = BundleAt(k) /\ b = Evidence(captures[k].reading, Cadence * k)
  BY <1>2 DEF BundleAt
<1>4. b.completed = Cadence * k /\ \A f \in Range(Families(b)) : Readable(f)
  BY <1>1, <1>2, <1>3, CollectionAssumption DEF Readable
<1> QED
  BY <1>2, <1>3, <1>4, ThreeFamilies DEF ReadableBundle

\* The sample of a capture is what its bundle measures.
LEMMA SampleOf ==
  ASSUME HistoryInv, NEW k \in 1..Len(captures)
  PROVE  /\ Sample[captures[k]].kafka = Measurement(BundleAt(k))
         /\ Sample[captures[k]].usable <=>
              KafkaQuality(BundleAt(k)) /\ Measurement(BundleAt(k)) # None
<1>1. captures[k] \in UNION {Range(cs) : cs \in AllHistories}
  BY OneOfAll, DomainOfAny DEF HistoryInv, Range
<1> DEFINE Good(b) == KafkaQuality(b) /\ Measurement(b) # None
<1>2. PICK c, b : c = captures[k] /\ b = BundleAt(k) /\ b = Evidence(c.reading, c.at)
  BY DEF BundleAt
<1>3. PICK u \in BOOLEAN : u = Good(b)
  OBVIOUS
<1>4. Sample[c] = [phase |-> c.phase, at |-> b.completed, kafka |-> Measurement(b), usable |-> Good(b)]
  BY <1>1, <1>2 DEF Sample
<1> HIDE DEF Good
<1>5. Sample[c] = [phase |-> c.phase, at |-> b.completed, kafka |-> Measurement(b), usable |-> u]
  BY ONLY <1>3, <1>4, Zenon
<1>6. Sample[c].kafka = Measurement(b) /\ Sample[c].usable = u
  BY ONLY <1>5
<1>7. Sample[c].usable <=> Good(b)
  BY ONLY <1>3, <1>6
<1> QED
  BY <1>2, <1>6, <1>7 DEF Good

Since == Post(captures, started)

\* The captures since the activation, and their bundles.
LEMMA SinceIs ==
  ASSUME HistoryInv, started \in 1..Len(captures)
  PROVE  /\ Len(captures) \in Nat /\ IsSequence(Since) /\ Len(Since) = Len(captures) - started
         /\ DOMAIN Since = 1..(Len(captures) - started)
         /\ DOMAIN Bundles(Since) = 1..(Len(captures) - started)
         /\ \A k \in 1..(Len(captures) - started) :
              Since[k] = captures[started + k] /\ Bundles(Since)[k] = BundleAt(started + k)
<1>1. Len(captures) \in Nat
  BY DomainOfAny DEF HistoryInv
<1>2. started + 1 \in Int /\ Len(captures) \in Int /\ started + 1 <= Len(captures) + 1
  BY <1>1
<1>3. /\ IsSequence(Since) /\ Len(Since) = Len(captures) - (started + 1) + 1
      /\ \A i \in 1..(Len(captures) - (started + 1) + 1) : Since[i] = captures[(started + 1) + i - 1]
  BY <1>2, PartOf DEF Since, Post
<1>4. Len(captures) - (started + 1) + 1 = Len(captures) - started
  BY <1>1
<1>5. \A i \in 1..(Len(captures) - started) : (started + 1) + i - 1 = started + i
  BY <1>1
<1>6. DOMAIN Since = 1..(Len(captures) - started)
  BY <1>3, <1>4, DomainOfAny
<1>7. \A k \in 1..(Len(captures) - started) : Since[k] = captures[started + k]
  BY <1>3, <1>4, <1>5
<1>8. /\ DOMAIN Bundles(Since) = DOMAIN Since
      /\ \A k \in DOMAIN Since : Bundles(Since)[k] = Evidence(Since[k].reading, Since[k].at)
  BY DEF Bundles
<1> QED
  BY <1>1, <1>3, <1>4, <1>6, <1>7, <1>8 DEF BundleAt

\* A prefix the rules call recovered ends with samples that are settled.
LEMMA RecoveredEndsSettled ==
  ASSUME HistoryInv, started \in 1..Len(captures), NEW c \in 1..(Len(captures) - started),
         NEW activation,
         EvaluateRecovery(activation, SubSeq(Bundles(Since), 1, c), "v2") = "RECOVERED"
  PROVE  /\ c \in RecoveryCount..Len(Samples(Since))
         /\ \A k \in (c - RecoveryCount + 1)..c :
              Samples(Since)[k].usable /\ SampleSettled(Samples(Since)[k].kafka)
<1>1. PICK part : part = SubSeq(Bundles(Since), 1, c)
  OBVIOUS
<1>2. Len(captures) \in Nat /\ started \in Nat /\ c \in Nat \ {0} /\ RecoveryCount \in Nat \ {0}
  BY DomainOfAny, RecoveryAssumption DEF HistoryInv
<1>3. /\ Len(part) = c /\ \A k \in 1..c : part[k] = Bundles(Since)[k]
  <2>1. Len(part) = c - 1 + 1 /\ \A k \in 1..(c - 1 + 1) : part[k] = Bundles(Since)[1 + k - 1]
    BY <1>1, <1>2, PartOf
  <2>2. c - 1 + 1 = c /\ \A k \in 1..c : 1 + k - 1 = k
    BY <1>2
  <2> QED
    BY <2>1, <2>2
<1>4. PICK obs : obs = Observe(activation, part)
  OBVIOUS
<1>5. Len(obs) = c
  BY <1>2, <1>3, <1>4, Observations
<1>6. SettledAtEnd(obs)
  BY <1>1, <1>2, <1>3, <1>4, RecoveredMeansSettled
<1>7. RecoveryCount <= c /\ \A k \in (c - RecoveryCount + 1)..c : InEnvelope(obs[k], Envelope("v2"))
  BY <1>5, <1>6 DEF SettledAtEnd
<1>8. /\ Samples(Since) = [k \in 1..(Len(captures) - started) |-> Sample[captures[started + k]]]
      /\ Len(Samples(Since)) = Len(captures) - started
  <2>1. Samples(Since) = [k \in 1..(Len(captures) - started) |-> Sample[captures[started + k]]]
    BY SinceIs DEF Samples
  <2>2. Len(captures) - started \in Nat
    BY <1>2
  <2> QED
    BY <2>1, <2>2
<1>9. ASSUME NEW k \in (c - RecoveryCount + 1)..c
      PROVE  Samples(Since)[k].usable /\ SampleSettled(Samples(Since)[k].kafka)
  <2>1. k \in 1..c /\ k \in 1..(Len(captures) - started) /\ started + k \in 1..Len(captures)
    BY <1>2, <1>7
  <2>2. PICK b : b = BundleAt(started + k) /\ part[k] = b
    BY <1>3, <2>1, SinceIs
  <2>3. PICK s : s = Sample[captures[started + k]] /\ s = Samples(Since)[k]
    BY <1>8, <2>1
  <2>4. s.kafka = Measurement(b) /\ (s.usable <=> KafkaQuality(b) /\ Measurement(b) # None)
    BY <2>1, <2>2, <2>3, SampleOf
  <2>5. InEnvelope(obs[k], Envelope("v2"))
    BY <1>7
  <2>6. obs[k].m = Measurement(b) /\ obs[k].usable
    BY <1>2, <1>3, <1>4, <2>1, <2>2, <2>5, ObservedUsable DEF InEnvelope
  <2>7. CoreUsable(b) /\ Measurement(b) # None
    BY <1>2, <1>3, <1>4, <2>1, <2>2, <2>6, ObservedUsable DEF LocallyUsable
  <2>8. s.usable
    BY <2>1, <2>2, <2>4, <2>7, CollectedIsReadable, UsableIsMeasured
  <2>9. SampleSettled(s.kafka)
    BY <2>4, <2>5, <2>6 DEF InEnvelope, Envelope, SampleSettled
  <2> QED
    BY <2>3, <2>8, <2>9
<1>10. c \in RecoveryCount..Len(Samples(Since))
  BY <1>2, <1>7, <1>8
<1> QED
  BY <1>9, <1>10

Verdict == Verdicts[captures][started]

\* What a verdict says.
LEMMA VerdictIs ==
  ASSUME HistoryInv, started \in ActivationWindows, NEW v \in Verdict
  PROVE  /\ v.count \in 1..(Len(captures) - started)
         /\ v.asked \in BOOLEAN
         /\ v.asked <=> v.count \in Candidates(Samples(Since))
         /\ v.state = EvaluateRecovery(ActivationOf(Bundles(captures), started),
                                       SubSeq(Bundles(Since), 1, v.count), "v2")
<1>1. captures \in AllHistories /\ started \in 1..Len(captures)
  BY OneOfAll, PresentIsMeasured DEF HistoryInv, ActivationWindows
<1> DEFINE asked == IF Since = << >> THEN {} ELSE Candidates(Samples(Since))
           Of(c) == EvaluateRecovery(ActivationOf(Bundles(captures), started),
                                     SubSeq(Bundles(Since), 1, c), "v2")
<1>2. Verdict = {[count |-> c, asked |-> c \in asked, state |-> Of(c)] : c \in DOMAIN Bundles(Since)}
  BY <1>1 DEF Verdict, Verdicts, ActivationWindows, Since
<1> HIDE DEF asked, Of
<1>3. PICK c \in DOMAIN Bundles(Since) : v = [count |-> c, asked |-> c \in asked, state |-> Of(c)]
  BY ONLY <1>2, v \in Verdict, Zenon
<1>4. PICK u \in BOOLEAN : u = (c \in asked)
  <2>1. CASE c \in asked
    <3>1. TRUE = (c \in asked)
      BY <2>1, Zenon
    <3> QED
      BY <3>1, Zenon
  <2>2. CASE ~(c \in asked)
    <3>1. (c \in asked) = FALSE
      BY <2>2
    <3> QED
      BY <3>1, Zenon
  <2> QED
    BY <2>1, <2>2
<1>5. v = [count |-> c, asked |-> u, state |-> Of(c)]
  BY ONLY <1>3, <1>4, Zenon
<1>6. v.count = c /\ v.asked = u /\ v.state = Of(c)
  BY ONLY <1>5
<1>7. c \in 1..(Len(captures) - started) /\ Since # << >>
  BY <1>1, SinceIs
<1>8. u <=> c \in Candidates(Samples(Since))
  BY <1>4, <1>7 DEF asked
<1> QED
  BY <1>4, <1>6, <1>7, <1>8 DEF Of

\* Every prefix that is recovered is evaluated.
LEMMA RecoveredIsAsked ==
  ASSUME HistoryInv, started \in ActivationWindows
  PROVE  Counts("RECOVERED", BOOLEAN) = Counts("RECOVERED", {TRUE})
<1> SUFFICES ASSUME NEW v \in Verdict, v.state = "RECOVERED"
             PROVE  v.asked = TRUE
  BY VerdictIs DEF Counts, Verdict
<1>1. started \in 1..Len(captures)
  BY OneOfAll, PresentIsMeasured DEF HistoryInv, ActivationWindows
<1>2. PICK c : c = v.count
  OBVIOUS
<1>3. /\ c \in 1..(Len(captures) - started)
      /\ EvaluateRecovery(ActivationOf(Bundles(captures), started),
                          SubSeq(Bundles(Since), 1, c), "v2") = "RECOVERED"
  BY <1>2, VerdictIs
<1>4. /\ c \in RecoveryCount..Len(Samples(Since))
      /\ \A k \in (c - RecoveryCount + 1)..c :
           Samples(Since)[k].usable /\ SampleSettled(Samples(Since)[k].kafka)
  BY <1>1, <1>3, RecoveredEndsSettled
<1>5. c \in Candidates(Samples(Since))
  BY <1>4 DEF Candidates, EndsWith
<1> QED
  BY <1>2, <1>5, VerdictIs

-----------------------------------------------------------------------------
(* The record of the experiment.                                           *)

Fields ==
  {"activation", "state", "outcome", "closedAt", "diagnosis",
   "evaluations", "current", "timeline"}

RecordShape(r) == r = [f \in Fields |-> r[f]]

\* The time of the last event.
LastAt(r) == r.timeline[Len(r.timeline)].at

Recorded(r) ==
  RecordShape(r) /\ IsSequence(r.timeline) /\ LastAt(r) \in Int

\* An event at the end of a history.
LEMMA EventAppended ==
  ASSUME NEW s, IsSequence(s), NEW t
  PROVE  IsSequence(Append(s, t)) /\ Append(s, t)[Len(Append(s, t))] = t
BY AppendToAny

\* A new incident.
LEMMA CreatedRecord ==
  ASSUME NEW a, a.completed \in Int, CreateIncident(a)
  PROVE  /\ Recorded(record') /\ record'.activation = a
         /\ record'.state = "ACTIVE" /\ record'.diagnosis = None
<1> DEFINE d == Event("DETECTED", a.completed, a.id, "DETECTED")
           c == Event("ACTIVE", a.completed, a.id, "ACTIVE")
<1>1. PICK q : q = record'
  OBVIOUS
<1>2. /\ q = [f \in Fields |-> q[f]]
      /\ q.activation = a /\ q.state = "ACTIVE" /\ q.diagnosis = None
      /\ q.timeline = <<d, c>>
  BY <1>1 DEF CreateIncident, Fields
<1>3. c.at = a.completed
  BY DEF Event
<1> HIDE DEF d, c
<1>4. Len(<<d, c>>) = 2 /\ <<d, c>>[2] = c /\ <<d, c>> \in Seq({d, c})
  OBVIOUS
<1>5. IsSequence(q.timeline) /\ LastAt(q) = a.completed
  BY <1>2, <1>3, <1>4, ElementsOfSequence DEF LastAt
<1> QED
  BY <1>1, <1>2, <1>5 DEF Recorded, RecordShape

\* A diagnosis that is attached.
LEMMA DiagnosedRecord ==
  ASSUME Recorded(record), NEW d, d.completed \in Int, AttachDiagnosis(d)
  PROVE  /\ Recorded(record') /\ record'.activation = record.activation
         /\ record'.state = record.state /\ record.state # "CLOSED"
         /\ record'.diagnosis = d.id /\ LastAt(record') = d.completed
<1> DEFINE t == Event("DIAGNOSIS_ATTACHED", d.completed, d.id, record.state)
<1>1. PICK q : q = record'
  OBVIOUS
<1>2. /\ RecordShape(q) /\ q.activation = record.activation /\ q.state = record.state
      /\ q.diagnosis = d.id /\ q.timeline = Append(record.timeline, t)
  BY <1>1 DEF AttachDiagnosis, Recorded, RecordShape, Fields
<1>3. record.state # "CLOSED"
  BY DEF AttachDiagnosis, AcceptsDiagnosis, IsOpen
<1>4. t.at = d.completed
  BY DEF Event
<1> HIDE DEF t
<1>5. IsSequence(q.timeline) /\ LastAt(q) = d.completed
  BY <1>2, <1>4, EventAppended DEF Recorded, LastAt
<1> QED
  BY <1>1, <1>2, <1>3, <1>5 DEF Recorded

\* What an attached evaluation makes of the fields of the record.
LEMMA ObservedFields ==
  ASSUME RecordShape(record), NEW e
  PROVE  /\ RecordShape(Observed(e))
         /\ Observed(e).activation = record.activation
         /\ Observed(e).state = NextState(e)
         /\ Observed(e).closedAt = record.closedAt
         /\ Observed(e).diagnosis = record.diagnosis
         /\ Observed(e).timeline =
              Append(record.timeline, Event(EventType(e), e.observed, e.id, NextState(e)))
BY DEF Observed, RecordShape, Fields

\* What closing does.
LEMMA ClosedFields ==
  ASSUME NEW r, RecordShape(r), NEW e
  PROVE  /\ RecordShape(Closed(r, e))
         /\ Closed(r, e).activation = r.activation
         /\ Closed(r, e).state = "CLOSED"
         /\ Closed(r, e).closedAt = e.observed
         /\ Closed(r, e).diagnosis = r.diagnosis
         /\ Closed(r, e).timeline = Append(r.timeline, Event("CLOSED", e.observed, e.id, "CLOSED"))
BY DEF Closed, RecordShape, Fields

\* An attached evaluation keeps the shape of the record.
LEMMA ObservedRecord ==
  ASSUME Recorded(record), NEW e, e.observed \in Int
  PROVE  Recorded(Observed(e)) /\ LastAt(Observed(e)) = e.observed
<1> DEFINE t == Event(EventType(e), e.observed, e.id, NextState(e))
<1>1. PICK q : q = Observed(e)
  OBVIOUS
<1>2. RecordShape(q) /\ q.timeline = Append(record.timeline, t)
  BY <1>1, ObservedFields DEF Recorded
<1>3. t.at = e.observed
  BY DEF Event
<1> HIDE DEF t
<1>4. IsSequence(q.timeline) /\ LastAt(q) = e.observed
  BY <1>2, <1>3, EventAppended DEF Recorded, LastAt
<1> QED
  BY <1>1, <1>2, <1>4 DEF Recorded

\* An evaluation that is attached, and closes the record or not.
LEMMA EvaluatedRecord ==
  ASSUME Recorded(record), NEW e, e.observed \in Int, AttachRecovery(e)
  PROVE  /\ Recorded(record') /\ record'.activation = record.activation
         /\ record'.diagnosis = record.diagnosis
         /\ e.observed >= LastAt(record) /\ LastAt(record') = e.observed
         /\ IF ClosesWith(e) THEN record'.state = "CLOSED" /\ record'.closedAt = e.observed
            ELSE record'.state = NextState(e) /\ record'.closedAt = record.closedAt
<1>1. PICK r : r = Observed(e)
  OBVIOUS
<1>2. /\ Recorded(r) /\ LastAt(r) = e.observed
      /\ r.activation = record.activation /\ r.diagnosis = record.diagnosis
      /\ r.state = NextState(e) /\ r.closedAt = record.closedAt
  BY <1>1, ObservedRecord, ObservedFields DEF Recorded
<1>3. e.observed >= LastAt(record)
  BY DEF AttachRecovery, AcceptsRecovery, InOrder, LastEvent, LastAt
<1>4. CASE ClosesWith(e)
  <2> DEFINE t == Event("CLOSED", e.observed, e.id, "CLOSED")
  <2>1. PICK q : q = Closed(r, e) /\ q = record'
    BY <1>1, <1>4 DEF AttachRecovery
  <2>2. /\ RecordShape(q) /\ q.activation = r.activation /\ q.state = "CLOSED"
        /\ q.closedAt = e.observed /\ q.diagnosis = r.diagnosis
        /\ q.timeline = Append(r.timeline, t)
    <3>1. RecordShape(r)
      BY <1>2 DEF Recorded
    <3>2. PICK closed : closed = Closed(r, e)
      OBVIOUS
    <3>3. /\ RecordShape(closed) /\ closed.activation = r.activation /\ closed.state = "CLOSED"
          /\ closed.closedAt = e.observed /\ closed.diagnosis = r.diagnosis
          /\ closed.timeline = Append(r.timeline, t)
      BY <3>1, <3>2, ClosedFields
    <3> QED
      BY ONLY <2>1, <3>2, <3>3
  <2>3. t.at = e.observed
    BY DEF Event
  <2> HIDE DEF t
  <2>4. IsSequence(q.timeline) /\ LastAt(q) = e.observed
    BY <1>2, <2>2, <2>3, EventAppended DEF Recorded, LastAt
  <2> QED
    BY <1>2, <1>3, <1>4, <2>1, <2>2, <2>4 DEF Recorded
<1>5. CASE ~ClosesWith(e)
  <2>1. r = record'
    BY <1>1, <1>5 DEF AttachRecovery
  <2> QED
    BY <1>2, <1>3, <1>5, <2>1
<1> QED
  BY <1>4, <1>5

-----------------------------------------------------------------------------
(* What has happened at each stage of the experiment.                      *)

Before == {"preflight", "baseline", "setup", "capture", "wait", "stop"}
Asking == {"judge", "gate", "join", "recover"}
Checked == {"check", "write", "finish"}
Stages == Before \cup Asking \cup {"assemble"} \cup Checked \cup {"over", "handler"}

\* The incident is the one of the first window of growing pressure.
StartedInv ==
  /\ started = 0 => ActivationWindows = {}
  /\ started # 0 => /\ started \in ActivationWindows
                    /\ \A k \in ActivationWindows : started <= k
                    /\ Recorded(record) /\ record.activation.id = started

\* What has to be done for a stage to be reached.
Done(stages) == stage \in stages \/ canonical # None

StageInv ==
  /\ stage \in Stages
  /\ canonical # None => stage \in {"finish", "over", "handler"}
  /\ Done(Asking \cup {"assemble"} \cup Checked) => load = "ended"
  /\ Done({"gate", "join", "recover", "assemble"} \cup Checked) => started # 0
  /\ Done({"recover", "assemble"} \cup Checked) => Ended /\ diagnosis # Undecided
  /\ stage \in Before \cup Asking /\ started # 0 =>
       record.state # "CLOSED" /\ record.diagnosis = None
  /\ Done(Checked) => record.state = "CLOSED" /\ record.diagnosis # None

\* A diagnosis is complete between two collections.
DiagnosisTime == diagnosis # Undecided => \E n \in Nat : completed = Cadence * n + 1

\* When the first prefix ended that was evaluated and recovered.
Closers == Counts("RECOVERED", {TRUE})
ClosingTime == captures[started + Min(Closers)].at

\* What is attached to the record.
AttachedInv ==
  started # 0 =>
    /\ record.state = "CLOSED" => Closers # {} /\ record.closedAt = ClosingTime
    /\ record.diagnosis # None =>
         /\ Ended /\ diagnosis # Undecided /\ completed <= LastAt(record)
         /\ record.state = "CLOSED" => completed <= record.closedAt

\* What is still to be.
DiagnosisPending(a) == a.artifact.id = "diagnosis" /\ a.artifact.completed = completed

EvaluationPending(a) ==
  /\ a.artifact.observed \in Int /\ a.artifact.state \in Required
  /\ a.artifact.state = "RECOVERED" => Closers # {} /\ a.artifact.observed = ClosingTime

ArtifactPending(a) ==
  IF a.kind = "diagnosis" THEN DiagnosisPending(a) ELSE EvaluationPending(a)

PendingInv ==
  stage = "assemble" =>
    /\ \A a \in pending : ArtifactPending(a)
    /\ record.diagnosis # None \/ \E a \in pending : a.kind = "diagnosis"

PromotedInv ==
  canonical # None =>
    canonical.incident = record /\ canonical.peak >= Sample[captures[started]].kafka.lag

Promotion ==
  /\ HistoryInv /\ StartedInv /\ StageInv /\ DiagnosisTime
  /\ AttachedInv /\ PendingInv /\ PromotedInv

kept == <<record, captures, agentVars, started, completed, pending, canonical>>

\* What does not look at the stage stays as it is.
LEMMA StageAlone ==
  ASSUME Promotion, UNCHANGED kept
  PROVE  HistoryInv' /\ StartedInv' /\ DiagnosisTime' /\ AttachedInv' /\ PromotedInv'
<1>1. UNCHANGED <<record, captures, started, completed, canonical, turn, diagnosis>>
  BY DEF kept, agentVars
<1>2. HistoryInv'
  BY <1>1 DEF Promotion, HistoryInv
<1>3. StartedInv'
  BY <1>1 DEF Promotion, StartedInv, ActivationWindows
<1>4. DiagnosisTime'
  BY <1>1 DEF Promotion, DiagnosisTime
<1>5. AttachedInv'
  BY <1>1 DEF Promotion, AttachedInv, Ended, Alive, Closers, ClosingTime, Counts
<1>6. PromotedInv'
  BY <1>1 DEF Promotion, PromotedInv
<1> QED
  BY <1>2, <1>3, <1>4, <1>5, <1>6

\* A step to another stage, with nothing attached.
LEMMA StageStep ==
  ASSUME Promotion, UNCHANGED kept, StageInv', stage' = "assemble" => stage = "assemble"
  PROVE  Promotion'
<1>1. UNCHANGED <<record, captures, started, completed, pending>>
  BY DEF kept
<1>2. PendingInv'
  BY <1>1 DEF Promotion, PendingInv, ArtifactPending, DiagnosisPending, EvaluationPending,
              Closers, ClosingTime, Counts
<1> QED
  BY <1>2, StageAlone DEF Promotion

\* The steps of the scenario but for a capture.
LEMMA ScenarioKeeps ==
  ASSUME Promotion, ScenarioStep \/ ScenarioEvent, OthersUnchanged
  PROVE  Promotion'
<1>1. UNCHANGED kept
  BY DEF ScenarioStep, ScenarioEvent, OthersUnchanged, kept, PollBaseline, BaselineTimesOut,
         StartLoad, SetupSeen, CapturesDone, LoadAwaited, LoadTimesOut, StopLoad, StopTimesOut,
         JudgeRun, LoadEnds, ScenarioThrows
<1>2. UNCHANGED <<record, started, canonical, turn, diagnosis, captures>>
  BY <1>1 DEF kept, agentVars
<1> USE DEF StageInv, Done, Stages, Before, Asking, Checked, Ended, Alive, Goto, Throw
<1>3. StageInv
  BY DEF Promotion
<1>4. CASE PollBaseline
  BY <1>1, <1>2, <1>3, <1>4, StageStep DEF PollBaseline
<1>5. CASE BaselineTimesOut
  BY <1>1, <1>2, <1>3, <1>5, StageStep DEF BaselineTimesOut
<1>6. CASE StartLoad
  BY <1>1, <1>2, <1>3, <1>6, StageStep DEF StartLoad
<1>7. CASE SetupSeen
  BY <1>1, <1>2, <1>3, <1>7, StageStep DEF SetupSeen
<1>8. CASE CapturesDone
  BY <1>1, <1>2, <1>3, <1>8, StageStep DEF CapturesDone
<1>9. CASE LoadAwaited
  BY <1>1, <1>2, <1>3, <1>9, StageStep DEF LoadAwaited
<1>10. CASE LoadTimesOut
  BY <1>1, <1>2, <1>3, <1>10, StageStep DEF LoadTimesOut
<1>11. CASE StopLoad
  BY <1>1, <1>2, <1>3, <1>11, StageStep DEF StopLoad
<1>12. CASE StopTimesOut
  BY <1>1, <1>2, <1>3, <1>12, StageStep DEF StopTimesOut
<1>13. CASE LoadEnds
  BY <1>1, <1>2, <1>3, <1>13, StageStep DEF LoadEnds
<1>14. CASE ScenarioThrows
  BY <1>1, <1>2, <1>3, <1>14, StageStep DEF ScenarioThrows
<1>15. CASE JudgeRun
  <2>1. started # 0 \/ ActivationWindows = {}
    BY DEF Promotion, StartedInv
  <2>2. /\ UNCHANGED load /\ stage = "judge"
        /\ stage' = "handler" \/ (stage' = "gate" /\ ActivationWindows # {})
    BY <1>15 DEF JudgeRun
  <2> QED
    BY <1>1, <1>2, <1>3, <2>1, <2>2, StageStep
<1> QED
  BY <1>4, <1>5, <1>6, <1>7, <1>8, <1>9, <1>10, <1>11, <1>12, <1>13, <1>14, <1>15
     DEF ScenarioStep, ScenarioEvent

\* The steps that go on or fail without a change of the record.
LEMMA QuietKeeps ==
  ASSUME Promotion,
         \/ Preflight \/ QualityGate \/ JoinDiagnosis \/ CheckArtifacts \/ Complete \/ Handle
         \/ Throws
  PROVE  Promotion'
<1>1. UNCHANGED kept /\ UNCHANGED <<record, started, canonical, turn, diagnosis, captures, load>>
  BY DEF kept, agentVars, Preflight, QualityGate, JoinDiagnosis, CheckArtifacts, Complete,
         Handle, Throws
<1> USE DEF StageInv, Done, Stages, Before, Asking, Checked, Ended, Alive, Goto, Throw
<1>2. StageInv
  BY DEF Promotion
<1>3. CASE Preflight
  BY <1>1, <1>2, <1>3, StageStep DEF Preflight
<1>4. CASE QualityGate
  BY <1>1, <1>2, <1>4, StageStep DEF QualityGate
<1>5. CASE JoinDiagnosis
  BY <1>1, <1>2, <1>5, StageStep DEF JoinDiagnosis
<1>6. CASE CheckArtifacts
  BY <1>1, <1>2, <1>6, StageStep DEF CheckArtifacts
<1>7. CASE Complete
  BY <1>1, <1>2, <1>7, StageStep DEF Complete
<1>8. CASE Handle
  BY <1>1, <1>2, <1>8, StageStep DEF Handle
<1>9. CASE Throws
  BY <1>1, <1>2, <1>9, StageStep DEF Throws
<1> QED
  BY <1>3, <1>4, <1>5, <1>6, <1>7, <1>8, <1>9

\* A turn of the agent is one of a diagnosis that has not ended, and what it
\* returns it returns at its end.
LEMMA AgentTurns ==
  ASSUME AgentStep
  PROVE  Alive /\ (turn' = "done" \/ diagnosis' = diagnosis)
BY DEF AgentStep, Alive, RetryRequest, RequestFails, CallBeyondBudget, BadAnswer, ExecuteTool,
       ToolFails, Decide, Judge, Repair, BadRepair, Validate, Unnamed, AskForRepair, Return, Raise

\* A turn of the diagnosis.
LEMMA DiagnosisKeepsPromotion ==
  ASSUME Promotion, DiagnosisStep
  PROVE  Promotion'
<1>1. /\ ~Ended /\ (turn' = "done" \/ diagnosis' = diagnosis)
      /\ completed' = IF turn' = "done" THEN Now ELSE completed
      /\ UNCHANGED <<record, started, pending, canonical, stage, load, captures>>
  BY AgentTurns DEF DiagnosisStep, scenarioVars, Ended
<1>2. HistoryInv' /\ StartedInv' /\ PromotedInv'
  BY <1>1 DEF Promotion, HistoryInv, StartedInv, ActivationWindows, PromotedInv
<1>3. StageInv'
  BY <1>1 DEF Promotion, StageInv, Done
<1>4. DiagnosisTime'
  <2>1. Len(captures) \in Nat
    BY DomainOfAny DEF Promotion, HistoryInv
  <2>2. CASE turn' = "done"
    BY <1>1, <2>1, <2>2 DEF DiagnosisTime, Now
  <2>3. CASE turn' # "done"
    BY <1>1, <2>3 DEF Promotion, DiagnosisTime
  <2> QED
    BY <2>2, <2>3
<1>5. AttachedInv'
  <2>1. started # 0 => record.diagnosis = None
    BY <1>1 DEF Promotion, AttachedInv
  <2> QED
    BY <1>1, <2>1 DEF Promotion, AttachedInv, Closers, ClosingTime, Counts
<1>6. PendingInv'
  <2>1. stage # "assemble"
    BY <1>1 DEF Promotion, StageInv, Done
  <2> QED
    BY <1>1, <2>1 DEF PendingInv
<1> QED
  BY <1>2, <1>3, <1>4, <1>5, <1>6 DEF Promotion

\* A capture, and with the first window of growing pressure the incident.
LEMMA CaptureKeepsPromotion ==
  ASSUME Promotion, NEW c \in Collections(captures), CaptureStep(c)
  PROVE  Promotion'
<1>1. /\ captures' = Append(captures, c) /\ stage = "capture" /\ UNCHANGED <<stage, load>>
      /\ Len(captures) < Moments
      /\ UNCHANGED <<completed, pending, canonical>>
  <2>1. ~(Len(captures) >= Planned + Overtime) /\ Len(captures) \in Nat
    BY DomainOfAny DEF CaptureStep, Capture, Over, Promotion, HistoryInv
  <2>2. Len(captures) < Moments
    BY <2>1, ScenarioAssumption DEF Moments
  <2> QED
    BY <2>2 DEF CaptureStep, Capture
<1>2. PICK cs : cs = captures' /\ cs = Append(captures, c)
  BY <1>1
<1>3. /\ IsSequence(cs) /\ Len(cs) = Len(captures) + 1 /\ Len(captures) \in Nat
      /\ cs \in Histories[Len(cs)]
      /\ \A k \in 1..Len(captures) : cs[k] = captures[k]
      /\ cs[Len(cs)] = c
      /\ c.at = Cadence * Len(cs) /\ c.reading \in Readings
  BY <1>1, <1>2, NextHistory DEF Promotion
<1>4. HistoryInv'
  <2>1. Len(cs) <= Moments
    BY <1>1, <1>3, ScenarioAssumption DEF Moments
  <2>2. ASSUME NEW k \in 1..Len(cs)
        PROVE  cs[k].at = Cadence * k /\ cs[k].reading \in Readings
    <3>1. k \in 1..Len(captures) \/ k = Len(cs)
      BY <1>3
    <3> QED
      BY <1>3, <3>1 DEF Promotion, HistoryInv
  <2> QED
    BY <1>2, <1>3, <2>1, <2>2 DEF HistoryInv
<1>5. cs \in AllHistories /\ captures \in AllHistories
  <2>1. Len(cs) \in 0..Moments
    BY <1>2, <1>3, <1>4, ScenarioAssumption DEF HistoryInv, Moments
  <2> QED
    BY <1>3, <2>1, OneOfAll DEF AllHistories, Moments, Promotion
<1>6. Activating[captures] = Activating[cs] \cap 1..Len(captures)
  <2>1. Len(captures) <= Len(cs) /\ IsSequence(captures)
    BY <1>3 DEF Promotion, HistoryInv
  <2> QED
    BY <1>3, <1>5, <2>1, WindowsStay
<1>7. Activating[cs] \subseteq 1..Len(cs)
  BY <1>3, <1>5, PresentIsMeasured
<1>8. /\ record' = record \/ started = 0
      /\ StartedInv' /\ (started' # 0 => record'.state # "CLOSED" /\ record'.diagnosis = None)
      /\ diagnosis' = diagnosis
  <2>1. CASE started = 0 /\ Len(cs) \in Activating[cs]
    <3> DEFINE a == ActivationOf(Bundles(cs), Len(cs))
    <3>1. /\ CreateIncident(a) /\ started' = Len(cs) /\ diagnosis' = diagnosis
      BY <1>2, <2>1 DEF CaptureStep, OnCapture, StartDiagnosis
    <3>2. a.id = Len(cs) /\ a.completed = Bundles(cs)[Len(cs)].completed
      BY DEF ActivationOf
    <3>3. Bundles(cs)[Len(cs)].completed \in Int
      <4>1. Len(cs) \in 1..Len(cs) /\ DOMAIN cs = 1..Len(cs)
        BY <1>3, DomainOfAny
      <4>2. Bundles(cs)[Len(cs)] = Evidence(c.reading, Cadence * Len(cs))
        BY <1>3, <4>1 DEF Bundles
      <4>3. Len(cs) \in 1..(Planned + Overtime)
        BY <1>2, <1>3, <1>4, <4>1 DEF HistoryInv, Moments
      <4>4. Bundles(cs)[Len(cs)].completed = Cadence * Len(cs)
        BY <1>3, <4>2, <4>3, CollectionAssumption DEF Readings
      <4> QED
        BY <1>3, <4>4, ScenarioAssumption
    <3> HIDE DEF a
    <3>4. /\ Recorded(record') /\ record'.activation = a
          /\ record'.state = "ACTIVE" /\ record'.diagnosis = None
      BY <3>1, <3>2, <3>3, CreatedRecord
    <3>5. \A k \in Activating[cs] : Len(cs) <= k
      BY <1>3, <1>6, <1>7, <2>1 DEF Promotion, StartedInv, ActivationWindows
    <3>6. Len(cs) # 0
      BY <1>3
    <3> QED
      BY <1>2, <2>1, <3>1, <3>2, <3>4, <3>5, <3>6 DEF StartedInv, ActivationWindows
  <2>2. CASE ~(started = 0 /\ Len(cs) \in Activating[cs])
    <3>1. UNCHANGED <<record, started, diagnosis>>
      BY <1>2, <2>2 DEF CaptureStep, OnCapture, agentVars
    <3>2. CASE started = 0
      <4>1. Activating[cs] = {}
        BY <1>3, <1>6, <1>7, <2>2, <3>2 DEF Promotion, StartedInv, ActivationWindows
      <4> QED
        BY <1>2, <3>1, <3>2, <4>1 DEF StartedInv, ActivationWindows
    <3>3. CASE started # 0
      <4>1. /\ started \in Activating[captures] /\ \A k \in Activating[captures] : started <= k
            /\ Recorded(record) /\ record.activation.id = started
        BY <3>3 DEF Promotion, StartedInv, ActivationWindows
      <4>2. started \in Activating[cs] /\ started \in 1..Len(captures)
        BY <1>6, <4>1
      <4>3. \A k \in Activating[cs] : started <= k
        BY <1>3, <1>6, <1>7, <4>1, <4>2
      <4>4. StartedInv'
        BY <1>2, <3>1, <3>3, <4>1, <4>2, <4>3 DEF StartedInv, ActivationWindows
      <4>5. record.state # "CLOSED" /\ record.diagnosis = None
        BY <1>1, <3>3 DEF Promotion, StageInv, Before
      <4> QED
        BY <3>1, <4>4, <4>5
    <3> QED
      BY <3>2, <3>3
  <2> QED
    BY <2>1, <2>2
<1>9. canonical = None
  BY <1>1 DEF Promotion, StageInv
<1>10. StageInv'
  BY <1>1, <1>8, <1>9 DEF StageInv, Done, Stages, Before, Asking, Checked
<1>11. DiagnosisTime'
  BY <1>1, <1>8 DEF Promotion, DiagnosisTime
<1>12. AttachedInv' /\ PendingInv' /\ PromotedInv'
  BY <1>1, <1>8, <1>9 DEF AttachedInv, PendingInv, PromotedInv
<1> QED
  BY <1>4, <1>8, <1>10, <1>11, <1>12 DEF Promotion

\* A count is that of a prefix, and there is a verdict of every prefix.
LEMMA CountsAre ==
  ASSUME HistoryInv, started \in ActivationWindows, NEW state, NEW asked
  PROVE  /\ Counts(state, asked) \subseteq 1..(Len(captures) - started)
         /\ Counts(state, asked) \subseteq Nat
<1>1. \A v \in Verdict : v.count \in 1..(Len(captures) - started)
  BY VerdictIs
<1>2. \A v \in {w \in Verdicts[captures][started] : w.state = state /\ w.asked \in asked} :
        v \in Verdict
  BY DEF Verdict
<1>3. Counts(state, asked) \subseteq 1..(Len(captures) - started)
  BY <1>1, <1>2 DEF Counts
<1>4. 1..(Len(captures) - started) \subseteq Nat
  <2>1. Len(captures) - started \in Int
    BY OneOfAll, PresentIsMeasured, DomainOfAny DEF HistoryInv, ActivationWindows
  <2> QED
    BY <2>1
<1> QED
  BY <1>3, <1>4

\* There is a verdict of every prefix.
LEMMA EachPrefix ==
  ASSUME HistoryInv, started \in ActivationWindows, NEW c \in 1..(Len(captures) - started)
  PROVE  \E v \in Verdict : v.count = c
<1>1. captures \in AllHistories /\ started \in 1..Len(captures)
  BY OneOfAll, PresentIsMeasured DEF HistoryInv, ActivationWindows
<1>2. c \in DOMAIN Bundles(Since)
  BY <1>1, SinceIs
<1> DEFINE asked == IF Since = << >> THEN {} ELSE Candidates(Samples(Since))
           Of(d) == EvaluateRecovery(ActivationOf(Bundles(captures), started),
                                     SubSeq(Bundles(Since), 1, d), "v2")
<1>3. Verdict = {[count |-> d, asked |-> d \in asked, state |-> Of(d)] :
                   d \in DOMAIN Bundles(Since)}
  BY <1>1 DEF Verdict, Verdicts, ActivationWindows, Since
<1> HIDE DEF asked, Of
<1>4. PICK v : v = [count |-> c, asked |-> c \in asked, state |-> Of(c)]
  BY Zenon
<1>5. v \in Verdict
  BY <1>2, <1>3, <1>4, Zenon
<1>6. v.count = c
  BY <1>4, Zenon
<1> QED
  BY <1>5, <1>6

\* One of them is of all captures.
LEMMA LastVerdict ==
  ASSUME HistoryInv, started \in ActivationWindows, Len(captures) > started
  PROVE  Final \in Verdict /\ Final.count = Len(captures) - started
<1>1. started \in 1..Len(captures) /\ Len(captures) \in Nat
  BY OneOfAll, PresentIsMeasured, DomainOfAny DEF HistoryInv, ActivationWindows
<1>2. PICK c \in 1..(Len(captures) - started) : c = Len(captures) - started
  BY <1>1
<1>3. \E v \in Verdict : v.count = Len(captures) - started
  BY <1>2, EachPrefix
<1> QED
  BY <1>3 DEF Final, Verdict

\* When a prefix that is evaluated ends.
LEMMA PrefixEnds ==
  ASSUME HistoryInv, started \in ActivationWindows, NEW c \in 1..(Len(captures) - started),
         NEW state
  PROVE  /\ RecoveryArtifact(c, state).observed = captures[started + c].at
         /\ RecoveryArtifact(c, state).observed \in Int
         /\ RecoveryArtifact(c, state).state = state
<1>1. started \in 1..Len(captures) /\ Len(captures) \in Nat
  BY OneOfAll, PresentIsMeasured, DomainOfAny DEF HistoryInv, ActivationWindows
<1>2. Bundles(Since)[c] = BundleAt(started + c)
  BY <1>1, SinceIs
<1>3. started + c \in 1..Len(captures)
  BY <1>1
<1>4. BundleAt(started + c).completed = captures[started + c].at
  BY <1>3, CollectedIsReadable
<1>5. captures[started + c].at \in Int
  <2>1. captures[started + c].at = Cadence * (started + c) /\ started + c \in Int
    BY <1>1, <1>3 DEF HistoryInv
  <2> QED
    BY <2>1, ScenarioAssumption
<1>6. PICK e, b : e = RecoveryArtifact(c, state) /\ b = Bundles(Since)[c]
  OBVIOUS
<1>7. e = Artifact(c, record.activation, "v2", state, b.completed)
  BY <1>6 DEF RecoveryArtifact, Since
<1>8. e.observed = b.completed /\ e.state = state
  BY <1>7 DEF Artifact
<1> QED
  BY <1>2, <1>4, <1>5, <1>6, <1>8

\* What is to be attached after the evaluation of the prefixes.
LEMMA EvaluationKeepsPromotion ==
  ASSUME Promotion, EvaluateRecoveryPrefixes
  PROVE  Promotion'
<1>1. /\ UNCHANGED <<record, load, captures, started, completed, canonical, turn, diagnosis>>
      /\ stage = "recover" /\ stage' \in {"handler", "assemble"}
      /\ stage' = "handler" => UNCHANGED pending
  BY DEF EvaluateRecoveryPrefixes, agentVars, Goto, Throw
<1>2. HistoryInv' /\ StartedInv' /\ DiagnosisTime' /\ AttachedInv' /\ PromotedInv'
  BY <1>1 DEF Promotion, HistoryInv, StartedInv, ActivationWindows, DiagnosisTime, PromotedInv,
              AttachedInv, Ended, Alive, Closers, ClosingTime, Counts
<1>3. StageInv'
  BY <1>1 DEF Promotion, StageInv, Done, Stages, Before, Asking, Checked, Ended, Alive
<1>4. PendingInv'
  <2> SUFFICES ASSUME stage' = "assemble"
               PROVE  /\ \A a \in pending' : ArtifactPending(a)
                      /\ \E a \in pending' : a.kind = "diagnosis"
    BY <1>1 DEF PendingInv, ArtifactPending, DiagnosisPending, EvaluationPending, Closers,
                ClosingTime, Counts
  <2>1. started \in ActivationWindows /\ HistoryInv
    BY <1>1 DEF Promotion, StageInv, Done, StartedInv
  <2>2. /\ DOMAIN FirstOf = Required
        /\ pending' =
             {LET e == RecoveryArtifact(FirstOf[s], s) IN ToAttach("recovery", e, e.observed) :
                s \in Required}
             \cup {ToAttach("diagnosis", DiagnosisArtifact, completed)}
    BY DEF EvaluateRecoveryPrefixes, Throw
  <2>3. \A s \in Required : Counts(s, {TRUE}) # {} /\ FirstOf[s] = Min(Counts(s, {TRUE}))
    BY <2>2 DEF FirstOf
  <2>4. PICK d : d = ToAttach("diagnosis", DiagnosisArtifact, completed)
    OBVIOUS
  <2>5. d \in pending' /\ d.kind = "diagnosis" /\ DiagnosisPending(d)
    BY <2>2, <2>4 DEF ToAttach, DiagnosisPending, DiagnosisArtifact
  <2>6. ASSUME NEW s \in Required, NEW a,
               a = ToAttach("recovery", RecoveryArtifact(FirstOf[s], s),
                            RecoveryArtifact(FirstOf[s], s).observed)
        PROVE  a.kind # "diagnosis" /\ EvaluationPending(a)
    <3>1. PICK c : c = FirstOf[s] /\ c = Min(Counts(s, {TRUE}))
      BY <2>3
    <3>2. c \in 1..(Len(captures) - started)
      <4>1. Counts(s, {TRUE}) # {} /\ Counts(s, {TRUE}) \subseteq Nat
        BY <2>1, <2>3, CountsAre
      <4>2. Min(Counts(s, {TRUE})) \in Counts(s, {TRUE})
        BY <4>1, SmallestIsMin
      <4> QED
        BY <2>1, <3>1, <4>2, CountsAre
    <3>3. PICK e : e = RecoveryArtifact(c, s)
      OBVIOUS
    <3>4. e.observed = captures[started + c].at /\ e.observed \in Int /\ e.state = s
      BY <2>1, <3>2, <3>3, PrefixEnds
    <3>5. a.kind = "recovery" /\ a.artifact = e
      BY <2>6, <3>1, <3>3 DEF ToAttach
    <3>6. s = "RECOVERED" => Closers # {} /\ e.observed = ClosingTime
      BY <2>3, <3>1, <3>4 DEF Closers, ClosingTime
    <3> QED
      BY <3>4, <3>5, <3>6 DEF EvaluationPending
  <2>7. \A a \in pending' :
          \/ a = d
          \/ \E s \in Required : a = ToAttach("recovery", RecoveryArtifact(FirstOf[s], s),
                                              RecoveryArtifact(FirstOf[s], s).observed)
    BY <2>2, <2>4
  <2> QED
    BY <2>5, <2>6, <2>7 DEF ArtifactPending
<1> QED
  BY <1>2, <1>3, <1>4 DEF Promotion

\* What the promotion keeps when something is attached.
LEMMA AttachFrame ==
  ASSUME Promotion, stage = "assemble",
         UNCHANGED <<load, captures, agentVars, started, completed, canonical>>
  PROVE  /\ HistoryInv' /\ DiagnosisTime' /\ PromotedInv' /\ canonical = None
         /\ started # 0 /\ Ended /\ diagnosis # Undecided /\ load = "ended"
         /\ Recorded(record) /\ completed \in Int /\ started \in ActivationWindows
<1>1. canonical = None /\ started # 0 /\ Ended /\ diagnosis # Undecided /\ load = "ended"
  BY DEF Promotion, StageInv, Done
<1>2. HistoryInv' /\ DiagnosisTime' /\ PromotedInv'
  BY <1>1 DEF Promotion, HistoryInv, DiagnosisTime, PromotedInv, agentVars
<1>3. Recorded(record) /\ started \in ActivationWindows
  BY <1>1 DEF Promotion, StartedInv
<1>4. PICK n \in Nat : completed = Cadence * n + 1
  BY <1>1 DEF Promotion, DiagnosisTime
<1>5. completed \in Int
  BY <1>4, ScenarioAssumption
<1> QED
  BY <1>1, <1>2, <1>3, <1>5

\* A time when the incident may close.
LEMMA ClosingTimeIsNumber ==
  ASSUME HistoryInv, started \in ActivationWindows, Closers # {}
  PROVE  ClosingTime \in Int /\ Len(captures) > started
<1>1. Min(Closers) \in Closers
  BY CountsAre, SmallestIsMin DEF Closers
<1>2. PICK c \in 1..(Len(captures) - started) : c = Min(Closers)
  BY <1>1, CountsAre DEF Closers
<1>3. ClosingTime \in Int
  BY <1>2, PrefixEnds DEF ClosingTime
<1>4. Len(captures) \in Int /\ started \in Int
  BY OneOfAll, PresentIsMeasured, DomainOfAny DEF HistoryInv, ActivationWindows
<1> QED
  BY <1>2, <1>3, <1>4

\* An artifact that is attached in the order of the times.
LEMMA AttachNextKeeps ==
  ASSUME Promotion, AttachNext
  PROVE  Promotion'
<1>1. /\ stage = "assemble"
      /\ UNCHANGED <<load, captures, agentVars, started, completed, canonical>>
  BY DEF AttachNext
<1>2. UNCHANGED <<load, captures, started, completed, canonical, turn, diagnosis>>
  BY <1>1 DEF agentVars
<1>3. /\ HistoryInv' /\ DiagnosisTime' /\ PromotedInv' /\ canonical = None
      /\ started # 0 /\ Ended /\ diagnosis # Undecided /\ load = "ended"
      /\ Recorded(record) /\ completed \in Int /\ started \in ActivationWindows
  BY <1>1, AttachFrame
<1>4. Closers' = Closers /\ ClosingTime' = ClosingTime /\ Ended'
  BY <1>2, <1>3 DEF Closers, ClosingTime, Counts, Ended, Alive
<1>5. PICK a \in pending :
        IF Accepts(a)
        THEN /\ IF a.kind = "diagnosis" THEN AttachDiagnosis(a.artifact)
                                       ELSE AttachRecovery(a.artifact)
             /\ pending' = pending \ {a} /\ UNCHANGED <<stage, polls, raised>>
        ELSE Throw("error") /\ UNCHANGED <<record, pending>>
  BY DEF AttachNext, Earliest
<1>6. IF a.kind = "diagnosis" THEN DiagnosisPending(a) ELSE EvaluationPending(a)
  BY <1>1 DEF Promotion, PendingInv, ArtifactPending
<1>7. CASE stage' = "handler" /\ UNCHANGED record
  <2>1. StageInv' /\ PendingInv'
    BY <1>2, <1>3, <1>4, <1>7 DEF StageInv, Done, Stages, Before, Asking, Checked, PendingInv
  <2>2. StartedInv' /\ AttachedInv'
    BY <1>2, <1>4, <1>7 DEF Promotion, StartedInv, ActivationWindows, AttachedInv
  <2> QED
    BY <1>3, <2>1, <2>2 DEF Promotion
<1>8. CASE /\ a.kind = "diagnosis" /\ AttachDiagnosis(a.artifact)
           /\ pending' = pending \ {a} /\ UNCHANGED stage
  <2>1. a.artifact.id = "diagnosis" /\ a.artifact.completed = completed
    BY <1>6, <1>8 DEF DiagnosisPending
  <2>2. /\ Recorded(record') /\ record'.activation = record.activation
        /\ record'.state = record.state /\ record.state # "CLOSED"
        /\ record'.diagnosis = "diagnosis" /\ LastAt(record') = completed
    BY <1>3, <1>8, <2>1, DiagnosedRecord
  <2>3. StageInv'
    BY <1>1, <1>2, <1>3, <1>4, <1>8 DEF StageInv, Done, Stages, Before, Asking, Checked
  <2>4. StartedInv'
    BY <1>2, <1>3, <2>2 DEF Promotion, StartedInv, ActivationWindows
  <2>5. AttachedInv'
    BY <1>2, <1>3, <1>4, <2>2 DEF AttachedInv
  <2>6. PendingInv'
    <3>1. \A b \in pending' : ArtifactPending(b)
      BY <1>1, <1>8 DEF Promotion, PendingInv
    <3>2. \A b \in pending' : ArtifactPending(b)'
      BY <1>2, <1>4, <3>1 DEF ArtifactPending, DiagnosisPending, EvaluationPending
    <3> QED
      BY <2>2, <3>2, IdAssumption DEF PendingInv
  <2> QED
    BY <1>3, <2>3, <2>4, <2>5, <2>6 DEF Promotion
<1>9. CASE /\ a.kind # "diagnosis" /\ AttachRecovery(a.artifact)
           /\ pending' = pending \ {a} /\ UNCHANGED stage
  <2>1. PICK e : e = a.artifact
    OBVIOUS
  <2>2. /\ e.observed \in Int /\ e.state \in Required
        /\ e.state = "RECOVERED" => Closers # {} /\ e.observed = ClosingTime
    BY <1>6, <1>9, <2>1 DEF EvaluationPending
  <2>3. /\ Recorded(record') /\ record'.activation = record.activation
        /\ record'.diagnosis = record.diagnosis
        /\ e.observed >= LastAt(record) /\ LastAt(record') = e.observed
        /\ IF ClosesWith(e) THEN record'.state = "CLOSED" /\ record'.closedAt = e.observed
           ELSE record'.state = NextState(e) /\ record'.closedAt = record.closedAt
    BY <1>3, <1>9, <2>1, <2>2, EvaluatedRecord
  <2>4. StageInv'
    BY <1>1, <1>2, <1>3, <1>4, <1>9 DEF StageInv, Done, Stages, Before, Asking, Checked
  <2>5. StartedInv'
    BY <1>2, <1>3, <2>3 DEF Promotion, StartedInv, ActivationWindows
  <2>6. AttachedInv'
    <3>1. record.diagnosis # None => completed <= LastAt(record) /\ completed <= LastAt(record')
      BY <1>3, <2>2, <2>3 DEF Promotion, AttachedInv, Recorded
    <3>2. CASE ClosesWith(e)
      <4>1. Closers # {} /\ e.observed = ClosingTime
        BY <2>2, <3>2 DEF ClosesWith
      <4> QED
        BY <1>2, <1>3, <1>4, <2>3, <3>1, <3>2, <4>1 DEF AttachedInv
    <3>3. CASE ~ClosesWith(e)
      <4>1. record'.state = "CLOSED" => record.state = "CLOSED"
        BY <2>2, <2>3, <3>3 DEF NextState, ClosesWith, Required
      <4> QED
        BY <1>2, <1>3, <1>4, <2>3, <3>1, <3>3, <4>1 DEF Promotion, AttachedInv
    <3> QED
      BY <3>2, <3>3
  <2>7. PendingInv'
    <3>1. \A b \in pending' : ArtifactPending(b)
      BY <1>1, <1>9 DEF Promotion, PendingInv
    <3>2. \A b \in pending' : ArtifactPending(b)'
      BY <1>2, <1>4, <3>1 DEF ArtifactPending, DiagnosisPending, EvaluationPending
    <3>3. record'.diagnosis # None \/ \E b \in pending' : b.kind = "diagnosis"
      BY <1>1, <1>9, <2>3 DEF Promotion, PendingInv
    <3> QED
      BY <3>2, <3>3 DEF PendingInv
  <2> QED
    BY <1>3, <2>4, <2>5, <2>6, <2>7 DEF Promotion
<1> QED
  BY <1>5, <1>7, <1>8, <1>9 DEF Throw

\* The evaluation of all captures, which leaves a closed record closed.
LEMMA AttachFinalKeeps ==
  ASSUME Promotion, AttachFinal
  PROVE  Promotion'
<1>1. /\ stage = "assemble" /\ pending = {}
      /\ UNCHANGED <<load, captures, agentVars, started, completed, pending, canonical>>
  BY DEF AttachFinal
<1>2. UNCHANGED <<load, captures, started, completed, canonical, turn, diagnosis>>
  BY <1>1 DEF agentVars
<1>3. /\ HistoryInv' /\ DiagnosisTime' /\ PromotedInv' /\ canonical = None
      /\ started # 0 /\ Ended /\ diagnosis # Undecided /\ load = "ended"
      /\ Recorded(record) /\ completed \in Int /\ started \in ActivationWindows
  BY <1>1, AttachFrame
<1>4. Closers' = Closers /\ ClosingTime' = ClosingTime /\ Ended'
  BY <1>2, <1>3 DEF Closers, ClosingTime, Counts, Ended, Alive
<1>5. PICK e : e = RecoveryArtifact(Final.count, Final.state)
  OBVIOUS
<1>6. record.diagnosis # None
  BY <1>1 DEF Promotion, PendingInv
<1>7. PendingInv'
  BY DEF AttachFinal, PendingInv, Goto, Throw
<1>8. CASE UNCHANGED record /\ (stage' = "handler" \/ (stage' = "check" /\ record.state = "CLOSED"))
  <2>1. StageInv'
    BY <1>2, <1>3, <1>4, <1>6, <1>8 DEF StageInv, Done, Stages, Before, Asking, Checked
  <2>2. StartedInv' /\ AttachedInv'
    BY <1>2, <1>4, <1>8 DEF Promotion, StartedInv, ActivationWindows, AttachedInv
  <2> QED
    BY <1>3, <1>7, <2>1, <2>2 DEF Promotion
<1>9. CASE /\ stage' = "check" /\ record.state = "CLOSED"
           /\ e.observed >= record.closedAt /\ AttachRecovery(e)
  <2>1. Closers # {} /\ record.closedAt = ClosingTime
    BY <1>3, <1>9 DEF Promotion, AttachedInv
  <2>2. e.observed \in Int
    <3>1. Len(captures) > started /\ HistoryInv
      BY <1>3, <2>1, ClosingTimeIsNumber DEF Promotion
    <3>2. Final.count \in 1..(Len(captures) - started)
      BY <1>3, <3>1, LastVerdict, VerdictIs
    <3> QED
      BY <1>3, <1>5, <3>1, <3>2, PrefixEnds
  <2>3. /\ Recorded(record') /\ record'.activation = record.activation
        /\ record'.diagnosis = record.diagnosis
        /\ e.observed >= LastAt(record) /\ LastAt(record') = e.observed
        /\ IF ClosesWith(e) THEN record'.state = "CLOSED" /\ record'.closedAt = e.observed
           ELSE record'.state = NextState(e) /\ record'.closedAt = record.closedAt
    BY <1>3, <1>9, <2>2, EvaluatedRecord
  <2>4. record'.state = "CLOSED" /\ record'.closedAt = record.closedAt
    BY <1>9, <2>3 DEF ClosesWith, NextState
  <2>5. StageInv'
    BY <1>2, <1>3, <1>4, <1>6, <1>9, <2>3, <2>4 DEF StageInv, Done, Stages, Before, Asking, Checked
  <2>6. StartedInv'
    BY <1>2, <1>3, <2>3 DEF Promotion, StartedInv, ActivationWindows
  <2>7. completed <= LastAt(record) /\ completed <= LastAt(record')
    BY <1>3, <1>6, <2>2, <2>3 DEF Promotion, AttachedInv, Recorded
  <2>8. AttachedInv'
    BY <1>2, <1>3, <1>4, <1>6, <1>9, <2>1, <2>3, <2>4, <2>7 DEF Promotion, AttachedInv
  <2> QED
    BY <1>3, <1>7, <2>5, <2>6, <2>8 DEF Promotion
<1> QED
  BY <1>5, <1>8, <1>9 DEF AttachFinal, Throw, Goto

\* The capture the incident was created at is one of the usable ones, and its
\* lag is no higher than the peak.
LEMMA PeakIsHighest ==
  ASSUME HistoryInv, started \in ActivationWindows
  PROVE  Max({Sample[captures[k]].kafka.lag : k \in Usable}) >= Sample[captures[started]].kafka.lag
<1>1. /\ captures \in AllHistories /\ IsSequence(captures)
      /\ Len(captures) \in Nat /\ DOMAIN captures = 1..Len(captures)
  BY OneOfAll, DomainOfAny DEF HistoryInv
<1>2. started \in 1..Len(captures) /\ CoreUsable(Bundles(captures)[started])
  BY <1>1, PresentIsMeasured DEF ActivationWindows
<1>3. Bundles(captures)[started] = BundleAt(started)
  BY <1>1, <1>2 DEF Bundles, BundleAt
<1>4. started \in Usable
  <2>1. PICK b : b = BundleAt(started)
    OBVIOUS
  <2>2. ReadableBundle(b) /\ CoreUsable(b)
    BY <1>2, <1>3, <2>1, CollectedIsReadable
  <2>3. KafkaQuality(b) /\ Measurement(b) # None
    BY <2>2, UsableIsMeasured, MeasuredIsThere
  <2>4. Sample[captures[started]].usable
    BY <1>2, <2>1, <2>3, SampleOf
  <2> QED
    BY <1>1, <1>2, <2>4 DEF Usable
<1>5. Usable \subseteq 1..Len(captures) /\ Usable # {}
  BY <1>1, <1>4 DEF Usable
<1> DEFINE f == [k \in 1..Len(captures) |-> Sample[captures[k]].kafka.lag]
<1>6. ASSUME NEW k \in Usable
      PROVE  f[k] \in Int
  <2>1. k \in 1..Len(captures) /\ Sample[captures[k]].usable
    BY <1>1 DEF Usable
  <2>2. PICK b : b = BundleAt(k)
    OBVIOUS
  <2>3. Sample[captures[k]].kafka = Measurement(b) /\ Measurement(b) # None /\ ReadableBundle(b)
    BY <2>1, <2>2, SampleOf, CollectedIsReadable
  <2>4. ~Anomalous(b)
    BY <2>3 DEF Measurement
  <2>5. Measurement(b).lag \in Int
    BY <2>3, <2>4, MeasuredIsThere
  <2> QED
    BY <2>1, <2>3, <2>5
<1>7. PICK S : S = {Sample[captures[k]].kafka.lag : k \in Usable}
  OBVIOUS
<1>8. S = {f[k] : k \in Usable}
  BY <1>5, <1>7
<1>9. f[started] = Sample[captures[started]].kafka.lag
  BY <1>2
<1> HIDE DEF f
<1>10. PICK k \in Usable : \A j \in Usable : f[k] >= f[j]
  <2>1. \A k \in Usable : f[k] \in Int
    BY <1>6
  <2>2. PICK n \in Nat : n = Len(captures)
    BY <1>1
  <2> QED
    BY <1>5, <2>1, <2>2, LargestExists
<1>11. \E x \in S : \A y \in S : x >= y
  BY <1>8, <1>10
<1>12. \A y \in S : Max(S) >= y
  BY <1>11 DEF Max
<1> QED
  BY <1>4, <1>7, <1>8, <1>9, <1>12

\* What is written as the verified incident.
LEMMA PromoteKeeps ==
  ASSUME Promotion, Promote
  PROVE  Promotion'
<1>1. /\ UNCHANGED <<record, load, captures, agentVars, started, completed, pending>>
      /\ stage = "write"
  BY DEF Promote
<1>2. UNCHANGED <<record, load, captures, started, completed, turn, diagnosis>>
  BY <1>1 DEF agentVars
<1>3. /\ load = "ended" /\ started # 0 /\ Ended /\ diagnosis # Undecided
      /\ record.state = "CLOSED" /\ record.diagnosis # None /\ canonical = None
  BY <1>1 DEF Promotion, StageInv, Done, Checked
<1>4. HistoryInv' /\ StartedInv' /\ DiagnosisTime' /\ AttachedInv'
  BY <1>2 DEF Promotion, HistoryInv, StartedInv, ActivationWindows, DiagnosisTime,
              AttachedInv, Ended, Alive, Closers, ClosingTime, Counts
<1>5. Ended'
  BY <1>2, <1>3 DEF Ended, Alive
<1>6. CASE stage' = "handler" /\ UNCHANGED canonical
  BY <1>2, <1>3, <1>4, <1>5, <1>6 DEF Promotion, StageInv, Done, Stages, Before, Asking, Checked,
     PendingInv, PromotedInv
<1>7. CASE /\ stage' = "finish"
           /\ canonical' = [incident |-> record,
                            peak |-> Max({Sample[captures[k]].kafka.lag : k \in Usable})]
  <2>1. StageInv' /\ PendingInv'
    BY <1>2, <1>3, <1>5, <1>7 DEF StageInv, Done, Stages, Before, Asking, Checked, PendingInv
  <2>2. Max({Sample[captures[k]].kafka.lag : k \in Usable}) >= Sample[captures[started]].kafka.lag
    BY <1>3, PeakIsHighest DEF Promotion, StartedInv
  <2>3. PICK peak : peak = Max({Sample[captures[k]].kafka.lag : k \in Usable})
    OBVIOUS
  <2>4. canonical'.incident = record' /\ canonical'.peak = peak
    BY <1>2, <1>7, <2>3
  <2>5. PromotedInv'
    BY <1>2, <2>2, <2>3, <2>4 DEF PromotedInv
  <2> QED
    BY <1>4, <2>1, <2>5 DEF Promotion
<1> QED
  BY <1>6, <1>7 DEF Promote, Throw, Goto

\* Every step of either script keeps this.
LEMMA PromotionStep ==
  ASSUME Promotion, [LabNext]_labVars
  PROVE  Promotion'
<1>1. CASE UNCHANGED vars
  <2>1. UNCHANGED kept /\ UNCHANGED <<stage, load, record, started, canonical, turn, diagnosis>>
    BY <1>1 DEF vars, kept, agentVars, scenarioVars
  <2>2. StageInv'
    BY <2>1 DEF Promotion, StageInv, Done, Ended, Alive
  <2> QED
    BY <2>1, <2>2, StageStep
<1>2. CASE Next
  <2>1. CASE MainStep
    <3>1. CASE ScenarioStep /\ OthersUnchanged
      BY <3>1, ScenarioKeeps
    <3>2. CASE \E c \in Collections(captures) : CaptureStep(c)
      BY <3>2, CaptureKeepsPromotion
    <3>3. CASE Preflight \/ QualityGate \/ JoinDiagnosis \/ CheckArtifacts \/ Complete \/ Handle
      BY <3>3, QuietKeeps
    <3>4. CASE EvaluateRecoveryPrefixes
      BY <3>4, EvaluationKeepsPromotion
    <3>5. CASE AttachNext
      BY <3>5, AttachNextKeeps
    <3>6. CASE AttachFinal
      BY <3>6, AttachFinalKeeps
    <3>7. CASE Promote
      BY <3>7, PromoteKeeps
    <3> QED
      BY <2>1, <3>1, <3>2, <3>3, <3>4, <3>5, <3>6, <3>7 DEF MainStep
  <2>2. CASE DiagnosisStep
    BY <2>2, DiagnosisKeepsPromotion
  <2>3. CASE Throws
    BY <2>3, QuietKeeps
  <2>4. CASE ScenarioEvent /\ OthersUnchanged
    BY <2>4, ScenarioKeeps
  <2> QED
    BY <1>2, <2>1, <2>2, <2>3, <2>4 DEF Next
<1> QED
  BY <1>1, <1>2 DEF LabNext, labVars

\* It holds at the beginning,
LEMMA PromotionStarts == LabInit => Promotion
<1> SUFFICES ASSUME LabInit PROVE Promotion
  OBVIOUS
<1>1. /\ stage = "preflight" /\ captures = << >> /\ load = "none"
      /\ diagnosis = Undecided /\ turn = "idle"
      /\ started = 0 /\ canonical = None
  BY DEF LabInit, Init, ScenarioInit, AgentInit
<1>2. IsSequence(captures) /\ Len(captures) = 0
  <2>1. << >> \in Seq({}) /\ Len(<< >>) = 0
    OBVIOUS
  <2> QED
    BY <1>1, <2>1, ElementsOfSequence
<1>3. Histories[0] = {<< >>} /\ 0 \in 0..Moments /\ 0 <= Moments
  <2>1. 0 \in 0..(Planned + Overtime)
    BY ScenarioAssumption
  <2>2. \A i \in 0..(Planned + Overtime) : Histories[i] = HistoryStep(Histories, i)
    BY HistoriesAre
  <2>3. Histories[0] = HistoryStep(Histories, 0)
    BY <2>1, <2>2
  <2>4. HistoryStep(Histories, 0) = {<< >>}
    BY DEF HistoryStep
  <2>5. 0 \in 0..Moments /\ 0 <= Moments
    BY ScenarioAssumption DEF Moments
  <2> QED
    BY <2>3, <2>4, <2>5
<1>4. HistoryInv
  BY <1>1, <1>2, <1>3 DEF HistoryInv
<1>5. StartedInv
  <2>1. ActivationWindows \subseteq 1..Len(captures)
    BY <1>2, <1>4, OneOfAll, PresentIsMeasured DEF ActivationWindows
  <2> QED
    BY <1>1, <1>2, <2>1 DEF StartedInv
<1> QED
  BY <1>1, <1>4, <1>5 DEF Promotion, StageInv, Done, Stages, Before, Asking, Checked,
     DiagnosisTime, AttachedInv, PendingInv, PromotedInv

\* and a verified incident can then be derived again.
LEMMA PromotionSuffices == Promotion => PromotedIsReplayable
<1> SUFFICES ASSUME Promotion, canonical # None
             PROVE  /\ started = Min(ActivationWindows)
                    /\ canonical.incident.activation.id = started
                    /\ canonical.peak >= Sample[captures[started]].kafka.lag
                    /\ Counts("RECOVERED", BOOLEAN) # {}
                    /\ canonical.incident.closedAt
                         = captures[started + Min(Counts("RECOVERED", BOOLEAN))].at
                    /\ canonical.incident.diagnosis # None
                    /\ completed < canonical.incident.closedAt
                    /\ load = "ended"
  BY DEF PromotedIsReplayable
<1>1. /\ load = "ended" /\ started # 0 /\ diagnosis # Undecided
      /\ record.state = "CLOSED" /\ record.diagnosis # None
      /\ canonical.incident = record /\ canonical.peak >= Sample[captures[started]].kafka.lag
  BY DEF Promotion, StageInv, Done, PromotedInv
<1>2. /\ HistoryInv /\ started \in ActivationWindows /\ \A k \in ActivationWindows : started <= k
      /\ record.activation.id = started
  BY <1>1 DEF Promotion, StartedInv
<1>3. /\ IsSequence(captures) /\ captures \in AllHistories /\ Len(captures) \in Nat
      /\ started \in 1..Len(captures) /\ ActivationWindows \subseteq 1..Len(captures)
  BY <1>2, OneOfAll, PresentIsMeasured, DomainOfAny DEF HistoryInv, ActivationWindows
<1>4. started = Min(ActivationWindows)
  <2>1. PICK W : W = ActivationWindows
    OBVIOUS
  <2>2. W \subseteq Nat /\ W # {} /\ started \in W /\ \A k \in W : started <= k
    BY <1>2, <1>3, <2>1
  <2>3. Min(W) \in W /\ \A k \in W : Min(W) <= k
    BY <2>2, SmallestIsMin
  <2>4. started <= Min(W) /\ Min(W) <= started /\ Min(W) \in Nat /\ started \in Nat
    BY <2>2, <2>3
  <2>5. started = Min(W)
    BY ONLY <2>4
  <2> QED
    BY <2>1, <2>5
<1>5. Closers # {} /\ record.closedAt = ClosingTime /\ completed <= record.closedAt
  BY <1>1 DEF Promotion, AttachedInv
<1>6. Closers = Counts("RECOVERED", BOOLEAN)
  BY <1>2, RecoveredIsAsked DEF Closers
<1>7. completed < record.closedAt
  <2>1. PICK n \in Nat : completed = Cadence * n + 1
    BY <1>1 DEF Promotion, DiagnosisTime
  <2>2. Min(Closers) \in Closers
    BY <1>2, <1>5, CountsAre, SmallestIsMin DEF Closers
  <2>3. PICK c \in 1..(Len(captures) - started) : c = Min(Closers)
    BY <1>2, <2>2, CountsAre DEF Closers
  <2>4. PICK m \in Nat : m = started + c /\ m \in 1..Len(captures)
    BY <1>3
  <2>5. record.closedAt = Cadence * m
    BY <1>2, <1>5, <2>3, <2>4 DEF ClosingTime, HistoryInv
  <2>6. PICK d \in Nat \ {0, 1} : d = Cadence
    BY ScenarioAssumption
  <2>7. d * n + 1 <= d * m
    BY <1>5, <2>1, <2>5, <2>6
  <2>8. d * n + 1 # d * m
    <3>1. CASE m <= n
      <4>1. d * m <= d * n
        BY ONLY <3>1, d \in Nat, m \in Nat, n \in Nat
      <4>2. d * m \in Int /\ d * n \in Int
        BY ONLY d \in Nat, m \in Nat, n \in Nat
      <4> QED
        BY ONLY <2>7, <4>1, <4>2
    <3>2. CASE m >= n + 1
      <4>1. PICK r \in Nat : m = n + 1 + r
        <5>1. m - n - 1 \in Nat /\ m = n + 1 + (m - n - 1)
          BY ONLY <3>2, m \in Nat, n \in Nat
        <5> QED
          BY <5>1
      <4>2. d * m = d * n + d + d * r
        BY ONLY <4>1, d \in Nat, n \in Nat, r \in Nat
      <4>3. d * r \in Nat /\ d * n \in Nat
        BY ONLY d \in Nat, r \in Nat, n \in Nat
      <4> QED
        BY ONLY <4>2, <4>3, d \in Nat \ {0, 1}
    <3> QED
      BY <3>1, <3>2
  <2>9. d * n + 1 \in Int /\ d * m \in Int
    BY ONLY d \in Nat \ {0, 1}, m \in Nat, n \in Nat
  <2>10. d * n + 1 < d * m
    BY ONLY <2>7, <2>8, <2>9
  <2> QED
    BY <2>1, <2>5, <2>6, <2>10
<1> QED
  BY <1>1, <1>2, <1>4, <1>5, <1>6, <1>7 DEF ClosingTime

\* What write_canonical_incident writes as a verified incident can be derived
\* again from the captures, for any load profile, collections, faults, answers of
\* the model and limits: the window on_capture took is the first, the incident
\* closed with the first of all prefixes that recovered although
\* _evaluate_recovery_prefixes asks of some only, after the diagnosis was complete
\* and the load had ended.
THEOREM PromotionReplayable == LabSpec => []PromotedIsReplayable
<1>1. Promotion /\ [LabNext]_labVars => Promotion'
  BY PromotionStep
<1> QED
  BY <1>1, PromotionStarts, PromotionSuffices, PTL DEF LabSpec

-----------------------------------------------------------------------------
(* What the closing of a verified incident means.                          *)

Activated == ActivationOf(Bundles(captures), started)

Prefix(c) == SubSeq(Bundles(Since), 1, c)

SettledAfter(c) == SettledAtEnd(Observe(Activated, Prefix(c)))

\* The captures of the prefix an incident closed with all belong to its
\* activation, their end is settled, and no shorter prefix ended so.
ClosedWhenSettled ==
  canonical # None =>
    \E c \in 1..(Len(captures) - started) :
      /\ canonical.incident.closedAt = captures[started + c].at
      /\ Belong(Activated, Prefix(c)) /\ SettledAfter(c)
      /\ \A d \in 1..(c - 1) : ~SettledAfter(d)

\* A prefix is counted as recovered when its end is settled.
LEMMA RecoveredPrefixes ==
  ASSUME HistoryInv, started \in ActivationWindows, NEW c \in 1..(Len(captures) - started)
  PROVE  /\ c \in Closers <=> SettledAfter(c)
         /\ SettledAfter(c) => Belong(Activated, Prefix(c))
<1>1. started \in 1..Len(captures) /\ Len(captures) \in Nat
  BY OneOfAll, PresentIsMeasured, DomainOfAny DEF HistoryInv, ActivationWindows
<1>2. Len(Prefix(c)) \in Nat \ {0}
  <2>1. c \in Nat \ {0} /\ 1 <= c + 1
    BY <1>1
  <2>2. Len(Prefix(c)) = c - 1 + 1
    BY <2>1, PartOf DEF Prefix
  <2> QED
    BY <2>1, <2>2
<1>3. PICK part, activation : part = Prefix(c) /\ activation = Activated
  OBVIOUS
<1>4. EvaluateRecovery(activation, part, "v2") = "RECOVERED" <=> SettledAfter(c)
  BY <1>2, <1>3, RecoveredMeansSettled DEF SettledAfter
<1>5. EvaluateRecovery(activation, part, "v2") = "RECOVERED" => Belong(activation, part)
  <2>1. "v2" \in Policies
    BY DEF Policies
  <2> QED
    BY <1>2, <1>3, <2>1, JudgedMeansBelonging
<1>6. \A v \in Verdict : v.count = c => v.state = EvaluateRecovery(activation, part, "v2")
  BY <1>3, VerdictIs DEF Prefix, Activated
<1>7. Closers = Counts("RECOVERED", BOOLEAN)
  BY RecoveredIsAsked DEF Closers
<1>8. \A v \in Verdict : v.asked \in BOOLEAN
  BY VerdictIs
<1>9. c \in Closers <=> \E v \in Verdict : v.state = "RECOVERED" /\ v.count = c
  BY <1>7, <1>8 DEF Counts, Verdict
<1>10. PICK v \in Verdict : v.count = c
  BY EachPrefix
<1>11. c \in Closers <=> EvaluateRecovery(activation, part, "v2") = "RECOVERED"
  BY <1>6, <1>9, <1>10
<1> QED
  BY <1>3, <1>4, <1>5, <1>11

\* A verified incident closed with the first capture after which the evaluator's
\* samples were settled, and all captures up to it belong to the activation that
\* on_capture took: not only did some evaluation say RECOVERED, the samples did.
THEOREM PromotionSettled == LabSpec => []ClosedWhenSettled
<1>1. Promotion => ClosedWhenSettled
  <2> SUFFICES ASSUME Promotion, canonical # None
               PROVE  \E c \in 1..(Len(captures) - started) :
                        /\ canonical.incident.closedAt = captures[started + c].at
                        /\ Belong(Activated, Prefix(c)) /\ SettledAfter(c)
                        /\ \A d \in 1..(c - 1) : ~SettledAfter(d)
    BY DEF ClosedWhenSettled
  <2>1. /\ started # 0 /\ record.state = "CLOSED" /\ canonical.incident = record
    BY DEF Promotion, StageInv, Done, PromotedInv
  <2>2. HistoryInv /\ started \in ActivationWindows
    BY <2>1 DEF Promotion, StartedInv
  <2>3. Closers # {} /\ record.closedAt = ClosingTime
    BY <2>1 DEF Promotion, AttachedInv
  <2>4. Closers \subseteq Nat /\ Closers \subseteq 1..(Len(captures) - started)
    BY <2>2, CountsAre DEF Closers
  <2>5. PICK c \in Closers : c = Min(Closers) /\ \A d \in Closers : c <= d
    BY <2>3, <2>4, SmallestIsMin
  <2>6. c \in 1..(Len(captures) - started) /\ Belong(Activated, Prefix(c)) /\ SettledAfter(c)
    BY <2>2, <2>4, <2>5, RecoveredPrefixes
  <2>7. ASSUME NEW d \in 1..(c - 1), SettledAfter(d)
        PROVE  FALSE
    <3>1. Len(captures) - started \in Int
      BY <2>2, OneOfAll, PresentIsMeasured, DomainOfAny DEF HistoryInv, ActivationWindows
    <3>2. d \in 1..(Len(captures) - started) /\ d < c
      BY <2>6, <3>1
    <3>3. d \in Closers
      BY <2>2, <2>7, <3>2, RecoveredPrefixes
    <3> QED
      BY <2>4, <2>5, <3>2, <3>3
  <2>8. canonical.incident.closedAt = captures[started + c].at
    BY <2>1, <2>3, <2>5 DEF ClosingTime
  <2> QED
    BY <2>6, <2>7, <2>8
<1>2. Promotion /\ [LabNext]_labVars => Promotion'
  BY PromotionStep
<1> QED
  BY <1>1, <1>2, PromotionStarts, PTL DEF LabSpec
=============================================================================

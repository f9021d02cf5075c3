--------------------------- MODULE DiagnosisAgent ---------------------------
(***************************************************************************)
(* ops_agent/diagnosis_agent.py with its client, tools and validator: a    *)
(* language model is asked turn by turn, may use each read-only tool once, *)
(* and its answer counts only if the validator accepts it, at the first    *)
(* attempt or after one repair.                                            *)
(*                                                                         *)
(* The model may answer anything its schema allows.  A hypothesis is       *)
(*   [name, status, forbidden, supporting, conflicting, gaps]              *)
(* with name "cause" standing for the four causes, forbidden for a text    *)
(* that names a condition, a recovery or an action, and gaps a set.  A     *)
(* decision is [hypotheses, stop].  The evidence a tool returns bears the  *)
(* tool's name.                                                            *)
(***************************************************************************)
EXTENDS Integers, SequencesExt

CONSTANTS
  Undecided,      \* in place of a decision or a diagnosis that is not there
  Tools,          \* the allowlisted tools
  ForbiddenNames, \* names the model may ask for that are forbidden words too
  OtherNames,     \* and names that are no tools
  Initial,        \* evidence ids known from the activation
  Answers,        \* decisions the model may give
  MaxSteps, MaxToolCalls, MaxRetries, MaxOutputRepairs   \* the policy

ASSUME PolicyAssumption ==
  /\ {MaxSteps, MaxToolCalls} \subseteq 1..8 /\ MaxToolCalls <= MaxSteps
  /\ MaxRetries \in 0..2 /\ MaxOutputRepairs \in 0..1

\* an answer that names another cause is outside the schema
ASSUME AnswersAssumption ==
  \A d \in Answers : \A h \in Range(d.hypotheses) :
    h.name \in {"cause", "rebalance", "insufficient"}

VARIABLES
  turn,       \* "idle", "ask", "judge", "repair", "done", "failed"
  steps,      \* the tools that were executed, in order
  attempts,   \* failed attempts of the request in flight
  requests,   \* answered requests
  decision,   \* Undecided, or the decision to validate
              \* (these four are gone when run_diagnosis returns or raises)
  diagnosis   \* Undecided, or what run_diagnosis returned

agentVars == <<turn, steps, attempts, requests, decision, diagnosis>>

Names == Tools \cup ForbiddenNames \cup OtherNames

AgentInit ==
  /\ turn = "idle" /\ steps = << >> /\ attempts = 0 /\ requests = 0
  /\ decision = Undecided /\ diagnosis = Undecided

\* the thread with an activation that is PRESENT starts the loop
StartDiagnosis ==
  /\ turn' = "ask"
  /\ UNCHANGED <<steps, attempts, requests, decision, diagnosis>>

Raise ==
  /\ turn' = "failed"
  /\ steps' = << >> /\ attempts' = 0 /\ requests' = 0 /\ decision' = Undecided
  /\ UNCHANGED diagnosis

\* the artifact of a run, with the results of its validations in order
Run(d, answered, results) ==
  [decision |-> d, steps |-> steps, requests |-> answered, validations |-> results]

\* DiagnosisRun.validate_run
RunIsValid(run) ==
  LET repairs == Len(run.validations) - 1
  IN  /\ Len(run.steps) <= MaxSteps /\ Len(run.steps) <= MaxToolCalls
      /\ repairs \in 0..MaxOutputRepairs
      /\ Last(run.validations) = "VALID"
      /\ repairs > 0 => run.validations[1] = "INVALID"

Return(run) ==
  IF ~RunIsValid(run) THEN Raise
  ELSE /\ turn' = "done"
       /\ steps' = << >> /\ attempts' = 0 /\ requests' = 0 /\ decision' = Undecided
       /\ diagnosis' = run

Alive == turn \in {"ask", "judge", "repair"}

\* mutant: the caller waits for a result instead of the end of the thread
Ended_Result == turn \in {"idle", "done"}

Ended == ~Alive

-----------------------------------------------------------------------------
(* One HTTP request and its retries                                        *)

\* a status of the retriable ones, a timeout or an unreadable body
RetryRequest ==
  /\ turn \in {"ask", "repair"} /\ attempts < MaxRetries
  /\ attempts' = attempts + 1
  /\ UNCHANGED <<turn, steps, requests, decision, diagnosis>>

\* the last attempt, another status, or no quota left
RequestFails ==
  /\ turn \in {"ask", "repair"}
  /\ Raise

Answered == attempts' = 0 /\ requests' = requests + 1

-----------------------------------------------------------------------------
(* The loop                                                                *)

Offered == IF Len(steps) < MaxToolCalls THEN Tools \ Range(steps) ELSE {}

\* what the agent says in the model's place when the loop has to end
Fallback(stop, forbidden) ==
  [hypotheses |-> <<[name |-> "insufficient", status |-> "INSUFFICIENT", forbidden |-> forbidden,
                     supporting |-> {}, conflicting |-> {}, gaps |-> {stop}]>>,
   stop |-> stop]

Judge(d) ==
  /\ decision' = d /\ turn' = "judge" /\ Answered
  /\ UNCHANGED <<steps, diagnosis>>

\* a call that comes when no tool was offered
CallBeyondBudget ==
  /\ turn = "ask"
  /\ Len(steps) >= MaxSteps \/ Offered = {}
  /\ Judge(Fallback("step_budget_exhausted", FALSE))

ExecuteTool(name) ==
  /\ turn = "ask" /\ Len(steps) < MaxSteps
  /\ name \in Offered
  /\ steps' = Append(steps, name)
  /\ Answered
  /\ UNCHANGED <<turn, decision, diagnosis>>

\* not allowlisted, called before, or an exception in the tool; the name the
\* model chose becomes the text of the gap
ToolFails(name) ==
  /\ turn = "ask" /\ Len(steps) < MaxSteps /\ Offered # {}
  /\ Judge(Fallback("tool_error", name \in ForbiddenNames))

Decide(d) == turn = "ask" /\ Judge(d)

\* two calls at once, arguments, no text, or text outside the schema
BadAnswer == turn = "ask" /\ Raise

-----------------------------------------------------------------------------
(* DiagnosisOutputValidator                                                *)

\* mutant: a citation of any tool passes, whether it was called or not
KnownIds_AnyTool == Initial \cup Tools

KnownIds == Initial \cup Range(steps)

Cited(h) == h.supporting \cup h.conflicting

\* whichever of the broken rules is the error that is reported
HypothesisRules(h) ==
  {[code |-> "FORBIDDEN_DIAGNOSIS_CLAIM", broken |-> h.forbidden],
    [code |-> "UNKNOWN_EVIDENCE_CITATION", broken |-> ~(Cited(h) \subseteq KnownIds)],
    [code |-> "SUPPORTED_REQUIRES_SUPPORTING_CITATION",
     broken |-> h.status = "SUPPORTED" /\ h.supporting = {}],
    [code |-> "CONFLICTED_REQUIRES_BOTH_CITATION_SIDES",
     broken |-> h.status = "CONFLICTED" /\ {} \in {h.supporting, h.conflicting}],
    [code |-> "INSUFFICIENT_REQUIRES_EVIDENCE_GAP",
     broken |-> h.status = "INSUFFICIENT" /\ h.gaps = {}],
    [code |-> "REBALANCE_TELEMETRY_UNAVAILABLE",
     broken |-> h.name = "rebalance" /\ h.status # "INSUFFICIENT"],
    [code |-> "REBALANCE_CITATIONS_FORBIDDEN", broken |-> h.name = "rebalance" /\ Cited(h) # {}],
    [code |-> "REBALANCE_GAP_REQUIRED",
     broken |-> h.name = "rebalance" /\ "telemetry_unavailable" \notin h.gaps]}

SupportedCause(d) ==
  \E k \in DOMAIN d.hypotheses :
    d.hypotheses[k].name # "insufficient" /\ d.hypotheses[k].status = "SUPPORTED"

StopRules(d) ==
  {[code |-> "SUFFICIENT_STOP_REQUIRES_SUPPORTED_CAUSE",
     broken |-> d.stop = "sufficient_evidence" /\ ~SupportedCause(d)],
    [code |-> "INSUFFICIENT_STOP_CONFLICTS_WITH_SUPPORTED_CAUSE",
     broken |-> d.stop = "insufficient_evidence" /\ SupportedCause(d)],
    [code |-> "STEP_BUDGET_STOP_REQUIRES_FULL_BUDGET",
     broken |-> d.stop = "step_budget_exhausted" /\ Len(steps) # MaxSteps]}

BrokenRules(d) ==
  {r \in (UNION {HypothesisRules(h) : h \in Range(d.hypotheses)}) \cup StopRules(d) : r.broken}

Valid(d) == BrokenRules(d) = {}

\* every one of these errors is repairable; the rules about the trace hold
\* for every trace the loop records
Repairable(d) == ~Valid(d) /\ MaxOutputRepairs > 0

\* one more request without tools: the history, the decision and the rule it
\* broke, the evidence it may cite
AskForRepair ==
  turn' = "repair" /\ UNCHANGED <<steps, attempts, requests, decision, diagnosis>>

Validate ==
  /\ turn = "judge"
  /\ IF Valid(decision) THEN Return(Run(decision, requests, <<"VALID">>))
     ELSE IF Repairable(decision) THEN AskForRepair
     ELSE Raise

\* a response without an id cannot be named by its validation attempt
Unnamed == turn = "judge" /\ Raise

Repair(d) ==
  /\ turn = "repair"
  /\ IF Valid(d) THEN Return(Run(d, requests + 1, <<"INVALID", "VALID">>)) ELSE Raise

\* a tool call, no text, or text outside the schema
BadRepair == turn = "repair" /\ Raise

AgentStep ==
  \/ RetryRequest \/ RequestFails \/ CallBeyondBudget \/ BadAnswer
  \/ \E name \in Names : ExecuteTool(name) \/ ToolFails(name)
  \/ \E d \in Answers : Decide(d) \/ Repair(d)
  \/ Validate \/ Unnamed \/ BadRepair

-----------------------------------------------------------------------------
(* A diagnosis the agent returns cites nothing but the activation's        *)
(* evidence and what its own tool calls returned, claims sufficient        *)
(* evidence exactly for a cause it supports by such a citation, took each  *)
(* tool once and no more of them than the budget, and counts one answered  *)
(* request for each of its calls and one for each validation; whatever the *)
(* model says and whichever request is repeated (run_diagnosis,            *)
(* DiagnosisOutputValidator, DiagnosisRun).                                *)
DiagnosisIsGrounded ==
  diagnosis # Undecided =>
    LET d == diagnosis.decision
        hs == Range(d.hypotheses)
    IN  /\ \A h \in hs : Cited(h) \subseteq Initial \cup Range(diagnosis.steps)
        /\ d.stop = "sufficient_evidence" =>
             \E h \in hs : /\ h.name = "cause" /\ h.status = "SUPPORTED"
                           /\ h.supporting # {}
        /\ \A h \in hs : ~h.forbidden
        /\ IsInjective(diagnosis.steps) /\ Len(diagnosis.steps) <= MaxToolCalls
        /\ diagnosis.requests = Len(diagnosis.steps) + Len(diagnosis.validations)
=============================================================================

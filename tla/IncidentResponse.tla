-------------------------- MODULE IncidentResponse --------------------------
(***************************************************************************)
(* One backlog incident from its first captures to its closure: collection *)
(* of evidence bundles, activation by the sequence rules, the record of    *)
(* the incident, the diagnosis that runs beside it, and the recovery       *)
(* evaluations whose results are attached to it.                           *)
(*                                                                         *)
(* Every evaluation reads bundles from files, so it may be made over any   *)
(* of the captures, at any time and more than once, and its artifact may   *)
(* reach the record in any order (ops_agent/cli.py; the order the labs use *)
(* is one of these).  The state holds what was read and when; Evidence     *)
(* gives the bundle that this makes.                                       *)
(***************************************************************************)
EXTENDS IncidentLifecycle

CONSTANTS
  Before, After,    \* what a collection may find before the incident is
                    \* recorded, and after
  Disturbed,        \* those of them that count as a fault
  Evidence(_, _),   \* Evidence(reading, at): the bundle collected at that time
  Pauses,           \* times between two collections
  Usual,            \* the configured one
  Diagnoses,        \* ids of diagnosis runs
  MaxCaptures,      \* bound: collections
  MaxFaults,        \* bound: disturbed readings, unusual pauses, evaluations
                    \* of a part of the captures or under policy v1
  MaxAttached       \* bound: recovery evaluations in the record

ASSUME ResponseAssumption ==
  /\ None \notin Diagnoses
  /\ Pauses \subseteq Nat

VARIABLES
  captures,  \* the collections so far: [reading, at]
  faults     \* disturbances so far

vars == <<record, captures, faults>>

Now == IF captures = << >> THEN 0 ELSE Last(captures).at

Bundles(order) ==
  [k \in DOMAIN order |-> Evidence(captures[order[k]].reading, captures[order[k]].at)]

Span(from, to) == [k \in 1..(to - from + 1) |-> from + k - 1]

Activation(from, to) ==
  LET bs == Bundles(Span(from, to))
      evaluation == SequenceEvaluation(bs)
  IN  [id |-> <<from, to>>,
       present |-> evaluation # None /\ evaluation.core = "PRESENT",
       incident |-> Last(bs).incident,
       incidents |-> {bs[k].incident : k \in DOMAIN bs},
       identity |-> SourceIdentity(Last(bs)),
       completed |-> Last(bs).completed,
       stamp |-> KafkaStamp(Last(bs))]

\* an evaluation over the captures from..to with the one at gap left out
\* (none when gap lies outside)
Order(from, to, gap) ==
  IF gap \in from..to THEN Span(from, gap - 1) \o Span(gap + 1, to) ELSE Span(from, to)

Evaluation(order, policy) ==
  LET bs == Bundles(order)
  IN  Artifact(<<order, policy>>, record.activation, policy,
               EvaluateRecovery(record.activation, bs, policy), Last(bs).completed)

Init ==
  /\ record = None
  /\ captures = << >>
  /\ faults = 0

\* cli.run_collect; a capture beyond ActivationCount + 1 is of use to an open
\* or closed incident only (bound)
Collect(reading, pause) ==
  /\ reading \in IF record = None THEN Before ELSE After
  /\ Len(captures) < IF record = None THEN ActivationCount + 1 ELSE MaxCaptures
  /\ faults' = faults + (IF reading \in Disturbed THEN 1 ELSE 0)
                      + (IF pause # Usual THEN 1 ELSE 0)
  /\ faults' <= MaxFaults
  /\ captures' = Append(captures, [reading |-> reading, at |-> Now + pause])
  /\ UNCHANGED record

\* cli.run_evaluate_sequence and run_build_incident
Create(from, to) ==
  /\ CreateIncident(Activation(from, to))
  /\ UNCHANGED <<captures, faults>>

\* cli.run_update_incident with a diagnosis: a run over the activation ends
\* after one of the captures, valid or not, and is attached now or later
UpdateDiagnosis(d, valid, k) ==
  /\ AttachDiagnosis([id |-> d, activation |-> record.activation.id,
                      valid |-> valid, completed |-> captures[k].at])
  /\ UNCHANGED <<captures, faults>>

First == record.activation.id[2]   \* the last capture of the activation

\* all captures since the activation up to one
Regular == {Span(First + 1, to) : to \in First + 1..Len(captures)}

\* one of them left out, or the activation's last capture taken in
Irregular ==
  {Order(First + 1, to, gap) : to, gap \in First + 1..Len(captures)}
    \cup {Span(First, to) : to \in First..Len(captures)}

\* cli.run_evaluate_recovery and run_update_incident with its result
UpdateRecovery(order, policy) ==
  /\ order # << >>
  /\ Len(record.evaluations) < MaxAttached
  /\ faults' = faults + (IF order \in Regular THEN 0 ELSE 1) + (IF policy = "v2" THEN 0 ELSE 1)
  /\ faults' <= MaxFaults
  /\ AttachRecovery(Evaluation(order, policy))
  /\ UNCHANGED captures

Next ==
  \/ \E reading \in Before \cup After, pause \in Pauses : Collect(reading, pause)
  \/ \E from, to \in DOMAIN captures : from <= to /\ Create(from, to)
  \/ record # None /\ \E d \in Diagnoses, valid \in BOOLEAN, k \in {First, Len(captures)} : UpdateDiagnosis(d, valid, k)
  \/ record # None /\ \E order \in Regular \cup Irregular, policy \in Policies : UpdateRecovery(order, policy)

Spec == Init /\ [][Next]_vars

-----------------------------------------------------------------------------
\* What is recorded of a closed incident stays: later observations are added to
\* it (attach_recovery_evaluation with a closed record), but neither its outcome
\* nor its diagnosis nor its past changes, and it is not opened again.
ClosedIsFinal ==
  [][ record # None /\ record.state = "CLOSED" =>
        /\ record'.state = "CLOSED"
        /\ record'.outcome = record.outcome
        /\ record'.closedAt = record.closedAt
        /\ record'.diagnosis = record.diagnosis
        /\ \A k \in DOMAIN record.timeline :
             k \in DOMAIN record'.timeline /\ record'.timeline[k] = record.timeline[k] ]_vars

\* The record shows the newest of the observations attached to it, whatever the
\* order their artifacts arrived in (current_observation).
CurrentIsNewest ==
  record # None => \A k \in DOMAIN record.evaluations :
                     record.evaluations[k].observed <= record.current.observed
=============================================================================

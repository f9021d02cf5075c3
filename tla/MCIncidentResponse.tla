------------------------- MODULE MCIncidentResponse -------------------------
(***************************************************************************)
(* A small instance of IncidentResponse with the bundles of MCEvidence and *)
(* windows of two captures instead of three.                               *)
(***************************************************************************)
EXTENDS IncidentResponse, MCEvidence

\* of the faults, those that may break an activation, and a recovery
MCBefore    == {"growth", "drain", "partial", "stale", "lagging", "foreign", "reset"}
MCAfter     == {"drain", "steady", "regrowth", "unscraped", "lagging", "foreign",
                "reset", "unready", "endless"}
MCDisturbed == {"regrowth"} \cup Faulty

-----------------------------------------------------------------------------
(* The same two judgements, told from what was read instead of from the    *)
(* bundles.                                                                *)

At(k)    == captures[k].at
Read(k)  == captures[k].reading
Stamp(k) == At(k) - (IF Read(k) = "lagging" THEN 1 ELSE 0)

\* readings one capture can be counted with; of the faulty ones the lagging one
\* is good evidence, and so is a reset that no earlier capture tells from a
\* normal reading (the activation's offsets are not kept)
Falls(k)   == Read(k) \in {"drain", "lagging", "reset"}
Settled(k) == Read(k) \in {"steady", "lagging", "reset"}
Apart(j, k) == Stamp(k) - Stamp(j) \in MinInterval..MaxInterval

\* readings that spoil whatever follows in the same evaluation: another
\* exporter or none, no endpoint, offsets that went back, and a partition
\* that was away once others were seen
Spoils(order, k) ==
  \/ Read(order[k]) \in {"foreign", "unscraped", "endless"}
  \/ Read(order[k]) = "reset" /\ k > 1
  \/ Read(order[k]) = "partial" /\ k < Len(order)

\* the backlog fell in two captures in a row, then every capture to the last
\* was settled, at least two of them, and nothing spoilt the evaluation
Sustained(order) ==
  LET n == Len(order)
      Good(k) == /\ Falls(order[k]) \/ Settled(order[k])
                 /\ Apart(IF k = 1 THEN First ELSE order[k-1], order[k])
  IN  /\ order[1] > First
      /\ \A k \in 1..n : ~Spoils(order, k)
      /\ \E k \in 2..(n - 1) :
           /\ Good(k-1) /\ Good(k) /\ Falls(order[k-1]) /\ Falls(order[k])
      /\ n >= 3 /\ \A k \in {n - 1, n} : Good(k) /\ Settled(order[k])

\* An evaluation says RECOVERED exactly when the backlog fell and then stayed
\* settled without a gap up to its last capture (evaluate_recovery): never
\* across a gap, another source or a reset, and a healed gap does not hide it.
\* An evaluation reads the activation of the record and nothing else of it, and
\* captures before the newest were judged when they were the newest.
RecoveredIffSustained ==
  record # None /\ record.diagnosis = None /\ record.evaluations = << >> =>
    \A order \in (Regular \cup Irregular) \ {<< >>} :
      Last(order) = Len(captures) =>
        ((Evaluation(order, "v2").state = "RECOVERED") <=> Sustained(order))

\* readings the activation rules can use; they read the exporter alone
Counts(k) == Read(k) \in {"growth", "drain", "lagging", "reset", "unready", "endless"}

Grew(from, to) ==
  /\ \A k \in from..to : Counts(k)
  /\ \A k \in from..to : k > from => Stamp(k) > Stamp(k-1)
  /\ \E k \in from + 1..to : Read(k-1) = "growth" /\ Read(k) = "growth"

\* An activation is PRESENT exactly when two captures in a row show a growing
\* backlog and every capture of the sequence is good evidence of one source
\* (evaluate_bundle_sequence).
ActivatedIffGrowing ==
  record = None =>
    \A from \in DOMAIN captures :
      LET to == Len(captures) IN Activation(from, to).present <=> Grew(from, to)
=============================================================================

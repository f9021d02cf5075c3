------------------------- MODULE ConditionEvaluator -------------------------
(***************************************************************************)
(* The single-bundle rules of ops_agent/evaluator.py for the two Kafka     *)
(* conditions, and the measurements ops_agent/calibration.py takes from    *)
(* the same bundle.  Pure operators: a bundle is frozen evidence.          *)
(*                                                                         *)
(* A bundle is a record                                                    *)
(*   inScope               profile, context, namespace, topic, consumer    *)
(*                         group and policy version are the policy's       *)
(*   incident              its incident id                                 *)
(*   started, completed    when the collection began and ended             *)
(*   prometheus, application   the sets of their endpoint identity items,  *)
(*                         [status, freshness, contract, identity]         *)
(*   end, committed, lag   the sets of items of the three Kafka metrics    *)
(*   readiness             the sets of items of the two /health/ready      *)
(*                         metrics, see RecoveryEvaluator                  *)
(* and a Kafka item is a record                                            *)
(*   status, freshness     as collected                                    *)
(*   contract              every selector, label, freshness bound, raw     *)
(*                         reference, coverage and flag check holds        *)
(*   partition, exporter   its labels (job and instance are one identity)  *)
(*   stamp                 the exporter's own timestamp, or None           *)
(*   grid                  the times of its range samples                  *)
(*   samples               the values at those times                       *)
(***************************************************************************)
EXTENDS Integers, SequencesExt

CONSTANTS
  Partitions,   \* the partitions the policy expects (8 in the code)
  SampleCount,  \* samples of one range query (13 in the code)
  SourceAge,    \* how far the exporter's stamp may lie before the range's end
  None          \* a value that is not there

ASSUME EvidenceAssumption ==
  /\ SampleCount \in Nat \ {0, 1} /\ SourceAge \in Nat
  /\ IsFiniteSet(Partitions)

Families(b) == <<b.end, b.committed, b.lag>>

-----------------------------------------------------------------------------
(* One item, one dependency, one metric family                             *)

ItemUsable(i) ==
  i.status = "OK" /\ i.freshness = "FRESH" /\ i.contract /\ i.stamp # None

\* a dependency blocks its condition when it has no item or one bad item
DependencyUsable(items) == items # {} /\ \A i \in items : ItemUsable(i)

\* a full grid, no negative value (-1 is an uninitialised committed offset),
\* sampled when it was collected, and no older than the bundle allows
SeriesUsable(b, i, monotonic) ==
  /\ Len(i.samples) = SampleCount /\ Len(i.grid) = SampleCount
  /\ \A k \in 1..SampleCount : i.samples[k] >= 0
  /\ Last(i.grid) \in b.started..b.completed
  /\ Last(i.grid) - i.stamp \in 0..SourceAge
  /\ monotonic => \A k \in 2..SampleCount : i.samples[k-1] <= i.samples[k]

One(S) == Cardinality(S) = 1

Exporters(items) == {i.exporter : i \in items}
Stamps(items)    == {i.stamp : i \in items} \ {None}

\* every expected partition exactly once, from one exporter and one scrape
FamilyUsable(b, items, monotonic) ==
  /\ DependencyUsable(items)
  /\ \A i \in items : SeriesUsable(b, i, monotonic)
  /\ {i.partition : i \in items} = Partitions
  /\ Cardinality(items) = Cardinality(Partitions)
  /\ One(Exporters(items)) /\ One(Stamps(items)) /\ One({i.grid : i \in items})

Item(items, p) == CHOOSE i \in items : i.partition = p

LagIsDifference(b, p) ==
  \A k \in 1..SampleCount :
    Item(b.lag, p).samples[k] = Item(b.end, p).samples[k] - Item(b.committed, p).samples[k]

CoreUsable(b) ==
  /\ FamilyUsable(b, b.end, TRUE)
  /\ FamilyUsable(b, b.committed, TRUE)
  /\ FamilyUsable(b, b.lag, FALSE)
  /\ LET all == b.end \cup b.committed \cup b.lag
     IN  One(Exporters(all)) /\ One(Stamps(all)) /\ One({i.grid : i \in all})
  /\ \A p \in Partitions : LagIsDifference(b, p)

AllZero(items) == \A i \in items : \A k \in 1..Len(i.samples) : i.samples[k] = 0

\* one bundle shows a backlog but never pressure: PRESENT needs a sequence
CoreState(b) ==
  IF CoreUsable(b) /\ AllZero(b.lag) THEN "ABSENT" ELSE "UNKNOWN"

\* the share of one partition has no calibrated bound either
ConcentrationState(b) ==
  IF FamilyUsable(b, b.lag, FALSE) /\ AllZero(b.lag) THEN "ABSENT" ELSE "UNKNOWN"

\* NO_BACKLOG_PRESSURE_DETECTED, from the states of these two conditions
Assessment(states) ==
  IF states = {"ABSENT"} THEN "PRESENT"
  ELSE IF "PRESENT" \in states THEN "ABSENT"
  ELSE "UNKNOWN"

-----------------------------------------------------------------------------
(* calibration.summarize_bundle: what the recovery rules measure.  It      *)
(* keeps every partition it can read in all three families, and any        *)
(* anomaly withholds the totals and rates.                                 *)

Parsed(items) ==
  {i \in items : i.status = "OK" /\ i.freshness = "FRESH" /\ Len(i.samples) > 1}

Known(items) == {i.partition : i \in Parsed(items)}

SameGrid(b, p) ==
  One({Item(Parsed(f), p).grid : f \in {b.end, b.committed, b.lag}})

Latest(items, p) == Last(Item(items, p).samples)

Measured(b) ==
  {p \in Known(b.end) \cap Known(b.committed) \cap Known(b.lag) : SameGrid(b, p)}

Offsets(b) ==
  [p \in Measured(b) |->
     [end |-> Latest(Parsed(b.end), p), committed |-> Latest(Parsed(b.committed), p)]]

Decreases(s) == \E k \in 2..Len(s) : s[k] < s[k-1]

Anomalous(b) ==
  LET measured == Measured(b)
  IN  \/ Known(b.end) \cup Known(b.committed) \cup Known(b.lag) # measured
      \/ measured # Partitions
      \/ \E p \in measured :
           LET e == Item(Parsed(b.end), p).samples
               c == Item(Parsed(b.committed), p).samples
               l == Item(Parsed(b.lag), p).samples
           IN  \/ Decreases(e) \/ Decreases(c)
               \/ \E k \in 1..Len(l) : e[k] < 0 \/ c[k] < 0 \/ l[k] < 0 \/ l[k] # e[k] - c[k]

TotalLag(items) == SumFunction([p \in Partitions |-> Latest(items, p)])

Change(items) ==
  SumFunction([p \in Partitions |-> Latest(items, p) - Item(items, p).samples[1]])

\* the rates share one window, so their changes over it stand for them
Measurement(b) ==
  IF Anomalous(b) THEN None
  ELSE [lag |-> TotalLag(Parsed(b.lag)),
        slope |-> Change(Parsed(b.lag)),
        produce |-> Change(Parsed(b.end)),
        commit |-> Change(Parsed(b.committed))]
=============================================================================

------------------------------ MODULE MCEvidence ------------------------------
(***************************************************************************)
(* Evidence bundles for small instances: two partitions, range queries of  *)
(* two samples, and for every reading and time the bundle a collection     *)
(* would store.  One unit of time is five seconds, so that the configured  *)
(* interval is 3 units.                                                    *)
(***************************************************************************)
EXTENDS RecoveryEvaluator

CONSTANTS p0, p1

\* what a capture reads where nothing disturbs it: the lag when the window
\* begins and when it ends, and the records produced in between
Level(reading, at) ==
  CASE reading \in {"growth", "regrowth"} -> [first |-> at + 4, last |-> at + 9, produce |-> 7]
    [] reading = "drain"  -> [first |-> 9, last |-> 5, produce |-> 7]
    [] reading = "steady" -> [first |-> 2, last |-> 2, produce |-> 7]
    [] OTHER              -> [first |-> 4, last |-> 2, produce |-> 7]

Undisturbed == {"growth", "regrowth", "drain", "steady"}

Item0(p, at, samples) ==
  [status |-> "OK", freshness |-> "FRESH", contract |-> TRUE, partition |-> p,
   exporter |-> "exporter", stamp |-> at, grid |-> <<at - 1, at>>, samples |-> samples]

Kafka(at, level, base) ==
  LET lag == <<level.first, level.last>>
      end == <<base - level.produce, base>>
  IN  [end |-> {Item0(p0, at, end), Item0(p1, at, <<base, base>>)},
       committed |-> {Item0(p0, at, <<end[1] - lag[1], end[2] - lag[2]>>),
                      Item0(p1, at, <<base, base>>)},
       lag |-> {Item0(p0, at, lag), Item0(p1, at, <<0, 0>>)}]

ReadyItem ==
  [status |-> "OK", freshness |-> "FRESH", selector |-> TRUE, provenance |-> TRUE, body |-> TRUE]

Endpoints(identity) ==
  {[status |-> "OK", freshness |-> "FRESH", contract |-> TRUE, identity |-> identity]}

Bundle(at, kafka) ==
  [inScope |-> TRUE, incident |-> "incident", started |-> at, completed |-> at,
   prometheus |-> Endpoints("prometheus"), application |-> Endpoints("application"),
   end |-> kafka.end, committed |-> kafka.committed, lag |-> kafka.lag,
   readiness |-> {ReadyItem}]

Changed(b, change(_)) ==
  [b EXCEPT !.end = {change(i) : i \in @}, !.committed = {change(i) : i \in @},
            !.lag = {change(i) : i \in @}]

CollectedBundle(reading, at) ==
  LET b == Bundle(at, Kafka(at, Level(reading, at), 20 * at + 40))
  IN  CASE reading \in Undisturbed -> b
        [] reading = "partial"   -> [b EXCEPT !.lag = {i \in @ : i.partition = p0}]
        [] reading = "unscraped" -> Changed(b, LAMBDA i : [i EXCEPT !.status = "MISSING", !.stamp = None])
        [] reading = "stale"     -> Changed(b, LAMBDA i : [i EXCEPT !.freshness = "STALE"])
        [] reading = "lagging"   -> Changed(b, LAMBDA i : [i EXCEPT !.stamp = @ - 1])
        [] reading = "foreign"   -> Changed(b, LAMBDA i : [i EXCEPT !.exporter = "other"])
        [] reading = "reset"     -> Bundle(at, Kafka(at, Level(reading, at), 20))
        [] reading = "unready"   -> [b EXCEPT !.readiness = {[r EXCEPT !.body = FALSE] : r \in @}]
        [] reading = "endless"   -> [b EXCEPT !.application = {[i EXCEPT !.status = "ERROR"] : i \in @}]

Faulty == {"partial", "unscraped", "stale", "lagging", "foreign", "reset", "unready", "endless"}

\* evaluated once
Table == [at \in 1..40 |-> [reading \in Undisturbed \cup Faulty |-> CollectedBundle(reading, at)]]
MCEvidence(reading, at) == Table[at][reading]
=============================================================================

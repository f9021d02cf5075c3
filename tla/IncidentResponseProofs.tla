----------------------- MODULE IncidentResponseProofs -----------------------
(***************************************************************************)
(* Theorems about IncidentResponse, for any collections, evidence, policy  *)
(* values and bounds: the stored record keeps its own rules, shows the     *)
(* newest observation, and stays as it is once it is closed.               *)
(***************************************************************************)
EXTENDS IncidentResponse, SequenceTheorems, TLAPS

\* All that is asked of the evidence: its times are numbers.
EvidenceIsTimed ==
  \A reading \in Before \cup After, at \in Nat :
    Evidence(reading, at).completed \in Int

\* A sequence, of whatever it holds.
IsSequence(s) == s \in Seq(Range(s))

States == {"ACTIVE", "RECOVERING", "UNKNOWN", "RECOVERED"}

Readings == [reading : Before \cup After, at : Nat]

CapturesOK == captures \in Seq(Readings)

\* The record has the fields of its creation.
Fields ==
  {"activation", "state", "outcome", "closedAt", "diagnosis",
   "evaluations", "current", "timeline"}

RecordShape(r) == r = [f \in Fields |-> r[f]]

RecordTyped(r) ==
  /\ RecordShape(r)
  /\ IsSequence(r.timeline) /\ IsSequence(r.evaluations)
  /\ Len(r.timeline) >= 2
  /\ r.timeline[1].type = "DETECTED" /\ r.timeline[2].type = "ACTIVE"
  /\ \A k \in 1..Len(r.timeline) : r.timeline[k].at \in Int
  /\ \A k \in 1..Len(r.evaluations) : r.evaluations[k].observed \in Int

\* Where the events of the history come from: two of the creation, one of the
\* diagnosis, and the others of an attached evaluation each.
RecoveryTypes ==
  {"RECOVERY_OBSERVED", "RECOVERING", "RECOVERED", "OBSERVATION_UPDATED", "CLOSED"}

EventsHaveOrigin(r) ==
  \A k \in 1..Len(r.timeline) :
    LET t == r.timeline[k]
    IN  \/ k = 1 /\ t.type = "DETECTED"
        \/ k = 2 /\ t.type = "ACTIVE"
        \/ t.type = "DIAGNOSIS_ATTACHED" /\ r.diagnosis # None
        \/ /\ t.type \in RecoveryTypes
           /\ \E j \in 1..Len(r.evaluations) : r.evaluations[j].id = t.artifact

EventsInOrder(r) ==
  \A j, k \in 1..Len(r.timeline) :
    j <= k => r.timeline[j].at <= r.timeline[k].at

EventsDiffer(r) ==
  \A j, k \in 1..Len(r.timeline) :
    r.timeline[j] = r.timeline[k] => j = k

EvaluationsInOrder(r) ==
  \A j, k \in 1..Len(r.evaluations) :
    j <= k => r.evaluations[j].observed <= r.evaluations[k].observed

EvaluationsDiffer(r) ==
  \A j, k \in 1..Len(r.evaluations) :
    r.evaluations[j].id = r.evaluations[k].id => j = k

CurrentNewest(r) ==
  \A k \in 1..Len(r.evaluations) :
    r.evaluations[k].observed <= r.current.observed

\* Closed with one closing event, after a RECOVERED one; or open without.
ClosedOnce(r) ==
  /\ r.outcome = "RECOVERED"
  /\ \E k \in 1..Len(r.timeline) : r.timeline[k].type = "RECOVERED"
  /\ \E k \in 1..Len(r.timeline) :
       /\ r.timeline[k].type = "CLOSED"
       /\ r.timeline[k].at = r.closedAt
       /\ \A j \in 1..Len(r.timeline) : r.timeline[j].type = "CLOSED" => j = k

NeverClosed(r) ==
  /\ r.outcome = None /\ r.closedAt = None
  /\ \A k \in 1..Len(r.timeline) : r.timeline[k].type # "CLOSED"

Closing(r) == IF r.state = "CLOSED" THEN ClosedOnce(r) ELSE NeverClosed(r)

RecordInv(r) ==
  /\ RecordTyped(r)
  /\ EventsHaveOrigin(r) /\ EventsInOrder(r) /\ EventsDiffer(r)
  /\ EvaluationsInOrder(r) /\ EvaluationsDiffer(r) /\ CurrentNewest(r)
  /\ Closing(r)

ResponseInv ==
  /\ CapturesOK
  /\ record # None => RecordInv(record) /\ First \in 1..Len(captures)
-----------------------------------------------------------------------------
(* Sequences                                                               *)

\* A sequence of members of any set is one of its own elements.
LEMMA ElementsOfSequence ==
  ASSUME NEW S, NEW t \in Seq(S)
  PROVE  IsSequence(t)
<1>1. Len(t) \in Nat /\ DOMAIN t = 1..Len(t) /\ t = [i \in 1..Len(t) |-> t[i]]
  OBVIOUS
<1>2. \A i \in 1..Len(t) : t[i] \in Range(t)
  BY <1>1 DEF Range
<1> QED
  BY <1>1, <1>2 DEF IsSequence

\* What appending does to a sequence of anything.
LEMMA AppendToAny ==
  ASSUME NEW s, IsSequence(s), NEW e
  PROVE  /\ IsSequence(Append(s, e))
         /\ Len(s) \in Nat
         /\ Len(Append(s, e)) = Len(s) + 1
         /\ \A i \in 1..Len(s) : Append(s, e)[i] = s[i]
         /\ Append(s, e)[Len(s) + 1] = e
<1> DEFINE S == Range(s) \cup {e}
           t == Append(s, e)
<1>1. s \in Seq(S)
  <2>1. Len(s) \in Nat /\ s = [i \in 1..Len(s) |-> s[i]]
    BY DEF IsSequence
  <2>2. \A i \in 1..Len(s) : s[i] \in S
    BY DEF IsSequence
  <2> QED
    BY <2>1, <2>2
<1>2. /\ t \in Seq(S) /\ Len(s) \in Nat /\ Len(t) = Len(s) + 1
      /\ \A i \in 1..Len(s) : t[i] = s[i]
      /\ t[Len(s) + 1] = e
  <2>1. e \in S
    OBVIOUS
  <2> HIDE DEF S
  <2> QED
    BY <1>1, <2>1, AppendProperties
<1>3. IsSequence(t)
  <2> HIDE DEF S, t
  <2> QED
    BY <1>2, ElementsOfSequence
<1> QED
  BY <1>2, <1>3

\* The domain of a sequence of anything.
LEMMA DomainOfAny ==
  ASSUME NEW s, IsSequence(s)
  PROVE  DOMAIN s = 1..Len(s) /\ Len(s) \in Nat
BY DEF IsSequence
-----------------------------------------------------------------------------
(* One more event, one more evaluation                                     *)

\* An event that comes no earlier than the last one and is not there yet.
MayFollow(r, e) ==
  /\ e.at \in Int /\ e.at >= r.timeline[Len(r.timeline)].at
  /\ \A k \in 1..Len(r.timeline) : r.timeline[k] # e

Extended(r, q, e) ==
  /\ IsSequence(q.timeline)
  /\ Len(r.timeline) \in Nat /\ Len(q.timeline) = Len(r.timeline) + 1
  /\ \A k \in 1..Len(r.timeline) : q.timeline[k] = r.timeline[k]
  /\ q.timeline[Len(q.timeline)] = e
  /\ \A k \in 1..Len(q.timeline) : q.timeline[k].at \in Int
  /\ EventsInOrder(q) /\ EventsDiffer(q)

\* Such an event keeps the history in order and without repetition.
LEMMA AddEvent ==
  ASSUME NEW r, NEW q, NEW e, RecordTyped(r), EventsInOrder(r), EventsDiffer(r),
         q.timeline = Append(r.timeline, e), MayFollow(r, e)
  PROVE  Extended(r, q, e)
<1> DEFINE n == Len(r.timeline)
<1>1. /\ IsSequence(q.timeline) /\ n \in Nat /\ Len(q.timeline) = n + 1
      /\ \A k \in 1..n : q.timeline[k] = r.timeline[k]
      /\ q.timeline[n + 1] = e
  BY AppendToAny DEF RecordTyped
<1>2. \A k \in 1..(n + 1) : k \in 1..n \/ k = n + 1
  BY <1>1
<1>3. n >= 2 /\ e.at \in Int /\ \A k \in 1..n : r.timeline[k].at \in Int /\ r.timeline[k].at <= e.at
  BY <1>1 DEF RecordTyped, EventsInOrder, MayFollow
<1>4. \A k \in 1..Len(q.timeline) : q.timeline[k].at \in Int
  BY <1>1, <1>2, <1>3
<1>5. EventsInOrder(q)
  BY <1>1, <1>2, <1>3 DEF EventsInOrder
<1>6. EventsDiffer(q)
  BY <1>1, <1>2 DEF EventsDiffer, MayFollow
<1> QED
  BY <1>1, <1>4, <1>5, <1>6 DEF Extended

\* An event of an artifact that is not attached yet is in the history only if
\* it is one of the creation or of the diagnosis.
LEMMA NewArtifact ==
  ASSUME NEW r, RecordTyped(r), EventsHaveOrigin(r), NEW e, e.type \in RecoveryTypes,
         \A j \in 1..Len(r.evaluations) : r.evaluations[j].id # e.artifact
  PROVE  \A k \in 1..Len(r.timeline) : r.timeline[k] # e
BY DEF EventsHaveOrigin, RecoveryTypes

\* What an attached evaluation makes of the fields of the record.
LEMMA ObservedFields ==
  ASSUME RecordShape(record), NEW e
  PROVE  /\ RecordShape(Observed(e))
         /\ Observed(e).activation = record.activation
         /\ Observed(e).state = NextState(e)
         /\ Observed(e).outcome = record.outcome
         /\ Observed(e).closedAt = record.closedAt
         /\ Observed(e).diagnosis = record.diagnosis
         /\ Observed(e).evaluations =
              Append(record.evaluations, [id |-> e.id, state |-> e.state, observed |-> e.observed])
         /\ Observed(e).current.observed = e.observed
         /\ Observed(e).timeline =
              Append(record.timeline, Event(EventType(e), e.observed, e.id, NextState(e)))
BY DEF Observed, RecordShape, Fields

\* What closing does.
LEMMA ClosedFields ==
  ASSUME NEW r, RecordShape(r), NEW e
  PROVE  /\ RecordShape(Closed(r, e))
         /\ Closed(r, e).activation = r.activation
         /\ Closed(r, e).state = "CLOSED"
         /\ Closed(r, e).outcome = "RECOVERED"
         /\ Closed(r, e).closedAt = e.observed
         /\ Closed(r, e).diagnosis = r.diagnosis
         /\ Closed(r, e).evaluations = r.evaluations
         /\ Closed(r, e).current = r.current
         /\ Closed(r, e).timeline = Append(r.timeline, Event("CLOSED", e.observed, e.id, "CLOSED"))
BY DEF Closed, RecordShape, Fields

\* The state and the kind of event an evaluation brings.
LEMMA Progress ==
  ASSUME NEW e, e.state \in States
  PROVE  /\ EventType(e) \in RecoveryTypes /\ EventType(e) # "CLOSED"
         /\ NextState(e) = "CLOSED" <=> record.state = "CLOSED"
         /\ ClosesWith(e) => EventType(e) = "RECOVERED"
BY DEF States, EventType, NextState, RecoveryTypes, ClosesWith

\* Attaching an evaluation that is new and in order keeps the record's rules.
LEMMA ObservedKeeps ==
  ASSUME RecordInv(record), NEW e, e.observed \in Int, e.state \in States,
         NotAttached(e), InOrder(e)
  PROVE  RecordInv(Observed(e))
<1> DEFINE q == Observed(e)
           t == Event(EventType(e), e.observed, e.id, NextState(e))
           v == [id |-> e.id, state |-> e.state, observed |-> e.observed]
           n == Len(record.timeline)
           m == Len(record.evaluations)
<1>1. /\ RecordShape(q) /\ q.state = NextState(e)
      /\ q.outcome = record.outcome /\ q.closedAt = record.closedAt
      /\ q.diagnosis = record.diagnosis /\ q.current.observed = e.observed
      /\ q.evaluations = Append(record.evaluations, v)
      /\ q.timeline = Append(record.timeline, t)
  BY ObservedFields DEF RecordInv, RecordTyped
<1> HIDE DEF q
<1>2. /\ EventType(e) \in RecoveryTypes /\ EventType(e) # "CLOSED"
      /\ NextState(e) = "CLOSED" <=> record.state = "CLOSED"
  BY Progress
<1>3. /\ t.type = EventType(e) /\ t.at = e.observed /\ t.artifact = e.id
  BY DEF Event
<1> HIDE DEF t
<1>4. \A j \in 1..m : record.evaluations[j].id # e.id
  BY DomainOfAny DEF NotAttached, RecordInv, RecordTyped
<1>5. e.observed >= record.timeline[n].at
  BY DEF InOrder, LastEvent
<1>6. \A k \in 1..n : record.timeline[k] # t
  BY <1>2, <1>3, <1>4, NewArtifact DEF RecordInv
<1>7. /\ IsSequence(q.timeline) /\ n \in Nat /\ Len(q.timeline) = n + 1
      /\ \A k \in 1..n : q.timeline[k] = record.timeline[k]
      /\ q.timeline[n + 1] = t
      /\ \A k \in 1..(n + 1) : q.timeline[k].at \in Int
      /\ EventsInOrder(q) /\ EventsDiffer(q)
  <2>1. MayFollow(record, t)
    BY <1>3, <1>5, <1>6 DEF MayFollow
  <2>2. q.timeline = Append(record.timeline, t)
    BY <1>1
  <2>3. RecordTyped(record) /\ EventsInOrder(record) /\ EventsDiffer(record)
    BY DEF RecordInv
  <2>4. Extended(record, q, t)
    BY <2>1, <2>2, <2>3, AddEvent
  <2> QED
    BY <2>4 DEF Extended
<1>8. /\ IsSequence(q.evaluations) /\ m \in Nat /\ Len(q.evaluations) = m + 1
      /\ \A k \in 1..m : q.evaluations[k] = record.evaluations[k]
      /\ q.evaluations[m + 1].id = e.id /\ q.evaluations[m + 1].observed = e.observed
  <2>1. v.id = e.id /\ v.observed = e.observed
    OBVIOUS
  <2> HIDE DEF v
  <2> QED
    BY <1>1, <2>1, AppendToAny DEF RecordInv, RecordTyped
<1>9. \A k \in 1..(m + 1) : k \in 1..m \/ k = m + 1
  BY <1>8
<1>10. \A k \in 1..(n + 1) : k \in 1..n \/ k = n + 1
  BY <1>7
<1>11. \A k \in 1..m : /\ record.evaluations[k].observed \in Int
                       /\ record.evaluations[k].observed <= e.observed
  <2> SUFFICES ASSUME NEW k \in 1..m
               PROVE  /\ record.evaluations[k].observed \in Int
                      /\ record.evaluations[k].observed <= e.observed
    OBVIOUS
  <2>1. m >= 1 /\ record.evaluations # << >>
    BY <1>8 DEF IsSequence
  <2>2. Last(record.evaluations) = record.evaluations[m]
    BY DEF Last
  <2>3. record.evaluations[m].observed <= e.observed
    BY <2>1, <2>2 DEF InOrder
  <2>4. /\ m \in 1..m
        /\ record.evaluations[k].observed \in Int /\ record.evaluations[m].observed \in Int
        /\ record.evaluations[k].observed <= record.evaluations[m].observed
    BY <2>1, <1>8 DEF RecordInv, RecordTyped, EvaluationsInOrder
  <2> QED
    BY <2>3, <2>4
<1>12. RecordTyped(q)
  BY <1>1, <1>7, <1>8, <1>9, <1>11 DEF RecordTyped, RecordInv
<1>13. EventsHaveOrigin(q)
  <2>1. \A k \in 1..n, j \in 1..m :
          record.evaluations[j].id = record.timeline[k].artifact
            => j \in 1..(m + 1) /\ q.evaluations[j].id = q.timeline[k].artifact
    <3> SUFFICES ASSUME NEW k \in 1..n, NEW j \in 1..m
                 PROVE  /\ j \in 1..(m + 1)
                        /\ q.evaluations[j] = record.evaluations[j]
                        /\ q.timeline[k] = record.timeline[k]
      OBVIOUS
    <3> QED
      BY <1>7, <1>8
  <2>2. m + 1 \in 1..(m + 1)
    BY <1>8
  <2>3. \A k \in 1..n :
          LET u == q.timeline[k]
          IN  \/ k = 1 /\ u.type = "DETECTED"
              \/ k = 2 /\ u.type = "ACTIVE"
              \/ u.type = "DIAGNOSIS_ATTACHED" /\ q.diagnosis # None
              \/ /\ u.type \in RecoveryTypes
                 /\ \E j \in 1..Len(q.evaluations) : q.evaluations[j].id = u.artifact
    BY <1>1, <1>7, <1>8, <2>1 DEF RecordInv, EventsHaveOrigin
  <2>4. /\ q.timeline[n + 1].type \in RecoveryTypes
        /\ q.evaluations[m + 1].id = q.timeline[n + 1].artifact
    BY <1>2, <1>3, <1>7, <1>8
  <2> QED
    BY <1>7, <1>8, <1>10, <2>2, <2>3, <2>4 DEF EventsHaveOrigin
<1>14. EvaluationsInOrder(q)
  <2> SUFFICES ASSUME NEW j \in 1..(m + 1), NEW k \in 1..(m + 1), j <= k
               PROVE  q.evaluations[j].observed <= q.evaluations[k].observed
    BY <1>8 DEF EvaluationsInOrder
  <2>1. CASE k \in 1..m
    <3>1. j \in 1..m
      BY <1>8, <2>1
    <3> QED
      BY <1>8, <2>1, <3>1 DEF EvaluationsInOrder, RecordInv
  <2>2. CASE k = m + 1
    <3>1. CASE j \in 1..m
      BY <1>8, <1>11, <2>2, <3>1
    <3>2. CASE j = m + 1
      BY <1>8, <2>2, <3>2
    <3> QED
      BY <1>9, <3>1, <3>2
  <2> QED
    BY <1>9, <2>1, <2>2
<1>15. EvaluationsDiffer(q)
  BY <1>4, <1>8, <1>9 DEF EvaluationsDiffer, RecordInv
<1>16. CurrentNewest(q)
  BY <1>1, <1>8, <1>9, <1>11 DEF CurrentNewest
<1>17. Closing(q)
  <2>1. q.timeline[n + 1].type # "CLOSED"
    BY <1>2, <1>3, <1>7
  <2>2. CASE record.state = "CLOSED"
    <3>1. ClosedOnce(record) /\ q.state = "CLOSED"
      BY <1>1, <1>2, <2>2 DEF RecordInv, Closing
    <3>2. PICK c \in 1..n :
            /\ record.timeline[c].type = "CLOSED" /\ record.timeline[c].at = record.closedAt
            /\ \A j \in 1..n : record.timeline[j].type = "CLOSED" => j = c
      BY <3>1 DEF ClosedOnce
    <3>3. /\ c \in 1..(n + 1) /\ q.timeline[c].type = "CLOSED" /\ q.timeline[c].at = q.closedAt
          /\ \A j \in 1..(n + 1) : q.timeline[j].type = "CLOSED" => j = c
      BY <1>1, <1>7, <1>10, <2>1, <3>2
    <3>4. PICK h \in 1..n : record.timeline[h].type = "RECOVERED"
      BY <3>1 DEF ClosedOnce
    <3>5. h \in 1..(n + 1) /\ q.timeline[h].type = "RECOVERED"
      BY <1>7, <3>4
    <3>6. ClosedOnce(q)
      BY <1>1, <1>7, <3>1, <3>3, <3>5 DEF ClosedOnce
    <3> QED
      BY <3>1, <3>6 DEF Closing
  <2>3. CASE record.state # "CLOSED"
    BY <1>1, <1>2, <1>7, <1>10, <2>1, <2>3 DEF RecordInv, Closing, NeverClosed
  <2> QED
    BY <2>2, <2>3
<1> QED
  BY <1>7, <1>12, <1>13, <1>14, <1>15, <1>16, <1>17 DEF RecordInv, q

\* Closing after a RECOVERED event of the same evaluation keeps them, too.
LEMMA ClosedKeeps ==
  ASSUME RecordInv(record), NEW e, e.observed \in Int, e.state \in States,
         NotAttached(e), InOrder(e), ClosesWith(e)
  PROVE  RecordInv(Closed(Observed(e), e))
<1> DEFINE r == Observed(e)
           q == Closed(r, e)
           t == Event("CLOSED", e.observed, e.id, "CLOSED")
           n == Len(record.timeline)
           m == Len(record.evaluations)
<1>1. RecordInv(r)
  BY ObservedKeeps
<1>2. /\ n \in Nat /\ m \in Nat
      /\ Len(r.timeline) = n + 1
      /\ r.timeline[n + 1].type = "RECOVERED" /\ r.timeline[n + 1].at = e.observed
      /\ Len(r.evaluations) = m + 1 /\ r.evaluations[m + 1].id = e.id
  <2>1. /\ r.timeline = Append(record.timeline, Event("RECOVERED", e.observed, e.id, NextState(e)))
        /\ r.evaluations =
             Append(record.evaluations, [id |-> e.id, state |-> e.state, observed |-> e.observed])
    BY ObservedFields, Progress DEF RecordInv, RecordTyped
  <2>2. IsSequence(record.timeline) /\ IsSequence(record.evaluations)
    BY DEF RecordInv, RecordTyped
  <2> QED
    BY <2>1, <2>2, AppendToAny DEF Event
<1>3. NeverClosed(r)
  BY <1>1, ObservedFields, Progress DEF RecordInv, RecordTyped, Closing, ClosesWith
<1> HIDE DEF r
<1>4. /\ RecordShape(q) /\ q.state = "CLOSED" /\ q.outcome = "RECOVERED"
      /\ q.closedAt = e.observed /\ q.diagnosis = r.diagnosis
      /\ q.evaluations = r.evaluations /\ q.current = r.current
      /\ q.timeline = Append(r.timeline, t)
  BY ZenonT(40), <1>1, ClosedFields DEF RecordInv, RecordTyped
<1>5. t.type = "CLOSED" /\ t.at = e.observed /\ t.artifact = e.id
  BY DEF Event
<1> HIDE DEF q, t
<1>6. \A k \in 1..(n + 1) : r.timeline[k] # t
  BY <1>2, <1>3, <1>5 DEF NeverClosed
<1>7. /\ IsSequence(q.timeline) /\ Len(q.timeline) = n + 2
      /\ \A k \in 1..(n + 1) : q.timeline[k] = r.timeline[k]
      /\ q.timeline[n + 2] = t
      /\ \A k \in 1..(n + 2) : q.timeline[k].at \in Int
      /\ EventsInOrder(q) /\ EventsDiffer(q)
  <2>1. MayFollow(r, t)
    BY <1>2, <1>5, <1>6 DEF MayFollow
  <2>2. q.timeline = Append(r.timeline, t)
    BY <1>4
  <2>3. RecordTyped(r) /\ EventsInOrder(r) /\ EventsDiffer(r)
    BY <1>1 DEF RecordInv
  <2>4. Extended(r, q, t)
    BY <2>1, <2>2, <2>3, AddEvent
  <2> QED
    BY <1>2, <2>4 DEF Extended
<1>8. \A k \in 1..(n + 2) : k \in 1..(n + 1) \/ k = n + 2
  BY <1>2
<1>9. RecordTyped(q)
  <2>1. RecordTyped(r) /\ Len(r.timeline) = n + 1 /\ n \in Nat /\ n + 1 >= 2
    BY <1>1, <1>2 DEF RecordInv, RecordTyped
  <2>2. 1 \in 1..(n + 1) /\ 2 \in 1..(n + 1) /\ n + 2 >= 2
    BY <2>1
  <2>3. q.timeline[1].type = "DETECTED" /\ q.timeline[2].type = "ACTIVE"
    BY <1>7, <2>1, <2>2 DEF RecordTyped
  <2>4. /\ IsSequence(q.evaluations)
        /\ \A k \in 1..Len(q.evaluations) : q.evaluations[k].observed \in Int
    BY <1>4, <2>1 DEF RecordTyped
  <2> QED
    BY <1>4, <1>7, <2>2, <2>3, <2>4 DEF RecordTyped
<1>10. EventsHaveOrigin(q)
  <2>1. q.timeline[n + 2].type \in RecoveryTypes
    BY <1>5, <1>7 DEF RecoveryTypes
  <2>2. m + 1 \in 1..Len(q.evaluations) /\ q.evaluations[m + 1].id = q.timeline[n + 2].artifact
    BY <1>2, <1>4, <1>5, <1>7
  <2>3. \A k \in 1..(n + 1) :
          LET u == q.timeline[k]
          IN  \/ k = 1 /\ u.type = "DETECTED"
              \/ k = 2 /\ u.type = "ACTIVE"
              \/ u.type = "DIAGNOSIS_ATTACHED" /\ q.diagnosis # None
              \/ /\ u.type \in RecoveryTypes
                 /\ \E j \in 1..Len(q.evaluations) : q.evaluations[j].id = u.artifact
    <3> SUFFICES ASSUME NEW k \in 1..(n + 1)
                 PROVE  LET u == q.timeline[k]
                        IN  \/ k = 1 /\ u.type = "DETECTED"
                            \/ k = 2 /\ u.type = "ACTIVE"
                            \/ u.type = "DIAGNOSIS_ATTACHED" /\ q.diagnosis # None
                            \/ /\ u.type \in RecoveryTypes
                               /\ \E j \in 1..Len(q.evaluations) : q.evaluations[j].id = u.artifact
      OBVIOUS
    <3>1. q.timeline[k] = r.timeline[k] /\ q.diagnosis = r.diagnosis /\ q.evaluations = r.evaluations
      BY <1>4, <1>7
    <3>2. EventsHaveOrigin(r) /\ Len(r.timeline) = n + 1
      BY <1>1, <1>2 DEF RecordInv
    <3> QED
      BY <3>1, <3>2 DEF EventsHaveOrigin
  <2> QED
    BY <1>7, <1>8, <2>1, <2>2, <2>3 DEF EventsHaveOrigin
<1>11. EvaluationsInOrder(q) /\ EvaluationsDiffer(q) /\ CurrentNewest(q)
  BY <1>1, <1>4 DEF RecordInv, EvaluationsInOrder, EvaluationsDiffer, CurrentNewest
<1>12. Closing(q)
  <2>1. \A j \in 1..(n + 1) : q.timeline[j].type # "CLOSED"
    BY <1>2, <1>3, <1>7 DEF NeverClosed
  <2>2. /\ n + 2 \in 1..(n + 2)
        /\ q.timeline[n + 2].type = "CLOSED" /\ q.timeline[n + 2].at = q.closedAt
        /\ \A j \in 1..(n + 2) : q.timeline[j].type = "CLOSED" => j = n + 2
    BY <1>2, <1>4, <1>5, <1>7, <1>8, <2>1
  <2>3. n + 1 \in 1..(n + 2) /\ q.timeline[n + 1].type = "RECOVERED"
    <3>1. n + 1 \in 1..(n + 1) /\ n + 1 \in 1..(n + 2)
      BY <1>2
    <3>2. q.timeline[n + 1] = r.timeline[n + 1]
      BY <1>7, <3>1
    <3> QED
      BY <1>2, <3>1, <3>2
  <2> QED
    BY <1>4, <1>7, <2>2, <2>3 DEF Closing, ClosedOnce
<1> QED
  BY <1>7, <1>9, <1>10, <1>11, <1>12 DEF RecordInv, q, r
-----------------------------------------------------------------------------
(* The steps                                                               *)

\* A new incident keeps the rules.
LEMMA CreatedKeeps ==
  ASSUME NEW a, a.completed \in Int, CreateIncident(a)
  PROVE  RecordInv(record') /\ record'.activation = a
<1> DEFINE q == record'
           d == Event("DETECTED", a.completed, a.id, "DETECTED")
           c == Event("ACTIVE", a.completed, a.id, "ACTIVE")
<1>1. /\ q = [f \in Fields |-> q[f]]
      /\ q.activation = a /\ q.state = "ACTIVE" /\ q.outcome = None /\ q.closedAt = None
      /\ q.evaluations = << >> /\ q.timeline = <<d, c>>
  BY DEF CreateIncident, Fields
<1>2. /\ d.type = "DETECTED" /\ c.type = "ACTIVE"
      /\ d.at = a.completed /\ c.at = a.completed
  BY DEF Event
<1> HIDE DEF d, c
<1>3. /\ Len(<<d, c>>) = 2 /\ <<d, c>>[1] = d /\ <<d, c>>[2] = c
      /\ <<d, c>> \in Seq({d, c}) /\ << >> \in Seq({}) /\ Len(<< >>) = 0
  OBVIOUS
<1> HIDE DEF q
<1>4. \A k \in 1..2 : k = 1 \/ k = 2
  OBVIOUS
<1>5. /\ Len(q.timeline) = 2 /\ q.timeline[1] = d /\ q.timeline[2] = c
       /\ Len(q.evaluations) = 0
  BY <1>1, <1>3
<1>6. \A k \in 1..2 : q.timeline[k].at = a.completed
  BY <1>2, <1>4, <1>5
<1>7. IsSequence(q.timeline) /\ IsSequence(q.evaluations)
  <2>1. q.timeline \in Seq({d, c}) /\ q.evaluations \in Seq({})
    BY <1>1, <1>3
  <2> QED
    BY <2>1, ElementsOfSequence
<1>8. RecordTyped(q)
  BY <1>1, <1>2, <1>7, <1>5, <1>6 DEF RecordTyped, RecordShape
<1>9. EventsHaveOrigin(q)
  BY <1>2, <1>4, <1>5 DEF EventsHaveOrigin
<1>10. EventsInOrder(q)
  BY <1>5, <1>6 DEF EventsInOrder
<1>11. EventsDiffer(q)
  BY <1>2, <1>4, <1>5 DEF EventsDiffer
<1>12. EvaluationsInOrder(q) /\ EvaluationsDiffer(q) /\ CurrentNewest(q)
  BY <1>5 DEF EvaluationsInOrder, EvaluationsDiffer, CurrentNewest
<1>13. Closing(q)
  BY <1>1, <1>2, <1>4, <1>5 DEF Closing, NeverClosed
<1> QED
  BY <1>1, <1>8, <1>9, <1>10, <1>11, <1>12, <1>13 DEF RecordInv, q

\* So does the diagnosis.
LEMMA DiagnosisKeeps ==
  ASSUME RecordInv(record), NEW d, d.completed \in Int, d.id # None, AttachDiagnosis(d)
  PROVE  RecordInv(record') /\ record'.activation = record.activation
<1> DEFINE q == record'
           t == Event("DIAGNOSIS_ATTACHED", d.completed, d.id, record.state)
           n == Len(record.timeline)
<1>1. /\ RecordShape(q)
      /\ q.activation = record.activation /\ q.state = record.state
      /\ q.outcome = record.outcome /\ q.closedAt = record.closedAt
      /\ q.diagnosis = d.id
      /\ q.evaluations = record.evaluations /\ q.current = record.current
      /\ q.timeline = Append(record.timeline, t)
  BY DEF AttachDiagnosis, RecordInv, RecordTyped, RecordShape, Fields
<1>2. t.type = "DIAGNOSIS_ATTACHED" /\ t.at = d.completed
  BY DEF Event
<1>3. record.diagnosis = None /\ record.state # "CLOSED" /\ d.completed >= record.timeline[n].at
  BY DEF AttachDiagnosis, AcceptsDiagnosis, IsOpen, LastEvent
<1> HIDE DEF q, t
<1>4. \A k \in 1..n : record.timeline[k] # t
  BY <1>2, <1>3 DEF RecordInv, EventsHaveOrigin, RecoveryTypes
<1>5. /\ IsSequence(q.timeline) /\ n \in Nat /\ Len(q.timeline) = n + 1
      /\ \A k \in 1..n : q.timeline[k] = record.timeline[k]
      /\ q.timeline[Len(q.timeline)] = t
      /\ \A k \in 1..Len(q.timeline) : q.timeline[k].at \in Int
      /\ EventsInOrder(q) /\ EventsDiffer(q)
  <2>1. MayFollow(record, t)
    BY <1>2, <1>3, <1>4 DEF MayFollow
  <2>2. q.timeline = Append(record.timeline, t)
    BY <1>1
  <2>3. RecordTyped(record) /\ EventsInOrder(record) /\ EventsDiffer(record)
    BY DEF RecordInv
  <2>4. Extended(record, q, t)
    BY <2>1, <2>2, <2>3, AddEvent
  <2> QED
    BY <2>4 DEF Extended
<1>6. \A k \in 1..(n + 1) : k \in 1..n \/ k = n + 1
  BY <1>5
<1>7. RecordTyped(q)
  BY <1>1, <1>5 DEF RecordTyped, RecordInv
<1>8. EventsHaveOrigin(q)
  <2>1. \A k \in 1..n :
          LET u == q.timeline[k]
          IN  \/ k = 1 /\ u.type = "DETECTED"
              \/ k = 2 /\ u.type = "ACTIVE"
              \/ /\ u.type \in RecoveryTypes
                 /\ \E j \in 1..Len(q.evaluations) : q.evaluations[j].id = u.artifact
    BY <1>1, <1>3, <1>5 DEF RecordInv, EventsHaveOrigin
  <2> QED
    BY <1>1, <1>2, <1>5, <1>6, <2>1 DEF EventsHaveOrigin
<1>9. EvaluationsInOrder(q) /\ EvaluationsDiffer(q) /\ CurrentNewest(q)
  BY <1>1 DEF RecordInv, EvaluationsInOrder, EvaluationsDiffer, CurrentNewest
<1>10. Closing(q)
  <2>1. NeverClosed(record)
    BY <1>3 DEF RecordInv, Closing
  <2> QED
    BY <1>1, <1>2, <1>3, <1>5, <1>6, <2>1 DEF Closing, NeverClosed
<1> QED
  BY <1>1, <1>5, <1>7, <1>8, <1>9, <1>10 DEF RecordInv, q

\* And a recovery evaluation.
LEMMA RecoveryKeeps ==
  ASSUME RecordInv(record), NEW e, e.observed \in Int, e.state \in States, AttachRecovery(e)
  PROVE  RecordInv(record') /\ record'.activation = record.activation
<1>1. NotAttached(e) /\ InOrder(e)
  BY DEF AttachRecovery, AcceptsRecovery
<1>2. RecordShape(record) /\ RecordShape(Observed(e))
  BY ObservedFields DEF RecordInv, RecordTyped
<1>3. CASE ClosesWith(e)
  <2>1. record' = Closed(Observed(e), e)
    BY <1>3 DEF AttachRecovery
  <2>2. RecordInv(Closed(Observed(e), e))
    BY <1>1, <1>3, ClosedKeeps
  <2>3. Closed(Observed(e), e).activation = Observed(e).activation
    BY <1>2, ClosedFields
  <2>4. Observed(e).activation = record.activation
    BY <1>2, ObservedFields
  <2> QED
    BY <2>1, <2>2, <2>3, <2>4
<1>4. CASE ~ClosesWith(e)
  <2>1. record' = Observed(e)
    BY <1>4 DEF AttachRecovery
  <2> QED
    BY <1>1, <1>2, <2>1, ObservedKeeps, ObservedFields
<1> QED
  BY <1>3, <1>4
-----------------------------------------------------------------------------
(* What the artifacts carry                                                *)

\* The captures one evaluation may be given.
LEMMA OrdersAreCaptures ==
  ASSUME CapturesOK, First \in 1..Len(captures),
         NEW order \in Regular \cup Irregular
  PROVE  order \in Seq(1..Len(captures))
<1> DEFINE L == Len(captures)
<1>1. L \in Nat
  BY DEF CapturesOK
<1>2. \A from, to \in Int : from >= 1 /\ to <= L => Span(from, to) \in Seq(1..L)
  <2> SUFFICES ASSUME NEW from \in Int, NEW to \in Int, from >= 1, to <= L
               PROVE  Span(from, to) \in Seq(1..L)
    OBVIOUS
  <2>1. \A k \in 1..(to - from + 1) : from + k - 1 \in 1..L
    BY <1>1
  <2>2. CASE to - from + 1 >= 0
    <3>1. to - from + 1 \in Nat
      BY <2>2
    <3> QED
      BY <2>1, <3>1 DEF Span
  <2>3. CASE to - from + 1 < 0
    <3>1. Span(from, to) = << >>
      BY <2>3 DEF Span
    <3> QED
      BY <3>1
  <2> QED
    BY <2>2, <2>3
<1>3. CASE order \in Regular
  <2>1. PICK to \in First + 1..L : order = Span(First + 1, to)
    BY <1>3 DEF Regular
  <2> QED
    BY <1>1, <1>2, <2>1
<1>4. ASSUME NEW to \in First + 1..L, NEW gap \in First + 1..L, order = Order(First + 1, to, gap)
      PROVE  order \in Seq(1..L)
  <2>1. /\ First + 1 \in Int /\ First + 1 >= 1 /\ to \in Int /\ to <= L
        /\ gap - 1 \in Int /\ gap - 1 <= L /\ gap + 1 \in Int /\ gap + 1 >= 1
    BY <1>1
  <2>2. /\ Span(First + 1, to) \in Seq(1..L)
        /\ Span(First + 1, gap - 1) \in Seq(1..L)
        /\ Span(gap + 1, to) \in Seq(1..L)
    BY <1>2, <2>1
  <2> QED
    BY <1>4, <2>2, ConcatProperties DEF Order
<1>5. ASSUME NEW to \in First..L, order = Span(First, to)
      PROVE  order \in Seq(1..L)
  BY <1>1, <1>2, <1>5
<1> QED
  BY <1>3, <1>4, <1>5 DEF Irregular

\* The last bundle of such a sequence has a time.
LEMMA LastIsTimed ==
  ASSUME EvidenceIsTimed, CapturesOK,
         NEW order \in Seq(1..Len(captures)), order # << >>
  PROVE  Last(Bundles(order)).completed \in Int
<1> DEFINE n == Len(order)
<1>1. n \in Nat /\ n >= 1 /\ DOMAIN order = 1..n /\ order[n] \in 1..Len(captures)
  OBVIOUS
<1>2. Len(Bundles(order)) = n
  BY <1>1 DEF Bundles
<1>3. Last(Bundles(order)) = Evidence(captures[order[n]].reading, captures[order[n]].at)
  BY <1>1, <1>2 DEF Last, Bundles
<1>4. captures[order[n]] \in Readings
  BY <1>1 DEF CapturesOK
<1> QED
  BY <1>3, <1>4 DEF EvidenceIsTimed, Readings

\* An evaluation says one of four things.
LEMMA EvaluationStates ==
  ASSUME NEW order, NEW policy
  PROVE  Evaluation(order, policy).state \in States
BY DEF Evaluation, Artifact, EvaluateRecovery, StateAfter, States
-----------------------------------------------------------------------------
(* The invariant                                                           *)

LEMMA InitKeeps == Init => ResponseInv
BY DEF Init, ResponseInv, CapturesOK

LEMMA CollectKeeps ==
  ASSUME ResponseInv, NEW reading \in Before \cup After, NEW pause \in Pauses,
         Collect(reading, pause)
  PROVE  ResponseInv'
<1>1. captures' = Append(captures, [reading |-> reading, at |-> Now + pause]) /\ record' = record
  BY DEF Collect
<1>2. Now \in Nat
  <2>1. captures # << >> => /\ Len(captures) \in 1..Len(captures)
                            /\ captures[Len(captures)] \in Readings
    BY DEF ResponseInv, CapturesOK
  <2> QED
    BY <2>1 DEF Now, Last, Readings
<1>3. Now + pause \in Nat
  BY <1>2, ResponseAssumption
<1>4. CapturesOK' /\ Len(captures') = Len(captures) + 1 /\ Len(captures) \in Nat
  <2>1. [reading |-> reading, at |-> Now + pause] \in Readings
    BY <1>3 DEF Readings
  <2> QED
    BY <1>1, <2>1, AppendProperties DEF ResponseInv, CapturesOK
<1> QED
  BY <1>1, <1>4 DEF ResponseInv, First

LEMMA CreateKeeps ==
  ASSUME EvidenceIsTimed, ResponseInv, NEW from \in DOMAIN captures, NEW to \in DOMAIN captures,
         from <= to, Create(from, to)
  PROVE  ResponseInv'
<1> DEFINE a == Activation(from, to)
<1>1. DOMAIN captures = 1..Len(captures) /\ Len(captures) \in Nat
  BY DEF ResponseInv, CapturesOK
<1>2. Span(from, to) \in Seq(1..Len(captures)) /\ Span(from, to) # << >>
  <2>1. to - from + 1 \in Nat /\ to - from + 1 >= 1
    BY <1>1
  <2>2. \A k \in 1..(to - from + 1) : from + k - 1 \in 1..Len(captures)
    BY <1>1
  <2>3. Span(from, to) \in Seq(1..Len(captures)) /\ Len(Span(from, to)) = to - from + 1
    BY <2>1, <2>2 DEF Span
  <2> QED
    BY <2>1, <2>3
<1>3. a.completed \in Int /\ a.id = <<from, to>>
  BY <1>2, LastIsTimed DEF Activation, ResponseInv
<1>4. CreateIncident(a) /\ captures' = captures
  BY DEF Create
<1> HIDE DEF a
<1>5. RecordInv(record') /\ record'.activation = a
  BY <1>3, <1>4, CreatedKeeps
<1>6. First' \in 1..Len(captures')
  BY <1>1, <1>3, <1>4, <1>5 DEF First
<1> QED
  BY <1>4, <1>5, <1>6 DEF ResponseInv, CapturesOK

LEMMA UpdateDiagnosisKeeps ==
  ASSUME ResponseInv, NEW d \in Diagnoses, NEW valid \in BOOLEAN,
         NEW k \in {First, Len(captures)}, record # None, UpdateDiagnosis(d, valid, k)
  PROVE  ResponseInv'
<1> DEFINE a == [id |-> d, activation |-> record.activation.id,
                 valid |-> valid, completed |-> captures[k].at]
<1>1. k \in 1..Len(captures)
  BY DEF ResponseInv, CapturesOK
<1>2. a.completed \in Int /\ a.id = d
  <2>1. captures[k] \in Readings
    BY <1>1 DEF ResponseInv, CapturesOK
  <2> QED
    BY <2>1 DEF Readings
<1>3. AttachDiagnosis(a) /\ captures' = captures
  BY DEF UpdateDiagnosis
<1> HIDE DEF a
<1>4. RecordInv(record') /\ record'.activation = record.activation
  BY <1>2, <1>3, DiagnosisKeeps, ResponseAssumption DEF ResponseInv
<1> QED
  BY <1>3, <1>4 DEF ResponseInv, CapturesOK, First

LEMMA UpdateRecoveryKeeps ==
  ASSUME EvidenceIsTimed, ResponseInv, NEW order \in Regular \cup Irregular,
         NEW policy \in Policies, record # None, UpdateRecovery(order, policy)
  PROVE  ResponseInv'
<1> DEFINE e == Evaluation(order, policy)
<1>1. order # << >> /\ AttachRecovery(e) /\ captures' = captures
  BY DEF UpdateRecovery
<1>2. e.observed \in Int
  <2>1. e.observed = Last(Bundles(order)).completed
    BY DEF Evaluation, Artifact
  <2> QED
    BY <1>1, <2>1, OrdersAreCaptures, LastIsTimed DEF ResponseInv
<1>3. e.state \in States
  BY EvaluationStates
<1> HIDE DEF e
<1>4. RecordInv(record') /\ record'.activation = record.activation
  BY <1>1, <1>2, <1>3, RecoveryKeeps DEF ResponseInv
<1> QED
  BY <1>1, <1>4 DEF ResponseInv, CapturesOK, First

LEMMA NextKeeps ==
  ASSUME EvidenceIsTimed, ResponseInv, [Next]_vars
  PROVE  ResponseInv'
<1>1. CASE UNCHANGED vars
  BY <1>1 DEF vars, ResponseInv, CapturesOK, First
<1>2. CASE Next
  BY <1>2, CollectKeeps, CreateKeeps, UpdateDiagnosisKeeps, UpdateRecoveryKeeps DEF Next
<1> QED
  BY <1>1, <1>2

\* In every state the stored record has the form create_incident and the two
\* attach functions rely on.
THEOREM ResponseInvariant ==
  ASSUME EvidenceIsTimed
  PROVE  Spec => []ResponseInv
<1>1. Init => ResponseInv
  BY InitKeeps
<1>2. ResponseInv /\ [Next]_vars => ResponseInv'
  BY NextKeeps
<1> QED
  BY <1>1, <1>2, PTL DEF Spec

\* The record always keeps the rules IncidentRecord.validate_incident checks,
\* in whatever order artifacts arrive: no history the two attach functions
\* accept is refused by the model that stores it.
THEOREM RecordAlwaysValid ==
  ASSUME EvidenceIsTimed
  PROVE  Spec => []RecordIsValid
<1>1. ResponseInv => RecordIsValid
  <2> SUFFICES ASSUME ResponseInv, record # None
               PROVE  ValidRecord
    BY DEF RecordIsValid
  <2>1. RecordInv(record)
    BY DEF ResponseInv
  <2>2. /\ DOMAIN record.timeline = 1..Len(record.timeline)
        /\ DOMAIN record.evaluations = 1..Len(record.evaluations)
    BY <2>1, DomainOfAny DEF RecordInv, RecordTyped
  <2>3. /\ Chronological(record.timeline, LAMBDA t : t.at)
        /\ Chronological(record.evaluations, LAMBDA e : e.observed)
    BY <2>1, <2>2 DEF Chronological, RecordInv, EventsInOrder, EvaluationsInOrder
  <2>4. /\ \A j, k \in DOMAIN record.timeline :
             record.timeline[j] = record.timeline[k] => j = k
        /\ \A j, k \in DOMAIN record.evaluations :
             record.evaluations[j].id = record.evaluations[k].id => j = k
    BY <2>1, <2>2 DEF RecordInv, EventsDiffer, EvaluationsDiffer
  <2>7. record.timeline[1].type = "DETECTED" /\ record.timeline[2].type = "ACTIVE"
    BY <2>1 DEF RecordInv, RecordTyped
  <2>5. CASE record.state = "CLOSED"
    <3>1. ClosedOnce(record)
      BY <2>1, <2>5 DEF RecordInv, Closing
    <3>2. OfType("RECOVERED") # {}
      BY <2>2, <3>1 DEF OfType, ClosedOnce
    <3>3. PICK k \in 1..Len(record.timeline) :
            /\ record.timeline[k].type = "CLOSED" /\ record.timeline[k].at = record.closedAt
            /\ \A j \in 1..Len(record.timeline) : record.timeline[j].type = "CLOSED" => j = k
      BY <3>1 DEF ClosedOnce
    <3>4. k \in DOMAIN record.timeline /\ OfType("CLOSED") = {k}
      BY <2>2, <3>3 DEF OfType
    <3> QED
      BY <2>3, <2>4, <2>5, <2>7, <3>1, <3>2, <3>3, <3>4 DEF ValidRecord, ClosedOnce
  <2>6. CASE record.state # "CLOSED"
    BY <2>1, <2>3, <2>4, <2>6, <2>7 DEF ValidRecord, RecordInv, Closing, NeverClosed
  <2> QED
    BY <2>5, <2>6
<1> QED
  BY <1>1, ResponseInvariant, PTL

\* current_observation is never older than an attached evaluation.
THEOREM CurrentAlwaysNewest ==
  ASSUME EvidenceIsTimed
  PROVE  Spec => []CurrentIsNewest
<1>1. ResponseInv => CurrentIsNewest
  BY DomainOfAny DEF ResponseInv, RecordInv, RecordTyped, CurrentNewest, CurrentIsNewest
<1> QED
  BY <1>1, ResponseInvariant, PTL

\* A closed incident is never opened again, and what is recorded of it stays:
\* attach_recovery_evaluation only adds observations to it.
THEOREM ClosedStaysClosed ==
  ASSUME EvidenceIsTimed
  PROVE  Spec => ClosedIsFinal
<1> DEFINE Final ==
      record # None /\ record.state = "CLOSED" =>
        /\ record'.state = "CLOSED"
        /\ record'.outcome = record.outcome
        /\ record'.closedAt = record.closedAt
        /\ record'.diagnosis = record.diagnosis
        /\ \A k \in DOMAIN record.timeline :
             k \in DOMAIN record'.timeline /\ record'.timeline[k] = record.timeline[k]
<1>1. ResponseInv /\ [Next]_vars => [Final]_vars
  <2> SUFFICES ASSUME ResponseInv, [Next]_vars, record # None, record.state = "CLOSED",
                      record' # record
               PROVE  Final
    BY DEF vars
  <2>1. PICK order \in Regular \cup Irregular, policy \in Policies :
          AttachRecovery(Evaluation(order, policy))
    BY DEF vars, Next, Collect, Create, CreateIncident, UpdateDiagnosis, AttachDiagnosis,
           AcceptsDiagnosis, IsOpen, UpdateRecovery
  <2> DEFINE e == Evaluation(order, policy)
  <2>2. record' = Observed(e)
    BY <2>1 DEF AttachRecovery, ClosesWith
  <2>3. RecordShape(record) /\ IsSequence(record.timeline)
    BY DEF ResponseInv, RecordInv, RecordTyped
  <2> HIDE DEF e
  <2>4. /\ record'.state = "CLOSED" /\ record'.outcome = record.outcome
        /\ record'.closedAt = record.closedAt /\ record'.diagnosis = record.diagnosis
        /\ record'.timeline =
             Append(record.timeline, Event(EventType(e), e.observed, e.id, NextState(e)))
    BY <2>2, <2>3, ObservedFields DEF NextState
  <2>5. /\ IsSequence(record'.timeline)
        /\ Len(record'.timeline) = Len(record.timeline) + 1 /\ Len(record.timeline) \in Nat
        /\ \A k \in 1..Len(record.timeline) : record'.timeline[k] = record.timeline[k]
    BY <2>3, <2>4, AppendToAny
  <2>6. /\ DOMAIN record.timeline = 1..Len(record.timeline)
        /\ DOMAIN record'.timeline = 1..Len(record'.timeline)
    BY <2>3, <2>5, DomainOfAny
  <2> QED
    BY <2>4, <2>5, <2>6
<1>2. Spec => [][Final]_vars
  BY <1>1, ResponseInvariant, PTL DEF Spec
<1> QED
  BY <1>2 DEF ClosedIsFinal
=============================================================================

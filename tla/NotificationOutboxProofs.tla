---------------------- MODULE NotificationOutboxProofs ----------------------
(***************************************************************************)
(* Theorems about NotificationOutbox, for every number of relays, workers, *)
(* events, resets and failures: an event is published once and once more   *)
(* per failure at most, it is never lost on its way to an attempt, and an  *)
(* attempt belongs to the event it names.                                  *)
(***************************************************************************)
EXTENDS NotificationOutbox, FiniteSetTheorems, SequenceTheorems, TLAPS

\* A busy relay has a row in hand, and only a busy relay holds a lock.
RowInHand ==
  \A r \in Relays : /\ rpc[r] # "idle" => row[r] \in Notification
                    /\ holds[r] => rpc[r] # "idle"

\* A batch is part of the topic, and a busy worker has a record left in it.
PositionsInBatch ==
  \A w \in Workers :
    /\ fetched[w] <= Len(topic)
    /\ wpc[w] # "idle" => position[w] < fetched[w]

\* The identity sequence is ahead of the messages.
IdsBefore == \A id \in stored : id < nextId

TypeInv == TypeOK /\ RowInHand /\ PositionsInBatch /\ IdsBefore
-----------------------------------------------------------------------------
(* The order of the due rows.                                              *)

\* Two sequences put together.
LEMMA Joined ==
  ASSUME NEW S, NEW a \in Seq(S), NEW b \in Seq(S), NEW t, t = a \o b
  PROVE  /\ t \in Seq(S) /\ Len(t) = Len(a) + Len(b)
         /\ \A j \in 1..Len(a) : t[j] = a[j]
         /\ \A j \in 1..Len(b) : t[Len(a) + j] = b[j]
<1>1. /\ t \in Seq(S) /\ Len(t) = Len(a) + Len(b)
      /\ \A i \in 1 .. Len(a) + Len(b) : t[i] = IF i <= Len(a) THEN a[i] ELSE b[i - Len(a)]
  BY ConcatProperties
<1>2. Len(a) \in Nat /\ Len(b) \in Nat
  OBVIOUS
<1>3. ASSUME NEW j \in 1..Len(a)
      PROVE  t[j] = a[j]
  BY <1>1, <1>2
<1>4. ASSUME NEW j \in 1..Len(b)
      PROVE  t[Len(a) + j] = b[j]
  <2>1. Len(a) + j \in 1..(Len(a) + Len(b)) /\ ~(Len(a) + j <= Len(a)) /\ Len(a) + j - Len(a) = j
    BY <1>2
  <2> QED
    BY <1>1, <2>1
<1> QED
  BY <1>1, <1>3, <1>4

\* One put between two sequences.
LEMMA PutBetween ==
  ASSUME NEW S, NEW a \in Seq(S), NEW x \in S, NEW b \in Seq(S), NEW t, t = a \o <<x>> \o b
  PROVE  /\ t \in Seq(S) /\ Len(t) = Len(a) + 1 + Len(b)
         /\ \A j \in 1..Len(a) : t[j] = a[j]
         /\ t[Len(a) + 1] = x
         /\ \A j \in 1..Len(b) : t[Len(a) + 1 + j] = b[j]
<1>1. ASSUME NEW one \in Seq(S), one = <<x>>, NEW front \in Seq(S), front = a \o one, t = front \o b
      PROVE  /\ t \in Seq(S) /\ Len(t) = Len(a) + 1 + Len(b)
             /\ \A j \in 1..Len(a) : t[j] = a[j]
             /\ t[Len(a) + 1] = x
             /\ \A j \in 1..Len(b) : t[Len(a) + 1 + j] = b[j]
  <2>1. Len(one) = 1 /\ one[1] = x /\ 1 \in 1..Len(one)
    BY <1>1
  <2>2. Len(front) = Len(a) + Len(one)
    BY ONLY <1>1, Joined
  <2>3. \A j \in 1..Len(a) : front[j] = a[j]
    BY ONLY front = a \o one, Joined
  <2>4. \A j \in 1..Len(one) : front[Len(a) + j] = one[j]
    BY ONLY front = a \o one, Joined
  <2>5. t \in Seq(S) /\ Len(t) = Len(front) + Len(b)
    BY ONLY t = front \o b, Joined
  <2>6. \A j \in 1..Len(front) : t[j] = front[j]
    BY ONLY t = front \o b, Joined
  <2>7. \A j \in 1..Len(b) : t[Len(front) + j] = b[j]
    BY ONLY t = front \o b, Joined
  <2>8. Len(a) \in Nat /\ Len(front) = Len(a) + 1
    BY <2>1, <2>2
  <2>9. front[Len(a) + 1] = x
    BY <2>1, <2>4
  <2>10. t[Len(a) + 1] = x /\ \A j \in 1..Len(a) : t[j] = a[j]
    BY ONLY <2>3, <2>6, <2>8, <2>9
  <2>11. \A j \in 1..Len(b) : t[Len(a) + 1 + j] = b[j]
    BY ONLY <2>7, <2>8
  <2> QED
    BY <2>5, <2>8, <2>10, <2>11
<1>2. <<x>> \in Seq(S) /\ a \o <<x>> \in Seq(S)
  OBVIOUS
<1> QED
  BY <1>1, <1>2

\* InsertAt keeps the others and adds the one.
LEMMA InsertedElements ==
  ASSUME NEW S, NEW s \in Seq(S), NEW i \in 1..(Len(s) + 1), NEW x \in S,
         NEW t, t = InsertAt(s, i, x)
  PROVE  /\ t \in Seq(S) /\ Len(t) = Len(s) + 1
         /\ \A j \in 1..(i - 1) : t[j] = s[j]
         /\ t[i] = x
         /\ \A j \in (i + 1)..(Len(s) + 1) : t[j] = s[j - 1]
<1>1. ASSUME NEW head \in Seq(S), head = SubSeq(s, 1, i - 1),
             NEW tail \in Seq(S), tail = SubSeq(s, i, Len(s)),
             t = head \o <<x>> \o tail
      PROVE  /\ t \in Seq(S) /\ Len(t) = Len(s) + 1
             /\ \A j \in 1..(i - 1) : t[j] = s[j]
             /\ t[i] = x
             /\ \A j \in (i + 1)..(Len(s) + 1) : t[j] = s[j - 1]
  <2>1. Len(head) = i - 1 /\ \A j \in 1..(i - 1) : head[j] = s[j]
    BY ONLY head = SubSeq(s, 1, i - 1)
  <2>2. /\ Len(tail) = Len(s) - i + 1
        /\ \A j \in 1..(Len(s) - i + 1) : tail[j] = s[j + i - 1]
    BY ONLY tail = SubSeq(s, i, Len(s))
  <2>3. t \in Seq(S) /\ Len(t) = Len(head) + 1 + Len(tail)
    BY ONLY t = head \o <<x>> \o tail, PutBetween
  <2>4. \A j \in 1..Len(head) : t[j] = head[j]
    BY ONLY t = head \o <<x>> \o tail, PutBetween
  <2>5. t[Len(head) + 1] = x
    BY ONLY t = head \o <<x>> \o tail, PutBetween
  <2>6. \A j \in 1..Len(tail) : t[Len(head) + 1 + j] = tail[j]
    BY ONLY t = head \o <<x>> \o tail, PutBetween
  <2>7. Len(s) \in Nat /\ Len(t) = Len(s) + 1
    BY ONLY <2>1, <2>2, <2>3
  <2>8. t[i] = x /\ \A j \in 1..(i - 1) : t[j] = s[j]
    BY ONLY <2>1, <2>4, <2>5
  <2>9. ASSUME NEW j \in (i + 1)..(Len(s) + 1)
        PROVE  t[j] = s[j - 1]
    <3>1. /\ j - i \in 1..Len(tail) /\ j - i \in 1..(Len(s) - i + 1)
          /\ Len(head) + 1 + (j - i) = j /\ (j - i) + i - 1 = j - 1
      BY ONLY <2>1, <2>2, <2>7
    <3>2. t[Len(head) + 1 + (j - i)] = tail[j - i] /\ tail[j - i] = s[(j - i) + i - 1]
      BY ONLY <2>2, <2>6, <3>1
    <3> QED
      BY ONLY <3>1, <3>2
  <2> QED
    BY <2>3, <2>7, <2>8, <2>9
<1>2. SubSeq(s, 1, i - 1) \in Seq(S) /\ SubSeq(s, i, Len(s)) \in Seq(S)
  OBVIOUS
<1>3. t = SubSeq(s, 1, i - 1) \o <<x>> \o SubSeq(s, i, Len(s))
  BY DEF InsertAt
<1> QED
  BY ONLY <1>1, <1>2, <1>3

\* A queue that each is in once stays so.
LEMMA InsertedType ==
  ASSUME NEW S, NEW s \in Seq(S), NEW i \in 1..(Len(s) + 1), NEW x,
         IsInjective(s), \A j \in 1..Len(s) : s[j] # x
  PROVE  InsertAt(s, i, x) \in Seq(S \cup {x}) /\ IsInjective(InsertAt(s, i, x))
<1>1. s \in Seq(S \cup {x}) /\ Len(s) \in Nat
  BY SeqMonotonic
<1>2. PICK T, t : T = S \cup {x} /\ t = InsertAt(s, i, x)
  OBVIOUS
<1>3. s \in Seq(T) /\ x \in T
  BY <1>1, <1>2
<1>4. /\ t \in Seq(T) /\ Len(t) = Len(s) + 1
      /\ \A j \in 1..(i - 1) : t[j] = s[j]
      /\ t[i] = x
      /\ \A j \in (i + 1)..(Len(s) + 1) : t[j] = s[j - 1]
  <2>1. t = InsertAt(s, i, x)
    BY ONLY <1>2
  <2> QED
    BY ONLY SMTT(20), <1>3, <2>1, i \in 1..(Len(s) + 1), InsertedElements
<1>5. \A j, k \in 1..Len(s) : s[j] = s[k] => j = k
  BY DEF IsInjective
<1>6. ASSUME NEW j \in 1..(Len(s) + 1), j # i
      PROVE  \E k \in 1..Len(s) : t[j] = s[k] /\ (j < i => k = j) /\ (j > i => k = j - 1)
  <2>1. CASE j < i
    <3>1. j \in 1..(i - 1) /\ j \in 1..Len(s)
      BY <2>1
    <3> QED
      BY <1>4, <2>1, <3>1
  <2>2. CASE j > i
    <3>1. j \in (i + 1)..(Len(s) + 1) /\ j - 1 \in 1..Len(s)
      BY <2>2
    <3> QED
      BY <1>4, <2>2, <3>1
  <2> QED
    BY <1>6, <2>1, <2>2
<1>7. ASSUME NEW j \in 1..(Len(s) + 1), NEW k \in 1..(Len(s) + 1), t[j] = t[k]
      PROVE  j = k
  <2>1. \A l \in 1..(Len(s) + 1) : l # i => t[l] # x
    BY <1>6
  <2>2. CASE j = i \/ k = i
    BY <1>4, <1>7, <2>1, <2>2
  <2>3. CASE j # i /\ k # i
    BY <1>5, <1>6, <1>7, <2>3
  <2> QED
    BY <2>2, <2>3
<1> QED
  BY <1>2, <1>4, <1>7 DEF IsInjective

\* RemoveAt drops the one and keeps the others.
LEMMA RemovedType ==
  ASSUME NEW S, NEW s \in Seq(S), NEW i \in 1..Len(s), IsInjective(s)
  PROVE  RemoveAt(s, i) \in Seq(S \ {s[i]}) /\ IsInjective(RemoveAt(s, i))
<1> DEFINE head == SubSeq(s, 1, i - 1)
           tail == SubSeq(s, i + 1, Len(s))
           t == RemoveAt(s, i)
<1>1. /\ head \in Seq(S) /\ Len(head) = i - 1
      /\ \A j \in 1..(i - 1) : head[j] = s[j]
  OBVIOUS
<1>2. /\ tail \in Seq(S) /\ Len(tail) = Len(s) - i
      /\ \A j \in 1..(Len(s) - i) : tail[j] = s[j + i]
  OBVIOUS
<1>3. t = head \o tail
  BY DEF RemoveAt
<1> HIDE DEF head, tail, t
<1>4. /\ t \in Seq(S) /\ Len(t) = Len(s) - 1
      /\ \A j \in 1..(i - 1) : t[j] = s[j]
      /\ \A j \in i..(Len(s) - 1) : t[j] = s[j + 1]
  <2>1. t \in Seq(S) /\ Len(t) = Len(s) - 1
    BY <1>1, <1>2, <1>3
  <2>2. \A j \in 1..(i - 1) : t[j] = head[j]
    BY <1>1, <1>2, <1>3
  <2>3. \A j \in i..(Len(s) - 1) : t[j] = tail[j - i + 1] /\ j - i + 1 \in 1..(Len(s) - i)
    BY <1>1, <1>2, <1>3
  <2>4. \A j \in i..(Len(s) - 1) : t[j] = s[j + 1]
    BY <1>2, <2>3
  <2> QED
    BY <1>1, <2>1, <2>2, <2>4
<1>5. \A j, k \in 1..Len(s) : s[j] = s[k] => j = k
  BY DEF IsInjective
<1>6. PICK x : x = s[i]
  OBVIOUS
<1>7. t \in Seq(S \ {x})
  <2>1. \A j \in 1..(Len(s) - 1) : t[j] \in S \ {x}
    BY <1>4, <1>5, <1>6
  <2>2. t \in [1..(Len(s) - 1) -> S]
    BY <1>4, LenProperties
  <2>3. t \in [1..(Len(s) - 1) -> S \ {x}] /\ Len(s) - 1 \in Nat
    BY <2>1, <2>2
  <2> QED
    BY <2>3, SeqDef
<1>8. \A j, k \in 1..(Len(s) - 1) : t[j] = t[k] => j = k
  BY <1>4, <1>5
<1> QED
  BY <1>4, <1>6, <1>7, <1>8 DEF IsInjective, t
-----------------------------------------------------------------------------
(* What the actions do to one part of the state.                           *)

\* One relay moves, the others stay.
LEMMA RelayAtType ==
  ASSUME TypeInv, NEW r \in Relays, NEW phase \in {"idle", "publish", "mark", "failed"},
         RelayAt(r, phase)
  PROVE  /\ rpc' \in [Relays -> {"idle", "publish", "mark", "failed"}]
         /\ rpc'[r] = phase
         /\ \A q \in Relays \ {r} : rpc'[q] = rpc[q]
BY DEF TypeInv, TypeOK, RelayAt

\* EndRelay forgets the row of one relay and its lock.
LEMMA EndRelayType ==
  ASSUME TypeInv, NEW r \in Relays, EndRelay(r)
  PROVE  /\ row' \in [Relays -> Notification \cup {None}]
         /\ holds' \in [Relays -> BOOLEAN]
         /\ rpc' \in [Relays -> {"idle", "publish", "mark", "failed"}]
         /\ row'[r] = None /\ holds'[r] = FALSE /\ rpc'[r] = "idle"
         /\ \A q \in Relays \ {r} : row'[q] = row[q] /\ holds'[q] = holds[q] /\ rpc'[q] = rpc[q]
BY RelayAtType DEF TypeInv, TypeOK, EndRelay

\* One worker moves, the others stay.
LEMMA WorkerAtType ==
  ASSUME TypeInv, NEW w \in Workers,
         NEW phase \in {"idle", "batch", "commit", "record", "confirm"}, WorkerAt(w, phase)
  PROVE  /\ wpc' \in [Workers -> {"idle", "batch", "commit", "record", "confirm"}]
         /\ wpc'[w] = phase
         /\ \A v \in Workers \ {w} : wpc'[v] = wpc[v]
BY DEF TypeInv, TypeOK, WorkerAt

\* A record more at the end of the topic.
LEMMA TopicGrows ==
  ASSUME TypeInv, NEW n \in Notification \cup Foreign, topic' = Append(topic, n)
  PROVE  /\ topic' \in Seq(Notification \cup Foreign)
         /\ Len(topic) \in Nat /\ Len(topic') = Len(topic) + 1
         /\ \A i \in 1..Len(topic) : topic'[i] = topic[i]
         /\ topic'[Len(topic) + 1] = n
         /\ ToSet(topic') = ToSet(topic) \cup {n}
<1>1. topic \in Seq(Notification \cup Foreign)
  BY DEF TypeInv, TypeOK
<1>2. /\ topic' \in Seq(Notification \cup Foreign)
      /\ Len(topic) \in Nat /\ Len(topic') = Len(topic) + 1
      /\ \A i \in 1..Len(topic) : topic'[i] = topic[i]
      /\ topic'[Len(topic) + 1] = n
  BY <1>1
<1>3. DOMAIN topic = 1..Len(topic) /\ DOMAIN topic' = 1..Len(topic')
  BY <1>1, <1>2, LenProperties
<1>4. ToSet(topic') = ToSet(topic) \cup {n}
  BY <1>2, <1>3 DEF ToSet
<1> QED
  BY <1>2, <1>4

\* What the topic has is what its offsets have.
LEMMA InTopic ==
  ASSUME TypeInv
  PROVE  /\ \A n : n \in ToSet(topic) <=> \E i \in 1..Len(topic) : topic[i] = n
         /\ ToSet(topic) \subseteq Notification \cup Foreign
<1>1. topic \in Seq(Notification \cup Foreign)
  BY DEF TypeInv, TypeOK
<1>2. DOMAIN topic = 1..Len(topic)
  BY <1>1, LenProperties
<1> QED
  BY <1>1, <1>2 DEF ToSet

\* A row that is not due any more is not in the order.
LEMMA NotDueType ==
  ASSUME TypeInv, NEW id, NotDue(id)
  PROVE  due' \in Seq(pending \ {id}) /\ IsInjective(due')
<1>1. due \in Seq(pending) /\ IsInjective(due)
  BY DEF TypeInv, TypeOK
<1>2. CASE id \notin ToSet(due) /\ UNCHANGED due
  <2>1. due \in [1..Len(due) -> pending] /\ Len(due) \in Nat /\ DOMAIN due = 1..Len(due)
    BY <1>1, LenProperties
  <2>2. due \in [1..Len(due) -> pending \ {id}]
    BY <1>2, <2>1 DEF ToSet
  <2>3. due \in Seq(pending \ {id})
    BY <2>1, <2>2, SeqDef
  <2> QED
    BY <1>1, <1>2, <2>3
<1>3. ASSUME NEW i \in 1..Len(due), due[i] = id, due' = RemoveAt(due, i)
      PROVE  due' \in Seq(pending \ {id}) /\ IsInjective(due')
  BY <1>1, <1>3, RemovedType
<1> QED
  BY <1>2, <1>3 DEF NotDue

\* The UPDATE of a relay leaves rows and order consistent.
LEMMA UpdateType ==
  ASSUME TypeInv, NEW r \in Relays, Update(r) \/ UNCHANGED outboxVars
  PROVE  /\ pending' \subseteq pending /\ due' \in Seq(pending') /\ IsInjective(due')
         /\ \/ pending' = pending
            \/ rpc[r] = "mark" /\ pending' = pending \ {row[r].id}
<1>1. CASE UNCHANGED outboxVars
  BY <1>1 DEF outboxVars, TypeInv, TypeOK
<1>2. CASE rpc[r] = "mark" /\ MarkRow(row[r].id)
  BY <1>2, NotDueType DEF MarkRow
<1>3. CASE rpc[r] # "mark" /\ DelayRow(row[r].id)
  <2>1. /\ due' \in Seq(pending \ {row[r].id}) /\ IsInjective(due') /\ pending' = pending
    BY <1>3, NotDueType DEF DelayRow
  <2>2. due' \in Seq(pending)
    BY <2>1, SeqMonotonic
  <2> QED
    BY <2>1, <2>2
<1> QED
  BY <1>1, <1>2, <1>3 DEF Update

\* The INSERT ... FROM targets writes rows of events that are there, for records
\* at hand, over no row; every such event has its row afterwards.
LEMMA InsertType ==
  ASSUME TypeInv, NEW records \in SUBSET (Notification \cup Foreign), Insert(records)
  PROVE  /\ attempts' \in [Ids -> Resets \cup {None}]
         /\ \A id \in Ids :
              \/ attempts'[id] = attempts[id]
              \/ /\ attempts[id] = None /\ id \in stored
                 /\ \E n \in records \cap Notification : n.id = id /\ attempts'[id] = n.era
         /\ \A n \in records \cap Notification : n.id \in stored => attempts'[n.id] # None
<1> DEFINE Mine(id) == {n \in records \ Foreign : n.id = id}
           Value(id) == IF attempts[id] = None /\ id \in stored /\ Mine(id) # {}
                        THEN (CHOOSE n \in Mine(id) : TRUE).era
                        ELSE attempts[id]
<1>1. attempts' = [id \in Ids |-> Value(id)]
  BY DEF Insert
<1>2. \A id \in Ids : attempts[id] \in Resets \cup {None}
  BY DEF TypeInv, TypeOK
<1>3. \A id \in Ids : Mine(id) # {} => (CHOOSE n \in Mine(id) : TRUE) \in Mine(id)
  OBVIOUS
<1>4. \A id : \A n \in Mine(id) :
        n \in records \cap Notification /\ n.id = id /\ n.era \in Resets /\ n.era # None
  BY ValuesAssumption DEF Notification
<1>5. \A n \in records \cap Notification : n \in Mine(n.id) /\ n.id \in Ids
  BY ValuesAssumption DEF Notification
<1> HIDE DEF Mine
<1>6. \A id \in Ids :
        \/ Value(id) = attempts[id]
        \/ /\ attempts[id] = None /\ id \in stored
           /\ \E n \in records \cap Notification : n.id = id /\ Value(id) = n.era
  BY <1>3, <1>4
<1>7. \A id \in Ids : Value(id) \in Resets \cup {None}
  BY <1>2, <1>3, <1>4
<1>8. \A n \in records \cap Notification : n.id \in stored => Value(n.id) # None
  <2> SUFFICES ASSUME NEW n \in records \cap Notification, n.id \in stored
               PROVE  Value(n.id) # None
    OBVIOUS
  <2>1. n.id \in Ids /\ Mine(n.id) # {}
    BY <1>5
  <2> QED
    BY <1>3, <1>4, <2>1
<1> HIDE DEF Value
<1> QED
  BY <1>1, <1>5, <1>6, <1>7, <1>8
-----------------------------------------------------------------------------
(* Every action preserves the types.                                       *)

\* A new event and a reset.
LEMMA TablesType ==
  ASSUME TypeInv, StoreEvent \/ Reset
  PROVE  TypeInv'
<1> USE DEF TypeInv
<1>1. CASE StoreEvent
  <2>1. PICK i \in 1..(Len(due) + 1) : due' = InsertAt(due, i, nextId)
    BY <1>1 DEF StoreEvent
  <2>2. /\ nextId <= MaxId /\ nextId \in Ids /\ nextId' \in 1..(MaxId + 1)
        /\ nextId' = nextId + 1
        /\ stored' = stored \cup {nextId} /\ pending' = pending \cup {nextId}
        /\ UNCHANGED <<resets, row, holds, rpc, topic, late, attempts, committed, owner, position,
                       fetched, wpc, faults>>
    BY <1>1, ConstantsAssumption
       DEF StoreEvent, TypeOK, Ids, relayVars, log, groupVars, workerVars
  <2>3. due' \in Seq(pending') /\ IsInjective(due')
    <3>1. due \in Seq(pending) /\ IsInjective(due)
      BY DEF TypeOK
    <3>2. \A id \in pending : id # nextId
      BY DEF TypeOK, IdsBefore
    <3>3. \A j \in 1..Len(due) : due[j] # nextId
      BY <3>1, <3>2, ElementOfSeq
    <3> QED
      BY <2>1, <2>2, <3>1, <3>3, InsertedType
  <2>4. IdsBefore'
    BY <2>2 DEF IdsBefore, TypeOK
  <2>5. TypeOK'
    BY <2>2, <2>3 DEF TypeOK
  <2> QED
    BY <2>2, <2>4, <2>5 DEF RowInHand, PositionsInBatch
<1>2. CASE Reset
  <2>1. /\ resets' \in Resets /\ stored' = {} /\ pending' = {} /\ due' = << >>
        /\ attempts' = [id \in Ids |-> None] /\ nextId' = nextId
        /\ UNCHANGED <<row, holds, rpc, topic, late, committed, owner, position, fetched, wpc, faults>>
    BY <1>2, ConstantsAssumption
       DEF Reset, TypeOK, Resets, NextIdAfterReset, relayVars, log, groupVars, workerVars
  <2>2. due' \in Seq(pending') /\ IsInjective(due')
    BY <2>1 DEF IsInjective
  <2>3. attempts' \in [Ids -> Resets \cup {None}]
    BY <2>1
  <2> QED
    BY <2>1, <2>2, <2>3 DEF TypeOK, RowInHand, PositionsInBatch, IdsBefore
<1> QED
  BY <1>1, <1>2

\* The topic grows by a record, or not at all.
TopicStep(n) == topic' = topic \/ topic' = Append(topic, n)

\* Batches and offsets stay in the topic.
LEMMA TopicKept ==
  ASSUME TypeInv, NEW n \in Notification \cup Foreign, TopicStep(n)
  PROVE  /\ topic' \in Seq(Notification \cup Foreign)
         /\ Len(topic) \in Nat /\ Len(topic') \in Nat /\ Len(topic) <= Len(topic')
         /\ \A i \in 1..Len(topic) : topic'[i] = topic[i]
         /\ \A i \in 1..Len(topic') : i \in 1..Len(topic) \/ topic'[i] = n
         /\ ToSet(topic) \subseteq ToSet(topic') /\ ToSet(topic') \subseteq ToSet(topic) \cup {n}
         /\ committed' = committed => committed' \in 0..Len(topic')
         /\ UNCHANGED workerVars => PositionsInBatch'
<1>1. /\ topic \in Seq(Notification \cup Foreign) /\ committed \in 0..Len(topic)
      /\ \A w \in Workers : fetched[w] \in Nat /\ fetched[w] <= Len(topic)
  BY DEF TypeInv, TypeOK, PositionsInBatch
<1>2. /\ topic' \in Seq(Notification \cup Foreign)
      /\ Len(topic) \in Nat /\ Len(topic') \in Nat /\ Len(topic) <= Len(topic')
      /\ \A i \in 1..Len(topic) : topic'[i] = topic[i]
      /\ \A i \in 1..Len(topic') : i \in 1..Len(topic) \/ topic'[i] = n
      /\ ToSet(topic) \subseteq ToSet(topic') /\ ToSet(topic') \subseteq ToSet(topic) \cup {n}
  <2>1. CASE topic' = topic
    BY <1>1, <2>1
  <2>2. CASE topic' = Append(topic, n)
    BY <2>2, TopicGrows
  <2> QED
    BY <2>1, <2>2 DEF TopicStep
<1>3. UNCHANGED workerVars => PositionsInBatch'
  BY <1>1, <1>2 DEF TypeInv, PositionsInBatch, workerVars
<1> QED
  BY <1>1, <1>2, <1>3

\* Taking a row, publishing it, and losing the session.
LEMMA RelayType ==
  ASSUME TypeInv, NEW r \in Relays,
         Select(r) \/ Publish(r) \/ PublishFails(r) \/ SessionLost(r)
  PROVE  TypeInv'
<1> USE DEF TypeInv
<1>1. CASE Select(r)
  <2>1. PICK i \in 1..Len(due) : row' = [row EXCEPT ![r] = [id |-> due[i], era |-> resets]]
    BY <1>1 DEF Select
  <2>2. [id |-> due[i], era |-> resets] \in Notification
    BY DEF TypeOK, Notification
  <2>3. row' \in [Relays -> Notification \cup {None}] /\ row'[r] \in Notification
        /\ \A q \in Relays \ {r} : row'[q] = row[q]
    BY <2>1, <2>2 DEF TypeOK
  <2>4. /\ holds' = [holds EXCEPT ![r] = TRUE] /\ RelayAt(r, "publish")
        /\ UNCHANGED <<stored, nextId, resets, pending, due, topic, late, attempts, committed,
                       owner, position, fetched, wpc, faults>>
    BY <1>1 DEF Select, tables, outboxVars, log, groupVars, workerVars
  <2>5. /\ rpc' \in [Relays -> {"idle", "publish", "mark", "failed"}] /\ rpc'[r] = "publish"
        /\ \A q \in Relays \ {r} : rpc'[q] = rpc[q]
    BY <2>4, RelayAtType
  <2>6. /\ holds' \in [Relays -> BOOLEAN]
        /\ \A q \in Relays \ {r} : holds'[q] = holds[q]
    BY <2>4 DEF TypeOK
  <2>7. TypeOK'
    BY <2>3, <2>4, <2>5, <2>6 DEF TypeOK
  <2>8. RowInHand'
    BY <2>3, <2>5, <2>6 DEF RowInHand
  <2> QED
    BY <2>4, <2>7, <2>8 DEF PositionsInBatch, IdsBefore
<1>2. CASE Publish(r) \/ PublishFails(r)
  <2>1. rpc[r] = "publish" /\ row[r] \in Notification
    BY <1>2 DEF Publish, PublishFails, RowInHand
  <2>2. /\ TopicStep(row[r]) /\ late' \subseteq late \cup {row[r]}
        /\ faults' \in 0..MaxFaults
        /\ RelayAt(r, "mark") \/ RelayAt(r, "failed")
        /\ UNCHANGED <<stored, nextId, resets, pending, due, row, holds, attempts, committed,
                       owner, position, fetched, wpc>>
    BY <1>2, ConstantsAssumption
       DEF Publish, PublishFails, TopicStep, Fault, TypeOK, tables, outboxVars, log, groupVars,
           workerVars
  <2>3. /\ rpc' \in [Relays -> {"idle", "publish", "mark", "failed"}]
        /\ \A q \in Relays \ {r} : rpc'[q] = rpc[q]
    BY <2>2, RelayAtType
  <2>4. /\ topic' \in Seq(Notification \cup Foreign) /\ committed' \in 0..Len(topic')
        /\ PositionsInBatch'
    BY <2>1, <2>2, TopicKept DEF workerVars
  <2>5. late' \subseteq Notification
    BY <2>1, <2>2 DEF TypeOK
  <2>6. TypeOK'
    BY <2>2, <2>3, <2>4, <2>5 DEF TypeOK
  <2>7. rpc'[r] # "idle"
    BY <2>2, RelayAtType
  <2>8. RowInHand'
    BY <2>1, <2>2, <2>3, <2>7 DEF RowInHand
  <2> QED
    BY <2>2, <2>4, <2>6, <2>8 DEF IdsBefore
<1>3. CASE SessionLost(r)
  <2>1. /\ holds' = [holds EXCEPT ![r] = FALSE] /\ faults' \in 0..MaxFaults
        /\ UNCHANGED <<stored, nextId, resets, pending, due, row, rpc, topic, late, attempts,
                       committed, owner, position, fetched, wpc>>
    BY <1>3, ConstantsAssumption
       DEF SessionLost, Fault, TypeOK, tables, outboxVars, log, groupVars, workerVars
  <2>2. holds' \in [Relays -> BOOLEAN] /\ \A q \in Relays : holds'[q] => holds[q]
    BY <2>1 DEF TypeOK
  <2> QED
    BY <2>1, <2>2 DEF TypeOK, RowInHand, PositionsInBatch, IdsBefore
<1> QED
  BY <1>1, <1>2, <1>3

\* A relay that is done with its row, or dies.
LEMMA RelayEndType ==
  ASSUME TypeInv, NEW r \in Relays, CommitRow(r) \/ CommitRowFails(r) \/ RelayCrash(r)
  PROVE  TypeInv'
<1> USE DEF TypeInv
<1>1. rpc[r] # "idle" /\ row[r] \in Notification
  BY DEF CommitRow, CommitRowFails, RelayCrash, RowInHand
<1>2. /\ EndRelay(r) /\ TopicStep(row[r]) /\ faults' \in 0..MaxFaults
      /\ Update(r) \/ UNCHANGED outboxVars
      /\ UNCHANGED <<stored, nextId, resets, late, attempts, committed, owner, position, fetched,
                     wpc>>
  BY ConstantsAssumption
     DEF CommitRow, CommitRowFails, RelayCrash, TopicStep, Fault, TypeOK, tables, outboxVars, log,
         groupVars, workerVars
<1>3. /\ row' \in [Relays -> Notification \cup {None}] /\ holds' \in [Relays -> BOOLEAN]
      /\ rpc' \in [Relays -> {"idle", "publish", "mark", "failed"}]
      /\ RowInHand'
  BY <1>2, EndRelayType DEF RowInHand
<1>4. /\ topic' \in Seq(Notification \cup Foreign) /\ committed' \in 0..Len(topic')
      /\ PositionsInBatch'
  BY <1>1, <1>2, TopicKept DEF workerVars
<1>5. pending' \subseteq stored /\ due' \in Seq(pending') /\ IsInjective(due')
  BY <1>2, UpdateType DEF TypeOK
<1>6. TypeOK'
  BY <1>2, <1>3, <1>4, <1>5 DEF TypeOK
<1> QED
  BY <1>2, <1>3, <1>4, <1>6 DEF IdsBefore

\* Time, late and foreign records, and fencing.
LEMMA AroundType ==
  ASSUME TypeInv,
         \/ Fence
         \/ \E id \in Ids : BackoffElapses(id)
         \/ \E n \in late : LateArrival(n)
         \/ \E m \in Foreign : ForeignRecord(m)
  PROVE  TypeInv'
<1> USE DEF TypeInv
<1>1. CASE Fence
  BY <1>1, ConstantsAssumption
     DEF Fence, Fault, TypeOK, RowInHand, PositionsInBatch, IdsBefore, tables, outboxVars, relayVars, log,
         workerVars
<1>2. ASSUME NEW id \in Ids, BackoffElapses(id) PROVE TypeInv'
  <2>1. /\ id \in pending \ ToSet(due) /\ due' = Append(due, id)
        /\ UNCHANGED <<stored, nextId, resets, pending, row, holds, rpc, topic, late, attempts,
                       committed, owner, position, fetched, wpc, faults>>
    BY <1>2 DEF BackoffElapses, tables, relayVars, log, groupVars, workerVars
  <2>2. due \in Seq(pending) /\ IsInjective(due)
    BY DEF TypeOK
  <2>3. /\ due' \in Seq(pending) /\ Len(due') = Len(due) + 1 /\ due'[Len(due) + 1] = id
        /\ \A i \in 1..Len(due) : due'[i] = due[i]
    BY <2>1, <2>2
  <2>4. Len(due) \in Nat /\ DOMAIN due = 1..Len(due) /\ DOMAIN due' = 1..(Len(due) + 1)
    BY <2>2, <2>3, LenProperties
  <2>5. \A i \in 1..Len(due) : due[i] # id
    BY <2>1, <2>4 DEF ToSet
  <2>6. IsInjective(due')
    BY <2>2, <2>3, <2>4, <2>5 DEF IsInjective
  <2> QED
    BY <2>1, <2>3, <2>6 DEF TypeOK, RowInHand, PositionsInBatch, IdsBefore
<1>3. ASSUME NEW n \in Notification \cup Foreign, topic' = Append(topic, n),
             late' \subseteq late, faults' \in 0..MaxFaults,
             UNCHANGED <<tables, outboxVars, relayVars, attempts, groupVars, workerVars>>
      PROVE  TypeInv'
  <2>1. /\ topic' \in Seq(Notification \cup Foreign)
        /\ committed' = committed => committed' \in 0..Len(topic')
        /\ PositionsInBatch'
    BY <1>3, TopicKept DEF TopicStep
  <2>2. TypeOK' /\ RowInHand'
    BY <1>3, <2>1 DEF TypeOK, RowInHand, tables, outboxVars, relayVars, groupVars, workerVars
  <2> QED
    BY <1>3, <2>1, <2>2 DEF IdsBefore, tables
<1>4. ASSUME NEW n \in late, LateArrival(n) PROVE TypeInv'
  <2>1. n \in Notification /\ faults' \in 0..MaxFaults
    BY <1>4 DEF LateArrival, TypeOK
  <2> QED
    BY <1>3, <1>4, <2>1 DEF LateArrival
<1>5. ASSUME NEW m \in Foreign, ForeignRecord(m) PROVE TypeInv'
  <2>1. faults' \in 0..MaxFaults
    BY <1>5, ConstantsAssumption DEF ForeignRecord, Fault, TypeOK
  <2> QED
    BY <1>3, <1>5, <2>1 DEF ForeignRecord
<1> QED
  BY <1>1, <1>2, <1>4, <1>5

\* A batch is a set of records of the topic.
LEMMA BatchInTopic ==
  ASSUME TypeInv, NEW w \in Workers, wpc[w] # "idle"
  PROVE  /\ position[w] \in Nat /\ fetched[w] \in Nat /\ Len(topic) \in Nat
         /\ position[w] + 1 <= fetched[w] /\ fetched[w] <= Len(topic)
         /\ Batch(w) \in SUBSET (Notification \cup Foreign)
         /\ {topic[position[w] + 1]} \in SUBSET (Notification \cup Foreign)
         /\ topic[position[w] + 1] \in Batch(w)
<1>1. /\ position[w] \in Nat /\ fetched[w] \in Nat /\ topic \in Seq(Notification \cup Foreign)
      /\ Len(topic) \in Nat /\ position[w] < fetched[w] /\ fetched[w] <= Len(topic)
  BY DEF TypeInv, TypeOK, PositionsInBatch
<1>2. \A i \in 1..Len(topic) : topic[i] \in Notification \cup Foreign
  BY <1>1, ElementOfSeq
<1>3. \A i \in (position[w] + 1)..fetched[w] : i \in 1..Len(topic)
  BY <1>1
<1> QED
  BY <1>1, <1>2, <1>3 DEF Batch

\* The steps of a worker that write attempts.
LEMMA StoreType ==
  ASSUME TypeInv, NEW w \in Workers, StoreBatch(w) \/ StoreRecord(w) \/ StoreFails(w)
  PROVE  TypeInv'
<1> USE DEF TypeInv
<1>1. wpc[w] # "idle"
  BY DEF StoreBatch, StoreRecord, StoreFails
<1>2. /\ UNCHANGED attempts \/ Insert(Batch(w)) \/ InsertOne(w)
      /\ \/ UNCHANGED fetched
         \/ fetched' = [fetched EXCEPT ![w] = position[w]] /\ WorkerAt(w, "idle")
      /\ \E phase \in {"commit", "record", "confirm", "idle"} : WorkerAt(w, phase)
      /\ faults' \in 0..MaxFaults
      /\ UNCHANGED <<stored, nextId, resets, pending, due, row, holds, rpc, topic, late, committed,
                     owner, position>>
  <2>1. CASE StoreBatch(w)
    BY <2>1 DEF StoreBatch, TypeOK, tables, outboxVars, relayVars, log, groupVars
  <2>2. CASE StoreRecord(w)
    BY <2>2 DEF StoreRecord, TypeOK, tables, outboxVars, relayVars, log, groupVars
  <2>3. CASE StoreFails(w)
    BY <2>3, ConstantsAssumption
       DEF StoreFails, AfterStoreFailure, Rewound, Fault, TypeOK, tables, outboxVars, relayVars,
           log, groupVars
  <2> QED
    BY <2>1, <2>2, <2>3
<1>3. attempts' \in [Ids -> Resets \cup {None}]
  <2>1. Insert(Batch(w)) \/ InsertOne(w) => attempts' \in [Ids -> Resets \cup {None}]
    BY <1>1, BatchInTopic, InsertType DEF InsertOne
  <2> QED
    BY <1>2, <2>1 DEF TypeOK
<1>4. PICK phase \in {"commit", "record", "confirm", "idle"} : WorkerAt(w, phase)
  BY <1>2
<1>5. /\ wpc' \in [Workers -> {"idle", "batch", "commit", "record", "confirm"}]
      /\ wpc'[w] = phase
      /\ \A v \in Workers \ {w} : wpc'[v] = wpc[v]
  BY <1>4, WorkerAtType
<1>6. /\ fetched' \in [Workers -> Nat]
      /\ \A v \in Workers \ {w} : fetched'[v] = fetched[v]
      /\ fetched'[w] = fetched[w] \/ (fetched'[w] = position[w] /\ wpc'[w] = "idle")
  <2>1. WorkerAt(w, "idle") => wpc'[w] = "idle"
    BY WorkerAtType
  <2>2. fetched \in [Workers -> Nat] /\ position[w] \in Nat
    BY DEF TypeOK
  <2> QED
    BY <1>2, <2>1, <2>2
<1>7. PositionsInBatch'
  BY <1>1, <1>2, <1>5, <1>6, BatchInTopic DEF PositionsInBatch
<1>8. TypeOK'
  BY <1>2, <1>3, <1>5, <1>6 DEF TypeOK
<1> QED
  BY <1>2, <1>7, <1>8 DEF RowInHand, IdsBefore

\* Polling, and confirming records.
LEMMA OffsetType ==
  ASSUME TypeInv, NEW w \in Workers,
         Poll(w) \/ CommitOffset(w) \/ CommitOffsetFails(w) \/ WorkerRestarts(w)
  PROVE  TypeInv'
<1> USE DEF TypeInv
<1>0. topic \in Seq(Notification \cup Foreign) /\ Len(topic) \in Nat /\ position[w] \in Nat
  BY DEF TypeOK
<1>1. ASSUME NEW phase \in {"idle", "batch", "commit", "record", "confirm"},
             NEW p \in Nat, NEW e \in Nat, WorkerAt(w, phase),
             position' = [position EXCEPT ![w] = p], fetched' = [fetched EXCEPT ![w] = e],
             e <= Len(topic), phase # "idle" => p < e,
             committed' \in 0..Len(topic), owner' \in Workers \cup {None}, faults' \in 0..MaxFaults,
             UNCHANGED <<tables, outboxVars, relayVars, log, attempts>>
      PROVE  TypeInv'
  <2>1. /\ wpc' \in [Workers -> {"idle", "batch", "commit", "record", "confirm"}]
        /\ wpc'[w] = phase /\ \A v \in Workers \ {w} : wpc'[v] = wpc[v]
    BY <1>1, WorkerAtType
  <2>2. /\ position' \in [Workers -> Nat] /\ fetched' \in [Workers -> Nat]
        /\ position'[w] = p /\ fetched'[w] = e
        /\ \A v \in Workers \ {w} : position'[v] = position[v] /\ fetched'[v] = fetched[v]
    BY <1>1 DEF TypeOK
  <2>3. /\ UNCHANGED <<stored, nextId, resets, pending, due, row, holds, rpc, topic, late, attempts>>
    BY <1>1 DEF tables, outboxVars, relayVars, log
  <2>4. PositionsInBatch'
    BY <1>1, <2>1, <2>2, <2>3 DEF PositionsInBatch
  <2>5. TypeOK'
    BY <1>1, <2>1, <2>2, <2>3 DEF TypeOK
  <2> QED
    BY <2>3, <2>4, <2>5 DEF RowInHand, IdsBefore
<1>2. CASE Poll(w)
  <2> DEFINE start == IF owner = w THEN position[w] ELSE committed
  <2>1. PICK e \in (start + 1)..Len(topic) :
          /\ position' = [position EXCEPT ![w] = start] /\ fetched' = [fetched EXCEPT ![w] = e]
          /\ WorkerAt(w, "batch") /\ owner' = w
          /\ UNCHANGED <<tables, outboxVars, relayVars, log, attempts, committed, faults>>
    BY <1>2 DEF Poll
  <2>2. start \in Nat /\ e \in Nat /\ start < e /\ e <= Len(topic)
    BY <1>0, <2>1 DEF TypeOK
  <2>3. committed' \in 0..Len(topic) /\ faults' \in 0..MaxFaults
    BY <2>1 DEF TypeOK
  <2> HIDE DEF start
  <2> QED
    BY <1>1, <2>1, <2>2, <2>3
<1>3. CASE CommitOffset(w)
  <2>1. /\ wpc[w] # "idle" /\ committed' = position[w] + 1
        /\ position' = [position EXCEPT ![w] = position[w] + 1]
        /\ UNCHANGED <<tables, outboxVars, relayVars, log, attempts, owner, fetched, faults>>
    BY <1>3 DEF CommitOffset, Confirmed
  <2>2. /\ fetched[w] \in Nat /\ position[w] + 1 <= fetched[w] /\ fetched[w] <= Len(topic)
    BY <2>1, BatchInTopic
  <2>3. PICK phase \in {"idle", "record", "commit"} :
          WorkerAt(w, phase) /\ (phase # "idle" => position[w] + 1 # fetched[w])
    BY <1>3 DEF CommitOffset, Confirmed
  <2>4. fetched' = [fetched EXCEPT ![w] = fetched[w]]
    BY <2>1 DEF TypeOK
  <2>5. /\ committed' \in 0..Len(topic) /\ owner' \in Workers \cup {None}
        /\ faults' \in 0..MaxFaults /\ position[w] + 1 \in Nat
        /\ phase # "idle" => position[w] + 1 < fetched[w]
    BY <1>0, <2>1, <2>2, <2>3 DEF TypeOK
  <2> QED
    BY <1>1, <2>1, <2>2, <2>3, <2>4, <2>5
<1>4. CASE CommitOffsetFails(w)
  <2>1. /\ wpc[w] # "idle"
        /\ committed' = committed \/ committed' = position[w] + 1
        /\ WorkerAt(w, "idle") /\ fetched' = [fetched EXCEPT ![w] = position[w]]
        /\ faults' \in 0..MaxFaults
        /\ UNCHANGED <<tables, outboxVars, relayVars, log, attempts, owner, position>>
    BY <1>4, ConstantsAssumption DEF CommitOffsetFails, Rewound, Fault, TypeOK
  <2>2. position[w] + 1 <= Len(topic) /\ position[w] <= Len(topic)
    BY <2>1, BatchInTopic
  <2>3. position' = [position EXCEPT ![w] = position[w]]
    BY <2>1 DEF TypeOK
  <2>4. committed' \in 0..Len(topic) /\ owner' \in Workers \cup {None}
    BY <1>0, <2>1, <2>2 DEF TypeOK
  <2> QED
    BY <1>0, <1>1, <2>1, <2>2, <2>3, <2>4
<1>5. CASE WorkerRestarts(w)
  <2>1. /\ WorkerAt(w, "idle") /\ position' = [position EXCEPT ![w] = 0]
        /\ fetched' = [fetched EXCEPT ![w] = 0]
        /\ UNCHANGED <<tables, outboxVars, relayVars, log, attempts, committed>>
    BY <1>5 DEF WorkerRestarts
  <2>2. /\ faults' \in 0..MaxFaults /\ owner' \in Workers \cup {None} /\ committed' \in 0..Len(topic)
    BY <1>5, ConstantsAssumption DEF WorkerRestarts, Fault, TypeOK
  <2>3. 0 \in Nat /\ 0 <= Len(topic)
    BY <1>0
  <2> QED
    BY <1>1, <2>1, <2>2, <2>3
<1> QED
  BY <1>2, <1>3, <1>4, <1>5

\* Every step preserves the types.
LEMMA TypeStep == TypeInv /\ [Next]_vars => TypeInv'
<1> SUFFICES ASSUME TypeInv, [Next]_vars PROVE TypeInv'
  OBVIOUS
<1>1. CASE Next
  <2>1. ASSUME NEW r \in Relays, RelayStep(r) \/ SessionLost(r) \/ RelayCrash(r) PROVE TypeInv'
    BY <2>1, RelayType, RelayEndType DEF RelayStep
  <2>2. ASSUME NEW w \in Workers, WorkerStep(w) \/ WorkerRestarts(w) PROVE TypeInv'
    BY <2>2, StoreType, OffsetType DEF WorkerStep
  <2> QED
    BY <1>1, <2>1, <2>2, TablesType, AroundType DEF Next
<1>2. CASE UNCHANGED vars
  BY <1>2 DEF vars, tables, outboxVars, relayVars, log, groupVars, workerVars, TypeInv, TypeOK,
              RowInHand, PositionsInBatch, IdsBefore
<1> QED
  BY <1>1, <1>2

\* The initial state has the types.
LEMMA TypeInit == Init => TypeInv
<1> SUFFICES ASSUME Init PROVE TypeInv
  OBVIOUS
<1>1. due \in Seq(pending) /\ IsInjective(due) /\ topic \in Seq(Notification \cup Foreign)
      /\ Len(topic) = 0
  BY DEF Init, IsInjective
<1>2. TypeOK
  BY <1>1, ConstantsAssumption DEF Init, TypeOK, Resets
<1>3. RowInHand /\ PositionsInBatch /\ IdsBefore
  BY <1>1 DEF Init, RowInHand, PositionsInBatch, IdsBefore
<1> QED
  BY <1>2, <1>3 DEF TypeInv

\* In every state tables, topic, relays and workers are well formed: the order of
\* due rows has each pending row once at most (relay_once), and a busy worker has
\* a record of the topic before it (_process_notification_batch).
THEOREM TypeCorrect == Spec => []TypeInv
BY TypeInit, TypeStep, PTL DEF Spec
-----------------------------------------------------------------------------
(* Records and attempts belong to one event.                               *)

\* The notification is in the topic, on its way there, or a relay's row.
InPlay(n) == n \in ToSet(topic) \/ n \in late \/ \E r \in Relays : row[r] = n

\* A notification outlives its event at a reset, and then no event has its id.
EraInv ==
  \A n \in Notification :
    InPlay(n) => n.id < nextId /\ (n.id \in stored => n.era = resets)

\* A transaction of the API or of an ingress worker, or none.
LEMMA TablesShape ==
  ASSUME TypeInv, [Next]_vars
  PROVE  \/ UNCHANGED tables
         \/ StoreEvent
         \/ Reset
BY DEF Next, vars, Fence, RelayStep, Select, Publish, PublishFails, CommitRow, CommitRowFails,
       SessionLost, RelayCrash, BackoffElapses, LateArrival, ForeignRecord, WorkerStep, Poll,
       StoreBatch, StoreRecord, StoreFails, CommitOffset, CommitOffsetFails, WorkerRestarts

\* A notification comes into play with a row of a stored event.
LEMMA InPlayStep ==
  ASSUME TypeInv, [Next]_vars, NEW n \in Notification, InPlay(n)'
  PROVE  InPlay(n) \/ (n.id \in stored /\ n.era = resets /\ UNCHANGED tables)
<1> USE DEF TypeInv
<1>1. ASSUME UNCHANGED <<topic, late, row>> PROVE InPlay(n)
  BY <1>1 DEF InPlay
<1>2. ASSUME NEW m \in Notification \cup Foreign, InPlay(m) \/ m \in Foreign, TopicStep(m),
             late' \subseteq late \cup {m}, \A r \in Relays : row'[r] = row[r] \/ row'[r] = None
      PROVE  InPlay(n)
  <2>1. ToSet(topic') \subseteq ToSet(topic) \cup {m}
    BY <1>2, TopicKept
  <2>2. n # None /\ n \notin Foreign
    BY ValuesAssumption
  <2> QED
    BY <1>2, <2>1, <2>2 DEF InPlay
<1>3. ASSUME NEW r \in Relays, Publish(r) \/ PublishFails(r) PROVE InPlay(n)
  <2>1. row[r] \in Notification /\ InPlay(row[r])
    BY <1>3 DEF Publish, PublishFails, RowInHand, InPlay
  <2>2. TopicStep(row[r]) /\ late' \subseteq late \cup {row[r]} /\ row' = row
    BY <1>3 DEF Publish, PublishFails, TopicStep, log
  <2> QED
    BY <1>2, <2>1, <2>2
<1>4. ASSUME NEW r \in Relays, CommitRow(r) \/ CommitRowFails(r) \/ RelayCrash(r) PROVE InPlay(n)
  <2>1. row[r] \in Notification /\ InPlay(row[r])
    BY <1>4 DEF CommitRow, CommitRowFails, RelayCrash, RowInHand, InPlay
  <2>2. TopicStep(row[r]) /\ late' = late /\ EndRelay(r)
    BY <1>4 DEF CommitRow, CommitRowFails, RelayCrash, TopicStep, log
  <2>3. \A q \in Relays : row'[q] = row[q] \/ row'[q] = None
    BY <2>2, EndRelayType
  <2> QED
    BY <1>2, <2>1, <2>2, <2>3
<1>5. ASSUME NEW m \in late, LateArrival(m) PROVE InPlay(n)
  <2>1. m \in Notification /\ InPlay(m) /\ TopicStep(m) /\ late' \subseteq late /\ row' = row
    BY <1>5 DEF LateArrival, TypeOK, InPlay, TopicStep, relayVars
  <2> QED
    BY <1>2, <2>1
<1>6. ASSUME NEW m \in Foreign, ForeignRecord(m) PROVE InPlay(n)
  <2>1. TopicStep(m) /\ late' = late /\ row' = row
    BY <1>6 DEF ForeignRecord, TopicStep, relayVars
  <2> QED
    BY <1>2, <2>1
<1>7. ASSUME NEW r \in Relays, Select(r)
      PROVE  InPlay(n) \/ (n.id \in stored /\ n.era = resets /\ UNCHANGED tables)
  <2>1. PICK i \in 1..Len(due) : row' = [row EXCEPT ![r] = [id |-> due[i], era |-> resets]]
    BY <1>7 DEF Select
  <2>2. UNCHANGED tables /\ UNCHANGED log
    BY <1>7 DEF Select
  <2>3. due[i] \in stored
    BY ElementOfSeq DEF TypeOK
  <2>4. \A q \in Relays : row'[q] = row[q] \/ row'[q] = [id |-> due[i], era |-> resets]
    BY <2>1 DEF TypeOK
  <2>5. InPlay(n) \/ n = [id |-> due[i], era |-> resets]
    BY <2>2, <2>4 DEF InPlay, log
  <2> QED
    BY <2>2, <2>3, <2>5
<1>8. CASE \/ UNCHANGED vars \/ StoreEvent \/ Reset \/ Fence
           \/ \E r \in Relays : SessionLost(r)
           \/ \E id \in Ids : BackoffElapses(id)
           \/ \E w \in Workers : WorkerStep(w) \/ WorkerRestarts(w)
  <2>1. UNCHANGED <<topic, late, row>>
    BY <1>8 DEF vars, relayVars, log, StoreEvent, Reset, Fence, SessionLost, BackoffElapses,
                WorkerStep, Poll, StoreBatch, StoreRecord, StoreFails, CommitOffset,
                CommitOffsetFails, WorkerRestarts
  <2> QED
    BY <1>1, <2>1
<1> QED
  BY <1>3, <1>4, <1>5, <1>6, <1>7, <1>8 DEF Next, RelayStep

\* No id is given twice, so no notification is of another event than its own.
LEMMA EraStep ==
  ASSUME TypeInv, [Next]_vars, EraInv
  PROVE  EraInv'
<1> SUFFICES ASSUME NEW n \in Notification, InPlay(n)'
             PROVE  n.id < nextId' /\ (n.id \in stored' => n.era = resets')
  BY DEF EraInv
<1>1. n.id \in Nat /\ nextId \in Nat
  BY ConstantsAssumption DEF TypeInv, TypeOK, Notification, Ids
<1>2. CASE UNCHANGED tables
  BY <1>2, InPlayStep DEF EraInv, TypeInv, IdsBefore, tables
<1>3. CASE StoreEvent \/ Reset
  <2>1. \/ nextId' = nextId + 1 /\ stored' = stored \cup {nextId} /\ resets' = resets
        \/ nextId' = nextId /\ stored' = {}
    BY <1>3 DEF StoreEvent, Reset, NextIdAfterReset
  <2>2. ~UNCHANGED tables
    BY <1>1, <1>3 DEF StoreEvent, Reset, tables, TypeInv, TypeOK, Resets
  <2>3. InPlay(n)
    BY <2>2, InPlayStep
  <2> QED
    BY <1>1, <2>1, <2>3 DEF EraInv
<1> QED
  BY <1>2, <1>3, TablesShape

\* The statements that write attempts.
LEMMA AttemptsShape ==
  ASSUME TypeInv, [Next]_vars
  PROVE  \/ UNCHANGED attempts /\ (UNCHANGED tables \/ StoreEvent)
         \/ Reset
         \/ /\ UNCHANGED <<tables, log>>
            /\ \E w \in Workers : \/ wpc[w] = "batch" /\ Insert(Batch(w))
                                  \/ wpc[w] = "record" /\ InsertOne(w)
<1>1. ASSUME NEW w \in Workers, StoreBatch(w) \/ StoreRecord(w) \/ StoreFails(w)
      PROVE  /\ UNCHANGED <<tables, log>>
             /\ \/ UNCHANGED attempts
                \/ wpc[w] = "batch" /\ Insert(Batch(w))
                \/ wpc[w] = "record" /\ InsertOne(w)
  BY <1>1 DEF StoreBatch, StoreRecord, StoreFails
<1>2. ASSUME NEW w \in Workers, WorkerStep(w) \/ WorkerRestarts(w)
      PROVE  \/ UNCHANGED <<attempts, tables>>
             \/ StoreBatch(w) \/ StoreRecord(w) \/ StoreFails(w)
  BY <1>2 DEF WorkerStep, Poll, CommitOffset, CommitOffsetFails, WorkerRestarts
<1>3. ASSUME NEW r \in Relays, RelayStep(r) \/ SessionLost(r) \/ RelayCrash(r)
      PROVE  UNCHANGED <<attempts, tables>>
  BY <1>3 DEF RelayStep, Select, Publish, PublishFails, CommitRow, CommitRowFails, SessionLost,
              RelayCrash
<1>4. CASE \/ Fence
           \/ \E id \in Ids : BackoffElapses(id)
           \/ \E n \in late : LateArrival(n)
           \/ \E m \in Foreign : ForeignRecord(m)
           \/ UNCHANGED vars
  BY <1>4 DEF vars, Fence, BackoffElapses, LateArrival, ForeignRecord
<1>5. CASE StoreEvent
  BY <1>5 DEF StoreEvent
<1> QED
  BY <1>1, <1>2, <1>3, <1>4, <1>5 DEF Next

\* What one statement of a worker writes.
LEMMA InsertedAttempts ==
  ASSUME TypeInv, NEW w \in Workers,
         (wpc[w] = "batch" /\ Insert(Batch(w))) \/ (wpc[w] = "record" /\ InsertOne(w))
  PROVE  \A id \in Ids :
           \/ attempts'[id] = attempts[id]
           \/ /\ attempts[id] = None /\ id \in stored
              /\ \E n \in Notification : n \in ToSet(topic) /\ n.id = id /\ attempts'[id] = n.era
<1>1. /\ Batch(w) \in SUBSET (Notification \cup Foreign)
      /\ {topic[position[w] + 1]} \in SUBSET (Notification \cup Foreign)
      /\ {topic[position[w] + 1]} \subseteq Batch(w)
  BY BatchInTopic
<1>2. Batch(w) \subseteq ToSet(topic)
  <2>1. \A i \in (position[w] + 1)..fetched[w] : i \in 1..Len(topic)
    BY BatchInTopic
  <2> QED
    BY <2>1, InTopic DEF Batch
<1>3. PICK records \in SUBSET (Notification \cup Foreign) :
        records \subseteq ToSet(topic) /\ Insert(records)
  BY <1>1, <1>2 DEF InsertOne
<1> QED
  BY <1>3, InsertType

\* Whatever was still queued when the demo was reset, an attempt is of the event
\* that its message id names (insert_notification_attempt_batch joins on the id).
THEOREM AttemptsBelong == Spec => []AttemptIsOfItsEvent
<1>1. Init => EraInv /\ AttemptIsOfItsEvent
  <2> SUFFICES ASSUME Init PROVE EraInv /\ AttemptIsOfItsEvent
    OBVIOUS
  <2>1. ToSet(topic) = {} /\ late = {} /\ \A r \in Relays : row[r] = None
    BY DEF Init, ToSet
  <2>2. EraInv
    BY <2>1, ValuesAssumption DEF EraInv, InPlay
  <2>3. AttemptIsOfItsEvent
    BY DEF Init, AttemptIsOfItsEvent
  <2> QED
    BY <2>2, <2>3
<1>2. TypeInv /\ EraInv /\ AttemptIsOfItsEvent /\ [Next]_vars => AttemptIsOfItsEvent'
  <2> SUFFICES ASSUME TypeInv, EraInv, AttemptIsOfItsEvent, [Next]_vars,
                      NEW id \in Ids, attempts'[id] # None
               PROVE  id \in stored' /\ attempts'[id] = resets'
    BY DEF AttemptIsOfItsEvent
  <2>1. CASE UNCHANGED attempts /\ (UNCHANGED tables \/ StoreEvent)
    BY <2>1 DEF AttemptIsOfItsEvent, tables, StoreEvent
  <2>2. CASE Reset
    BY <2>2 DEF Reset
  <2>3. ASSUME NEW w \in Workers, UNCHANGED tables,
               (wpc[w] = "batch" /\ Insert(Batch(w))) \/ (wpc[w] = "record" /\ InsertOne(w))
        PROVE  id \in stored' /\ attempts'[id] = resets'
    <3>1. CASE attempts'[id] = attempts[id]
      BY <2>3, <3>1 DEF AttemptIsOfItsEvent, tables
    <3>2. CASE attempts'[id] # attempts[id]
      <4>1. PICK n \in Notification : /\ n \in ToSet(topic) /\ n.id = id /\ id \in stored
                                      /\ attempts'[id] = n.era
        BY <2>3, <3>2, InsertedAttempts
      <4>2. n.era = resets
        BY <4>1 DEF EraInv, InPlay
      <4> QED
        BY <2>3, <4>1, <4>2 DEF tables
    <3> QED
      BY <3>1, <3>2
  <2> QED
    BY <2>1, <2>2, <2>3, AttemptsShape
<1> QED
  BY <1>1, <1>2, TypeInit, TypeStep, EraStep, PTL DEF Spec
-----------------------------------------------------------------------------
(* The rows the relays hold.                                               *)

\* A held row is unpublished, and held once.
RowsLocked ==
  /\ \A r \in Relays : holds[r] => row[r].id \in pending /\ row[r].era = resets
  /\ \A r, q \in Relays : holds[r] /\ holds[q] /\ row[r].id = row[q].id => r = q

\* What the steps do to rows, locks and pending ids.
LEMMA LocksShape ==
  ASSUME TypeInv, [Next]_vars
  PROVE  \/ UNCHANGED <<pending, row, holds, resets>>
         \/ StoreEvent \/ Reset
         \/ \E r \in Relays : Select(r) \/ SessionLost(r)
         \/ \E r \in Relays :
              /\ EndRelay(r) /\ UNCHANGED resets
              /\ \/ UNCHANGED pending
                 \/ holds[r] /\ rpc[r] = "mark" /\ pending' = pending \ {row[r].id}
<1>1. ASSUME NEW r \in Relays, CommitRow(r) \/ CommitRowFails(r) \/ RelayCrash(r)
      PROVE  /\ EndRelay(r) /\ UNCHANGED resets
             /\ \/ UNCHANGED pending
                \/ holds[r] /\ rpc[r] = "mark" /\ pending' = pending \ {row[r].id}
  <2>1. /\ EndRelay(r) /\ UNCHANGED resets
        /\ UNCHANGED outboxVars \/ (holds[r] /\ Update(r))
    BY <1>1 DEF CommitRow, CommitRowFails, RelayCrash, tables
  <2> QED
    BY <2>1, UpdateType DEF outboxVars
<1>2. ASSUME NEW r \in Relays, Publish(r) \/ PublishFails(r)
      PROVE  UNCHANGED <<pending, row, holds, resets>>
  BY <1>2 DEF Publish, PublishFails, tables, outboxVars
<1>3. CASE \/ UNCHANGED vars \/ Fence
           \/ \E id \in Ids : BackoffElapses(id)
           \/ \E n \in late : LateArrival(n)
           \/ \E m \in Foreign : ForeignRecord(m)
           \/ \E w \in Workers : WorkerStep(w) \/ WorkerRestarts(w)
  BY <1>3 DEF vars, tables, outboxVars, relayVars, Fence, BackoffElapses, LateArrival,
              ForeignRecord, WorkerStep, Poll, StoreBatch, StoreRecord, StoreFails, CommitOffset,
              CommitOffsetFails, WorkerRestarts
<1> QED
  BY <1>1, <1>2, <1>3 DEF Next, RelayStep

\* SKIP LOCKED gives a row to one relay.
LEMMA LocksStep ==
  ASSUME TypeInv, [Next]_vars, RowsLocked
  PROVE  RowsLocked'
<1> USE DEF TypeInv
<1>1. CASE UNCHANGED <<pending, row, holds, resets>>
  BY <1>1 DEF RowsLocked
<1>2. CASE StoreEvent
  BY <1>2 DEF StoreEvent, RowsLocked, relayVars
<1>3. CASE Reset
  <2>1. \A r \in Relays : ~holds[r]
    BY <1>3 DEF Reset, Locked
  <2> QED
    BY <1>3, <2>1 DEF Reset, RowsLocked, relayVars
<1>4. ASSUME NEW r \in Relays, SessionLost(r) PROVE RowsLocked'
  <2>1. \A q \in Relays : holds'[q] => holds[q]
    BY <1>4 DEF SessionLost, TypeOK
  <2> QED
    BY <1>4, <2>1 DEF SessionLost, RowsLocked, tables, outboxVars
<1>5. ASSUME NEW r \in Relays, Select(r) PROVE RowsLocked'
  <2>1. PICK i \in 1..Len(due) :
          Free(due[i]) /\ row' = [row EXCEPT ![r] = [id |-> due[i], era |-> resets]]
    BY <1>5 DEF Select
  <2>2. /\ row'[r] = [id |-> due[i], era |-> resets]
        /\ \A q \in Relays \ {r} : row'[q] = row[q] /\ holds'[q] = holds[q]
        /\ pending' = pending /\ resets' = resets
    BY <1>5, <2>1 DEF Select, TypeOK, tables, outboxVars
  <2>3. due[i] \in pending
    BY ElementOfSeq DEF TypeOK
  <2>4. \A q \in Relays : holds[q] => row[q].id # due[i]
    BY <2>1 DEF Free, Locked
  <2> QED
    BY <2>2, <2>3, <2>4 DEF RowsLocked
<1>6. ASSUME NEW r \in Relays, EndRelay(r), UNCHANGED resets,
             \/ UNCHANGED pending
             \/ holds[r] /\ rpc[r] = "mark" /\ pending' = pending \ {row[r].id}
      PROVE  RowsLocked'
  <2>1. /\ holds'[r] = FALSE
        /\ \A q \in Relays \ {r} : row'[q] = row[q] /\ holds'[q] = holds[q]
    BY <1>6, EndRelayType
  <2> QED
    BY <1>6, <2>1 DEF RowsLocked
<1> QED
  BY <1>1, <1>2, <1>3, <1>4, <1>5, <1>6, LocksShape
-----------------------------------------------------------------------------
(* The notification of an event is somewhere until its attempt is written. *)

\* Nothing is left to do for the record.
Handled(n) == n \in Foreign \/ n.id \notin stored \/ attempts[n.id] # None

\* The group will read the record.
Ahead(n) == \E i \in (committed + 1)..Len(topic) : topic[i] = n

\* A worker confirms records it has handled.
BatchStored ==
  \A w \in Workers :
    /\ wpc[w] = "commit" => \A n \in Batch(w) : Handled(n)
    /\ wpc[w] = "confirm" => Handled(topic[position[w] + 1])

\* The owner of the partition passes one record with a commit.
OwnerAtCommitted ==
  \A w \in Workers : owner = w => position[w] <= committed /\ committed <= position[w] + 1

\* A relay marks a row whose record is in the topic.
MarkIsThere == \A r \in Relays : rpc[r] = "mark" => Handled(row[r]) \/ Ahead(row[r])

OffsetInv == BatchStored /\ OwnerAtCommitted /\ MarkIsThere

\* What is handled stays so, for its id is not given again.
LEMMA HandledLasts ==
  ASSUME TypeInv, [Next]_vars, NEW n \in Notification \cup Foreign,
         n \in Notification => n.id < nextId, Handled(n)
  PROVE  Handled(n)'
<1>1. CASE n \in Foreign
  BY <1>1 DEF Handled
<1>2. CASE n \in Notification
  <2>0. n.id \in Ids /\ n.id # nextId /\ nextId \in Nat /\ n.id \in Nat /\ n \notin Foreign
    BY <1>2, ValuesAssumption, ConstantsAssumption
       DEF Notification, TypeInv, TypeOK, Ids
  <2>1. CASE UNCHANGED attempts /\ (UNCHANGED tables \/ StoreEvent)
    BY <2>0, <2>1 DEF Handled, tables, StoreEvent
  <2>2. CASE Reset
    BY <2>2 DEF Handled, Reset
  <2>3. ASSUME NEW w \in Workers, UNCHANGED tables,
               (wpc[w] = "batch" /\ Insert(Batch(w))) \/ (wpc[w] = "record" /\ InsertOne(w))
        PROVE  Handled(n)'
    <3>1. attempts[n.id] # None => attempts'[n.id] = attempts[n.id]
      BY <2>0, <2>3, InsertedAttempts
    <3> QED
      BY <2>0, <2>3, <3>1 DEF Handled, tables
  <2> QED
    BY <2>1, <2>2, <2>3, AttemptsShape
<1> QED
  BY <1>1, <1>2

\* The topic only grows.
LEMMA TopicLasts ==
  ASSUME TypeInv, [Next]_vars
  PROVE  /\ Len(topic) \in Nat /\ Len(topic') \in Nat /\ Len(topic) <= Len(topic')
         /\ \A i \in 1..Len(topic) : topic'[i] = topic[i]
<1> USE DEF TypeInv
<1>1. CASE UNCHANGED topic
  BY <1>1 DEF TypeOK
<1>2. ASSUME NEW r \in Relays, RelayStep(r) \/ RelayCrash(r), topic' # topic
      PROVE  row[r] \in Notification /\ TopicStep(row[r])
  <2>1. rpc[r] = "publish" /\ topic' = Append(topic, row[r])
    BY <1>2 DEF RelayStep, Select, Publish, PublishFails, CommitRow, CommitRowFails, RelayCrash, log
  <2> QED
    BY <2>1 DEF RowInHand, TopicStep
<1>3. \/ UNCHANGED topic
      \/ \E n \in Notification \cup Foreign : TopicStep(n)
  <2>1. ASSUME NEW n \in late, LateArrival(n) PROVE n \in Notification /\ TopicStep(n)
    BY <2>1 DEF LateArrival, TopicStep, TypeOK
  <2>2. ASSUME NEW m \in Foreign, ForeignRecord(m) PROVE TopicStep(m)
    BY <2>2 DEF ForeignRecord, TopicStep
  <2>3. CASE \/ UNCHANGED vars \/ StoreEvent \/ Reset \/ Fence
             \/ \E r \in Relays : SessionLost(r)
             \/ \E id \in Ids : BackoffElapses(id)
             \/ \E w \in Workers : WorkerStep(w) \/ WorkerRestarts(w)
    BY <2>3 DEF vars, log, StoreEvent, Reset, Fence, SessionLost, BackoffElapses, WorkerStep, Poll,
                StoreBatch, StoreRecord, StoreFails, CommitOffset, CommitOffsetFails,
                WorkerRestarts
  <2> QED
    BY <1>2, <2>1, <2>2, <2>3 DEF Next
<1>4. ASSUME NEW n \in Notification \cup Foreign, TopicStep(n)
      PROVE  /\ Len(topic) \in Nat /\ Len(topic') \in Nat /\ Len(topic) <= Len(topic')
             /\ \A i \in 1..Len(topic) : topic'[i] = topic[i]
  BY <1>4, TopicKept
<1> QED
  BY <1>1, <1>3, <1>4

\* The commit that passes a record finds it handled.
LEMMA AheadLasts ==
  ASSUME TypeInv, [Next]_vars, OffsetInv, NEW n \in Notification, n.id < nextId,
         Handled(n) \/ Ahead(n)
  PROVE  Handled(n)' \/ Ahead(n)'
<1>0. committed \in Nat
  BY DEF TypeInv, TypeOK
<1>1. CASE Handled(n)
  BY <1>1, HandledLasts
<1>2. CASE Ahead(n)
  <2>1. PICK i \in (committed + 1)..Len(topic) : topic[i] = n
    BY <1>2 DEF Ahead
  <2>2. i \in 1..Len(topic') /\ topic'[i] = n
    BY <1>0, <2>1, TopicLasts
  <2>3. \/ committed' = committed
        \/ \E w \in Workers : /\ wpc[w] \in {"commit", "confirm"} /\ owner = w
                              /\ committed' = position[w] + 1
    BY DEF Next, vars, groupVars, StoreEvent, Reset, Fence, RelayStep, Select, Publish,
           PublishFails, CommitRow, CommitRowFails, SessionLost, RelayCrash, BackoffElapses,
           LateArrival, ForeignRecord, WorkerStep, Poll, StoreBatch, StoreRecord, StoreFails,
           CommitOffset, CommitOffsetFails, WorkerRestarts
  <2>4. CASE committed' = committed
    BY <2>1, <2>2, <2>4, <1>0, TopicLasts DEF Ahead
  <2>5. ASSUME NEW w \in Workers, wpc[w] \in {"commit", "confirm"}, owner = w,
               committed' = position[w] + 1
        PROVE  Handled(n)' \/ Ahead(n)'
    <3>1. position[w] \in Nat /\ position[w] <= committed
      BY <2>5 DEF OffsetInv, OwnerAtCommitted, TypeInv, TypeOK
    <3>2. CASE i > position[w] + 1
      <4>1. i \in (committed' + 1)..Len(topic')
        BY <2>2, <2>5, <3>1, <3>2
      <4> QED
        BY <2>2, <4>1 DEF Ahead
    <3>3. CASE i = position[w] + 1
      <4>1. n \in Batch(w)
        BY <2>1, <2>5, <3>3, BatchInTopic
      <4>2. Handled(n)
        BY <2>1, <2>5, <3>3, <4>1 DEF OffsetInv, BatchStored
      <4> QED
        BY <4>2, HandledLasts
    <3> QED
      BY <1>0, <2>1, <3>1, <3>2, <3>3
  <2> QED
    BY <2>3, <2>4, <2>5
<1> QED
  BY <1>1, <1>2

\* Nobody moves a worker but itself.
LEMMA OwnSteps ==
  ASSUME TypeInv, [Next]_vars, NEW w \in Workers
  PROVE  \/ WorkerStep(w) \/ WorkerRestarts(w)
         \/ /\ position'[w] = position[w] /\ fetched'[w] = fetched[w] /\ wpc'[w] = wpc[w]
            /\ \/ UNCHANGED <<owner, committed>>
               \/ owner' # w
<1>1. ASSUME NEW v \in Workers \ {w}, WorkerStep(v) \/ WorkerRestarts(v)
      PROVE  /\ position'[w] = position[w] /\ fetched'[w] = fetched[w] /\ wpc'[w] = wpc[w]
             /\ UNCHANGED <<owner, committed>> \/ owner' # w
  <2>1. /\ position' = position \/ \E x : position' = [position EXCEPT ![v] = x]
        /\ fetched' = fetched \/ \E x : fetched' = [fetched EXCEPT ![v] = x]
        /\ \E x : wpc' = [wpc EXCEPT ![v] = x]
    <3>1. CASE Poll(v) \/ StoreBatch(v) \/ StoreRecord(v) \/ StoreFails(v)
      BY <3>1 DEF Poll, StoreBatch, StoreRecord, StoreFails, AfterStoreFailure, Rewound, WorkerAt
    <3>2. CASE CommitOffset(v) \/ CommitOffsetFails(v) \/ WorkerRestarts(v)
      BY <3>2 DEF CommitOffset, CommitOffsetFails, WorkerRestarts, Confirmed, Rewound, WorkerAt
    <3> QED
      BY <1>1, <3>1, <3>2 DEF WorkerStep
  <2>2. UNCHANGED <<owner, committed>> \/ owner' # w
    BY <1>1, ConstantsAssumption
       DEF WorkerStep, Poll, StoreBatch, StoreRecord, StoreFails, CommitOffset, CommitOffsetFails,
           WorkerRestarts, groupVars
  <2> QED
    BY <2>1, <2>2 DEF TypeInv, TypeOK
<1>2. CASE \/ UNCHANGED vars \/ StoreEvent \/ Reset \/ Fence
           \/ \E r \in Relays : RelayStep(r) \/ SessionLost(r) \/ RelayCrash(r)
           \/ \E id \in Ids : BackoffElapses(id)
           \/ \E n \in late : LateArrival(n)
           \/ \E m \in Foreign : ForeignRecord(m)
  <2>1. UNCHANGED <<position, fetched, wpc>>
    BY <1>2 DEF vars, workerVars, StoreEvent, Reset, Fence, RelayStep, Select, Publish,
                PublishFails, CommitRow, CommitRowFails, SessionLost, RelayCrash, BackoffElapses,
                LateArrival, ForeignRecord
  <2>2. UNCHANGED <<owner, committed>> \/ owner' # w
    BY <1>2, ConstantsAssumption
       DEF vars, groupVars, StoreEvent, Reset, Fence, RelayStep, Select, Publish,
           PublishFails, CommitRow, CommitRowFails, SessionLost, RelayCrash, BackoffElapses,
           LateArrival, ForeignRecord
  <2> QED
    BY <2>1, <2>2
<1> QED
  BY <1>1, <1>2 DEF Next

\* A record of the topic stays handled.
LEMMA RecordHandledLasts ==
  ASSUME TypeInv, [Next]_vars, EraInv, NEW i \in 1..Len(topic), Handled(topic[i])
  PROVE  topic'[i] = topic[i] /\ Handled(topic[i])'
<1>1. PICK n \in Notification \cup Foreign : n = topic[i]
  BY ElementOfSeq DEF TypeInv, TypeOK
<1>2. n \in Notification => n.id < nextId
  BY <1>1, InTopic DEF EraInv, InPlay
<1>3. Handled(n)' /\ topic'[i] = n
  BY <1>1, <1>2, HandledLasts, TopicLasts
<1> QED
  BY <1>1, <1>3 DEF Handled

\* A worker confirms no record that it has not stored or rejected.
LEMMA BatchStep ==
  ASSUME TypeInv, [Next]_vars, EraInv, BatchStored
  PROVE  BatchStored'
<1> SUFFICES ASSUME NEW w \in Workers, wpc'[w] \in {"commit", "confirm"}
             PROVE  /\ wpc'[w] = "commit" => \A n \in Batch(w)' : Handled(n)'
                    /\ wpc'[w] = "confirm" => Handled(topic[position[w] + 1])'
  BY DEF BatchStored
<1>0. /\ position[w] \in Nat /\ fetched[w] \in Nat /\ wpc \in [Workers -> {"idle", "batch", "commit", "record", "confirm"}]
  BY DEF TypeInv, TypeOK
\* It had the batch before, and what is at or behind its position was handled.
<1>1. ASSUME wpc[w] # "idle", fetched'[w] = fetched[w], position'[w] \in Nat,
             position[w] <= position'[w],
             wpc'[w] = "commit" => \A i \in (position[w] + 1)..fetched[w] : Handled(topic[i])',
             wpc'[w] = "confirm" => position'[w] = position[w] /\ Handled(topic[position[w] + 1])'
      PROVE  /\ wpc'[w] = "commit" => \A n \in Batch(w)' : Handled(n)'
             /\ wpc'[w] = "confirm" => Handled(topic[position[w] + 1])'
  <2>1. ASSUME wpc'[w] = "commit", NEW n \in Batch(w)' PROVE Handled(n)'
    <3>1. PICK i \in (position'[w] + 1)..fetched'[w] : n = topic'[i]
      BY <2>1 DEF Batch
    <3>2. i \in (position[w] + 1)..fetched[w]
      BY <1>0, <1>1, <3>1
    <3>3. Handled(topic[i])'
      BY <1>1, <2>1, <3>2
    <3> QED
      BY <3>1, <3>3 DEF Handled
  <2>2. wpc'[w] = "confirm" => Handled(topic[position[w] + 1])'
    BY <1>1 DEF Handled
  <2> QED
    BY <2>1, <2>2
<1>2. ASSUME wpc[w] # "idle", NEW i \in (position[w] + 1)..fetched[w] PROVE i \in 1..Len(topic)
  BY <1>2, BatchInTopic
<1>3. ASSUME wpc[w] = "commit", NEW i \in (position[w] + 1)..fetched[w] PROVE Handled(topic[i])'
  <2>1. Handled(topic[i])
    BY <1>3 DEF BatchStored, Batch
  <2> QED
    BY <1>2, <1>3, <2>1, RecordHandledLasts
<1>4. ASSUME wpc[w] = "confirm", position'[w] = position[w]
      PROVE  Handled(topic[position[w] + 1])'
  <2>1. PICK i \in 1..Len(topic) : i = position[w] + 1
    BY <1>4, BatchInTopic
  <2>2. Handled(topic[i])'
    BY <1>4, <2>1, RecordHandledLasts DEF BatchStored
  <2> QED
    BY <1>4, <2>1, <2>2 DEF Handled
<1>5. CASE position'[w] = position[w] /\ fetched'[w] = fetched[w] /\ wpc'[w] = wpc[w]
  BY <1>0, <1>1, <1>3, <1>4, <1>5
<1>6. CASE StoreBatch(w)
  <2>1. /\ wpc[w] = "batch" /\ UNCHANGED <<tables, topic, position, fetched>>
        /\ \/ Insert(Batch(w)) /\ WorkerAt(w, "commit")
           \/ WorkerAt(w, "record")
    BY <1>6 DEF StoreBatch, log
  <2>2. wpc'[w] = "commit" /\ Insert(Batch(w))
    BY <2>1, WorkerAtType
  <2>3. ASSUME NEW i \in (position[w] + 1)..fetched[w] PROVE Handled(topic[i])'
    <3>1. topic[i] \in Batch(w) /\ Batch(w) \in SUBSET (Notification \cup Foreign)
      BY <2>1, BatchInTopic DEF Batch
    <3>2. topic[i] \in Notification /\ topic[i].id \in stored => attempts'[topic[i].id] # None
      BY <2>2, <3>1, InsertType
    <3> QED
      BY <2>1, <3>1, <3>2 DEF Handled, tables
  <2> QED
    BY <1>0, <1>1, <2>1, <2>2, <2>3
<1>7. CASE StoreRecord(w)
  <2>1. /\ wpc[w] = "record" /\ UNCHANGED <<tables, topic, position, fetched>>
        /\ InsertOne(w) /\ WorkerAt(w, "confirm")
    BY <1>7 DEF StoreRecord, log
  <2>2. wpc'[w] = "confirm"
    BY <2>1, WorkerAtType
  <2>3. Handled(topic[position[w] + 1])'
    <3> DEFINE n == topic[position[w] + 1]
    <3>1. {n} \in SUBSET (Notification \cup Foreign) /\ Insert({n})
      BY <2>1, BatchInTopic DEF InsertOne
    <3>2. n \in Notification /\ n.id \in stored => attempts'[n.id] # None
      BY <3>1, InsertType
    <3> QED
      BY <2>1, <3>1, <3>2 DEF Handled, tables
  <2> QED
    BY <1>0, <1>1, <2>1, <2>2, <2>3
<1>8. CASE CommitOffset(w)
  <2>1. /\ wpc[w] \in {"commit", "confirm"} /\ UNCHANGED fetched
        /\ position' = [position EXCEPT ![w] = @ + 1]
        /\ WorkerAt(w, IF position[w] + 1 = fetched[w] THEN "idle"
                       ELSE IF wpc[w] = "confirm" THEN "record" ELSE "commit")
    BY <1>8 DEF CommitOffset, Confirmed
  <2>2. wpc'[w] = "commit" /\ wpc[w] = "commit"
    BY <2>1, WorkerAtType
  <2>3. position'[w] = position[w] + 1
    BY <2>1 DEF TypeInv, TypeOK
  <2> QED
    BY <1>0, <1>1, <1>3, <2>1, <2>2, <2>3
<1>9. CASE Poll(w) \/ StoreFails(w) \/ CommitOffsetFails(w) \/ WorkerRestarts(w)
  <2>1. WorkerAt(w, "batch") \/ WorkerAt(w, "idle")
    BY <1>9 DEF Poll, StoreFails, AfterStoreFailure, Rewound, CommitOffsetFails, WorkerRestarts
  <2>2. wpc'[w] \in {"batch", "idle"}
    BY <2>1, WorkerAtType
  <2> QED
    BY <2>2
<1> QED
  BY <1>5, <1>6, <1>7, <1>8, <1>9, OwnSteps DEF WorkerStep

\* The owner's position and the committed offset stay together.
LEMMA OwnerStep ==
  ASSUME TypeInv, [Next]_vars, OwnerAtCommitted
  PROVE  OwnerAtCommitted'
<1> SUFFICES ASSUME NEW w \in Workers, owner' = w
             PROVE  position'[w] <= committed' /\ committed' <= position'[w] + 1
  BY DEF OwnerAtCommitted
<1>0. /\ position \in [Workers -> Nat] /\ committed \in Nat /\ w # None
      /\ owner = w => position[w] <= committed /\ committed <= position[w] + 1
  BY ConstantsAssumption DEF OwnerAtCommitted, TypeInv, TypeOK
<1>1. CASE /\ position'[w] = position[w]
           /\ UNCHANGED <<owner, committed>> \/ owner' # w
  BY <1>0, <1>1
<1>2. CASE Poll(w)
  <2>1. /\ position' = [position EXCEPT ![w] = IF owner = w THEN position[w] ELSE committed]
        /\ committed' = committed
    BY <1>2 DEF Poll
  <2> QED
    BY <1>0, <2>1
<1>3. CASE StoreBatch(w) \/ StoreRecord(w) \/ StoreFails(w)
  BY <1>0, <1>3 DEF StoreBatch, StoreRecord, StoreFails, groupVars
<1>4. CASE CommitOffset(w)
  BY <1>0, <1>4 DEF CommitOffset, Confirmed
<1>5. CASE CommitOffsetFails(w)
  BY <1>0, <1>5 DEF CommitOffsetFails
<1>6. CASE WorkerRestarts(w)
  BY <1>0, <1>6 DEF WorkerRestarts
<1> QED
  BY <1>1, <1>2, <1>3, <1>4, <1>5, <1>6, OwnSteps DEF WorkerStep

\* A relay goes on to mark its row when the record is in the topic.
LEMMA MarkStep ==
  ASSUME TypeInv, [Next]_vars, EraInv, OffsetInv
  PROVE  MarkIsThere'
<1> SUFFICES ASSUME NEW r \in Relays, rpc'[r] = "mark"
             PROVE  Handled(row[r])' \/ Ahead(row[r])'
  BY DEF MarkIsThere
<1>1. CASE rpc[r] = "mark" /\ row'[r] = row[r]
  <2>1. PICK n \in Notification : n = row[r]
    BY <1>1 DEF TypeInv, RowInHand
  <2>2. n.id < nextId
    BY <2>1 DEF EraInv, InPlay
  <2>3. Handled(n) \/ Ahead(n)
    BY <1>1, <2>1 DEF OffsetInv, MarkIsThere
  <2>4. Handled(n)' \/ Ahead(n)'
    BY <2>2, <2>3, AheadLasts
  <2> QED
    BY <1>1, <2>1, <2>4 DEF Handled, Ahead
<1>2. CASE Publish(r)
  <2>1. /\ row[r] \in Notification /\ topic' = Append(topic, row[r])
        /\ UNCHANGED <<row, committed>>
    BY <1>2 DEF Publish, TypeInv, RowInHand, groupVars
  <2>2. topic'[Len(topic) + 1] = row[r] /\ Len(topic') = Len(topic) + 1
    BY <2>1, TopicGrows
  <2>3. Len(topic) + 1 \in (committed' + 1)..Len(topic')
    BY <2>1, <2>2 DEF TypeInv, TypeOK
  <2> QED
    BY <2>1, <2>2, <2>3 DEF Ahead
<1>3. ASSUME NEW q \in Relays, RelayStep(q) \/ SessionLost(q) \/ RelayCrash(q), ~Publish(r)
      PROVE  rpc[r] = "mark" /\ row'[r] = row[r]
  <2>1. CASE SessionLost(q)
    BY <2>1 DEF SessionLost
  <2>2. CASE CommitRow(q) \/ CommitRowFails(q) \/ RelayCrash(q)
    <3>1. EndRelay(q)
      BY <2>2 DEF CommitRow, CommitRowFails, RelayCrash
    <3> QED
      BY <3>1, EndRelayType
  <2>3. CASE Select(q) \/ PublishFails(q)
    <3>1. /\ RelayAt(q, "publish") \/ RelayAt(q, "failed")
          /\ row' = row \/ \E x : row' = [row EXCEPT ![q] = x]
      BY <2>3 DEF Select, PublishFails
    <3>2. rpc'[q] # "mark" /\ \A p \in Relays \ {q} : rpc'[p] = rpc[p]
      BY <3>1, RelayAtType
    <3>3. \A p \in Relays \ {q} : row'[p] = row[p]
      BY <3>1 DEF TypeInv, TypeOK
    <3> QED
      BY <3>2, <3>3
  <2>4. CASE Publish(q)
    <3>1. q # r /\ RelayAt(q, "mark") /\ row' = row
      BY <1>3, <2>4 DEF Publish
    <3> QED
      BY <3>1, RelayAtType
  <2> QED
    BY <1>3, <2>1, <2>2, <2>3, <2>4 DEF RelayStep
<1>4. CASE \/ UNCHANGED vars \/ StoreEvent \/ Reset \/ Fence
           \/ \E id \in Ids : BackoffElapses(id)
           \/ \E n \in late : LateArrival(n)
           \/ \E m \in Foreign : ForeignRecord(m)
           \/ \E w \in Workers : WorkerStep(w) \/ WorkerRestarts(w)
  <2>1. UNCHANGED <<row, rpc>>
    BY <1>4 DEF vars, relayVars, StoreEvent, Reset, Fence, BackoffElapses, LateArrival,
                ForeignRecord, WorkerStep, Poll, StoreBatch, StoreRecord, StoreFails, CommitOffset,
                CommitOffsetFails, WorkerRestarts
  <2> QED
    BY <1>1, <2>1
<1> QED
  BY <1>1, <1>2, <1>3, <1>4 DEF Next

\* Every step keeps the offsets in order.
LEMMA OffsetStep ==
  ASSUME TypeInv, [Next]_vars, EraInv, OffsetInv
  PROVE  OffsetInv'
BY BatchStep, OwnerStep, MarkStep DEF OffsetInv

\* From a transaction to a transaction, a notification has its place.
LEMMA NotLostStep ==
  ASSUME TypeInv, [Next]_vars, EraInv, RowsLocked, OffsetInv, NotificationNotLost
  PROVE  NotificationNotLost'
<1> SUFFICES ASSUME NEW id \in stored'
             PROVE  \/ id \in pending'
                    \/ attempts'[id] # None
                    \/ \E i \in (committed' + 1)..Len(topic') :
                         topic'[i] = [id |-> id, era |-> resets']
  BY DEF NotificationNotLost
<1> USE DEF TypeInv
<1>1. CASE Reset
  BY <1>1 DEF Reset
<1>2. CASE StoreEvent
  BY <1>2 DEF StoreEvent, NotificationNotLost, log, groupVars
<1>3. CASE UNCHANGED tables
  <2>1. PICK n : n = [id |-> id, era |-> resets]
    OBVIOUS
  <2>2. n \in Notification /\ n.id = id /\ n.id < nextId /\ id \in stored /\ n \notin Foreign
    BY <1>3, <2>1, ValuesAssumption DEF tables, TypeOK, IdsBefore, Notification
  <2>3. \/ id \in pending'
        \/ Handled(n) \/ Ahead(n)
    <3>1. id \in pending \/ Handled(n) \/ Ahead(n)
      BY <2>1, <2>2 DEF NotificationNotLost, Handled, Ahead
    <3>2. ASSUME NEW r \in Relays, holds[r], rpc[r] = "mark", pending' = pending \ {row[r].id},
                 id \in pending, id \notin pending'
          PROVE  Handled(n) \/ Ahead(n)
      <4>1. row[r] \in Notification /\ row[r].id = id /\ row[r].era = resets
        BY <3>2 DEF RowInHand, RowsLocked
      <4>2. row[r] = n
        BY <2>1, <4>1 DEF Notification
      <4> QED
        BY <3>2, <4>2 DEF OffsetInv, MarkIsThere
    <3>3. \/ UNCHANGED pending
          \/ \E r \in Relays : /\ holds[r] /\ rpc[r] = "mark"
                               /\ pending' = pending \ {row[r].id}
      <4>1. ~StoreEvent /\ ~Reset
        BY <1>3, <2>2 DEF StoreEvent, Reset, tables, TypeOK, IdsBefore
      <4>2. ASSUME NEW r \in Relays, Select(r) \/ SessionLost(r) PROVE UNCHANGED pending
        BY <4>2 DEF Select, SessionLost, outboxVars
      <4> QED
        BY <4>1, <4>2, LocksShape
    <3> QED
      BY <3>1, <3>2, <3>3
  <2>4. Handled(n) \/ Ahead(n) => Handled(n)' \/ Ahead(n)'
    BY <2>2, AheadLasts
  <2>5. Handled(n)' => attempts'[id] # None
    BY <2>2 DEF Handled
  <2>6. Ahead(n)' => \E i \in (committed' + 1)..Len(topic') :
                       topic'[i] = [id |-> id, era |-> resets']
    BY <1>3, <2>1 DEF Ahead, tables
  <2> QED
    BY <2>3, <2>4, <2>5, <2>6
<1> QED
  BY <1>1, <1>2, <1>3, TablesShape

\* Through crashes, lost sessions, failed commits and fenced workers, a stored event
\* that has no attempt yet has its row to publish (relay_once) or a record the
\* group has not passed (_commit_processed_record).
THEOREM NotificationsArrive == Spec => []NotificationNotLost
<1> DEFINE Inv == EraInv /\ RowsLocked /\ OffsetInv /\ NotificationNotLost
<1>1. Init => Inv
  <2> SUFFICES ASSUME Init PROVE Inv
    OBVIOUS
  <2>1. EraInv
    <3>1. ToSet(topic) = {} /\ late = {} /\ \A r \in Relays : row[r] = None
      BY DEF Init, ToSet
    <3> QED
      BY <3>1, ValuesAssumption DEF EraInv, InPlay
  <2>2. RowsLocked
    BY DEF Init, RowsLocked
  <2>3. OffsetInv
    BY ConstantsAssumption DEF Init, OffsetInv, BatchStored, OwnerAtCommitted, MarkIsThere
  <2>4. NotificationNotLost
    BY DEF Init, NotificationNotLost
  <2> QED
    BY <2>1, <2>2, <2>3, <2>4
<1>2. TypeInv /\ Inv /\ [Next]_vars => Inv'
  BY EraStep, LocksStep, OffsetStep, NotLostStep
<1>3. Inv => NotificationNotLost
  OBVIOUS
<1> QED
  BY <1>1, <1>2, <1>3, TypeInit, TypeStep, PTL DEF Spec
-----------------------------------------------------------------------------
(* Each copy after the first has a failure of its own.                     *)

\* The records of a notification in the topic.
Copies(n) == {i \in 1..Len(topic) : topic[i] = n}

\* The relays that are about to publish it and have lost their lock.
Adrift(n) == {r \in Relays : rpc[r] = "publish" /\ row[r] = n /\ ~holds[r]}

\* Its row is there to publish: no relay marks it at this moment.
Open(n) ==
  /\ n.id \in pending /\ n.era = resets
  /\ \A r \in Relays : holds[r] /\ rpc[r] = "mark" => row[r].id # n.id

One(b) == IF b THEN 1 ELSE 0

\* Copies made and copies that may come without a further failure.
Owed(n) ==
  Cardinality(Copies(n)) + Cardinality(Adrift(n)) + One(n \in late) + One(Open(n))

\* Records no relay wrote; each was a failure too.
Strays == Foreign \cap ToSet(topic)

CopiesPaid ==
  /\ IsFiniteSet(Strays) /\ Cardinality(Strays) <= faults
  /\ \A n \in Notification :
       /\ IsFiniteSet(Adrift(n))
       /\ Owed(n) + Cardinality(Strays) <= 1 + faults

\* A relay steps alone.
Alone(r) ==
  \A q \in Relays \ {r} : rpc'[q] = rpc[q] /\ row'[q] = row[q] /\ holds'[q] = holds[q]

\* A record more is a copy more of its notification.
LEMMA CopiesMove ==
  ASSUME TypeInv, NEW n \in Notification
  PROVE  /\ IsFiniteSet(Copies(n)) /\ Cardinality(Copies(n)) \in Nat
         /\ topic' = topic => Copies(n)' = Copies(n)
         /\ topic' = Append(topic, n) => Cardinality(Copies(n)') = Cardinality(Copies(n)) + 1
         /\ \A m \in Notification \cup Foreign :
              topic' = Append(topic, m) /\ m # n => Copies(n)' = Copies(n)
<1>1. Len(topic) \in Nat
  BY DEF TypeInv, TypeOK
<1>2. IsFiniteSet(Copies(n)) /\ Cardinality(Copies(n)) \in Nat
  <2>1. IsFiniteSet(1..Len(topic)) /\ Copies(n) \subseteq 1..Len(topic)
    BY <1>1, FS_Interval DEF Copies
  <2> QED
    BY <2>1, FS_Subset, FS_CardinalityType
<1>3. topic' = topic => Copies(n)' = Copies(n)
  BY DEF Copies
<1>4. ASSUME topic' = Append(topic, n)
      PROVE  Cardinality(Copies(n)') = Cardinality(Copies(n)) + 1
  <2>1. /\ Len(topic') = Len(topic) + 1 /\ topic'[Len(topic) + 1] = n
        /\ \A i \in 1..Len(topic) : topic'[i] = topic[i]
    BY <1>4, TopicGrows
  <2>2. Copies(n)' = Copies(n) \cup {Len(topic) + 1} /\ Len(topic) + 1 \notin Copies(n)
    BY <1>1, <2>1 DEF Copies
  <2> QED
    BY <1>2, <2>2, FS_AddElement
<1>5. ASSUME NEW m \in Notification \cup Foreign, topic' = Append(topic, m), m # n
      PROVE  Copies(n)' = Copies(n)
  <2>1. /\ Len(topic') = Len(topic) + 1 /\ topic'[Len(topic) + 1] = m
        /\ \A i \in 1..Len(topic) : topic'[i] = topic[i]
    BY <1>5, TopicGrows
  <2> QED
    BY <1>1, <1>5, <2>1 DEF Copies
<1> QED
  BY <1>2, <1>3, <1>4, <1>5

\* One relay enters or leaves the set.
LEMMA AdriftMoves ==
  ASSUME NEW r \in Relays, Alone(r), NEW n, IsFiniteSet(Adrift(n))
  PROVE  /\ IsFiniteSet(Adrift(n)')
         /\ Cardinality(Adrift(n)) \in Nat /\ Cardinality(Adrift(n)') \in Nat
         /\ Cardinality(Adrift(n)') <= Cardinality(Adrift(n)) + 1
         /\ r \notin Adrift(n)' => Cardinality(Adrift(n)') <= Cardinality(Adrift(n))
         /\ r \in Adrift(n) /\ r \notin Adrift(n)' =>
              Cardinality(Adrift(n)') = Cardinality(Adrift(n)) - 1
<1>1. \A q \in Relays \ {r} : q \in Adrift(n)' <=> q \in Adrift(n)
  BY DEF Alone, Adrift
<1>2. Adrift(n) \subseteq Relays /\ Adrift(n)' \subseteq Relays
  BY DEF Adrift
<1>3. /\ IsFiniteSet(Adrift(n) \ {r}) /\ IsFiniteSet(Adrift(n) \cup {r})
      /\ r \in Adrift(n) => Cardinality(Adrift(n) \ {r}) = Cardinality(Adrift(n)) - 1
      /\ r \notin Adrift(n) => Cardinality(Adrift(n) \cup {r}) = Cardinality(Adrift(n)) + 1
  BY FS_AddElement, FS_RemoveElement
<1>4. Cardinality(Adrift(n)) \in Nat
  BY FS_CardinalityType
<1>5. \/ Adrift(n)' = Adrift(n)
      \/ r \in Adrift(n) /\ r \notin Adrift(n)' /\ Adrift(n)' = Adrift(n) \ {r}
      \/ r \notin Adrift(n) /\ r \in Adrift(n)' /\ Adrift(n)' = Adrift(n) \cup {r}
  BY <1>1, <1>2
<1>6. IsFiniteSet(Adrift(n)')
  BY <1>3, <1>5
<1>7. Cardinality(Adrift(n)') \in Nat
  BY <1>6, FS_CardinalityType
<1> QED
  BY <1>3, <1>4, <1>5, <1>6, <1>7

\* A row is no more open after a step than before, unless a relay that was to
\* mark it goes away and leaves it pending.
LEMMA OpenMoves ==
  ASSUME NEW r \in Relays, Alone(r), NEW n, pending' \subseteq pending, UNCHANGED resets, Open(n)',
         holds[r] /\ rpc[r] = "mark" => row[r].id # n.id
  PROVE  Open(n)
BY DEF Open, Alone

\* The steps of a relay move one relay.
LEMMA RelayAlone ==
  ASSUME TypeInv, NEW r \in Relays, RelayStep(r) \/ SessionLost(r) \/ RelayCrash(r)
  PROVE  Alone(r)
<1>1. CASE CommitRow(r) \/ CommitRowFails(r) \/ RelayCrash(r)
  BY <1>1, EndRelayType DEF CommitRow, CommitRowFails, RelayCrash, Alone
<1>2. CASE SessionLost(r)
  BY <1>2 DEF SessionLost, Alone, TypeInv, TypeOK
<1>3. CASE Publish(r) \/ PublishFails(r)
  <2>1. (RelayAt(r, "mark") \/ RelayAt(r, "failed")) /\ UNCHANGED <<row, holds>>
    BY <1>3 DEF Publish, PublishFails
  <2> QED
    BY <2>1, RelayAtType DEF Alone
<1>4. CASE Select(r)
  <2>1. /\ RelayAt(r, "publish") /\ holds' = [holds EXCEPT ![r] = TRUE]
        /\ \E x : row' = [row EXCEPT ![r] = x]
    BY <1>4 DEF Select
  <2>2. \A q \in Relays \ {r} : row'[q] = row[q] /\ holds'[q] = holds[q]
    BY <2>1 DEF TypeInv, TypeOK
  <2> QED
    BY <2>1, <2>2, RelayAtType DEF Alone
<1> QED
  BY <1>1, <1>2, <1>3, <1>4 DEF RelayStep

\* What a step of a relay adds for a notification, a failure pays.
LEMMA RelayPays ==
  ASSUME TypeInv, RowsLocked, NEW r \in Relays, RelayStep(r) \/ SessionLost(r) \/ RelayCrash(r),
         NEW n \in Notification, IsFiniteSet(Adrift(n)), IsFiniteSet(Copies(n)')
  PROVE  IsFiniteSet(Adrift(n)') /\ Owed(n)' + faults <= Owed(n) + faults'
<1> DEFINE c == Cardinality(Copies(n))
           a == Cardinality(Adrift(n))
<1>1. Alone(r)
  BY RelayAlone
<1>2. /\ IsFiniteSet(Adrift(n)') /\ a \in Nat /\ a' \in Nat /\ a' <= a + 1
      /\ r \notin Adrift(n)' => a' <= a
      /\ r \in Adrift(n) /\ r \notin Adrift(n)' => a' = a - 1
  BY <1>1, AdriftMoves
<1>3. /\ c \in Nat /\ c' \in Nat
      /\ topic' = topic => c' = c
      /\ topic' = Append(topic, n) => c' = c + 1
      /\ \A m \in Notification \cup Foreign : topic' = Append(topic, m) /\ m # n => c' = c
  BY CopiesMove, FS_CardinalityType
<1>4. /\ faults \in Nat
      /\ One(n \in late) \in {0, 1} /\ One(n \in late)' \in {0, 1}
      /\ One(Open(n)) \in {0, 1} /\ One(Open(n))' \in {0, 1}
      /\ late' = late => One(n \in late)' = One(n \in late)
  BY DEF One, TypeInv, TypeOK
<1>5. (Open(n)' => Open(n)) => One(Open(n))' <= One(Open(n))
  BY DEF One
<1>11. /\ Owed(n) = c + a + One(n \in late) + One(Open(n))
       /\ Owed(n)' = c' + a' + One(n \in late)' + One(Open(n))'
  BY DEF Owed
<1>12. /\ c \in Nat /\ c' \in Nat /\ a \in Nat /\ a' \in Nat /\ faults \in Nat
       /\ One(n \in late) \in Nat /\ One(n \in late)' \in Nat
       /\ One(Open(n)) \in Nat /\ One(Open(n))' \in Nat
       /\ IsFiniteSet(Adrift(n)')
  BY <1>2, <1>3, <1>4
<1> HIDE DEF c, a
<1>6. CASE Select(r)
  <2>1. /\ rpc[r] = "idle" /\ UNCHANGED <<pending, resets, topic, late, faults>>
        /\ holds' = [holds EXCEPT ![r] = TRUE]
    BY <1>6 DEF Select, tables, outboxVars, log
  <2>2. holds'[r] /\ r \notin Adrift(n)'
    BY <2>1 DEF Adrift, TypeInv, TypeOK
  <2>3. Open(n)' => Open(n)
    BY <1>1, <2>1, OpenMoves
  <2> QED
    BY <1>2, <1>3, <1>4, <1>5, <2>1, <2>2, <2>3 DEF Owed, c, a
<1>7. CASE Publish(r)
  <2>1. /\ rpc[r] = "publish" /\ row[r] \in Notification /\ topic' = Append(topic, row[r])
        /\ UNCHANGED <<pending, resets, row, holds, late, faults>> /\ RelayAt(r, "mark")
    BY <1>7 DEF Publish, TypeInv, RowInHand, tables, outboxVars
  <2>2. rpc'[r] = "mark" /\ r \notin Adrift(n)'
    BY <2>1, RelayAtType DEF Adrift
  <2>3. Open(n)' => Open(n)
    BY <1>1, <2>1, OpenMoves
  <2>4. CASE row[r] # n
    <3>1. c' = c /\ a' <= a /\ One(Open(n))' <= One(Open(n))
          /\ One(n \in late)' = One(n \in late) /\ faults' = faults
      BY <1>2, <1>3, <1>4, <1>5, <2>1, <2>2, <2>3, <2>4
    <3> QED
      BY <1>11, <1>12, <3>1
  <2>5. CASE row[r] = n /\ ~holds[r]
    <3>1. r \in Adrift(n)
      BY <2>1, <2>5 DEF Adrift
    <3>2. c' = c + 1
      BY <1>3, <2>1, <2>5
    <3>3. a' = a - 1 /\ One(Open(n))' <= One(Open(n))
          /\ One(n \in late)' = One(n \in late) /\ faults' = faults
      BY <1>2, <1>4, <1>5, <2>1, <2>2, <2>3, <3>1
    <3> QED
      BY <1>11, <1>12, <3>2, <3>3
  <2>6. CASE row[r] = n /\ holds[r]
    <3>1. Open(n)
      BY <2>1, <2>6 DEF Open, RowsLocked
    <3>2. ~Open(n)'
      BY <2>1, <2>2, <2>6 DEF Open
    <3>3. One(Open(n)) = 1 /\ One(Open(n))' = 0
      BY <3>1, <3>2 DEF One
    <3> QED
      BY <1>2, <1>3, <1>4, <2>1, <2>2, <2>6, <3>3 DEF Owed, c, a
  <2> QED
    BY <2>4, <2>5, <2>6 DEF TypeInv, TypeOK
<1>8. CASE PublishFails(r)
  <2>1. /\ rpc[r] = "publish" /\ row[r] \in Notification
        /\ UNCHANGED <<pending, resets, row, holds>> /\ RelayAt(r, "failed")
        /\ \/ UNCHANGED <<topic, late, faults>>
           \/ /\ faults' = faults + 1
              /\ \/ UNCHANGED <<topic, late>>
                 \/ topic' = Append(topic, row[r]) /\ UNCHANGED late
                 \/ late' = late \cup {row[r]} /\ UNCHANGED topic
    BY <1>8 DEF PublishFails, TypeInv, RowInHand, tables, outboxVars, log, Fault
  <2>2. rpc'[r] = "failed" /\ r \notin Adrift(n)'
    BY <2>1, RelayAtType DEF Adrift
  <2>3. Open(n)' => Open(n)
    BY <1>1, <2>1, OpenMoves
  <2>4. topic' = Append(topic, row[r]) => c' <= c + 1
    BY <1>3, <2>1
  <2>5. c' + One(n \in late)' + faults <= c + One(n \in late) + faults'
    BY <1>3, <1>4, <2>1, <2>4
  <2>6. a' <= a /\ One(Open(n))' <= One(Open(n)) /\ faults' \in Nat
    BY <1>2, <1>4, <1>5, <2>1, <2>2, <2>3
  <2> QED
    BY <1>11, <1>12, <2>5, <2>6
<1>9. CASE CommitRow(r) \/ CommitRowFails(r) \/ RelayCrash(r)
  <2>1. /\ EndRelay(r) /\ UNCHANGED <<resets, late>>
        /\ faults' = faults \/ faults' = faults + 1
        /\ UNCHANGED outboxVars \/ Update(r)
    BY <1>9 DEF CommitRow, CommitRowFails, RelayCrash, Fault, tables, log
  <2>2. r \notin Adrift(n)' /\ pending' \subseteq pending
    BY <2>1, EndRelayType, UpdateType DEF Adrift, outboxVars
  <2>3. \/ topic' = topic
        \/ /\ rpc[r] = "publish" /\ topic' = Append(topic, row[r]) /\ row[r] \in Notification
           /\ faults' = faults + 1
    BY <1>9 DEF CommitRow, CommitRowFails, RelayCrash, Fault, log, TypeInv, RowInHand
  <2>4. c' <= c + 1
    BY <1>3, <2>3
  <2>5. (holds[r] /\ rpc[r] = "mark" => row[r].id # n.id) => (Open(n)' => Open(n))
    BY <1>1, <2>1, <2>2, OpenMoves
  <2>6. CASE holds[r] /\ rpc[r] = "mark" /\ faults' = faults
    <3>1. MarkRow(row[r].id)
      BY <1>9, <2>6 DEF CommitRow, CommitRowFails, RelayCrash, Fault, Update, TypeInv, TypeOK
    <3>2. row[r].id \notin pending'
      BY <3>1 DEF MarkRow
    <3>3. Open(n)' => Open(n)
      BY <2>5, <3>2 DEF Open
    <3> QED
      BY <1>2, <1>3, <1>4, <1>5, <2>1, <2>2, <2>3, <2>6, <3>3 DEF Owed, c, a
  <2>7. CASE holds[r] /\ rpc[r] = "mark" /\ faults' = faults + 1
    BY <1>2, <1>3, <1>4, <2>1, <2>2, <2>3, <2>7 DEF Owed, c, a
  <2>8. CASE ~(holds[r] /\ rpc[r] = "mark")
    <3>1. c' + One(n \in late)' + faults <= c + One(n \in late) + faults'
      BY <1>3, <1>4, <2>1, <2>3, <2>4
    <3>2. a' <= a /\ One(Open(n))' <= One(Open(n)) /\ faults' \in Nat
      BY <1>2, <1>4, <1>5, <2>1, <2>2, <2>5, <2>8
    <3> QED
      BY <1>11, <1>12, <3>1, <3>2
  <2> QED
    BY <2>1, <2>6, <2>7, <2>8
<1>10. CASE SessionLost(r)
  <2>1. UNCHANGED <<pending, resets, row, rpc, topic, late>> /\ faults' = faults + 1
    BY <1>10 DEF SessionLost, Fault, tables, outboxVars, log
  <2>2. CASE rpc[r] = "publish"
    <3>1. Open(n)' => Open(n)
      BY <1>1, <2>1, <2>2, OpenMoves
    <3> QED
      BY <1>2, <1>3, <1>4, <1>5, <2>1, <3>1 DEF Owed, c, a
  <2>3. CASE rpc[r] # "publish"
    <3>1. r \notin Adrift(n)'
      BY <2>1, <2>3 DEF Adrift
    <3> QED
      BY <1>2, <1>3, <1>4, <2>1, <3>1 DEF Owed, c, a
  <2> QED
    BY <2>2, <2>3
<1> QED
  BY <1>6, <1>7, <1>8, <1>9, <1>10 DEF RelayStep

\* Relays write notifications only.
LEMMA StraysOfRelay ==
  ASSUME TypeInv, NEW r \in Relays, RelayStep(r) \/ SessionLost(r) \/ RelayCrash(r)
  PROVE  Strays' = Strays
<1>1. \/ topic' = topic
      \/ rpc[r] = "publish" /\ topic' = Append(topic, row[r])
  BY DEF RelayStep, Select, Publish, PublishFails, CommitRow, CommitRowFails, SessionLost,
         RelayCrash, log
<1>2. CASE topic' = topic
  BY <1>2 DEF Strays
<1>3. CASE rpc[r] = "publish" /\ topic' = Append(topic, row[r])
  <2>1. row[r] \in Notification /\ row[r] \notin Foreign /\ TopicStep(row[r])
    BY <1>3, ValuesAssumption DEF TypeInv, RowInHand, TopicStep
  <2> QED
    BY <2>1, TopicKept DEF Strays
<1> QED
  BY <1>1, <1>2, <1>3

\* Failures are counted up, and a record no relay wrote is one.
LEMMA StraysMove ==
  ASSUME TypeInv, [Next]_vars, IsFiniteSet(Strays)
  PROVE  /\ IsFiniteSet(Strays') /\ Cardinality(Strays) \in Nat /\ Cardinality(Strays') \in Nat
         /\ faults \in Nat /\ faults' \in Nat /\ faults <= faults'
         /\ (\A m \in Foreign : ~ForeignRecord(m)) => Strays' = Strays
         /\ \A m \in Foreign : ForeignRecord(m) =>
              Cardinality(Strays') = Cardinality(Strays) + 1 /\ faults' = faults + 1
<1> USE DEF TypeInv
<1>1. ASSUME NEW n \in Notification, TopicStep(n) PROVE Strays' = Strays
  <2>1. n \notin Foreign
    BY ValuesAssumption
  <2> QED
    BY <1>1, <2>1, TopicKept DEF Strays
<1>2. ASSUME NEW m \in Foreign, ForeignRecord(m)
      PROVE  /\ IsFiniteSet(Strays') /\ Cardinality(Strays') = Cardinality(Strays) + 1
             /\ faults' = faults + 1
  <2>1. m \notin ToSet(topic) /\ topic' = Append(topic, m) /\ faults' = faults + 1
    BY <1>2 DEF ForeignRecord, Fault
  <2>2. ToSet(topic') = ToSet(topic) \cup {m}
    BY <2>1, TopicGrows
  <2>3. Strays' = Strays \cup {m} /\ m \notin Strays
    BY <2>1, <2>2 DEF Strays
  <2> QED
    BY <2>1, <2>3, FS_AddElement
<1>3. ASSUME NEW r \in Relays, RelayStep(r) \/ SessionLost(r) \/ RelayCrash(r)
      PROVE  Strays' = Strays
  BY <1>3, StraysOfRelay
<1>4. ASSUME NEW n \in late, LateArrival(n) PROVE Strays' = Strays
  BY <1>1, <1>4 DEF LateArrival, TopicStep, TypeOK
<1>5. ASSUME \/ UNCHANGED vars \/ StoreEvent \/ Reset \/ Fence
             \/ \E id \in Ids : BackoffElapses(id)
             \/ \E w \in Workers : WorkerStep(w) \/ WorkerRestarts(w)
      PROVE  Strays' = Strays
  <2>1. topic' = topic
    BY <1>5 DEF vars, log, StoreEvent, Reset, Fence, BackoffElapses, WorkerStep, Poll,
                StoreBatch, StoreRecord, StoreFails, CommitOffset, CommitOffsetFails,
                WorkerRestarts
  <2> QED
    BY <2>1 DEF Strays
<1>6. faults \in Nat /\ (faults' = faults \/ faults' = faults + 1)
  BY DEF TypeOK, Next, vars, StoreEvent, Reset, Fence, RelayStep, Select, Publish, PublishFails,
         CommitRow, CommitRowFails, SessionLost, RelayCrash, BackoffElapses, LateArrival,
         ForeignRecord, WorkerStep, Poll, StoreBatch, StoreRecord, StoreFails, CommitOffset,
         CommitOffsetFails, WorkerRestarts, Fault
<1>7. Strays' = Strays \/ \E m \in Foreign : ForeignRecord(m)
  BY <1>3, <1>4, <1>5 DEF Next
<1>8. IsFiniteSet(Strays')
  BY <1>2, <1>7
<1>9. Cardinality(Strays) \in Nat /\ Cardinality(Strays') \in Nat
  BY <1>8, FS_CardinalityType
<1> QED
  BY <1>2, <1>6, <1>7, <1>8, <1>9

\* What the others add, which is nothing but the row of a new event.
LEMMA OthersPay ==
  ASSUME TypeInv, [Next]_vars, EraInv, NEW n \in Notification, IsFiniteSet(Adrift(n)),
         ~\E r \in Relays : RelayStep(r) \/ SessionLost(r) \/ RelayCrash(r)
  PROVE  /\ IsFiniteSet(Adrift(n)')
         /\ Owed(n)' <= Owed(n) \/ Owed(n)' <= 1
<1> USE DEF TypeInv
<1>1. UNCHANGED <<row, holds, rpc>>
  BY DEF Next, vars, relayVars, StoreEvent, Reset, Fence, BackoffElapses, LateArrival,
         ForeignRecord, WorkerStep, Poll, StoreBatch, StoreRecord, StoreFails, CommitOffset,
         CommitOffsetFails, WorkerRestarts
<1>2. /\ Adrift(n)' = Adrift(n) /\ Cardinality(Adrift(n)) \in Nat
      /\ Cardinality(Copies(n)) \in Nat
  BY <1>1, CopiesMove, FS_CardinalityType DEF Adrift
<1>3. /\ One(n \in late) \in {0, 1} /\ One(n \in late)' \in {0, 1}
      /\ One(Open(n)) \in {0, 1} /\ One(Open(n))' \in {0, 1}
      /\ late' = late => One(n \in late)' = One(n \in late)
      /\ (Open(n)' => Open(n)) => One(Open(n))' <= One(Open(n))
  BY DEF One
<1>4. ASSUME UNCHANGED <<topic, late>>, Open(n)' => Open(n) PROVE Owed(n)' <= Owed(n)
  <2>1. Copies(n)' = Copies(n)
    BY <1>4 DEF Copies
  <2> QED
    BY <1>2, <1>3, <1>4, <2>1 DEF Owed
<1>5. CASE StoreEvent
  <2>1. UNCHANGED <<topic, late, resets>> /\ pending' = pending \cup {nextId}
    BY <1>5 DEF StoreEvent, log
  <2>2. CASE n.id # nextId
    <3>1. Open(n)' => Open(n)
      BY <1>1, <2>1, <2>2 DEF Open
    <3> QED
      BY <1>2, <1>4, <2>1, <3>1
  <2>3. CASE n.id = nextId
    <3>1. ~InPlay(n)
      BY <2>3 DEF EraInv, TypeOK
    <3>2. Copies(n)' = {} /\ Adrift(n)' = {} /\ ~(n \in late')
      <4>1. \A i \in 1..Len(topic) : topic[i] # n
        BY <3>1, InTopic DEF InPlay
      <4> QED
        BY <1>2, <2>1, <3>1, <4>1 DEF InPlay, Copies, Adrift
    <3>3. Cardinality(Copies(n)') = 0 /\ Cardinality(Adrift(n)') = 0 /\ One(n \in late)' = 0
      BY <3>2, FS_EmptySet DEF One
    <3> QED
      BY <1>2, <1>3, <3>3 DEF Owed
  <2> QED
    BY <2>2, <2>3
<1>6. CASE Reset
  <2>1. UNCHANGED <<topic, late>> /\ ~Open(n)'
    BY <1>6 DEF Reset, Open, log
  <2> QED
    BY <1>2, <1>4, <2>1
<1>7. ASSUME NEW m \in late, LateArrival(m) PROVE Owed(n)' <= Owed(n)
  <2>1. /\ m \in Notification /\ late' = late \ {m} /\ topic' = Append(topic, m)
        /\ UNCHANGED <<pending, resets>>
    BY <1>7 DEF LateArrival, TypeOK, tables, outboxVars
  <2>2. One(Open(n))' = One(Open(n))
    BY <1>1, <2>1 DEF One, Open
  <2>3. CASE m = n
    <3>1. One(n \in late) = 1 /\ One(n \in late)' = 0
      BY <2>1, <2>3 DEF One
    <3>2. Cardinality(Copies(n)') = Cardinality(Copies(n)) + 1
      BY <2>1, <2>3, CopiesMove
    <3> QED
      BY <1>2, <1>3, <2>2, <3>1, <3>2 DEF Owed
  <2>4. CASE m # n
    <3>1. One(n \in late)' = One(n \in late)
      BY <2>1, <2>4 DEF One
    <3>2. Copies(n)' = Copies(n)
      BY <2>1, <2>4, CopiesMove
    <3> QED
      BY <1>2, <1>3, <2>2, <3>1, <3>2 DEF Owed
  <2> QED
    BY <2>3, <2>4
<1>8. ASSUME NEW m \in Foreign, ForeignRecord(m) PROVE Owed(n)' <= Owed(n)
  <2>1. /\ m # n /\ topic' = Append(topic, m) /\ UNCHANGED <<late, pending, resets>>
    BY <1>8, ValuesAssumption DEF ForeignRecord, tables, outboxVars
  <2>2. One(Open(n))' = One(Open(n)) /\ Copies(n)' = Copies(n) /\ One(n \in late)' = One(n \in late)
    BY <1>1, <2>1, CopiesMove DEF One, Open
  <2> QED
    BY <1>2, <1>3, <2>2 DEF Owed
<1>9. CASE \/ UNCHANGED vars \/ Fence
           \/ \E id \in Ids : BackoffElapses(id)
           \/ \E w \in Workers : WorkerStep(w) \/ WorkerRestarts(w)
  <2>1. UNCHANGED <<topic, late, pending, resets>>
    BY <1>9 DEF vars, tables, outboxVars, log, Fence, BackoffElapses, WorkerStep, Poll,
                StoreBatch, StoreRecord, StoreFails, CommitOffset, CommitOffsetFails,
                WorkerRestarts
  <2> QED
    BY <1>1, <1>2, <1>4, <2>1 DEF Open
<1>10. Owed(n)' <= Owed(n) \/ Owed(n)' <= 1
  BY <1>5, <1>6, <1>7, <1>8, <1>9 DEF Next
<1> QED
  BY <1>2, <1>10

\* Every step keeps the copies paid for.
LEMMA CopiesStep ==
  ASSUME TypeInv, [Next]_vars, EraInv, RowsLocked, CopiesPaid
  PROVE  CopiesPaid'
<1>1. /\ IsFiniteSet(Strays') /\ Cardinality(Strays) \in Nat /\ Cardinality(Strays') \in Nat
      /\ faults \in Nat /\ faults' \in Nat /\ faults <= faults'
      /\ Cardinality(Strays) <= faults /\ Cardinality(Strays') <= faults'
      /\ Cardinality(Strays') + faults <= Cardinality(Strays) + faults'
      /\ (\A m \in Foreign : ~ForeignRecord(m)) => Strays' = Strays
  BY StraysMove DEF CopiesPaid
<1>2. ASSUME NEW n \in Notification
      PROVE  IsFiniteSet(Adrift(n)') /\ Owed(n)' + Cardinality(Strays') <= 1 + faults'
  <2>1. /\ IsFiniteSet(Adrift(n)) /\ Owed(n) + Cardinality(Strays) <= 1 + faults
        /\ TypeInv'
    BY TypeStep DEF CopiesPaid
  <2>2. IsFiniteSet(Copies(n)') /\ Cardinality(Copies(n)') \in Nat /\ Cardinality(Copies(n)) \in Nat
    <3>1. Len(topic') \in Nat
      BY <2>1 DEF TypeInv, TypeOK
    <3>2. IsFiniteSet(1..Len(topic')) /\ Copies(n)' \subseteq 1..Len(topic')
      BY <3>1, FS_Interval DEF Copies
    <3> QED
      BY <3>2, CopiesMove, FS_Subset, FS_CardinalityType
  <2>3. CASE \E r \in Relays : RelayStep(r) \/ SessionLost(r) \/ RelayCrash(r)
    <3>1. IsFiniteSet(Adrift(n)') /\ Owed(n)' + faults <= Owed(n) + faults'
      BY <2>1, <2>2, <2>3, RelayPays
    <3>2. Owed(n) \in Nat /\ Owed(n)' \in Nat
      BY <2>1, <2>2, <3>1, FS_CardinalityType DEF Owed, One
    <3>3. Strays' = Strays
      BY <2>1, <2>3, StraysOfRelay
    <3> QED
      BY <1>1, <2>1, <3>1, <3>2, <3>3
  <2>4. CASE ~\E r \in Relays : RelayStep(r) \/ SessionLost(r) \/ RelayCrash(r)
    <3>1. IsFiniteSet(Adrift(n)') /\ (Owed(n)' <= Owed(n) \/ Owed(n)' <= 1)
      BY <2>1, <2>4, OthersPay
    <3>2. Owed(n) \in Nat /\ Owed(n)' \in Nat
      BY <2>1, <2>2, <3>1, FS_CardinalityType DEF Owed, One
    <3> QED
      BY <1>1, <2>1, <3>1, <3>2
  <2> QED
    BY <2>3, <2>4
<1> QED
  BY <1>1, <1>2 DEF CopiesPaid

\* Relays that race for a row publish its event once; every further record of it
\* in the topic has a lost session, crash, timeout or failed commit to blame
\* (relay_once, publish_notification_job).
THEOREM CopiesAreAccounted == Spec => []DuplicatesNeedFailures
<1> DEFINE Inv == EraInv /\ RowsLocked /\ CopiesPaid
<1>1. Init => Inv
  <2> SUFFICES ASSUME Init PROVE Inv
    OBVIOUS
  <2>1. ToSet(topic) = {} /\ late = {} /\ \A r \in Relays : row[r] = None
    BY DEF Init, ToSet
  <2>2. EraInv /\ RowsLocked
    BY <2>1, ValuesAssumption DEF Init, EraInv, InPlay, RowsLocked
  <2>3. IsFiniteSet(Strays) /\ Cardinality(Strays) = 0
    <3>1. Strays = {}
      BY <2>1 DEF Strays
    <3> QED
      BY <3>1, FS_EmptySet
  <2>4. ASSUME NEW n \in Notification
        PROVE  IsFiniteSet(Adrift(n)) /\ Owed(n) = 0
    <3>1. Adrift(n) = {} /\ Copies(n) = {} /\ ~Open(n) /\ n \notin late
      BY <2>1 DEF Init, Adrift, Copies, Open
    <3> QED
      BY <3>1, FS_EmptySet DEF Owed, One
  <2> QED
    BY <2>2, <2>3, <2>4 DEF Init, CopiesPaid
<1>2. TypeInv /\ Inv /\ [Next]_vars => Inv'
  BY EraStep, LocksStep, CopiesStep
<1>3. TypeInv /\ Inv => DuplicatesNeedFailures
  <2> SUFFICES ASSUME TypeInv, Inv, NEW n \in Notification
               PROVE  Cardinality({i \in 1..Len(topic) : topic[i] = n})
                        <= 1 + faults - Cardinality(Foreign \cap ToSet(topic))
    BY DEF DuplicatesNeedFailures
  <2>1. /\ IsFiniteSet(Adrift(n)) /\ IsFiniteSet(Strays)
        /\ Owed(n) + Cardinality(Strays) <= 1 + faults
    BY DEF CopiesPaid
  <2>2. /\ Cardinality(Adrift(n)) \in Nat /\ Cardinality(Strays) \in Nat
        /\ Cardinality(Copies(n)) \in Nat /\ faults \in Nat
        /\ One(n \in late) \in Nat /\ One(Open(n)) \in Nat
    BY <2>1, CopiesMove, FS_CardinalityType DEF One, TypeInv, TypeOK
  <2>3. Cardinality(Copies(n)) <= 1 + faults - Cardinality(Strays)
    BY <2>1, <2>2 DEF Owed
  <2> QED
    BY <2>3 DEF Copies, Strays
<1> QED
  BY <1>1, <1>2, <1>3, TypeInit, TypeStep, PTL DEF Spec
=============================================================================

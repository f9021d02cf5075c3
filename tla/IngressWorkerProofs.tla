------------------------ MODULE IngressWorkerProofs ------------------------
(***************************************************************************)
(* Theorems about IngressWorker, for every number of workers, requests,    *)
(* partitions, retries and failures: the types, no duplicate events, no    *)
(* outbox row without its event or event without its row, and no committed *)
(* record without an outcome; the streams' numbers and their order, the    *)
(* statuses that speak of them, and that together they are a run of        *)
(* EventStore.                                                             *)
(***************************************************************************)
EXTENDS IngressWorker, SequenceTheorems, TLAPS

\* A worker that is not idle has a record of the log under its handler.
BusyHasTask ==
  \A w \in Workers : pc[w] # "idle" =>
    /\ task[w] \in Task
    /\ task[w].offset < Len(ingress[task[w].part])

\* No position of the group or of a worker lies beyond the end of the log.
OffsetsInLog ==
  \A p \in Partitions :
    /\ committed[p] <= Len(ingress[p])
    /\ \A w \in Workers : cursor[w][p] <= Len(ingress[p]) /\ fetched[w][p] <= Len(ingress[p])

TypeInv == TypeOK /\ BusyHasTask /\ OffsetsInLog
-----------------------------------------------------------------------------
(* The record of a busy worker is a record, and stays the same while the   *)
(* log only grows.                                                         *)

\* Rec and Req of a busy worker have their types.
LEMMA BusyRecord ==
  ASSUME TypeInv, NEW w \in Workers, pc[w] # "idle"
  PROVE  /\ task[w] \in Task
         /\ task[w].part \in Partitions
         /\ task[w].offset \in Nat
         /\ task[w].retry_count \in Nat
         /\ Rec(w) \in Record
         /\ Req(w) \in Requests
<1>1. task[w] \in Task /\ task[w].offset < Len(ingress[task[w].part])
  BY DEF TypeInv, BusyHasTask
<1>2. task[w].part \in Partitions /\ task[w].offset \in Nat /\ task[w].retry_count \in Nat
  BY <1>1 DEF Task
<1>3. ingress[task[w].part] \in Seq(Record)
  BY <1>2 DEF TypeInv, TypeOK
<1>4. Rec(w) \in Record
  BY <1>1, <1>2, <1>3 DEF Rec
<1>5. Req(w) \in Requests
  BY <1>4 DEF Req, Record
<1> QED
  BY <1>1, <1>2, <1>4, <1>5

\* A step that only appends to the log leaves every record in its place.
LEMMA AppendKeepsRecords ==
  ASSUME TypeOK, NEW r \in Requests, NEW n \in Nat, AppendIngress(r, n)
  PROVE  /\ ingress' \in [Partitions -> Seq(Record)]
         /\ \A p \in Partitions :
              /\ Len(ingress'[p]) >= Len(ingress[p])
              /\ \A i \in 1..Len(ingress[p]) : ingress'[p][i] = ingress[p][i]
<1> DEFINE q == PartitionOf[StreamOf[r]]
           x == [req |-> r, replay_count |-> n]
<1>1. q \in Partitions /\ x \in Record
  BY ConstantsAssumption DEF Record
<1>2. ingress' = [ingress EXCEPT ![q] = Append(ingress[q], x)]
  BY DEF AppendIngress
<1>3. ingress \in [Partitions -> Seq(Record)]
  BY DEF TypeOK
<1> HIDE DEF q, x
<1>4. ingress[q] \in Seq(Record) /\ Append(ingress[q], x) \in Seq(Record)
  BY <1>1, <1>3
<1>5. ingress' \in [Partitions -> Seq(Record)]
  BY <1>2, <1>3, <1>4
<1>6. /\ Len(Append(ingress[q], x)) = Len(ingress[q]) + 1
      /\ Len(ingress[q]) \in Nat
      /\ \A i \in 1..Len(ingress[q]) : Append(ingress[q], x)[i] = ingress[q][i]
  BY <1>1, <1>4
<1>7. ASSUME NEW p \in Partitions
      PROVE  /\ Len(ingress'[p]) >= Len(ingress[p])
             /\ \A i \in 1..Len(ingress[p]) : ingress'[p][i] = ingress[p][i]
  <2>1. CASE p = q
    <3>1. ingress'[p] = Append(ingress[q], x)
      BY <1>1, <1>2, <1>3, <2>1
    <3> QED
      BY <1>6, <2>1, <3>1
  <2>2. CASE p # q
    <3>1. ingress'[p] = ingress[p]
      BY <1>2, <1>3, <2>2
    <3>2. Len(ingress[p]) \in Nat
      BY <1>3
    <3> QED
      BY <3>1, <3>2
  <2> QED
    BY <2>1, <2>2
<1> QED
  BY <1>5, <1>7
-----------------------------------------------------------------------------
(* What the shared parts of the actions do to the types.                   *)

\* Goto moves one worker and leaves the others where they are.
LEMMA GotoType ==
  ASSUME TypeOK, NEW w \in Workers, NEW phase \in Phases, Goto(w, phase)
  PROVE  /\ pc' \in [Workers -> Phases]
         /\ pc'[w] = phase
         /\ \A v \in Workers \ {w} : pc'[v] = pc[v]
BY DEF TypeOK, Goto

\* Rewind leaves its worker idle and touches no other.
LEMMA RewindType ==
  ASSUME TypeInv, NEW w \in Workers, pc[w] # "idle", Rewind(w)
  PROVE  /\ pc' \in [Workers -> Phases]
         /\ pc'[w] = "idle"
         /\ task' \in [Workers -> Task \cup {None}]
         /\ fetched' \in [Workers -> [Partitions -> Nat]]
         /\ \A v \in Workers \ {w} : pc'[v] = pc[v] /\ task'[v] = task[v]
         /\ UNCHANGED <<held, cursor>>
<1>1. task[w].part \in Partitions
  BY BusyRecord
<1>2. /\ fetched' = [fetched EXCEPT ![w][task[w].part] = cursor[w][task[w].part]]
      /\ task' = [task EXCEPT ![w] = None]
      /\ Goto(w, "idle")
      /\ UNCHANGED <<held, cursor>>
  BY DEF Rewind
<1>3. fetched \in [Workers -> [Partitions -> Nat]] /\ cursor[w][task[w].part] \in Nat
  BY <1>1 DEF TypeInv, TypeOK
<1>4. fetched' \in [Workers -> [Partitions -> Nat]]
  BY <1>1, <1>2, <1>3
<1>5. /\ task' \in [Workers -> Task \cup {None}]
      /\ \A v \in Workers \ {w} : task'[v] = task[v]
  BY <1>2 DEF TypeInv, TypeOK
<1>6. "idle" \in Phases
  BY DEF Phases
<1> QED
  BY <1>2, <1>4, <1>5, <1>6, GotoType DEF TypeInv

\* A best-effort status write leaves the status table well formed.
LEMMA WriteStatusType ==
  ASSUME TypeOK, NEW r \in Requests, NEW s \in Statuses, WriteStatus(r, s)
  PROVE  request_statuses' \in [Requests -> Statuses] /\ faults' \in Nat
<1>1. request_statuses \in [Requests -> Statuses] /\ faults \in Nat
  BY DEF TypeOK
<1> QED
  BY <1>1 DEF WriteStatus

\* The transaction writes well-formed rows.
LEMMA TransactionType ==
  ASSUME TypeInv, NEW w \in Workers, TransactionEffect(w)
  PROVE  /\ pc[w] \in InTransaction
         /\ messages' \subseteq Message
         /\ last_seq' \in [Streams -> Nat]
         /\ idempotency_keys' \in [Keys -> Requests \cup {None}]
         /\ request_statuses' \in [Requests -> Statuses]
         /\ outbox' \subseteq Requests
<1> DEFINE r == Req(w)
<1>1. pc[w] \in InTransaction /\ pc[w] # "idle"
  BY DEF TransactionEffect, InTransaction
<1>2. r \in Requests
  BY <1>1, BusyRecord
<1>3. StreamOf[r] \in Streams /\ last_seq[StreamOf[r]] \in Nat /\ RoomSeq[r] \in Nat
  BY <1>2, ConstantsAssumption DEF TypeInv, TypeOK
<1>4. NextSeq(r) \in Nat \ {0} /\ SeqOf(r) \in Nat \ {0}
  BY <1>3 DEF NextSeq, SeqOf
<1>5. last_seq' \in [Streams -> Nat]
  <2>1. last_seq' = last_seq \/ last_seq' = [last_seq EXCEPT ![StreamOf[r]] = NextSeq(r)]
    BY DEF TransactionEffect, InsertMessage
  <2>2. last_seq \in [Streams -> Nat]
    BY DEF TypeInv, TypeOK
  <2> QED
    BY <1>3, <1>4, <2>1, <2>2
<1>6. idempotency_keys' \in [Keys -> Requests \cup {None}]
  <2>1. \/ idempotency_keys' = idempotency_keys
        \/ idempotency_keys' = [idempotency_keys EXCEPT ![KeyOf[r]] = r]
    BY DEF TransactionEffect, InsertMessage
  <2>2. idempotency_keys \in [Keys -> Requests \cup {None}]
    BY DEF TypeInv, TypeOK
  <2> QED
    BY <1>2, <2>1, <2>2
<1>7. messages' \subseteq Message
  <2>1. messages' = messages \/ messages' = messages \cup {[req |-> r, seq |-> SeqOf(r)]}
    BY DEF TransactionEffect, InsertMessage
  <2>2. [req |-> r, seq |-> SeqOf(r)] \in Message
    BY <1>2, <1>4 DEF Message
  <2>3. messages \subseteq Message
    BY DEF TypeInv, TypeOK
  <2> QED
    BY <2>1, <2>2, <2>3
<1>8. request_statuses' \in [Requests -> Statuses]
  BY <1>2 DEF TransactionEffect, TypeInv, TypeOK, Statuses
<1>9. outbox' \subseteq Requests
  BY <1>2 DEF TransactionEffect, EnqueueNotification, TypeInv, TypeOK
<1> QED
  BY <1>1, <1>5, <1>6, <1>7, <1>8, <1>9

\* When the log keeps its records, a worker that is not idle keeps its task.
LEMMA BusyKept ==
  ASSUME TypeInv, NEW w \in Workers,
         \A p \in Partitions : Len(ingress'[p]) >= Len(ingress[p]),
         \A p \in Partitions : Len(ingress[p]) \in Nat /\ Len(ingress'[p]) \in Nat,
         \A v \in Workers \ {w} : pc'[v] = pc[v] /\ task'[v] = task[v],
         pc'[w] # "idle" => /\ task'[w] \in Task
                            /\ task'[w].offset < Len(ingress[task'[w].part])
  PROVE  BusyHasTask'
<1> SUFFICES ASSUME NEW v \in Workers, pc'[v] # "idle"
             PROVE  /\ task'[v] \in Task
                    /\ task'[v].offset < Len(ingress'[task'[v].part])
  BY DEF BusyHasTask
<1>1. task'[v] \in Task /\ task'[v].offset < Len(ingress[task'[v].part])
  BY DEF TypeInv, BusyHasTask
<1>2. task'[v].part \in Partitions /\ task'[v].offset \in Nat
  BY <1>1 DEF Task
<1> QED
  BY <1>1, <1>2
-----------------------------------------------------------------------------
(* Every action preserves the types.                                       *)

\* The log has a length, and a step that keeps it keeps the lengths.
LEMMA LogLengths ==
  ASSUME TypeOK
  PROVE  /\ \A p \in Partitions : Len(ingress[p]) \in Nat
         /\ ingress' = ingress =>
              \A p \in Partitions : Len(ingress'[p]) \in Nat /\ Len(ingress'[p]) >= Len(ingress[p])
<1>1. ingress \in [Partitions -> Seq(Record)]
  BY DEF TypeOK
<1> QED
  BY <1>1

\* A step inside the handler that keeps its task and moves to another phase.
LEMMA HandlerMoveType ==
  ASSUME TypeInv, NEW w \in Workers, NEW phase \in Phases, pc[w] # "idle", Goto(w, phase),
         UNCHANGED <<ingress, task>>
  PROVE  pc' \in [Workers -> Phases] /\ BusyHasTask'
<1>1. pc' \in [Workers -> Phases] /\ \A v \in Workers \ {w} : pc'[v] = pc[v]
  BY GotoType DEF TypeInv
<1>2. task[w] \in Task /\ task[w].offset < Len(ingress[task[w].part])
  BY DEF TypeInv, BusyHasTask
<1> QED
  BY <1>1, <1>2, LogLengths, BusyKept DEF TypeInv

\* A rewind leaves every other worker its task, and its own batch ends at its
\* position.
LEMMA RewindBusy ==
  ASSUME TypeInv, NEW w \in Workers, pc[w] # "idle", Rewind(w), UNCHANGED ingress
  PROVE  /\ BusyHasTask'
         /\ \A v \in Workers : \A p \in Partitions :
               cursor'[v][p] <= Len(ingress[p]) /\ fetched'[v][p] <= Len(ingress[p])
<1>1. pc'[w] = "idle" /\ \A v \in Workers \ {w} : pc'[v] = pc[v] /\ task'[v] = task[v]
  BY RewindType
<1>2. BusyHasTask'
  BY <1>1, LogLengths, BusyKept DEF TypeInv
<1>3. task[w].part \in Partitions
  BY BusyRecord
<1>4. /\ cursor' = cursor
      /\ fetched' = [fetched EXCEPT ![w][task[w].part] = cursor[w][task[w].part]]
      /\ fetched \in [Workers -> [Partitions -> Nat]]
  BY DEF Rewind, TypeInv, TypeOK
<1>5. \A v \in Workers : \A p \in Partitions :
        fetched'[v][p] = fetched[v][p] \/ fetched'[v][p] = cursor[v][p]
  BY <1>3, <1>4
<1> QED
  BY <1>2, <1>4, <1>5 DEF TypeInv, OffsetsInLog

\* The two ways a retryable error goes on are phases.
LEMMA RetryOrDlqIsMove ==
  ASSUME NEW w \in Workers, RetryOrDlq(w)
  PROVE  \E phase \in Phases : Goto(w, phase)
BY DEF RetryOrDlq, Phases

\* Appending to the log.
LEMMA AppendType ==
  ASSUME TypeInv, NEW r \in Requests, NEW n \in Nat, AppendIngress(r, n)
  PROVE  TypeInv'
<1>1. /\ ingress' \in [Partitions -> Seq(Record)]
      /\ \A p \in Partitions : Len(ingress'[p]) >= Len(ingress[p])
  BY AppendKeepsRecords DEF TypeInv
<1>2. UNCHANGED <<committed, owner, dlq, workerVars, dbVars, faults>>
  BY DEF AppendIngress
<1>3. TypeOK'
  BY <1>1, <1>2 DEF TypeInv, TypeOK, workerVars, dbVars
<1>4. UNCHANGED <<task, pc>>
  BY <1>2 DEF workerVars
<1>5. BusyHasTask'
  <2> SUFFICES ASSUME NEW w \in Workers, pc'[w] # "idle"
               PROVE  task'[w] \in Task /\ task'[w].offset < Len(ingress'[task'[w].part])
    BY DEF BusyHasTask
  <2>1. task[w] \in Task /\ task[w].offset < Len(ingress[task[w].part])
    BY <1>4 DEF TypeInv, BusyHasTask
  <2>2. task[w].part \in Partitions /\ task[w].offset \in Nat
    BY <2>1 DEF Task
  <2>3. Len(ingress[task[w].part]) \in Nat /\ Len(ingress'[task[w].part]) \in Nat
    BY <1>1, <2>2, LogLengths DEF TypeInv
  <2> QED
    BY <1>1, <1>4, <2>1, <2>2, <2>3
<1>6. OffsetsInLog'
  <2>1. ASSUME NEW p \in Partitions, NEW i \in Nat, i <= Len(ingress[p])
        PROVE  i <= Len(ingress'[p])
    <3>1. Len(ingress[p]) \in Nat /\ Len(ingress'[p]) \in Nat
      BY <1>1, LogLengths DEF TypeInv
    <3> QED
      BY <1>1, <2>1, <3>1
  <2>2. UNCHANGED <<committed, cursor, fetched>>
    BY <1>2 DEF workerVars
  <2>3. /\ committed \in [Partitions -> Nat]
        /\ cursor \in [Workers -> [Partitions -> Nat]]
        /\ fetched \in [Workers -> [Partitions -> Nat]]
    BY DEF TypeInv, TypeOK
  <2> QED
    BY <2>1, <2>2, <2>3 DEF TypeInv, OffsetsInLog
<1> QED
  BY <1>3, <1>5, <1>6 DEF TypeInv
-----------------------------------------------------------------------------
(* One step per action.                                                    *)

\* Every step preserves the types and keeps the positions inside the log.
LEMMA TypeStep ==
  TypeInv /\ [Next]_vars => TypeInv'
<1> SUFFICES ASSUME TypeInv, [Next]_vars PROVE TypeInv'
  OBVIOUS
<1> USE DEF TypeInv
<1>0. UNCHANGED <<ingress, committed, cursor, fetched>> => OffsetsInLog'
  BY DEF OffsetsInLog
<1>1. ASSUME NEW r \in Requests, Publish(r) PROVE TypeInv'
  BY <1>1, AppendType DEF Publish
<1>2. ASSUME NEW d \in dlq, ReplayDlq(d) PROVE TypeInv'
  <2>1. d.req \in Requests /\ d.replay_count + 1 \in Nat
    BY DEF TypeOK, Record
  <2> QED
    BY <1>2, <2>1, AppendType DEF ReplayDlq
<1>3. ASSUME NEW p \in Partitions, Fence(p) PROVE TypeInv'
  <2>1. TypeOK'
    BY <1>3 DEF Fence, Fault, workerVars, dbVars, TypeOK
  <2>2. BusyHasTask' /\ OffsetsInLog'
    BY <1>0, <1>3 DEF Fence, workerVars, BusyHasTask
  <2> QED
    BY <2>1, <2>2
<1>4. ASSUME NEW w \in Workers, Poll(w) PROVE TypeInv'
  <2> DEFINE mine == {p \in held[w] : owner[p] = w}
             end(p) == IF Len(ingress[p]) < cursor[w][p] + MaxPoll
                       THEN Len(ingress[p]) ELSE cursor[w][p] + MaxPoll
             new == [p \in Partitions |-> IF p \in mine THEN end(p) ELSE cursor[w][p]]
  <2>1. /\ held' = [held EXCEPT ![w] = mine]
        /\ fetched' = [fetched EXCEPT ![w] = new]
        /\ UNCHANGED <<kafkaVars, cursor, task, pc, dbVars, faults>>
    BY <1>4 DEF Poll
  <2>2. mine \in SUBSET Partitions
    BY DEF TypeOK
  <2>3. \A p \in Partitions : Len(ingress[p]) \in Nat /\ cursor[w][p] \in Nat
    BY LogLengths DEF TypeOK
  <2>4. MaxPoll \in Nat
    BY ConstantsAssumption
  <2>5. new \in [Partitions -> Nat]
    BY <2>3, <2>4
  <2>6. \A p \in Partitions : new[p] <= Len(ingress[p])
    BY <2>3, <2>4 DEF OffsetsInLog
  <2> HIDE DEF mine, new
  <2>7. held' \in [Workers -> SUBSET Partitions] /\ fetched' \in [Workers -> [Partitions -> Nat]]
    BY <2>1, <2>2, <2>5 DEF TypeOK
  <2>8. TypeOK' /\ BusyHasTask'
    BY <2>1, <2>7 DEF TypeOK, BusyHasTask, kafkaVars, dbVars
  <2>9. OffsetsInLog'
    <3>1. \A v \in Workers : \A p \in Partitions :
            fetched'[v][p] = fetched[v][p] \/ fetched'[v][p] = new[p]
      BY <2>1 DEF TypeOK
    <3> QED
      BY <2>1, <2>6, <3>1 DEF OffsetsInLog, kafkaVars
  <2> QED
    BY <2>8, <2>9
<1>5. ASSUME NEW w \in Workers, NEW p \in Partitions, Assign(w, p) PROVE TypeInv'
  <2>1. /\ owner' \in [Partitions -> Workers \cup {None}]
        /\ held' \in [Workers -> SUBSET Partitions]
    BY <1>5 DEF Assign, TypeOK
  <2>2. /\ cursor' = [cursor EXCEPT ![w][p] = committed[p]]
        /\ fetched' = [fetched EXCEPT ![w][p] = committed[p]]
        /\ UNCHANGED <<ingress, committed, dlq, task, pc, dbVars, faults>>
    BY <1>5 DEF Assign
  <2>3. /\ committed[p] \in Nat
        /\ cursor \in [Workers -> [Partitions -> Nat]]
        /\ fetched \in [Workers -> [Partitions -> Nat]]
    BY DEF TypeOK
  <2>4. /\ cursor' \in [Workers -> [Partitions -> Nat]]
        /\ fetched' \in [Workers -> [Partitions -> Nat]]
    BY <2>2, <2>3
  <2>5. TypeOK' /\ BusyHasTask'
    BY <2>1, <2>2, <2>4 DEF TypeOK, BusyHasTask, dbVars
  <2>6. \A v \in Workers : \A q \in Partitions :
           /\ cursor'[v][q] = cursor[v][q] \/ cursor'[v][q] = committed[q]
           /\ fetched'[v][q] = fetched[v][q] \/ fetched'[v][q] = committed[q]
    BY <2>2, <2>3
  <2>7. OffsetsInLog'
    BY <2>2, <2>6 DEF OffsetsInLog
  <2> QED
    BY <2>5, <2>7
<1>6. ASSUME NEW w \in Workers, NEW p \in Partitions, Take(w, p) PROVE TypeInv'
  <2> DEFINE t == [part |-> p, offset |-> cursor[w][p], retry_count |-> 0]
  <2>1. /\ pc[w] = "idle"
        /\ cursor[w][p] < fetched[w][p]
        /\ task' = [task EXCEPT ![w] = t]
        /\ Goto(w, "publish_dlq") \/ Goto(w, "begin")
        /\ UNCHANGED <<kafkaVars, held, cursor, fetched, dbVars, faults>>
    BY <1>6 DEF Take
  <2>2. /\ cursor[w][p] \in Nat /\ fetched[w][p] \in Nat /\ Len(ingress[p]) \in Nat
        /\ fetched[w][p] <= Len(ingress[p])
    BY LogLengths DEF TypeOK, OffsetsInLog
  <2>3. t \in Task /\ t.part = p /\ t.offset < Len(ingress[p])
    BY <2>1, <2>2 DEF Task
  <2> HIDE DEF t
  <2>4. pc' \in [Workers -> Phases] /\ \A v \in Workers \ {w} : pc'[v] = pc[v]
    BY <2>1, GotoType DEF Phases
  <2>5. /\ task' \in [Workers -> Task \cup {None}]
        /\ task'[w] = t
        /\ \A v \in Workers \ {w} : task'[v] = task[v]
    BY <2>1, <2>3 DEF TypeOK
  <2>6. BusyHasTask'
    BY <2>1, <2>3, <2>4, <2>5, LogLengths, BusyKept DEF kafkaVars
  <2> QED
    BY <1>0, <2>1, <2>4, <2>5, <2>6 DEF TypeOK, kafkaVars, dbVars
<1>7. ASSUME NEW w \in Workers, Crash(w) PROVE TypeInv'
  <2> DEFINE zero == [p \in Partitions |-> 0]
  <2>1. /\ held' = [held EXCEPT ![w] = {}]
        /\ cursor' = [cursor EXCEPT ![w] = zero]
        /\ fetched' = [fetched EXCEPT ![w] = zero]
        /\ task' = [task EXCEPT ![w] = None]
        /\ Goto(w, "idle")
        /\ owner' = [p \in Partitions |-> IF owner[p] = w THEN None ELSE owner[p]]
        /\ faults' = faults + 1
        /\ UNCHANGED <<ingress, committed, dlq, dbVars>>
    BY <1>7 DEF Crash, Fault
  <2>2. zero \in [Partitions -> Nat] /\ \A p \in Partitions : zero[p] = 0
    OBVIOUS
  <2> HIDE DEF zero
  <2>3. "idle" \in Phases
    BY DEF Phases
  <2>4. /\ pc' \in [Workers -> Phases] /\ pc'[w] = "idle"
        /\ \A v \in Workers \ {w} : pc'[v] = pc[v] /\ task'[v] = task[v]
    BY <2>1, <2>3, GotoType DEF TypeOK
  <2>5. BusyHasTask'
    BY <2>1, <2>4, LogLengths, BusyKept
  <2>6. /\ held' \in [Workers -> SUBSET Partitions]
        /\ cursor' \in [Workers -> [Partitions -> Nat]]
        /\ fetched' \in [Workers -> [Partitions -> Nat]]
        /\ task' \in [Workers -> Task \cup {None}]
        /\ owner' \in [Partitions -> Workers \cup {None}]
    BY <2>1, <2>2 DEF TypeOK
  <2>7. TypeOK'
    BY <2>1, <2>4, <2>6 DEF TypeOK, dbVars
  <2>8. \A v \in Workers : \A p \in Partitions :
          /\ cursor'[v][p] = cursor[v][p] \/ cursor'[v][p] = 0
          /\ fetched'[v][p] = fetched[v][p] \/ fetched'[v][p] = 0
    BY <2>1, <2>2 DEF TypeOK
  <2>9. OffsetsInLog'
    BY <2>1, <2>8, LogLengths DEF OffsetsInLog
  <2> QED
    BY <2>5, <2>7, <2>9
<1>8. ASSUME NEW w \in Workers, BeginTransaction(w) PROVE TypeInv'
  <2>1. PICK phase \in Phases : Goto(w, phase)
    BY <1>8 DEF BeginTransaction, Phases, InTransaction
  <2>2. pc[w] # "idle" /\ UNCHANGED <<kafkaVars, held, cursor, fetched, task, dbVars, faults>>
    BY <1>8 DEF BeginTransaction
  <2>3. UNCHANGED <<ingress, task>>
    BY <2>2 DEF kafkaVars
  <2>4. pc' \in [Workers -> Phases] /\ BusyHasTask'
    BY <2>1, <2>2, <2>3, HandlerMoveType
  <2> QED
    BY <1>0, <2>2, <2>4 DEF TypeOK, kafkaVars, dbVars
<1>9. ASSUME NEW w \in Workers, TransactionEffect(w), NEW phase \in Phases, Goto(w, phase),
             faults' \in Nat, UNCHANGED <<kafkaVars, held, cursor, fetched, task>>
      PROVE  TypeInv'
  <2>1. /\ pc[w] # "idle"
        /\ messages' \subseteq Message
        /\ last_seq' \in [Streams -> Nat]
        /\ idempotency_keys' \in [Keys -> Requests \cup {None}]
        /\ request_statuses' \in [Requests -> Statuses]
        /\ outbox' \subseteq Requests
    BY <1>9, TransactionType DEF InTransaction
  <2>2. UNCHANGED <<ingress, committed, owner, dlq>>
    BY <1>9 DEF kafkaVars
  <2>3. pc' \in [Workers -> Phases] /\ BusyHasTask'
    BY <1>9, <2>1, <2>2, HandlerMoveType
  <2> QED
    BY <1>0, <1>9, <2>1, <2>2, <2>3 DEF TypeOK
<1>10. ASSUME NEW w \in Workers, CommitTransaction(w) PROVE TypeInv'
  <2>1. "commit_offset" \in Phases /\ faults' \in Nat
    BY <1>10 DEF CommitTransaction, Phases, TypeOK
  <2> QED
    BY <1>9, <1>10, <2>1 DEF CommitTransaction
<1>11. ASSUME NEW w \in Workers, CommitReplyLost(w) PROVE TypeInv'
  <2>1. PICK phase \in Phases : Goto(w, phase)
    BY <1>11, RetryOrDlqIsMove DEF CommitReplyLost
  <2>2. faults' \in Nat
    BY <1>11 DEF CommitReplyLost, Fault, TypeOK
  <2> QED
    BY <1>9, <1>11, <2>1, <2>2 DEF CommitReplyLost
<1>12. ASSUME NEW w \in Workers, pc[w] # "idle", Rewind(w), dlq' \subseteq Record,
              faults' \in Nat, UNCHANGED <<ingress, committed, owner, dbVars>>
       PROVE  TypeInv'
  <2>1. TypeOK'
    BY <1>12, RewindType DEF TypeOK, dbVars
  <2>2. BusyHasTask' /\ OffsetsInLog'
    BY <1>12, RewindBusy DEF OffsetsInLog
  <2> QED
    BY <2>1, <2>2
<1>13. ASSUME NEW w \in Workers, NEW phase \in Phases, pc[w] # "idle", Goto(w, phase),
              faults' \in Nat, UNCHANGED <<kafkaVars, held, cursor, fetched, task, dbVars>>
       PROVE  TypeInv'
  <2>1. UNCHANGED <<ingress, committed, owner, dlq>>
    BY <1>13 DEF kafkaVars
  <2>2. pc' \in [Workers -> Phases] /\ BusyHasTask'
    BY <1>13, <2>1, HandlerMoveType
  <2> QED
    BY <1>0, <1>13, <2>1, <2>2 DEF TypeOK, dbVars
<1>14. ASSUME NEW w \in Workers, InsertRefused(w) PROVE TypeInv'
  <2>1. /\ pc[w] # "idle" /\ faults' \in Nat
        /\ UNCHANGED <<kafkaVars, dbVars>>
    BY <1>14 DEF InsertRefused, TypeOK
  <2>2. \/ /\ Goto(w, "status_failed") \/ RetryOrDlq(w) \/ Goto(w, "publish_dlq")
           /\ UNCHANGED <<held, cursor, fetched, task>>
        \/ Rewind(w)
    BY <1>14 DEF InsertRefused
  <2>3. CASE Rewind(w)
    BY <1>12, <2>1, <2>3 DEF kafkaVars, TypeOK
  <2>4. CASE ~Rewind(w)
    <3>1. PICK phase \in Phases : Goto(w, phase)
      BY <2>2, <2>4, RetryOrDlqIsMove DEF Phases
    <3> QED
      BY <1>13, <2>1, <2>2, <2>4, <3>1
  <2> QED
    BY <2>3, <2>4
<1>15. ASSUME NEW w \in Workers, TransientError(w) PROVE TypeInv'
  <2>1. PICK phase \in Phases : Goto(w, phase)
    BY <1>15, RetryOrDlqIsMove DEF TransientError
  <2>2. pc[w] # "idle" /\ faults' \in Nat
    BY <1>15 DEF TransientError, InTransaction, Fault, TypeOK
  <2> QED
    BY <1>13, <1>15, <2>1, <2>2 DEF TransientError
<1>16. ASSUME NEW w \in Workers, HandlerRaises(w) PROVE TypeInv'
  <2>1. pc[w] # "idle" /\ faults' \in Nat
    BY <1>16 DEF HandlerRaises, InTransaction, Fault, TypeOK
  <2>2. Rewind(w) /\ UNCHANGED <<ingress, committed, owner, dlq, dbVars>>
    BY <1>16 DEF HandlerRaises, kafkaVars
  <2> QED
    BY <1>12, <2>1, <2>2 DEF TypeOK
<1>17. ASSUME NEW w \in Workers, NEW s \in Statuses, NEW phase \in Phases, pc[w] # "idle",
              WriteStatus(Req(w), s), Goto(w, phase), task' \in [Workers -> Task \cup {None}],
              task'[w] \in Task, task'[w].offset < Len(ingress[task'[w].part]),
              \A v \in Workers \ {w} : task'[v] = task[v],
              UNCHANGED <<kafkaVars, held, cursor, fetched, messages, last_seq,
                          idempotency_keys, outbox>>
       PROVE  TypeInv'
  <2>1. request_statuses' \in [Requests -> Statuses] /\ faults' \in Nat
    BY <1>17, BusyRecord, WriteStatusType
  <2>2. UNCHANGED <<ingress, committed, owner, dlq>>
    BY <1>17 DEF kafkaVars
  <2>3. pc' \in [Workers -> Phases] /\ \A v \in Workers \ {w} : pc'[v] = pc[v]
    BY <1>17, GotoType
  <2>4. BusyHasTask'
    BY <1>17, <2>2, <2>3, LogLengths, BusyKept
  <2> QED
    BY <1>0, <1>17, <2>1, <2>2, <2>3, <2>4 DEF TypeOK
<1>18. ASSUME NEW w \in Workers, NEW s \in Statuses, NEW phase \in Phases, pc[w] # "idle",
              WriteStatus(Req(w), s), Goto(w, phase),
              UNCHANGED <<kafkaVars, held, cursor, fetched, task, messages, last_seq,
                          idempotency_keys, outbox>>
       PROVE  TypeInv'
  <2>1. task[w] \in Task /\ task[w].offset < Len(ingress[task[w].part])
    BY <1>18 DEF BusyHasTask
  <2>2. task \in [Workers -> Task \cup {None}]
    BY DEF TypeOK
  <2> QED
    BY <1>17, <1>18, <2>1, <2>2
<1>19. ASSUME NEW w \in Workers, MarkInlineRetry(w) PROVE TypeInv'
  <2>1. /\ pc[w] # "idle" /\ WriteStatus(Req(w), "queued") /\ Goto(w, "begin")
        /\ task' = [task EXCEPT ![w].retry_count = task[w].retry_count + 1]
        /\ UNCHANGED <<kafkaVars, held, cursor, fetched, messages, last_seq, idempotency_keys, outbox>>
    BY <1>19 DEF MarkInlineRetry
  <2>2. /\ task[w] \in Task /\ task[w].offset < Len(ingress[task[w].part])
        /\ task[w].retry_count \in Nat
    BY <2>1, BusyRecord DEF BusyHasTask
  <2> DEFINE t == [task[w] EXCEPT !.retry_count = task[w].retry_count + 1]
  <2>3. t \in Task /\ t.part = task[w].part /\ t.offset = task[w].offset
    BY <2>2 DEF Task
  <2>4. task' = [task EXCEPT ![w] = t]
    BY <2>1
  <2> HIDE DEF t
  <2>5. /\ task' \in [Workers -> Task \cup {None}] /\ task'[w] = t
        /\ \A v \in Workers \ {w} : task'[v] = task[v]
    BY <2>3, <2>4 DEF TypeOK
  <2> QED
    BY <1>17, <2>1, <2>2, <2>3, <2>5 DEF Statuses, Phases
<1>20. ASSUME NEW w \in Workers, PublishDlq(w) PROVE TypeInv'
  <2>1. /\ pc[w] # "idle"
        /\ dlq' = dlq \cup {Rec(w)}
        /\ UNCHANGED <<ingress, committed, owner, held, cursor, fetched, task, dbVars, faults>>
    BY <1>20 DEF PublishDlq
  <2>2. PICK phase \in Phases : Goto(w, phase)
    BY <1>20 DEF PublishDlq, Phases
  <2>3. dlq' \subseteq Record
    BY <2>1, BusyRecord DEF TypeOK
  <2>4. pc' \in [Workers -> Phases] /\ BusyHasTask'
    BY <2>1, <2>2, HandlerMoveType
  <2> QED
    BY <1>0, <2>1, <2>3, <2>4 DEF TypeOK, dbVars
<1>21. ASSUME NEW w \in Workers, PublishDlqFails(w) PROVE TypeInv'
  <2>1. /\ pc[w] # "idle" /\ Rewind(w)
        /\ dlq' \in {dlq, dlq \cup {Rec(w)}}
        /\ UNCHANGED <<ingress, committed, owner, dbVars>>
    BY <1>21 DEF PublishDlqFails
  <2>2. faults' \in Nat
    BY <1>21 DEF PublishDlqFails, Fault, TypeOK
  <2>3. dlq' \subseteq Record
    BY <2>1, BusyRecord DEF TypeOK
  <2> QED
    BY <1>12, <2>1, <2>2, <2>3
<1>22. ASSUME NEW w \in Workers, StatusFailedDlq(w) PROVE TypeInv'
  <2>1. pc[w] # "idle" /\ WriteStatus(Req(w), "failed_dlq") /\ Goto(w, "commit_offset")
    BY <1>22 DEF StatusFailedDlq
  <2>2. UNCHANGED <<kafkaVars, held, cursor, fetched, task, messages, last_seq, idempotency_keys, outbox>>
    BY <1>22 DEF StatusFailedDlq
  <2> QED
    BY <1>18, <2>1, <2>2 DEF Statuses, Phases
<1>23. ASSUME NEW w \in Workers, StatusFailed(w) PROVE TypeInv'
  <2>1. pc[w] # "idle" /\ WriteStatus(Req(w), "failed") /\ Goto(w, "commit_offset")
    BY <1>23 DEF StatusFailed
  <2>2. UNCHANGED <<kafkaVars, held, cursor, fetched, task, messages, last_seq, idempotency_keys, outbox>>
    BY <1>23 DEF StatusFailed
  <2> QED
    BY <1>18, <2>1, <2>2 DEF Statuses, Phases
<1>24. ASSUME NEW w \in Workers, CommitOffset(w) PROVE TypeInv'
  <2> DEFINE p == task[w].part
             n == task[w].offset + 1
  <2>1. /\ pc[w] # "idle"
        /\ committed' = [committed EXCEPT ![p] = n]
        /\ cursor' = [cursor EXCEPT ![w][p] = n]
        /\ task' = [task EXCEPT ![w] = None]
        /\ Goto(w, "idle")
        /\ UNCHANGED <<ingress, owner, dlq, held, fetched, dbVars, faults>>
    BY <1>24 DEF CommitOffset
  <2>2. p \in Partitions /\ n \in Nat /\ n <= Len(ingress[p])
    BY <2>1, BusyRecord, LogLengths DEF BusyHasTask
  <2> HIDE DEF p, n
  <2>3. committed \in [Partitions -> Nat] /\ cursor \in [Workers -> [Partitions -> Nat]]
    BY DEF TypeOK
  <2>4. /\ committed' \in [Partitions -> Nat] /\ cursor' \in [Workers -> [Partitions -> Nat]]
        /\ \A q \in Partitions : committed'[q] = committed[q] \/ (q = p /\ committed'[q] = n)
        /\ \A v \in Workers : \A q \in Partitions :
              cursor'[v][q] = cursor[v][q] \/ (q = p /\ cursor'[v][q] = n)
    BY <2>1, <2>2, <2>3
  <2>5. "idle" \in Phases
    BY DEF Phases
  <2>6. /\ pc' \in [Workers -> Phases] /\ pc'[w] = "idle"
        /\ \A v \in Workers \ {w} : pc'[v] = pc[v] /\ task'[v] = task[v]
        /\ task' \in [Workers -> Task \cup {None}]
    BY <2>1, <2>5, GotoType DEF TypeOK
  <2>7. BusyHasTask'
    BY <2>1, <2>6, LogLengths, BusyKept
  <2>8. OffsetsInLog'
    BY <2>1, <2>2, <2>4 DEF OffsetsInLog
  <2> QED
    BY <2>1, <2>4, <2>6, <2>7, <2>8 DEF TypeOK, dbVars
<1>25. ASSUME NEW w \in Workers, CommitOffsetFails(w) PROVE TypeInv'
  <2> DEFINE p == task[w].part
             n == task[w].offset + 1
  <2>1. /\ pc[w] # "idle" /\ Rewind(w)
        /\ committed' = committed \/ committed' = [committed EXCEPT ![p] = n]
        /\ UNCHANGED <<ingress, owner, dlq, dbVars>>
        /\ faults' \in Nat
    BY <1>25 DEF CommitOffsetFails, Fault, TypeOK
  <2>2. p \in Partitions /\ n \in Nat /\ n <= Len(ingress[p])
    BY <2>1, BusyRecord, LogLengths DEF BusyHasTask
  <2> HIDE DEF p, n
  <2>3. /\ committed' \in [Partitions -> Nat]
        /\ \A q \in Partitions : committed'[q] = committed[q] \/ (q = p /\ committed'[q] = n)
    BY <2>1, <2>2 DEF TypeOK
  <2>4. TypeOK'
    BY <2>1, <2>3, RewindType DEF TypeOK, dbVars
  <2>5. BusyHasTask' /\ OffsetsInLog'
    BY <2>1, <2>2, <2>3, RewindBusy DEF OffsetsInLog
  <2> QED
    BY <2>4, <2>5
<1>26. CASE UNCHANGED vars
  BY <1>0, <1>26 DEF vars, kafkaVars, workerVars, dbVars, TypeOK, BusyHasTask
<1> QED
  BY <1>1, <1>2, <1>3, <1>4, <1>5, <1>6, <1>7, <1>8, <1>10, <1>11, <1>14, <1>15, <1>16, <1>19,
     <1>20, <1>21, <1>22, <1>23, <1>24, <1>25, <1>26
     DEF Next, WorkerStep, Handle, Failure
-----------------------------------------------------------------------------
\* The initial state is well typed and nobody is busy.
LEMMA TypeInit == Init => TypeInv
<1> SUFFICES ASSUME Init PROVE TypeInv
  OBVIOUS
<1>1. ingress \in [Partitions -> Seq(Record)] /\ \A p \in Partitions : Len(ingress[p]) = 0
  BY DEF Init
<1>2. TypeOK
  BY <1>1 DEF Init, TypeOK, Phases, Statuses
<1>3. BusyHasTask /\ OffsetsInLog
  BY <1>1 DEF Init, BusyHasTask, OffsetsInLog
<1> QED
  BY <1>2, <1>3 DEF TypeInv

\* In every behaviour the variables keep their types, a busy worker has a record
\* of the log under its handler and no offset lies beyond the log.
THEOREM TypeCorrect == Spec => [](TypeOK /\ BusyHasTask /\ OffsetsInLog)
<1>1. TypeInv => TypeOK /\ BusyHasTask /\ OffsetsInLog
  BY DEF TypeInv
<1> QED
  BY <1>1, TypeInit, TypeStep, PTL DEF Spec

-----------------------------------------------------------------------------
(* What a step can do to the tables: nothing, open a transaction, or carry *)
(* one out.                                                                *)

\* No table but request_statuses changes and no worker enters a transaction.
Quiet ==
  /\ UNCHANGED <<messages, last_seq, idempotency_keys, outbox>>
  /\ \A v \in Workers : pc'[v] \in InTransaction => pc'[v] = pc[v] /\ Req(v)' = Req(v)

\* The transaction of w takes effect and w leaves it.
Commits(w) ==
  /\ TransactionEffect(w)
  /\ pc'[w] \notin InTransaction
  /\ UNCHANGED <<ingress, task>>
  /\ \A v \in Workers \ {w} : pc'[v] = pc[v]

\* The record of a busy worker is not affected by an append.
LEMMA AppendKeepsReq ==
  ASSUME TypeInv, NEW r \in Requests, NEW n \in Nat, AppendIngress(r, n),
         NEW v \in Workers, pc[v] # "idle"
  PROVE  Rec(v)' = Rec(v) /\ Req(v)' = Req(v)
<1>1. task' = task
  BY DEF AppendIngress, workerVars
<1>2. /\ task[v].part \in Partitions
      /\ task[v].offset \in Nat
      /\ task[v].offset < Len(ingress[task[v].part])
  BY BusyRecord DEF TypeInv, BusyHasTask
<1>3. task[v].offset + 1 \in 1..Len(ingress[task[v].part])
  BY <1>2, LogLengths DEF TypeInv
<1>4. ingress'[task[v].part][task[v].offset + 1] = ingress[task[v].part][task[v].offset + 1]
  BY <1>2, <1>3, AppendKeepsRecords DEF TypeInv
<1> QED
  BY <1>1, <1>4 DEF Rec, Req

\* Rewind takes its worker out of the transaction and keeps the others.
LEMMA RewindIsQuiet ==
  ASSUME TypeInv, NEW w \in Workers, pc[w] # "idle", Rewind(w),
         UNCHANGED <<ingress, messages, last_seq, idempotency_keys, outbox>>
  PROVE  Quiet
<1>1. pc'[w] = "idle" /\ \A v \in Workers \ {w} : pc'[v] = pc[v] /\ task'[v] = task[v]
  BY RewindType
<1>2. "idle" \notin InTransaction
  BY DEF InTransaction
<1> QED
  BY <1>1, <1>2 DEF Quiet, Req, Rec

\* Leaving for a phase outside the transaction keeps the others.
LEMMA GotoIsQuiet ==
  ASSUME TypeInv, NEW w \in Workers, NEW phase \in Phases \ InTransaction, Goto(w, phase),
         \A v \in Workers \ {w} : task'[v] = task[v],
         UNCHANGED <<ingress, messages, last_seq, idempotency_keys, outbox>>
  PROVE  Quiet
<1>1. pc'[w] = phase /\ \A v \in Workers \ {w} : pc'[v] = pc[v]
  BY GotoType DEF TypeInv
<1> QED
  BY <1>1 DEF Quiet, Req, Rec

\* A retry or a move to the DLQ leaves the transaction.
LEMMA RetryOrDlqLeaves ==
  ASSUME NEW w \in Workers, RetryOrDlq(w)
  PROVE  \E phase \in Phases \ InTransaction : Goto(w, phase)
BY DEF RetryOrDlq, Phases, InTransaction

\* The three shapes of a step.
LEMMA StepShape ==
  ASSUME TypeInv, [Next]_vars
  PROVE  \/ Quiet
         \/ \E w \in Workers : BeginTransaction(w)
         \/ \E w \in Workers : Commits(w)
<1> USE DEF TypeInv
<1>1. ASSUME NEW r \in Requests, NEW n \in Nat, AppendIngress(r, n) PROVE Quiet
  <2>1. pc' = pc /\ UNCHANGED <<messages, last_seq, idempotency_keys, outbox>>
    BY <1>1 DEF AppendIngress, workerVars, dbVars
  <2>2. \A v \in Workers : pc'[v] \in InTransaction => pc[v] # "idle"
    BY <2>1 DEF InTransaction
  <2>3. \A v \in Workers : pc[v] # "idle" => Req(v)' = Req(v)
    BY <1>1, AppendKeepsReq
  <2> QED
    BY <2>1, <2>2, <2>3 DEF Quiet
<1>2. ASSUME UNCHANGED <<ingress, task, pc, messages, last_seq, idempotency_keys, outbox>> PROVE Quiet
  BY <1>2 DEF Quiet, Req, Rec
<1>3. ASSUME NEW w \in Workers, CommitTransaction(w) PROVE Commits(w)
  <2>1. "commit_offset" \in Phases /\ "commit_offset" \notin InTransaction
    BY DEF Phases, InTransaction
  <2>2. pc'[w] = "commit_offset" /\ \A v \in Workers \ {w} : pc'[v] = pc[v]
    BY <1>3, <2>1, GotoType DEF CommitTransaction
  <2> QED
    BY <1>3, <2>1, <2>2 DEF CommitTransaction, Commits, kafkaVars
<1>4. ASSUME NEW w \in Workers, CommitReplyLost(w) PROVE Commits(w)
  <2>1. PICK phase \in Phases \ InTransaction : Goto(w, phase)
    BY <1>4, RetryOrDlqLeaves DEF CommitReplyLost
  <2>2. pc'[w] \notin InTransaction /\ \A v \in Workers \ {w} : pc'[v] = pc[v]
    BY <2>1, GotoType
  <2> QED
    BY <1>4, <2>2 DEF CommitReplyLost, Commits, kafkaVars
<1>5. ASSUME NEW w \in Workers, NEW phase \in Phases \ InTransaction, Goto(w, phase),
             \A v \in Workers \ {w} : task'[v] = task[v],
             UNCHANGED <<ingress, messages, last_seq, idempotency_keys, outbox>>
      PROVE Quiet
  BY <1>5, GotoIsQuiet
<1>6. \A s \in {"begin", "mark_retry", "publish_dlq", "status_dlq", "status_failed", "commit_offset", "idle"} :
        s \in Phases \ InTransaction
  BY DEF Phases, InTransaction
<1>7. \A v \in Workers : pc[v] \in InTransaction \cup {"begin"} => pc[v] # "idle"
  BY DEF InTransaction
<1>8. ASSUME NEW w \in Workers, InsertRefused(w) PROVE Quiet
  <2>1. /\ pc[w] # "idle"
        /\ UNCHANGED <<ingress, messages, last_seq, idempotency_keys, outbox>>
    BY <1>8 DEF InsertRefused, kafkaVars, dbVars
  <2>2. \/ /\ Goto(w, "status_failed") \/ RetryOrDlq(w) \/ Goto(w, "publish_dlq")
           /\ task' = task
        \/ Rewind(w)
    BY <1>8 DEF InsertRefused
  <2>3. CASE Rewind(w)
    BY <2>1, <2>3, RewindIsQuiet
  <2>4. CASE ~Rewind(w)
    <3>1. PICK phase \in Phases \ InTransaction : Goto(w, phase)
      BY <1>6, <2>2, <2>4, RetryOrDlqLeaves
    <3> QED
      BY <1>5, <2>1, <2>2, <2>4, <3>1
  <2> QED
    BY <2>3, <2>4
<1>9. ASSUME NEW w \in Workers, Failure(w) PROVE Quiet \/ Commits(w)
  <2>1. CASE Crash(w)
    <3>1. /\ Goto(w, "idle") /\ task' = [task EXCEPT ![w] = None]
          /\ UNCHANGED <<ingress, messages, last_seq, idempotency_keys, outbox>>
      BY <2>1 DEF Crash, dbVars
    <3>2. \A v \in Workers \ {w} : task'[v] = task[v]
      BY <3>1 DEF TypeOK
    <3> QED
      BY <1>5, <1>6, <3>1, <3>2
  <2>2. CASE CommitReplyLost(w)
    BY <1>4, <2>2
  <2>3. CASE TransientError(w)
    <3>1. PICK phase \in Phases \ InTransaction : Goto(w, phase)
      BY <2>3, RetryOrDlqLeaves DEF TransientError
    <3> QED
      BY <1>5, <2>3, <3>1 DEF TransientError, kafkaVars, dbVars
  <2>4. CASE HandlerRaises(w)
    BY <1>7, <2>4, RewindIsQuiet DEF HandlerRaises, kafkaVars, dbVars
  <2>5. CASE PublishDlqFails(w)
    BY <2>5, RewindIsQuiet DEF PublishDlqFails, dbVars
  <2> QED
    BY <1>9, <2>1, <2>2, <2>3, <2>4, <2>5 DEF Failure
<1>10. ASSUME NEW w \in Workers, Handle(w)
       PROVE  Quiet \/ BeginTransaction(w) \/ Commits(w)
  <2>1. CASE MarkInlineRetry(w)
    <3>1. /\ Goto(w, "begin") /\ task' = [task EXCEPT ![w].retry_count = @ + 1]
          /\ UNCHANGED <<ingress, messages, last_seq, idempotency_keys, outbox>>
      BY <2>1 DEF MarkInlineRetry, kafkaVars
    <3>2. \A v \in Workers \ {w} : task'[v] = task[v]
      BY <3>1 DEF TypeOK
    <3> QED
      BY <1>5, <1>6, <3>1, <3>2
  <2>2. CASE PublishDlq(w)
    <3>1. PICK phase \in Phases \ InTransaction : Goto(w, phase)
      BY <1>6, <2>2 DEF PublishDlq
    <3> QED
      BY <1>5, <2>2, <3>1 DEF PublishDlq, dbVars
  <2>3. CASE StatusFailedDlq(w)
    BY <1>5, <1>6, <2>3 DEF StatusFailedDlq, kafkaVars
  <2>4. CASE StatusFailed(w)
    BY <1>5, <1>6, <2>4 DEF StatusFailed, kafkaVars
  <2>5. CASE CommitOffset(w)
    <3>1. /\ Goto(w, "idle") /\ task' = [task EXCEPT ![w] = None]
          /\ UNCHANGED <<ingress, messages, last_seq, idempotency_keys, outbox>>
      BY <2>5 DEF CommitOffset, dbVars
    <3>2. \A v \in Workers \ {w} : task'[v] = task[v]
      BY <3>1 DEF TypeOK
    <3> QED
      BY <1>5, <1>6, <3>1, <3>2
  <2>6. CASE CommitOffsetFails(w)
    BY <2>6, RewindIsQuiet DEF CommitOffsetFails, dbVars
  <2> QED
    BY <1>3, <1>8, <1>10, <2>1, <2>2, <2>3, <2>4, <2>5, <2>6 DEF Handle
<1>11. ASSUME NEW w \in Workers, NEW p \in Partitions, Take(w, p) PROVE Quiet
  <2>1. PICK phase \in Phases \ InTransaction : Goto(w, phase)
    BY <1>6, <1>11 DEF Take
  <2>2. /\ \E t : task' = [task EXCEPT ![w] = t]
        /\ UNCHANGED <<ingress, messages, last_seq, idempotency_keys, outbox>>
    BY <1>11 DEF Take, kafkaVars, dbVars
  <2>3. \A v \in Workers \ {w} : task'[v] = task[v]
    BY <2>2 DEF TypeOK
  <2> QED
    BY <1>5, <2>1, <2>2, <2>3
<1>12. ASSUME NEW w \in Workers, WorkerStep(w)
       PROVE  Quiet \/ BeginTransaction(w) \/ Commits(w)
  <2>1. CASE Poll(w)
    BY <1>2, <2>1 DEF Poll, kafkaVars, dbVars
  <2>2. ASSUME NEW p \in Partitions, Assign(w, p) PROVE Quiet
    BY <1>2, <2>2 DEF Assign, dbVars
  <2> QED
    BY <1>10, <1>11, <1>12, <2>1, <2>2 DEF WorkerStep
<1>13. ASSUME NEW r \in Requests, Publish(r) PROVE Quiet
  BY <1>1, <1>13 DEF Publish
<1>14. ASSUME NEW d \in dlq, ReplayDlq(d) PROVE Quiet
  <2>1. d.req \in Requests /\ d.replay_count + 1 \in Nat
    BY DEF TypeOK, Record
  <2> QED
    BY <1>1, <1>14, <2>1 DEF ReplayDlq
<1>15. ASSUME NEW p \in Partitions, Fence(p) PROVE Quiet
  BY <1>2, <1>15 DEF Fence, workerVars, dbVars
<1>16. CASE UNCHANGED vars
  BY <1>2, <1>16 DEF vars, kafkaVars, workerVars, dbVars
<1> QED
  BY <1>9, <1>12, <1>13, <1>14, <1>15, <1>16 DEF Next
-----------------------------------------------------------------------------
(* No duplicate events.                                                    *)

\* A request has at most one row in messages.
RequestStoredOnce == \A m, n \in messages : m.req = n.req => m = n

\* The event of a key is the one its idempotency row answers with.
KeyOwned ==
  \A m \in messages : KeyOf[m.req] # None =>
    /\ KeyOf[m.req] \notin LegacyKeys
    /\ idempotency_keys[KeyOf[m.req]] = m.req

\* What a worker read under the key's lock still holds when it writes.
ReadsHold ==
  \A w \in Workers :
    /\ pc[w] = "insert" /\ KeyOf[Req(w)] # None =>
         KeyOf[Req(w)] \notin LegacyKeys /\ idempotency_keys[KeyOf[Req(w)]] = None
    /\ pc[w] = "adopt" => KeyOf[Req(w)] # None /\ KeyOf[Req(w)] \in LegacyKeys

\* Two transactions never have the same key.
LockExclusive ==
  \A v, w \in Workers :
    v # w /\ pc[v] \in InTransaction /\ pc[w] \in InTransaction =>
      KeyOf[Req(v)] # KeyOf[Req(w)] \/ KeyOf[Req(v)] = None

DedupInv == RequestStoredOnce /\ KeyOwned /\ ReadsHold /\ LockExclusive

\* Empty tables hold no duplicate.
LEMMA DedupInit == Init => DedupInv
BY DEF Init, DedupInv, RequestStoredOnce, KeyOwned, ReadsHold, LockExclusive, InTransaction

\* A quiet step keeps what was read and who holds which key.
LEMMA DedupQuiet ==
  ASSUME DedupInv, Quiet
  PROVE  DedupInv'
<1>1. RequestStoredOnce' /\ KeyOwned'
  BY DEF DedupInv, Quiet, RequestStoredOnce, KeyOwned
<1>2. ReadsHold'
  BY DEF DedupInv, Quiet, ReadsHold, InTransaction
<1>3. LockExclusive'
  BY DEF DedupInv, Quiet, LockExclusive
<1> QED
  BY <1>1, <1>2, <1>3 DEF DedupInv

\* A transaction begins when its key is free, and inserts when it is unanswered.
LEMMA DedupBegin ==
  ASSUME TypeInv, DedupInv, NEW w \in Workers, BeginTransaction(w)
  PROVE  DedupInv'
<1>1. UNCHANGED <<ingress, task, messages, idempotency_keys>>
  BY DEF BeginTransaction, kafkaVars, dbVars
<1>2. \A v \in Workers : Req(v)' = Req(v)
  BY <1>1 DEF Req, Rec
<1>3. PICK phase \in InTransaction \cup {"status_failed"} :
        /\ Goto(w, phase)
        /\ phase = "insert" /\ KeyOf[Req(w)] # None =>
             idempotency_keys[KeyOf[Req(w)]] = None /\ KeyOf[Req(w)] \notin LegacyKeys
        /\ phase = "adopt" => KeyOf[Req(w)] # None /\ KeyOf[Req(w)] \in LegacyKeys
  BY DEF BeginTransaction, LegacyAnswer, InTransaction
<1>4. pc'[w] = phase /\ \A v \in Workers \ {w} : pc'[v] = pc[v]
  BY <1>3, GotoType DEF Phases, TypeInv
<1>5. RequestStoredOnce' /\ KeyOwned'
  BY <1>1 DEF DedupInv, RequestStoredOnce, KeyOwned
<1>6. ReadsHold'
  BY <1>1, <1>2, <1>3, <1>4 DEF DedupInv, ReadsHold
<1>7. \A v \in Workers \ {w} :
        pc[v] \in InTransaction => KeyOf[Req(v)] # KeyOf[Req(w)] \/ KeyOf[Req(v)] = None
  BY DEF BeginTransaction, KeyLockFree
<1>8. LockExclusive'
  BY <1>2, <1>4, <1>7 DEF DedupInv, LockExclusive
<1> QED
  BY <1>5, <1>6, <1>8 DEF DedupInv

\* A transaction that takes effect stores its request once and answers its key.
LEMMA DedupCommit ==
  ASSUME TypeInv, DedupInv, NEW w \in Workers, Commits(w)
  PROVE  DedupInv'
<1> DEFINE r == Req(w)
           k == KeyOf[r]
<1>1. /\ pc[w] \in InTransaction /\ pc[w] # "idle"
      /\ pc'[w] \notin InTransaction
      /\ \A v \in Workers : Req(v)' = Req(v)
      /\ \A v \in Workers \ {w} : pc'[v] = pc[v]
  BY DEF Commits, TransactionEffect, InTransaction, Req, Rec
<1>2. r \in Requests /\ idempotency_keys \in [Keys -> Requests \cup {None}] /\ r # None
  BY <1>1, BusyRecord, ConstantsAssumption DEF TypeInv, TypeOK
<1>3. k # None => k \in Keys
  BY <1>2, ConstantsAssumption
<1>4. LockExclusive'
  BY <1>1 DEF DedupInv, LockExclusive
<1>5. CASE UNCHANGED <<messages, idempotency_keys>>
  BY <1>1, <1>4, <1>5 DEF DedupInv, RequestStoredOnce, KeyOwned, ReadsHold, InTransaction
<1>6. CASE /\ pc[w] = "adopt"
           /\ idempotency_keys' = [idempotency_keys EXCEPT ![k] = r]
           /\ UNCHANGED messages
  <2>1. k # None /\ k \in LegacyKeys
    BY <1>6 DEF DedupInv, ReadsHold
  <2>2. \A j \in Keys \ LegacyKeys : idempotency_keys'[j] = idempotency_keys[j]
    BY <1>2, <1>6, <2>1
  <2>3. \A q \in Requests : KeyOf[q] # None => KeyOf[q] \in Keys
    BY ConstantsAssumption
  <2>4. messages \subseteq Message /\ \A m \in messages : m.req \in Requests
    BY DEF TypeInv, TypeOK, Message
  <2>5. KeyOwned' /\ RequestStoredOnce'
    BY <1>6, <2>2, <2>3, <2>4 DEF DedupInv, KeyOwned, RequestStoredOnce
  <2>6. \A v \in Workers : pc'[v] \in {"insert", "adopt"} => pc[v] = pc'[v] /\ Req(v) \in Requests
    BY <1>1, BusyRecord DEF InTransaction
  <2>7. ReadsHold'
    BY <1>1, <2>2, <2>3, <2>6 DEF DedupInv, ReadsHold
  <2> QED
    BY <1>4, <2>5, <2>7 DEF DedupInv
<1>7. CASE /\ pc[w] = "insert"
           /\ InsertPossible(r)
           /\ InsertMessage(r)
  <2> DEFINE x == [req |-> r, seq |-> SeqOf(r)]
  <2>1. messages' = messages \cup {x} /\ x.req = r /\ \A m \in messages : m.req # r
    BY <1>7 DEF InsertMessage, InsertPossible, Persisted
  <2> HIDE DEF x
  <2>2. RequestStoredOnce'
    BY <2>1 DEF DedupInv, RequestStoredOnce
  <2>3. k # None => k \notin LegacyKeys /\ idempotency_keys[k] = None
    BY <1>7 DEF DedupInv, ReadsHold
  <2>4. /\ k # None => idempotency_keys'[k] = r
        /\ \A j \in Keys : j # k \/ k = None => idempotency_keys'[j] = idempotency_keys[j]
    BY <1>2, <1>3, <1>7 DEF InsertMessage
  <2>5. \A m \in messages : m.req \in Requests /\ (KeyOf[m.req] # None => KeyOf[m.req] \in Keys)
    BY ConstantsAssumption DEF TypeInv, TypeOK, Message
  <2>6. \A m \in messages : KeyOf[m.req] # None => KeyOf[m.req] # k
    <3>1. None \notin Requests
      BY ConstantsAssumption
    <3> QED
      BY <2>3, <2>5, <3>1 DEF DedupInv, KeyOwned
  <2>7. KeyOwned'
    BY <2>1, <2>3, <2>4, <2>5, <2>6 DEF DedupInv, KeyOwned
  <2>8. \A v \in Workers : pc'[v] \in {"insert", "adopt"} =>
           /\ v # w /\ pc[v] = pc'[v]
           /\ Req(v) \in Requests
           /\ KeyOf[Req(v)] # k \/ KeyOf[Req(v)] = None
    BY <1>1, BusyRecord DEF InTransaction, DedupInv, LockExclusive
  <2>9. \A q \in Requests : KeyOf[q] # None => KeyOf[q] \in Keys
    BY ConstantsAssumption
  <2>10. ReadsHold'
    BY <1>1, <2>4, <2>8, <2>9 DEF DedupInv, ReadsHold
  <2> QED
    BY <1>4, <2>2, <2>7, <2>10 DEF DedupInv
<1> QED
  BY <1>5, <1>6, <1>7 DEF Commits, TransactionEffect

\* However often a record is delivered, replayed or handled by two workers at
\* once, its request has one row in messages, its idempotency key one message:
\* the advisory lock makes what _persist_message_with_cursor reads about a key
\* hold until its commit, and the unique request id does the same for requests
\* without a key.
THEOREM NoDuplicates == Spec => []NoDuplicateEvents
<1>1. DedupInv /\ TypeInv => NoDuplicateEvents
  <2> SUFFICES ASSUME DedupInv, TypeInv PROVE NoDuplicateEvents
    OBVIOUS
  <2>1. \A m \in messages : KeyOf[m.req] \notin LegacyKeys
    BY ConstantsAssumption DEF DedupInv, KeyOwned
  <2> QED
    BY <2>1 DEF DedupInv, RequestStoredOnce, KeyOwned, NoDuplicateEvents
<1>2. DedupInv /\ TypeInv /\ [Next]_vars => DedupInv'
  BY StepShape, DedupQuiet, DedupBegin, DedupCommit
<1> QED
  BY <1>1, <1>2, DedupInit, TypeInit, TypeStep, PTL DEF Spec
-----------------------------------------------------------------------------
(* The outbox.                                                             *)

\* A request found in messages stays there until the transaction ends.
ExistingIsStored == \A w \in Workers : pc[w] = "existing" => Persisted(Req(w))

OutboxInv == OutboxMatchesMessages /\ ExistingIsStored

\* A step that leaves messages and the outbox alone keeps the match.
LEMMA OutboxQuiet ==
  ASSUME OutboxInv, Quiet
  PROVE  OutboxInv'
<1>1. OutboxMatchesMessages'
  BY DEF OutboxInv, Quiet, OutboxMatchesMessages
<1>2. \A w \in Workers : pc'[w] = "existing" => pc[w] = "existing" /\ Req(w)' = Req(w)
  BY DEF Quiet, InTransaction
<1>3. ExistingIsStored'
  BY <1>2 DEF OutboxInv, Quiet, ExistingIsStored, Persisted
<1> QED
  BY <1>1, <1>3 DEF OutboxInv

\* The reads of the transaction find a message of the request before they
\* answer "existing".
LEMMA OutboxBegin ==
  ASSUME TypeInv, OutboxInv, NEW w \in Workers, BeginTransaction(w)
  PROVE  OutboxInv'
<1>1. UNCHANGED <<ingress, task, messages, outbox>>
  BY DEF BeginTransaction, kafkaVars, dbVars
<1>2. \A v \in Workers : Req(v)' = Req(v) /\ (Persisted(Req(v)))' = Persisted(Req(v))
  BY <1>1 DEF Req, Rec, Persisted
<1>3. PICK phase \in Phases : Goto(w, phase) /\ (phase = "existing" => Persisted(Req(w)))
  BY DEF BeginTransaction, InTransaction, Phases
<1>4. pc'[w] = phase /\ \A v \in Workers \ {w} : pc'[v] = pc[v]
  BY <1>3, GotoType DEF TypeInv
<1>5. OutboxMatchesMessages'
  BY <1>1 DEF OutboxInv, OutboxMatchesMessages
<1>6. ExistingIsStored'
  BY <1>2, <1>3, <1>4 DEF OutboxInv, ExistingIsStored
<1> QED
  BY <1>5, <1>6 DEF OutboxInv

\* Every commit writes a message and its outbox row together, or neither anew.
LEMMA OutboxCommit ==
  ASSUME TypeInv, OutboxInv, NEW w \in Workers, Commits(w)
  PROVE  OutboxInv'
<1> DEFINE r == Req(w)
<1>1. TransactionEffect(w)
  BY DEF Commits
<1>2. messages \subseteq messages'
  BY <1>1 DEF TransactionEffect, InsertMessage
<1>3. \A v \in Workers : pc'[v] = "existing" => pc[v] = "existing" /\ Req(v)' = Req(v)
  BY DEF Commits, InTransaction, Req, Rec
<1>4. ExistingIsStored'
  BY <1>2, <1>3 DEF OutboxInv, ExistingIsStored, Persisted
<1>5. outbox = {m.req : m \in messages}
  BY DEF OutboxInv, OutboxMatchesMessages
<1>6. ASSUME outbox' = outbox \cup {r}, messages' = messages, Persisted(r)
      PROVE  OutboxMatchesMessages'
  BY <1>5, <1>6 DEF OutboxMatchesMessages, Persisted
<1>7. ASSUME InsertMessage(r), EnqueueNotification(r)
      PROVE  OutboxMatchesMessages'
  <2> DEFINE x == [req |-> r, seq |-> SeqOf(r)]
  <2>1. messages' = messages \cup {x} /\ x.req = r /\ outbox' = outbox \cup {r}
    BY <1>7 DEF InsertMessage, EnqueueNotification
  <2> HIDE DEF x
  <2> QED
    BY <1>5, <2>1 DEF OutboxMatchesMessages
<1>8. pc[w] = "existing" => Persisted(r)
  BY DEF OutboxInv, ExistingIsStored
<1>9. AlreadyAtSeq(r) => Persisted(r)
  BY DEF AlreadyAtSeq, Persisted
<1>10. UNCHANGED <<messages, outbox>> => OutboxMatchesMessages'
  BY <1>5 DEF OutboxMatchesMessages
<1>11. OutboxMatchesMessages'
  BY <1>1, <1>6, <1>7, <1>8, <1>9, <1>10 DEF TransactionEffect, EnqueueNotification
<1> QED
  BY <1>4, <1>11 DEF OutboxInv

\* An event is stored exactly when its outbox row is: whatever fails or is
\* redelivered, no stored event lacks the intent to notify and no intent lacks
\* its event (persist_ingress_job, enqueue_notification).
THEOREM OutboxIsTransactional == Spec => []OutboxMatchesMessages
<1>1. Init => OutboxInv
  <2> SUFFICES ASSUME Init PROVE OutboxInv
    OBVIOUS
  <2>1. OutboxMatchesMessages
    BY DEF Init, OutboxMatchesMessages
  <2>2. ExistingIsStored
    BY DEF Init, ExistingIsStored
  <2> QED
    BY <2>1, <2>2 DEF OutboxInv
<1>2. TypeInv /\ OutboxInv /\ [Next]_vars => OutboxInv'
  BY StepShape, OutboxQuiet, OutboxBegin, OutboxCommit
<1>3. OutboxInv => OutboxMatchesMessages
  BY DEF OutboxInv
<1> QED
  BY <1>1, <1>2, <1>3, TypeInit, TypeStep, PTL DEF Spec
-----------------------------------------------------------------------------
(* No event is skipped.                                                    *)

\* Every outcome lasts: a step only adds rows, answers, numbers and DLQ records.
LEMMA OutcomesLast ==
  ASSUME TypeInv, [Next]_vars
  PROVE  /\ messages \subseteq messages'
         /\ dlq \subseteq dlq'
         /\ \A k \in Keys : idempotency_keys[k] # None => idempotency_keys'[k] # None
         /\ \A s \in Streams : last_seq[s] <= last_seq'[s]
<1> DEFINE Tables == /\ messages \subseteq messages'
                     /\ \A k \in Keys : idempotency_keys[k] # None => idempotency_keys'[k] # None
                     /\ \A s \in Streams : last_seq[s] <= last_seq'[s]
<1>1. \A s \in Streams : last_seq[s] \in Nat
  BY DEF TypeInv, TypeOK
<1>2. ASSUME Quiet PROVE Tables
  BY <1>1, <1>2 DEF Quiet
<1>3. ASSUME NEW w \in Workers, BeginTransaction(w) PROVE Tables
  BY <1>1, <1>3 DEF BeginTransaction, dbVars
<1>4. ASSUME NEW w \in Workers, Commits(w) PROVE Tables
  <2> DEFINE r == Req(w)
  <2>1. TransactionEffect(w) /\ pc[w] # "idle"
    BY <1>4 DEF Commits, TransactionEffect, InTransaction
  <2>2. r \in Requests /\ r # None
    BY <2>1, BusyRecord, ConstantsAssumption
  <2>3. messages \subseteq messages'
    BY <2>1 DEF TransactionEffect, InsertMessage
  <2>4. \A k \in Keys : idempotency_keys[k] # None => idempotency_keys'[k] # None
    <3>1. \/ idempotency_keys' = idempotency_keys
          \/ idempotency_keys' = [idempotency_keys EXCEPT ![KeyOf[r]] = r]
      BY <2>1 DEF TransactionEffect, InsertMessage
    <3>2. idempotency_keys \in [Keys -> Requests \cup {None}]
      BY DEF TypeInv, TypeOK
    <3> QED
      BY <2>2, <3>1, <3>2
  <2>5. \A s \in Streams : last_seq[s] <= last_seq'[s]
    <3>1. \/ last_seq' = last_seq
          \/ last_seq' = [last_seq EXCEPT ![StreamOf[r]] = last_seq[StreamOf[r]] + 1]
      BY <2>1 DEF TransactionEffect, InsertMessage, NextSeq
    <3>2. last_seq \in [Streams -> Nat]
      BY DEF TypeInv, TypeOK
    <3> QED
      BY <3>1, <3>2
  <2> QED
    BY <2>3, <2>4, <2>5
<1>5. dlq \subseteq dlq'
  BY ZenonT(40) DEF Next, WorkerStep, Handle, Failure, Publish, ReplayDlq, AppendIngress, Fence, Assign, Poll,
         Crash, Take, BeginTransaction, CommitTransaction, CommitReplyLost, InsertRefused,
         TransientError, HandlerRaises, MarkInlineRetry, PublishDlq, PublishDlqFails,
         StatusFailedDlq, StatusFailed, CommitOffset, CommitOffsetFails, vars, kafkaVars
<1> QED
  <2> HIDE DEF Tables
  <2>1. Tables
    BY <1>2, <1>3, <1>4, StepShape
  <2> QED
    BY <1>5, <2>1 DEF Tables

\* So a resolved record stays resolved.
LEMMA ResolvedLasts ==
  ASSUME TypeInv, [Next]_vars, NEW rec \in Record, Resolved(rec)
  PROVE  Resolved(rec)'
<1>1. /\ rec.req \in Requests
      /\ KeyOf[rec.req] # None => KeyOf[rec.req] \in Keys
      /\ StreamOf[rec.req] \in Streams
      /\ RoomSeq[rec.req] \in Nat
  BY ConstantsAssumption DEF Record
<1>2. Persisted(rec.req) => Persisted(rec.req)'
  BY OutcomesLast DEF Persisted
<1>3. KeyOf[rec.req] # None /\ Answered(KeyOf[rec.req]) => Answered(KeyOf[rec.req])'
  BY <1>1, OutcomesLast DEF Answered
<1>4. Rejectable(rec.req) => Rejectable(rec.req)'
  <2>1. last_seq[StreamOf[rec.req]] <= last_seq'[StreamOf[rec.req]]
    BY <1>1, OutcomesLast
  <2>2. last_seq[StreamOf[rec.req]] \in Nat /\ last_seq'[StreamOf[rec.req]] \in Nat
    BY <1>1, TypeStep DEF TypeInv, TypeOK
  <2> QED
    BY <1>1, <2>1, <2>2 DEF Rejectable
<1> QED
  BY <1>2, <1>3, <1>4, OutcomesLast DEF Resolved

\* Everything before a worker's position is resolved.
CursorResolved ==
  \A w \in Workers : \A p \in Partitions : \A i \in 1..Len(ingress[p]) :
    i <= cursor[w][p] => Resolved(ingress[p][i])

\* The reason for which the handler of w is in a phase.
Because(w, phase) ==
  /\ phase \in {"cached", "adopt"} => KeyOf[Req(w)] # None /\ Answered(KeyOf[Req(w)])
  /\ phase = "existing" => Persisted(Req(w))
  /\ phase = "status_failed" => Rejectable(Req(w))
  /\ phase = "status_dlq" => Rec(w) \in dlq
  /\ phase = "commit_offset" => Resolved(Rec(w))

\* The handler works on the record at its position, in its phase for a reason.
Sound(w) ==
  pc[w] # "idle" => /\ task[w].offset = cursor[w][task[w].part]
                    /\ Because(w, pc[w])

NoLossInv ==
  /\ CommittedIsResolved
  /\ CursorResolved
  /\ \A w \in Workers : Sound(w)

\* A reason lasts as long as the handler has the same record.
LEMMA ReasonLasts ==
  ASSUME TypeInv, [Next]_vars, NEW w \in Workers, NEW phase, pc[w] # "idle",
         Because(w, phase), Rec(w)' = Rec(w)
  PROVE  Because(w, phase)'
<1>1. /\ Rec(w) \in Record /\ Req(w) \in Requests /\ Req(w)' = Req(w)
      /\ KeyOf[Req(w)] # None => KeyOf[Req(w)] \in Keys
      /\ StreamOf[Req(w)] \in Streams
      /\ RoomSeq[Req(w)] \in Nat
  BY BusyRecord, ConstantsAssumption DEF Req
<1>2. KeyOf[Req(w)] # None /\ Answered(KeyOf[Req(w)]) => (KeyOf[Req(w)] # None /\ Answered(KeyOf[Req(w)]))'
  BY <1>1, OutcomesLast DEF Answered
<1>3. Persisted(Req(w)) => Persisted(Req(w))'
  BY <1>1, OutcomesLast DEF Persisted
<1>4. Rejectable(Req(w)) => Rejectable(Req(w))'
  <2>1. last_seq[StreamOf[Req(w)]] <= last_seq'[StreamOf[Req(w)]]
    BY <1>1, OutcomesLast
  <2>2. last_seq[StreamOf[Req(w)]] \in Nat /\ last_seq'[StreamOf[Req(w)]] \in Nat
    BY <1>1, TypeStep DEF TypeInv, TypeOK
  <2> QED
    BY <1>1, <2>1, <2>2 DEF Rejectable
<1>5. Rec(w) \in dlq => (Rec(w) \in dlq)'
  BY OutcomesLast
<1>6. Resolved(Rec(w)) => Resolved(Rec(w))'
  BY <1>1, <1>2, <1>3, <1>4, <1>5 DEF Resolved, Req
<1> QED
  BY <1>2, <1>3, <1>4, <1>5, <1>6 DEF Because

\* A worker that a step does not touch stays sound.
LEMMA SoundKept ==
  ASSUME TypeInv, [Next]_vars, NEW v \in Workers, Sound(v), pc'[v] = pc[v],
         pc[v] # "idle" => task'[v] = task[v] /\ cursor'[v] = cursor[v] /\ Rec(v)' = Rec(v)
  PROVE  Sound(v)'
<1>1. CASE pc[v] = "idle"
  BY <1>1 DEF Sound
<1>2. CASE pc[v] # "idle"
  <2>1. Because(v, pc[v])'
    <3> DEFINE phase == pc[v]
    <3>1. Because(v, phase)
      BY <1>2 DEF Sound
    <3> QED
      BY <1>2, <3>1, ReasonLasts
  <2> QED
    BY <1>2, <2>1 DEF Sound
<1> QED
  BY <1>1, <1>2

\* A step that leaves the log, the positions and the offsets alone keeps what is
\* resolved below them.
LEMMA PositionsKept ==
  ASSUME TypeInv, [Next]_vars, CommittedIsResolved, CursorResolved,
         UNCHANGED <<ingress, committed, cursor>>
  PROVE  CommittedIsResolved' /\ CursorResolved'
<1>1. \A p \in Partitions : \A i \in 1..Len(ingress[p]) : ingress[p][i] \in Record
  BY DEF TypeInv, TypeOK
<1>2. \A p \in Partitions : \A i \in 1..Len(ingress[p]) :
        Resolved(ingress[p][i]) => Resolved(ingress[p][i])'
  BY <1>1, ResolvedLasts
<1> QED
  BY <1>2 DEF CommittedIsResolved, CursorResolved

\* A handler that moves on with the same record needs a reason for the new phase,
\* before the step or after it.
LEMMA MoveKeeps ==
  ASSUME TypeInv, [Next]_vars, NoLossInv, NEW w \in Workers, NEW phase \in Phases,
         pc[w] # "idle", Goto(w, phase), UNCHANGED <<ingress, committed, cursor>>,
         Rec(w)' = Rec(w), task'[w].part = task[w].part, task'[w].offset = task[w].offset,
         \A v \in Workers \ {w} : task'[v] = task[v],
         Because(w, phase) \/ Because(w, phase)'
  PROVE  NoLossInv'
<1>1. pc'[w] = phase /\ \A v \in Workers \ {w} : pc'[v] = pc[v]
  BY GotoType DEF TypeInv
<1>2. Because(w, phase)'
  BY ReasonLasts
<1>3. Sound(w)'
  BY <1>1, <1>2 DEF NoLossInv, Sound
<1>4. \A v \in Workers \ {w} : Rec(v)' = Rec(v)
  BY DEF Rec
<1>5. \A v \in Workers \ {w} : Sound(v)'
  BY <1>1, <1>4, SoundKept DEF NoLossInv
<1>6. CommittedIsResolved' /\ CursorResolved'
  BY PositionsKept DEF NoLossInv
<1> QED
  BY <1>3, <1>5, <1>6 DEF NoLossInv

\* Appending moves nothing.
LEMMA AppendKeeps ==
  ASSUME TypeInv, [Next]_vars, NoLossInv, NEW r \in Requests, NEW n \in Nat, AppendIngress(r, n)
  PROVE  NoLossInv'
<1>1. UNCHANGED <<committed, cursor, task, pc>>
  BY DEF AppendIngress, workerVars
<1>2. \A v \in Workers : pc[v] # "idle" => Rec(v)' = Rec(v)
  BY AppendKeepsReq
<1>3. \A v \in Workers : Sound(v)'
  BY <1>1, <1>2, SoundKept DEF NoLossInv
<1>4. ASSUME NEW p \in Partitions, NEW i \in 1..Len(ingress'[p]), NEW c \in Nat,
             i <= c, c <= Len(ingress[p]),
             \A j \in 1..Len(ingress[p]) : j <= c => Resolved(ingress[p][j])
      PROVE  Resolved(ingress[p][i])'
  <2>1. i \in 1..Len(ingress[p]) /\ ingress[p][i] \in Record /\ ingress'[p][i] = ingress[p][i]
    <3>1. ingress[p] \in Seq(Record) /\ ingress'[p] \in Seq(Record)
      BY TypeStep DEF TypeInv, TypeOK
    <3>2. i \in 1..Len(ingress[p])
      BY <1>4, <3>1
    <3> QED
      BY <3>1, <3>2, AppendKeepsRecords DEF TypeInv
  <2>2. Resolved(ingress[p][i])
    BY <1>4, <2>1
  <2>3. PICK rec \in Record : rec = ingress[p][i]
    BY <2>1
  <2>4. Resolved(rec)'
    BY <2>2, <2>3, ResolvedLasts
  <2> QED
    BY <2>1, <2>3, <2>4
<1>5. \A p \in Partitions :
        /\ committed[p] \in Nat /\ committed[p] <= Len(ingress[p])
        /\ \A w \in Workers : cursor[w][p] \in Nat /\ cursor[w][p] <= Len(ingress[p])
  BY DEF TypeInv, TypeOK, OffsetsInLog
<1>6. CommittedIsResolved'
  BY <1>1, <1>4, <1>5 DEF NoLossInv, CommittedIsResolved
<1>7. CursorResolved'
  BY <1>1, <1>4, <1>5 DEF NoLossInv, CursorResolved
<1> QED
  BY <1>3, <1>6, <1>7 DEF NoLossInv

\* Moving to another position keeps the rest when the new one is safe too.
LEMMA PositionsMove ==
  ASSUME TypeInv, [Next]_vars, NoLossInv, UNCHANGED ingress,
         \A p \in Partitions : \A i \in 1..Len(ingress[p]) :
           i <= committed'[p] => i <= committed[p] \/ Resolved(ingress[p][i]),
         \A w \in Workers : \A p \in Partitions : \A i \in 1..Len(ingress[p]) :
           i <= cursor'[w][p] => i <= cursor[w][p] \/ Resolved(ingress[p][i])
  PROVE  CommittedIsResolved' /\ CursorResolved'
<1>1. \A p \in Partitions : \A i \in 1..Len(ingress[p]) : ingress[p][i] \in Record
  BY DEF TypeInv, TypeOK
<1>2. \A p \in Partitions : \A i \in 1..Len(ingress[p]) :
        Resolved(ingress[p][i]) => Resolved(ingress[p][i])'
  BY <1>1, ResolvedLasts
<1> QED
  BY <1>2 DEF NoLossInv, CommittedIsResolved, CursorResolved

\* A worker that is idle after the step is sound, the others are untouched.
LEMMA IdleKeeps ==
  ASSUME TypeInv, [Next]_vars, NoLossInv, NEW w \in Workers, Goto(w, "idle"), UNCHANGED ingress,
         \A v \in Workers \ {w} : task'[v] = task[v] /\ cursor'[v] = cursor[v]
  PROVE  \A v \in Workers : Sound(v)'
<1>1. "idle" \in Phases
  BY DEF Phases
<1>2. pc'[w] = "idle" /\ \A v \in Workers \ {w} : pc'[v] = pc[v]
  BY <1>1, GotoType DEF TypeInv
<1>3. Sound(w)'
  BY <1>2 DEF Sound
<1>4. \A v \in Workers \ {w} : Rec(v)' = Rec(v)
  BY DEF Rec
<1>5. \A v \in Workers \ {w} : Sound(v)'
  BY <1>2, <1>4, SoundKept DEF NoLossInv
<1> QED
  BY <1>3, <1>5

\* A rewind gives up the record and moves no offset.
LEMMA RewindKeeps ==
  ASSUME TypeInv, [Next]_vars, NoLossInv, NEW w \in Workers, pc[w] # "idle", Rewind(w),
         UNCHANGED <<ingress, committed>>
  PROVE  NoLossInv'
<1>1. /\ Goto(w, "idle") /\ cursor' = cursor
      /\ \A v \in Workers \ {w} : task'[v] = task[v]
  BY RewindType DEF Rewind
<1>2. \A v \in Workers : Sound(v)'
  BY <1>1, IdleKeeps
<1>3. CommittedIsResolved' /\ CursorResolved'
  BY <1>1, PositionsKept DEF NoLossInv
<1> QED
  BY <1>2, <1>3 DEF NoLossInv

\* The record behind which an offset is committed is resolved.
LEMMA HandledIsResolved ==
  ASSUME TypeInv, NoLossInv, NEW w \in Workers, pc[w] = "commit_offset"
  PROVE  \A i \in 1..Len(ingress[task[w].part]) :
           i <= task[w].offset + 1 => Resolved(ingress[task[w].part][i])
<1>1. /\ task[w].part \in Partitions /\ task[w].offset \in Nat
      /\ task[w].offset = cursor[w][task[w].part]
      /\ Resolved(ingress[task[w].part][task[w].offset + 1])
  BY BusyRecord DEF NoLossInv, Sound, Because, Rec
<1>2. ASSUME NEW i \in 1..Len(ingress[task[w].part]), i <= task[w].offset + 1
      PROVE  Resolved(ingress[task[w].part][i])
  <2>1. CASE i = task[w].offset + 1
    BY <1>1, <2>1
  <2>2. CASE i # task[w].offset + 1
    <3>1. i <= cursor[w][task[w].part]
      BY <1>1, <1>2, <2>2
    <3> QED
      BY <1>1, <1>2, <3>1 DEF NoLossInv, CursorResolved
  <2> QED
    BY <2>1, <2>2
<1> QED
  BY <1>2

\* Every step preserves the invariant.
LEMMA NoLossStep ==
  ASSUME TypeInv, [Next]_vars, NoLossInv
  PROVE  NoLossInv'
<1>0. ASSUME NEW w \in Workers, NEW phase \in Phases, pc[w] # "idle", Goto(w, phase),
             UNCHANGED <<ingress, committed, cursor, task>>,
             Because(w, phase) \/ Because(w, phase)'
      PROVE  NoLossInv'
  <2>1. Rec(w)' = Rec(w)
    BY <1>0 DEF Rec
  <2> QED
    BY <1>0, <2>1, MoveKeeps
<1>1. ASSUME UNCHANGED <<ingress, committed, cursor, task, pc>> PROVE NoLossInv'
  <2>1. \A v \in Workers : Sound(v)'
    BY <1>1, SoundKept DEF NoLossInv, Rec
  <2>2. CommittedIsResolved' /\ CursorResolved'
    BY <1>1, PositionsKept DEF NoLossInv
  <2> QED
    BY <2>1, <2>2 DEF NoLossInv
<1>2. ASSUME NEW w \in Workers, NEW p \in Partitions, Assign(w, p) PROVE NoLossInv'
  <2>1. /\ UNCHANGED <<ingress, committed, task, pc>>
        /\ pc[w] = "idle"
        /\ cursor' = [cursor EXCEPT ![w][p] = committed[p]]
    BY <1>2 DEF Assign, BatchDone
  <2>2. cursor \in [Workers -> [Partitions -> Nat]]
    BY DEF TypeInv, TypeOK
  <2>3. /\ \A v \in Workers \ {w} : cursor'[v] = cursor[v]
        /\ \A v \in Workers : \A q \in Partitions :
              cursor'[v][q] = cursor[v][q] \/ cursor'[v][q] = committed[q]
    BY <2>1, <2>2
  <2>4. \A v \in Workers : Sound(v)'
    BY <2>1, <2>3, SoundKept DEF NoLossInv, Rec
  <2>5. CommittedIsResolved' /\ CursorResolved'
    BY <2>1, <2>3, PositionsMove DEF NoLossInv, CommittedIsResolved
  <2> QED
    BY <2>4, <2>5 DEF NoLossInv
<1>3. ASSUME NEW w \in Workers, NEW p \in Partitions, Take(w, p) PROVE NoLossInv'
  <2> DEFINE t == [part |-> p, offset |-> cursor[w][p], retry_count |-> 0]
  <2>1. /\ UNCHANGED <<ingress, committed, cursor>>
        /\ task' = [task EXCEPT ![w] = t]
        /\ Goto(w, "publish_dlq") \/ Goto(w, "begin")
    BY <1>3 DEF Take, kafkaVars
  <2>2. /\ task'[w] = t
        /\ \A v \in Workers \ {w} : task'[v] = task[v]
    BY <2>1 DEF TypeInv, TypeOK
  <2>3. /\ pc'[w] \in {"publish_dlq", "begin"}
        /\ \A v \in Workers \ {w} : pc'[v] = pc[v]
    BY <2>1, GotoType DEF Phases, TypeInv
  <2>4. Sound(w)'
    BY <2>1, <2>2, <2>3 DEF Sound, Because
  <2>5. \A v \in Workers \ {w} : Sound(v)'
    BY <2>1, <2>2, <2>3, SoundKept DEF NoLossInv, Rec
  <2>6. CommittedIsResolved' /\ CursorResolved'
    BY <2>1, PositionsKept DEF NoLossInv
  <2> QED
    BY <2>4, <2>5, <2>6 DEF NoLossInv
<1>4. ASSUME NEW w \in Workers, Crash(w) PROVE NoLossInv'
  <2>1. /\ UNCHANGED <<ingress, committed>>
        /\ Goto(w, "idle")
        /\ task' = [task EXCEPT ![w] = None]
        /\ cursor' = [cursor EXCEPT ![w] = [p \in Partitions |-> 0]]
    BY <1>4 DEF Crash
  <2>2. /\ \A v \in Workers \ {w} : task'[v] = task[v] /\ cursor'[v] = cursor[v]
        /\ \A v \in Workers : \A p \in Partitions : cursor'[v][p] = cursor[v][p] \/ cursor'[v][p] = 0
    BY <2>1 DEF TypeInv, TypeOK
  <2>3. \A v \in Workers : Sound(v)'
    BY <2>1, <2>2, IdleKeeps
  <2>4. CommittedIsResolved' /\ CursorResolved'
    BY <2>1, <2>2, PositionsMove
  <2> QED
    BY <2>3, <2>4 DEF NoLossInv
<1>5. ASSUME NEW w \in Workers, BeginTransaction(w) PROVE NoLossInv'
  <2>1. PICK phase \in Phases : Goto(w, phase) /\ Because(w, phase)
    BY <1>5 DEF BeginTransaction, LegacyAnswer, Because, Answered, Rejectable, Phases, InTransaction
  <2> QED
    BY <1>0, <1>5, <2>1 DEF BeginTransaction, kafkaVars
<1>6. ASSUME NEW w \in Workers, RetryOrDlq(w), pc[w] # "idle",
             UNCHANGED <<ingress, committed, cursor, task>>
      PROVE  NoLossInv'
  <2>1. PICK phase \in {"publish_dlq", "mark_retry"} : Goto(w, phase)
    BY <1>6 DEF RetryOrDlq
  <2>2. phase \in Phases /\ Because(w, phase)
    BY DEF Phases, Because
  <2> QED
    BY <1>0, <1>6, <2>1, <2>2
<1>7. ASSUME NEW w \in Workers, CommitTransaction(w) PROVE NoLossInv'
  <2>1. /\ TransactionEffect(w) /\ Goto(w, "commit_offset") /\ pc[w] # "idle"
        /\ UNCHANGED <<ingress, committed, cursor, task>>
    BY <1>7 DEF CommitTransaction, TransactionEffect, InTransaction, kafkaVars
  <2>2. Because(w, pc[w]) /\ Rec(w)' = Rec(w) /\ Req(w)' = Req(w)
    BY <2>1 DEF NoLossInv, Sound, Rec, Req
  <2>3. Because(w, pc[w]) /\ pc[w] \in {"cached", "adopt", "existing"} => Resolved(Rec(w))
    BY DEF Because, Resolved, Req
  <2>4. AlreadyAtSeq(Req(w)) => Resolved(Rec(w))
    BY DEF AlreadyAtSeq, Resolved, Persisted, Req
  <2>5. pc[w] = "insert" => InsertMessage(Req(w)) \/ AlreadyAtSeq(Req(w))
    BY <2>1 DEF TransactionEffect
  <2>6. Resolved(Rec(w)) \/ InsertMessage(Req(w))
    <3>1. pc[w] \in {"cached", "adopt", "existing", "insert"}
      BY <2>1 DEF TransactionEffect, InTransaction
    <3> QED
      BY <2>2, <2>3, <2>4, <2>5, <3>1
  <2>7. Rec(w) \in Record
    BY <2>1, BusyRecord
  <2>8. Resolved(Rec(w)) => Resolved(Rec(w))'
    BY <2>2, <2>7, ResolvedLasts
  <2>9. InsertMessage(Req(w)) => Resolved(Rec(w))'
    <3> DEFINE x == [req |-> Req(w), seq |-> SeqOf(Req(w))]
    <3>0. InsertMessage(Req(w)) => x \in messages'
      BY DEF InsertMessage
    <3>1. InsertMessage(Req(w)) => \E m \in messages' : m.req = Req(w)
      BY <3>0
    <3>2. (Rec(w).req)' = Req(w)
      BY <2>2 DEF Req
    <3> QED
      BY <3>1, <3>2 DEF Resolved, Persisted
  <2>10. Because(w, "commit_offset")'
    BY <2>6, <2>8, <2>9 DEF Because
  <2> QED
    BY <1>0, <2>1, <2>10 DEF Phases
<1>8. ASSUME NEW w \in Workers, CommitReplyLost(w) PROVE NoLossInv'
  BY <1>6, <1>8 DEF CommitReplyLost, TransactionEffect, InTransaction, kafkaVars
<1>9. ASSUME NEW w \in Workers, InsertRefused(w) PROVE NoLossInv'
  <2>1. pc[w] # "idle" /\ pc[w] = "insert" /\ UNCHANGED <<ingress, committed>> /\ Req(w) \in Requests
    BY <1>9, BusyRecord DEF InsertRefused, kafkaVars
  <2>2. RoomSeq[Req(w)] \in Nat /\ last_seq[StreamOf[Req(w)]] \in Nat
    BY <2>1, ConstantsAssumption DEF TypeInv, TypeOK
  <2>3. SeqOf(Req(w)) < NextSeq(Req(w)) => Because(w, "status_failed")
    BY <2>2 DEF SeqOf, NextSeq, Because, Rejectable
  <2>4. Because(w, "publish_dlq")
    BY DEF Because
  <2> QED
    BY <1>0, <1>6, <1>9, <2>1, <2>3, <2>4, RewindKeeps DEF InsertRefused, Phases
<1>10. ASSUME NEW w \in Workers, TransientError(w) PROVE NoLossInv'
  BY <1>6, <1>10 DEF TransientError, InTransaction, kafkaVars
<1>11. ASSUME NEW w \in Workers, HandlerRaises(w) PROVE NoLossInv'
  BY <1>11, RewindKeeps DEF HandlerRaises, InTransaction, kafkaVars
<1>12. ASSUME NEW w \in Workers, MarkInlineRetry(w) PROVE NoLossInv'
  <2>1. /\ pc[w] # "idle" /\ Goto(w, "begin") /\ UNCHANGED <<ingress, committed, cursor>>
        /\ task' = [task EXCEPT ![w].retry_count = task[w].retry_count + 1]
    BY <1>12 DEF MarkInlineRetry, kafkaVars
  <2>2. task[w] \in Task
    BY <2>1, BusyRecord
  <2>3. /\ task'[w].part = task[w].part /\ task'[w].offset = task[w].offset
        /\ \A v \in Workers \ {w} : task'[v] = task[v]
    BY <2>1, <2>2 DEF TypeInv, TypeOK, Task
  <2>4. Because(w, "begin") /\ Rec(w)' = Rec(w)
    BY <2>1, <2>3 DEF Because, Rec
  <2> QED
    BY <2>1, <2>3, <2>4, MoveKeeps DEF Phases
<1>13. ASSUME NEW w \in Workers, PublishDlq(w) PROVE NoLossInv'
  <2>1. pc[w] # "idle" /\ UNCHANGED <<ingress, committed, cursor, task>> /\ Rec(w) \in dlq'
    BY <1>13 DEF PublishDlq
  <2>2. Rec(w)' = Rec(w)
    BY <2>1 DEF Rec
  <2>3. (Rec(w) \in dlq)'
    BY <2>1, <2>2
  <2>4. Because(w, "commit_offset")' /\ Because(w, "status_dlq")'
    BY <2>3 DEF Because, Resolved
  <2> QED
    BY <1>0, <1>13, <2>1, <2>4 DEF PublishDlq, Phases
<1>14. ASSUME NEW w \in Workers, PublishDlqFails(w) PROVE NoLossInv'
  BY <1>14, RewindKeeps DEF PublishDlqFails
<1>15. ASSUME NEW w \in Workers, StatusFailedDlq(w) PROVE NoLossInv'
  <2>1. pc[w] # "idle" /\ Goto(w, "commit_offset") /\ UNCHANGED <<ingress, committed, cursor, task>>
    BY <1>15 DEF StatusFailedDlq, kafkaVars
  <2>2. Because(w, pc[w])
    BY <2>1 DEF NoLossInv, Sound
  <2>3. Because(w, "commit_offset")
    BY <1>15, <2>2 DEF StatusFailedDlq, Because, Resolved, Req
  <2> QED
    BY <1>0, <2>1, <2>3 DEF Phases
<1>16. ASSUME NEW w \in Workers, StatusFailed(w) PROVE NoLossInv'
  <2>1. pc[w] # "idle" /\ Goto(w, "commit_offset") /\ UNCHANGED <<ingress, committed, cursor, task>>
    BY <1>16 DEF StatusFailed, kafkaVars
  <2>2. Because(w, pc[w])
    BY <2>1 DEF NoLossInv, Sound
  <2>3. Because(w, "commit_offset")
    BY <1>16, <2>2 DEF StatusFailed, Because, Resolved, Req
  <2> QED
    BY <1>0, <2>1, <2>3 DEF Phases
<1>17. ASSUME NEW w \in Workers, NEW n \in Nat, pc[w] = "commit_offset", n = task[w].offset + 1
       PROVE  \A p \in Partitions : \A i \in 1..Len(ingress[p]) :
                p = task[w].part /\ i <= n => Resolved(ingress[p][i])
  BY <1>17, HandledIsResolved
<1>18. ASSUME NEW w \in Workers, CommitOffset(w) PROVE NoLossInv'
  <2> DEFINE q == task[w].part
             n == task[w].offset + 1
  <2>1. /\ pc[w] = "commit_offset" /\ Goto(w, "idle") /\ UNCHANGED ingress
        /\ committed' = [committed EXCEPT ![q] = n]
        /\ cursor' = [cursor EXCEPT ![w][q] = n]
        /\ task' = [task EXCEPT ![w] = None]
    BY <1>18 DEF CommitOffset
  <2>2. q \in Partitions /\ n \in Nat
    BY <2>1, BusyRecord
  <2>3. \A p \in Partitions : \A i \in 1..Len(ingress[p]) : p = q /\ i <= n => Resolved(ingress[p][i])
    BY <1>17, <2>1, <2>2
  <2> HIDE DEF q, n
  <2>4. /\ committed \in [Partitions -> Nat] /\ cursor \in [Workers -> [Partitions -> Nat]]
        /\ task \in [Workers -> Task \cup {None}]
    BY DEF TypeInv, TypeOK
  <2>5. /\ \A p \in Partitions : committed'[p] = committed[p] \/ (p = q /\ committed'[p] = n)
        /\ \A v \in Workers : \A p \in Partitions :
              cursor'[v][p] = cursor[v][p] \/ (p = q /\ cursor'[v][p] = n)
        /\ \A v \in Workers \ {w} : task'[v] = task[v] /\ cursor'[v] = cursor[v]
    BY <2>1, <2>2, <2>4
  <2>6. \A v \in Workers : Sound(v)'
    BY <2>1, <2>5, IdleKeeps
  <2>7. CommittedIsResolved' /\ CursorResolved'
    BY <2>1, <2>3, <2>5, PositionsMove
  <2> QED
    BY <2>6, <2>7 DEF NoLossInv
<1>19. ASSUME NEW w \in Workers, CommitOffsetFails(w) PROVE NoLossInv'
  <2> DEFINE q == task[w].part
             n == task[w].offset + 1
  <2>1. /\ pc[w] = "commit_offset" /\ Rewind(w) /\ UNCHANGED ingress
        /\ committed' = committed \/ committed' = [committed EXCEPT ![q] = n]
    BY <1>19 DEF CommitOffsetFails
  <2>2. q \in Partitions /\ n \in Nat
    BY <2>1, BusyRecord
  <2>3. \A p \in Partitions : \A i \in 1..Len(ingress[p]) : p = q /\ i <= n => Resolved(ingress[p][i])
    BY <1>17, <2>1, <2>2
  <2>4. /\ Goto(w, "idle") /\ cursor' = cursor
        /\ \A v \in Workers \ {w} : task'[v] = task[v]
    BY <2>1, RewindType DEF Rewind
  <2> HIDE DEF q, n
  <2>5. \A p \in Partitions : committed'[p] = committed[p] \/ (p = q /\ committed'[p] = n)
    BY <2>1, <2>2 DEF TypeInv, TypeOK
  <2>6. \A v \in Workers : Sound(v)'
    BY <2>1, <2>4, IdleKeeps
  <2>7. CommittedIsResolved' /\ CursorResolved'
    BY <2>1, <2>3, <2>4, <2>5, PositionsMove
  <2> QED
    BY <2>6, <2>7 DEF NoLossInv
<1>20. ASSUME NEW w \in Workers, Poll(w) PROVE NoLossInv'
  BY <1>1, <1>20 DEF Poll, kafkaVars
<1>21. ASSUME NEW r \in Requests, Publish(r) PROVE NoLossInv'
  BY <1>21, AppendKeeps DEF Publish
<1>22. ASSUME NEW d \in dlq, ReplayDlq(d) PROVE NoLossInv'
  <2>1. d.req \in Requests /\ d.replay_count + 1 \in Nat
    BY DEF TypeInv, TypeOK, Record
  <2> QED
    BY <1>22, <2>1, AppendKeeps DEF ReplayDlq
<1>23. ASSUME NEW p \in Partitions, Fence(p) PROVE NoLossInv'
  BY <1>1, <1>23 DEF Fence, workerVars
<1>24. CASE UNCHANGED vars
  BY <1>1, <1>24 DEF vars, kafkaVars, workerVars
<1> QED
  BY <1>2, <1>3, <1>4, <1>5, <1>7, <1>8, <1>9, <1>10, <1>11, <1>12, <1>13, <1>14, <1>15, <1>16,
     <1>18, <1>19, <1>20, <1>21, <1>22, <1>23, <1>24
     DEF Next, WorkerStep, Handle, Failure

\* The committed offset never passes a record that is neither stored, answered,
\* rejected for cause nor in the DLQ, whatever crashes, is fenced or loses its
\* reply (_process_worker_batch commits after the handler, a failure rewinds).
THEOREM NoEventSkipped == Spec => []CommittedIsResolved
<1>1. Init => NoLossInv
  BY DEF Init, NoLossInv, CommittedIsResolved, CursorResolved, Sound
<1>2. TypeInv /\ NoLossInv /\ [Next]_vars => NoLossInv'
  BY NoLossStep
<1>3. NoLossInv => CommittedIsResolved
  BY DEF NoLossInv
<1> QED
  BY <1>1, <1>2, <1>3, TypeInit, TypeStep, PTL DEF Spec

-----------------------------------------------------------------------------
(* The streams the workers build.                                          *)

\* Jobs of the present API: create_event and its siblings leave room_seq null.
PresentJobs == \A r \in Requests : RoomSeq[r] = 0

\* The message that w inserts.
NewMessage(w) == [req |-> Req(w), seq |-> NextSeq(Req(w))]

\* The three things a transaction can do to the tables of the streams.
LEMMA CommitShape ==
  ASSUME TypeInv, NEW w \in Workers, Commits(w)
  PROVE  /\ Req(w) \in Requests /\ StreamOf[Req(w)] \in Streams
         /\ NextSeq(Req(w)) = last_seq[StreamOf[Req(w)]] + 1 /\ NextSeq(Req(w)) \in Nat \ {0}
         /\ pc[w] \in InTransaction
         /\ \/ pc[w] # "insert" /\ UNCHANGED <<messages, last_seq>>
            \/ /\ pc[w] = "insert" /\ InsertPossible(Req(w))
               /\ messages' = messages \cup {NewMessage(w)}
               /\ last_seq' = [last_seq EXCEPT ![StreamOf[Req(w)]] = NextSeq(Req(w))]
               /\ outbox' = outbox \cup {Req(w)}
            \/ /\ pc[w] = "insert" /\ AlreadyAtSeq(Req(w)) /\ messages' = messages
               /\ last_seq' = [last_seq EXCEPT ![StreamOf[Req(w)]] = NextSeq(Req(w))]
<1>1. TransactionEffect(w) /\ pc[w] \in InTransaction /\ pc[w] # "idle"
  BY DEF Commits, TransactionEffect, InTransaction
<1>2. Req(w) \in Requests
  BY <1>1, BusyRecord
<1>3. /\ StreamOf[Req(w)] \in Streams
      /\ NextSeq(Req(w)) = last_seq[StreamOf[Req(w)]] + 1 /\ NextSeq(Req(w)) \in Nat \ {0}
  BY <1>2, ConstantsAssumption DEF NextSeq, TypeInv, TypeOK
<1> QED
  BY <1>1, <1>2, <1>3 DEF TransactionEffect, InsertMessage, InsertPossible, NewMessage,
                          EnqueueNotification
-----------------------------------------------------------------------------
(* Numbers.                                                                *)

\* No number of a stream is taken twice or lies beyond its last.
SeqsDiffer ==
  \A m, n \in messages : Stream(m) = Stream(n) /\ m.seq = n.seq => m = n

SeqsBelow == \A m \in messages : m.seq <= last_seq[Stream(m)]

NumbersInv == SeqsDiffer /\ SeqsBelow

\* No number up to the last is missing.
NoGap ==
  \A s \in Streams : \A i \in 1..last_seq[s] : \E m \in messages : Stream(m) = s /\ m.seq = i

\* A new message has the number after all others of its stream.
LEMMA NumbersStep ==
  ASSUME TypeInv, [Next]_vars, NumbersInv
  PROVE  NumbersInv'
<1> USE DEF NumbersInv
<1>0. /\ last_seq \in [Streams -> Nat] /\ messages \subseteq Message
      /\ \A m \in messages : Stream(m) \in Streams /\ m.seq \in Nat
  BY ConstantsAssumption DEF TypeInv, TypeOK, Message, Stream
<1>1. CASE Quiet \/ \E w \in Workers : BeginTransaction(w)
  BY <1>1 DEF Quiet, BeginTransaction, dbVars, SeqsDiffer, SeqsBelow
<1>2. ASSUME NEW w \in Workers, Commits(w) PROVE NumbersInv'
  <2> DEFINE r == Req(w)
             s == StreamOf[r]
             x == NewMessage(w)
  <2>1. s \in Streams /\ NextSeq(r) = last_seq[s] + 1 /\ Stream(x) = s /\ x.seq = last_seq[s] + 1
    BY <1>2, CommitShape DEF NewMessage, Stream
  <2>2. CASE UNCHANGED <<messages, last_seq>>
    BY <2>2 DEF SeqsDiffer, SeqsBelow
  <2>3. CASE last_seq' = [last_seq EXCEPT ![s] = NextSeq(r)] /\ messages' = messages
    BY <1>0, <2>1, <2>3 DEF SeqsDiffer, SeqsBelow
  <2>4. CASE last_seq' = [last_seq EXCEPT ![s] = NextSeq(r)] /\ messages' = messages \cup {x}
    <3> HIDE DEF x, s
    <3>1. \A m \in messages : Stream(m) = s => m.seq < x.seq
      BY <1>0, <2>1 DEF SeqsBelow
    <3>2. SeqsDiffer'
      BY <1>0, <2>1, <2>4, <3>1 DEF SeqsDiffer
    <3>3. SeqsBelow'
      BY <1>0, <2>1, <2>4 DEF SeqsBelow
    <3> QED
      BY <3>2, <3>3
  <2> QED
    BY <1>2, <2>2, <2>3, <2>4, CommitShape
<1> QED
  BY <1>1, <1>2, StepShape

\* A number is only taken together with a message.
LEMMA NoGapStep ==
  ASSUME TypeInv, [Next]_vars, PresentJobs, NoGap
  PROVE  NoGap'
<1>0. last_seq \in [Streams -> Nat]
  BY DEF TypeInv, TypeOK
<1>1. CASE Quiet \/ \E w \in Workers : BeginTransaction(w)
  BY <1>1 DEF Quiet, BeginTransaction, dbVars, NoGap
<1>2. ASSUME NEW w \in Workers, Commits(w) PROVE NoGap'
  <2> DEFINE r == Req(w)
             s == StreamOf[r]
             x == NewMessage(w)
  <2>1. /\ r \in Requests /\ s \in Streams /\ NextSeq(r) = last_seq[s] + 1
        /\ Stream(x) = s /\ x.seq = last_seq[s] + 1
    BY <1>2, CommitShape DEF NewMessage, Stream
  <2>2. CASE UNCHANGED <<messages, last_seq>>
    BY <2>2 DEF NoGap
  <2>3. CASE last_seq' = [last_seq EXCEPT ![s] = NextSeq(r)] /\ messages' = messages \cup {x}
    <3> HIDE DEF x, s
    <3> SUFFICES ASSUME NEW z \in Streams, NEW i \in 1..last_seq'[z]
                 PROVE  \E m \in messages' : Stream(m) = z /\ m.seq = i
      BY DEF NoGap
    <3>1. CASE i \in 1..last_seq[z]
      BY <2>3, <3>1 DEF NoGap
    <3>2. CASE i \notin 1..last_seq[z]
      <4>1. z = s /\ i = last_seq[s] + 1
        BY <1>0, <2>1, <2>3, <3>2
      <4> QED
        BY <2>1, <2>3, <4>1
    <3> QED
      BY <3>1, <3>2
  <2>4. ~AlreadyAtSeq(r)
    BY <2>1 DEF AlreadyAtSeq, PresentJobs
  <2> QED
    BY <1>2, <2>2, <2>3, <2>4, CommitShape
<1> QED
  BY <1>1, <1>2, StepShape

\* The events of a stream are numbered without gap or repetition, however
\* workers, retries and lost replies mix (the transaction of persist_ingress_job),
\* as long as no job brings a number of its own.
THEOREM StreamsAreDense == ASSUME PresentJobs PROVE Spec => []StreamSequencesDense
<1>1. Init => NumbersInv /\ NoGap
  BY DEF Init, NumbersInv, SeqsDiffer, SeqsBelow, NoGap
<1>2. TypeInv /\ NumbersInv /\ NoGap /\ [Next]_vars => (NumbersInv /\ NoGap)'
  BY NumbersStep, NoGapStep
<1>3. NumbersInv /\ NoGap => StreamSequencesDense
  BY DEF NumbersInv, SeqsDiffer, SeqsBelow, NoGap, StreamSequencesDense
<1> QED
  BY <1>1, <1>2, <1>3, TypeInit, TypeStep, PTL DEF Spec
-----------------------------------------------------------------------------
(* Nothing is taken back.                                                  *)

\* The group is at most one record ahead of the member that owns a partition:
\* by the commit whose reply it did not get.
OwnerAhead ==
  \A p \in Partitions : \A w \in Workers : owner[p] = w => committed[p] <= cursor[w][p] + 1

\* Steps that move no position and hand out no partition.
LEMMA OwnerAheadKept ==
  ASSUME OwnerAhead, UNCHANGED <<committed, cursor>>,
         \A p \in Partitions : owner'[p] = owner[p] \/ owner'[p] \notin Workers
  PROVE  OwnerAhead'
BY DEF OwnerAhead

\* A commit that arrives puts the group behind the record of its sender, which
\* is never behind where the group was.
LEMMA CommitAdvances ==
  ASSUME TypeInv, NoLossInv, OwnerAhead, NEW w \in Workers, pc[w] = "commit_offset",
         owner[task[w].part] = w
  PROVE  /\ task[w].part \in Partitions /\ task[w].offset \in Nat
         /\ task[w].offset = cursor[w][task[w].part]
         /\ committed[task[w].part] <= task[w].offset + 1
<1>1. /\ task[w].part \in Partitions /\ task[w].offset \in Nat
      /\ task[w].offset = cursor[w][task[w].part]
  BY BusyRecord DEF NoLossInv, Sound
<1> QED
  BY <1>1 DEF OwnerAhead

\* Every step keeps the group that close to the owners and never moves it back.
LEMMA OwnerAheadStep ==
  ASSUME TypeInv, [Next]_vars, NoLossInv, OwnerAhead
  PROVE  OwnerAhead' /\ \A p \in Partitions : committed'[p] >= committed[p]
<1> DEFINE Kept == OwnerAhead' /\ \A p \in Partitions : committed'[p] >= committed[p]
<1>0. /\ committed \in [Partitions -> Nat] /\ cursor \in [Workers -> [Partitions -> Nat]]
      /\ owner \in [Partitions -> Workers \cup {None}] /\ None \notin Workers
  BY ConstantsAssumption DEF TypeInv, TypeOK
<1>1. ASSUME UNCHANGED <<committed, cursor>>,
             \A p \in Partitions : owner'[p] = owner[p] \/ owner'[p] \notin Workers
      PROVE  Kept
  BY <1>0, <1>1, OwnerAheadKept
<1>2. ASSUME NEW w \in Workers, NEW p \in Partitions, Assign(w, p) PROVE Kept
  <2>1. /\ committed' = committed
        /\ owner[p] = None /\ owner' = [owner EXCEPT ![p] = w]
        /\ cursor' = [cursor EXCEPT ![w][p] = committed[p]]
    BY <1>2 DEF Assign
  <2>2. ASSUME NEW q \in Partitions, NEW v \in Workers, owner'[q] = v
        PROVE  committed[q] <= cursor'[v][q] + 1
    <3>1. CASE q = p
      <4>1. v = w /\ cursor'[v][q] = committed[q]
        BY <1>0, <2>1, <2>2, <3>1
      <4> QED
        BY <1>0, <4>1
    <3>2. CASE q # p
      <4>1. owner[q] = v /\ cursor'[v][q] = cursor[v][q]
        BY <1>0, <2>1, <2>2, <3>2
      <4> QED
        BY <4>1 DEF OwnerAhead
    <3> QED
      BY <3>1, <3>2
  <2> QED
    BY <1>0, <2>1, <2>2 DEF OwnerAhead
<1>3. ASSUME NEW w \in Workers, Crash(w) PROVE Kept
  <2>1. /\ committed' = committed
        /\ owner' = [p \in Partitions |-> IF owner[p] = w THEN None ELSE owner[p]]
        /\ cursor' = [cursor EXCEPT ![w] = [p \in Partitions |-> 0]]
    BY <1>3 DEF Crash
  <2>2. \A q \in Partitions : \A v \in Workers :
          owner'[q] = v => owner[q] = v /\ cursor'[v][q] = cursor[v][q]
    BY <1>0, <2>1
  <2> QED
    BY <1>0, <2>1, <2>2 DEF OwnerAhead
<1>4. ASSUME NEW w \in Workers, pc[w] = "commit_offset", owner[task[w].part] = w,
             committed' = [committed EXCEPT ![task[w].part] = task[w].offset + 1],
             cursor' = cursor \/ cursor' = [cursor EXCEPT ![w][task[w].part] = task[w].offset + 1],
             owner' = owner
      PROVE  Kept
  <2> DEFINE p == task[w].part
             n == task[w].offset
  <2>1. p \in Partitions /\ n \in Nat /\ n = cursor[w][p] /\ committed[p] <= n + 1 /\ owner[p] = w
    BY <1>4, CommitAdvances
  <2>2. /\ committed' = [committed EXCEPT ![p] = n + 1]
        /\ cursor' = cursor \/ cursor' = [cursor EXCEPT ![w][p] = n + 1]
    BY <1>4
  <2> HIDE DEF p, n
  <2>3. ASSUME NEW q \in Partitions
        PROVE  /\ committed'[q] >= committed[q]
               /\ \A v \in Workers : owner[q] = v => committed'[q] <= cursor'[v][q] + 1
    <3>1. CASE q = p
      <4>1. committed'[q] = n + 1 /\ (cursor'[w][q] = n \/ cursor'[w][q] = n + 1)
        BY <1>0, <2>1, <2>2, <3>1
      <4> QED
        BY <1>0, <2>1, <3>1, <4>1
    <3>2. CASE q # p
      <4>1. committed'[q] = committed[q] /\ \A v \in Workers : cursor'[v][q] = cursor[v][q]
        BY <1>0, <2>1, <2>2, <3>2
      <4> QED
        BY <1>0, <4>1 DEF OwnerAhead
    <3> QED
      BY <3>1, <3>2
  <2> QED
    BY <1>4, <2>3 DEF OwnerAhead
<1>5. ASSUME NEW w \in Workers, CommitOffset(w) PROVE Kept
  BY <1>4, <1>5 DEF CommitOffset
<1>6. ASSUME NEW w \in Workers, CommitOffsetFails(w) PROVE Kept
  <2>1. cursor' = cursor /\ owner' = owner
    BY <1>6 DEF CommitOffsetFails, Rewind
  <2>2. CASE committed' = committed
    BY <1>1, <2>1, <2>2
  <2>3. CASE committed' # committed
    BY <1>4, <1>6, <2>1, <2>3 DEF CommitOffsetFails
  <2> QED
    BY <2>2, <2>3
<1>7. ASSUME NEW p \in Partitions, Fence(p) PROVE Kept
  BY <1>0, <1>1, <1>7 DEF Fence, workerVars
<1>9. ASSUME NEW w \in Workers,
             \/ Poll(w) \/ BeginTransaction(w) \/ CommitTransaction(w) \/ InsertRefused(w)
             \/ MarkInlineRetry(w) \/ PublishDlq(w) \/ StatusFailedDlq(w) \/ StatusFailed(w)
             \/ CommitReplyLost(w) \/ TransientError(w) \/ HandlerRaises(w) \/ PublishDlqFails(w)
             \/ \E p \in Partitions : Take(w, p)
      PROVE  Kept
  <2>1. UNCHANGED <<committed, cursor, owner>>
    BY <1>9 DEF Poll, BeginTransaction, CommitTransaction, InsertRefused, MarkInlineRetry, PublishDlq,
                StatusFailedDlq, StatusFailed, CommitReplyLost, TransientError, HandlerRaises,
                PublishDlqFails, Take, Rewind, kafkaVars
  <2> QED
    BY <1>1, <2>1
<1>10. ASSUME NEW r \in Requests, NEW n, AppendIngress(r, n) PROVE Kept
  BY <1>1, <1>10 DEF AppendIngress, workerVars
<1>11. ASSUME NEW r \in Requests, Publish(r) PROVE Kept
  BY <1>10, <1>11 DEF Publish
<1>12. ASSUME NEW d \in dlq, ReplayDlq(d) PROVE Kept
  <2>1. d.req \in Requests
    BY DEF TypeInv, TypeOK, Record
  <2> QED
    BY <1>10, <1>12, <2>1 DEF ReplayDlq
<1>13. CASE UNCHANGED vars
  BY <1>1, <1>13 DEF vars, kafkaVars, workerVars
<1>14. ASSUME NEW w \in Workers, WorkerStep(w) PROVE Kept
  BY <1>2, <1>5, <1>6, <1>9, <1>14 DEF WorkerStep, Handle
<1>15. ASSUME NEW w \in Workers, Failure(w) PROVE Kept
  BY <1>3, <1>9, <1>15 DEF Failure
<1>16. Kept
  BY <1>7, <1>11, <1>12, <1>13, <1>14, <1>15 DEF Next
<1> QED
  BY <1>16

\* The no-loss invariant holds from the start.
LEMMA NoLossInit == Init => NoLossInv
BY DEF Init, NoLossInv, CommittedIsResolved, CursorResolved, Sound

\* A fenced or restarted worker cannot move the group back over records that
\* were handled (_commit_processed_record: the broker takes the commit of the
\* current owner only, and an owner starts where the group is), and no
\* transaction changes or removes a stored event.
THEOREM GroupNeverGoesBack == Spec => NothingIsTakenBack
<1>1. Init => NoLossInv /\ OwnerAhead
  <2>1. Init => OwnerAhead
    BY ConstantsAssumption DEF Init, OwnerAhead
  <2> QED
    BY <2>1, NoLossInit
<1>2. TypeInv /\ NoLossInv /\ OwnerAhead /\ [Next]_vars => (NoLossInv /\ OwnerAhead)'
  BY NoLossStep, OwnerAheadStep
<1>3. TypeInv /\ NoLossInv /\ OwnerAhead /\ [Next]_vars =>
        [ /\ \A p \in Partitions : committed'[p] >= committed[p]
          /\ messages \subseteq messages' ]_vars
  BY OwnerAheadStep, OutcomesLast
<1> QED
  BY <1>1, <1>2, <1>3, TypeInit, TypeStep, PTL DEF Spec, NothingIsTakenBack
-----------------------------------------------------------------------------
(* Statuses.                                                               *)

\* What has to have happened for r to be shown with status s.
Backed(r, s) ==
  /\ s = "persisted" => Persisted(r) \/ (KeyOf[r] # None /\ Answered(KeyOf[r]))
  /\ s = "failed_dlq" => \E d \in dlq : d.req = r
  /\ s = "failed" => Rejectable(r)

\* What has happened to a request is not undone.
LEMMA BackingLasts ==
  ASSUME TypeInv, [Next]_vars, NEW r \in Requests, NEW s, Backed(r, s)
  PROVE  Backed(r, s)'
<1>1. /\ KeyOf[r] # None => KeyOf[r] \in Keys
      /\ StreamOf[r] \in Streams
      /\ RoomSeq[r] \in Nat
  BY ConstantsAssumption
<1>2. Persisted(r) => Persisted(r)'
  BY OutcomesLast DEF Persisted
<1>3. KeyOf[r] # None /\ Answered(KeyOf[r]) => Answered(KeyOf[r])'
  BY <1>1, OutcomesLast DEF Answered
<1>4. Rejectable(r) => Rejectable(r)'
  <2>1. last_seq[StreamOf[r]] <= last_seq'[StreamOf[r]]
    BY <1>1, OutcomesLast
  <2>2. last_seq[StreamOf[r]] \in Nat /\ last_seq'[StreamOf[r]] \in Nat
    BY <1>1, TypeStep DEF TypeInv, TypeOK
  <2> QED
    BY <1>1, <2>1, <2>2 DEF Rejectable
<1>5. dlq \subseteq dlq'
  BY OutcomesLast
<1> QED
  BY <1>2, <1>3, <1>4, <1>5 DEF Backed

\* The row of one request is written with a status that is backed, the others
\* keep theirs.
LEMMA StatusWritten ==
  ASSUME TypeInv, [Next]_vars, StatusIsBacked, NEW r \in Requests, NEW s,
         request_statuses' = [request_statuses EXCEPT ![r] = s],
         Backed(r, s) \/ Backed(r, s)'
  PROVE  StatusIsBacked'
<1>1. Backed(r, s)'
  BY BackingLasts
<1>2. \A q \in Requests : request_statuses'[q] = request_statuses[q] \/ (q = r /\ request_statuses'[q] = s)
  BY DEF TypeInv, TypeOK
<1>3. ASSUME NEW q \in Requests, NEW z, request_statuses'[q] = z PROVE Backed(q, z)'
  <2>1. CASE request_statuses[q] = z
    <3>1. Backed(q, z)
      BY <2>1 DEF StatusIsBacked, Backed
    <3> QED
      BY <3>1, BackingLasts
  <2> QED
    BY <1>1, <1>2, <1>3, <2>1
<1> QED
  BY <1>3 DEF StatusIsBacked, Backed

\* A transaction that takes effect leaves an event of its request or of its key.
LEMMA CommitBacks ==
  ASSUME TypeInv, [Next]_vars, NoLossInv, NEW w \in Workers, Commits(w)
  PROVE  Backed(Req(w), "persisted") \/ Backed(Req(w), "persisted")'
<1>1. TransactionEffect(w) /\ pc[w] # "idle" /\ pc[w] \in InTransaction /\ Req(w)' = Req(w)
  BY DEF Commits, TransactionEffect, InTransaction, Req, Rec
<1>2. Because(w, pc[w])
  BY <1>1 DEF NoLossInv, Sound
<1>3. CASE pc[w] \in {"cached", "adopt", "existing"}
  BY <1>2, <1>3 DEF Because, Backed
<1>4. CASE pc[w] = "insert"
  <2>1. InsertMessage(Req(w)) \/ AlreadyAtSeq(Req(w))
    BY <1>1, <1>4 DEF TransactionEffect
  <2>2. CASE AlreadyAtSeq(Req(w))
    BY <2>2 DEF AlreadyAtSeq, Persisted, Backed
  <2>3. CASE InsertMessage(Req(w))
    <3> DEFINE x == [req |-> Req(w), seq |-> SeqOf(Req(w))]
    <3>1. x \in messages' /\ x.req = Req(w)
      BY <2>3 DEF InsertMessage
    <3>2. \E m \in messages' : m.req = Req(w)
      BY <3>1
    <3> QED
      BY <1>1, <3>2 DEF Backed, Persisted
  <2> QED
    BY <2>1, <2>2, <2>3
<1> QED
  BY <1>1, <1>3, <1>4 DEF InTransaction

\* Every status written has its reason.
LEMMA StatusStep ==
  ASSUME TypeInv, [Next]_vars, NoLossInv, StatusIsBacked
  PROVE  StatusIsBacked'
<1> USE DEF Phases
<1>1. ASSUME request_statuses' = request_statuses PROVE StatusIsBacked'
  <2>1. ASSUME NEW q \in Requests, NEW z, request_statuses[q] = z PROVE Backed(q, z)'
    <3>1. Backed(q, z)
      BY <2>1 DEF StatusIsBacked, Backed
    <3> QED
      BY <3>1, BackingLasts
  <2> QED
    BY <1>1, <2>1 DEF StatusIsBacked, Backed
<1>2. ASSUME NEW w \in Workers, NEW s, pc[w] # "idle", WriteStatus(Req(w), s), Backed(Req(w), s)
      PROVE  StatusIsBacked'
  <2>1. Req(w) \in Requests
    BY <1>2, BusyRecord
  <2>2. CASE request_statuses' = request_statuses
    BY <1>1, <2>2
  <2>3. CASE request_statuses' = [request_statuses EXCEPT ![Req(w)] = s]
    BY <1>2, <2>1, <2>3, StatusWritten
  <2> QED
    BY <1>2, <2>2, <2>3 DEF WriteStatus
<1>3. ASSUME NEW w \in Workers, CommitTransaction(w) \/ CommitReplyLost(w) PROVE StatusIsBacked'
  <2>1. TransactionEffect(w) /\ pc[w] # "idle" /\ UNCHANGED <<ingress, task>>
    BY <1>3 DEF CommitTransaction, CommitReplyLost, TransactionEffect, InTransaction, kafkaVars
  <2>2. Commits(w)
    <3>1. PICK phase \in Phases \ InTransaction : Goto(w, phase)
      BY <1>3, RetryOrDlqLeaves DEF CommitTransaction, CommitReplyLost, InTransaction
    <3>2. pc'[w] \notin InTransaction /\ \A v \in Workers \ {w} : pc'[v] = pc[v]
      BY <3>1, GotoType DEF TypeInv
    <3> QED
      BY <2>1, <3>2 DEF Commits
  <2>3. /\ Req(w) \in Requests
        /\ request_statuses' = [request_statuses EXCEPT ![Req(w)] = "persisted"]
    BY <2>1, BusyRecord DEF TransactionEffect
  <2> QED
    <3> DEFINE r == Req(w)
    <3>1. PICK q \in Requests : q = r
      BY <2>3
    <3>2. Backed(q, "persisted") \/ Backed(q, "persisted")'
      <4>1. Req(w)' = Req(w)
        BY <2>1 DEF Req, Rec
      <4> QED
        BY <2>2, <3>1, <4>1, CommitBacks
    <3> QED
      BY <2>3, <3>1, <3>2, StatusWritten
<1>4. ASSUME NEW w \in Workers, MarkInlineRetry(w) PROVE StatusIsBacked'
  BY <1>2, <1>4 DEF MarkInlineRetry, Backed
<1>5. ASSUME NEW w \in Workers, StatusFailedDlq(w) PROVE StatusIsBacked'
  <2>1. pc[w] # "idle" /\ pc[w] = "status_dlq" /\ WriteStatus(Req(w), "failed_dlq")
    BY <1>5 DEF StatusFailedDlq
  <2>2. Rec(w) \in dlq
    BY <2>1 DEF NoLossInv, Sound, Because
  <2>3. Backed(Req(w), "failed_dlq")
    BY <2>2 DEF Backed, Req
  <2> QED
    BY <1>2, <2>1, <2>3
<1>6. ASSUME NEW w \in Workers, StatusFailed(w) PROVE StatusIsBacked'
  <2>1. pc[w] # "idle" /\ pc[w] = "status_failed" /\ WriteStatus(Req(w), "failed")
    BY <1>6 DEF StatusFailed
  <2>2. Rejectable(Req(w))
    BY <2>1 DEF NoLossInv, Sound, Because
  <2>3. Backed(Req(w), "failed")
    BY <2>2 DEF Backed
  <2> QED
    BY <1>2, <2>1, <2>3
<1>7. ASSUME NEW w \in Workers,
             \/ Poll(w) \/ BeginTransaction(w) \/ InsertRefused(w) \/ PublishDlq(w)
             \/ CommitOffset(w) \/ CommitOffsetFails(w) \/ Crash(w)
             \/ TransientError(w) \/ HandlerRaises(w) \/ PublishDlqFails(w)
             \/ \E p \in Partitions : Assign(w, p) \/ Take(w, p)
      PROVE  StatusIsBacked'
  <2>1. request_statuses' = request_statuses
    BY <1>7 DEF Poll, BeginTransaction, InsertRefused, PublishDlq, CommitOffset, CommitOffsetFails,
                Crash, TransientError, HandlerRaises, PublishDlqFails, Assign, Take, dbVars
  <2> QED
    BY <1>1, <2>1
<1>8. ASSUME \/ \E r \in Requests : Publish(r)
             \/ \E d \in dlq : ReplayDlq(d)
             \/ \E p \in Partitions : Fence(p)
             \/ UNCHANGED vars
      PROVE  StatusIsBacked'
  <2>1. request_statuses' = request_statuses
    BY <1>8 DEF Publish, ReplayDlq, AppendIngress, Fence, vars, dbVars
  <2> QED
    BY <1>1, <2>1
<1>9. ASSUME NEW w \in Workers, WorkerStep(w) PROVE StatusIsBacked'
  BY <1>3, <1>4, <1>5, <1>6, <1>7, <1>9 DEF WorkerStep, Handle
<1>10. ASSUME NEW w \in Workers, Failure(w) PROVE StatusIsBacked'
  BY <1>3, <1>7, <1>10 DEF Failure
<1> QED
  BY <1>8, <1>9, <1>10 DEF Next

\* A status the API shows is never ahead of what happened: persist_ingress_job
\* writes "persisted" in the transaction of the event, move_to_dlq publishes
\* before update_request_status, and both may be retried or half done.
THEOREM StatusesAreTrue == Spec => []StatusIsBacked
<1>1. Init => StatusIsBacked
  BY DEF Init, StatusIsBacked
<1> QED
  BY <1>1, NoLossInit, NoLossStep, StatusStep, TypeInit, TypeStep, PTL DEF Spec
-----------------------------------------------------------------------------
(* Order.                                                                  *)

\* A record lies in the partition of its stream.
InPlace ==
  \A p \in Partitions : \A i \in 1..Len(ingress[p]) : PartitionOf[StreamOf[ingress[p][i].req]] = p

\* The log of the partition to which the record of a request belongs.
HomeOf(r) == PartitionOf[StreamOf[r]]

\* An event was stored from a record of the log.
StoredInLog ==
  \A m \in messages : \E i \in 1..Len(ingress[HomeOf(m.req)]) : ingress[HomeOf(m.req)][i].req = m.req

\* Only an authorized request is inserted.
AuthorizedInsert == \A w \in Workers : pc[w] = "insert" => Kind[Req(w)] # "unauthorized"

\* When an event is stored, all records before its own first record are resolved.
BeforeResolved ==
  \A m \in messages : \A i \in 1..Len(ingress[HomeOf(m.req)]) :
    FirstAt(m.req, HomeOf(m.req), i) =>
      \A j \in 1..(i - 1) : Resolved(ingress[HomeOf(m.req)][j])

LogInv == InPlace /\ StoredInLog /\ AuthorizedInsert /\ BeforeResolved

\* The first record of a stored event is where it was: an append puts a record
\* behind all that are there.
LEMMA FirstAtStays ==
  ASSUME TypeInv, StoredInLog, NEW r \in Requests, NEW n \in Nat, AppendIngress(r, n),
         NEW m \in messages, NEW i \in 1..Len(ingress'[HomeOf(m.req)]),
         FirstAt(m.req, HomeOf(m.req), i)'
  PROVE  /\ i \in 1..Len(ingress[HomeOf(m.req)])
         /\ FirstAt(m.req, HomeOf(m.req), i)
         /\ \A j \in 1..i : ingress'[HomeOf(m.req)][j] = ingress[HomeOf(m.req)][j]
<1>1. PICK p \in Partitions : p = HomeOf(m.req)
  BY ConstantsAssumption DEF HomeOf, TypeInv, TypeOK, Message
<1>2. /\ ingress[p] \in Seq(Record) /\ ingress'[p] \in Seq(Record)
      /\ Len(ingress[p]) \in Nat /\ Len(ingress'[p]) \in Nat
      /\ \A j \in 1..Len(ingress[p]) : ingress'[p][j] = ingress[p][j]
  BY AppendKeepsRecords DEF TypeInv, TypeOK
<1>3. /\ ingress'[p][i].req = m.req
      /\ \A j \in 1..(i - 1) : ingress'[p][j].req # m.req
  BY <1>1 DEF FirstAt, HomeOf
<1>4. PICK k \in 1..Len(ingress[p]) : ingress[p][k].req = m.req
  BY <1>1 DEF StoredInLog
<1>5. i \in Nat \ {0} /\ i <= k
  BY <1>1, <1>2, <1>3, <1>4
<1>6. i \in 1..Len(ingress[p]) /\ \A j \in 1..i : j \in 1..Len(ingress[p])
  BY <1>2, <1>4, <1>5
<1>7. \A j \in 1..i : ingress'[p][j] = ingress[p][j]
  BY <1>2, <1>6
<1>8. FirstAt(m.req, p, i)
  BY SMTT(30), <1>3, <1>5, <1>7 DEF FirstAt
<1> QED
  BY <1>1, <1>6, <1>7, <1>8

\* Appending a record in its place keeps the order of what is stored.
LEMMA LogAppend ==
  ASSUME TypeInv, [Next]_vars, LogInv, NEW r \in Requests, NEW n \in Nat, AppendIngress(r, n)
  PROVE  LogInv'
<1>0. UNCHANGED <<messages, pc, task>>
  BY DEF AppendIngress, workerVars, dbVars
<1>1. InPlace'
  <2> DEFINE q == PartitionOf[StreamOf[r]]
             x == [req |-> r, replay_count |-> n]
  <2>1. q \in Partitions /\ x.req = r /\ x \in Record /\ ingress' = [ingress EXCEPT ![q] = Append(@, x)]
    BY ConstantsAssumption DEF AppendIngress, Record
  <2>2. PartitionOf[StreamOf[x.req]] = q
    BY <2>1
  <2> HIDE DEF x, q
  <2> SUFFICES ASSUME NEW p \in Partitions, NEW i \in 1..Len(ingress'[p])
               PROVE  PartitionOf[StreamOf[ingress'[p][i].req]] = p
    BY DEF InPlace
  <2>3. ingress[p] \in Seq(Record) /\ ingress \in [Partitions -> Seq(Record)]
    BY DEF TypeInv, TypeOK
  <2>4. CASE p = q
    <3>1. ingress'[p] = Append(ingress[p], x)
      BY <2>1, <2>3, <2>4
    <3>2. CASE i \in 1..Len(ingress[p])
      <4>1. ingress'[p][i] = ingress[p][i]
        BY <2>1, <2>3, <3>1, <3>2
      <4> QED
        BY <3>2, <4>1 DEF LogInv, InPlace
    <3>3. CASE i \notin 1..Len(ingress[p])
      <4>1. ingress'[p][i] = x
        BY <2>1, <2>3, <3>1, <3>3
      <4> QED
        BY <2>2, <2>4, <4>1
    <3> QED
      BY <3>2, <3>3
  <2>5. CASE p # q
    BY <2>1, <2>3, <2>5 DEF LogInv, InPlace
  <2> QED
    BY <2>4, <2>5
<1>2. StoredInLog'
  <2> SUFFICES ASSUME NEW m \in messages
               PROVE  \E i \in 1..Len(ingress'[HomeOf(m.req)]) : ingress'[HomeOf(m.req)][i].req = m.req
    BY <1>0 DEF StoredInLog, HomeOf
  <2>1. PICK p \in Partitions : p = HomeOf(m.req)
    BY ConstantsAssumption DEF HomeOf, TypeInv, TypeOK, Message
  <2>2. PICK i \in 1..Len(ingress[p]) : ingress[p][i].req = m.req
    BY <2>1 DEF LogInv, StoredInLog
  <2>3. i \in 1..Len(ingress'[p]) /\ ingress'[p][i].req = m.req
    <3>1. Len(ingress[p]) \in Nat /\ Len(ingress'[p]) \in Nat
      BY AppendKeepsRecords DEF TypeInv, TypeOK
    <3> QED
      BY <2>2, <3>1, AppendKeepsRecords DEF TypeInv
  <2> QED
    BY <2>1, <2>3
<1>3. AuthorizedInsert'
  <2>1. \A w \in Workers : pc[w] # "idle" => Req(w)' = Req(w)
    BY AppendKeepsReq
  <2> QED
    BY <1>0, <2>1 DEF LogInv, AuthorizedInsert
<1>4. BeforeResolved'
  <2> SUFFICES ASSUME NEW m \in messages, NEW i \in 1..Len(ingress'[HomeOf(m.req)]),
                      FirstAt(m.req, HomeOf(m.req), i)', NEW j \in 1..(i - 1)
               PROVE  Resolved(ingress[HomeOf(m.req)][j])'
    BY <1>0 DEF BeforeResolved, HomeOf
  <2>1. PICK p \in Partitions : p = HomeOf(m.req)
    BY ConstantsAssumption DEF HomeOf, TypeInv, TypeOK, Message
  <2>2. /\ i \in 1..Len(ingress[p])
        /\ FirstAt(m.req, p, i)
        /\ \A l \in 1..i : ingress'[p][l] = ingress[p][l]
    BY <2>1, FirstAtStays DEF LogInv
  <2>3. j \in 1..i /\ j \in 1..Len(ingress[p]) /\ ingress[p] \in Seq(Record)
    BY <2>2 DEF TypeInv, TypeOK
  <2>4. PICK rec \in Record : rec = ingress[p][j]
    BY <2>3
  <2>5. Resolved(rec)
    BY <2>1, <2>2, <2>4 DEF LogInv, BeforeResolved
  <2>6. ingress'[p][j] = rec
    BY <2>2, <2>3, <2>4
  <2>7. Resolved(rec)'
    BY <2>5, ResolvedLasts
  <2> QED
    BY <2>1, <2>6, <2>7
<1> QED
  BY <1>1, <1>2, <1>3, <1>4 DEF LogInv

\* The log changes only by an append.
LEMMA LogGrows ==
  ASSUME TypeInv, [Next]_vars
  PROVE  \/ \E r \in Requests, n \in Nat : AppendIngress(r, n)
         \/ UNCHANGED ingress
<1>1. ASSUME NEW r \in Requests, Publish(r) PROVE \E q \in Requests, n \in Nat : AppendIngress(q, n)
  BY <1>1 DEF Publish
<1>2. ASSUME NEW d \in dlq, ReplayDlq(d) PROVE \E q \in Requests, n \in Nat : AppendIngress(q, n)
  <2>1. d.req \in Requests /\ d.replay_count + 1 \in Nat
    BY DEF TypeInv, TypeOK, Record
  <2> QED
    BY <1>2, <2>1 DEF ReplayDlq
<1>3. ASSUME NEW w \in Workers, WorkerStep(w) \/ Failure(w) PROVE UNCHANGED ingress
  BY <1>3 DEF WorkerStep, Handle, Failure, Poll, Assign, Take, BeginTransaction, CommitTransaction,
       InsertRefused, MarkInlineRetry, PublishDlq, StatusFailedDlq, StatusFailed, CommitOffset,
       CommitOffsetFails, Crash, CommitReplyLost, TransientError, HandlerRaises, PublishDlqFails,
       kafkaVars
<1>4. ASSUME NEW p \in Partitions, Fence(p) PROVE UNCHANGED ingress
  BY <1>4 DEF Fence
<1> QED
  BY <1>1, <1>2, <1>3, <1>4 DEF Next, vars, kafkaVars

\* What was true of the events stored before a step that leaves the log alone.
LEMMA LogUntouched ==
  ASSUME TypeInv, [Next]_vars, LogInv, UNCHANGED ingress
  PROVE  /\ InPlace'
         /\ \A m \in messages :
              /\ \E i \in 1..Len(ingress[HomeOf(m.req)]) : ingress[HomeOf(m.req)][i].req = m.req
              /\ \A i \in 1..Len(ingress[HomeOf(m.req)]) :
                   FirstAt(m.req, HomeOf(m.req), i) =>
                     \A j \in 1..(i - 1) : Resolved(ingress[HomeOf(m.req)][j])'
<1>1. InPlace'
  BY DEF LogInv, InPlace
<1>2. ASSUME NEW m \in messages, NEW i \in 1..Len(ingress[HomeOf(m.req)]),
             FirstAt(m.req, HomeOf(m.req), i), NEW j \in 1..(i - 1)
      PROVE  Resolved(ingress[HomeOf(m.req)][j])'
  <2>1. PICK p \in Partitions : p = HomeOf(m.req)
    BY ConstantsAssumption DEF HomeOf, TypeInv, TypeOK, Message
  <2>2. ingress[p] \in Seq(Record) /\ j \in 1..Len(ingress[p])
    BY <1>2, <2>1 DEF TypeInv, TypeOK
  <2>3. PICK rec \in Record : rec = ingress[p][j]
    BY <2>2
  <2>4. Resolved(rec)
    BY <1>2, <2>1, <2>3 DEF LogInv, BeforeResolved
  <2>5. Resolved(rec)'
    BY <2>4, ResolvedLasts
  <2> QED
    BY <2>1, <2>3, <2>5
<1> QED
  BY <1>1, <1>2 DEF LogInv, StoredInLog

\* A step that stores nothing.
LEMMA LogKept ==
  ASSUME TypeInv, [Next]_vars, LogInv, UNCHANGED <<ingress, messages>>, AuthorizedInsert'
  PROVE  LogInv'
<1>1. StoredInLog'
  BY LogUntouched DEF LogInv, StoredInLog, HomeOf
<1>2. BeforeResolved'
  <2> SUFFICES ASSUME NEW m \in messages, NEW i \in 1..Len(ingress[HomeOf(m.req)]),
                      FirstAt(m.req, HomeOf(m.req), i), NEW j \in 1..(i - 1)
               PROVE  Resolved(ingress[HomeOf(m.req)][j])'
    BY ZenonT(40) DEF BeforeResolved, HomeOf, FirstAt
  <2> QED
    BY LogUntouched
<1> QED
  BY <1>1, <1>2, LogUntouched DEF LogInv

\* An event is stored from the record at the position of its worker, and what
\* is before that position is resolved.
LEMMA InsertBehind ==
  ASSUME TypeInv, NoLossInv, LogInv, NEW w \in Workers, pc[w] = "insert"
  PROVE  /\ HomeOf(Req(w)) \in Partitions
         /\ \E i \in 1..Len(ingress[HomeOf(Req(w))]) : ingress[HomeOf(Req(w))][i].req = Req(w)
         /\ \A i \in 1..Len(ingress[HomeOf(Req(w))]) :
              FirstAt(Req(w), HomeOf(Req(w)), i) =>
                \A j \in 1..(i - 1) : /\ ingress[HomeOf(Req(w))][j] \in Record
                                      /\ Resolved(ingress[HomeOf(Req(w))][j])
<1>1. /\ task[w].part \in Partitions /\ task[w].offset \in Nat /\ Req(w) \in Requests
      /\ task[w].offset = cursor[w][task[w].part] /\ task[w].offset < Len(ingress[task[w].part])
  BY BusyRecord DEF NoLossInv, Sound, TypeInv, BusyHasTask
<1>2. PICK p \in Partitions : p = task[w].part
  BY <1>1
<1>3. PICK n \in Nat : n = task[w].offset
  BY <1>1
<1>4. PICK r \in Requests : r = Req(w)
  BY <1>1
<1>5. ingress[p] \in Seq(Record) /\ Len(ingress[p]) \in Nat
  BY DEF TypeInv, TypeOK
<1>6. n + 1 \in 1..Len(ingress[p]) /\ ingress[p][n + 1].req = r /\ n = cursor[w][p]
  BY <1>1, <1>2, <1>3, <1>4, <1>5 DEF Req, Rec
<1>7. HomeOf(r) = p
  BY <1>6 DEF LogInv, InPlace, HomeOf
<1>8. ASSUME NEW i \in 1..Len(ingress[p]), FirstAt(r, p, i), NEW j \in 1..(i - 1)
      PROVE  ingress[p][j] \in Record /\ Resolved(ingress[p][j])
  <2>1. i <= n + 1
    BY <1>6, <1>8 DEF FirstAt
  <2>2. j \in 1..Len(ingress[p]) /\ j <= n
    BY <1>5, <1>8, <2>1
  <2> QED
    BY <1>5, <1>6, <2>2 DEF NoLossInv, CursorResolved
<1> QED
  BY <1>4, <1>6, <1>7, <1>8

\* A transaction that takes effect.
LEMMA LogCommit ==
  ASSUME TypeInv, [Next]_vars, NoLossInv, LogInv, NEW w \in Workers, Commits(w)
  PROVE  LogInv'
<1>1. /\ UNCHANGED <<ingress, task>> /\ pc'[w] \notin InTransaction
      /\ \A v \in Workers \ {w} : pc'[v] = pc[v]
      /\ \A v \in Workers : Req(v)' = Req(v)
  BY DEF Commits, Req, Rec
<1>2. AuthorizedInsert'
  BY <1>1 DEF LogInv, AuthorizedInsert, InTransaction
<1>3. CASE messages' = messages
  BY <1>1, <1>2, <1>3, LogKept
<1>4. ASSUME pc[w] = "insert", NEW x \in Message, x.req = Req(w), messages' = messages \cup {x}
      PROVE  LogInv'
  <2>1. PICK p \in Partitions : p = HomeOf(x.req)
    BY <1>4, InsertBehind
  <2>2. /\ \E i \in 1..Len(ingress[p]) : ingress[p][i].req = x.req
        /\ \A i \in 1..Len(ingress[p]) :
             FirstAt(x.req, p, i) => \A j \in 1..(i - 1) : /\ ingress[p][j] \in Record
                                                            /\ Resolved(ingress[p][j])
    BY <1>4, <2>1, InsertBehind
  <2>3. ASSUME NEW i \in 1..Len(ingress[p]), FirstAt(x.req, p, i), NEW j \in 1..(i - 1)
        PROVE  Resolved(ingress[p][j])'
    <3>1. PICK rec \in Record : rec = ingress[p][j]
      BY <2>2, <2>3
    <3>2. Resolved(rec)'
      BY <2>2, <2>3, <3>1, ResolvedLasts
    <3> QED
      BY <1>1, <3>1, <3>2
  <2>4. StoredInLog'
    BY <1>1, <1>4, <2>1, <2>2, LogUntouched DEF StoredInLog, HomeOf
  <2>5. BeforeResolved'
    <3> SUFFICES ASSUME NEW m \in messages', NEW i \in 1..Len(ingress[HomeOf(m.req)]),
                        FirstAt(m.req, HomeOf(m.req), i), NEW j \in 1..(i - 1)
                 PROVE  Resolved(ingress[HomeOf(m.req)][j])'
      BY <1>1 DEF BeforeResolved, HomeOf, FirstAt
    <3>1. CASE m = x
      BY <2>1, <2>3, <3>1
    <3>2. CASE m \in messages
      BY <1>1, <3>2, LogUntouched
    <3> QED
      BY <1>4, <3>1, <3>2
  <2> QED
    BY <1>1, <1>2, <2>4, <2>5, LogUntouched DEF LogInv
<1>5. InsertPossible(Req(w)) => NewMessage(w) \in Message /\ NewMessage(w).req = Req(w)
  BY CommitShape DEF NewMessage, Message
<1> QED
  BY <1>3, <1>4, <1>5, CommitShape

\* Every step keeps the log and the stored events in step.
LEMMA LogStep ==
  ASSUME TypeInv, [Next]_vars, NoLossInv, LogInv
  PROVE  LogInv'
<1>1. ASSUME NEW r \in Requests, NEW n \in Nat, AppendIngress(r, n) PROVE LogInv'
  BY <1>1, LogAppend
<1>2. CASE UNCHANGED ingress
  <2>1. CASE Quiet
    <3>1. AuthorizedInsert'
      BY <2>1 DEF Quiet, LogInv, AuthorizedInsert, InTransaction
    <3> QED
      BY <1>2, <2>1, <3>1, LogKept DEF Quiet
  <2>2. ASSUME NEW w \in Workers, BeginTransaction(w) PROVE LogInv'
    <3>1. UNCHANGED <<ingress, task, messages>> /\ \A v \in Workers : Req(v)' = Req(v)
      BY <2>2 DEF BeginTransaction, kafkaVars, dbVars, Req, Rec
    <3>2. PICK phase \in Phases :
            Goto(w, phase) /\ (phase = "insert" => Kind[Req(w)] # "unauthorized")
      BY <2>2 DEF BeginTransaction, InTransaction, Phases
    <3>3. pc'[w] = phase /\ \A v \in Workers \ {w} : pc'[v] = pc[v]
      BY <3>2, GotoType DEF TypeInv
    <3>4. AuthorizedInsert'
      BY <3>1, <3>2, <3>3 DEF LogInv, AuthorizedInsert
    <3> QED
      BY <3>1, <3>4, LogKept
  <2>3. ASSUME NEW w \in Workers, Commits(w) PROVE LogInv'
    BY <2>3, LogCommit
  <2> QED
    BY <2>1, <2>2, <2>3, StepShape
<1> QED
  BY <1>1, <1>2, LogGrows

\* Nothing is stored in the initial state.
LEMMA LogInit == Init => LogInv
<1> SUFFICES ASSUME Init PROVE LogInv
  OBVIOUS
<1>1. \A p \in Partitions : Len(ingress[p]) = 0
  BY DEF Init
<1>2. InPlace
  BY <1>1 DEF InPlace
<1>3. StoredInLog /\ AuthorizedInsert /\ BeforeResolved
  BY DEF Init, StoredInLog, AuthorizedInsert, BeforeResolved
<1> QED
  BY <1>2, <1>3 DEF LogInv

\* A resolved record of a request that can still be inserted is in the DLQ, when
\* the request has no number of its own.
LEMMA ResolvedElsewhere ==
  ASSUME DedupInv, LogInv, NEW w \in Workers, pc[w] = "insert", InsertPossible(Req(w)),
         RoomSeq[Req(w)] = 0, NEW rec \in Record, rec.req = Req(w), Resolved(rec)
  PROVE  rec \in dlq
<1>1. ~Persisted(Req(w)) /\ Kind[Req(w)] # "unauthorized"
  BY DEF InsertPossible, LogInv, AuthorizedInsert
<1>2. KeyOf[Req(w)] # None => ~Answered(KeyOf[Req(w)])
  BY DEF DedupInv, ReadsHold, Answered
<1> QED
  BY <1>1, <1>2 DEF Resolved, Rejectable

\* The order of what is stored is not touched by a step that stores nothing.
LEMMA OrderKept ==
  ASSUME TypeInv, [Next]_vars, LogInv, StreamOrder, UNCHANGED messages
  PROVE  StreamOrder'
<1> SUFFICES ASSUME NEW m \in messages, NEW n \in messages,
                    Stream(m) = Stream(n), m.seq < n.seq,
                    RoomSeq[m.req] = 0, RoomSeq[n.req] = 0,
                    \A d \in dlq' : d.req \notin {m.req, n.req},
                    NEW i \in 1..Len(ingress'[HomeOf(m.req)]),
                    NEW j \in 1..Len(ingress'[HomeOf(m.req)]),
                    FirstAt(m.req, HomeOf(m.req), i)', FirstAt(n.req, HomeOf(m.req), j)'
             PROVE  i < j
  BY DEF StreamOrder, Stream, HomeOf
<1>1. HomeOf(n.req) = HomeOf(m.req)
  BY DEF HomeOf, Stream
<1>2. \A d \in dlq : d.req \notin {m.req, n.req}
  BY OutcomesLast
<1>3. /\ i \in 1..Len(ingress[HomeOf(m.req)]) /\ FirstAt(m.req, HomeOf(m.req), i)
      /\ j \in 1..Len(ingress[HomeOf(m.req)]) /\ FirstAt(n.req, HomeOf(m.req), j)
  <2>1. CASE UNCHANGED ingress
    BY <2>1 DEF FirstAt, HomeOf
  <2>2. ASSUME NEW r \in Requests, NEW c \in Nat, AppendIngress(r, c)
        PROVE  /\ i \in 1..Len(ingress[HomeOf(m.req)]) /\ FirstAt(m.req, HomeOf(m.req), i)
               /\ j \in 1..Len(ingress[HomeOf(m.req)]) /\ FirstAt(n.req, HomeOf(m.req), j)
    <3>1. i \in 1..Len(ingress[HomeOf(m.req)]) /\ FirstAt(m.req, HomeOf(m.req), i)
      BY <2>2, FirstAtStays DEF LogInv
    <3>2. j \in 1..Len(ingress'[HomeOf(n.req)]) /\ FirstAt(n.req, HomeOf(n.req), j)'
      BY <1>1 DEF HomeOf
    <3>3. j \in 1..Len(ingress[HomeOf(n.req)]) /\ FirstAt(n.req, HomeOf(n.req), j)
      BY <2>2, <3>2, FirstAtStays DEF LogInv
    <3> QED
      BY <1>1, <3>1, <3>3
  <2> QED
    BY <2>1, <2>2, LogGrows
<1> QED
  BY <1>2, <1>3 DEF StreamOrder, Stream, HomeOf

\* An event that is stored comes after those of its stream in the log too: if
\* its first record were before theirs, it would have been resolved then.
LEMMA OrderInsert ==
  ASSUME TypeInv, [Next]_vars, DedupInv, NumbersInv, LogInv, StreamOrder,
         NEW w \in Workers, pc[w] = "insert", InsertPossible(Req(w)), UNCHANGED <<ingress, dlq>>,
         messages' = messages \cup {NewMessage(w)}
  PROVE  StreamOrder'
<1>0. /\ pc[w] # "idle" /\ Req(w) \in Requests /\ StreamOf[Req(w)] \in Streams
      /\ last_seq \in [Streams -> Nat]
  BY BusyRecord, ConstantsAssumption DEF TypeInv, TypeOK
<1>1. PICK x \in Message : x = NewMessage(w)
  <2>1. NextSeq(Req(w)) \in Nat \ {0}
    BY <1>0 DEF NextSeq
  <2> QED
    BY <1>0, <2>1 DEF NewMessage, Message
<1>2. x.req = Req(w) /\ x.seq = last_seq[Stream(x)] + 1
  BY <1>1 DEF NewMessage, NextSeq, Stream
<1>3. \A m \in messages : Stream(m) = Stream(x) => m.seq < x.seq /\ m.req # x.req
  <2>1. \A m \in messages : m.seq \in Nat /\ Stream(m) \in Streams
    BY ConstantsAssumption DEF TypeInv, TypeOK, Message, Stream
  <2> QED
    BY <1>0, <1>2, <2>1 DEF NumbersInv, SeqsBelow, InsertPossible, Persisted
<1> SUFFICES ASSUME NEW m \in messages', NEW n \in messages',
                    Stream(m) = Stream(n), m.seq < n.seq,
                    RoomSeq[m.req] = 0, RoomSeq[n.req] = 0,
                    \A d \in dlq' : d.req \notin {m.req, n.req},
                    NEW i \in 1..Len(ingress'[HomeOf(m.req)]),
                    NEW j \in 1..Len(ingress'[HomeOf(m.req)]),
                    FirstAt(m.req, HomeOf(m.req), i)', FirstAt(n.req, HomeOf(m.req), j)'
             PROVE  i < j
  BY DEF StreamOrder, Stream, HomeOf
<1>4. /\ \A d \in dlq : d.req \notin {m.req, n.req}
      /\ i \in 1..Len(ingress[HomeOf(m.req)]) /\ FirstAt(m.req, HomeOf(m.req), i)
      /\ j \in 1..Len(ingress[HomeOf(m.req)]) /\ FirstAt(n.req, HomeOf(m.req), j)
  BY DEF FirstAt, HomeOf
<1>5. m \in Message /\ n \in Message /\ m.seq \in Nat /\ n.seq \in Nat
  BY <1>1 DEF TypeInv, TypeOK, Message
<1>6. CASE m \in messages /\ n \in messages
  BY <1>4, <1>6 DEF StreamOrder, Stream, HomeOf
<1>7. CASE m \in messages /\ n = x
  <2>1. PICK p \in Partitions : p = HomeOf(m.req)
    BY <1>5, ConstantsAssumption DEF HomeOf, Message
  <2>2. i \in Nat /\ j \in Nat /\ i \in 1..Len(ingress[p]) /\ ingress[p] \in Seq(Record)
    BY <1>4, <2>1 DEF TypeInv, TypeOK
  <2>3. i # j
    <3>1. m.req # x.req
      BY <1>3, <1>7
    <3> QED
      BY <1>4, <1>7, <3>1 DEF FirstAt
  <2>4. CASE j < i
    <3>1. j \in 1..(i - 1)
      BY <2>1, <2>2, <2>4
    <3>2. Resolved(ingress[p][j]) /\ ingress[p][j] \in Record
      BY <1>4, <1>7, <2>1, <2>2, <3>1 DEF LogInv, BeforeResolved, TypeInv, TypeOK
    <3>3. PICK rec \in Record : rec = ingress[p][j]
      BY <3>2
    <3>4. rec.req = Req(w) /\ Resolved(rec) /\ RoomSeq[Req(w)] = 0
      BY <1>2, <1>4, <1>7, <2>1, <3>2, <3>3 DEF FirstAt
    <3>5. rec \in dlq
      BY <3>4, ResolvedElsewhere
    <3> QED
      BY <1>2, <1>4, <1>7, <3>4, <3>5
  <2> QED
    BY <2>2, <2>3, <2>4
<1>8. CASE m = x
  <2>1. n = x \/ n.seq < x.seq
    BY <1>1, <1>3, <1>8
  <2> QED
    BY <1>5, <1>8, <2>1
<1> QED
  BY <1>1, <1>6, <1>7, <1>8

\* Every step keeps the order.
LEMMA OrderStep ==
  ASSUME TypeInv, [Next]_vars, DedupInv, NumbersInv, LogInv, StreamOrder
  PROVE  StreamOrder'
<1>1. CASE UNCHANGED messages
  BY <1>1, OrderKept
<1>2. ASSUME NEW w \in Workers, Commits(w), messages' # messages PROVE StreamOrder'
  <2>1. /\ pc[w] = "insert" /\ InsertPossible(Req(w))
        /\ messages' = messages \cup {NewMessage(w)} /\ ingress' = ingress
    BY <1>2, CommitShape DEF Commits
  <2>2. CASE dlq' = dlq
    BY <2>1, <2>2, OrderInsert
  <2>3. dlq' = dlq
    <3>1. pc[w] = "insert" /\ pc'[w] # "insert" /\ messages' # messages
      BY <1>2, <2>1 DEF Commits, InTransaction
    <3> QED
      BY ZenonT(40), <3>1 DEF Next, WorkerStep, Handle, Failure, Publish, ReplayDlq, AppendIngress, Fence, Assign,
         Poll, Crash, Take, BeginTransaction, CommitTransaction, CommitReplyLost, InsertRefused,
         TransientError, HandlerRaises, MarkInlineRetry, PublishDlq, PublishDlqFails,
         StatusFailedDlq, StatusFailed, CommitOffset, CommitOffsetFails, vars, kafkaVars, dbVars
  <2> QED
    BY <2>2, <2>3
<1>3. Quiet \/ (\E w \in Workers : BeginTransaction(w)) => UNCHANGED messages
  BY DEF Quiet, BeginTransaction, dbVars
<1> QED
  BY <1>1, <1>2, <1>3, StepShape

\* Inline retry keeps later events of a stream behind the failing one: events
\* that never went through the DLQ are numbered in the order in which they were
\* accepted, whichever workers stored them, after whatever crashes, fencing and
\* redeliveries.
THEOREM StreamsKeepOrder == Spec => []StreamOrder
<1> DEFINE OrderInv == NoLossInv /\ DedupInv /\ NumbersInv /\ LogInv /\ StreamOrder
<1>1. Init => OrderInv
  <2>1. Init => NumbersInv /\ StreamOrder
    BY DEF Init, NumbersInv, SeqsDiffer, SeqsBelow, StreamOrder
  <2> QED
    BY <2>1, NoLossInit, DedupInit, LogInit
<1>2. TypeInv /\ OrderInv /\ [Next]_vars => OrderInv'
  <2>1. TypeInv /\ DedupInv /\ [Next]_vars => DedupInv'
    BY StepShape, DedupQuiet, DedupBegin, DedupCommit
  <2> QED
    BY <2>1, NoLossStep, NumbersStep, LogStep, OrderStep
<1> QED
  BY <1>1, <1>2, TypeInit, TypeStep, PTL DEF Spec
-----------------------------------------------------------------------------
(* The workers implement EventStore.                                       *)

\* The request of the event of S with a number of a stream.
EventIn(S, s, n) == (CHOOSE m \in S : Stream(m) = s /\ m.seq = n).req

\* The events of S, in the order of their numbers.
LogOf(S, last) == [s \in Streams |-> [n \in 1..last[s] |-> EventIn(S, s, n)]]

\* No number of a stream twice, and none missing.
Numbered(S, last) ==
  /\ \A m, n \in S : Stream(m) = Stream(n) /\ m.seq = n.seq => m = n
  /\ \A m \in S : m.seq <= last[Stream(m)]
  /\ \A s \in Streams : \A n \in 1..last[s] : \E m \in S : Stream(m) = s /\ m.seq = n

\* The number of an event finds it.
LEMMA EventIsFound ==
  ASSUME NEW S, NEW last, Numbered(S, last), NEW m \in S, NEW s, NEW n, Stream(m) = s, m.seq = n
  PROVE  EventIn(S, s, n) = m.req
<1>1. \A x \in S : Stream(x) = s /\ x.seq = n => x = m
  BY DEF Numbered
<1>2. (CHOOSE x \in S : Stream(x) = s /\ x.seq = n) = m
  BY <1>1
<1> QED
  BY <1>2 DEF EventIn

\* The log of a stream is a sequence of requests.
LEMMA LogIsSequence ==
  ASSUME NEW S \in SUBSET Message, NEW last \in [Streams -> Nat], Numbered(S, last), NEW s \in Streams
  PROVE  LogOf(S, last)[s] \in Seq(Requests) /\ Len(LogOf(S, last)[s]) = last[s]
<1>1. ASSUME NEW n \in 1..last[s] PROVE EventIn(S, s, n) \in Requests
  <2>1. PICK m \in S : Stream(m) = s /\ m.seq = n
    BY DEF Numbered
  <2>2. EventIn(S, s, n) = m.req
    BY <2>1, EventIsFound
  <2> QED
    BY <2>2 DEF Message
<1>2. LogOf(S, last)[s] = [n \in 1..last[s] |-> EventIn(S, s, n)]
  BY DEF LogOf
<1>3. LogOf(S, last)[s] \in [1..last[s] -> Requests]
  BY <1>1, <1>2
<1> QED
  BY <1>3

\* From S and last to T and next, stream s gets the event x with its next number.
OneMore(S, last, T, next, s, x) ==
  /\ S \in SUBSET Message /\ last \in [Streams -> Nat] /\ Numbered(S, last)
  /\ T \in SUBSET Message /\ next \in [Streams -> Nat] /\ Numbered(T, next)
  /\ s \in Streams /\ x \in Message /\ Stream(x) = s /\ x.seq = last[s] + 1
  /\ S \subseteq T /\ x \in T
  /\ next[s] = last[s] + 1 /\ \A z \in Streams \ {s} : next[z] = last[z]

\* That event is the next entry of its log.
LEMMA LogAppends ==
  ASSUME NEW S, NEW last, NEW T, NEW next, NEW s, NEW x, OneMore(S, last, T, next, s, x)
  PROVE  LogOf(T, next) = [LogOf(S, last) EXCEPT ![s] = Append(LogOf(S, last)[s], x.req)]
<1> USE DEF OneMore
<1>1. ASSUME NEW z \in Streams, NEW n \in 1..last[z]
      PROVE  EventIn(T, z, n) = EventIn(S, z, n)
  <2>1. PICK m \in S : Stream(m) = z /\ m.seq = n
    BY DEF Numbered
  <2>2. EventIn(S, z, n) = m.req
    BY <2>1, EventIsFound
  <2>3. EventIn(T, z, n) = m.req
    BY <2>1, EventIsFound
  <2> QED
    BY <2>2, <2>3
<1>2. EventIn(T, s, last[s] + 1) = x.req
  BY EventIsFound
<1>3. /\ \A z \in Streams : \A n \in 1..last[z] : LogOf(S, last)[z][n] = EventIn(S, z, n)
      /\ \A z \in Streams : \A n \in 1..next[z] : LogOf(T, next)[z][n] = EventIn(T, z, n)
  BY DEF LogOf
<1>4. ASSUME NEW z \in Streams, z # s PROVE LogOf(T, next)[z] = LogOf(S, last)[z]
  <2>1. /\ LogOf(S, last)[z] \in Seq(Requests) /\ Len(LogOf(S, last)[z]) = last[z]
        /\ LogOf(T, next)[z] \in Seq(Requests) /\ Len(LogOf(T, next)[z]) = last[z]
    BY <1>4, LogIsSequence
  <2>2. \A n \in 1..last[z] : LogOf(T, next)[z][n] = LogOf(S, last)[z][n]
    BY <1>1, <1>3, <1>4
  <2> QED
    BY <2>1, <2>2, SeqEqual
<1>5. LogOf(T, next)[s] = Append(LogOf(S, last)[s], x.req)
  <2> DEFINE old == LogOf(S, last)[s]
             new == LogOf(T, next)[s]
  <2>1. old \in Seq(Requests) /\ Len(old) = last[s] /\ x.req \in Requests /\ last[s] \in Nat
    BY LogIsSequence DEF Message
  <2>2. new \in Seq(Requests) /\ Len(new) = last[s] + 1
    BY LogIsSequence
  <2>3. \A n \in 1..last[s] : new[n] = old[n]
    BY <1>1, <1>3, <2>1
  <2>4. new[last[s] + 1] = x.req
    BY <1>2, <1>3, <2>1
  <2> HIDE DEF old, new
  <2>5. /\ Append(old, x.req) \in Seq(Requests) /\ Len(Append(old, x.req)) = last[s] + 1
        /\ \A n \in 1..(last[s] + 1) : Append(old, x.req)[n] = new[n]
    BY <2>1, <2>3, <2>4
  <2>6. new = Append(old, x.req)
    BY <2>2, <2>5, SeqEqual
  <2> QED
    BY <2>6 DEF old, new
<1> QED
  BY <1>4, <1>5 DEF LogOf

\* Requests whose job is in the log.
Submitted ==
  {r \in Requests : \E p \in Partitions : \E i \in 1..Len(ingress[p]) : ingress[p][i].req = r}

StoredLog == LogOf(messages, last_seq)

AnsweredKeys == {k \in Keys : Answered(k)}

\* What EventStore speaks of, in the terms of the workers.
LEMMA StoreStutter ==
  UNCHANGED <<Submitted, StoredLog, AnsweredKeys, outbox>> => UNCHANGED Store!storeVars
BY DEF Store!storeVars, Submitted, StoredLog, LogOf, EventIn, AnsweredKeys

LEMMA StoreSubmits ==
  ASSUME NEW r, Submitted' = Submitted \cup {r}, UNCHANGED <<StoredLog, AnsweredKeys, outbox>>
  PROVE  Store!Submit(r)
BY DEF Store!Submit, Submitted, StoredLog, LogOf, EventIn, AnsweredKeys

LEMMA StoreStores ==
  ASSUME NEW r, r \in Submitted,
         \A n \in 1..Len(StoredLog[StreamOf[r]]) : StoredLog[StreamOf[r]][n] # r,
         KeyOf[r] # None => KeyOf[r] \notin AnsweredKeys,
         StoredLog' = [StoredLog EXCEPT ![StreamOf[r]] = Append(StoredLog[StreamOf[r]], r)],
         AnsweredKeys' = IF KeyOf[r] = None THEN AnsweredKeys ELSE AnsweredKeys \cup {KeyOf[r]},
         outbox' = outbox \cup {r}, UNCHANGED Submitted
  PROVE  Store!Store(r)
BY DEF Store!Store, Store!Stored, Submitted, StoredLog, LogOf, EventIn, AnsweredKeys

\* Initially nothing is submitted, and only old keys have an answer.
LEMMA StoreInit == Init => Store!Init
<1> SUFFICES ASSUME Init PROVE Store!Init
  OBVIOUS
<1>1. Submitted = {}
  BY DEF Init, Submitted
<1>2. StoredLog = [s \in Streams |-> << >>]
  <2>1. \A s \in Streams : last_seq[s] = 0
    BY DEF Init
  <2>2. \A s \in Streams : [n \in 1..last_seq[s] |-> EventIn(messages, s, n)] = << >>
    BY <2>1
  <2> QED
    BY <2>2 DEF StoredLog, LogOf
<1>3. AnsweredKeys = LegacyKeys
  BY ConstantsAssumption DEF Init, AnsweredKeys, Answered
<1>4. outbox = {}
  BY DEF Init
<1> QED
  BY <1>1, <1>2, <1>3, <1>4 DEF Store!Init, Submitted, StoredLog, LogOf, EventIn, AnsweredKeys

\* An append submits its request, for the first time or again.
LEMMA AppendSubmits ==
  ASSUME TypeInv, NEW r \in Requests, NEW n \in Nat, AppendIngress(r, n)
  PROVE  Submitted' = Submitted \cup {r}
<1> DEFINE q == PartitionOf[StreamOf[r]]
           x == [req |-> r, replay_count |-> n]
<1>1. q \in Partitions /\ x.req = r /\ x \in Record /\ ingress' = [ingress EXCEPT ![q] = Append(@, x)]
  BY ConstantsAssumption DEF AppendIngress, Record
<1> HIDE DEF x, q
<1>2. ingress \in [Partitions -> Seq(Record)]
  BY DEF TypeInv, TypeOK
<1>3. /\ Len(ingress'[q]) = Len(ingress[q]) + 1 /\ Len(ingress[q]) \in Nat
      /\ ingress'[q][Len(ingress[q]) + 1] = x
      /\ \A i \in 1..Len(ingress[q]) : ingress'[q][i] = ingress[q][i]
      /\ \A p \in Partitions \ {q} : ingress'[p] = ingress[p]
  BY <1>1, <1>2
<1>4. ASSUME NEW y \in Requests, NEW p \in Partitions, NEW i \in 1..Len(ingress'[p]), ingress'[p][i].req = y
      PROVE  y \in Submitted \cup {r}
  <2>1. CASE p = q /\ i = Len(ingress[q]) + 1
    BY <1>1, <1>3, <1>4, <2>1
  <2>2. CASE ~(p = q /\ i = Len(ingress[q]) + 1)
    <3>1. i \in 1..Len(ingress[p]) /\ ingress[p][i].req = y
      BY <1>3, <1>4, <2>2
    <3> QED
      BY <3>1 DEF Submitted
  <2> QED
    BY <2>1, <2>2
<1>5. ASSUME NEW y \in Submitted PROVE y \in Submitted'
  <2>1. PICK p \in Partitions : \E i \in 1..Len(ingress[p]) : ingress[p][i].req = y
    BY DEF Submitted
  <2>2. PICK i \in 1..Len(ingress[p]) : ingress[p][i].req = y
    BY <2>1
  <2>3. i \in 1..Len(ingress'[p]) /\ ingress'[p][i].req = y
    <3>1. CASE p = q
      <4>1. i \in 1..Len(ingress[q]) /\ ingress[q][i].req = y
        BY <2>2, <3>1
      <4> QED
        BY <1>3, <3>1, <4>1
    <3>2. CASE p # q
      BY <1>3, <2>2, <3>2
    <3> QED
      BY <3>1, <3>2
  <2> QED
    BY <2>3 DEF Submitted
<1>6. r \in Submitted'
  <2>1. Len(ingress[q]) + 1 \in 1..Len(ingress'[q]) /\ ingress'[q][Len(ingress[q]) + 1].req = r
    BY <1>1, <1>3
  <2> QED
    BY <1>1, <2>1 DEF Submitted
<1>7. \A y \in Submitted' : y \in Submitted \cup {r}
  BY <1>4 DEF Submitted
<1> QED
  BY <1>5, <1>6, <1>7

\* What the step of a transaction shows of itself.
LEMMA CommitIsStore ==
  ASSUME TypeInv, [Next]_vars, PresentJobs, DedupInv, OutboxInv, NumbersInv, NoGap,
         NEW w \in Workers, Commits(w)
  PROVE  \/ UNCHANGED <<Submitted, StoredLog, AnsweredKeys, outbox>>
         \/ \E r \in Requests : Store!Store(r)
<1>0. /\ TransactionEffect(w) /\ pc[w] # "idle" /\ ingress' = ingress
      /\ Req(w) \in Requests /\ Req(w) # None /\ StreamOf[Req(w)] \in Streams
      /\ idempotency_keys \in [Keys -> Requests \cup {None}]
      /\ last_seq \in [Streams -> Nat] /\ messages \in SUBSET Message
  BY BusyRecord, ConstantsAssumption DEF Commits, TransactionEffect, InTransaction, TypeInv, TypeOK
<1>1. PICK r \in Requests : r = Req(w)
  BY <1>0
<1>2. UNCHANGED Submitted
  BY <1>0 DEF Submitted
<1>3. UNCHANGED <<messages, last_seq>> => UNCHANGED StoredLog
  BY DEF StoredLog
<1>4. CASE pc[w] = "cached"
  BY <1>0, <1>2, <1>3, <1>4 DEF TransactionEffect, AnsweredKeys, Answered
<1>5. CASE pc[w] = "adopt"
  <2>1. /\ idempotency_keys' = [idempotency_keys EXCEPT ![KeyOf[r]] = r]
        /\ UNCHANGED <<messages, last_seq, outbox>>
    BY <1>0, <1>1, <1>5 DEF TransactionEffect
  <2>2. KeyOf[r] \in LegacyKeys
    BY <1>1, <1>5 DEF DedupInv, ReadsHold
  <2>3. AnsweredKeys' = AnsweredKeys
    BY <1>0, <1>1, <2>1, <2>2 DEF AnsweredKeys, Answered
  <2> QED
    BY <1>2, <1>3, <2>1, <2>3
<1>6. CASE pc[w] = "existing"
  <2>1. outbox' = outbox \cup {r} /\ UNCHANGED <<messages, last_seq, idempotency_keys>>
    BY <1>0, <1>1, <1>6 DEF TransactionEffect, EnqueueNotification
  <2>2. r \in outbox
    BY <1>1, <1>6 DEF OutboxInv, OutboxMatchesMessages, ExistingIsStored, Persisted
  <2>3. AnsweredKeys' = AnsweredKeys
    BY <2>1 DEF AnsweredKeys, Answered
  <2> QED
    BY <1>2, <1>3, <2>1, <2>2, <2>3
<1>7. CASE pc[w] = "insert"
  <2>1. RoomSeq[r] = 0 /\ ~AlreadyAtSeq(r)
    BY DEF PresentJobs, AlreadyAtSeq
  <2>2. InsertPossible(r) /\ InsertMessage(r) /\ EnqueueNotification(r)
    BY <1>0, <1>1, <1>7, <2>1 DEF TransactionEffect
  <2> DEFINE s == StreamOf[r]
             x == [req |-> r, seq |-> last_seq[s] + 1]
  <2>3. /\ s \in Streams /\ x \in Message /\ Stream(x) = s /\ x.seq = last_seq[s] + 1 /\ x.req = r
        /\ messages' = messages \cup {x}
        /\ last_seq' = [last_seq EXCEPT ![s] = last_seq[s] + 1]
    BY <1>0, <1>1, <2>1, <2>2 DEF InsertMessage, SeqOf, NextSeq, Message, Stream
  <2> HIDE DEF x
  <2>4. Numbered(messages, last_seq)
    BY DEF NumbersInv, SeqsDiffer, SeqsBelow, NoGap, Numbered
  <2>5. Numbered(messages', last_seq')
    BY NumbersStep, NoGapStep DEF NumbersInv, SeqsDiffer, SeqsBelow, NoGap, Numbered
  <2>6. StoredLog' = [StoredLog EXCEPT ![s] = Append(StoredLog[s], r)]
    <3>1. LogOf(messages', last_seq') =
            [LogOf(messages, last_seq) EXCEPT ![s] = Append(LogOf(messages, last_seq)[s], x.req)]
      <4>1. /\ last_seq' \in [Streams -> Nat] /\ last_seq'[s] = last_seq[s] + 1
            /\ \A z \in Streams \ {s} : last_seq'[z] = last_seq[z]
        BY <1>0, <2>3
      <4>2. messages' \in SUBSET Message /\ messages \subseteq messages' /\ x \in messages'
        BY <1>0, <2>3
      <4>3. /\ s \in Streams /\ x \in Message /\ Stream(x) = s /\ x.seq = last_seq[s] + 1
            /\ messages \in SUBSET Message /\ last_seq \in [Streams -> Nat]
        BY <1>0, <2>3
      <4>4. OneMore(messages, last_seq, messages', last_seq', s, x)
        BY <2>4, <2>5, <4>1, <4>2, <4>3 DEF OneMore
      <4> QED
        BY <4>4, LogAppends
    <3> QED
      BY <2>3, <3>1 DEF StoredLog
  <2>7. r \in Submitted
    <3>1. /\ task[w].part \in Partitions /\ task[w].offset \in Nat
          /\ task[w].offset < Len(ingress[task[w].part])
      BY <1>0, BusyRecord DEF TypeInv, BusyHasTask
    <3>2. task[w].offset + 1 \in 1..Len(ingress[task[w].part])
      BY <3>1, LogLengths DEF TypeInv
    <3> QED
      BY <1>1, <3>1, <3>2 DEF Submitted, Req, Rec
  <2>8. ASSUME NEW n \in 1..Len(StoredLog[s]), StoredLog[s][n] = r PROVE FALSE
    <3>1. n \in 1..last_seq[s]
      BY <1>0, <2>3, <2>4, LogIsSequence DEF StoredLog
    <3>2. PICK m \in messages : Stream(m) = s /\ m.seq = n
      BY <2>3, <3>1 DEF NoGap
    <3>3. EventIn(messages, s, n) = m.req
      BY <2>4, <3>2, EventIsFound
    <3>4. StoredLog[s][n] = EventIn(messages, s, n)
      BY <2>3, <3>1 DEF StoredLog, LogOf
    <3>5. m.req = r
      BY <2>8, <3>3, <3>4
    <3> QED
      BY <2>2, <3>5 DEF InsertPossible, Persisted
  <2>9. KeyOf[r] # None => KeyOf[r] \notin AnsweredKeys
    BY <1>1, <1>7 DEF DedupInv, ReadsHold, AnsweredKeys, Answered
  <2>10. AnsweredKeys' = IF KeyOf[r] = None THEN AnsweredKeys ELSE AnsweredKeys \cup {KeyOf[r]}
    <3>1. KeyOf[r] # None => KeyOf[r] \in Keys
      BY ConstantsAssumption
    <3> QED
      BY <1>0, <1>1, <2>2, <3>1 DEF InsertMessage, AnsweredKeys, Answered
  <2>11. outbox' = outbox \cup {r}
    BY <2>2 DEF EnqueueNotification
  <2> QED
    BY <1>2, <2>6, <2>7, <2>8, <2>9, <2>10, <2>11, StoreStores
<1> QED
  BY <1>0, <1>4, <1>5, <1>6, <1>7 DEF TransactionEffect, InTransaction

\* Every step of the workers is a step of EventStore or changes nothing it
\* speaks of.
LEMMA StoreStep ==
  ASSUME TypeInv, [Next]_vars, PresentJobs, DedupInv, OutboxInv, NumbersInv, NoGap
  PROVE  [Store!Next]_(Store!storeVars)
<1>1. ASSUME NEW r \in Requests, NEW n \in Nat, AppendIngress(r, n) PROVE Store!Next
  <2>1. UNCHANGED <<messages, last_seq, idempotency_keys, outbox>>
    BY <1>1 DEF AppendIngress, dbVars
  <2>2. UNCHANGED <<StoredLog, AnsweredKeys, outbox>>
    BY <2>1 DEF StoredLog, AnsweredKeys, Answered
  <2>3. Store!Submit(r)
    BY <1>1, <2>2, AppendSubmits, StoreSubmits
  <2> QED
    BY <2>3 DEF Store!Next
<1>2. ASSUME UNCHANGED <<ingress, messages, last_seq, idempotency_keys, outbox>>
      PROVE  UNCHANGED Store!storeVars
  <2>1. UNCHANGED <<Submitted, StoredLog, AnsweredKeys, outbox>>
    BY <1>2 DEF Submitted, StoredLog, AnsweredKeys, Answered
  <2> QED
    BY <2>1, StoreStutter
<1>3. ASSUME NEW w \in Workers, Commits(w) PROVE Store!Next \/ UNCHANGED Store!storeVars
  <2>1. CASE \E r \in Requests : Store!Store(r)
    BY <2>1 DEF Store!Next
  <2>2. CASE UNCHANGED <<Submitted, StoredLog, AnsweredKeys, outbox>>
    BY <2>2, StoreStutter
  <2> QED
    BY <1>3, <2>1, <2>2, CommitIsStore
<1>4. Quiet \/ (\E w \in Workers : BeginTransaction(w)) =>
        UNCHANGED <<messages, last_seq, idempotency_keys, outbox>>
  BY DEF Quiet, BeginTransaction, dbVars
<1> QED
  BY <1>1, <1>2, <1>3, <1>4, StepShape, LogGrows

\* The ingress workers keep the promise of EventStore: every stream is an
\* append-only log in which a request appears once, a key is answered by one
\* event, an event comes with the intent to notify; and no other step of
\* run_kafka_worker_loop can be seen in it.
THEOREM WorkersImplementEventStore == ASSUME PresentJobs PROVE Spec => ImplementsEventStore
<1> DEFINE StoreInv == DedupInv /\ OutboxInv /\ NumbersInv /\ NoGap
<1>1. Init => StoreInv
  <2>1. Init => OutboxInv
    BY DEF Init, OutboxInv, OutboxMatchesMessages, ExistingIsStored
  <2>2. Init => NumbersInv /\ NoGap
    BY DEF Init, NumbersInv, SeqsDiffer, SeqsBelow, NoGap
  <2> QED
    BY <2>1, <2>2, DedupInit
<1>2. TypeInv /\ StoreInv /\ [Next]_vars => StoreInv'
  <2>1. TypeInv /\ DedupInv /\ [Next]_vars => DedupInv'
    BY StepShape, DedupQuiet, DedupBegin, DedupCommit
  <2>2. TypeInv /\ OutboxInv /\ [Next]_vars => OutboxInv'
    BY StepShape, OutboxQuiet, OutboxBegin, OutboxCommit
  <2> QED
    BY <2>1, <2>2, NumbersStep, NoGapStep
<1>3. TypeInv /\ StoreInv /\ [Next]_vars => [Store!Next]_(Store!storeVars)
  BY StoreStep
<1> QED
  BY <1>1, <1>2, <1>3, StoreInit, TypeInit, TypeStep, PTL DEF Spec, ImplementsEventStore, Store!Spec
=============================================================================

--------------------------- MODULE DlqReplayProofs ---------------------------
(***************************************************************************)
(* Theorems about DlqReplay, for every number of replayers, calls,         *)
(* requests, generations and failures: a generation is appended once and   *)
(* once more per failure or expired lease at most, a claim marked          *)
(* published has its copy, and a replayer that works alone leaves no dead  *)
(* letter behind.                                                          *)
(***************************************************************************)
EXTENDS DlqReplay, FiniteSetTheorems, WellFoundedInduction, TLAPS

\* Where an actor has the record it replays in hand.
Working == {"status", "insert", "lock", "publish", "release", "mark"}

\* Only records that may be replayed are.
JobInHand ==
  \A a \in Actors : pc[a] \in Working => job[a] \in Record /\ Replayable(job[a])

\* The record of a busy replayer is the one at its position in the log.
PositionsInLog ==
  \A w \in Replayers :
    /\ position[w] <= Len(dlq) /\ fetched[w] <= Len(dlq)
    /\ pc[w] # "idle" => position[w] < Len(dlq) /\ job[w] = dlq[position[w] + 1]

\* A copy carries the generation after its own.
BelowLimit == \A k \in Keys : sent[k] # 0 => k[2] < MaxReplays

TypeInv == TypeOK /\ JobInHand /\ PositionsInLog /\ BelowLimit
-----------------------------------------------------------------------------
(* A set of positions that is not empty has a last one.                    *)

Below == {pair \in Nat \X Nat : pair[1] < pair[2]}

\* The order of the naturals descends to an end.
LEMMA BelowDescends == IsWellFoundedOn(Below, Nat)
BY NatLessThanWellFounded DEF OpToRel, Below

\* So a set of naturals has a least element.
LEMMA LeastExists ==
  ASSUME NEW S \in SUBSET Nat, S # {}
  PROVE  \E x \in S : \A y \in S : x <= y
<1>1. \E x \in S : \A y \in S : <<y, x>> \notin Below
  BY BelowDescends, WFMin, Zenon
<1>2. ASSUME NEW x \in Nat, NEW y \in Nat, <<y, x>> \notin Below
      PROVE  x <= y
  <2>1. ~(y < x)
    BY <1>2 DEF Below
  <2> QED
    BY <2>1
<1> QED
  BY <1>1, <1>2

\* And a set of positions of a log has a greatest.
LEMMA LastExists ==
  ASSUME NEW n \in Nat, NEW S \in SUBSET (1..n), S # {}
  PROVE  \E x \in S : \A y \in S : y <= x
<1> DEFINE Distances == {n - y : y \in S}
<1>1. Distances \in SUBSET Nat
  OBVIOUS
<1>2. Distances # {}
  OBVIOUS
<1> HIDE DEF Distances
<1>3. PICK least \in Distances : \A v \in Distances : least <= v
  BY <1>1, <1>2, LeastExists
<1> USE DEF Distances
<1>4. PICK x \in S : least = n - x
  OBVIOUS
<1>5. \A y \in S : n - x <= n - y
  BY <1>3, <1>4
<1> QED
  BY <1>5
-----------------------------------------------------------------------------
(* The record and the claim of an actor.                                   *)

\* The key of an actor that has a record in hand is a key.
LEMMA KeyOfWorking ==
  ASSUME TypeInv, NEW a \in Actors, pc[a] \in Working
  PROVE  /\ job[a] \in Record /\ job[a].req \in Requests /\ job[a].gen \in Generations
         /\ Key(a) \in Keys /\ Key(a)[2] < MaxReplays
         /\ sent[Key(a)] \in Nat
<1>1. job[a] \in Record /\ Replayable(job[a])
  BY DEF TypeInv, JobInHand
<1>2. job[a].req \in Requests /\ job[a].gen \in Generations
  BY <1>1 DEF Record
<1>3. Key(a) \in Keys /\ Key(a)[2] = job[a].gen
  BY <1>2 DEF Key, Keys
<1> QED
  BY <1>1, <1>2, <1>3 DEF Replayable, TypeInv, TypeOK

\* Goto moves one actor and leaves the others where they are.
LEMMA GotoType ==
  ASSUME TypeOK, NEW a \in Actors, NEW phase \in Phases, Goto(a, phase)
  PROVE  /\ pc' \in [Actors -> Phases]
         /\ pc'[a] = phase
         /\ \A b \in Actors \ {a} : pc'[b] = pc[b]
BY DEF TypeOK, Goto

\* Done and Raise are moves to a phase without work in hand.
LEMMA EndIsMove ==
  ASSUME NEW a \in Actors, Done(a) \/ Raise(a)
  PROVE  \E phase \in {"commit_offset", "rewind", "replied"} : Goto(a, phase)
BY DEF Done, Raise

\* Claims and copies keep their shape whatever an actor writes into them.
LEMMA ClaimType ==
  ASSUME TypeOK, NEW a \in Actors, NEW k \in Keys,
         \/ claims' = claims
         \/ claims' = [claims EXCEPT ![k] = None]
         \/ claims' = [claims EXCEPT ![k] =
                         [state |-> "claimed", by |-> a, expired |-> FALSE]]
         \/ Claimed(k) /\ claims' = [claims EXCEPT ![k].state = "published"]
         \/ Claimed(k) /\ claims' = [claims EXCEPT ![k].expired = TRUE]
  PROVE  /\ claims' \in [Keys -> Claim \cup {None}]
         /\ \A l \in Keys \ {k} : claims'[l] = claims[l]
<1>1. claims \in [Keys -> Claim \cup {None}]
  BY DEF TypeOK
<1>2. Claimed(k) => claims[k] \in Claim
  BY <1>1 DEF Claimed
<1>3. [state |-> "claimed", by |-> a, expired |-> FALSE] \in Claim
  BY DEF Claim
<1>4. ASSUME Claimed(k)
      PROVE  /\ [claims[k] EXCEPT !.state = "published"] \in Claim
             /\ [claims[k] EXCEPT !.expired = TRUE] \in Claim
  BY <1>2, <1>4 DEF Claim
<1>5. CASE claims' = claims \/ claims' = [claims EXCEPT ![k] = None]
  BY <1>1, <1>5
<1>6. CASE claims' = [claims EXCEPT ![k] =
                        [state |-> "claimed", by |-> a, expired |-> FALSE]]
  BY <1>1, <1>3, <1>6
<1>7. CASE Claimed(k) /\ claims' = [claims EXCEPT ![k].state = "published"]
  BY <1>1, <1>4, <1>7
<1>8. CASE Claimed(k) /\ claims' = [claims EXCEPT ![k].expired = TRUE]
  BY <1>1, <1>4, <1>8
<1> QED
  BY <1>5, <1>6, <1>7, <1>8
-----------------------------------------------------------------------------
(* Every action preserves the types.                                       *)

\* An actor that is not idle moves on with the record it has.
LEMMA WorkMoves ==
  ASSUME TypeInv, NEW a \in Actors, NEW phase \in Phases, Goto(a, phase), pc[a] # "idle",
         phase \in Working => pc[a] \in Working,
         UNCHANGED <<logVars, position, fetched, job>>
  PROVE  pc' \in [Actors -> Phases] /\ JobInHand' /\ PositionsInLog'
<1>1. /\ pc' \in [Actors -> Phases] /\ pc'[a] = phase
      /\ \A b \in Actors \ {a} : pc'[b] = pc[b]
  BY GotoType DEF TypeInv
<1>2. JobInHand'
  BY <1>1 DEF TypeInv, JobInHand
<1>3. PositionsInLog'
  BY <1>1 DEF TypeInv, PositionsInLog, logVars, Actors
<1> QED
  BY <1>1, <1>2, <1>3

\* A record appended to the DLQ leaves the others where they are.
LEMMA LogGrows ==
  ASSUME TypeInv, NEW d \in Record, dlq' = Append(dlq, d),
         UNCHANGED <<committed, owner, actorVars>>
  PROVE  /\ dlq' \in Seq(Record) /\ Len(dlq') = Len(dlq) + 1
         /\ \A i \in 1..Len(dlq) : dlq'[i] = dlq[i]
         /\ dlq'[Len(dlq) + 1] = d
         /\ JobInHand' /\ PositionsInLog'
<1>1. dlq \in Seq(Record) /\ Len(dlq) \in Nat
  BY DEF TypeInv, TypeOK
<1>2. /\ dlq' \in Seq(Record) /\ Len(dlq') = Len(dlq) + 1
      /\ \A i \in 1..Len(dlq) : dlq'[i] = dlq[i]
      /\ dlq'[Len(dlq) + 1] = d
  BY <1>1
<1>3. JobInHand'
  BY DEF TypeInv, JobInHand, actorVars
<1>4. PositionsInLog'
  <2> SUFFICES ASSUME NEW w \in Replayers
               PROVE  /\ position[w] <= Len(dlq') /\ fetched[w] <= Len(dlq')
                      /\ pc[w] # "idle" => /\ position[w] < Len(dlq')
                                           /\ job[w] = dlq'[position[w] + 1]
    BY DEF PositionsInLog, actorVars
  <2>1. position[w] \in Nat /\ fetched[w] \in Nat
    BY DEF TypeInv, TypeOK
  <2>2. /\ position[w] <= Len(dlq) /\ fetched[w] <= Len(dlq)
        /\ pc[w] # "idle" => position[w] < Len(dlq) /\ job[w] = dlq[position[w] + 1]
    BY DEF TypeInv, PositionsInLog
  <2> QED
    BY <1>1, <1>2, <2>1, <2>2
<1> QED
  BY <1>2, <1>3, <1>4

\* Reading the status, claiming, publishing, marking and releasing.
LEMMA WorkType ==
  ASSUME TypeInv, NEW a \in Actors, Proceed(a) \/ Failure(a)
  PROVE  TypeInv'
<1>1. pc[a] \in Working /\ pc[a] # "idle"
  BY DEF Proceed, Failure, ReadStatus, InsertClaim, LockClaim, Publish, Mark, Release,
         ClaimFails, PublishFails, MarkFails, ReleaseFails, Working
<1>2. UNCHANGED <<logVars, position, fetched, job, handled, status, stored, lapses>>
  BY DEF Proceed, Failure, ReadStatus, InsertClaim, LockClaim, Publish, Mark, Release,
         ClaimFails, PublishFails, MarkFails, ReleaseFails, worker
<1>3. \E phase \in Phases : Goto(a, phase)
  <2>1. \/ \E phase \in {"insert", "lock", "publish", "mark", "release"} : Goto(a, phase)
        \/ Done(a) \/ Raise(a)
    BY DEF Proceed, Failure, ReadStatus, InsertClaim, LockClaim, Publish, Mark, Release,
           ClaimFails, PublishFails, MarkFails, ReleaseFails
  <2> QED
    BY <2>1, EndIsMove DEF Phases
<1>4. Key(a) \in Keys /\ Key(a)[2] < MaxReplays
  BY <1>1, KeyOfWorking
<1>5. claims' \in [Keys -> Claim \cup {None}]
  <2>1. \/ claims' = claims
        \/ claims' = [claims EXCEPT ![Key(a)] = None]
        \/ claims' = [claims EXCEPT ![Key(a)] =
                        [state |-> "claimed", by |-> a, expired |-> FALSE]]
        \/ Claimed(Key(a)) /\ claims' = [claims EXCEPT ![Key(a)].state = "published"]
    BY DEF Proceed, Failure, ReadStatus, InsertClaim, LockClaim, Publish, Mark, Release,
           ClaimFails, PublishFails, MarkFails, ReleaseFails, worker, Holds
  <2> QED
    BY <1>4, <2>1, ClaimType DEF TypeInv
<1>6. sent' \in [Keys -> Nat] /\ BelowLimit'
  <2>1. sent' = sent \/ sent' = [sent EXCEPT ![Key(a)] = @ + 1]
    BY DEF Proceed, Failure, ReadStatus, InsertClaim, LockClaim, Publish, Mark, Release,
           ClaimFails, PublishFails, MarkFails, ReleaseFails, worker
  <2>2. sent \in [Keys -> Nat]
    BY DEF TypeInv, TypeOK
  <2> QED
    BY <1>4, <2>1, <2>2 DEF TypeInv, BelowLimit
<1>7. faults' \in Nat
  BY DEF Proceed, Failure, ReadStatus, InsertClaim, LockClaim, Publish, Mark, Release,
         ClaimFails, PublishFails, MarkFails, ReleaseFails, worker, Fault, TypeInv, TypeOK
<1>8. pc' \in [Actors -> Phases] /\ JobInHand' /\ PositionsInLog'
  BY <1>1, <1>2, <1>3, WorkMoves
<1>9. TypeOK'
  BY <1>2, <1>5, <1>6, <1>7, <1>8 DEF TypeInv, TypeOK, logVars
<1> QED
  BY <1>6, <1>8, <1>9 DEF TypeInv

\* The steps of a replayer in its partition.
LEMMA GroupType ==
  ASSUME TypeInv, NEW w \in Replayers,
         Poll(w) \/ Take(w) \/ CommitOffset(w) \/ CommitOffsetFails(w) \/ Rewind(w) \/ Crash(w)
  PROVE  TypeInv'
<1> USE DEF TypeInv
<1>0. w \in Actors /\ dlq \in Seq(Record) /\ Len(dlq) \in Nat
  BY DEF Actors, TypeOK
<1>1. CASE Poll(w)
  <2> DEFINE start == IF owner = w THEN position[w] ELSE committed
  <2>1. PICK end \in (start + 1)..Len(dlq) :
          /\ start < Len(dlq)
          /\ position' = [position EXCEPT ![w] = start]
          /\ fetched' = [fetched EXCEPT ![w] = end]
    BY <1>1 DEF Poll
  <2>2. start \in Nat /\ end \in Nat /\ end <= Len(dlq)
    BY <1>0, <2>1 DEF TypeOK
  <2> HIDE DEF start
  <2>3. /\ position' \in [Replayers -> Nat] /\ fetched' \in [Replayers -> Nat]
        /\ position'[w] = start /\ fetched'[w] = end
        /\ \A v \in Replayers \ {w} : position'[v] = position[v] /\ fetched'[v] = fetched[v]
    BY <2>1, <2>2 DEF TypeOK
  <2>4. TypeOK'
    BY <1>1, <2>3 DEF Poll, worker, TypeOK
  <2>5. JobInHand' /\ BelowLimit'
    BY <1>1 DEF Poll, worker, JobInHand, BelowLimit
  <2>6. PositionsInLog'
    BY <1>1, <2>1, <2>2, <2>3 DEF Poll, PositionsInLog
  <2> QED
    BY <2>4, <2>5, <2>6
<1>2. CASE Take(w)
  <2> DEFINE d == dlq[position[w] + 1]
  <2>1. d \in Record /\ position[w] < Len(dlq)
    BY <1>0, <1>2 DEF Take, TypeOK, PositionsInLog
  <2>2. job' = [job EXCEPT ![w] = d]
    BY <1>2 DEF Take
  <2>3. PICK phase \in {"status", "commit_offset"} :
          Goto(w, phase) /\ (phase = "status" => Replayable(d))
    BY <1>2 DEF Take
  <2>4. phase \in Phases
    BY DEF Phases
  <2>5. /\ pc' \in [Actors -> Phases] /\ pc'[w] = phase
        /\ \A b \in Actors \ {w} : pc'[b] = pc[b]
    BY <1>0, <2>3, <2>4, GotoType
  <2>6. /\ job' \in [Actors -> Record \cup {None}] /\ job'[w] = d
        /\ \A b \in Actors \ {w} : job'[b] = job[b]
    BY <1>0, <2>1, <2>2 DEF TypeOK
  <2>7. UNCHANGED <<dlq, committed, owner, position, fetched, claims, sent, handled, status,
                    stored, lapses, faults>>
    BY <1>2 DEF Take, logVars, worker
  <2>8. TypeOK'
    BY <2>5, <2>6, <2>7 DEF TypeOK
  <2>9. JobInHand' /\ BelowLimit'
    BY <2>1, <2>3, <2>5, <2>6, <2>7 DEF JobInHand, BelowLimit, Working
  <2>10. PositionsInLog'
    BY <2>1, <2>5, <2>6, <2>7 DEF PositionsInLog, Actors
  <2> QED
    BY <2>8, <2>9, <2>10
<1>3. CASE CommitOffset(w) \/ CommitOffsetFails(w) \/ Rewind(w) \/ Crash(w)
  <2>1. PICK phase \in {"idle", "rewind"} :
          /\ Goto(w, phase)
          /\ phase = "idle" \/ UNCHANGED <<position, fetched, job>>
    BY <1>3 DEF CommitOffset, CommitOffsetFails, Rewind, Crash
  <2>2. phase \in Phases /\ phase \notin Working
    BY DEF Phases, Working
  <2>3. /\ pc' \in [Actors -> Phases] /\ pc'[w] = phase
        /\ \A b \in Actors \ {w} : pc'[b] = pc[b]
    BY <1>0, <2>1, <2>2, GotoType
  <2>4. /\ job' = job \/ job' = [job EXCEPT ![w] = None]
        /\ job' \in [Actors -> Record \cup {None}]
        /\ \A b \in Actors \ {w} : job'[b] = job[b]
    BY <1>3 DEF CommitOffset, CommitOffsetFails, Rewind, Crash, TypeOK
  <2>5. /\ pc[w] # "idle"
        /\ \/ position' = position
           \/ position' = [position EXCEPT ![w] = 0]
           \/ position' = [position EXCEPT ![w] = position[w] + 1]
        /\ \/ fetched' = fetched
           \/ fetched' = [fetched EXCEPT ![w] = 0]
           \/ fetched' = [fetched EXCEPT ![w] = position[w]]
        /\ committed' = committed \/ committed' = position[w] + 1
        /\ owner' = owner \/ owner' = None
        /\ faults' = faults \/ faults' = faults + 1
        /\ UNCHANGED <<dlq, claims, worker, lapses>>
    <3>1. CASE CommitOffset(w)
      BY <3>1 DEF CommitOffset
    <3>2. CASE CommitOffsetFails(w)
      BY <3>2 DEF CommitOffsetFails, Fault
    <3>3. CASE Rewind(w)
      BY <3>3 DEF Rewind, logVars
    <3>4. CASE Crash(w)
      BY <3>4 DEF Crash, Fault
    <3> QED
      BY <1>3, <3>1, <3>2, <3>3, <3>4
  <2>6. /\ position[w] \in Nat /\ position[w] < Len(dlq)
        /\ fetched[w] \in Nat /\ fetched[w] <= Len(dlq)
    BY <2>5 DEF TypeOK, PositionsInLog
  <2>7. /\ position' \in [Replayers -> Nat] /\ fetched' \in [Replayers -> Nat]
        /\ position'[w] <= Len(dlq) /\ fetched'[w] <= Len(dlq)
        /\ \A v \in Replayers \ {w} : position'[v] = position[v] /\ fetched'[v] = fetched[v]
    <3>1. position \in [Replayers -> Nat] /\ fetched \in [Replayers -> Nat]
      BY DEF TypeOK
    <3>2. /\ position' \in [Replayers -> Nat] /\ position'[w] <= Len(dlq)
          /\ \A v \in Replayers \ {w} : position'[v] = position[v]
      BY <1>0, <2>5, <2>6, <3>1
    <3>3. /\ fetched' \in [Replayers -> Nat] /\ fetched'[w] <= Len(dlq)
          /\ \A v \in Replayers \ {w} : fetched'[v] = fetched[v]
      BY <1>0, <2>5, <2>6, <3>1
    <3> QED
      BY <3>2, <3>3
  <2>8. TypeOK'
    BY SMTT(30), <2>3, <2>4, <2>5, <2>6, <2>7 DEF TypeOK, worker
  <2>9. JobInHand' /\ BelowLimit'
    BY <2>2, <2>3, <2>4, <2>5 DEF JobInHand, BelowLimit, worker
  <2>10. PositionsInLog'
    <3>1. phase # "idle" => position' = position /\ job' = job
      BY <2>1
    <3> QED
      BY <2>3, <2>4, <2>5, <2>6, <2>7, <3>1 DEF PositionsInLog, Actors
  <2> QED
    BY <2>8, <2>9, <2>10
<1> QED
  BY <1>1, <1>2, <1>3

\* The record the manual route takes is the last one of the request.
LEMMA LatestRecord ==
  ASSUME TypeInv, NEW r \in Requests,
         {i \in 1..Len(dlq) : dlq[i].req = r} # {}
  PROVE  LET mine == {i \in 1..Len(dlq) : dlq[i].req = r}
         IN  (CHOOSE i \in mine : \A j \in mine : j <= i) \in mine
<1> DEFINE mine == {i \in 1..Len(dlq) : dlq[i].req = r}
<1>1. Len(dlq) \in Nat
  BY DEF TypeInv, TypeOK
<1>2. mine \in SUBSET (1..Len(dlq)) /\ mine # {}
  OBVIOUS
<1> HIDE DEF mine
<1>3. \E i \in mine : \A j \in mine : j <= i
  BY <1>1, <1>2, LastExists
<1>4. (CHOOSE i \in mine : \A j \in mine : j <= i) \in mine
  BY <1>3
<1> QED
  BY <1>4 DEF mine

\* The manual route.
LEMMA CallType ==
  ASSUME TypeInv, NEW c \in Callers, CallerDies(c) \/ \E r \in Requests : Call(c, r)
  PROVE  TypeInv'
<1> USE DEF TypeInv
<1>0. c \in Actors /\ c \notin Replayers /\ dlq \in Seq(Record)
  BY ConstantsAssumption DEF Actors, TypeOK
<1>1. CASE CallerDies(c)
  <2>1. Goto(c, "replied") /\ pc[c] # "idle" /\ "replied" \in Phases /\ "replied" \notin Working
    BY <1>1 DEF CallerDies, Phases, Working
  <2>2. UNCHANGED <<logVars, position, fetched, job, claims, worker, lapses>> /\ faults' \in Nat
    BY <1>1 DEF CallerDies, Fault, TypeOK
  <2>3. pc' \in [Actors -> Phases] /\ JobInHand' /\ PositionsInLog'
    BY <1>0, <2>1, <2>2, WorkMoves
  <2> QED
    BY <2>2, <2>3 DEF TypeOK, BelowLimit, logVars, worker
<1>2. ASSUME NEW r \in Requests, Call(c, r) PROVE TypeInv'
  <2> DEFINE mine == {i \in 1..Len(dlq) : dlq[i].req = r}
             last == CHOOSE i \in mine : \A j \in mine : j <= i
             d == dlq[last]
  <2>1. /\ mine # {} /\ Replayable(d) /\ job' = [job EXCEPT ![c] = d] /\ Goto(c, "status")
        /\ UNCHANGED <<dlq, committed, owner, position, fetched, claims, sent, handled, status,
                       stored, lapses, faults>>
    BY <1>2 DEF Call, logVars, worker
  <2>2. last \in mine
    BY <2>1, LatestRecord
  <2>3. d \in Record
    BY <1>0, <2>2
  <2> HIDE DEF d
  <2>4. /\ pc' \in [Actors -> Phases] /\ pc'[c] = "status"
        /\ \A b \in Actors \ {c} : pc'[b] = pc[b]
    BY <1>0, <2>1, GotoType DEF Phases
  <2>5. /\ job' \in [Actors -> Record \cup {None}] /\ job'[c] = d
        /\ \A b \in Actors \ {c} : job'[b] = job[b]
    BY <1>0, <2>1, <2>3 DEF TypeOK
  <2>6. TypeOK'
    BY <2>1, <2>4, <2>5 DEF TypeOK
  <2>7. JobInHand' /\ BelowLimit'
    BY <2>1, <2>3, <2>4, <2>5 DEF JobInHand, BelowLimit
  <2>8. PositionsInLog'
    BY <1>0, <2>1, <2>4, <2>5 DEF PositionsInLog, Actors
  <2> QED
    BY <2>6, <2>7, <2>8
<1> QED
  BY <1>1, <1>2

\* Time, fencing, and the ingress workers.
LEMMA AroundType ==
  ASSUME TypeInv,
         \/ Fence
         \/ \E k \in Keys : LeaseExpires(k) \/ WorkerStores(k) \/ WorkerGivesUp(k)
         \/ \E r \in Requests : WorkerIsolates(r)
  PROVE  TypeInv'
<1> USE DEF TypeInv
<1>1. CASE Fence
  <2>1. owner' = None /\ faults' = faults + 1
        /\ UNCHANGED <<dlq, committed, actorVars, claims, worker, lapses>>
    BY <1>1 DEF Fence, Fault
  <2> QED
    BY <2>1 DEF TypeOK, JobInHand, PositionsInLog, BelowLimit, actorVars, worker
<1>2. ASSUME NEW k \in Keys, LeaseExpires(k) PROVE TypeInv'
  <2>1. Claimed(k) /\ claims' = [claims EXCEPT ![k].expired = TRUE] /\ lapses' = lapses + 1
        /\ UNCHANGED <<logVars, actorVars, worker, faults>>
    BY <1>2 DEF LeaseExpires
  <2>2. claims[k].by \in Actors
    BY <2>1 DEF TypeOK, Claimed, Claim
  <2>3. claims' \in [Keys -> Claim \cup {None}]
    BY <2>1, <2>2, ClaimType
  <2> QED
    BY <2>1, <2>3 DEF TypeOK, JobInHand, PositionsInLog, BelowLimit, logVars, actorVars, worker
<1>3. ASSUME NEW k \in Keys, WorkerStores(k) PROVE TypeInv'
  <2>1. k[1] \in Requests
    BY DEF Keys
  <2>2. /\ handled' = [handled EXCEPT ![k] = @ + 1]
        /\ status' = [status EXCEPT ![k[1]] = "persisted"]
        /\ stored' = stored \cup {k[1]}
        /\ UNCHANGED <<logVars, actorVars, claims, sent, lapses, faults>>
    BY <1>3 DEF WorkerStores
  <2>3. handled' \in [Keys -> Nat] /\ status' \in [Requests -> {"failed_dlq", "persisted"}]
    BY <2>1, <2>2 DEF TypeOK
  <2> QED
    BY <2>1, <2>2, <2>3 DEF TypeOK, JobInHand, PositionsInLog, BelowLimit, logVars, actorVars
<1>4. ASSUME NEW k \in Keys, WorkerGivesUp(k) PROVE TypeInv'
  <2> DEFINE d == [req |-> k[1], gen |-> k[2] + 1]
  <2>1. k[1] \in Requests /\ k[2] \in Generations
    BY DEF Keys
  <2>2. sent[k] \in Nat /\ handled[k] \in Nat /\ handled[k] < sent[k]
    BY <1>4 DEF TypeOK, WorkerGivesUp
  <2>3. k[2] < MaxReplays
    BY <2>2 DEF BelowLimit
  <2>4. d \in Record
    BY <2>1, <2>3, ConstantsAssumption DEF Record, Generations
  <2>5. /\ handled' = [handled EXCEPT ![k] = @ + 1]
        /\ status' = [status EXCEPT ![k[1]] = "failed_dlq"]
        /\ dlq' = Append(dlq, d)
        /\ UNCHANGED <<committed, owner, actorVars, claims, sent, stored, lapses, faults>>
    BY <1>4 DEF WorkerGivesUp
  <2> HIDE DEF d
  <2>6. dlq' \in Seq(Record) /\ JobInHand' /\ PositionsInLog'
    BY <2>4, <2>5, LogGrows
  <2>7. handled' \in [Keys -> Nat] /\ status' \in [Requests -> {"failed_dlq", "persisted"}]
    BY <2>1, <2>5 DEF TypeOK
  <2> QED
    BY <2>5, <2>6, <2>7 DEF TypeOK, BelowLimit, actorVars
<1>5. ASSUME NEW r \in Requests, WorkerIsolates(r) PROVE TypeInv'
  <2> DEFINE d == [req |-> r, gen |-> 0]
  <2>1. d \in Record
    BY ConstantsAssumption DEF Record, Generations
  <2>2. dlq' = Append(dlq, d) /\ UNCHANGED <<committed, owner, actorVars, claims, worker, lapses, faults>>
    BY <1>5 DEF WorkerIsolates
  <2> HIDE DEF d
  <2>3. dlq' \in Seq(Record) /\ JobInHand' /\ PositionsInLog'
    BY <2>1, <2>2, LogGrows
  <2> QED
    BY <2>2, <2>3 DEF TypeOK, BelowLimit, actorVars, worker
<1> QED
  BY <1>1, <1>2, <1>3, <1>4, <1>5

\* Every step preserves the types.
LEMMA TypeStep == TypeInv /\ [Next]_vars => TypeInv'
<1> SUFFICES ASSUME TypeInv, [Next]_vars PROVE TypeInv'
  OBVIOUS
<1>1. CASE Next
  <2>1. ASSUME NEW w \in Replayers, ReplayerStep(w) \/ Crash(w) PROVE TypeInv'
    BY <2>1, GroupType, WorkType DEF ReplayerStep, Actors
  <2>2. ASSUME NEW c \in Callers,
               Proceed(c) \/ CallerDies(c) \/ \E r \in Requests : Call(c, r)
        PROVE  TypeInv'
    BY <2>2, CallType, WorkType DEF Actors
  <2>3. ASSUME NEW a \in Actors, Failure(a) PROVE TypeInv'
    BY <2>3, WorkType
  <2> QED
    BY <1>1, <2>1, <2>2, <2>3, AroundType DEF Next
<1>2. CASE UNCHANGED vars
  BY <1>2 DEF vars, logVars, actorVars, worker, TypeInv, TypeOK, JobInHand, PositionsInLog,
              BelowLimit
<1> QED
  BY <1>1, <1>2

\* The initial state has the types.
LEMMA TypeInit == Init => TypeInv
<1> SUFFICES ASSUME Init PROVE TypeInv
  OBVIOUS
<1>1. TypeOK
  BY DEF Init, TypeOK, Phases
<1>2. JobInHand /\ PositionsInLog /\ BelowLimit
  BY DEF Init, JobInHand, PositionsInLog, BelowLimit, Working, Actors
<1> QED
  BY <1>1, <1>2 DEF TypeInv

\* In every state the tables, topics and actors are well formed, and an actor at
\* work has a record in hand that may be replayed (replay_one, the manual route).
THEOREM TypeCorrect == Spec => []TypeInv
BY TypeInit, TypeStep, PTL DEF Spec
-----------------------------------------------------------------------------
(* The steps that claims and copies take part in.                          *)

\* No claim and no copy changes, and nobody comes to hold one.
Aside ==
  /\ UNCHANGED <<claims, sent, lapses>>
  /\ faults' = faults \/ faults' = faults + 1
  /\ \A a \in Actors : pc'[a] \in {"lock", "publish", "release", "mark"} =>
                         pc'[a] = pc[a] /\ job'[a] = job[a]

\* The steps of an actor that are not.
Claims(a) ==
  \/ InsertClaim(a) \/ LockClaim(a) \/ ClaimFails(a)
  \/ Publish(a) \/ PublishFails(a) \/ Mark(a) \/ Release(a)

\* An actor goes where it has no claim in hand, and keeps or gets a record.
LEMMA MoveIsAside ==
  ASSUME TypeInv, NEW a \in Actors, NEW phase \in Phases \ {"lock", "publish", "release", "mark"},
         Goto(a, phase), \A b \in Actors \ {a} : job'[b] = job[b],
         UNCHANGED <<claims, sent, lapses>>, faults' = faults \/ faults' = faults + 1
  PROVE  Aside
<1>1. pc'[a] = phase /\ \A b \in Actors \ {a} : pc'[b] = pc[b]
  BY GotoType DEF TypeInv
<1> QED
  BY <1>1 DEF Aside

\* The three shapes of a step.
LEMMA StepShape ==
  ASSUME TypeInv, [Next]_vars
  PROVE  \/ Aside
         \/ \E k \in Keys : LeaseExpires(k)
         \/ \E a \in Actors : Claims(a)
<1> USE DEF TypeInv
<1>0. ASSUME NEW a \in Actors, NEW x, job' = [job EXCEPT ![a] = x]
      PROVE  \A b \in Actors \ {a} : job'[b] = job[b]
  BY <1>0 DEF TypeOK
<1>1. ASSUME NEW a \in Actors, ReadStatus(a) \/ MarkFails(a) \/ ReleaseFails(a) PROVE Aside
  <2>1. \/ Goto(a, "insert") \/ Done(a) \/ Raise(a)
    BY <1>1 DEF ReadStatus, MarkFails, ReleaseFails
  <2>2. PICK phase \in {"insert", "commit_offset", "rewind", "replied"} : Goto(a, phase)
    BY <2>1, EndIsMove
  <2>3. UNCHANGED <<job, claims, sent, lapses>> /\ (faults' = faults \/ faults' = faults + 1)
    BY <1>1 DEF ReadStatus, MarkFails, ReleaseFails, worker, Fault
  <2> QED
    BY <2>2, <2>3, MoveIsAside DEF Phases
<1>2. ASSUME NEW w \in Replayers,
             Take(w) \/ CommitOffset(w) \/ CommitOffsetFails(w) \/ Rewind(w) \/ Crash(w)
      PROVE  Aside
  <2>1. w \in Actors
    BY DEF Actors
  <2>2. PICK phase \in {"status", "commit_offset", "idle", "rewind"} : Goto(w, phase)
    BY <1>2 DEF Take, CommitOffset, CommitOffsetFails, Rewind, Crash
  <2>3. job' = job \/ \E x : job' = [job EXCEPT ![w] = x]
    BY <1>2 DEF Take, CommitOffset, CommitOffsetFails, Rewind, Crash
  <2>4. UNCHANGED <<claims, sent, lapses>> /\ (faults' = faults \/ faults' = faults + 1)
    BY <1>2 DEF Take, CommitOffset, CommitOffsetFails, Rewind, Crash, worker, Fault
  <2>5. \A b \in Actors \ {w} : job'[b] = job[b]
    BY <1>0, <2>1, <2>3
  <2> QED
    BY <2>1, <2>2, <2>4, <2>5, MoveIsAside DEF Phases
<1>3. ASSUME NEW w \in Replayers, Poll(w) PROVE Aside
  BY <1>3 DEF Poll, Aside, worker
<1>4. ASSUME NEW c \in Callers, CallerDies(c) \/ \E r \in Requests : Call(c, r) PROVE Aside
  <2>1. c \in Actors
    BY DEF Actors
  <2>2. PICK phase \in {"status", "replied"} : Goto(c, phase)
    BY <1>4 DEF CallerDies, Call
  <2>3. job' = job \/ \E x : job' = [job EXCEPT ![c] = x]
    BY <1>4 DEF CallerDies, Call
  <2>4. UNCHANGED <<claims, sent, lapses>> /\ (faults' = faults \/ faults' = faults + 1)
    BY <1>4 DEF CallerDies, Call, worker, Fault
  <2>5. \A b \in Actors \ {c} : job'[b] = job[b]
    BY <1>0, <2>1, <2>3
  <2> QED
    BY <2>1, <2>2, <2>4, <2>5, MoveIsAside DEF Phases
<1>5. CASE \/ Fence
           \/ \E k \in Keys : WorkerStores(k) \/ WorkerGivesUp(k)
           \/ \E r \in Requests : WorkerIsolates(r)
           \/ UNCHANGED vars
  <2>1. UNCHANGED <<claims, sent, lapses, actorVars>> /\ (faults' = faults \/ faults' = faults + 1)
    BY <1>5 DEF Fence, WorkerStores, WorkerGivesUp, WorkerIsolates, worker, vars, Fault
  <2> QED
    BY <2>1 DEF Aside, actorVars
<1>6. ASSUME NEW a \in Actors, Proceed(a) \/ Failure(a) PROVE Aside \/ Claims(a)
  BY <1>1, <1>6 DEF Proceed, Failure, Claims
<1>7. CASE Next
  <2>1. ASSUME NEW w \in Replayers, ReplayerStep(w) \/ Crash(w)
        PROVE  Aside \/ \E a \in Actors : Claims(a)
    BY <1>2, <1>3, <1>6, <2>1 DEF ReplayerStep, Actors
  <2>2. ASSUME NEW c \in Callers, Proceed(c) PROVE Aside \/ \E a \in Actors : Claims(a)
    BY <1>6, <2>2 DEF Actors
  <2>3. ASSUME NEW a \in Actors, Failure(a) PROVE Aside \/ Claims(a)
    BY <1>6, <2>3
  <2> QED
    BY <1>4, <1>5, <1>7, <2>1, <2>2, <2>3 DEF Next
<1> QED
  BY <1>5, <1>7
-----------------------------------------------------------------------------
(* A claim marked published has its copy.                                  *)

\* An actor marks its claim after the copy was appended.
MarkIsSent == \A a \in Actors : pc[a] = "mark" => sent[Key(a)] >= 1

SentInv == PublishedIsSent /\ MarkIsSent

\* Copies are never taken back.
LEMMA SentGrows ==
  ASSUME TypeInv, [Next]_vars
  PROVE  \A k \in Keys : sent[k] \in Nat /\ sent'[k] \in Nat /\ sent[k] <= sent'[k]
<1>1. sent \in [Keys -> Nat]
  BY DEF TypeInv, TypeOK
<1>2. CASE Aside \/ \E k \in Keys : LeaseExpires(k)
  BY <1>1, <1>2 DEF Aside, LeaseExpires, worker
<1>3. ASSUME NEW a \in Actors, Claims(a)
      PROVE  \A k \in Keys : sent'[k] \in Nat /\ sent[k] <= sent'[k]
  <2>1. sent' = sent \/ sent' = [sent EXCEPT ![Key(a)] = @ + 1]
    BY <1>3 DEF Claims, InsertClaim, LockClaim, ClaimFails, Publish, PublishFails, Mark,
                Release, worker
  <2> QED
    BY <1>1, <2>1
<1> QED
  BY <1>1, <1>2, <1>3, StepShape

\* Where a step of an actor takes it, and what it keeps.
LEMMA ClaimsMove ==
  ASSUME TypeInv, NEW a \in Actors, Claims(a)
  PROVE  /\ pc[a] \in Working
         /\ UNCHANGED <<logVars, position, fetched, job, handled, status, stored, lapses>>
         /\ \A b \in Actors : Key(b)' = Key(b)
         /\ \A b \in Actors \ {a} : pc'[b] = pc[b]
         /\ pc'[a] \in Phases /\ Goto(a, pc'[a])
         /\ Key(a) \in Keys
<1>1. pc[a] \in Working
  BY DEF Claims, InsertClaim, LockClaim, ClaimFails, Publish, PublishFails, Mark, Release, Working
<1>2. UNCHANGED <<logVars, position, fetched, job, handled, status, stored, lapses>>
  BY DEF Claims, InsertClaim, LockClaim, ClaimFails, Publish, PublishFails, Mark, Release, worker
<1>3. PICK phase \in {"lock", "publish", "mark", "release", "commit_offset", "rewind", "replied"} :
        Goto(a, phase)
  <2>1. \/ \E phase \in {"lock", "publish", "mark", "release"} : Goto(a, phase)
        \/ Done(a) \/ Raise(a)
    BY DEF Claims, InsertClaim, LockClaim, ClaimFails, Publish, PublishFails, Mark, Release
  <2> QED
    BY <2>1, EndIsMove
<1>4. phase \in Phases
  BY DEF Phases
<1>5. pc'[a] = phase /\ \A b \in Actors \ {a} : pc'[b] = pc[b]
  BY <1>3, <1>4, GotoType DEF TypeInv
<1>6. \A b \in Actors : Key(b)' = Key(b)
  BY <1>2 DEF Key
<1> QED
  BY <1>1, <1>2, <1>3, <1>4, <1>5, <1>6, KeyOfWorking

\* Every step keeps copies behind the claims marked published.
LEMMA SentStep ==
  ASSUME TypeInv, [Next]_vars, SentInv
  PROVE  SentInv'
<1> USE DEF SentInv
<1>0. \A k \in Keys : sent[k] \in Nat /\ sent'[k] \in Nat /\ sent[k] <= sent'[k]
  BY SentGrows
<1>1. CASE Aside
  <2>1. PublishedIsSent'
    BY <1>1 DEF Aside, PublishedIsSent, Claimed
  <2>2. MarkIsSent'
    BY <1>1 DEF Aside, MarkIsSent, Key
  <2> QED
    BY <2>1, <2>2
<1>2. ASSUME NEW k \in Keys, LeaseExpires(k) PROVE SentInv'
  <2>1. claims[k].state = "claimed" /\ claims[k] # None
        /\ claims' = [claims EXCEPT ![k].expired = TRUE]
        /\ UNCHANGED <<pc, job, sent>>
    BY <1>2 DEF LeaseExpires, Claimed, actorVars, worker
  <2>2. claims \in [Keys -> Claim \cup {None}] /\ claims[k] \in Claim
    BY <2>1 DEF TypeInv, TypeOK
  <2>3. \A l \in Keys : claims'[l] # None /\ claims'[l].state # "claimed" =>
                          claims[l] # None /\ claims[l].state # "claimed"
    BY <2>1, <2>2 DEF Claim
  <2>4. PublishedIsSent'
    BY <2>1, <2>3 DEF PublishedIsSent, Claimed
  <2> QED
    BY <2>1, <2>4 DEF MarkIsSent, Key
<1>3. ASSUME NEW a \in Actors, Claims(a) PROVE SentInv'
  <2> DEFINE k == Key(a)
             mine == [state |-> "claimed", by |-> a, expired |-> FALSE]
  <2>1. /\ pc[a] \in Working /\ k \in Keys
        /\ \A b \in Actors : Key(b)' = Key(b)
        /\ \A b \in Actors \ {a} : pc'[b] = pc[b]
    BY <1>3, ClaimsMove
  <2>2. MarkIsSent'
    <3>1. \A b \in Actors : pc[b] = "mark" => sent'[Key(b)] >= 1
      <4> SUFFICES ASSUME NEW b \in Actors, pc[b] = "mark" PROVE sent'[Key(b)] >= 1
        OBVIOUS
      <4>1. Key(b) \in Keys
        BY KeyOfWorking DEF Working
      <4> QED
        BY <1>0, <4>1 DEF MarkIsSent
    <3>2. pc'[a] = "mark" => pc[a] = "publish" /\ sent' = [sent EXCEPT ![k] = @ + 1]
      <4>1. CASE Publish(a)
        BY <4>1 DEF Publish
      <4>2. CASE ~Publish(a)
        <5>1. \/ Goto(a, "lock") \/ Goto(a, "publish") \/ Goto(a, "release")
              \/ Done(a) \/ Raise(a)
          BY <1>3, <4>2 DEF Claims, InsertClaim, LockClaim, ClaimFails, PublishFails, Mark, Release
        <5>2. PICK phase \in {"lock", "publish", "release", "commit_offset", "rewind", "replied"} :
                Goto(a, phase)
          BY <5>1, EndIsMove
        <5>3. pc'[a] = phase
          BY <5>2, GotoType DEF TypeInv, Phases
        <5> QED
          BY <5>3
      <4> QED
        BY <4>1, <4>2
    <3>3. pc'[a] = "mark" => sent'[k] >= 1
      <4>1. sent \in [Keys -> Nat]
        BY DEF TypeInv, TypeOK
      <4> QED
        BY <2>1, <3>2, <4>1
    <3> QED
      BY <2>1, <3>1, <3>3 DEF MarkIsSent
  <2>3. claims \in [Keys -> Claim \cup {None}]
    BY DEF TypeInv, TypeOK
  <2>4. \/ claims' = claims
        \/ claims' = [claims EXCEPT ![k] = None]
        \/ claims' = [claims EXCEPT ![k] = mine]
        \/ pc[a] = "mark" /\ Claimed(k) /\ claims' = [claims EXCEPT ![k].state = "published"]
    BY <1>3 DEF Claims, InsertClaim, LockClaim, ClaimFails, Publish, PublishFails, Mark,
                Release, Holds
  <2>5. \A l \in Keys : claims'[l] # None /\ claims'[l].state # "claimed" =>
                          \/ claims'[l] = claims[l]
                          \/ l = k /\ pc[a] = "mark"
    BY <2>1, <2>3, <2>4
  <2>6. PublishedIsSent'
    <3> SUFFICES ASSUME NEW l \in Keys, claims'[l] # None, claims'[l].state # "claimed"
                 PROVE  sent'[l] >= 1
      BY DEF PublishedIsSent, Claimed
    <3>1. sent[l] >= 1
      BY <2>5 DEF PublishedIsSent, Claimed, MarkIsSent
    <3> QED
      BY <1>0, <3>1
  <2> QED
    BY <2>2, <2>6
<1> QED
  BY <1>1, <1>2, <1>3, StepShape

\* Whatever calls race, expire, are taken over or fail, a claim that says
\* "published" has a copy of its generation in the ingress topic.
THEOREM PublishedAlwaysSent == Spec => []PublishedIsSent
<1>1. Init => SentInv
  BY DEF Init, SentInv, PublishedIsSent, MarkIsSent
<1>2. SentInv => PublishedIsSent
  BY DEF SentInv
<1> QED
  BY <1>1, <1>2, TypeInit, TypeStep, SentStep, PTL DEF Spec
-----------------------------------------------------------------------------
(* Each copy after the first has a failure or an expired lease of its own. *)

InFlight == {"publish", "release"}

\* The actors that may still append the generation, or give its claim back.
Busy(k) == {a \in Actors : pc[a] \in InFlight /\ Key(a) = k}

\* A claim that is free, or that the next call takes over, allows one more.
Free(k) == claims[k] = None \/ (Claimed(k) /\ claims[k].expired)

Credit(k) == IF Free(k) THEN 1 ELSE 0

\* Copies made and copies that may come without a further failure.
Owed(k) == sent[k] + Cardinality(Busy(k)) + Credit(k)

CopiesPaid ==
  \A k \in Keys : IsFiniteSet(Busy(k)) /\ Owed(k) <= 1 + faults + lapses

\* The step of an actor changes the set of its own key only, by the actor.
LEMMA BusyMoves ==
  ASSUME TypeInv, NEW a \in Actors, Claims(a), NEW k \in Keys, IsFiniteSet(Busy(k))
  PROVE  /\ IsFiniteSet(Busy(k)') /\ Cardinality(Busy(k)) \in Nat /\ Cardinality(Busy(k)') \in Nat
         /\ k # Key(a) => Busy(k)' = Busy(k)
         /\ k = Key(a) /\ pc[a] \in InFlight /\ pc'[a] \notin InFlight =>
              Cardinality(Busy(k)') = Cardinality(Busy(k)) - 1
         /\ k = Key(a) /\ pc[a] \notin InFlight /\ pc'[a] \in InFlight =>
              Cardinality(Busy(k)') = Cardinality(Busy(k)) + 1
         /\ (pc[a] \in InFlight <=> pc'[a] \in InFlight) => Busy(k)' = Busy(k)
<1>1. /\ \A b \in Actors : Key(b)' = Key(b)
      /\ \A b \in Actors \ {a} : pc'[b] = pc[b]
  BY ClaimsMove
<1>2. k # Key(a) => Busy(k)' = Busy(k)
  BY <1>1 DEF Busy
<1>3. (pc[a] \in InFlight <=> pc'[a] \in InFlight) => Busy(k)' = Busy(k)
  BY <1>1 DEF Busy
<1>4. k = Key(a) /\ pc[a] \in InFlight /\ pc'[a] \notin InFlight =>
        Busy(k)' = Busy(k) \ {a} /\ a \in Busy(k)
  BY <1>1 DEF Busy
<1>5. k = Key(a) /\ pc[a] \notin InFlight /\ pc'[a] \in InFlight =>
        Busy(k)' = Busy(k) \cup {a} /\ a \notin Busy(k)
  BY <1>1 DEF Busy
<1>6. /\ IsFiniteSet(Busy(k) \ {a}) /\ IsFiniteSet(Busy(k) \cup {a})
      /\ a \in Busy(k) => Cardinality(Busy(k) \ {a}) = Cardinality(Busy(k)) - 1
      /\ a \notin Busy(k) => Cardinality(Busy(k) \cup {a}) = Cardinality(Busy(k)) + 1
  BY FS_AddElement, FS_RemoveElement
<1>7. IsFiniteSet(Busy(k)')
  BY <1>2, <1>3, <1>4, <1>5, <1>6
<1>8. Cardinality(Busy(k)) \in Nat /\ Cardinality(Busy(k)') \in Nat
  BY <1>7, FS_CardinalityType
<1> QED
  BY <1>2, <1>3, <1>4, <1>5, <1>6, <1>7, <1>8

\* What a step of an actor adds for its key, a failure pays.
LEMMA OwedKept ==
  ASSUME TypeInv, [Next]_vars, CopiesPaid, NEW a \in Actors, Claims(a), NEW k \in Keys,
         faults' \in Nat, faults <= faults',
         \A l \in Keys \ {k} : sent'[l] = sent[l] /\ claims'[l] = claims[l],
         k = Key(a), Owed(k)' <= Owed(k) + (faults' - faults)
  PROVE  CopiesPaid'
<1> SUFFICES ASSUME NEW l \in Keys
             PROVE  IsFiniteSet(Busy(l)') /\ Owed(l)' <= 1 + faults' + lapses'
  BY DEF CopiesPaid
<1>1. IsFiniteSet(Busy(l)) /\ Owed(l) <= 1 + faults + lapses
  BY DEF CopiesPaid
<1>2. /\ IsFiniteSet(Busy(l)') /\ Cardinality(Busy(l)) \in Nat /\ Cardinality(Busy(l)') \in Nat
      /\ l # k => Busy(l)' = Busy(l)
  BY <1>1, BusyMoves
<1>3. lapses' = lapses /\ lapses \in Nat /\ faults \in Nat
  BY ClaimsMove DEF TypeInv, TypeOK
<1>4. l # k => Owed(l)' = Owed(l)
  BY <1>2 DEF Owed, Credit, Free, Claimed
<1>5. Owed(l) \in Nat /\ Owed(l)' \in Nat
  <2>1. sent[l] \in Nat /\ sent'[l] \in Nat
    BY SentGrows
  <2> QED
    BY <1>2, <2>1 DEF Owed, Credit
<1>6. CASE l = k
  BY <1>1, <1>2, <1>3, <1>5, <1>6
<1>7. CASE l # k
  BY <1>1, <1>2, <1>3, <1>4, <1>5, <1>7
<1> QED
  BY <1>6, <1>7

\* Every step of an actor keeps the copies of its key paid for.
LEMMA ClaimsPay ==
  ASSUME TypeInv, [Next]_vars, CopiesPaid, NEW a \in Actors, Claims(a)
  PROVE  CopiesPaid'
<1> DEFINE mine == [state |-> "claimed", by |-> a, expired |-> FALSE]
<1>1. PICK k \in Keys : k = Key(a)
  BY ClaimsMove
<1>2. /\ pc[a] \in Working
      /\ \A phase \in Phases : Goto(a, phase) => pc'[a] = phase
  BY ClaimsMove, GotoType DEF TypeInv
<1>3. /\ sent \in [Keys -> Nat] /\ claims \in [Keys -> Claim \cup {None}]
      /\ faults \in Nat /\ IsFiniteSet(Busy(k))
  BY DEF TypeInv, TypeOK, CopiesPaid
<1>4. /\ Cardinality(Busy(k)) \in Nat /\ Cardinality(Busy(k)') \in Nat
      /\ pc[a] \in InFlight /\ pc'[a] \notin InFlight =>
           Cardinality(Busy(k)') = Cardinality(Busy(k)) - 1
      /\ pc[a] \notin InFlight /\ pc'[a] \in InFlight =>
           Cardinality(Busy(k)') = Cardinality(Busy(k)) + 1
      /\ (pc[a] \in InFlight <=> pc'[a] \in InFlight) => Busy(k)' = Busy(k)
  BY <1>1, <1>3, BusyMoves
<1>5. /\ sent[k] \in Nat /\ Credit(k) \in {0, 1} /\ Credit(k)' \in {0, 1}
      /\ claims' = claims => Credit(k)' = Credit(k)
  BY <1>3 DEF Credit, Free, Claimed
<1>6. claims' = [claims EXCEPT ![k] = mine] => Credit(k)' = 0
  <2> SUFFICES ASSUME claims' = [claims EXCEPT ![k] = mine] PROVE Credit(k)' = 0
    OBVIOUS
  <2>1. claims'[k] = mine /\ mine \in Claim /\ mine.expired = FALSE
    BY <1>3 DEF Claim
  <2> HIDE DEF mine
  <2>2. claims'[k] # None /\ claims'[k].expired = FALSE
    BY <2>1, NoneAssumption
  <2> QED
    BY <2>2 DEF Credit, Free
<1>7. Done(a) \/ Raise(a) => pc'[a] \in {"commit_offset", "rewind", "replied"}
  BY <1>2, EndIsMove DEF Phases
<1>8. /\ faults' \in Nat /\ faults <= faults'
      /\ \A l \in Keys \ {k} : sent'[l] = sent[l] /\ claims'[l] = claims[l]
      /\ Owed(k)' <= Owed(k) + (faults' - faults)
  <2>1. CASE InsertClaim(a)
    <3>1. /\ pc[a] \notin InFlight /\ UNCHANGED <<sent, faults>>
          /\ \/ /\ claims[k] = None /\ claims' = [claims EXCEPT ![k] = mine]
                /\ pc'[a] = "publish"
             \/ claims' = claims /\ pc'[a] = "lock"
      BY <1>1, <1>2, <2>1 DEF InsertClaim, InFlight, worker, Phases, Row
    <3>2. claims[k] = None => Credit(k) = 1
      BY DEF Credit, Free
    <3>3. CASE claims' = claims /\ pc'[a] = "lock"
      BY <1>3, <1>4, <1>5, <3>1, <3>3 DEF Owed, InFlight
    <3>4. CASE claims[k] = None /\ claims' = [claims EXCEPT ![k] = mine] /\ pc'[a] = "publish"
      BY <1>3, <1>4, <1>5, <1>6, <3>1, <3>2, <3>4 DEF Owed, InFlight
    <3> QED
      BY <3>1, <3>3, <3>4
  <2>2. CASE LockClaim(a)
    <3>1. /\ pc[a] \notin InFlight /\ UNCHANGED <<sent, faults>>
          /\ \/ /\ Free(k) /\ claims' = [claims EXCEPT ![k] = mine]
                /\ pc'[a] = "publish"
             \/ claims' = claims /\ pc'[a] \notin InFlight
      BY <1>1, <1>2, <1>7, <2>2 DEF LockClaim, InFlight, worker, Phases, Free, TakeOver, Row
    <3>2. Free(k) => Credit(k) = 1
      BY DEF Credit
    <3>3. CASE claims' = claims /\ pc'[a] \notin InFlight
      BY <1>3, <1>4, <1>5, <3>1, <3>3 DEF Owed
    <3>4. CASE Free(k) /\ claims' = [claims EXCEPT ![k] = mine] /\ pc'[a] = "publish"
      BY <1>3, <1>4, <1>5, <1>6, <3>1, <3>2, <3>4 DEF Owed, InFlight
    <3> QED
      BY <3>1, <3>3, <3>4
  <2>3. CASE ClaimFails(a)
    <3>1. /\ pc[a] \notin InFlight /\ pc'[a] \notin InFlight
          /\ UNCHANGED sent /\ faults' = faults + 1
          /\ claims' = claims \/ claims' = [claims EXCEPT ![k] = mine]
      BY <1>1, <1>2, <1>7, <2>3 DEF ClaimFails, InFlight, worker, Fault
    <3> QED
      BY <1>3, <1>4, <1>5, <1>6, <3>1 DEF Owed
  <2>4. CASE Publish(a)
    <3>1. /\ pc[a] = "publish" /\ pc'[a] = "mark" /\ UNCHANGED <<claims, faults>>
          /\ sent' = [sent EXCEPT ![k] = @ + 1]
      BY <1>1, <1>2, <2>4 DEF Publish, Phases
    <3> QED
      BY <1>3, <1>4, <1>5, <3>1 DEF Owed, InFlight
  <2>5. CASE PublishFails(a)
    <3>1. /\ pc[a] = "publish" /\ pc'[a] = "release" /\ UNCHANGED claims /\ faults' = faults + 1
          /\ sent' = sent \/ sent' = [sent EXCEPT ![k] = @ + 1]
      BY <1>1, <1>2, <2>5 DEF PublishFails, Phases, Fault
    <3> QED
      BY <1>3, <1>4, <1>5, <3>1 DEF Owed, InFlight
  <2>6. CASE Mark(a)
    <3>1. /\ pc[a] = "mark" /\ pc'[a] \notin InFlight /\ UNCHANGED <<sent, faults>>
          /\ \/ claims' = claims
             \/ claims' = [claims EXCEPT ![k].state = "published"] /\ Claimed(k)
      BY <1>1, <1>2, <1>7, <2>6 DEF Mark, InFlight, worker, Holds
    <3>2. ASSUME claims' = [claims EXCEPT ![k].state = "published"], Claimed(k)
          PROVE  Credit(k)' = 0
      <4>1. claims[k] \in Claim /\ claims'[k] = [claims[k] EXCEPT !.state = "published"]
        BY <1>3, <3>2 DEF Claimed
      <4>2. claims'[k] \in Claim /\ claims'[k].state # "claimed"
        BY <4>1 DEF Claim
      <4> QED
        BY <4>2, NoneAssumption DEF Credit, Free, Claimed
    <3> QED
      BY <1>3, <1>4, <1>5, <3>1, <3>2 DEF Owed, InFlight
  <2>7. CASE Release(a)
    <3>1. /\ pc[a] = "release" /\ pc'[a] \notin InFlight /\ UNCHANGED <<sent, faults>>
          /\ claims' = claims \/ claims' = [claims EXCEPT ![k] = None]
      BY <1>1, <1>2, <1>7, <2>7 DEF Release, InFlight, worker
    <3> QED
      BY <1>3, <1>4, <1>5, <3>1 DEF Owed, InFlight
  <2> QED
    BY <2>1, <2>2, <2>3, <2>4, <2>5, <2>6, <2>7 DEF Claims
<1> QED
  BY <1>1, <1>8, OwedKept

\* Every step keeps the copies paid for.
LEMMA CopiesStep ==
  ASSUME TypeInv, [Next]_vars, CopiesPaid
  PROVE  CopiesPaid'
<1>1. CASE Aside
  <2> SUFFICES ASSUME NEW k \in Keys
               PROVE  IsFiniteSet(Busy(k)') /\ Owed(k)' <= 1 + faults' + lapses'
    BY DEF CopiesPaid
  <2>1. IsFiniteSet(Busy(k)) /\ Owed(k) <= 1 + faults + lapses
    BY DEF CopiesPaid
  <2>2. Busy(k)' \subseteq Busy(k)
    BY <1>1 DEF Aside, Busy, InFlight, Key
  <2>3. /\ IsFiniteSet(Busy(k)') /\ Cardinality(Busy(k)') <= Cardinality(Busy(k))
        /\ Cardinality(Busy(k)) \in Nat /\ Cardinality(Busy(k)') \in Nat
    BY <2>1, <2>2, FS_Subset, FS_CardinalityType
  <2>4. /\ sent'[k] = sent[k] /\ sent[k] \in Nat /\ Credit(k)' = Credit(k) /\ Credit(k) \in Nat
        /\ faults \in Nat /\ lapses \in Nat /\ lapses' = lapses
        /\ faults' = faults \/ faults' = faults + 1
    BY <1>1 DEF Aside, Credit, Free, Claimed, TypeInv, TypeOK
  <2> QED
    BY <2>1, <2>3, <2>4 DEF Owed
<1>2. ASSUME NEW e \in Keys, LeaseExpires(e) PROVE CopiesPaid'
  <2> SUFFICES ASSUME NEW k \in Keys
               PROVE  IsFiniteSet(Busy(k)') /\ Owed(k)' <= 1 + faults' + lapses'
    BY DEF CopiesPaid
  <2>1. IsFiniteSet(Busy(k)) /\ Owed(k) <= 1 + faults + lapses
    BY DEF CopiesPaid
  <2>2. /\ claims' = [claims EXCEPT ![e].expired = TRUE] /\ lapses' = lapses + 1
        /\ UNCHANGED <<pc, job, sent, faults>>
    BY <1>2 DEF LeaseExpires, actorVars, worker
  <2>3. Busy(k)' = Busy(k)
    BY <2>2 DEF Busy, Key
  <2>4. Cardinality(Busy(k)) \in Nat /\ sent[k] \in Nat /\ faults \in Nat /\ lapses \in Nat
    BY <2>1, FS_CardinalityType DEF TypeInv, TypeOK
  <2>5. Credit(k) \in {0, 1} /\ Credit(k)' \in {0, 1}
    BY DEF Credit
  <2> QED
    BY <2>1, <2>2, <2>3, <2>4, <2>5 DEF Owed
<1> QED
  BY <1>1, <1>2, ClaimsPay, StepShape

\* The manual route and the replayers never append a generation twice by merely
\* racing (claim_dlq_replay): each further copy has a failure or an expired lease.
THEOREM CopiesAreAccounted == Spec => []CopiesNeedFailures
<1>1. Init => CopiesPaid
  <2> SUFFICES ASSUME Init, NEW k \in Keys
               PROVE  IsFiniteSet(Busy(k)) /\ Owed(k) <= 1 + faults + lapses
    BY DEF CopiesPaid
  <2>1. Busy(k) = {} /\ sent[k] = 0 /\ faults = 0 /\ lapses = 0
    BY DEF Init, Busy, InFlight
  <2>2. IsFiniteSet(Busy(k)) /\ Cardinality(Busy(k)) = 0
    BY <2>1, FS_EmptySet
  <2>3. Credit(k) \in {0, 1}
    BY DEF Credit
  <2> QED
    BY <2>1, <2>2, <2>3 DEF Owed
<1>2. TypeInv /\ CopiesPaid => CopiesNeedFailures
  <2> SUFFICES ASSUME TypeInv, CopiesPaid, NEW k \in Keys
               PROVE  sent[k] <= 1 + faults + lapses
    BY DEF CopiesNeedFailures
  <2>1. Owed(k) <= 1 + faults + lapses /\ Cardinality(Busy(k)) \in Nat
    BY FS_CardinalityType DEF CopiesPaid
  <2>2. Credit(k) \in {0, 1} /\ sent[k] \in Nat /\ faults \in Nat /\ lapses \in Nat
    BY DEF Credit, TypeInv, TypeOK
  <2> QED
    BY <2>1, <2>2 DEF Owed
<1>3. TypeInv /\ CopiesPaid /\ [Next]_vars => CopiesPaid'
  BY CopiesStep
<1> QED
  BY <1>1, <1>2, <1>3, TypeInit, TypeStep, PTL DEF Spec
-----------------------------------------------------------------------------
(* A replayer that works alone leaves no dead letter behind.  With another *)
(* actor it may: a claim released between the INSERT and the SELECT of     *)
(* claim_dlq_replay is taken for a published one.                          *)

OneActor == \A a, b \in Actors : a = b

Recovered(d) == d.req \in stored \/ sent[<<d.req, d.gen>>] >= 1

\* The records before position n are dealt with.
PassedTo(n) == \A i \in 1..Len(dlq) : i <= n /\ Replayable(dlq[i]) => Recovered(dlq[i])

\* request_statuses says "persisted" of stored events.
StatusTrue == \A r \in Requests : status[r] = "persisted" => r \in stored

\* A replayer commits the offset of a record it has dealt with.
Passing ==
  \A w \in Replayers : pc[w] = "commit_offset" /\ Replayable(job[w]) => Recovered(job[w])

\* The row that made the INSERT do nothing is still there at the SELECT.
LockHasRow == \A a \in Actors : pc[a] = "lock" => Row(a) # None

LeftInv ==
  /\ committed <= Len(dlq) /\ PassedTo(committed)
  /\ \A w \in Replayers : PassedTo(position[w])
  /\ StatusTrue /\ Passing /\ LockHasRow

\* What was dealt with stays so.
LEMMA RecoveredLasts ==
  ASSUME TypeInv, [Next]_vars, NEW d \in Record, Recovered(d)
  PROVE  Recovered(d)'
<1>1. <<d.req, d.gen>> \in Keys
  BY DEF Record, Keys
<1>2. sent[<<d.req, d.gen>>] >= 1 => sent'[<<d.req, d.gen>>] >= 1
  BY <1>1, SentGrows
<1>3. stored \subseteq stored'
  <2>1. CASE \E k \in Keys : WorkerStores(k)
    BY <2>1 DEF WorkerStores
  <2>2. CASE ~\E k \in Keys : WorkerStores(k)
    BY <2>2 DEF Next, vars, worker, ReplayerStep, Proceed, Failure, Poll, Take, CommitOffset,
                CommitOffsetFails, Rewind, Fence, Crash, Call, CallerDies, ReadStatus,
                InsertClaim, LockClaim, ClaimFails, Publish, PublishFails, Mark, MarkFails,
                Release, ReleaseFails, LeaseExpires, WorkerGivesUp, WorkerIsolates
  <2> QED
    BY <2>1, <2>2
<1> QED
  BY <1>2, <1>3 DEF Recovered

\* The DLQ only grows.
LEMMA LogKept ==
  ASSUME TypeInv, [Next]_vars
  PROVE  /\ Len(dlq) \in Nat /\ Len(dlq') \in Nat /\ Len(dlq) <= Len(dlq')
         /\ \A i \in 1..Len(dlq) : dlq[i] \in Record /\ dlq'[i] = dlq[i]
<1>1. dlq \in Seq(Record) /\ dlq' \in Seq(Record)
  BY TypeStep DEF TypeInv, TypeOK
<1>2. dlq' = dlq \/ \E d : dlq' = Append(dlq, d)
  BY DEF Next, vars, logVars, ReplayerStep, Proceed, Failure, Poll, Take, CommitOffset,
         CommitOffsetFails, Rewind, Fence, Crash, Call, CallerDies, ReadStatus,
         InsertClaim, LockClaim, ClaimFails, Publish, PublishFails, Mark, MarkFails,
         Release, ReleaseFails, LeaseExpires, WorkerStores, WorkerGivesUp, WorkerIsolates
<1> QED
  BY <1>1, <1>2

\* So do the records that were passed.
LEMMA PassedLasts ==
  ASSUME TypeInv, [Next]_vars, NEW n \in Nat, n <= Len(dlq), PassedTo(n)
  PROVE  PassedTo(n)'
<1> SUFFICES ASSUME NEW i \in (1..Len(dlq))', (i <= n /\ Replayable(dlq[i]))'
             PROVE  Recovered(dlq[i])'
  BY DEF PassedTo
<1>1. i \in 1..Len(dlq) /\ dlq[i] \in Record /\ dlq'[i] = dlq[i]
  BY LogKept
<1>2. PICK d \in Record : d = dlq[i]
  BY <1>1
<1>3. Recovered(d)'
  BY <1>1, <1>2, RecoveredLasts DEF PassedTo
<1> QED
  BY <1>1, <1>2, <1>3 DEF Recovered

\* The offset of a record that is dealt with may be committed.
LEMMA PassedNext ==
  ASSUME TypeInv, LeftInv, NEW w \in Replayers, pc[w] = "commit_offset"
  PROVE  position[w] + 1 <= Len(dlq) /\ PassedTo(position[w] + 1)
<1>1. /\ position[w] \in Nat /\ position[w] < Len(dlq) /\ job[w] = dlq[position[w] + 1]
      /\ Len(dlq) \in Nat
  BY DEF TypeInv, TypeOK, PositionsInLog
<1>2. \A i \in 1..Len(dlq) : i <= position[w] + 1 => i <= position[w] \/ i = position[w] + 1
  BY <1>1
<1> QED
  BY <1>1, <1>2 DEF LeftInv, Passing, PassedTo

\* Where a replayer stands, and what its group has committed, has been passed.
LEMMA PassedStep ==
  ASSUME TypeInv, [Next]_vars, LeftInv
  PROVE  /\ committed' <= Len(dlq') /\ PassedTo(committed)'
         /\ \A w \in Replayers : PassedTo(position[w])'
<1>0. Len(dlq) \in Nat /\ Len(dlq') \in Nat /\ Len(dlq) <= Len(dlq')
  BY LogKept
<1>1. ASSUME NEW n \in Nat, n <= Len(dlq), PassedTo(n)
      PROVE  n <= Len(dlq') /\ PassedTo(n)'
  BY <1>0, <1>1, PassedLasts
<1>2. /\ committed \in Nat /\ committed <= Len(dlq) /\ PassedTo(committed)
      /\ \A w \in Replayers : position[w] \in Nat /\ position[w] <= Len(dlq) /\ PassedTo(position[w])
  BY DEF LeftInv, TypeInv, TypeOK, PositionsInLog
<1>3. PassedTo(0) /\ 0 <= Len(dlq)
  BY <1>0 DEF PassedTo
<1>4. \/ committed' = committed
      \/ \E w \in Replayers : pc[w] = "commit_offset" /\ committed' = position[w] + 1
  BY DEF Next, vars, logVars, ReplayerStep, Proceed, Failure, Poll, Take, CommitOffset,
         CommitOffsetFails, Rewind, Fence, Crash, Call, CallerDies, ReadStatus,
         InsertClaim, LockClaim, ClaimFails, Publish, PublishFails, Mark, MarkFails,
         Release, ReleaseFails, LeaseExpires, WorkerStores, WorkerGivesUp, WorkerIsolates
<1>5. PICK n \in Nat : n = committed' /\ n <= Len(dlq) /\ PassedTo(n)
  BY <1>2, <1>4, PassedNext
<1>6. committed' <= Len(dlq') /\ PassedTo(committed)'
  BY <1>1, <1>5 DEF PassedTo
<1>7. \/ position' = position
      \/ \E v \in Replayers :
           \/ position' = [position EXCEPT ![v] = 0]
           \/ position' = [position EXCEPT ![v] = committed]
           \/ position' = [position EXCEPT ![v] = position[v]]
           \/ /\ pc[v] = "commit_offset"
              /\ position' = [position EXCEPT ![v] = position[v] + 1]
  BY DEF Next, vars, actorVars, ReplayerStep, Proceed, Failure, Poll, Take, CommitOffset,
         CommitOffsetFails, Rewind, Fence, Crash, Call, CallerDies, ReadStatus,
         InsertClaim, LockClaim, ClaimFails, Publish, PublishFails, Mark, MarkFails,
         Release, ReleaseFails, LeaseExpires, WorkerStores, WorkerGivesUp, WorkerIsolates
<1>8. ASSUME NEW w \in Replayers PROVE PassedTo(position[w])'
  <2>1. \/ position'[w] \in {position[w], committed, 0}
        \/ pc[w] = "commit_offset" /\ position'[w] = position[w] + 1
    BY <1>7 DEF TypeInv, TypeOK
  <2>2. PICK m \in Nat : m = position'[w] /\ m <= Len(dlq) /\ PassedTo(m)
    BY <1>2, <1>3, <2>1, PassedNext
  <2> QED
    BY <1>1, <2>2 DEF PassedTo
<1> QED
  BY <1>6, <1>8

\* A status says "persisted" when the event was stored, and stays true.
LEMMA StatusStep ==
  ASSUME TypeInv, [Next]_vars, StatusTrue
  PROVE  StatusTrue'
<1>1. ASSUME NEW k \in Keys, WorkerStores(k) \/ WorkerGivesUp(k) PROVE StatusTrue'
  <2>1. k[1] \in Requests
    BY DEF Keys
  <2>2. \/ status' = [status EXCEPT ![k[1]] = "persisted"] /\ stored' = stored \cup {k[1]}
        \/ status' = [status EXCEPT ![k[1]] = "failed_dlq"] /\ stored' = stored
    BY <1>1 DEF WorkerStores, WorkerGivesUp
  <2> QED
    BY <2>1, <2>2 DEF StatusTrue, TypeInv, TypeOK
<1>2. CASE ~\E k \in Keys : WorkerStores(k) \/ WorkerGivesUp(k)
  <2>1. UNCHANGED <<status, stored>>
    BY <1>2 DEF Next, vars, worker, ReplayerStep, Proceed, Failure, Poll, Take, CommitOffset,
                CommitOffsetFails, Rewind, Fence, Crash, Call, CallerDies, ReadStatus,
                InsertClaim, LockClaim, ClaimFails, Publish, PublishFails, Mark, MarkFails,
                Release, ReleaseFails, LeaseExpires, WorkerIsolates
  <2> QED
    BY <2>1 DEF StatusTrue
<1> QED
  BY <1>1, <1>2

\* A replayer that is done with its record has its outcome.
LEMMA DoneIsRecovered ==
  ASSUME TypeInv, SentInv, LeftInv, NEW w \in Replayers, Proceed(w) \/ Failure(w),
         pc'[w] = "commit_offset"
  PROVE  Recovered(job[w])
<1>1. w \in Actors /\ (Raise(w) => Goto(w, "rewind"))
  BY DEF Actors, Raise
<1>2. \A phase \in Phases : Goto(w, phase) => phase = "commit_offset"
  BY <1>1, GotoType DEF TypeInv
<1>3. /\ ~Goto(w, "insert") /\ ~Goto(w, "lock") /\ ~Goto(w, "publish") /\ ~Goto(w, "release")
      /\ ~Goto(w, "mark") /\ ~Raise(w)
  BY <1>1, <1>2 DEF Phases
<1>4. \/ pc[w] = "status" /\ status[job[w].req] = "persisted"
      \/ pc[w] = "lock" /\ ~Claimed(Key(w))
      \/ pc[w] = "mark"
  BY <1>3 DEF Proceed, Failure, ReadStatus, InsertClaim, LockClaim, Publish, Mark, Release,
              ClaimFails, PublishFails, MarkFails, ReleaseFails
<1>5. job[w].req \in Requests /\ Key(w) \in Keys /\ Key(w) = <<job[w].req, job[w].gen>>
  BY <1>1, <1>4, KeyOfWorking DEF Key, Working
<1>6. CASE pc[w] = "status" /\ status[job[w].req] = "persisted"
  BY <1>5, <1>6 DEF LeftInv, StatusTrue, Recovered
<1>7. CASE pc[w] = "lock" /\ ~Claimed(Key(w))
  BY <1>1, <1>5, <1>7 DEF LeftInv, LockHasRow, Row, SentInv, PublishedIsSent, Recovered
<1>8. CASE pc[w] = "mark"
  BY <1>1, <1>5, <1>8 DEF SentInv, MarkIsSent, Recovered
<1> QED
  BY <1>4, <1>6, <1>7, <1>8

\* Nobody moves a replayer but itself.
LEMMA OwnSteps ==
  ASSUME TypeInv, [Next]_vars, NEW w \in Replayers
  PROVE  \/ pc'[w] = pc[w] /\ job'[w] = job[w]
         \/ Proceed(w) \/ Failure(w) \/ Take(w)
         \/ pc'[w] \in {"idle", "rewind"}
<1> DEFINE Moves(a) == /\ \E x : pc' = [pc EXCEPT ![a] = x]
                       /\ job' = job \/ \E x : job' = [job EXCEPT ![a] = x]
<1>0. /\ w \in Actors /\ w \notin Callers /\ \A v \in Replayers : v \in Actors
      /\ pc \in [Actors -> Phases] /\ job \in [Actors -> Record \cup {None}]
  BY ConstantsAssumption DEF Actors, TypeInv, TypeOK
<1>1. ASSUME NEW a \in Actors, a # w, Moves(a) PROVE pc'[w] = pc[w] /\ job'[w] = job[w]
  BY <1>0, <1>1
<1>2. ASSUME NEW a \in Actors, Proceed(a) \/ Failure(a) PROVE Moves(a)
  BY <1>2 DEF Proceed, Failure, ReadStatus, InsertClaim, LockClaim, Publish, Mark, Release,
              ClaimFails, PublishFails, MarkFails, ReleaseFails, Goto, Done, Raise
<1>3. ASSUME NEW v \in Replayers,
             Take(v) \/ CommitOffset(v) \/ CommitOffsetFails(v) \/ Rewind(v) \/ Crash(v)
      PROVE  Moves(v)
  BY <1>3 DEF Take, CommitOffset, CommitOffsetFails, Rewind, Crash, Goto
<1>4. ASSUME NEW c \in Callers, CallerDies(c) \/ \E r \in Requests : Call(c, r) PROVE Moves(c)
  BY <1>4 DEF CallerDies, Call, Goto
<1>5. CASE \/ Fence \/ UNCHANGED vars
           \/ \E v \in Replayers : Poll(v)
           \/ \E k \in Keys : LeaseExpires(k) \/ WorkerStores(k) \/ WorkerGivesUp(k)
           \/ \E r \in Requests : WorkerIsolates(r)
  BY <1>5 DEF Fence, Poll, LeaseExpires, WorkerStores, WorkerGivesUp, WorkerIsolates, vars, actorVars
<1>6. CASE CommitOffset(w) \/ CommitOffsetFails(w) \/ Rewind(w) \/ Crash(w)
  <2>1. Goto(w, "idle") \/ Goto(w, "rewind")
    BY <1>6 DEF CommitOffset, CommitOffsetFails, Rewind, Crash
  <2> QED
    BY <1>0, <2>1 DEF Goto
<1> HIDE DEF Moves
<1>7. CASE \E a \in Actors : Proceed(a) \/ Failure(a)
  BY <1>1, <1>2, <1>7
<1>8. CASE \E v \in Replayers :
             Take(v) \/ CommitOffset(v) \/ CommitOffsetFails(v) \/ Rewind(v) \/ Crash(v)
  BY <1>0, <1>1, <1>3, <1>6, <1>8
<1>9. CASE \E c \in Callers : CallerDies(c) \/ \E r \in Requests : Call(c, r)
  BY <1>0, <1>1, <1>4, <1>9 DEF Actors
<1>10. CASE Next
  <2>1. \/ \E a \in Actors : Proceed(a) \/ Failure(a)
        \/ \E v \in Replayers :
             Take(v) \/ CommitOffset(v) \/ CommitOffsetFails(v) \/ Rewind(v) \/ Crash(v)
        \/ \E c \in Callers : CallerDies(c) \/ \E r \in Requests : Call(c, r)
        \/ Fence \/ \E v \in Replayers : Poll(v)
        \/ \E k \in Keys : LeaseExpires(k) \/ WorkerStores(k) \/ WorkerGivesUp(k)
        \/ \E r \in Requests : WorkerIsolates(r)
    BY <1>10 DEF Next, ReplayerStep, Actors
  <2> QED
    BY <1>5, <1>7, <1>8, <1>9, <2>1
<1> QED
  BY <1>5, <1>10

\* Every step keeps the outcomes of the records about to be committed.
LEMMA PassingStep ==
  ASSUME TypeInv, [Next]_vars, SentInv, LeftInv
  PROVE  Passing'
<1> SUFFICES ASSUME NEW w \in Replayers, (pc[w] = "commit_offset" /\ Replayable(job[w]))'
             PROVE  Recovered(job[w])'
  BY DEF Passing
<1>1. w \in Actors
  BY DEF Actors
<1>2. CASE pc'[w] = pc[w] /\ job'[w] = job[w]
  <2>1. position[w] \in Nat /\ position[w] < Len(dlq) /\ job[w] = dlq[position[w] + 1]
    BY <1>2 DEF TypeInv, TypeOK, PositionsInLog
  <2>2. position[w] + 1 \in 1..Len(dlq)
    BY <2>1, LogKept
  <2>3. PICK d \in Record : d = job[w]
    BY <2>1, <2>2, LogKept
  <2>4. Recovered(d)
    BY <1>2, <2>3 DEF LeftInv, Passing, Replayable
  <2>5. Recovered(d)'
    BY <2>4, RecoveredLasts
  <2> QED
    BY <1>2, <2>3, <2>5 DEF Recovered
<1>3. CASE Proceed(w) \/ Failure(w)
  <2>1. pc[w] \in Working /\ job' = job
    BY <1>3 DEF Proceed, Failure, ReadStatus, InsertClaim, LockClaim, Publish, Mark, Release,
                ClaimFails, PublishFails, MarkFails, ReleaseFails, Working
  <2>2. PICK d \in Record : d = job[w]
    BY <1>1, <2>1, KeyOfWorking
  <2>3. Recovered(d)
    BY <1>3, <2>2, DoneIsRecovered
  <2>4. Recovered(d)'
    BY <2>3, RecoveredLasts
  <2> QED
    BY <2>1, <2>2, <2>4 DEF Recovered
<1>4. CASE Take(w)
  <2>1. /\ Replayable(dlq[position[w] + 1]) => Goto(w, "status")
        /\ job' = [job EXCEPT ![w] = dlq[position[w] + 1]]
    BY <1>4 DEF Take
  <2>2. Goto(w, "status") => pc'[w] = "status"
    BY <1>1, GotoType DEF TypeInv, Phases
  <2>3. job'[w] = dlq[position[w] + 1]
    BY <1>1, <2>1 DEF TypeInv, TypeOK
  <2> QED
    BY <2>1, <2>2, <2>3 DEF Replayable
<1> QED
  BY <1>2, <1>3, <1>4, OwnSteps

\* With one actor, a row that was found is not released before it is read.
LEMMA LockStep ==
  ASSUME TypeInv, [Next]_vars, OneActor, LockHasRow
  PROVE  LockHasRow'
<1> SUFFICES ASSUME NEW a \in Actors, pc'[a] = "lock"
             PROVE  Row(a)' # None
  BY DEF LockHasRow
<1>1. CASE Aside
  <2>1. pc[a] = "lock" /\ job'[a] = job[a] /\ claims' = claims
    BY <1>1 DEF Aside
  <2> QED
    BY <2>1 DEF LockHasRow, Row, Key
<1>2. ASSUME NEW k \in Keys, LeaseExpires(k) PROVE Row(a)' # None
  <2>1. /\ claims[k] # None /\ claims' = [claims EXCEPT ![k].expired = TRUE]
        /\ UNCHANGED <<pc, job>>
    BY <1>2 DEF LeaseExpires, Claimed, actorVars
  <2>2. claims \in [Keys -> Claim \cup {None}] /\ claims[k] \in Claim
    BY <2>1 DEF TypeInv, TypeOK
  <2>3. claims'[k] = [claims[k] EXCEPT !.expired = TRUE] /\ claims'[k] \in Claim
    BY <2>1, <2>2 DEF Claim
  <2>4. claims'[k] # None
    BY <2>3, NoneAssumption
  <2>5. Key(a)' = Key(a) /\ Key(a) \in Keys /\ claims[Key(a)] # None
    BY <2>1, KeyOfWorking DEF Key, LockHasRow, Row, Working
  <2> QED
    BY <2>1, <2>2, <2>4, <2>5 DEF Row
<1>3. ASSUME NEW b \in Actors, Claims(b) PROVE Row(a)' # None
  <2>1. a = b
    BY DEF OneActor
  <2>2. \A phase \in Phases : Goto(a, phase) => phase = "lock"
    BY GotoType DEF TypeInv
  <2>3. /\ ~Goto(a, "publish") /\ ~Goto(a, "mark") /\ ~Goto(a, "release") /\ ~Done(a) /\ ~Raise(a)
    BY <2>2, EndIsMove DEF Phases
  <2>4. Row(a) # None /\ claims' = claims /\ job' = job
    BY <1>3, <2>1, <2>3 DEF Claims, InsertClaim, LockClaim, ClaimFails, Publish, PublishFails,
                            Mark, Release
  <2> QED
    BY <2>4 DEF Row, Key
<1> QED
  BY <1>1, <1>2, <1>3, StepShape

\* When one replayer works the DLQ and no manual call comes, the group's offset
\* passes a dead letter that may be replayed only when its event is stored or a
\* copy is back in the ingress topic (dlq_replayer.py commits after replay_one).
THEOREM SingleLeavesNothing == ASSUME OneActor PROVE Spec => []NothingLeftBehind
<1> DEFINE Inv == TypeInv /\ SentInv /\ LeftInv
<1>1. Init => Inv
  <2> SUFFICES ASSUME Init PROVE SentInv /\ LeftInv
    BY TypeInit
  <2> QED
    BY DEF Init, SentInv, PublishedIsSent, MarkIsSent, LeftInv, PassedTo, StatusTrue, Passing,
           LockHasRow, Actors
<1>2. Inv /\ [Next]_vars => Inv'
  <2> SUFFICES ASSUME Inv, [Next]_vars PROVE Inv'
    OBVIOUS
  <2>1. TypeInv' /\ SentInv'
    BY TypeStep, SentStep
  <2>2. LeftInv'
    BY PassedStep, PassingStep, StatusStep, LockStep DEF LeftInv
  <2> QED
    BY <2>1, <2>2
<1>3. Inv => NothingLeftBehind
  BY DEF LeftInv, PassedTo, Recovered, NothingLeftBehind
<1> QED
  BY <1>1, <1>2, <1>3, PTL DEF Spec
=============================================================================

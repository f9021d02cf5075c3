----------------------------- MODULE EventStore -----------------------------
(***************************************************************************)
(* What the ingestion pipeline promises its callers, without workers,      *)
(* offsets, retries or tables: every stream is an append-only log in which *)
(* a request appears at most once, an idempotency key is answered by one   *)
(* event, and a stored event comes with the intent to notify.              *)
(***************************************************************************)
EXTENDS Sequences, Naturals

CONSTANTS Requests, Streams, Keys, None, StreamOf, KeyOf, LegacyKeys

VARIABLES
  submitted,   \* requests whose job reached the ingress topic
  log,         \* the stored events of each stream, in sequence order
  answered,    \* idempotency keys that have their answer
  notified     \* requests whose notification intent is recorded

storeVars == <<submitted, log, answered, notified>>

Stored(r) == \E n \in 1..Len(log[StreamOf[r]]) : log[StreamOf[r]][n] = r

Init ==
  /\ submitted = {}
  /\ log = [s \in Streams |-> << >>]
  /\ answered = LegacyKeys
  /\ notified = {}

Submit(r) ==
  /\ submitted' = submitted \cup {r}
  /\ UNCHANGED <<log, answered, notified>>

Store(r) ==
  /\ r \in submitted
  /\ ~Stored(r)
  /\ KeyOf[r] # None => KeyOf[r] \notin answered
  /\ log' = [log EXCEPT ![StreamOf[r]] = Append(@, r)]
  /\ answered' = IF KeyOf[r] = None THEN answered ELSE answered \cup {KeyOf[r]}
  /\ notified' = notified \cup {r}
  /\ UNCHANGED submitted

Next == \E r \in Requests : Submit(r) \/ Store(r)

Spec == Init /\ [][Next]_storeVars
=============================================================================

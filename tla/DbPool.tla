------------------------------- MODULE DbPool -------------------------------
(***************************************************************************)
(* The connection pool of a process (portfolio/db.py) under the threads of *)
(* the API (portfolio/main.py): request threads that check connections     *)
(* out, the startup that installs a pool and migrates the schema, first in *)
(* the lifespan and then in a thread of its own, and the shutdown.         *)
(*                                                                         *)
(* Everything under _pool_lock is one step; what is read or called outside *)
(* of it (the test for None, the creation and the final closing of pools)  *)
(* is a step of its own.  A pool is named by its id(), which Python gives  *)
(* again once the object is gone.                                          *)
(***************************************************************************)
EXTENDS Integers, FiniteSets

CONSTANTS
    Threads,     \* threads that serve requests and readiness probes
    Startup,     \* the actor of _initialize_db_startup
    Pools,       \* ids pools can have
    None,        \* no pool
    MaxConn,     \* connections of one pool (db_pool_maxconn)
    Retries,     \* attempts of one init_pool_with_retry (startup_retries)
    MaxFaults    \* bound on outages and failed migrations

ASSUME PoolAssumption ==
    /\ Startup \notin Threads
    /\ IsFiniteSet(Threads)
    /\ None \notin Pools
    /\ MaxConn \in Nat \ {0}
    /\ Retries \in Nat \ {0}
    /\ MaxFaults \in Nat

Actors == Threads \cup {Startup}

VARIABLES
    pool,       \* _pool
    retired,    \* keys of _retired_pools
    active,     \* _pool_active; an absent key counts like 0
    opened,     \* pools created and not closed
    closing,    \* what close_pool collected and still has to close
    pc,         \* where an actor is
    mine,       \* the pool an actor creates, or holds a connection of
    attempt,    \* failed attempts of the running init_pool_with_retry
    ready,      \* _db_startup_ready
    phase,      \* of the lifespan; "stopping" once _db_startup_stop is set
    dbUp,       \* PostgreSQL accepts connections
    faults      \* failures so far

poolVars == <<pool, retired, active, opened, closing>>
processVars == <<attempt, ready, phase>>
dbVars == <<dbUp, faults>>
vars == <<poolVars, pc, mine, processVars, dbVars>>

Places == {"idle", "create", "install", "checkout", "using", "migrate", "wait", "done"}

TypeOK ==
    /\ pool \in Pools \cup {None}
    /\ retired \subseteq Pools
    /\ active \in [Pools -> Nat]
    /\ opened \subseteq Pools
    /\ closing \subseteq Pools
    /\ pc \in [Actors -> Places]
    /\ mine \in [Actors -> Pools \cup {None}]
    /\ attempt \in 0 .. Retries
    /\ ready \in BOOLEAN
    /\ phase \in {"starting", "up", "stopping", "stopped"}
    /\ dbUp \in BOOLEAN
    /\ faults \in 0 .. MaxFaults

Init ==
    /\ pool = None
    /\ retired = {}
    /\ active = [p \in Pools |-> 0]
    /\ opened = {}
    /\ closing = {}
    /\ pc = [a \in Actors |-> IF a = Startup THEN "create" ELSE "idle"]
    /\ mine = [a \in Actors |-> None]
    /\ attempt = 0
    /\ ready = FALSE
    /\ phase = "starting"
    /\ dbUp \in BOOLEAN
    /\ faults = 0

Users(p) == {t \in Threads : pc[t] = "using" /\ mine[t] = p}

Goto(a, place) == pc' = [pc EXCEPT ![a] = place]

-----------------------------------------------------------------------------
(* Creating and installing a pool                                          *)

\* An id is free when no variable of the process refers to its pool; Pools
\* bounds how many the process may know at a time.
FreeIds ==
    Pools \ (opened \cup retired \cup closing \cup {pool} \cup {mine[a] : a \in Actors})

CreatePool(a) ==
    /\ pc[a] = "create"
    /\ dbUp
    /\ \E p \in FreeIds :
        /\ opened' = opened \cup {p}
        /\ mine' = [mine EXCEPT ![a] = p]
    /\ Goto(a, "install")
    /\ UNCHANGED <<pool, retired, active, closing, processVars, dbVars>>

RetireOrClose_Always(old) ==
    IF old = None
    THEN UNCHANGED <<retired, opened>>
    ELSE opened' = opened \ {old} /\ UNCHANGED retired

RetireOrClose_Dropped(old) ==
    IF old # None /\ active[old] = 0
    THEN opened' = opened \ {old} /\ UNCHANGED retired
    ELSE UNCHANGED <<retired, opened>>

\* What happens to the pool that is replaced: closed at once, or kept until
\* its last connection comes back.
RetireOrClose(old) ==
    IF old = None
    THEN UNCHANGED <<retired, opened>>
    ELSE IF active[old] = 0
         THEN opened' = opened \ {old} /\ UNCHANGED retired
         ELSE retired' = retired \cup {old} /\ UNCHANGED opened

InstallPool(a) ==
    /\ pc[a] = "install"
    /\ pool' = mine[a]
    /\ RetireOrClose(pool)
    /\ mine' = [mine EXCEPT ![a] = None]
    /\ Goto(a, IF a = Startup THEN "migrate" ELSE "checkout")
    /\ UNCHANGED <<active, closing, processVars, dbVars>>

-----------------------------------------------------------------------------
(* Connections                                                             *)

\* get_conn looks at _pool without the lock.  Routes of the API wait for
\* _db_startup_ready, readiness probes do not.
GetConn(t) ==
    /\ pc[t] = "idle"
    /\ phase = "up"
    /\ Goto(t, IF pool = None THEN "create" ELSE "checkout")
    /\ UNCHANGED <<poolVars, mine, processVars, dbVars>>

ReconnectFails(t) ==
    /\ pc[t] = "create"
    /\ ~dbUp
    /\ Goto(t, "idle")
    /\ UNCHANGED <<poolVars, mine, processVars, dbVars>>

Checkout(t) ==
    /\ pc[t] = "checkout"
    /\ pool # None
    /\ Cardinality(Users(pool)) < MaxConn
    /\ active' = [active EXCEPT ![pool] = @ + 1]
    /\ mine' = [mine EXCEPT ![t] = pool]
    /\ Goto(t, "using")
    /\ UNCHANGED <<pool, retired, opened, closing, processVars, dbVars>>

\* The pool is gone or exhausted, or needs a connection it cannot make.
CheckoutFails(t) ==
    /\ pc[t] = "checkout"
    /\ \/ pool = None
       \/ Cardinality(Users(pool)) >= MaxConn
       \/ ~dbUp
    /\ Goto(t, "idle")
    /\ UNCHANGED <<poolVars, mine, processVars, dbVars>>

Remaining(p) == IF active[p] > 0 THEN active[p] - 1 ELSE 0

CloseIfLast_Never(p) == UNCHANGED <<retired, opened>>

\* The last connection of a retired pool closes it.  putconn fails when
\* close_pool has closed the pool, the count is taken down all the same.
CloseIfLast(p) ==
    IF p \in retired /\ Remaining(p) = 0
    THEN retired' = retired \ {p} /\ opened' = opened \ {p}
    ELSE UNCHANGED <<retired, opened>>

\* The count is taken down only when putconn works.
ReturnConnection_CountedOnSuccess(t) ==
    LET p == mine[t] IN
    /\ pc[t] = "using"
    /\ \/ /\ active' = [active EXCEPT ![p] = Remaining(p)]
          /\ CloseIfLast(p)
       \/ ~dbUp /\ UNCHANGED <<active, retired, opened>>
    /\ mine' = [mine EXCEPT ![t] = None]
    /\ Goto(t, "idle")
    /\ UNCHANGED <<pool, closing, processVars, dbVars>>

ReturnConnection(t) ==
    LET p == mine[t] IN
    /\ pc[t] = "using"
    /\ active' = [active EXCEPT ![p] = Remaining(p)]
    /\ CloseIfLast(p)
    /\ mine' = [mine EXCEPT ![t] = None]
    /\ Goto(t, "idle")
    /\ UNCHANGED <<pool, closing, processVars, dbVars>>

-----------------------------------------------------------------------------
(* Startup                                                                 *)

\* No thread is started, or it ends with the first exception.
StartupFailed_NoRetry ==
    /\ Goto(Startup, "done")
    /\ attempt' = 0
    /\ phase' = IF phase = "starting" THEN "up" ELSE phase
    /\ UNCHANGED ready

\* The lifespan goes on without readiness and leaves the rest to the thread.
StartupFailed ==
    /\ Goto(Startup, "wait")
    /\ attempt' = 0
    /\ phase' = IF phase = "starting" THEN "up" ELSE phase
    /\ UNCHANGED ready

InitAttemptFails ==
    /\ pc[Startup] = "create"
    /\ ~dbUp
    /\ \/ attempt + 1 < Retries /\ attempt' = attempt + 1 /\ UNCHANGED <<pc, ready, phase>>
       \/ attempt + 1 >= Retries /\ StartupFailed
    /\ UNCHANGED <<poolVars, mine, dbVars>>

Migrate ==
    /\ pc[Startup] = "migrate"
    /\ dbUp
    /\ ready' = TRUE
    /\ attempt' = 0
    /\ phase' = IF phase = "starting" THEN "up" ELSE phase
    /\ Goto(Startup, "done")
    /\ UNCHANGED <<poolVars, mine, dbVars>>

\* PostgreSQL is not there, or refuses a migration.
MigrateFails ==
    /\ pc[Startup] = "migrate"
    /\ \/ ~dbUp /\ UNCHANGED faults
       \/ dbUp /\ faults < MaxFaults /\ faults' = faults + 1
    /\ StartupFailed
    /\ UNCHANGED <<poolVars, mine, dbUp>>

\* The retry thread looks at the stop event only between two attempts.
RetryStartup ==
    /\ pc[Startup] = "wait"
    /\ Goto(Startup, IF phase = "up" THEN "create" ELSE "done")
    /\ UNCHANGED <<poolVars, mine, processVars, dbVars>>

-----------------------------------------------------------------------------
(* Shutdown and the database                                               *)

\* Requests may still be under way; the server takes no new ones.
Stop ==
    /\ phase = "up"
    /\ phase' = "stopping"
    /\ UNCHANGED <<poolVars, pc, mine, attempt, ready, dbVars>>

\* close_pool under the lock.
ClosePool ==
    /\ phase = "stopping"
    /\ phase' = "stopped"
    /\ closing' = (retired \cup {pool}) \ {None}
    /\ pool' = None
    /\ retired' = {}
    /\ active' = [p \in Pools |-> 0]
    /\ UNCHANGED <<opened, pc, mine, attempt, ready, dbVars>>

\* close_pool after the lock: closeall closes connections in use as well.
CloseCollected ==
    \E p \in closing :
        /\ closing' = closing \ {p}
        /\ opened' = opened \ {p}
        /\ UNCHANGED <<pool, retired, active, pc, mine, processVars, dbVars>>

DatabaseDown ==
    /\ dbUp
    /\ faults < MaxFaults
    /\ dbUp' = FALSE
    /\ faults' = faults + 1
    /\ UNCHANGED <<poolVars, pc, mine, processVars>>

DatabaseUp ==
    /\ ~dbUp
    /\ dbUp' = TRUE
    /\ UNCHANGED <<poolVars, pc, mine, processVars, faults>>

-----------------------------------------------------------------------------
\* What a thread does once a request has started it.
ThreadStep(t) ==
    \/ CreatePool(t)
    \/ ReconnectFails(t)
    \/ InstallPool(t)
    \/ Checkout(t)
    \/ CheckoutFails(t)
    \/ ReturnConnection(t)

StartupStep ==
    \/ CreatePool(Startup)
    \/ InitAttemptFails
    \/ InstallPool(Startup)
    \/ Migrate
    \/ MigrateFails
    \/ RetryStartup

Next ==
    \/ \E t \in Threads : GetConn(t) \/ ThreadStep(t)
    \/ StartupStep
    \/ Stop
    \/ ClosePool
    \/ CloseCollected
    \/ DatabaseDown
    \/ DatabaseUp

Spec == Init /\ [][Next]_vars

\* Threads run, outages end; nobody has to send requests or stop the process.
FairSpec ==
    /\ Spec
    /\ \A t \in Threads : WF_vars(ThreadStep(t))
    /\ WF_vars(StartupStep)
    /\ WF_vars(CloseCollected)
    /\ WF_vars(DatabaseUp)

-----------------------------------------------------------------------------
(* Properties                                                              *)

(***************************************************************************)
(* The counts are right for every pool the process still knows, and a pool *)
(* is kept retired only while somebody uses it.  _install_pool decides by  *)
(* the count whether to close, _return_connection when to close.           *)
(***************************************************************************)
CountsAgree ==
    /\ \A p \in (retired \cup {pool}) \ {None} : active[p] = Cardinality(Users(p))
    /\ \A p \in retired : Users(p) # {}

(***************************************************************************)
(* No pool is lost: an open one is the current one, retired, about to be   *)
(* closed by close_pool, or in the hands of the thread that created it.    *)
(***************************************************************************)
NoPoolForgotten ==
    opened \subseteq
        {pool} \cup retired \cup closing \cup {mine[a] : a \in {b \in Actors : pc[b] = "install"}}

(***************************************************************************)
(* Only close_pool takes a connection away from its user: however pools    *)
(* are replaced by probes and by the startup thread, a pool that closes    *)
(* while a thread holds a connection of it was collected at shutdown.      *)
(***************************************************************************)
NoneCutOff ==
    [][\A t \in Threads :
            (pc[t] = "using" /\ pc'[t] = "using" /\ mine[t] \in opened \ opened')
                => mine[t] \in closing]_vars

(***************************************************************************)
(* A replaced pool is closed in the end.                                   *)
(***************************************************************************)
RetiredPoolCloses ==
    \A p \in Pools : (p \in retired) ~> (p \notin opened)

(***************************************************************************)
(* A process that came up without PostgreSQL gets ready by itself once     *)
(* outages end, whatever pools its probes install in the meantime.         *)
(***************************************************************************)
StartupCompletes ==
    (phase = "up") ~> (ready \/ phase # "up")
=============================================================================

---------------------------- MODULE DbPoolProofs ----------------------------
(***************************************************************************)
(* Theorems about DbPool, for every set of threads and every limit: the    *)
(* counts are right, no pool is lost, no connection is cut off.            *)
(***************************************************************************)
EXTENDS DbPool, FiniteSetTheorems, TLAPS

\* An actor has a pool exactly while it installs one or uses one of its
\* connections, and the startup uses none.
MineMatchesPlace ==
  \A a \in Actors :
    /\ pc[a] \in {"install", "using"} <=> mine[a] # None
    /\ pc[a] = "using" => a \in Threads

\* A pool is in one place only: current, retired, collected or with the
\* one actor that is about to install it; and there it is open.
PoolsApart ==
  /\ pool # None => pool \in opened
  /\ retired \subseteq opened
  /\ closing \subseteq opened
  /\ pool \notin retired
  /\ pool \notin closing
  /\ retired \cap closing = {}
  /\ phase # "stopped" => closing = {}
  /\ \A a \in Actors : pc[a] = "install" =>
       /\ mine[a] \in opened
       /\ mine[a] \notin retired
       /\ mine[a] \notin closing
       /\ mine[a] # pool
       /\ \A b \in Actors \ {a} : mine[b] # mine[a]

\* A pool that is neither current nor retired has no count, which is what
\* the next pool with its id starts from.
NoStaleCount ==
  \A p \in Pools : p # pool /\ p \notin retired => active[p] = 0

PoolInv ==
  TypeOK /\ MineMatchesPlace /\ PoolsApart /\ NoStaleCount /\ CountsAgree /\ NoPoolForgotten
-----------------------------------------------------------------------------
(* The users of a pool                                                     *)

\* Users are threads, so there are finitely many.
LEMMA UsersFinite ==
  ASSUME NEW p
  PROVE  IsFiniteSet(Users(p)) /\ Cardinality(Users(p)) \in Nat
<1>1. Users(p) \subseteq Threads
  BY DEF Users
<1>2. IsFiniteSet(Threads)
  BY PoolAssumption
<1> QED
  BY <1>1, <1>2, FS_Subset, FS_CardinalityType

\* A pool has the same users as long as nobody enters or leaves "using".
LEMMA SameUsers ==
  ASSUME \A t \in Threads : pc'[t] = "using" <=> pc[t] = "using",
         \A t \in Threads : pc[t] = "using" => mine'[t] = mine[t]
  PROVE  \A p : Users(p)' = Users(p)
BY DEF Users

\* A count of zero means that there is no user.
LEMMA UnusedWhenZero ==
  ASSUME PoolInv, NEW p \in Pools, p = pool \/ p \in retired, active[p] = 0
  PROVE  Users(p) = {}
<1>1. Cardinality(Users(p)) = 0
  <2>1. p # None
    BY PoolAssumption
  <2> QED
    BY <2>1 DEF PoolInv, CountsAgree
<1> QED
  BY <1>1, UsersFinite, FS_EmptySet
-----------------------------------------------------------------------------
(* Steps that leave the pools alone                                        *)

\* What most steps of the startup, of failing checkouts and of the database
\* have in common.
Quiet ==
  /\ UNCHANGED <<poolVars, mine>>
  /\ \A a \in Actors : pc'[a] # pc[a] => {pc[a], pc'[a]} \cap {"using", "install"} = {}
  /\ phase' # "stopped" => phase # "stopped"

\* The invariant survives a quiet step that keeps the types.
LEMMA QuietStep ==
  ASSUME PoolInv, Quiet, TypeOK'
  PROVE  PoolInv'
<1>1. \A a \in Actors : /\ pc'[a] = "using" <=> pc[a] = "using"
                        /\ pc'[a] = "install" <=> pc[a] = "install"
  BY DEF Quiet
<1>2. UNCHANGED <<pool, retired, active, opened, closing, mine>>
  BY DEF Quiet, poolVars
<1>3. \A p : Users(p)' = Users(p)
  BY <1>1, <1>2, SameUsers DEF Actors
<1>4. MineMatchesPlace' /\ PoolsApart'
  BY <1>1, <1>2 DEF PoolInv, MineMatchesPlace, PoolsApart, Quiet
<1>5. NoStaleCount'
  BY <1>2 DEF PoolInv, NoStaleCount
<1>6. CountsAgree'
  BY <1>2, <1>3 DEF PoolInv, CountsAgree
<1>7. {a \in Actors : pc'[a] = "install"} = {a \in Actors : pc[a] = "install"}
  BY <1>1
<1>8. NoPoolForgotten'
  BY <1>2, <1>7 DEF PoolInv, NoPoolForgotten
<1> QED
  BY <1>4, <1>5, <1>6, <1>8 DEF PoolInv
-----------------------------------------------------------------------------
(* Types                                                                   *)

LEMMA RetireOrCloseType ==
  ASSUME TypeOK, NEW old \in Pools \cup {None}, RetireOrClose(old)
  PROVE  retired' \subseteq Pools /\ opened' \subseteq Pools
BY DEF TypeOK, RetireOrClose

\* Every step keeps the types.
LEMMA TypeStep ==
  ASSUME TypeOK, MineMatchesPlace, [Next]_vars
  PROVE  TypeOK'
<1> USE DEF TypeOK, poolVars, processVars, dbVars
<1>1. ASSUME NEW a \in Actors, CreatePool(a) PROVE TypeOK'
  BY <1>1 DEF CreatePool, Goto, FreeIds, Places
<1>2. ASSUME NEW a \in Actors, InstallPool(a) PROVE TypeOK'
  <2>1. retired' \subseteq Pools /\ opened' \subseteq Pools
    BY <1>2, RetireOrCloseType DEF InstallPool
  <2>2. pool' \in Pools \cup {None} /\ pc' \in [Actors -> Places]
    BY <1>2 DEF InstallPool, Goto, Places
  <2>3. mine' \in [Actors -> Pools \cup {None}]
    BY <1>2 DEF InstallPool
  <2> QED
    BY <1>2, <2>1, <2>2, <2>3 DEF InstallPool
<1>3. ASSUME NEW t \in Threads, GetConn(t) \/ ReconnectFails(t) \/ CheckoutFails(t) PROVE TypeOK'
  BY <1>3 DEF GetConn, ReconnectFails, CheckoutFails, Goto, Places
<1>4. ASSUME NEW t \in Threads, Checkout(t) PROVE TypeOK'
  <2>1. pool \in Pools
    BY <1>4 DEF Checkout
  <2>2. active' \in [Pools -> Nat]
    BY <1>4, <2>1 DEF Checkout
  <2>3. mine' \in [Actors -> Pools \cup {None}] /\ pc' \in [Actors -> Places]
    BY <1>4 DEF Checkout, Goto, Places
  <2> QED
    BY <1>4, <2>2, <2>3 DEF Checkout
<1>5. ASSUME NEW t \in Threads, ReturnConnection(t) PROVE TypeOK'
  <2>1. mine[t] \in Pools
    BY <1>5 DEF ReturnConnection, MineMatchesPlace, Actors
  <2>2. Remaining(mine[t]) \in Nat
    BY <2>1 DEF Remaining
  <2>3. active' \in [Pools -> Nat]
    BY <1>5, <2>1, <2>2 DEF ReturnConnection
  <2>4. retired' \subseteq Pools /\ opened' \subseteq Pools
    BY <1>5 DEF ReturnConnection, CloseIfLast
  <2>5. mine' \in [Actors -> Pools \cup {None}] /\ pc' \in [Actors -> Places]
    BY <1>5 DEF ReturnConnection, Goto, Places
  <2> QED
    BY <1>5, <2>3, <2>4, <2>5 DEF ReturnConnection
<1>6. CASE InitAttemptFails
  BY <1>6, PoolAssumption DEF InitAttemptFails, StartupFailed, Goto, Places
<1>7. CASE Migrate
  <2>a. attempt' = 0 /\ Goto(Startup, "done") /\ UNCHANGED <<poolVars, mine, dbVars>>
    BY <1>7 DEF Migrate
  <2>b. attempt' \in 0 .. Retries
    BY <2>a, PoolAssumption
  <2>1. pc' \in [Actors -> Places]
    BY <2>a DEF Goto, Places
  <2>2. ready' \in BOOLEAN
    BY <1>7, Zenon DEF Migrate
  <2>3. phase' \in {"starting", "up", "stopping", "stopped"}
    BY <1>7 DEF Migrate
  <2> QED
    BY <2>a, <2>b, <2>1, <2>2, <2>3
<1>8. CASE MigrateFails
  <2>a. attempt' = 0 /\ Goto(Startup, "wait")
    BY <1>8 DEF MigrateFails, StartupFailed
  <2>b. attempt' \in 0 .. Retries
    BY <2>a, PoolAssumption
  <2>1. pc' \in [Actors -> Places]
    BY <2>a DEF Goto, Places
  <2>2. phase' \in {"starting", "up", "stopping", "stopped"}
    BY <1>8 DEF MigrateFails, StartupFailed
  <2>3. faults' \in 0 .. MaxFaults
    BY <1>8, PoolAssumption DEF MigrateFails
  <2>4. UNCHANGED <<poolVars, mine, ready, dbUp>>
    BY <1>8 DEF MigrateFails, StartupFailed
  <2> QED
    BY <2>b, <2>1, <2>2, <2>3, <2>4
<1>9. CASE RetryStartup
  BY <1>9 DEF RetryStartup, Goto, Places
<1>10. CASE Stop
  BY <1>10 DEF Stop
<1>11. CASE ClosePool
  BY <1>11 DEF ClosePool
<1>12. CASE CloseCollected
  BY <1>12 DEF CloseCollected
<1>13. CASE DatabaseDown
  <2>1. faults' \in 0 .. MaxFaults /\ UNCHANGED <<poolVars, pc, mine, processVars>>
    BY <1>13, PoolAssumption DEF DatabaseDown
  <2>2. dbUp' \in BOOLEAN
    BY <1>13, Zenon DEF DatabaseDown
  <2> QED
    BY <2>1, <2>2
<1>14. CASE DatabaseUp
  BY <1>14 DEF DatabaseUp
<1>15. CASE UNCHANGED vars
  BY <1>15 DEF vars
<1> QED
  BY <1>1, <1>2, <1>3, <1>4, <1>5, <1>6, <1>7, <1>8, <1>9, <1>10, <1>11, <1>12, <1>13, <1>14,
     <1>15 DEF Next, ThreadStep, StartupStep, Actors
-----------------------------------------------------------------------------
(* The steps one by one                                                    *)

\* A created pool has a fresh id and one owner.
LEMMA CreatePoolStep ==
  ASSUME PoolInv, TypeOK', NEW a \in Actors, CreatePool(a)
  PROVE  PoolInv'
<1>1. PICK p \in FreeIds : opened' = opened \cup {p} /\ mine' = [mine EXCEPT ![a] = p]
  BY DEF CreatePool
<1>2. /\ p \in Pools /\ p \notin opened /\ p \notin retired /\ p \notin closing /\ p # pool
      /\ \A b \in Actors : mine[b] # p
  BY <1>1 DEF FreeIds
<1>3. /\ UNCHANGED <<pool, retired, active, closing, phase>>
      /\ pc[a] = "create" /\ pc' = [pc EXCEPT ![a] = "install"]
  BY DEF CreatePool, Goto, processVars
<1>4. /\ pc'[a] = "install" /\ mine'[a] = p
      /\ \A b \in Actors \ {a} : pc'[b] = pc[b] /\ mine'[b] = mine[b]
  BY <1>1, <1>3 DEF PoolInv, TypeOK
<1>5. \A q : Users(q)' = Users(q)
  BY <1>3, <1>4, SameUsers DEF Actors
<1>6. MineMatchesPlace'
  BY <1>2, <1>3, <1>4, PoolAssumption DEF PoolInv, MineMatchesPlace
<1>7. PoolsApart'
  BY <1>1, <1>2, <1>3, <1>4 DEF PoolInv, PoolsApart
<1>8. NoStaleCount' /\ CountsAgree'
  BY <1>3, <1>5 DEF PoolInv, NoStaleCount, CountsAgree
<1>9. NoPoolForgotten'
  BY <1>1, <1>3, <1>4 DEF PoolInv, NoPoolForgotten
<1> QED
  BY <1>6, <1>7, <1>8, <1>9 DEF PoolInv

\* A new pool starts with no user and no count; the old one is closed when
\* nobody uses it and retired when somebody does.
LEMMA InstallPoolStep ==
  ASSUME PoolInv, TypeOK', NEW a \in Actors, InstallPool(a)
  PROVE  PoolInv'
<1> DEFINE n == mine[a]
<1>1. /\ pc[a] = "install" /\ pool' = n /\ mine' = [mine EXCEPT ![a] = None]
      /\ RetireOrClose(pool)
      /\ UNCHANGED <<active, closing, phase>>
  BY DEF InstallPool, processVars
<1>2. /\ n \in Pools /\ n \in opened /\ n \notin retired /\ n \notin closing /\ n # pool
      /\ \A b \in Actors \ {a} : mine[b] # n
  BY <1>1 DEF PoolInv, PoolsApart, TypeOK
<1>3. /\ pc'[a] \in {"migrate", "checkout"} /\ mine'[a] = None
      /\ \A b \in Actors \ {a} : pc'[b] = pc[b] /\ mine'[b] = mine[b]
  BY <1>1 DEF PoolInv, TypeOK, InstallPool, Goto
<1>4. \A q : Users(q)' = Users(q)
  BY <1>1, <1>3, SameUsers DEF Actors
<1>5. active[n] = 0
  BY <1>2 DEF PoolInv, NoStaleCount
<1>6. Users(n) = {}
  BY <1>1, <1>2 DEF Users, Actors
<1>7. Cardinality(Users(n)) = 0
  BY <1>6, FS_EmptySet
<1>8. MineMatchesPlace'
  BY <1>3 DEF PoolInv, MineMatchesPlace
<1> DEFINE installing == {mine'[b] : b \in {c \in Actors : pc'[c] = "install"}}
<1>0. ASSUME NEW x \in opened
      PROVE  x = pool \/ x = n \/ x \in retired \/ x \in closing \/ x \in installing
  <2>1. CASE x \in {mine[b] : b \in {c \in Actors : pc[c] = "install"}}
    BY <1>3, <2>1
  <2> QED
    BY <2>1 DEF PoolInv, NoPoolForgotten
<1>12. (opened' \subseteq {n} \cup retired' \cup closing' \cup installing) => NoPoolForgotten'
  BY <1>1 DEF NoPoolForgotten
<1> HIDE DEF installing
<1>13. ASSUME NEW b \in Actors, pc'[b] = "install"
      PROVE  /\ mine'[b] \in opened \ {n, pool}
             /\ mine'[b] \notin retired /\ mine'[b] \notin closing
             /\ \A c \in Actors \ {b} : mine'[c] # mine'[b]
  <2>1. b # a /\ pc[b] = "install" /\ mine'[b] = mine[b] /\ mine[b] \in opened /\ mine[b] # n
    BY <1>2, <1>3, <1>13 DEF PoolInv, PoolsApart
  <2>2. mine'[b] # None
    BY <2>1, PoolAssumption DEF PoolInv, TypeOK
  <2> QED
    BY <1>3, <2>1, <2>2 DEF PoolInv, PoolsApart
<1> HIDE DEF n
<1>9. CASE pool = None
  <2>1. UNCHANGED <<retired, opened>>
    BY <1>1, <1>9 DEF RetireOrClose
  <2>2. PoolsApart'
    BY <1>1, <1>2, <1>13, <2>1 DEF PoolInv, PoolsApart
  <2>3. NoStaleCount'
    BY <1>1, <1>9, <2>1, PoolAssumption DEF PoolInv, NoStaleCount
  <2>4. CountsAgree'
    BY <1>1, <1>4, <1>5, <1>7, <2>1 DEF PoolInv, CountsAgree
  <2>5. NoPoolForgotten'
    BY <1>0, <1>1, <1>9, <1>12, <2>1, PoolAssumption DEF PoolInv, TypeOK
  <2> QED
    BY <1>8, <2>2, <2>3, <2>4, <2>5 DEF PoolInv
<1>10. CASE pool # None /\ active[pool] = 0
  <2>1. opened' = opened \ {pool} /\ UNCHANGED retired
    BY <1>1, <1>10 DEF RetireOrClose
  <2>2. PoolsApart'
    BY <1>1, <1>2, <1>13, <2>1 DEF PoolInv, PoolsApart
  <2>3. NoStaleCount'
    BY <1>1, <1>10, <2>1 DEF PoolInv, NoStaleCount
  <2>4. CountsAgree'
    BY <1>1, <1>4, <1>5, <1>7, <2>1 DEF PoolInv, CountsAgree
  <2>5. NoPoolForgotten'
    BY <1>0, <1>1, <1>12, <2>1
  <2> QED
    BY <1>8, <2>2, <2>3, <2>4, <2>5 DEF PoolInv
<1>11. CASE pool # None /\ active[pool] # 0
  <2>1. retired' = retired \cup {pool} /\ UNCHANGED opened
    BY <1>1, <1>11 DEF RetireOrClose
  <2>2. PoolsApart'
    BY <1>1, <1>2, <1>11, <1>13, <2>1 DEF PoolInv, PoolsApart
  <2>3. NoStaleCount'
    BY <1>1, <2>1 DEF PoolInv, NoStaleCount
  <2>4. active[pool] = Cardinality(Users(pool))
    BY <1>11 DEF PoolInv, CountsAgree
  <2>5. Users(pool) # {}
    BY <1>11, <2>4, FS_EmptySet
  <2>6. CountsAgree'
    BY <1>1, <1>4, <1>5, <1>7, <2>1, <2>4, <2>5 DEF PoolInv, CountsAgree
  <2>7. NoPoolForgotten'
    BY <1>0, <1>1, <1>12, <2>1
  <2> QED
    BY <1>8, <2>2, <2>3, <2>6, <2>7 DEF PoolInv
<1> QED
  BY <1>9, <1>10, <1>11

\* One user more, one in the count more.
LEMMA CheckoutStep ==
  ASSUME PoolInv, TypeOK', NEW t \in Threads, Checkout(t)
  PROVE  PoolInv'
<1>1. /\ pc[t] = "checkout" /\ pool # None /\ pool \in Pools
      /\ active' = [active EXCEPT ![pool] = active[pool] + 1]
      /\ mine' = [mine EXCEPT ![t] = pool] /\ pc' = [pc EXCEPT ![t] = "using"]
      /\ UNCHANGED <<pool, retired, opened, closing, phase>>
  BY DEF Checkout, Goto, PoolInv, TypeOK, processVars
<1>2. t \in Actors
  BY DEF Actors
<1>3. /\ pc'[t] = "using" /\ mine'[t] = pool
      /\ \A b \in Actors \ {t} : pc'[b] = pc[b] /\ mine'[b] = mine[b]
  BY <1>1, <1>2 DEF PoolInv, TypeOK
<1>4. Users(pool)' = Users(pool) \cup {t} /\ t \notin Users(pool)
  BY <1>1, <1>2, <1>3 DEF Users, Actors
<1>5. \A q : q # pool => Users(q)' = Users(q)
  BY <1>1, <1>2, <1>3 DEF Users, Actors
<1>6. Cardinality(Users(pool)') = Cardinality(Users(pool)) + 1
  BY <1>4, UsersFinite, FS_AddElement
<1>7. active[pool] = Cardinality(Users(pool))
  BY <1>1 DEF PoolInv, CountsAgree
<1>8. active'[pool] = active[pool] + 1 /\ \A q \in Pools \ {pool} : active'[q] = active[q]
  BY <1>1 DEF PoolInv, TypeOK
<1>9. MineMatchesPlace'
  BY <1>1, <1>3 DEF PoolInv, MineMatchesPlace
<1>10. PoolsApart'
  BY <1>1, <1>2, <1>3 DEF PoolInv, PoolsApart
<1>11. NoStaleCount'
  BY <1>1, <1>8 DEF PoolInv, NoStaleCount
<1>12. CountsAgree'
  <2>1. retired \subseteq Pools /\ pool \notin retired
    BY DEF PoolInv, TypeOK, PoolsApart
  <2>2. \A q \in retired : /\ active'[q] = active[q] /\ Users(q)' = Users(q)
                            /\ active[q] = Cardinality(Users(q)) /\ Users(q) # {}
    BY <1>5, <1>8, <2>1, PoolAssumption DEF PoolInv, CountsAgree
  <2>3. active'[pool] = Cardinality(Users(pool)')
    BY <1>6, <1>7, <1>8
  <2> QED
    BY <1>1, <2>2, <2>3 DEF CountsAgree
<1>13. {b \in Actors : pc'[b] = "install"} = {b \in Actors : pc[b] = "install"}
  BY <1>1, <1>2, <1>3
<1>14. NoPoolForgotten'
  BY <1>1, <1>3, <1>13 DEF PoolInv, NoPoolForgotten
<1> QED
  BY <1>9, <1>10, <1>11, <1>12, <1>14 DEF PoolInv

\* One user less; the last one of a retired pool closes it.
LEMMA ReturnConnectionStep ==
  ASSUME PoolInv, TypeOK', NEW t \in Threads, ReturnConnection(t), NEW p, p = mine[t]
  PROVE  PoolInv'
<1>1. /\ pc[t] = "using" /\ active' = [active EXCEPT ![p] = Remaining(p)] /\ CloseIfLast(p)
      /\ mine' = [mine EXCEPT ![t] = None] /\ pc' = [pc EXCEPT ![t] = "idle"]
      /\ UNCHANGED <<pool, closing, phase>>
  BY DEF ReturnConnection, Goto, processVars
<1>2. t \in Actors /\ p \in Pools
  BY <1>1 DEF Actors, PoolInv, MineMatchesPlace, TypeOK
<1>3. /\ pc'[t] = "idle" /\ mine'[t] = None
      /\ \A b \in Actors \ {t} : pc'[b] = pc[b] /\ mine'[b] = mine[b]
  BY <1>1, <1>2 DEF PoolInv, TypeOK
<1>4. Users(p)' = Users(p) \ {t} /\ t \in Users(p)
  BY <1>1, <1>3 DEF Users, Actors
<1>5. \A q : q # p => Users(q)' = Users(q)
  BY <1>1, <1>3 DEF Users, Actors
<1>6. Cardinality(Users(p)') = Cardinality(Users(p)) - 1
  BY <1>4, UsersFinite, FS_RemoveElement
<1>7. active'[p] = Remaining(p) /\ \A q \in Pools \ {p} : active'[q] = active[q]
  BY <1>1, <1>2 DEF PoolInv, TypeOK
<1>8. p = pool \/ p \in retired => Remaining(p) = Cardinality(Users(p)')
  <2>1. SUFFICES ASSUME p = pool \/ p \in retired
                 PROVE  Remaining(p) = Cardinality(Users(p)')
    OBVIOUS
  <2>2. active[p] = Cardinality(Users(p))
    BY <1>2, <2>1, PoolAssumption DEF PoolInv, CountsAgree
  <2>3. Cardinality(Users(p)) # 0
    BY <1>4, UsersFinite, FS_EmptySet
  <2> QED
    BY <1>6, <2>2, <2>3, UsersFinite DEF Remaining
<1>9. p # pool /\ p \notin retired => Remaining(p) = 0
  BY <1>2 DEF PoolInv, NoStaleCount, Remaining
<1>10. MineMatchesPlace'
  BY <1>3 DEF PoolInv, MineMatchesPlace
<1>11. {b \in Actors : pc'[b] = "install"} = {b \in Actors : pc[b] = "install"}
  BY <1>1, <1>2, <1>3
<1>12. ASSUME NEW b \in Actors, pc'[b] = "install"
       PROVE  /\ b # t /\ pc[b] = "install" /\ mine'[b] = mine[b] /\ mine'[b] \in opened
              /\ \A c \in Actors \ {b} : mine'[c] # mine'[b]
  <2>1. b # t /\ pc[b] = "install" /\ mine'[b] = mine[b] /\ mine[b] \in opened
    BY <1>3, <1>12 DEF PoolInv, PoolsApart
  <2>2. mine'[b] # None
    BY <2>1, PoolAssumption DEF PoolInv, TypeOK
  <2> QED
    BY <1>3, <2>1, <2>2 DEF PoolInv, PoolsApart
<1>13. \A q \in Pools \ {p} : q = pool \/ q \in retired => active'[q] = Cardinality(Users(q)')
  BY <1>5, <1>7, PoolAssumption DEF PoolInv, CountsAgree
<1>14. \A q \in retired \ {p} : Users(q)' # {}
  BY <1>5 DEF PoolInv, CountsAgree
<1>15. CASE p \in retired /\ Remaining(p) = 0
  <2>1. retired' = retired \ {p} /\ opened' = opened \ {p} /\ p # pool
    BY <1>1, <1>15 DEF CloseIfLast, PoolInv, PoolsApart
  <2>2. PoolsApart'
    BY <1>1, <1>12, <1>15, <2>1 DEF PoolInv, PoolsApart
  <2>3. NoStaleCount'
    BY <1>1, <1>7, <1>15, <2>1 DEF PoolInv, NoStaleCount
  <2>4. CountsAgree'
    BY <1>1, <1>13, <1>14, <2>1 DEF CountsAgree, PoolInv, TypeOK
  <2>5. NoPoolForgotten'
    BY <1>1, <1>11, <1>12, <2>1 DEF PoolInv, NoPoolForgotten
  <2> QED
    BY <1>10, <2>2, <2>3, <2>4, <2>5 DEF PoolInv
<1>16. CASE ~(p \in retired /\ Remaining(p) = 0)
  <2>1. UNCHANGED <<retired, opened>>
    BY <1>1, <1>16 DEF CloseIfLast
  <2>2. PoolsApart'
    BY <1>1, <1>12, <2>1 DEF PoolInv, PoolsApart
  <2>3. NoStaleCount'
    BY <1>1, <1>7, <1>9, <2>1 DEF PoolInv, NoStaleCount
  <2>4. p \in retired => Users(p)' # {}
    BY <1>8, <1>16, FS_EmptySet
  <2>5. CountsAgree'
    BY <1>1, <1>7, <1>8, <1>13, <1>14, <2>1, <2>4 DEF CountsAgree, PoolInv, TypeOK
  <2>6. NoPoolForgotten'
    BY <1>1, <1>11, <1>12, <2>1 DEF PoolInv, NoPoolForgotten
  <2> QED
    BY <1>10, <2>2, <2>3, <2>5, <2>6 DEF PoolInv
<1> QED
  BY <1>15, <1>16

\* close_pool forgets the counts with the pools.
LEMMA ClosePoolStep ==
  ASSUME PoolInv, TypeOK', ClosePool
  PROVE  PoolInv'
<1>1. /\ phase = "stopping" /\ phase' = "stopped" /\ closing' = (retired \cup {pool}) \ {None}
      /\ pool' = None /\ retired' = {} /\ active' = [p \in Pools |-> 0]
      /\ UNCHANGED <<opened, pc, mine>>
  BY DEF ClosePool
<1>2. MineMatchesPlace'
  BY <1>1 DEF PoolInv, MineMatchesPlace
<1>3. PoolsApart'
  BY <1>1, PoolAssumption DEF PoolInv, PoolsApart, TypeOK
<1>4. NoStaleCount' /\ CountsAgree'
  BY <1>1 DEF NoStaleCount, CountsAgree
<1>5. NoPoolForgotten'
  BY <1>1, PoolAssumption DEF PoolInv, NoPoolForgotten, PoolsApart, TypeOK
<1> QED
  BY <1>2, <1>3, <1>4, <1>5 DEF PoolInv

\* A collected pool is known to nobody else.
LEMMA CloseCollectedStep ==
  ASSUME PoolInv, TypeOK', CloseCollected
  PROVE  PoolInv'
<1>1. PICK p \in closing : closing' = closing \ {p} /\ opened' = opened \ {p}
  BY DEF CloseCollected
<1>2. UNCHANGED <<pool, retired, active, pc, mine, phase>>
  BY DEF CloseCollected, processVars
<1>3. \A q : Users(q)' = Users(q)
  BY <1>2, SameUsers
<1>4. MineMatchesPlace'
  BY <1>2 DEF PoolInv, MineMatchesPlace
<1>5. PoolsApart'
  BY <1>1, <1>2 DEF PoolInv, PoolsApart
<1>6. NoStaleCount' /\ CountsAgree'
  BY <1>2, <1>3 DEF PoolInv, NoStaleCount, CountsAgree
<1>7. NoPoolForgotten'
  BY <1>1, <1>2 DEF PoolInv, NoPoolForgotten
<1> QED
  BY <1>4, <1>5, <1>6, <1>7 DEF PoolInv
-----------------------------------------------------------------------------
(* The invariant and what follows from it                                  *)

\* The invariant holds when the process starts.
LEMMA PoolInvInit ==
  Init => PoolInv
<1> SUFFICES ASSUME Init PROVE PoolInv
  OBVIOUS
<1>1. TypeOK
  <2>1. /\ pool \in Pools \cup {None} /\ retired \subseteq Pools /\ opened \subseteq Pools
        /\ closing \subseteq Pools /\ active \in [Pools -> Nat]
        /\ mine \in [Actors -> Pools \cup {None}]
    BY DEF Init
  <2>2. pc \in [Actors -> Places]
    BY DEF Init, Places
  <2>3. attempt \in 0 .. Retries /\ faults \in 0 .. MaxFaults
    BY PoolAssumption DEF Init
  <2>4. phase \in {"starting", "up", "stopping", "stopped"}
    BY DEF Init
  <2>5. ready \in BOOLEAN /\ dbUp \in BOOLEAN
    BY Zenon DEF Init
  <2> QED
    BY <2>1, <2>2, <2>3, <2>4, <2>5 DEF TypeOK
<1>2. MineMatchesPlace
  BY DEF Init, MineMatchesPlace
<1>3. PoolsApart /\ NoStaleCount /\ NoPoolForgotten
  BY DEF Init, PoolsApart, NoStaleCount, NoPoolForgotten
<1>4. CountsAgree
  BY DEF Init, CountsAgree
<1> QED
  BY <1>1, <1>2, <1>3, <1>4 DEF PoolInv

\* Every step preserves the invariant.
LEMMA PoolInvStep ==
  PoolInv /\ [Next]_vars => PoolInv'
<1> SUFFICES ASSUME PoolInv, [Next]_vars PROVE PoolInv'
  OBVIOUS
<1>0. TypeOK'
  BY TypeStep DEF PoolInv
<1>1. ASSUME NEW a \in Actors, CreatePool(a) PROVE PoolInv'
  BY <1>0, <1>1, CreatePoolStep
<1>2. ASSUME NEW a \in Actors, InstallPool(a) PROVE PoolInv'
  BY <1>0, <1>2, InstallPoolStep
<1>3. ASSUME NEW t \in Threads, GetConn(t) \/ ReconnectFails(t) \/ CheckoutFails(t) PROVE PoolInv'
  <2>1. Quiet
    BY <1>3 DEF PoolInv, TypeOK, GetConn, ReconnectFails, CheckoutFails, Goto, Quiet, processVars, Actors
  <2> QED
    BY <1>0, <2>1, QuietStep
<1>4. ASSUME NEW t \in Threads, Checkout(t) PROVE PoolInv'
  BY <1>0, <1>4, CheckoutStep
<1>5. ASSUME NEW t \in Threads, ReturnConnection(t) PROVE PoolInv'
  BY <1>0, <1>5, ReturnConnectionStep
<1>6. CASE InitAttemptFails \/ Migrate \/ MigrateFails \/ RetryStartup
  <2>1. Quiet
    BY <1>6 DEF PoolInv, TypeOK, InitAttemptFails, Migrate, MigrateFails, RetryStartup,
                StartupFailed, Goto, Quiet, processVars, Actors
  <2> QED
    BY <1>0, <2>1, QuietStep
<1>7. CASE Stop \/ DatabaseDown \/ DatabaseUp
  <2>1. Quiet
    BY <1>7 DEF Stop, DatabaseDown, DatabaseUp, Quiet, processVars
  <2> QED
    BY <1>0, <2>1, QuietStep
<1>8. CASE ClosePool
  BY <1>0, <1>8, ClosePoolStep
<1>9. CASE CloseCollected
  BY <1>0, <1>9, CloseCollectedStep
<1>10. CASE UNCHANGED vars
  <2>1. Quiet
    BY <1>10 DEF vars, Quiet, processVars
  <2> QED
    BY <1>0, <2>1, QuietStep
<1> QED
  BY <1>1, <1>2, <1>3, <1>4, <1>5, <1>6, <1>7, <1>8, <1>9, <1>10
     DEF Next, ThreadStep, StartupStep, Actors

\* The invariant holds always.
THEOREM PoolSafe ==
  Spec => []PoolInv
<1> QED
  BY PoolInvInit, PoolInvStep, PTL DEF Spec

(***************************************************************************)
(* The counts by which _install_pool and _return_connection decide to      *)
(* close a pool are the numbers of its users, for every number of threads. *)
(***************************************************************************)
THEOREM CountsAreRight ==
  Spec => []CountsAgree
<1>1. PoolInv => CountsAgree
  BY DEF PoolInv
<1> QED
  BY <1>1, PoolSafe, PTL

(***************************************************************************)
(* No open pool is lost, whatever threads replace the pool at once.        *)
(***************************************************************************)
THEOREM NoPoolLost ==
  Spec => []NoPoolForgotten
<1>1. PoolInv => NoPoolForgotten
  BY DEF PoolInv
<1> QED
  BY <1>1, PoolSafe, PTL

(***************************************************************************)
(* Only close_pool closes a pool whose connections are in use: a replaced  *)
(* pool is closed with a count of zero, that is, without users, and a      *)
(* retired one by its last user.                                           *)
(***************************************************************************)
THEOREM NoConnectionCutOff ==
  Spec => NoneCutOff
<1> DEFINE Spared ==
      \A t \in Threads :
        (pc[t] = "using" /\ pc'[t] = "using" /\ mine[t] \in opened \ opened')
            => mine[t] \in closing
<1>1. ASSUME PoolInv, [Next]_vars PROVE [Spared]_vars
  <2> SUFFICES ASSUME NEW t \in Threads, pc[t] = "using", pc'[t] = "using",
                      mine[t] \in opened, mine[t] \notin opened'
               PROVE  mine[t] \in closing
    OBVIOUS
  <2> DEFINE p == mine[t]
  <2>1. p \in Pools /\ t \in Users(p)
    BY <1>1 DEF PoolInv, TypeOK, Users
  <2>2. ASSUME NEW a \in Actors, InstallPool(a) PROVE FALSE
    <3>1. p = pool /\ active[pool] = 0
      BY <2>2 DEF InstallPool, RetireOrClose
    <3> QED
      BY <1>1, <2>1, <3>1, UnusedWhenZero
  <2>3. ASSUME NEW u \in Threads, ReturnConnection(u) PROVE FALSE
    <3>1. mine[u] = p /\ p \in retired /\ Remaining(p) = 0
      BY <2>3 DEF ReturnConnection, CloseIfLast
    <3>2. pc'[u] = "idle"
      BY <1>1, <2>3 DEF ReturnConnection, Goto, PoolInv, TypeOK, Actors
    <3>3. active[p] = Cardinality(Users(p))
      BY <1>1, <2>1, <3>1, PoolAssumption DEF PoolInv, CountsAgree
    <3>4. {t, u} \subseteq Users(p) /\ t # u
      BY <2>1, <2>3, <3>1, <3>2 DEF Users, ReturnConnection
    <3>5. Cardinality(Users(p)) \in {0, 1}
      BY <3>1, <3>3, UsersFinite DEF Remaining
    <3> QED
      BY <3>4, <3>5, UsersFinite, FS_EmptySet, FS_Singleton
  <2>4. CASE CloseCollected
    BY <2>4 DEF CloseCollected
  <2>5. ASSUME NEW a \in Actors, CreatePool(a) PROVE FALSE
    BY <2>5 DEF CreatePool
  <2>6. ASSUME NEW u \in Threads, GetConn(u) \/ ReconnectFails(u) \/ Checkout(u) \/ CheckoutFails(u)
        PROVE  FALSE
    BY <2>6 DEF GetConn, ReconnectFails, Checkout, CheckoutFails, poolVars
  <2>7. CASE InitAttemptFails \/ Migrate \/ MigrateFails \/ RetryStartup
    BY <2>7 DEF InitAttemptFails, Migrate, MigrateFails, RetryStartup, poolVars
  <2>8. CASE Stop \/ ClosePool \/ DatabaseDown \/ DatabaseUp \/ UNCHANGED vars
    BY <2>8 DEF Stop, ClosePool, DatabaseDown, DatabaseUp, vars, poolVars
  <2> QED
    BY <1>1, <2>2, <2>3, <2>4, <2>5, <2>6, <2>7, <2>8 DEF Next, ThreadStep, StartupStep, Actors
<1> QED
  BY <1>1, PoolSafe, PTL DEF Spec, NoneCutOff
=============================================================================

---------------------------- MODULE EngineProofs ----------------------------
(***************************************************************************)
(* Theorems about Engine, for every set of names, connections and hashes   *)
(* and every bound.                                                        *)
(*                                                                         *)
(* TypeOK is inductive by itself.  RefcountExact is not: that the idle     *)
(* timer starts exactly when the last claim goes needs ClaimedOrTimed, and *)
(* ClaimedOrTimed needs RefcountExact, so the two are proved together as   *)
(* Accounting.  ProcsAccounted is inductive relative to TypeOK.  The       *)
(* refinement of Lifetime comes last.                                      *)
(***************************************************************************)
EXTENDS Engine, FiniteSetTheorems, TLAPS

\* One server's part of the two invariants: s is its entry, C its claims.
ServerOK(s, C) ==
    /\ s.refcount = Cardinality(C)
    /\ s.refcount > 0 => s.child # NoChild
    /\ s.timer # "none" <=> (s.child # NoChild /\ s.refcount = 0)

Accounting == \A n \in Names : ServerOK(shared[n], EndpointClaims(n))
IndInv == TypeOK /\ Accounting

-----------------------------------------------------------------------------
(* Facts about the state                                                   *)

\* The endpoint grants on a server are finitely many, and the next grant id is
\* not one of them.
LEMMA ClaimsFinite ==
  ASSUME TypeOK, NEW n \in Names
  PROVE  /\ IsFiniteSet(EndpointClaims(n))
         /\ Cardinality(EndpointClaims(n)) \in Nat
         /\ nextGrant \notin EndpointClaims(n)
<1>1. 1 \in Int /\ nextGrant - 1 \in Int
  BY BoundAssumption DEF TypeOK
<1>2. IsFiniteSet(1..(nextGrant - 1))
  BY <1>1, FS_Interval
<1>3. EndpointClaims(n) \subseteq 1..(nextGrant - 1)
  BY DEF TypeOK, EndpointClaims, Holding
<1>4. IsFiniteSet(EndpointClaims(n))
  BY <1>2, <1>3, FS_Subset
<1>5. Cardinality(EndpointClaims(n)) \in Nat
  BY <1>4, FS_CardinalityType
<1>6. nextGrant \notin 1..(nextGrant - 1)
  BY BoundAssumption DEF TypeOK
<1> QED
  BY <1>3, <1>4, <1>5, <1>6

\* How many claims on a server a set of grants makes up, and how many are left
\* without it.
LEMMA DropCount ==
  ASSUME TypeOK, NEW n \in Names, NEW S
  PROVE  /\ Cardinality(S \cap EndpointClaims(n)) \in Nat
         /\ Cardinality(S \cap EndpointClaims(n)) <= Cardinality(EndpointClaims(n))
         /\ Cardinality(EndpointClaims(n) \ S)
              = Cardinality(EndpointClaims(n)) - Cardinality(S \cap EndpointClaims(n))
<1> DEFINE C == EndpointClaims(n)
<1>1. IsFiniteSet(C)
  BY ClaimsFinite
<1>2. IsFiniteSet(S \cap C) /\ Cardinality(S \cap C) <= Cardinality(C)
  BY <1>1, FS_Intersection
<1>3. Cardinality(S \cap C) \in Nat
  BY <1>2, FS_CardinalityType
<1>4. Cardinality(C \ S) = Cardinality(C) - Cardinality(C \cap S)
  BY <1>1, FS_Difference
<1>5. C \cap S = S \cap C
  OBVIOUS
<1> QED
  BY <1>2, <1>3, <1>4, <1>5

\* The shared entries after retiring grants are well typed.
LEMMA DroppedType ==
  ASSUME TypeOK, NEW S
  PROVE  Dropped(S) \in [Names -> SharedServer]
<1> SUFFICES ASSUME NEW n \in Names
             PROVE  Dropped(S)[n] \in SharedServer
  BY DEF Dropped
<1> DEFINE drops == Cardinality(S \cap EndpointClaims(n))
<1>1. drops \in Nat
  BY DropCount
<1>2. shared[n] \in SharedServer
  BY DEF TypeOK
<1>3. CASE drops = 0
  BY <1>2, <1>3 DEF Dropped
<1>4. CASE drops # 0 /\ shared[n].refcount > drops
  <2>1. Dropped(S)[n] = [shared[n] EXCEPT !.refcount = shared[n].refcount - drops]
    BY <1>4 DEF Dropped
  <2>2. shared[n].refcount - drops \in Nat
    BY <1>1, <1>2, <1>4 DEF SharedServer
  <2> QED
    BY <1>2, <2>1, <2>2 DEF SharedServer
<1>5. CASE drops # 0 /\ ~(shared[n].refcount > drops)
  <2>1. Dropped(S)[n] = [child |-> shared[n].child, refcount |-> 0, timer |-> "pending"]
    BY <1>5 DEF Dropped
  <2> QED
    BY <1>2, <2>1 DEF SharedServer
<1> QED
  BY <1>3, <1>4, <1>5

-----------------------------------------------------------------------------
(* Type correctness                                                        *)

LEMMA InitType == Init => TypeOK
<1> SUFFICES ASSUME Init PROVE TypeOK
  OBVIOUS
<1>1. shared \in [Names -> SharedServer]
  BY DEF Init, Stopped, SharedServer, NoChild
<1>2. grants \in [DOMAIN grants -> Grant] /\ DOMAIN grants = {}
  BY DEF Init, EmptyMap
<1>3. procs \in [DOMAIN procs -> Process] /\ DOMAIN procs = {}
  BY DEF Init, EmptyMap
<1>4. relay \in [DOMAIN relay -> {"waiting", "pumping", "ended"}]
  BY DEF Init, EmptyMap
<1>5. nextGrant \in 1..(MaxGrants + 1)
  BY BoundAssumption DEF Init
<1> QED
  BY <1>1, <1>2, <1>3, <1>4, <1>5 DEF TypeOK, Init

\* Adding an entry to a map, or taking entries away, keeps it typed.
LEMMA WithType ==
  ASSUME NEW T, NEW f, f \in [DOMAIN f -> T], NEW x, NEW v \in T
  PROVE  /\ With(f, x, v) \in [DOMAIN With(f, x, v) -> T]
         /\ DOMAIN With(f, x, v) = DOMAIN f \cup {x}
BY DEF With

LEMMA WithoutType ==
  ASSUME NEW T, NEW f, f \in [DOMAIN f -> T], NEW S
  PROVE  /\ Without(f, S) \in [DOMAIN Without(f, S) -> T]
         /\ DOMAIN Without(f, S) = DOMAIN f \ S
BY DEF Without

\* Retiring grants keeps the grants and the relays typed.
LEMMA RetiredType ==
  ASSUME TypeOK, NEW S, Retired(S)
  PROVE  /\ grants' \in [DOMAIN grants' -> Grant]
         /\ relay' \in [DOMAIN relay' -> {"waiting", "pumping", "ended"}]
         /\ DOMAIN grants' = DOMAIN grants \ S
         /\ nextGrant' = nextGrant
         /\ consent' = consent
<1>1. grants' = Without(grants, S) /\ relay' = Without(relay, S)
  BY DEF Retired
<1>2. grants \in [DOMAIN grants -> Grant]
  BY DEF TypeOK
<1>3. relay \in [DOMAIN relay -> {"waiting", "pumping", "ended"}]
  BY DEF TypeOK
<1>4. grants' \in [DOMAIN grants' -> Grant] /\ DOMAIN grants' = DOMAIN grants \ S
  BY <1>1, <1>2, WithoutType
<1>5. relay' \in [DOMAIN relay' -> {"waiting", "pumping", "ended"}]
  BY <1>1, <1>3, WithoutType
<1> QED
  BY <1>4, <1>5 DEF Retired

\* So does taking processes away.
LEMMA ProcsLeft ==
  ASSUME TypeOK, NEW S, procs' = Without(procs, S)
  PROVE  /\ procs' \in [DOMAIN procs' -> Process]
         /\ DOMAIN procs' = DOMAIN procs \ S
<1>1. procs \in [DOMAIN procs -> Process]
  BY DEF TypeOK
<1> QED
  BY <1>1, WithoutType

\* The id a step takes is new, and the bound leaves it a grant id.
LEMMA FreshId ==
  ASSUME TypeOK, TakeGrantId
  PROVE  /\ nextGrant \in GrantIds
         /\ nextGrant' = nextGrant + 1
         /\ nextGrant' \in 1..(MaxGrants + 1)
         /\ 1..(nextGrant' - 1) = 1..(nextGrant - 1) \cup {nextGrant}
         /\ nextGrant \notin DOMAIN grants
         /\ nextGrant \notin DOMAIN procs
BY BoundAssumption DEF TypeOK, TakeGrantId, GrantIds

\* Every activation keeps the state typed.
LEMMA ActivateType ==
  ASSUME TypeOK, NEW n \in Names, NEW h \in Hashes, NEW c \in Conns, Activate(n, h, c)
  PROVE  TypeOK'
<1>1. TakeGrantId
  BY DEF Activate, StartStdio, AttachShared, ActivationFails
<1>2. /\ nextGrant \in GrantIds
      /\ nextGrant' \in 1..(MaxGrants + 1)
      /\ 1..(nextGrant' - 1) = 1..(nextGrant - 1) \cup {nextGrant}
  BY <1>1, FreshId
<1>3. /\ grants \in [DOMAIN grants -> Grant] /\ DOMAIN grants \subseteq 1..(nextGrant - 1)
      /\ procs \in [DOMAIN procs -> Process] /\ DOMAIN procs \subseteq 1..(nextGrant - 1)
      /\ relay \in [DOMAIN relay -> {"waiting", "pumping", "ended"}]
      /\ shared \in [Names -> SharedServer]
  BY DEF TypeOK
<1>4. /\ Spawned(n, h) \in [DOMAIN Spawned(n, h) -> Process]
      /\ DOMAIN Spawned(n, h) = DOMAIN procs \cup {nextGrant}
  <2> DEFINE p == [name |-> n, hash |-> h, up |-> TRUE, orphan |-> FALSE]
  <2>1. p \in Process
    BY DEF Process
  <2>2. Spawned(n, h) = With(procs, nextGrant, p)
    BY DEF Spawned
  <2> HIDE DEF p
  <2> QED
    BY <1>3, <2>1, <2>2 DEF With
<1>5. ASSUME NEW kind \in {"stdio", "endpoint"}
      PROVE  /\ Granted(n, c, kind) \in [DOMAIN Granted(n, c, kind) -> Grant]
             /\ DOMAIN Granted(n, c, kind) = DOMAIN grants \cup {nextGrant}
  <2> DEFINE g == [name |-> n, conn |-> c, kind |-> kind]
  <2>1. g \in Grant
    BY DEF Grant
  <2>2. Granted(n, c, kind) = With(grants, nextGrant, g)
    BY DEF Granted
  <2> HIDE DEF g
  <2> QED
    BY <1>3, <2>1, <2>2 DEF With
<1>6. CASE StartStdio(n, h, c)
  <2>1. /\ relay' \in [DOMAIN relay' -> {"waiting", "pumping", "ended"}]
    BY <1>3, <1>6, WithType DEF StartStdio
  <2> QED
    BY <1>2, <1>3, <1>4, <1>5, <1>6, <2>1 DEF StartStdio, TypeOK
<1>7. CASE AttachShared(n, h, c)
  <2>1. Attached(n) \in SharedServer
    BY <1>2, <1>3 DEF Attached, SharedServer
  <2>2. shared' \in [Names -> SharedServer]
    BY <1>3, <1>7, <2>1 DEF AttachShared
  <2>3. procs' \in [DOMAIN procs' -> Process] /\ DOMAIN procs' \subseteq 1..(nextGrant' - 1)
    BY <1>2, <1>3, <1>4, <1>7 DEF AttachShared
  <2> QED
    BY <1>2, <1>3, <1>5, <1>7, <2>2, <2>3 DEF AttachShared, TypeOK
<1>8. CASE ActivationFails(n, h)
  <2>1. [shared[n] EXCEPT !.timer = "none"] \in SharedServer
    BY <1>3 DEF SharedServer
  <2>2. shared' \in [Names -> SharedServer]
    BY <1>3, <1>8, <2>1 DEF ActivationFails
  <2> QED
    BY <1>2, <1>3, <1>8, <2>2 DEF ActivationFails, TypeOK
<1> QED
  BY <1>6, <1>7, <1>8 DEF Activate

\* So do the operations that retire grants.
LEMMA RetireType ==
  ASSUME TypeOK, NEW S, Retired(S),
         shared' \in [Names -> SharedServer],
         NEW P, procs' = Without(procs, P)
  PROVE  TypeOK'
<1>1. /\ grants' \in [DOMAIN grants' -> Grant]
      /\ relay' \in [DOMAIN relay' -> {"waiting", "pumping", "ended"}]
      /\ DOMAIN grants' \subseteq DOMAIN grants
      /\ nextGrant' = nextGrant /\ consent' = consent
  BY RetiredType
<1>2. procs' \in [DOMAIN procs' -> Process] /\ DOMAIN procs' \subseteq DOMAIN procs
  BY ProcsLeft
<1> QED
  BY <1>1, <1>2 DEF TypeOK

LEMMA ReleaseType ==
  ASSUME TypeOK, NEW i, Release(i)
  PROVE  TypeOK'
<1>1. shared' \in [Names -> SharedServer]
  BY DroppedType DEF Release
<1> QED
  BY <1>1, RetireType DEF Release

LEMMA ReleaseConnectionType ==
  ASSUME TypeOK, NEW c, ReleaseConnection(c)
  PROVE  TypeOK'
<1>1. shared' \in [Names -> SharedServer]
  BY DroppedType DEF ReleaseConnection
<1> QED
  BY <1>1, RetireType DEF ReleaseConnection

LEMMA DeactivateType ==
  ASSUME TypeOK, NEW n \in Names, NEW force, Deactivate(n, force)
  PROVE  TypeOK'
<1>1. Stopped \in SharedServer
  BY DEF Stopped, SharedServer
<1>2. shared' \in [Names -> SharedServer]
  BY <1>1, DroppedType DEF Deactivate
<1> QED
  BY <1>2, RetireType DEF Deactivate

LEMMA ReapIdleType ==
  ASSUME TypeOK, ReapIdle
  PROVE  TypeOK'
<1>1. ASSUME NEW n \in Names
      PROVE  [Stopped EXCEPT !.refcount = shared[n].refcount] \in SharedServer
  BY DEF TypeOK, Stopped, SharedServer
<1>2. shared' \in [Names -> SharedServer]
  BY <1>1 DEF ReapIdle, TypeOK
<1>3. procs' \in [DOMAIN procs' -> Process] /\ DOMAIN procs' \subseteq DOMAIN procs
  BY ProcsLeft DEF ReapIdle
<1> QED
  BY <1>2, <1>3 DEF ReapIdle, TypeOK

LEMMA DeathType ==
  ASSUME TypeOK,
         BrokerDies \/ \E n \in Names, h \in Hashes : BrokerDiesWhileSpawning(n, h)
  PROVE  TypeOK'
<1>1. /\ grants' \in [DOMAIN grants' -> Grant] /\ DOMAIN grants' = {}
      /\ relay' \in [DOMAIN relay' -> {"waiting", "pumping", "ended"}]
      /\ shared' \in [Names -> SharedServer]
      /\ consent' = consent
  <2>1. BrokerRestarts
    BY DEF BrokerDies, BrokerDiesWhileSpawning
  <2>2. Stopped \in SharedServer
    BY DEF Stopped, SharedServer
  <2> QED
    BY <2>1, <2>2 DEF BrokerRestarts, EmptyMap
<1>2. procs \in [DOMAIN procs -> Process] /\ Survivors \subseteq DOMAIN procs
  BY DEF TypeOK, Survivors
<1>3. \A i \in Survivors : [procs[i] EXCEPT !.orphan = TRUE] \in Process
  BY <1>2 DEF Process
<1>4. CASE BrokerDies
  <2>1. procs' \in [DOMAIN procs' -> Process] /\ DOMAIN procs' = Survivors
    BY <1>3, <1>4 DEF BrokerDies
  <2> QED
    BY <1>1, <1>2, <1>4, <2>1 DEF BrokerDies, TypeOK
<1>5. ASSUME NEW n \in Names, NEW h \in Hashes, BrokerDiesWhileSpawning(n, h)
      PROVE  TypeOK'
  <2>1. TakeGrantId
    BY <1>5 DEF BrokerDiesWhileSpawning
  <2>2. /\ nextGrant' \in 1..(MaxGrants + 1)
        /\ 1..(nextGrant' - 1) = 1..(nextGrant - 1) \cup {nextGrant}
    BY <2>1, FreshId
  <2>3. [name |-> n, hash |-> h, up |-> TRUE, orphan |-> TRUE] \in Process
    BY DEF Process
  <2>4. /\ procs' \in [DOMAIN procs' -> Process]
        /\ DOMAIN procs' = Survivors \cup {nextGrant}
    BY <1>3, <1>5, <2>3 DEF BrokerDiesWhileSpawning
  <2> QED
    BY <1>1, <1>2, <2>2, <2>4 DEF TypeOK
<1> QED
  BY <1>4, <1>5

LEMMA EnvironmentType ==
  ASSUME TypeOK, Environment
  PROVE  TypeOK'
<1>1. ASSUME NEW n \in Names, TimerElapses(n)
      PROVE  TypeOK'
  <2>1. [shared[n] EXCEPT !.timer = "elapsed"] \in SharedServer
    BY DEF TypeOK, SharedServer
  <2> QED
    BY <1>1, <2>1 DEF TimerElapses, TypeOK
<1>2. ASSUME NEW i \in GrantIds, RelayAccepts(i) \/ RelayEnds(i)
      PROVE  TypeOK'
  BY <1>2 DEF RelayAccepts, RelayEnds, TypeOK
<1>3. ASSUME NEW i \in GrantIds, ServerExits(i)
      PROVE  TypeOK'
  <2>1. procs \in [DOMAIN procs -> Process] /\ i \in DOMAIN procs
    BY <1>3 DEF TypeOK, ServerExits
  <2>2. [procs[i] EXCEPT !.up = FALSE] \in Process
    BY <2>1 DEF Process
  <2>3. CASE procs[i].orphan
    <3>1. procs' = Without(procs, {i})
      BY <1>3, <2>3 DEF ServerExits
    <3> QED
      BY <1>3, <3>1, ProcsLeft DEF ServerExits, TypeOK
  <2>4. CASE ~procs[i].orphan
    <3>1. procs' = [procs EXCEPT ![i] = [procs[i] EXCEPT !.up = FALSE]]
      BY <1>3, <2>4 DEF ServerExits
    <3>2. procs' \in [DOMAIN procs -> Process]
      BY <2>1, <2>2, <3>1
    <3> QED
      BY <1>3, <3>2 DEF ServerExits, TypeOK
  <2> QED
    BY <2>3, <2>4
<1>4. ASSUME NEW n \in Names, NEW r \in ConsentRecords, ConsentChanges(n, r)
      PROVE  TypeOK'
  BY <1>4 DEF ConsentChanges, TypeOK
<1> QED
  BY <1>1, <1>2, <1>3, <1>4, DeathType DEF Environment

LEMMA NextType == TypeOK /\ [Next]_vars => TypeOK'
<1> SUFFICES ASSUME TypeOK, [Next]_vars PROVE TypeOK'
  OBVIOUS
<1>1. CASE Requests
  BY <1>1, ActivateType, ReleaseType, ReleaseConnectionType, DeactivateType DEF Requests
<1>2. CASE ReapIdle
  BY <1>2, ReapIdleType
<1>3. CASE Environment
  BY <1>3, EnvironmentType
<1>4. CASE UNCHANGED vars
  BY <1>4 DEF vars, TypeOK
<1> QED
  BY <1>1, <1>2, <1>3, <1>4 DEF Next

\* Every reachable state is well typed.
THEOREM TypeCorrect == Spec => []TypeOK
BY InitType, NextType, PTL DEF Spec

-----------------------------------------------------------------------------
(* Reference counts and idle timers                                        *)

LEMMA AccountingDef == Accounting <=> RefcountExact /\ ClaimedOrTimed
BY DEF Accounting, ServerOK, RefcountExact, ClaimedOrTimed

\* How the claims on a server change: a new grant adds to its own server only,
\* retiring grants takes exactly those away.
LEMMA ClaimsAfterGrant ==
  ASSUME TypeOK, NEW n \in Names, NEW c \in Conns, NEW kind \in {"stdio", "endpoint"},
         TakeGrantId, grants' = Granted(n, c, kind), NEW m \in Names
  PROVE  EndpointClaims(m)' = IF kind = "endpoint" /\ m = n
                              THEN EndpointClaims(m) \cup {nextGrant}
                              ELSE EndpointClaims(m)
<1> DEFINE g == [name |-> n, conn |-> c, kind |-> kind]
<1>1. nextGrant \notin DOMAIN grants
  BY FreshId
<1>2. DOMAIN grants' = DOMAIN grants \cup {nextGrant}
  BY DEF Granted, With
<1>3. \A i \in DOMAIN grants : grants'[i] = grants[i]
  BY <1>1 DEF Granted, With
<1>4. grants'[nextGrant].name = n /\ grants'[nextGrant].kind = kind
  BY DEF Granted, With
<1> QED
  BY <1>1, <1>2, <1>3, <1>4 DEF EndpointClaims, Holding, StdioGrants

LEMMA ClaimsAfterRetire ==
  ASSUME NEW S, Retired(S), NEW m
  PROVE  EndpointClaims(m)' = EndpointClaims(m) \ S
BY DEF Retired, Without, EndpointClaims, Holding, StdioGrants

\* Retiring grants keeps every server's account.
LEMMA DroppedOK ==
  ASSUME IndInv, NEW S, NEW n \in Names
  PROVE  ServerOK(Dropped(S)[n], EndpointClaims(n) \ S)
<1> DEFINE drops == Cardinality(S \cap EndpointClaims(n))
           left == Cardinality(EndpointClaims(n) \ S)
           held == Cardinality(EndpointClaims(n))
<1>1. /\ drops \in Nat /\ held \in Nat
      /\ drops <= held
      /\ left = held - drops
  BY DropCount, ClaimsFinite DEF IndInv
<1>2. ServerOK(shared[n], EndpointClaims(n))
  BY DEF IndInv, Accounting
<1>3. CASE drops = 0
  <2>1. Dropped(S)[n] = shared[n]
    BY <1>3 DEF Dropped
  <2>2. left = held
    BY <1>1, <1>3
  <2> QED
    BY <1>2, <2>1, <2>2 DEF ServerOK
<1>4. CASE drops # 0 /\ shared[n].refcount > drops
  <2>1. Dropped(S)[n] = [shared[n] EXCEPT !.refcount = shared[n].refcount - drops]
    BY <1>4 DEF Dropped
  <2>2. shared[n] \in SharedServer
    BY DEF IndInv, TypeOK
  <2>3. /\ Dropped(S)[n].refcount = held - drops
        /\ Dropped(S)[n].child = shared[n].child
        /\ Dropped(S)[n].timer = shared[n].timer
    BY <1>2, <2>1, <2>2 DEF ServerOK, SharedServer
  <2>4. shared[n].refcount = held /\ held > drops
    BY <1>2, <1>4 DEF ServerOK
  <2> HIDE DEF drops, left, held
  <2>5. Dropped(S)[n].refcount = left /\ left > 0
    BY <1>1, <2>3, <2>4
  <2>6. Dropped(S)[n].child # NoChild /\ Dropped(S)[n].timer = "none"
    BY <1>1, <1>2, <2>3, <2>4 DEF ServerOK
  <2> QED
    BY <2>5, <2>6, <1>1 DEF ServerOK, left
<1>5. CASE drops # 0 /\ ~(shared[n].refcount > drops)
  <2>1. Dropped(S)[n] = [child |-> shared[n].child, refcount |-> 0, timer |-> "pending"]
    BY <1>5 DEF Dropped
  <2>2. shared[n].refcount = held
    BY <1>2 DEF ServerOK
  <2>3. left = 0 /\ held > 0
    BY <1>1, <1>5, <2>2
  <2>4. shared[n].child # NoChild
    BY <1>2, <2>2, <2>3 DEF ServerOK
  <2> QED
    BY <2>1, <2>3, <2>4 DEF ServerOK
<1> QED
  BY <1>3, <1>4, <1>5

\* Each kind of step keeps the accounts.
LEMMA ActivateAccounting ==
  ASSUME IndInv, NEW n \in Names, NEW h \in Hashes, NEW c \in Conns, Activate(n, h, c)
  PROVE  Accounting'
<1> SUFFICES ASSUME NEW m \in Names
             PROVE  ServerOK(shared'[m], EndpointClaims(m)')
  BY DEF Accounting
<1>1. TypeOK /\ ServerOK(shared[m], EndpointClaims(m)) /\ shared \in [Names -> SharedServer]
  BY DEF IndInv, Accounting, TypeOK
<1>2. CASE StartStdio(n, h, c)
  <2>1. EndpointClaims(m)' = EndpointClaims(m)
    BY <1>1, <1>2, ClaimsAfterGrant DEF StartStdio
  <2> QED
    BY <1>1, <1>2, <2>1 DEF StartStdio
<1>3. CASE AttachShared(n, h, c)
  <2>1. EndpointClaims(m)' = IF m = n THEN EndpointClaims(m) \cup {nextGrant} ELSE EndpointClaims(m)
    BY <1>1, <1>3, ClaimsAfterGrant DEF AttachShared
  <2>2. CASE m # n
    BY <1>1, <1>3, <2>1, <2>2 DEF AttachShared
  <2>3. CASE m = n
    <3>1. /\ IsFiniteSet(EndpointClaims(m)) /\ nextGrant \notin EndpointClaims(m)
          /\ Cardinality(EndpointClaims(m)) \in Nat
      BY <1>1, ClaimsFinite
    <3>2. Cardinality(EndpointClaims(m)') = Cardinality(EndpointClaims(m)) + 1
      BY <2>1, <2>3, <3>1, FS_AddElement
    <3>3. shared'[m] = Attached(m)
      BY <1>1, <1>3, <2>3 DEF AttachShared
    <3>4. nextGrant # NoChild
      BY <1>1, BoundAssumption DEF TypeOK, NoChild
    <3>5. /\ shared'[m].refcount = Cardinality(EndpointClaims(m)')
          /\ shared'[m].refcount > 0
          /\ shared'[m].child # NoChild
          /\ shared'[m].timer = "none"
      BY <1>1, <3>1, <3>2, <3>3, <3>4 DEF Attached, ServerOK
    <3> QED
      BY <3>5 DEF ServerOK
  <2> QED
    BY <2>2, <2>3
<1>4. CASE ActivationFails(n, h)
  <2>1. EndpointClaims(m)' = EndpointClaims(m)
    BY <1>4 DEF ActivationFails, EndpointClaims, Holding, StdioGrants
  <2>2. CASE m = n /\ LaunchOf[h] = "executable"
    <3>1. shared'[m] = [shared[m] EXCEPT !.timer = "none"] /\ shared[m].child = NoChild
      BY <1>1, <1>4, <2>2 DEF ActivationFails
    <3>2. shared'[m] = shared[m]
      BY <1>1, <3>1 DEF ServerOK, SharedServer
    <3> QED
      BY <1>1, <2>1, <3>2
  <2>3. CASE m # n \/ LaunchOf[h] # "executable"
    <3>1. shared'[m] = shared[m]
      BY <1>1, <1>4, <2>3 DEF ActivationFails
    <3> QED
      BY <1>1, <2>1, <3>1
  <2> QED
    BY <2>2, <2>3
<1> QED
  BY <1>2, <1>3, <1>4 DEF Activate

LEMMA ReleaseAccounting ==
  ASSUME IndInv, NEW S, Retired(S), shared' = Dropped(S)
  PROVE  Accounting'
BY DroppedOK, ClaimsAfterRetire DEF Accounting

\* A stopped server without claims is accounted for.
LEMMA StoppedOK == ServerOK(Stopped, {})
BY FS_EmptySet DEF ServerOK, Stopped

LEMMA DeactivateAccounting ==
  ASSUME IndInv, NEW n \in Names, NEW force, Deactivate(n, force)
  PROVE  Accounting'
<1> SUFFICES ASSUME NEW m \in Names
             PROVE  ServerOK(shared'[m], EndpointClaims(m)')
  BY DEF Accounting
<1>1. EndpointClaims(m)' = EndpointClaims(m) \ Holding(n)
  BY ClaimsAfterRetire DEF Deactivate
<1>2. CASE m = n
  <2>1. shared'[m] = Stopped
    BY <1>2 DEF Deactivate, Dropped
  <2>2. EndpointClaims(m)' = {}
    BY <1>1, <1>2 DEF EndpointClaims
  <2> QED
    BY <2>1, <2>2, StoppedOK
<1>3. CASE m # n
  <2>1. shared'[m] = Dropped(Holding(n))[m]
    BY <1>3 DEF Deactivate, Dropped
  <2> QED
    BY <1>1, <2>1, DroppedOK
<1> QED
  BY <1>2, <1>3

LEMMA ReapIdleAccounting ==
  ASSUME IndInv, ReapIdle
  PROVE  Accounting'
<1> SUFFICES ASSUME NEW m \in Names
             PROVE  ServerOK(shared'[m], EndpointClaims(m)')
  BY DEF Accounting
<1>1. EndpointClaims(m)' = EndpointClaims(m)
  BY DEF ReapIdle, EndpointClaims, Holding, StdioGrants
<1>2. ServerOK(shared[m], EndpointClaims(m))
  BY DEF IndInv, Accounting
<1>3. CASE m \in Expired
  <2>1. shared'[m] = [Stopped EXCEPT !.refcount = shared[m].refcount] /\ shared[m].refcount = 0
    BY <1>3 DEF ReapIdle, Expired
  <2>2. shared'[m].refcount = 0 /\ shared'[m].child = NoChild /\ shared'[m].timer = "none"
    BY <2>1 DEF Stopped
  <2> QED
    BY <1>1, <1>2, <2>1, <2>2 DEF ServerOK
<1>4. CASE m \notin Expired
  <2>1. shared'[m] = shared[m]
    BY <1>4 DEF ReapIdle
  <2> QED
    BY <1>1, <1>2, <2>1
<1> QED
  BY <1>3, <1>4

LEMMA EnvironmentAccounting ==
  ASSUME IndInv, Environment
  PROVE  Accounting'
<1> SUFFICES ASSUME NEW m \in Names
             PROVE  ServerOK(shared'[m], EndpointClaims(m)')
  BY DEF Accounting
<1>1. ServerOK(shared[m], EndpointClaims(m)) /\ shared[m] \in SharedServer
  BY DEF IndInv, Accounting, TypeOK
<1>2. ASSUME NEW n \in Names, TimerElapses(n)
      PROVE  ServerOK(shared'[m], EndpointClaims(m)')
  <2>1. EndpointClaims(m)' = EndpointClaims(m)
    BY <1>2 DEF TimerElapses, EndpointClaims, Holding, StdioGrants
  <2>2. CASE m = n
    <3>1. shared'[m] = [shared[m] EXCEPT !.timer = "elapsed"] /\ shared[m].timer = "pending"
      BY <1>2, <2>2 DEF TimerElapses, IndInv, TypeOK
    <3>2. /\ shared'[m].refcount = shared[m].refcount
          /\ shared'[m].child = shared[m].child
          /\ shared'[m].timer = "elapsed"
      BY <1>1, <3>1 DEF SharedServer
    <3> QED
      BY <1>1, <2>1, <3>1, <3>2 DEF ServerOK
  <2>3. CASE m # n
    BY <1>1, <1>2, <2>1, <2>3 DEF TimerElapses, IndInv, TypeOK
  <2> QED
    BY <2>2, <2>3
<1>3. ASSUME UNCHANGED <<grants, shared>>
      PROVE  ServerOK(shared'[m], EndpointClaims(m)')
  BY <1>1, <1>3 DEF EndpointClaims, Holding, StdioGrants
<1>4. ASSUME BrokerRestarts
      PROVE  ServerOK(shared'[m], EndpointClaims(m)')
  <2>1. EndpointClaims(m)' = {}
    BY <1>4 DEF BrokerRestarts, EmptyMap, EndpointClaims, Holding
  <2>2. shared'[m] = Stopped
    BY <1>4 DEF BrokerRestarts
  <2> QED
    BY <2>1, <2>2, StoppedOK
<1> QED
  BY <1>2, <1>3, <1>4 DEF Environment, RelayAccepts, RelayEnds, ServerExits, BrokerDies,
       BrokerDiesWhileSpawning, ConsentChanges

LEMMA InitAccounting == Init => Accounting
<1> SUFFICES ASSUME Init, NEW n \in Names
             PROVE  ServerOK(shared[n], EndpointClaims(n))
  BY DEF Accounting
<1>1. EndpointClaims(n) = {} /\ shared[n] = Stopped
  BY DEF Init, EmptyMap, EndpointClaims, Holding
<1> QED
  BY <1>1, StoppedOK

LEMMA NextAccounting == IndInv /\ [Next]_vars => Accounting'
<1> SUFFICES ASSUME IndInv, [Next]_vars PROVE Accounting'
  OBVIOUS
<1>1. ASSUME NEW n \in Names, NEW h \in Hashes, NEW c \in Conns, Activate(n, h, c)
      PROVE  Accounting'
  BY <1>1, ActivateAccounting
<1>2. ASSUME NEW i \in GrantIds, Release(i)
      PROVE  Accounting'
  BY <1>2, ReleaseAccounting DEF Release
<1>3. ASSUME NEW c \in Conns, ReleaseConnection(c)
      PROVE  Accounting'
  BY <1>3, ReleaseAccounting DEF ReleaseConnection
<1>4. ASSUME NEW n \in Names, NEW force \in BOOLEAN, Deactivate(n, force)
      PROVE  Accounting'
  BY <1>4, DeactivateAccounting
<1>5. CASE ReapIdle
  BY <1>5, ReapIdleAccounting
<1>6. CASE Environment
  BY <1>6, EnvironmentAccounting
<1>7. CASE UNCHANGED vars
  BY <1>7 DEF vars, IndInv, Accounting, EndpointClaims, Holding, StdioGrants
<1> QED
  BY <1>1, <1>2, <1>3, <1>4, <1>5, <1>6, <1>7 DEF Next, Requests

LEMMA Inductive == Spec => []IndInv
<1>1. Init => IndInv
  BY InitType, InitAccounting DEF IndInv
<1>2. TypeOK /\ [Next]_vars => TypeOK'
  BY NextType
<1>3. IndInv /\ [Next]_vars => IndInv'
  BY <1>2, NextAccounting DEF IndInv
<1> QED
  BY <1>1, <1>3, PTL DEF Spec

\* The reference count of a shared server is the number of endpoint grants on
\* it, in every reachable state.
THEOREM RefcountCorrect == Spec => []RefcountExact
<1>1. IndInv => RefcountExact
  BY AccountingDef DEF IndInv
<1> QED
  BY <1>1, Inductive, PTL

\* A claimed server has its child, and an unclaimed child has its idle timer.
THEOREM TimerCorrect == Spec => []ClaimedOrTimed
<1>1. IndInv => ClaimedOrTimed
  BY AccountingDef DEF IndInv
<1> QED
  BY <1>1, Inductive, PTL

-----------------------------------------------------------------------------
(* Action properties                                                       *)

\* What one step may do to a shared child.
StopOK(n) ==
    shared[n].child # NoChild /\ shared'[n].child # shared[n].child
        => EndpointClaims(n)' = {}

LEMMA DroppedKeepsChild ==
  ASSUME TypeOK, NEW S, NEW n \in Names
  PROVE  Dropped(S)[n].child = shared[n].child
<1> DEFINE drops == Cardinality(S \cap EndpointClaims(n))
<1>1. shared[n] \in SharedServer
  BY DEF TypeOK
<1>2. CASE drops = 0
  BY <1>2 DEF Dropped
<1>3. CASE drops # 0 /\ shared[n].refcount > drops
  <2>1. Dropped(S)[n] = [shared[n] EXCEPT !.refcount = shared[n].refcount - drops]
    BY <1>3 DEF Dropped
  <2> QED
    BY <1>1, <2>1 DEF SharedServer
<1>4. CASE drops # 0 /\ ~(shared[n].refcount > drops)
  BY <1>4 DEF Dropped
<1> QED
  BY <1>2, <1>3, <1>4

LEMMA NextStops ==
  ASSUME IndInv, [Next]_vars, NEW n \in Names
  PROVE  StopOK(n)
<1>1. TypeOK /\ shared \in [Names -> SharedServer] /\ ServerOK(shared[n], EndpointClaims(n))
  BY DEF IndInv, Accounting, TypeOK
<1>2. ASSUME NEW m \in Names, NEW h \in Hashes, NEW c \in Conns, Activate(m, h, c)
      PROVE  StopOK(n)
  <2>1. CASE AttachShared(m, h, c) /\ m = n
    BY <1>1, <2>1 DEF AttachShared, Attached, StopOK
  <2>2. CASE AttachShared(m, h, c) /\ m # n
    BY <1>1, <2>2 DEF AttachShared, StopOK
  <2>3. CASE StartStdio(m, h, c)
    BY <2>3 DEF StartStdio, StopOK
  <2>4. CASE ActivationFails(m, h)
    <3>1. shared'[n] = shared[n] \/ shared'[n] = [shared[n] EXCEPT !.timer = "none"]
      BY <1>1, <2>4 DEF ActivationFails
    <3> QED
      BY <1>1, <3>1 DEF StopOK, SharedServer
  <2> QED
    BY <1>2, <2>1, <2>2, <2>3, <2>4 DEF Activate
<1>3. ASSUME NEW S, shared' = Dropped(S)
      PROVE  StopOK(n)
  BY <1>1, <1>3, DroppedKeepsChild DEF StopOK
<1>4. ASSUME NEW m \in Names, NEW force \in BOOLEAN, Deactivate(m, force)
      PROVE  StopOK(n)
  <2>1. CASE m = n
    <3>1. EndpointClaims(n)' = EndpointClaims(n) \ Holding(n)
      BY <1>4, <2>1, ClaimsAfterRetire DEF Deactivate
    <3> QED
      BY <3>1 DEF StopOK, EndpointClaims
  <2>2. CASE m # n
    <3>1. shared'[n] = Dropped(Holding(m))[n]
      BY <1>4, <2>2 DEF Deactivate, Dropped
    <3> QED
      BY <1>1, <3>1, DroppedKeepsChild DEF StopOK
  <2> QED
    BY <2>1, <2>2
<1>5. CASE ReapIdle
  <2>1. EndpointClaims(n)' = EndpointClaims(n)
    BY <1>5 DEF ReapIdle, EndpointClaims, Holding, StdioGrants
  <2>2. CASE n \in Expired
    <3>1. Cardinality(EndpointClaims(n)) = 0
      BY <1>1, <2>2 DEF Expired, ServerOK
    <3>2. EndpointClaims(n) = {}
      BY <1>1, <3>1, ClaimsFinite, FS_EmptySet
    <3> QED
      BY <2>1, <3>2 DEF StopOK
  <2>3. CASE n \notin Expired
    BY <1>5, <2>3 DEF ReapIdle, StopOK
  <2> QED
    BY <2>2, <2>3
<1>6. ASSUME NEW m \in Names, TimerElapses(m)
      PROVE  StopOK(n)
  <2>1. shared'[n] = shared[n] \/ shared'[n] = [shared[n] EXCEPT !.timer = "elapsed"]
    BY <1>1, <1>6 DEF TimerElapses
  <2> QED
    BY <1>1, <2>1 DEF StopOK, SharedServer
<1>7. ASSUME BrokerRestarts
      PROVE  StopOK(n)
  BY <1>7 DEF BrokerRestarts, EmptyMap, StopOK, EndpointClaims, Holding
<1>8. ASSUME UNCHANGED shared
      PROVE  StopOK(n)
  BY <1>8 DEF StopOK
<1>9. CASE Environment
  BY <1>6, <1>7, <1>8, <1>9 DEF Environment, RelayAccepts, RelayEnds, ServerExits,
     BrokerDies, BrokerDiesWhileSpawning, ConsentChanges
<1>10. CASE Requests
  BY <1>2, <1>3, <1>4, <1>10 DEF Requests, Release, ReleaseConnection
<1> QED
  BY <1>5, <1>8, <1>9, <1>10 DEF Next, vars

\* No step of the broker takes a shared server away from a client that holds a
\* grant on it.
THEOREM StopsCorrect == Spec => StopsOnlyUnclaimed
<1>1. IndInv /\ [Next]_vars => [\A n \in Names : StopOK(n)]_vars
  BY NextStops
<1>2. [\A n \in Names : StopOK(n)]_vars
        => [\A n \in Names :
              shared[n].child # NoChild /\ shared'[n].child # shared[n].child
                => EndpointClaims(n)' = {}]_vars
  BY DEF StopOK
<1> QED
  BY <1>1, <1>2, Inductive, PTL DEF Spec, StopsOnlyUnclaimed

\* What one step may start.
StartOK ==
    \A i \in DOMAIN procs' \ DOMAIN procs :
        consent[procs'[i].name] = GrantedFor(procs'[i].hash)

\* Consent counts as given only for the very hash the user decided about.
LEMMA ApprovedMeansGranted ==
  ASSUME TypeOK, NEW n \in Names, NEW h \in Hashes, Approved(n, h)
  PROVE  consent[n] = GrantedFor(h)
BY DEF Approved, Evaluate, NotAsked, Denied

LEMMA NextStarts ==
  ASSUME TypeOK, [Next]_vars
  PROVE  StartOK
<1>1. procs \in [DOMAIN procs -> Process]
  BY DEF TypeOK
<1>2. ASSUME NEW n \in Names, NEW h \in Hashes, Approved(n, h), procs' = Spawned(n, h)
      PROVE  StartOK
  <2>1. DOMAIN procs' = DOMAIN procs \cup {nextGrant}
    BY <1>2 DEF Spawned, With
  <2>2. procs'[nextGrant].name = n /\ procs'[nextGrant].hash = h
    BY <1>2 DEF Spawned, With
  <2> QED
    BY <1>2, <2>1, <2>2, ApprovedMeansGranted DEF StartOK
<1>3. ASSUME DOMAIN procs' \subseteq DOMAIN procs
      PROVE  StartOK
  BY <1>3 DEF StartOK
<1>4. ASSUME NEW S, procs' = Without(procs, S)
      PROVE  StartOK
  BY <1>3, <1>4 DEF Without
<1>5. ASSUME UNCHANGED procs
      PROVE  StartOK
  BY <1>3, <1>5
<1>6. CASE Requests
  BY <1>2, <1>4, <1>5, <1>6 DEF Requests, Activate, StartStdio, AttachShared, ActivationFails,
     Release, ReleaseConnection, Deactivate
<1>7. CASE ReapIdle
  BY <1>4, <1>7 DEF ReapIdle
<1>8. CASE BrokerDies
  BY <1>3, <1>8 DEF BrokerDies, Survivors
<1>9. ASSUME NEW n \in Names, NEW h \in Hashes, BrokerDiesWhileSpawning(n, h)
      PROVE  StartOK
  <2>1. DOMAIN procs' \subseteq DOMAIN procs \cup {nextGrant}
    BY <1>9 DEF BrokerDiesWhileSpawning, Survivors
  <2>2. procs'[nextGrant].name = n /\ procs'[nextGrant].hash = h
    BY <1>9 DEF BrokerDiesWhileSpawning
  <2> QED
    BY <1>9, <2>1, <2>2, ApprovedMeansGranted DEF StartOK, BrokerDiesWhileSpawning
<1>10. ASSUME NEW i \in GrantIds, ServerExits(i)
      PROVE  StartOK
  BY <1>3, <1>4, <1>10 DEF ServerExits
<1>11. CASE Environment
  BY <1>5, <1>8, <1>9, <1>10, <1>11 DEF Environment, TimerElapses, RelayAccepts, RelayEnds,
     ConsentChanges
<1> QED
  BY <1>5, <1>6, <1>7, <1>11 DEF Next, vars

\* No process starts without the user's decision for exactly that launch.
THEOREM LaunchCorrect == Spec => LaunchApproved
<1>1. TypeOK /\ [Next]_vars => [StartOK]_vars
  BY NextStarts
<1>2. [StartOK]_vars
        => [\A i \in DOMAIN procs' \ DOMAIN procs :
              consent[procs'[i].name] = GrantedFor(procs'[i].hash)]_vars
  BY DEF StartOK
<1> QED
  BY <1>1, <1>2, TypeCorrect, PTL DEF Spec, LaunchApproved

-----------------------------------------------------------------------------
(* Processes                                                               *)

\* ProcsAccounted is inductive once the types are known: that ids are new keeps
\* a child from having two owners, and that it has one owner at most keeps a
\* process that is stopped from being the child of somebody else.
LEMMA OwnedOnce ==
  ASSUME TypeOK, ProcsAccounted
  PROVE  /\ HeldChildren \subseteq DOMAIN procs
         /\ NoChild \notin DOMAIN procs
         /\ \A i \in HeldChildren : ~procs[i].orphan
         /\ \A m, n \in Names :
              shared[m].child = shared[n].child /\ shared[n].child # NoChild => m = n
<1>1. HeldChildren \subseteq DOMAIN procs /\ \A i \in HeldChildren : ~procs[i].orphan
  BY DEF ProcsAccounted
<1>2. NoChild \notin DOMAIN procs
  BY BoundAssumption DEF TypeOK, NoChild
<1>3. ASSUME NEW m \in Names, NEW n \in Names,
             shared[m].child = shared[n].child, shared[n].child # NoChild
      PROVE  m = n
  BY <1>3 DEF ProcsAccounted
<1> QED
  BY <1>1, <1>2, <1>3

\* Stopping processes together with everything that owns them keeps the
\* accounts: S are the grants retired, P the processes stopped.
LEMMA StoppedWithOwners ==
  ASSUME TypeOK, ProcsAccounted, NEW S, NEW P,
         StdioGrants' = StdioGrants \ S,
         \A i \in StdioGrants' : grants'[i].name = grants[i].name,
         DOMAIN relay' = DOMAIN relay \ S,
         \A n \in Names : shared'[n].child \in {shared[n].child, NoChild},
         procs' = Without(procs, P),
         P \ {NoChild} = (S \cap StdioGrants) \cup
             ({shared[n].child : n \in {m \in Names : shared'[m].child # shared[m].child}}
                \ {NoChild})
  PROVE  ProcsAccounted'
<1>1. /\ DOMAIN procs' = DOMAIN procs \ P
      /\ \A i \in DOMAIN procs' : procs'[i] = procs[i]
  BY DEF Without
<1>2. HeldChildren' = HeldChildren \ P
  <2>1. ASSUME NEW i \in HeldChildren'
        PROVE  i \in HeldChildren \ P
    <3>1. CASE i \in StdioGrants'
      <4>1. i \in StdioGrants /\ i \notin S /\ i # NoChild
        BY <3>1, OwnedOnce DEF HeldChildren
      <4>2. \A n \in Names : shared[n].child # NoChild => shared[n].child # i
        BY <4>1 DEF ProcsAccounted
      <4> QED
        BY <4>1, <4>2 DEF HeldChildren
    <3>2. CASE i \notin StdioGrants'
      <4>1. PICK n \in Names : shared'[n].child = i /\ i # NoChild
        BY <2>1, <3>2 DEF HeldChildren
      <4>2. shared[n].child = i /\ shared'[n].child = shared[n].child /\ i \notin StdioGrants
        BY <4>1 DEF ProcsAccounted
      <4>3. \A m \in Names : shared[m].child = i => m = n
        BY <4>1, <4>2, OwnedOnce
      <4> QED
        BY <4>1, <4>2, <4>3 DEF HeldChildren
    <3> QED
      BY <3>1, <3>2
  <2>2. ASSUME NEW i \in HeldChildren, i \notin P
        PROVE  i \in HeldChildren'
    <3>1. i # NoChild
      BY OwnedOnce
    <3>2. CASE i \in StdioGrants
      BY <2>2, <3>1, <3>2 DEF HeldChildren
    <3>3. CASE i \notin StdioGrants
      <4>1. PICK n \in Names : shared[n].child = i
        BY <3>3 DEF HeldChildren
      <4>2. shared'[n].child = i
        BY <2>2, <3>1, <4>1
      <4> QED
        BY <3>1, <4>2 DEF HeldChildren
    <3> QED
      BY <3>2, <3>3
  <2> QED
    BY <2>1, <2>2
<1>3. {i \in DOMAIN procs' : ~procs'[i].orphan} = HeldChildren'
  BY <1>1, <1>2 DEF ProcsAccounted
<1>4. \A i \in StdioGrants' : procs'[i].name = grants'[i].name
  <2>1. \A i \in StdioGrants' : i \in DOMAIN procs'
    BY <1>3 DEF HeldChildren
  <2> QED
    BY <1>1, <2>1 DEF ProcsAccounted
<1>5. ASSUME NEW n \in Names, shared'[n].child # NoChild
      PROVE  procs'[shared'[n].child].name = n /\ shared'[n].child \notin StdioGrants'
  <2>1. shared'[n].child = shared[n].child
    BY <1>5
  <2>2. shared'[n].child \in DOMAIN procs'
    BY <1>3, <1>5 DEF HeldChildren
  <2> QED
    BY <1>1, <1>5, <2>1, <2>2 DEF ProcsAccounted
<1>6. DOMAIN relay' = StdioGrants'
  BY DEF ProcsAccounted
<1> QED
  BY <1>3, <1>4, <1>5, <1>6 DEF ProcsAccounted

\* What retiring grants does to the stdio grants and their relays.
LEMMA StdioAfterRetire ==
  ASSUME TypeOK, NEW S, Retired(S)
  PROVE  /\ StdioGrants' = StdioGrants \ S
         /\ \A i \in StdioGrants' : grants'[i].name = grants[i].name
         /\ DOMAIN relay' = DOMAIN relay \ S
BY DEF Retired, Without, StdioGrants

\* Releasing grants stops the children of the stdio grants among them.
LEMMA ReleaseProcs ==
  ASSUME TypeOK, ProcsAccounted, NEW S, Retired(S), shared' = Dropped(S),
         procs' = Without(procs, S \cap StdioGrants)
  PROVE  ProcsAccounted'
<1>1. \A n \in Names : shared'[n].child = shared[n].child
  BY DroppedKeepsChild
<1>2. NoChild \notin StdioGrants
  BY OwnedOnce DEF HeldChildren
<1> DEFINE P == S \cap StdioGrants
<1>3. P \ {NoChild} = (S \cap StdioGrants) \cup
             ({shared[n].child : n \in {m \in Names : shared'[m].child # shared[m].child}}
                \ {NoChild})
  BY <1>1, <1>2
<1> HIDE DEF P
<1>4. procs' = Without(procs, P)
  BY DEF P
<1> QED
  BY <1>1, <1>3, <1>4, StdioAfterRetire, StoppedWithOwners

LEMMA DeactivateProcs ==
  ASSUME TypeOK, ProcsAccounted, NEW n \in Names, NEW force, Deactivate(n, force)
  PROVE  ProcsAccounted'
<1> DEFINE S == Holding(n)
           P == (S \cap StdioGrants) \cup {shared[n].child}
<1>1. \A m \in Names \ {n} : shared'[m].child = shared[m].child
  BY DroppedKeepsChild DEF Deactivate, Dropped
<1>2. shared'[n].child = NoChild
  BY DEF Deactivate, Dropped, Stopped
<1>3. NoChild \notin StdioGrants
  BY OwnedOnce DEF HeldChildren
<1>4. P \ {NoChild} = (S \cap StdioGrants) \cup
             ({shared[k].child : k \in {m \in Names : shared'[m].child # shared[m].child}}
                \ {NoChild})
  BY <1>1, <1>2, <1>3
<1>5. Retired(S) /\ procs' = Without(procs, P)
  BY DEF Deactivate
<1> HIDE DEF P, S
<1> QED
  BY <1>1, <1>2, <1>4, <1>5, StdioAfterRetire, StoppedWithOwners

LEMMA ReapIdleProcs ==
  ASSUME TypeOK, ProcsAccounted, ReapIdle
  PROVE  ProcsAccounted'
<1> DEFINE P == {shared[n].child : n \in Expired}
<1>1. /\ \A n \in Expired : shared'[n].child = NoChild
      /\ \A n \in Names \ Expired : shared'[n].child = shared[n].child
      /\ Expired \subseteq Names
  BY DEF ReapIdle, Expired, Stopped
<1>2. P \ {NoChild} = ({} \cap StdioGrants) \cup
             ({shared[n].child : n \in {m \in Names : shared'[m].child # shared[m].child}}
                \ {NoChild})
  BY <1>1
<1>3. procs' = Without(procs, P)
  BY DEF ReapIdle
<1>4. /\ StdioGrants' = StdioGrants \ {}
      /\ \A i \in StdioGrants' : grants'[i].name = grants[i].name
      /\ DOMAIN relay' = DOMAIN relay \ {}
  BY DEF ReapIdle, StdioGrants
<1> HIDE DEF P
<1>5. \A n \in Names : shared'[n].child \in {shared[n].child, NoChild}
  BY <1>1
<1> QED
  BY <1>2, <1>3, <1>4, <1>5, StoppedWithOwners

\* The broker that starts has no grants, no relays and no shared children, and
\* every process there is belongs to a dead one.
LEMMA DeathProcs ==
  ASSUME BrokerRestarts, \A i \in DOMAIN procs' : procs'[i].orphan
  PROVE  ProcsAccounted'
<1>1. grants' = EmptyMap /\ relay' = EmptyMap /\ DOMAIN EmptyMap = {}
  BY DEF BrokerRestarts, EmptyMap
<1>2. StdioGrants' = {} /\ DOMAIN relay' = {}
  BY <1>1 DEF StdioGrants
<1>3. \A n \in Names : shared'[n].child = NoChild
  BY DEF BrokerRestarts, Stopped
<1>4. HeldChildren' = {}
  BY <1>2, <1>3 DEF HeldChildren
<1> QED
  BY <1>2, <1>3, <1>4 DEF ProcsAccounted

LEMMA ActivateProcs ==
  ASSUME TypeOK, ProcsAccounted, NEW n \in Names, NEW h \in Hashes, NEW c \in Conns,
         Activate(n, h, c)
  PROVE  ProcsAccounted'
<1>1. /\ nextGrant \in GrantIds /\ nextGrant \notin DOMAIN grants
      /\ nextGrant \notin DOMAIN procs /\ nextGrant # NoChild
  BY FreshId, BoundAssumption DEF Activate, StartStdio, AttachShared, ActivationFails,
     GrantIds, NoChild
<1>2. /\ nextGrant \notin StdioGrants
      /\ \A m \in Names : shared[m].child # nextGrant
  BY <1>1, OwnedOnce DEF HeldChildren
<1>3. ASSUME procs' = Spawned(n, h)
      PROVE  /\ {i \in DOMAIN procs' : ~procs'[i].orphan}
                  = {i \in DOMAIN procs : ~procs[i].orphan} \cup {nextGrant}
             /\ \A i \in DOMAIN procs : procs'[i] = procs[i]
             /\ procs'[nextGrant].name = n
  BY <1>1, <1>3 DEF Spawned, With
<1>4. ASSUME NEW kind \in {"stdio", "endpoint"}, grants' = Granted(n, c, kind)
      PROVE  /\ StdioGrants' = IF kind = "stdio" THEN StdioGrants \cup {nextGrant}
                               ELSE StdioGrants
             /\ grants'[nextGrant].name = n
             /\ \A i \in DOMAIN grants : grants'[i] = grants[i]
  BY <1>1, <1>4 DEF Granted, With, StdioGrants
<1>5. /\ \A i \in StdioGrants : i \in DOMAIN procs /\ i \in DOMAIN grants
      /\ \A m \in Names : shared[m].child # NoChild => shared[m].child \in DOMAIN procs
  BY OwnedOnce DEF HeldChildren, StdioGrants
<1>6. CASE StartStdio(n, h, c)
  <2>1. StdioGrants' = StdioGrants \cup {nextGrant} /\ shared' = shared
    BY <1>4, <1>6 DEF StartStdio
  <2>2. HeldChildren' = HeldChildren \cup {nextGrant}
    BY <2>1 DEF HeldChildren
  <2>3. DOMAIN relay' = DOMAIN relay \cup {nextGrant}
    BY <1>6 DEF StartStdio, With
  <2>4. \A i \in StdioGrants' : procs'[i].name = grants'[i].name
    BY <1>3, <1>4, <1>5, <1>6, <2>1 DEF StartStdio, ProcsAccounted
  <2>5. \A m \in Names : shared'[m].child # NoChild =>
            procs'[shared'[m].child].name = m /\ shared'[m].child \notin StdioGrants'
    BY <1>2, <1>3, <1>5, <1>6, <2>1 DEF StartStdio, ProcsAccounted
  <2> QED
    BY <1>3, <1>6, <2>1, <2>2, <2>3, <2>4, <2>5 DEF StartStdio, ProcsAccounted
<1>7. CASE AttachShared(n, h, c)
  <2>1. /\ StdioGrants' = StdioGrants /\ relay' = relay
        /\ \A i \in StdioGrants : grants'[i] = grants[i]
    BY <1>4, <1>5, <1>7 DEF AttachShared
  <2>2. \A m \in Names \ {n} : shared'[m].child = shared[m].child
    BY <1>7 DEF AttachShared
  <2>3. shared'[n].child = IF shared[n].child = NoChild THEN nextGrant ELSE shared[n].child
    BY <1>7 DEF AttachShared, Attached, TypeOK
  <2>4. CASE shared[n].child # NoChild
    <3>1. procs' = procs /\ \A m \in Names : shared'[m].child = shared[m].child
      BY <1>7, <2>2, <2>3, <2>4 DEF AttachShared
    <3>2. HeldChildren' = HeldChildren
      BY <2>1, <3>1 DEF HeldChildren
    <3> QED
      BY <2>1, <3>1, <3>2 DEF ProcsAccounted
  <2>5. CASE shared[n].child = NoChild
    <3>1. procs' = Spawned(n, h) /\ shared'[n].child = nextGrant
      BY <1>7, <2>3, <2>5 DEF AttachShared
    <3>2. HeldChildren' = HeldChildren \cup {nextGrant}
      BY <1>1, <2>1, <2>2, <2>5, <3>1 DEF HeldChildren
    <3>3. \A i \in StdioGrants' : procs'[i].name = grants'[i].name
      BY <1>3, <1>5, <2>1, <3>1 DEF ProcsAccounted
    <3>4. \A m \in Names : shared'[m].child # NoChild =>
              procs'[shared'[m].child].name = m /\ shared'[m].child \notin StdioGrants'
      BY <1>2, <1>3, <1>5, <2>1, <2>2, <3>1 DEF ProcsAccounted
    <3> QED
      BY <1>3, <2>1, <3>1, <3>2, <3>3, <3>4 DEF ProcsAccounted
  <2> QED
    BY <2>4, <2>5
<1>8. CASE ActivationFails(n, h)
  <2>1. \A m \in Names : shared'[m].child = shared[m].child
    BY <1>8 DEF ActivationFails, TypeOK, SharedServer
  <2>2. StdioGrants' = StdioGrants /\ grants' = grants /\ procs' = procs /\ relay' = relay
    BY <1>8 DEF ActivationFails, StdioGrants
  <2>3. HeldChildren' = HeldChildren
    BY <2>1, <2>2 DEF HeldChildren
  <2> QED
    BY <2>1, <2>2, <2>3 DEF ProcsAccounted
<1> QED
  BY <1>6, <1>7, <1>8 DEF Activate

\* Nothing beside the engine changes who owns a process.
LEMMA EnvironmentProcs ==
  ASSUME TypeOK, ProcsAccounted, Environment
  PROVE  ProcsAccounted'
<1>1. ASSUME NEW n \in Names, TimerElapses(n)
      PROVE  ProcsAccounted'
  <2>1. \A m \in Names : shared'[m].child = shared[m].child
    BY <1>1 DEF TimerElapses, TypeOK, SharedServer
  <2>2. HeldChildren' = HeldChildren /\ StdioGrants' = StdioGrants
    BY <1>1, <2>1 DEF TimerElapses, HeldChildren, StdioGrants
  <2> QED
    BY <1>1, <2>1, <2>2 DEF TimerElapses, ProcsAccounted
<1>2. ASSUME UNCHANGED <<grants, shared, procs>>, DOMAIN relay' = DOMAIN relay
      PROVE  ProcsAccounted'
  BY <1>2 DEF ProcsAccounted, HeldChildren, StdioGrants
<1>3. ASSUME NEW i \in GrantIds, ServerExits(i)
      PROVE  ProcsAccounted'
  <2>1. HeldChildren' = HeldChildren /\ StdioGrants' = StdioGrants
    BY <1>3 DEF ServerExits, HeldChildren, StdioGrants
  <2>2. /\ {j \in DOMAIN procs' : ~procs'[j].orphan} = {j \in DOMAIN procs : ~procs[j].orphan}
        /\ \A j \in HeldChildren : procs'[j].name = procs[j].name
    <3>1. i \in DOMAIN procs /\ procs \in [DOMAIN procs -> Process]
      BY <1>3 DEF ServerExits, TypeOK
    <3>2. CASE procs[i].orphan
      <4>1. procs' = Without(procs, {i}) /\ i \notin HeldChildren
        BY <1>3, <3>2, OwnedOnce DEF ServerExits
      <4> QED
        BY <3>2, <4>1, OwnedOnce DEF Without
    <3>3. CASE ~procs[i].orphan
      <4>1. procs' = [procs EXCEPT ![i] = [procs[i] EXCEPT !.up = FALSE]]
        BY <1>3, <3>3 DEF ServerExits
      <4>2. \A j \in DOMAIN procs : procs'[j].orphan = procs[j].orphan
                                    /\ procs'[j].name = procs[j].name
        BY <3>1, <4>1 DEF Process
      <4> QED
        BY <4>1, <4>2, OwnedOnce
    <3> QED
      BY <3>2, <3>3
  <2>3. /\ StdioGrants \subseteq HeldChildren
        /\ \A n \in Names : shared[n].child # NoChild => shared[n].child \in HeldChildren
    BY DEF HeldChildren
  <2> QED
    BY <1>3, <2>1, <2>2, <2>3 DEF ServerExits, ProcsAccounted
<1>4. CASE BrokerDies
  <2>1. \A i \in DOMAIN procs' : procs'[i].orphan
    BY <1>4 DEF BrokerDies, Survivors, TypeOK, Process
  <2> QED
    BY <1>4, <2>1, DeathProcs DEF BrokerDies
<1>5. ASSUME NEW n \in Names, NEW h \in Hashes, BrokerDiesWhileSpawning(n, h)
      PROVE  ProcsAccounted'
  <2>1. \A i \in DOMAIN procs' : procs'[i].orphan
    BY <1>5 DEF BrokerDiesWhileSpawning, Survivors, TypeOK, Process
  <2> QED
    BY <1>5, <2>1, DeathProcs DEF BrokerDiesWhileSpawning
<1>6. ASSUME NEW i \in GrantIds, RelayAccepts(i) \/ RelayEnds(i)
      PROVE  UNCHANGED <<grants, shared, procs>> /\ DOMAIN relay' = DOMAIN relay
  BY <1>6 DEF RelayAccepts, RelayEnds, TypeOK
<1>7. ASSUME NEW n \in Names, NEW r \in ConsentRecords, ConsentChanges(n, r)
      PROVE  ProcsAccounted'
  BY <1>2, <1>7 DEF ConsentChanges
<1> QED
  BY <1>1, <1>2, <1>3, <1>4, <1>5, <1>6, <1>7 DEF Environment

LEMMA NextProcs == TypeOK /\ ProcsAccounted /\ [Next]_vars => ProcsAccounted'
<1> SUFFICES ASSUME TypeOK, ProcsAccounted, [Next]_vars PROVE ProcsAccounted'
  OBVIOUS
<1>1. ASSUME NEW i \in GrantIds, Release(i)
      PROVE  ProcsAccounted'
  BY <1>1, ReleaseProcs DEF Release
<1>2. ASSUME NEW c \in Conns, ReleaseConnection(c)
      PROVE  ProcsAccounted'
  BY <1>2, ReleaseProcs DEF ReleaseConnection
<1>3. CASE Requests
  BY <1>1, <1>2, <1>3, ActivateProcs, DeactivateProcs DEF Requests
<1>4. CASE ReapIdle
  BY <1>4, ReapIdleProcs
<1>5. CASE Environment
  BY <1>5, EnvironmentProcs
<1>6. CASE UNCHANGED vars
  BY <1>6 DEF vars, ProcsAccounted, HeldChildren, StdioGrants
<1> QED
  BY <1>3, <1>4, <1>5, <1>6 DEF Next

LEMMA InitProcs == Init => ProcsAccounted
<1> SUFFICES ASSUME Init PROVE ProcsAccounted
  OBVIOUS
<1>1. StdioGrants = {} /\ DOMAIN procs = {} /\ DOMAIN relay = {}
  BY DEF Init, EmptyMap, StdioGrants
<1>2. \A n \in Names : shared[n].child = NoChild
  BY DEF Init, Stopped
<1>3. HeldChildren = {}
  BY <1>1, <1>2 DEF HeldChildren
<1> QED
  BY <1>1, <1>2, <1>3 DEF ProcsAccounted

\* In every reachable state the processes of this broker are exactly those a
\* grant or a shared entry owns: none is leaked, and none is stopped while
\* something still refers to it.
THEOREM ProcsCorrect == Spec => []ProcsAccounted
<1>1. TypeOK /\ ProcsAccounted /\ [Next]_vars => ProcsAccounted'
  BY NextProcs
<1> QED
  BY <1>1, InitProcs, TypeCorrect, PTL DEF Spec

-----------------------------------------------------------------------------
(* The engine implements Lifetime: its initial state maps to an initial    *)
(* state of the promise, and each of its steps to a claim, a wasted id, a  *)
(* drop or a stutter.  The one obligation that needs the inductive         *)
(* invariant is that a server which goes down has no claims left.          *)

\* The refinement mapping, named.
Up(n) == shared[n].child # NoChild \/ Holding(n) \cap StdioGrants # {}

\* A server with a grant on it has a process behind the grant.
HeldServersUp == \A n \in Names : Holding(n) # {} => Up(n)

LEMMA HeldIsUp == IndInv => HeldServersUp
<1> SUFFICES ASSUME IndInv, NEW n \in Names, Holding(n) # {}
             PROVE  Up(n)
  BY DEF HeldServersUp
<1>1. ServerOK(shared[n], EndpointClaims(n)) /\ TypeOK
  BY DEF IndInv, Accounting
<1>2. CASE EndpointClaims(n) # {}
  <2>1. Cardinality(EndpointClaims(n)) # 0 /\ Cardinality(EndpointClaims(n)) \in Nat
    BY <1>1, <1>2, ClaimsFinite, FS_EmptySet
  <2> QED
    BY <1>1, <2>1 DEF ServerOK, Up
<1>3. CASE EndpointClaims(n) = {}
  BY <1>3 DEF EndpointClaims, Up
<1> QED
  BY <1>2, <1>3

LEMMA HeldIsUpNext == IndInv' => HeldServersUp'
BY HeldIsUp, PTL

\* Initial states map to initial states.
LEMMA InitRefines == Init => Promise!LifetimeInit
<1> SUFFICES ASSUME Init PROVE Promise!LifetimeInit
  OBVIOUS
<1>1. \A n \in Names : Holding(n) = {} /\ shared[n].child = NoChild
  BY DEF Init, EmptyMap, Holding, Stopped
<1>2. 1..(nextGrant - 1) = {}
  BY DEF Init
<1> QED
  BY <1>1, <1>2 DEF Promise!LifetimeInit

\* What a step must do to the claims and the processes to be a Drop.
LEMMA DropRefines ==
  ASSUME IndInv, IndInv',
         \A n \in Names : Holding(n)' \subseteq Holding(n),
         \A n \in Names : Up(n)' => Up(n),
         \/ nextGrant' = nextGrant
         \/ TakeGrantId
  PROVE  Promise!Drop
<1>1. \A n \in Names : Holding(n)' \subseteq GrantIds
  BY BoundAssumption DEF Holding, IndInv, TypeOK, GrantIds
<1>2. \A n \in Names : ~Up(n)' => Holding(n)' = {}
  BY HeldIsUpNext DEF HeldServersUp
<1>3. \/ 1..(nextGrant' - 1) = 1..(nextGrant - 1)
      \/ \E i \in GrantIds \ (1..(nextGrant - 1)) :
            1..(nextGrant' - 1) = 1..(nextGrant - 1) \cup {i}
  BY FreshId DEF IndInv, TakeGrantId, TypeOK
<1> QED
  BY <1>1, <1>2, <1>3 DEF Promise!Drop, Up

\* A grant is a claim.
LEMMA ClaimRefines ==
  ASSUME IndInv, NEW n \in Names, NEW c \in Conns, NEW kind \in {"stdio", "endpoint"},
         TakeGrantId, grants' = Granted(n, c, kind),
         Up(n)', \A m \in Names \ {n} : shared'[m] = shared[m],
         NEW k \in GrantIds, k = nextGrant
  PROVE  Promise!Claim(n, k)
<1>1. /\ nextGrant \in GrantIds /\ nextGrant \notin DOMAIN grants
      /\ 1..(nextGrant' - 1) = 1..(nextGrant - 1) \cup {nextGrant}
      /\ nextGrant \notin 1..(nextGrant - 1)
  BY FreshId DEF IndInv, TypeOK, GrantIds
<1>2. /\ DOMAIN grants' = DOMAIN grants \cup {nextGrant}
      /\ grants'[nextGrant].name = n
      /\ \A i \in DOMAIN grants : grants'[i] = grants[i]
  BY <1>1 DEF Granted, With
<1>3. \A m \in Names : Holding(m)' = IF m = n THEN Holding(m) \cup {nextGrant} ELSE Holding(m)
  BY <1>1, <1>2 DEF Holding
<1>4. \A m \in Names \ {n} : Up(m)' = Up(m)
  <2> SUFFICES ASSUME NEW m \in Names \ {n} PROVE Up(m)' = Up(m)
    OBVIOUS
  <2>1. (Holding(m) \cap StdioGrants)' = Holding(m) \cap StdioGrants
    BY <1>1, <1>2 DEF Holding, StdioGrants
  <2> QED
    BY <2>1 DEF Up
<1>5. [m \in Names |-> Holding(m)']
        = [[m \in Names |-> Holding(m)] EXCEPT ![n] = @ \cup {k}]
  BY <1>3
<1>6. [m \in Names |-> Up(m)'] = [[m \in Names |-> Up(m)] EXCEPT ![n] = TRUE]
  BY <1>4
<1> QED
  BY <1>1, <1>5, <1>6 DEF Promise!Claim, Up

LEMMA ActivateRefines ==
  ASSUME IndInv, IndInv', NEW n \in Names, NEW h \in Hashes, NEW c \in Conns, Activate(n, h, c)
  PROVE  Promise!LifetimeNext
<1>1. shared \in [Names -> SharedServer] /\ TypeOK /\ TakeGrantId
  BY DEF IndInv, TypeOK, Activate, StartStdio, AttachShared, ActivationFails
<1>2. nextGrant \in GrantIds /\ nextGrant # NoChild
  BY <1>1, FreshId, BoundAssumption DEF GrantIds, NoChild
<1>6. PICK k \in GrantIds : k = nextGrant
  BY <1>2
<1>3. CASE StartStdio(n, h, c)
  <2>1. nextGrant \in (Holding(n) \cap StdioGrants)'
    BY <1>3 DEF StartStdio, Granted, With, Holding, StdioGrants
  <2>2. Up(n)'
    BY <2>1 DEF Up
  <2>3. grants' = Granted(n, c, "stdio") /\ \A m \in Names \ {n} : shared'[m] = shared[m]
    BY <1>3 DEF StartStdio
  <2>4. "stdio" \in {"stdio", "endpoint"}
    OBVIOUS
  <2>5. Promise!Claim(n, k)
    BY ONLY IndInv, n \in Names, c \in Conns, <1>1, <1>6, <2>2, <2>3, <2>4, ClaimRefines
  <2> QED
    BY <1>2, <2>5 DEF Promise!LifetimeNext
<1>4. CASE AttachShared(n, h, c)
  <2>1. Up(n)' /\ \A m \in Names \ {n} : shared'[m] = shared[m]
    BY <1>1, <1>2, <1>4 DEF AttachShared, Attached, Up
  <2>2. grants' = Granted(n, c, "endpoint")
    BY <1>4 DEF AttachShared
  <2>3. "endpoint" \in {"stdio", "endpoint"}
    OBVIOUS
  <2>4. Promise!Claim(n, k)
    BY ONLY IndInv, n \in Names, c \in Conns, <1>1, <1>6, <2>1, <2>2, <2>3, ClaimRefines
  <2> QED
    BY <1>2, <2>4 DEF Promise!LifetimeNext
<1>5. CASE ActivationFails(n, h)
  <2>1. \A m \in Names : shared'[m].child = shared[m].child
    <3>1. ASSUME NEW m \in Names
          PROVE  shared'[m] = shared[m] \/ shared'[m] = [shared[m] EXCEPT !.timer = "none"]
      BY <1>1, <1>5 DEF ActivationFails
    <3> QED
      BY <1>1, <3>1 DEF SharedServer
  <2>2. \A m \in Names : Holding(m)' = Holding(m) /\ Up(m)' = Up(m)
    BY <1>5, <2>1 DEF ActivationFails, Holding, StdioGrants, Up
  <2>3. Promise!Drop
    BY <1>1, <2>2, DropRefines
  <2> QED
    BY <2>3 DEF Promise!LifetimeNext
<1> QED
  BY <1>3, <1>4, <1>5 DEF Activate

\* A step that retires grants and may stop children is a drop.
LEMMA RetireRefines ==
  ASSUME IndInv, IndInv', NEW S, Retired(S),
         \A n \in Names : shared'[n].child \in {shared[n].child, NoChild}
  PROVE  Promise!Drop
<1>1. \A n \in Names :
        /\ Holding(n)' \subseteq Holding(n)
        /\ (Holding(n) \cap StdioGrants)' \subseteq Holding(n) \cap StdioGrants
  BY DEF Retired, Without, Holding, StdioGrants
<1>2. \A n \in Names : Up(n)' => Up(n)
  BY <1>1 DEF Up
<1>3. nextGrant' = nextGrant
  BY DEF Retired
<1> QED
  BY <1>1, <1>2, <1>3, DropRefines

LEMMA DeathRefines ==
  ASSUME IndInv, IndInv', BrokerRestarts, nextGrant' = nextGrant \/ TakeGrantId
  PROVE  Promise!Drop
<1>1. \A n \in Names : Holding(n)' = {} /\ ~Up(n)'
  BY DEF BrokerRestarts, EmptyMap, Holding, Up, Stopped
<1> QED
  BY <1>1, DropRefines

\* A step that leaves claims, children and ids alone is a stutter of Lifetime.
LEMMA StutterRefines ==
  ASSUME grants' = grants, nextGrant' = nextGrant,
         \A n \in Names : shared'[n].child = shared[n].child
  PROVE  UNCHANGED Promise!lifetimeVars
<1>1. \A n \in Names : Holding(n)' = Holding(n) /\ Up(n)' = Up(n)
  BY DEF Holding, StdioGrants, Up
<1> QED
  BY <1>1 DEF Promise!lifetimeVars, Up

LEMMA NextRefines ==
  IndInv /\ IndInv' /\ [Next]_vars => [Promise!LifetimeNext]_(Promise!lifetimeVars)
<1> SUFFICES ASSUME IndInv, IndInv', [Next]_vars
             PROVE  Promise!LifetimeNext \/ UNCHANGED Promise!lifetimeVars
  OBVIOUS
<1>1. TypeOK /\ shared \in [Names -> SharedServer]
  BY DEF IndInv, TypeOK
<1>2. ASSUME NEW S, Retired(S), shared' = Dropped(S)
      PROVE  Promise!LifetimeNext
  BY <1>1, <1>2, DroppedKeepsChild, RetireRefines DEF Promise!LifetimeNext
<1>3. ASSUME NEW n \in Names, NEW force \in BOOLEAN, Deactivate(n, force)
      PROVE  Promise!LifetimeNext
  <2>1. \A m \in Names : shared'[m].child \in {shared[m].child, NoChild}
    <3> SUFFICES ASSUME NEW m \in Names
                 PROVE  shared'[m].child \in {shared[m].child, NoChild}
      OBVIOUS
    <3>1. shared'[m] = Stopped \/ shared'[m] = Dropped(Holding(n))[m]
      BY <1>3 DEF Deactivate, Dropped
    <3> QED
      BY <1>1, <3>1, DroppedKeepsChild DEF Stopped
  <2> QED
    BY <1>3, <2>1, RetireRefines DEF Deactivate, Promise!LifetimeNext
<1>4. CASE ReapIdle
  <2>1. \A m \in Names : shared'[m].child \in {shared[m].child, NoChild}
    BY <1>4 DEF ReapIdle, Stopped
  <2>2. \A m \in Names : Holding(m)' = Holding(m) /\ (Up(m)' => Up(m))
    BY <1>4, <2>1 DEF ReapIdle, Holding, StdioGrants, Up
  <2>3. nextGrant' = nextGrant
    BY <1>4 DEF ReapIdle
  <2> QED
    BY <2>2, <2>3, DropRefines DEF Promise!LifetimeNext
<1>5. ASSUME NEW n \in Names, TimerElapses(n)
      PROVE  UNCHANGED Promise!lifetimeVars
  <2>1. \A m \in Names : shared'[m].child = shared[m].child
    <3>1. ASSUME NEW m \in Names
          PROVE  shared'[m] = shared[m] \/ shared'[m] = [shared[m] EXCEPT !.timer = "elapsed"]
      BY <1>1, <1>5 DEF TimerElapses
    <3> QED
      BY <1>1, <3>1 DEF SharedServer
  <2> QED
    BY <1>5, <2>1, StutterRefines DEF TimerElapses
<1>6. ASSUME UNCHANGED <<grants, shared, nextGrant>>
      PROVE  UNCHANGED Promise!lifetimeVars
  BY <1>6, StutterRefines
<1>7. ASSUME BrokerDies \/ \E n \in Names, h \in Hashes : BrokerDiesWhileSpawning(n, h)
      PROVE  Promise!LifetimeNext
  BY <1>7, DeathRefines DEF BrokerDies, BrokerDiesWhileSpawning, Promise!LifetimeNext
<1>8. CASE Requests
  BY <1>2, <1>3, <1>8, ActivateRefines DEF Requests, Release, ReleaseConnection
<1>9. CASE Environment
  BY <1>5, <1>6, <1>7, <1>9 DEF Environment, RelayAccepts, RelayEnds, ServerExits,
     ConsentChanges
<1>10. CASE UNCHANGED vars
  BY <1>6, <1>10 DEF vars
<1> QED
  BY <1>4, <1>8, <1>9, <1>10 DEF Next

\* The engine keeps the promise of Lifetime.
THEOREM LifetimeKept == Spec => KeepsLifetime
BY InitRefines, NextRefines, Inductive, PTL DEF Spec, KeepsLifetime, Promise!LifetimeSpec
=============================================================================

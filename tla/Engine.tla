------------------------------- MODULE Engine -------------------------------
(***************************************************************************)
(* The broker's activation engine: broker/crates/broker/src/activation.rs. *)
(*                                                                         *)
(* A grant is one client's claim on one server.  A "stdio" launch gives    *)
(* each grant a child process of its own, wired to the client by a relay   *)
(* task; an "executable" launch has one child per server name, shared by   *)
(* reference count and stopped by an idle timer after the last release.    *)
(*                                                                         *)
(* Every operation of the engine runs under one lock that is held across   *)
(* its awaits, so each is one action here.  What goes on beside the lock   *)
(* is in actions of its own: timers elapse, relays open and end, servers   *)
(* exit, the consent file changes, and the broker process dies.            *)
(*                                                                         *)
(* A launch hash determines the launch stanza and the endpoint it was      *)
(* computed from (proto/src/hash.rs), so a catalog entry is a name and a   *)
(* hash, and LaunchOf says what the hash launches.  A child process is     *)
(* named by the grant id whose activation spawned it: an activation spawns *)
(* at most one.                                                            *)
(***************************************************************************)
EXTENDS Naturals, FiniteSets

CONSTANTS
    Names,      \* server names
    Conns,      \* client connections
    Hashes,     \* launch hashes
    LaunchOf,   \* what a hash launches, one of LaunchKinds
    MaxGrants,  \* bound: grant ids issued over all broker processes
    JobObject   \* TRUE on Windows: children die with the broker process

\* "noEndpoint" is an executable launch whose card declares no endpoint, and
\* "none" a card without a launch stanza.
LaunchKinds == {"stdio", "executable", "noEndpoint", "none"}

ASSUME LaunchAssumption == LaunchOf \in [Hashes -> LaunchKinds]
ASSUME BoundAssumption == MaxGrants \in Nat
ASSUME PlatformAssumption == JobObject \in BOOLEAN

VARIABLES
    grants,     \* Engine.grants: grant id -> Grant
    shared,     \* Engine.shared: an absent entry is the same as Stopped
    procs,      \* processes the broker spawned that run or are not reaped
    relay,      \* the relay task of each stdio grant
    nextGrant,  \* NEXT_GRANT, never reused across brokers: ids carry the PID
    consent     \* ConsentStore.records as the next evaluate will see them

vars == <<grants, shared, procs, relay, nextGrant, consent>>

-----------------------------------------------------------------------------
(* State                                                                   *)

GrantIds == 1..MaxGrants

Grant == [name : Names, conn : Conns, kind : {"stdio", "endpoint"}]

NoChild == 0
SharedServer == [child    : GrantIds \cup {NoChild},
                 refcount : Nat,
                 timer    : {"none", "pending", "elapsed"}]
Stopped == [child |-> NoChild, refcount |-> 0, timer |-> "none"]

\* up: the process runs.  orphan: the broker that spawned it is dead.
Process == [name : Names, hash : Hashes, up : BOOLEAN, orphan : BOOLEAN]

NotAsked == [state |-> "not-asked"]
Denied == [state |-> "denied"]
GrantedFor(h) == [state |-> "granted", hash |-> h]
ConsentRecords == {NotAsked, Denied} \cup {GrantedFor(h) : h \in Hashes}

With(f, x, v) == [y \in DOMAIN f \cup {x} |-> IF y = x THEN v ELSE f[y]]
Without(f, S) == [y \in DOMAIN f \ S |-> f[y]]
EmptyMap == [i \in {} |-> i]

Holding(n) == {i \in DOMAIN grants : grants[i].name = n}
HeldBy(c) == {i \in DOMAIN grants : grants[i].conn = c}
StdioGrants == {i \in DOMAIN grants : grants[i].kind = "stdio"}
EndpointClaims(n) == Holding(n) \ StdioGrants

-----------------------------------------------------------------------------
(* Activation                                                              *)

\* Consent as it applies to one card: a grant for another hash is stale.
EvaluateByName(n, h) == consent[n].state
Evaluate(n, h) ==
    IF consent[n] \in {NotAsked, Denied} \cup {GrantedFor(h)}
    THEN consent[n].state
    ELSE "stale"

Approved(n, h) == Evaluate(n, h) = "granted"

\* Every activation that gets past the launch lookup uses up a grant id, the
\* ones that fail later included.
IdNotUsedUp ==
    /\ nextGrant <= MaxGrants
    /\ nextGrant' = nextGrant
TakeGrantId ==
    /\ nextGrant <= MaxGrants
    /\ nextGrant' = nextGrant + 1

Spawned(n, h) ==
    With(procs, nextGrant, [name |-> n, hash |-> h, up |-> TRUE, orphan |-> FALSE])

Granted(n, c, kind) ==
    With(grants, nextGrant, [name |-> n, conn |-> c, kind |-> kind])

\* start_stdio: a child and a relay of its own for this grant.
StartStdio(n, h, c) ==
    /\ Approved(n, h)
    /\ LaunchOf[h] = "stdio"
    /\ TakeGrantId
    /\ procs' = Spawned(n, h)
    /\ relay' = With(relay, nextGrant, "waiting")
    /\ grants' = Granted(n, c, "stdio")
    /\ UNCHANGED <<shared, consent>>

\* attach_shared: the pending shutdown is cancelled, a child is spawned unless
\* the entry already has one, and the reference count goes up.
AttachedUncounted(n) ==
    [child    |-> IF shared[n].child = NoChild THEN nextGrant ELSE shared[n].child,
     refcount |-> 1,
     timer    |-> "none"]
AttachedAlwaysSpawning(n) ==
    [child    |-> nextGrant,
     refcount |-> shared[n].refcount + 1,
     timer    |-> "none"]
Attached(n) ==
    [child    |-> IF shared[n].child = NoChild THEN nextGrant ELSE shared[n].child,
     refcount |-> shared[n].refcount + 1,
     timer    |-> "none"]

AttachShared(n, h, c) ==
    /\ Approved(n, h)
    /\ LaunchOf[h] = "executable"
    /\ TakeGrantId
    /\ shared' = [shared EXCEPT ![n] = Attached(n)]
    /\ procs' = IF shared[n].child = NoChild THEN Spawned(n, h) ELSE procs
    /\ grants' = Granted(n, c, "endpoint")
    /\ UNCHANGED <<relay, consent>>

\* The relay listener or the spawn fails, or the card has no endpoint: no
\* grant, but the id is used and attach_shared has dropped the timer already.
ActivationFails(n, h) ==
    /\ Approved(n, h)
    /\ \/ LaunchOf[h] \in {"stdio", "noEndpoint"}
       \/ LaunchOf[h] = "executable" /\ shared[n].child = NoChild
    /\ TakeGrantId
    /\ shared' = IF LaunchOf[h] = "executable"
                 THEN [shared EXCEPT ![n].timer = "none"]
                 ELSE shared
    /\ UNCHANGED <<grants, procs, relay, consent>>

\* The other outcomes of activate (an orphaned entry, consent that is not
\* granted, no launch stanza) return before anything changes.
Activate(n, h, c) ==
    \/ StartStdio(n, h, c)
    \/ AttachShared(n, h, c)
    \/ ActivationFails(n, h)

-----------------------------------------------------------------------------
(* Release, deactivation, idle shutdown                                    *)

\* The shared entries once the grants in S are retired: each endpoint grant
\* gives one reference back, and the last one starts the idle timer.
DroppedWithoutTimer(S) ==
    [n \in Names |->
        LET drops == Cardinality(S \cap EndpointClaims(n)) IN
        [shared[n] EXCEPT !.refcount = IF @ > drops THEN @ - drops ELSE 0]]
DroppedPerName(S) ==
    [n \in Names |->
        IF S \cap EndpointClaims(n) = {} THEN shared[n]
        ELSE IF shared[n].refcount > 1
        THEN [shared[n] EXCEPT !.refcount = @ - 1]
        ELSE [child |-> shared[n].child, refcount |-> 0, timer |-> "pending"]]
Dropped(S) ==
    [n \in Names |->
        LET drops == Cardinality(S \cap EndpointClaims(n)) IN
        IF drops = 0 THEN shared[n]
        ELSE IF shared[n].refcount > drops
        THEN [shared[n] EXCEPT !.refcount = @ - drops]
        ELSE [child |-> shared[n].child, refcount |-> 0, timer |-> "pending"]]

\* retire, for every grant in S: a stdio grant's relay is aborted and its child
\* shut down.
Retired(S) ==
    /\ grants' = Without(grants, S)
    /\ relay' = Without(relay, S)
    /\ UNCHANGED <<nextGrant, consent>>

Release(i) ==
    /\ i \in DOMAIN grants
    /\ Retired({i})
    /\ shared' = Dropped({i})
    /\ procs' = Without(procs, {i} \cap StdioGrants)

ReleaseConnection(c) ==
    /\ Retired(HeldBy(c))
    /\ shared' = Dropped(HeldBy(c))
    /\ procs' = Without(procs, HeldBy(c) \cap StdioGrants)

\* Refused while there are holders, unless forced.  The shared child is stopped
\* at once, whether it was claimed or idle.
Deactivate(n, force) ==
    /\ Holding(n) = {} \/ force
    /\ Retired(Holding(n))
    /\ shared' = [Dropped(Holding(n)) EXCEPT ![n] = Stopped]
    /\ procs' = Without(procs, (Holding(n) \cap StdioGrants) \cup {shared[n].child})

\* One tick of the reaper stops every server whose idle window has elapsed.
ExpiredAtOne == {n \in Names : shared[n].refcount <= 1 /\ shared[n].child # NoChild}
ExpiredWhileClaimed == {n \in Names : shared[n].refcount > 0 /\ shared[n].timer = "elapsed"}
Expired == {n \in Names : shared[n].refcount = 0 /\ shared[n].timer = "elapsed"}

ReapIdle ==
    /\ Expired # {}
    /\ shared' = [n \in Names |->
                    IF n \in Expired
                    THEN [Stopped EXCEPT !.refcount = shared[n].refcount]
                    ELSE shared[n]]
    /\ procs' = Without(procs, {shared[n].child : n \in Expired})
    /\ UNCHANGED <<grants, relay, nextGrant, consent>>

-----------------------------------------------------------------------------
(* What happens beside the engine                                          *)

\* The sleep of an idle timer that nobody aborted runs out.
TimerElapses(n) ==
    /\ shared[n].timer = "pending"
    /\ shared' = [shared EXCEPT ![n].timer = "elapsed"]
    /\ UNCHANGED <<grants, procs, relay, nextGrant, consent>>

\* The relay task: one accept, then bytes until either side closes.  Neither
\* its end nor the child's changes the grant.
RelayAccepts(i) ==
    /\ i \in DOMAIN relay
    /\ relay[i] = "waiting"
    /\ relay' = [relay EXCEPT ![i] = "pumping"]
    /\ UNCHANGED <<grants, shared, procs, nextGrant, consent>>

RelayEnds(i) ==
    /\ i \in DOMAIN relay
    /\ relay[i] # "ended"
    /\ relay' = [relay EXCEPT ![i] = "ended"]
    /\ UNCHANGED <<grants, shared, procs, nextGrant, consent>>

\* A server exits by itself.  The engine keeps its handle and is not told.
ServerExits(i) ==
    /\ i \in DOMAIN procs
    /\ procs[i].up
    /\ procs' = IF procs[i].orphan THEN Without(procs, {i})
                ELSE [procs EXCEPT ![i].up = FALSE]
    /\ UNCHANGED <<grants, shared, relay, nextGrant, consent>>

\* The broker process is killed and a new one starts with empty maps.  The job
\* object takes its children along; without one they run on.
Survivors ==
    {i \in DOMAIN procs : procs[i].up /\ (procs[i].orphan \/ ~JobObject)}

BrokerRestarts ==
    /\ grants' = EmptyMap
    /\ relay' = EmptyMap
    /\ shared' = [n \in Names |-> Stopped]
    /\ UNCHANGED consent

BrokerDies ==
    /\ BrokerRestarts
    /\ procs' = [i \in Survivors |-> [procs[i] EXCEPT !.orphan = TRUE]]
    /\ UNCHANGED nextGrant

\* Killed after a spawn and before the child joined the job or any map.
BrokerDiesWhileSpawning(n, h) ==
    /\ Approved(n, h)
    /\ LaunchOf[h] = "stdio" \/ (LaunchOf[h] = "executable" /\ shared[n].child = NoChild)
    /\ TakeGrantId
    /\ BrokerRestarts
    /\ procs' = [i \in Survivors \cup {nextGrant} |->
                    IF i = nextGrant
                    THEN [name |-> n, hash |-> h, up |-> TRUE, orphan |-> TRUE]
                    ELSE [procs[i] EXCEPT !.orphan = TRUE]]

\* An answered dialog or a consent command rewrites the record of a server.
ConsentChanges(n, r) ==
    /\ consent[n] # r
    /\ consent' = [consent EXCEPT ![n] = r]
    /\ UNCHANGED <<grants, shared, procs, relay, nextGrant>>

-----------------------------------------------------------------------------
(* Specification                                                           *)

Init ==
    /\ grants = EmptyMap
    /\ shared = [n \in Names |-> Stopped]
    /\ procs = EmptyMap
    /\ relay = EmptyMap
    /\ nextGrant = 1
    /\ consent \in [Names -> ConsentRecords]

Requests ==
    \/ \E n \in Names, h \in Hashes, c \in Conns : Activate(n, h, c)
    \/ \E i \in GrantIds : Release(i)
    \/ \E c \in Conns : ReleaseConnection(c)
    \/ \E n \in Names, force \in BOOLEAN : Deactivate(n, force)

Environment ==
    \/ \E n \in Names : TimerElapses(n)
    \/ \E i \in GrantIds : RelayAccepts(i) \/ RelayEnds(i) \/ ServerExits(i)
    \/ BrokerDies
    \/ \E n \in Names, h \in Hashes : BrokerDiesWhileSpawning(n, h)
    \/ \E n \in Names, r \in ConsentRecords : ConsentChanges(n, r)

Next == Requests \/ ReapIdle \/ Environment

Spec == Init /\ [][Next]_vars

\* A sleep runs out, and the reaper ticks every five seconds.
FairSpec == Spec /\ (\A n \in Names : WF_vars(TimerElapses(n))) /\ WF_vars(ReapIdle)

-----------------------------------------------------------------------------
(* Properties                                                              *)

\* Every variable stays within its type: ids below the counter name grants and
\* processes, and a relay belongs to a stdio grant (activation.rs:76-110).
TypeOK ==
    /\ grants \in [DOMAIN grants -> Grant]
    /\ shared \in [Names -> SharedServer]
    /\ procs \in [DOMAIN procs -> Process]
    /\ relay \in [DOMAIN relay -> {"waiting", "pumping", "ended"}]
    /\ nextGrant \in 1..(MaxGrants + 1)
    /\ DOMAIN grants \subseteq 1..(nextGrant - 1)
    /\ DOMAIN procs \subseteq 1..(nextGrant - 1)
    /\ consent \in [Names -> ConsentRecords]

\* The reference count of a shared server is the number of endpoint grants on
\* it, however they were taken and given back (activation.rs:268, 338, 368).
RefcountExact ==
    \A n \in Names : shared[n].refcount = Cardinality(EndpointClaims(n))

\* A claimed server has a child, and a child nobody claims always has a timer
\* that will stop it: none idles forever (activation.rs:255-268, 372-375).
ClaimedOrTimed ==
    \A n \in Names :
        /\ shared[n].refcount > 0 => shared[n].child # NoChild
        /\ shared[n].timer # "none" <=> (shared[n].child # NoChild /\ shared[n].refcount = 0)

\* The processes of this broker are exactly those a stdio grant or a shared
\* entry holds, each shared child belongs to its own server, and the relays are
\* those of the stdio grants: nothing leaks (activation.rs:84-101, 356-378).
HeldChildren == StdioGrants \cup ({shared[n].child : n \in Names} \ {NoChild})
ProcsAccounted ==
    /\ {i \in DOMAIN procs : ~procs[i].orphan} = HeldChildren
    /\ \A i \in StdioGrants : procs[i].name = grants[i].name
    /\ \A n \in Names : shared[n].child # NoChild =>
            procs[shared[n].child].name = n /\ shared[n].child \notin StdioGrants
    /\ DOMAIN relay = StdioGrants

\* The broker takes a shared server down only when no endpoint grant on it is
\* left, whichever of release, reaper and deactivate does it and however their
\* steps interleave with new activations (activation.rs:255-263, 341-350, 382-401).
StopsOnlyUnclaimed ==
    [][\A n \in Names :
         shared[n].child # NoChild /\ shared'[n].child # shared[n].child
            => EndpointClaims(n)' = {}]_vars

\* A process starts only under a decision of the user for exactly the launch
\* hash it was started from (activation.rs:137-151, consent.rs:105-122).
LaunchApproved ==
    [][\A i \in DOMAIN procs' \ DOMAIN procs :
         consent[procs'[i].name] = GrantedFor(procs'[i].hash)]_vars

\* The engine keeps the promise of Lifetime (activation.rs:3-12).
Promise == INSTANCE Lifetime WITH
    Ids <- GrantIds,
    claims <- [n \in Names |-> Holding(n)],
    up <- [n \in Names |-> shared[n].child # NoChild \/ Holding(n) \cap StdioGrants # {}],
    issued <- 1..(nextGrant - 1)
KeepsLifetime == Promise!LifetimeSpec

\* A shared server nobody claims is stopped or claimed again: the idle timer
\* and the reaper see to it (activation.rs:372-401, server.rs:369-379).
IdleEventuallyStops ==
    \A n \in Names :
        (shared[n].child # NoChild /\ shared[n].refcount = 0)
            ~> (shared[n].child = NoChild \/ shared[n].refcount > 0)
=============================================================================

--------------------------- MODULE GatewayProofs ---------------------------
(***************************************************************************)
(* Aliases stay unique, a grant that is given back is nobody else's, and   *)
(* grants do not dangle while calls about one server follow each other,    *)
(* for any servers, calls and qualifications; what the gateway takes the   *)
(* broker to do with its grants is what Grants promises; and what is held  *)
(* when the gateway has ended waits for the broker to read that.           *)
(***************************************************************************)
EXTENDS Gateway, FiniteSetTheorems, WellFoundedInduction, TLAPS

-----------------------------------------------------------------------------
(* Aliases                                                                 *)

LEMMA LeastIsOne ==
    ASSUME NEW S, S \subseteq Nat, S # {}
    PROVE  Least(S) \in S
<1> DEFINE R == OpToRel(<, Nat)
<1>1. IsWellFoundedOn(R, Nat)
  BY NatLessThanWellFounded
<1>2. PICK i \in S : \A j \in S : ~(<<j, i>> \in R)
  <2> HIDE DEF R
  <2> QED
    BY <1>1, WFMin
<1>3. \A j \in S : ~(j < i)
  <2> SUFFICES ASSUME NEW j \in S, j < i
               PROVE  <<j, i>> \in R
    BY <1>2
  <2> QED
    BY DEF OpToRel
<1>4. \A j \in S : i <= j
  <2> SUFFICES ASSUME NEW j \in S
               PROVE  i <= j
    OBVIOUS
  <2>1. i \in Nat /\ j \in Nat /\ ~(j < i)
    BY <1>3
  <2> QED
    BY <2>1
<1> QED
  BY <1>4 DEF Least

\* There are more numbers than servers, so one of them is free.
LEMMA SomeNumberIsFree ==
    ASSUME NEW n \in Names, NEW taken, IsFiniteSet(taken), Cardinality(taken) <= Cardinality(Names)
    PROVE  FreeNumbers(n, taken) # {}
<1> SUFFICES ASSUME \A k \in Numbers : Numbered[n][k] \in taken
             PROVE  FALSE
  BY DEF FreeNumbers
<1>1. Cardinality(Names) \in Nat /\ Cardinality(taken) \in Nat
  BY NamesAssumption, FS_CardinalityType
<1>2. IsFiniteSet(Numbers) /\ Cardinality(Numbers) = Cardinality(Names) + 1
  <2> DEFINE m == Cardinality(Names)
  <2>1. m \in Nat
    BY <1>1
  <2> HIDE DEF m
  <2>2. IsFiniteSet(2..(m + 2)) /\ Cardinality(2..(m + 2)) = m + 1
    BY <2>1, FS_Interval
  <2> QED
    BY <2>2 DEF Numbers, m
<1>3. Cardinality(taken) < Cardinality(Numbers)
  BY <1>1, <1>2
<1> DEFINE f == [k \in Numbers |-> Numbered[n][k]]
<1>4. f \in [Numbers -> taken]
  OBVIOUS
<1>5. PICK j, k \in Numbers : j # k /\ f[j] = f[k]
  <2> HIDE DEF f
  <2> QED
    BY <1>2, <1>3, <1>4, FS_PigeonHole
<1>6. DOMAIN Numbered[n] = Numbers /\ IsInjective(Numbered[n])
  BY NumberedAssumption
<1>7. Numbered[n][j] = Numbered[n][k]
  BY <1>5
<1> QED
  BY <1>5, <1>6, <1>7 DEF IsInjective

\* No more aliases are taken than there are servers.
LEMMA TakenIsSmall ==
    ASSUME DOMAIN active \subseteq Names
    PROVE  IsFiniteSet(Taken) /\ Cardinality(Taken) <= Cardinality(Names)
<1>1. IsFiniteSet(DOMAIN active) /\ Cardinality(DOMAIN active) <= Cardinality(Names)
  BY NamesAssumption, FS_Subset
<1> DEFINE f == [n \in DOMAIN active |-> active[n].alias]
<1>2. f \in Surjection(DOMAIN active, Taken)
  BY DEF Surjection, Taken
<1> HIDE DEF f
<1>3. IsFiniteSet(Taken) /\ Cardinality(Taken) <= Cardinality(DOMAIN active)
  BY <1>1, <1>2, FS_Surjection
<1>4. /\ Cardinality(Taken) \in Nat /\ Cardinality(Names) \in Nat
      /\ Cardinality(DOMAIN active) \in Nat
  BY <1>1, <1>3, NamesAssumption, FS_CardinalityType
<1> QED
  BY <1>1, <1>3, <1>4

\* aliasFor returns an alias that no active server has.
LEMMA AliasIsFree ==
    ASSUME NEW n \in Names, NEW taken, IsFiniteSet(taken), Cardinality(taken) <= Cardinality(Names)
    PROVE  AliasFor(n, taken) \in Aliases \ taken
<1>1. CASE FreeQualified(n, taken) # {}
  <2>1. PICK q \in Seq(Aliases) : q = Qualified[n]
    BY QualifiedAssumption
  <2>2. \A i \in DOMAIN q : i \in Nat /\ q[i] \in Aliases
    OBVIOUS
  <2>3. FreeQualified(n, taken) \subseteq Nat
    BY <2>1, <2>2 DEF FreeQualified
  <2>4. Least(FreeQualified(n, taken)) \in FreeQualified(n, taken)
    BY <1>1, <2>3, LeastIsOne
  <2> QED
    BY <1>1, <2>1, <2>2, <2>4 DEF AliasFor, FreeQualified
<1>2. CASE FreeQualified(n, taken) = {}
  <2>1. Cardinality(Names) \in Nat
    BY NamesAssumption, FS_CardinalityType
  <2>2. FreeNumbers(n, taken) \subseteq Nat
    <3>1. \A m \in Nat : 2..(m + 2) \subseteq Nat
      OBVIOUS
    <3> QED
      BY <2>1, <3>1 DEF FreeNumbers, Numbers
  <2>3. Least(FreeNumbers(n, taken)) \in FreeNumbers(n, taken)
    BY <2>2, LeastIsOne, SomeNumberIsFree
  <2>4. Numbered[n] \in [Numbers -> Aliases]
    BY NumberedAssumption
  <2> QED
    BY <1>2, <2>3, <2>4 DEF AliasFor, FreeNumbers
<1> QED
  BY <1>1, <1>2

-----------------------------------------------------------------------------
(* Types                                                                   *)

\* What a handler knows in each phase, when L connections have been made and
\* grant ids below N been issued.  Only an activation or a list has to connect:
\* whoever deactivates has a grant, and got it over a connection.
TaskOK(t, L, N) ==
    \/ t = Resting
    \/ /\ t \in Working
       /\ t.conn \in 0..L
       /\ t.op = "list" => t.name = NoName /\ t.phase \in {"connect", "asked"}
       /\ t.op # "list" => t.name \in Names
       /\ t.op = "deactivate" => t.phase \in {"closing", "release"} /\ L > 0
       /\ t.phase \in {"connect", "asked", "left"} => t.grant = NoGrant
       /\ t.phase \in {"handshake", "notice", "closing", "release"} => t.grant \in 1..(N - 1)
       /\ t.phase \in {"asked", "handshake", "notice", "release", "left"}
             => t.conn # NoConnection
       /\ t.phase \in {"handshake", "notice", "left"} => t.op = "activate"
       /\ t.phase = "closing" => t.op = "deactivate"
TasksOK ==
    /\ DOMAIN task = Calls /\ task = [c \in Calls |-> task[c]]
    /\ \A c \in Calls : TaskOK(task[c], Len(conns), nextGrant)
    /\ exited => \A c \in Calls : task[c].phase \in {"idle", "left"}

ConnsOK ==
    /\ conns \in Seq({"open", "closed", "lost"})
    /\ broker = IF exited THEN NoConnection ELSE Len(conns)
    /\ nextGrant \in 1..(MaxGrants + 1)
    /\ exited \in BOOLEAN /\ attached \in BOOLEAN /\ polite \in BOOLEAN
ActiveOK ==
    /\ active \in [DOMAIN active -> ActiveServer] /\ DOMAIN active \subseteq Names
    /\ \A n \in DOMAIN active : active[n].grant < nextGrant
    /\ DOMAIN active # {} => Len(conns) > 0
HeldOK ==
    /\ held \in [DOMAIN held -> HeldGrant] /\ DOMAIN held \subseteq 1..(nextGrant - 1)
    /\ \A g \in DOMAIN held : held[g].conn <= Len(conns)
Typed == TasksOK /\ ConnsOK /\ ActiveOK /\ HeldOK

LEMMA TypedIsTypeOK == Typed => TypeOK
<1> SUFFICES ASSUME Typed PROVE TypeOK
  OBVIOUS
<1>1. task \in [Calls -> {Resting} \cup Working]
  BY DEF Typed, TasksOK, TaskOK
<1>2. broker \in {NoConnection} \cup DOMAIN conns
  BY DEF Typed, ConnsOK, NoConnection
<1> QED
  BY <1>1, <1>2 DEF Typed, ConnsOK, ActiveOK, HeldOK, TypeOK

LEMMA EmptyMapOK == DOMAIN EmptyMap = {} /\ \A S : EmptyMap \in [DOMAIN EmptyMap -> S]
  BY DEF EmptyMap

LEMMA InitTyped == Init => Typed
<1> SUFFICES ASSUME Init PROVE Typed
  OBVIOUS
<1>1. Len(conns) = 0 /\ conns \in Seq({"open", "closed", "lost"})
  BY DEF Init
<1>2. TasksOK
  BY DEF Init, TasksOK, TaskOK, Resting
<1>3. ConnsOK
  <2>1. nextGrant \in 1..(MaxGrants + 1) /\ broker = Len(conns)
    BY <1>1, BoundsAssumption DEF Init, NoConnection
  <2> QED
    BY <1>1, <2>1 DEF Init, ConnsOK, NoConnection
<1>4. ActiveOK /\ HeldOK
  BY EmptyMapOK DEF Init, ActiveOK, HeldOK
<1> QED
  BY <1>2, <1>3, <1>4 DEF Typed

\* A handler may be where it was though more connections and grants were made.
LEMMA TaskOKStays ==
    ASSUME NEW L \in Nat, NEW M \in Nat, NEW N \in Nat, NEW O \in Nat, L <= M, N <= O,
           NEW t, TaskOK(t, L, N)
    PROVE  TaskOK(t, M, O)
  BY DEF TaskOK, Working

LEMMA BecomesOK ==
    ASSUME TasksOK, NEW c \in Calls, NEW t, Becomes(c, t),
           Len(conns) \in Nat, Len(conns') \in Nat, Len(conns) <= Len(conns'),
           nextGrant \in Nat, nextGrant' \in Nat, nextGrant <= nextGrant',
           TaskOK(t, Len(conns'), nextGrant'),
           exited \in BOOLEAN, exited' = exited, ~exited \/ t = Resting
    PROVE  TasksOK'
<1>1. \A d \in Calls : TaskOK(task[d], Len(conns'), nextGrant')
  BY TaskOKStays DEF TasksOK
<1>2. task' = [task EXCEPT ![c] = t]
  BY DEF Becomes
<1>3. DOMAIN task' = Calls /\ task' = [d \in Calls |-> task'[d]]
  BY <1>2 DEF TasksOK
<1>4. \A d \in Calls : task'[d] = IF d = c THEN t ELSE task[d]
  BY <1>2 DEF TasksOK
<1> QED
  BY <1>1, <1>3, <1>4 DEF TasksOK, Resting

LEMMA WithMeans ==
    ASSUME NEW f, NEW x, NEW v
    PROVE  /\ DOMAIN With(f, x, v) = DOMAIN f \cup {x}
           /\ \A S : (f \in [DOMAIN f -> S] /\ v \in S)
                       => With(f, x, v) \in [DOMAIN With(f, x, v) -> S]
  BY DEF With

LEMMA WithoutMeans ==
    ASSUME NEW f, NEW T
    PROVE  /\ DOMAIN Without(f, T) = DOMAIN f \ T
           /\ DOMAIN Without(f, T) \subseteq DOMAIN f
           /\ \A y \in DOMAIN Without(f, T) : Without(f, T)[y] = f[y]
           /\ \A S : f \in [DOMAIN f -> S] => Without(f, T) \in [DOMAIN Without(f, T) -> S]
  BY DEF Without

\* Fewer entries, fewer grants held.
LEMMA FewerActive ==
    ASSUME Typed, NEW T, active' = active \/ active' = Without(active, T),
           nextGrant' = nextGrant, Len(conns') = Len(conns)
    PROVE  ActiveOK'
<1>1. CASE active' = active
  BY <1>1 DEF Typed, ActiveOK
<1>2. CASE active' = Without(active, T)
  <2>1. active' \in [DOMAIN active' -> ActiveServer]
    BY <1>2, WithoutMeans DEF Typed, ActiveOK
  <2> DEFINE f == Without(active, T)
  <2>2. DOMAIN f \subseteq DOMAIN active /\ \A n \in DOMAIN f : f[n] = active[n]
    BY WithoutMeans
  <2> HIDE DEF f
  <2>3. active' = f
    BY <1>2 DEF f
  <2> QED
    BY <2>1, <2>2, <2>3 DEF Typed, ActiveOK
<1> QED
  BY <1>1, <1>2

LEMMA FewerHeld ==
    ASSUME Typed, NEW T, held' = held \/ held' = Without(held, T),
           nextGrant' = nextGrant, Len(conns') = Len(conns)
    PROVE  HeldOK'
<1>1. CASE held' = held
  BY <1>1 DEF Typed, HeldOK
<1>2. CASE held' = Without(held, T)
  <2>1. held' \in [DOMAIN held' -> HeldGrant]
    BY <1>2, WithoutMeans DEF Typed, HeldOK
  <2> DEFINE f == Without(held, T)
  <2>2. DOMAIN f \subseteq DOMAIN held /\ \A g \in DOMAIN f : f[g] = held[g]
    BY WithoutMeans
  <2> HIDE DEF f
  <2>3. held' = f
    BY <1>2 DEF f
  <2> QED
    BY <2>1, <2>2, <2>3 DEF Typed, HeldOK
<1> QED
  BY <1>1, <1>2

LEMMA GoesOnOK ==
    ASSUME NEW op \in {"activate", "deactivate", "list"}, NEW n, NEW g \in Nat,
           NEW L \in Nat, NEW N \in Nat, NEW k \in 0..L,
           op = "list" => n = NoName, op # "list" => n \in Names,
           op = "deactivate" => k # NoConnection /\ g \in 1..(N - 1),
           op # "deactivate" => g = NoGrant
    PROVE  TaskOK(GoesOn(op, n, k, g), L, N)
  BY DEF GoesOn, TaskOK, Working, NoConnection, NoGrant

LEMMA Naturals_ ==
    ASSUME Typed
    PROVE  /\ Len(conns) \in Nat /\ nextGrant \in Nat /\ nextGrant >= 1
           /\ broker \in 0..Len(conns)
  BY BoundsAssumption DEF Typed, ConnsOK, NoConnection

\* Steps of a handler that make no connection and get no grant.
LEMMA HandlerTyped ==
    ASSUME Typed, NEW c \in Calls, NEW n,
           \/ ListServers(c) \/ ConnectFails(c) \/ Rejected(c) \/ BrokerReplies(c)
           \/ HandshakeFails(c) \/ NoticeSent(c) \/ NoticeFails(c)
           \/ ClientClosed(c) \/ BrokerReleases(c) \/ LeftUnanswered(c)
           \/ n \in Names /\ (Activate(c, n) \/ Deactivate(c, n))
    PROVE  Typed'
<1>0. UNCHANGED <<broker, conns, nextGrant, exited, attached, polite>>
  BY DEF ListServers, ConnectFails, Rejected, BrokerReplies, HandshakeFails, NoticeSent,
         NoticeFails, ClientClosed, BrokerReleases, LeftUnanswered, Activate, Deactivate
<1>1. ConnsOK'
  BY <1>0 DEF Typed, ConnsOK
<1>2. ActiveOK' /\ HeldOK'
  BY <1>0, FewerActive, FewerHeld
     DEF ListServers, ConnectFails, Rejected, BrokerReplies, HandshakeFails, NoticeSent,
         NoticeFails, ClientClosed, BrokerReleases, LeftUnanswered, Activate, Deactivate
<1>3. ASSUME NEW t, Becomes(c, t), TaskOK(t, Len(conns), nextGrant),
             ~exited \/ t = Resting
      PROVE  TasksOK'
  BY <1>0, <1>3, Naturals_, BecomesOK DEF Typed, ConnsOK
<1>e. exited => task[c].phase \in {"idle", "left"}
  BY DEF Typed, TasksOK
<1>4. TaskOK(task[c], Len(conns), nextGrant) /\ TaskOK(Resting, Len(conns), nextGrant)
  BY DEF Typed, TasksOK, TaskOK
<1>5. TasksOK'
  <2>1. CASE ConnectFails(c) \/ Rejected(c) \/ BrokerReplies(c) \/ NoticeSent(c)
             \/ BrokerReleases(c) \/ LeftUnanswered(c)
    BY <1>3, <1>4, <2>1 DEF Answered, ConnectFails, Rejected, BrokerReplies, NoticeSent,
                            BrokerReleases, LeftUnanswered
  <2>2. CASE ListServers(c)
    <3> DEFINE t == GoesOn("list", NoName, broker, NoGrant)
    <3>1. TaskOK(t, Len(conns), nextGrant)
      BY Naturals_, GoesOnOK DEF NoGrant
    <3>2. Becomes(c, t) /\ ~exited
      BY <2>2 DEF ListServers
    <3> HIDE DEF t
    <3> QED
      BY <1>3, <3>1, <3>2
  <2>3. CASE n \in Names /\ Activate(c, n)
    <3> DEFINE t == GoesOn("activate", n, broker, NoGrant)
    <3>1. TaskOK(t, Len(conns), nextGrant)
      BY <2>3, Naturals_, GoesOnOK DEF NoGrant
    <3>2. Becomes(c, t) /\ ~exited
      BY <2>3 DEF Activate
    <3> HIDE DEF t
    <3> QED
      BY <1>3, <3>1, <3>2
  <2>4. CASE HandshakeFails(c) \/ NoticeFails(c)
    <3> DEFINE t == [task[c] EXCEPT !.phase = "release"]
    <3>1. TaskOK(t, Len(conns), nextGrant)
      BY <1>4, <2>4 DEF HandshakeFails, NoticeFails, TaskOK, Working, Resting
    <3>2. Becomes(c, t) /\ ~exited
      BY <1>e, <2>4 DEF HandshakeFails, NoticeFails
    <3> HIDE DEF t
    <3> QED
      BY <1>3, <3>1, <3>2
  <2>5. CASE n \in Names /\ Deactivate(c, n)
    <3> DEFINE t == [phase |-> "closing", op |-> "deactivate", name |-> n,
                     conn |-> NoConnection, grant |-> active[n].grant]
    <3>1. active[n].grant \in 1..(nextGrant - 1) /\ Len(conns) > 0
      BY <2>5, Naturals_ DEF Deactivate, Typed, ActiveOK, ActiveServer, GrantIds
    <3>2. TaskOK(t, Len(conns), nextGrant)
      BY <2>5, <3>1, Naturals_ DEF TaskOK, Working, NoConnection
    <3>3. Becomes(c, t) /\ ~exited
      BY <2>5 DEF Deactivate
    <3> HIDE DEF t
    <3> QED
      BY <1>3, <3>2, <3>3
  <2>6. CASE ClientClosed(c)
    <3> DEFINE t == GoesOn("deactivate", task[c].name, broker, task[c].grant)
    <3>1. ~exited /\ task[c].phase = "closing"
      BY <1>e, <2>6 DEF ClientClosed, Resting
    <3>2. /\ task[c].name \in Names /\ task[c].grant \in 1..(nextGrant - 1)
          /\ Len(conns) > 0
      BY <1>4, <3>1 DEF TaskOK, Resting
    <3>3. broker \in 0..Len(conns) /\ broker # NoConnection
      BY <3>1, <3>2, Naturals_ DEF Typed, ConnsOK, NoConnection
    <3>4. task[c].grant \in Nat
      BY <3>2, Naturals_
    <3>5. TaskOK(t, Len(conns), nextGrant)
      BY <3>2, <3>3, <3>4, Naturals_, GoesOnOK
    <3>6. Becomes(c, t)
      BY <2>6 DEF ClientClosed
    <3> HIDE DEF t
    <3> QED
      BY <1>3, <3>1, <3>5, <3>6
  <2> QED
    BY <2>1, <2>2, <2>3, <2>4, <2>5, <2>6
<1> QED
  BY <1>1, <1>2, <1>5 DEF Typed

LEMMA ConnectsTyped ==
    ASSUME Typed, NEW c \in Calls, Connects(c)
    PROVE  Typed'
<1> DEFINE t == GoesOn(task[c].op, task[c].name, Len(conns) + 1, task[c].grant)
<1>1. /\ Len(conns) \in Nat /\ conns' \in Seq({"open", "closed", "lost"})
      /\ Len(conns') = Len(conns) + 1
  BY DEF Typed, ConnsOK, Connects
<1>2. Becomes(c, t) /\ task[c].phase = "connect" /\ broker' = Len(conns')
      /\ UNCHANGED <<active, held, nextGrant, exited, attached, polite>>
  BY <1>1 DEF Connects
<1>3. ~exited
  BY <1>2 DEF Typed, TasksOK, Resting
<1>4. TaskOK(task[c], Len(conns), nextGrant) /\ task[c] # Resting
  BY <1>2 DEF Typed, TasksOK, Resting
<1>5. TaskOK(t, Len(conns'), nextGrant')
  <2>1. /\ task[c].op \in {"activate", "list"} /\ task[c].grant = NoGrant
        /\ task[c].op = "list" => task[c].name = NoName
        /\ task[c].op # "list" => task[c].name \in Names
    BY <1>2, <1>4 DEF TaskOK, Working
  <2>2. /\ Len(conns') \in Nat /\ nextGrant' \in Nat /\ Len(conns) + 1 \in 0..Len(conns')
        /\ NoGrant \in Nat
    BY <1>1, <1>2, Naturals_ DEF NoGrant
  <2> QED
    BY <2>1, <2>2, GoesOnOK
<1>6. TasksOK'
  <2> HIDE DEF t
  <2> QED
    BY <1>1, <1>2, <1>3, <1>5, BecomesOK, Naturals_ DEF Typed, ConnsOK
<1>7. ConnsOK'
  BY <1>1, <1>2, <1>3 DEF Typed, ConnsOK
<1>8. ActiveOK' /\ HeldOK'
  BY <1>1, <1>2 DEF Typed, ActiveOK, HeldOK, HeldGrant
<1> QED
  BY <1>6, <1>7, <1>8 DEF Typed

\* A new grant, for a call that goes on or for one that nobody waits for.
LEMMA GrantTyped ==
    ASSUME Typed, NEW c \in Calls, NEW t, NEW h \in HeldGrant, h.conn <= Len(conns),
           Becomes(c, t), held' = With(held, nextGrant, h), nextGrant <= MaxGrants,
           nextGrant' = nextGrant + 1, UNCHANGED <<active, broker, conns, exited, attached, polite>>,
           TaskOK(t, Len(conns), nextGrant + 1), ~exited \/ t = Resting
    PROVE  Typed'
<1>1. TasksOK'
  BY BecomesOK, Naturals_ DEF Typed, ConnsOK
<1>2. ConnsOK' /\ ActiveOK'
  <2>1. nextGrant + 1 \in 1..(MaxGrants + 1)
    BY Naturals_, BoundsAssumption
  <2>2. \A n \in DOMAIN active : active[n].grant < nextGrant + 1
    BY Naturals_ DEF Typed, ActiveOK, ActiveServer, GrantIds
  <2> QED
    BY <2>1, <2>2 DEF Typed, ConnsOK, ActiveOK
<1>3. HeldOK'
  <2> DEFINE f == With(held, nextGrant, h)
  <2>1. DOMAIN f = DOMAIN held \cup {nextGrant} /\ f \in [DOMAIN f -> HeldGrant]
    BY WithMeans DEF Typed, HeldOK
  <2>2. f[nextGrant] = h /\ \A g \in DOMAIN held \ {nextGrant} : f[g] = held[g]
    BY DEF With
  <2>3. held' = f
    OBVIOUS
  <2> HIDE DEF f
  <2> QED
    BY <2>1, <2>2, <2>3, Naturals_ DEF Typed, HeldOK
<1> QED
  BY <1>1, <1>2, <1>3 DEF Typed

LEMMA BrokerGrantsTyped ==
    ASSUME Typed, NEW c \in Calls, BrokerGrants(c) \/ GrantedLate(c)
    PROVE  Typed'
<1> DEFINE h == [name |-> task[c].name, conn |-> task[c].conn]
           u == [phase |-> "handshake", op |-> "activate", name |-> task[c].name,
                 conn |-> task[c].conn, grant |-> nextGrant]
<1>1. /\ held' = With(held, nextGrant, h)
      /\ nextGrant' = nextGrant + 1 /\ nextGrant <= MaxGrants
      /\ UNCHANGED <<active, broker, conns, exited, attached, polite>>
  BY DEF BrokerGrants, GrantedLate
<1>2. /\ TaskOK(task[c], Len(conns), nextGrant) /\ task[c] # Resting
      /\ task[c].phase \in {"asked", "left"} /\ task[c].op = "activate"
  BY DEF BrokerGrants, GrantedLate, Typed, TasksOK, TaskOK, Resting
<1>3. h \in HeldGrant /\ h.conn <= Len(conns)
  BY <1>2, Naturals_ DEF TaskOK, Working, HeldGrant, NoConnection
<1>4. CASE BrokerGrants(c)
  <2>1. Becomes(c, u) /\ ~exited
    BY <1>4 DEF BrokerGrants, Typed, TasksOK
  <2>2. TaskOK(u, Len(conns), nextGrant + 1)
    BY <1>2, Naturals_ DEF TaskOK, Working
  <2> HIDE DEF h, u
  <2> QED
    BY <1>1, <1>3, <2>1, <2>2, GrantTyped
<1>5. CASE GrantedLate(c)
  <2>1. Becomes(c, Resting) /\ TaskOK(Resting, Len(conns), nextGrant + 1)
    BY <1>5 DEF GrantedLate, Answered, TaskOK
  <2> HIDE DEF h
  <2> QED
    BY <1>1, <1>3, <2>1, GrantTyped
<1> QED
  BY <1>4, <1>5

\* The alias of a new entry is free.
LEMMA HandshakeSucceedsTyped ==
    ASSUME Typed, NEW c \in Calls, HandshakeSucceeds(c)
    PROVE  /\ Typed'
           /\ task[c].name \in Names
           /\ AliasFor(task[c].name, Taken) \in Aliases \ Taken
<1> DEFINE n == task[c].name
           v == [grant |-> task[c].grant, alias |-> AliasFor(n, Taken)]
           f == With(active, n, v)
           t == [task[c] EXCEPT !.phase = "notice"]
<1>1. /\ Becomes(c, t) /\ active' = f /\ task[c].phase = "handshake"
      /\ UNCHANGED <<broker, conns, held, nextGrant, exited, attached, polite>>
  BY DEF HandshakeSucceeds
<1>2. TaskOK(task[c], Len(conns), nextGrant) /\ task[c] # Resting /\ ~exited
  BY <1>1 DEF Typed, TasksOK, Resting
<1>3. n \in Names /\ task[c].grant \in 1..(nextGrant - 1) /\ Len(conns) > 0
  BY <1>1, <1>2, Naturals_ DEF TaskOK, NoConnection
<1>4. AliasFor(n, Taken) \in Aliases \ Taken
  BY <1>3, TakenIsSmall, AliasIsFree DEF Typed, ActiveOK
<1>5. v \in ActiveServer /\ v.grant < nextGrant
  BY <1>3, <1>4, BoundsAssumption DEF ActiveServer, GrantIds, Typed, ConnsOK
<1> HIDE DEF v, n
<1>6. DOMAIN f = DOMAIN active \cup {n} /\ f \in [DOMAIN f -> ActiveServer]
  BY <1>5, WithMeans DEF Typed, ActiveOK
<1>7. f[n] = v /\ \A m \in DOMAIN active \ {n} : f[m] = active[m]
  BY DEF With
<1> HIDE DEF f
<1>8. ActiveOK'
  BY <1>1, <1>3, <1>5, <1>6, <1>7 DEF Typed, ActiveOK
<1>9. TaskOK(t, Len(conns), nextGrant)
  BY <1>1, <1>2 DEF TaskOK, Working
<1>10. TasksOK'
  <2> HIDE DEF t
  <2> QED
    BY <1>1, <1>2, <1>9, BecomesOK, Naturals_ DEF Typed, ConnsOK
<1>11. ConnsOK' /\ HeldOK'
  BY <1>1 DEF Typed, ConnsOK, HeldOK
<1> QED
  BY <1>3, <1>4, <1>8, <1>10, <1>11 DEF Typed, n

\* What happens around the gateway.
LEMMA WorldTyped ==
    ASSUME Typed, NEW n, NEW k,
           ClientLeaves \/ Exits \/ BrokerReclaims(k) \/ BrokerDies \/ ForcedElsewhere(n) \/ ReturnedElsewhere(k)
    PROVE  Typed'
<1>1. /\ conns' \in Seq({"open", "closed", "lost"}) /\ Len(conns') = Len(conns)
      /\ UNCHANGED <<nextGrant, polite>>
  <2> DEFINE S == {"open", "closed", "lost"}
  <2>1. conns \in Seq(S) /\ conns \in [1..Len(conns) -> S] /\ DOMAIN conns = 1..Len(conns)
    BY DEF Typed, ConnsOK
  <2>2. conns' \in [1..Len(conns) -> S]
    BY <2>1 DEF ClientLeaves, Exits, BrokerReclaims, BrokerDies, ForcedElsewhere, ReturnedElsewhere
  <2>3. Len(conns) \in Nat
    BY <2>1
  <2> QED
    BY <2>2, <2>3 DEF ClientLeaves, Exits, BrokerReclaims, BrokerDies, ForcedElsewhere, ReturnedElsewhere
<1>2. CASE Exits
  <2>1. active' = EmptyMap /\ held' = held /\ broker' = NoConnection /\ exited' = TRUE
        /\ attached' = FALSE /\ task' = AfterExit
    BY <1>2 DEF Exits
  <2>2. TasksOK'
    <3>1. \A c \in Calls : /\ TaskOK(AfterExit[c], Len(conns), nextGrant)
                           /\ AfterExit[c].phase \in {"idle", "left"}
      <4> SUFFICES ASSUME NEW c \in Calls
                   PROVE  /\ TaskOK(AfterExit[c], Len(conns), nextGrant)
                          /\ AfterExit[c].phase \in {"idle", "left"}
        OBVIOUS
      <4>1. TaskOK(task[c], Len(conns), nextGrant)
        BY DEF Typed, TasksOK
      <4>2. CASE InFlight(c)
        <5>1. AfterExit[c] = [task[c] EXCEPT !.phase = "left"]
          BY <4>2 DEF AfterExit
        <5> QED
          BY <4>1, <4>2, <5>1 DEF InFlight, TaskOK, Working, Resting
      <4>3. CASE ~InFlight(c)
        BY <4>3 DEF AfterExit, TaskOK, Resting
      <4> QED
        BY <4>2, <4>3
    <3>2. DOMAIN AfterExit = Calls /\ AfterExit = [c \in Calls |-> AfterExit[c]]
      BY DEF AfterExit
    <3> QED
      BY <1>1, <2>1, <3>1, <3>2 DEF TasksOK
  <2>3. ActiveOK' /\ HeldOK'
    BY <1>1, <2>1, EmptyMapOK DEF Typed, ActiveOK, HeldOK
  <2>4. ConnsOK'
    BY <1>1, <2>1 DEF Typed, ConnsOK
  <2> QED
    BY <2>2, <2>3, <2>4 DEF Typed
<1>3. CASE BrokerReclaims(k) \/ BrokerDies \/ ForcedElsewhere(n) \/ ReturnedElsewhere(k)
  <2>1. UNCHANGED <<task, active, broker, exited, attached>>
    BY <1>3 DEF BrokerReclaims, BrokerDies, ForcedElsewhere, ReturnedElsewhere
  <2>2. TasksOK' /\ ConnsOK' /\ ActiveOK'
    BY <1>1, <2>1 DEF Typed, TasksOK, ConnsOK, ActiveOK
  <2>3. HeldOK'
    <3>1. CASE held' = EmptyMap
      BY <3>1, EmptyMapOK DEF HeldOK
    <3>2. CASE \E T : held' = Without(held, T)
      BY <1>1, <3>2, FewerHeld
    <3> QED
      BY <1>3, <3>1, <3>2 DEF BrokerReclaims, BrokerDies, ForcedElsewhere, ReturnedElsewhere
  <2> QED
    BY <2>2, <2>3 DEF Typed
<1>4. CASE ClientLeaves
  BY <1>4 DEF ClientLeaves, Typed, TasksOK, ConnsOK, ActiveOK, HeldOK
<1> QED
  BY <1>2, <1>3, <1>4

LEMMA StepTyped == Typed /\ [Next]_vars => Typed'
<1> SUFFICES ASSUME Typed, [Next]_vars
             PROVE  Typed'
  OBVIOUS
<1>1. CASE UNCHANGED vars
  BY <1>1 DEF vars, Typed, TasksOK, ConnsOK, ActiveOK, HeldOK
<1>2. ASSUME NEW c \in Calls,
             \/ ListServers(c) \/ Resumes(c)
             \/ \E n \in Names : Activate(c, n) \/ Deactivate(c, n)
      PROVE  Typed'
  <2>1. CASE ConnectFails(c) \/ Rejected(c) \/ BrokerReplies(c) \/ HandshakeFails(c)
             \/ NoticeSent(c) \/ NoticeFails(c) \/ ClientClosed(c) \/ BrokerReleases(c)
             \/ LeftUnanswered(c) \/ ListServers(c)
    BY <2>1, HandlerTyped
  <2>2. CASE \E n \in Names : Activate(c, n) \/ Deactivate(c, n)
    BY <2>2, HandlerTyped
  <2> QED
    BY <1>2, <2>1, <2>2, ConnectsTyped, BrokerGrantsTyped, HandshakeSucceedsTyped DEF Resumes
<1> QED
  BY <1>1, <1>2, WorldTyped DEF Next

\* Every variable stays within its type, and grant ids are fresh
\* (gateway.ts:78-81, broker.ts:82-87).
THEOREM TypeCorrect == Spec => []TypeOK
<1>1. Spec => []Typed
  BY InitTyped, StepTyped, PTL DEF Spec
<1> QED
  BY <1>1, TypedIsTypeOK, PTL

-----------------------------------------------------------------------------
(* Aliases of active servers                                               *)

LEMMA StepUnique ==
    ASSUME Typed, AliasesUnique, [Next]_vars
    PROVE  AliasesUnique'
<1>1. CASE active' = active
  BY <1>1 DEF AliasesUnique
<1>2. CASE \E T : active' = Without(active, T)
  <2>1. PICK T : active' = Without(active, T)
    BY <1>2
  <2> DEFINE f == Without(active, T)
  <2>2. DOMAIN f \subseteq DOMAIN active /\ \A n \in DOMAIN f : f[n] = active[n]
    BY WithoutMeans
  <2>3. active' = f
    BY <2>1
  <2> HIDE DEF f
  <2> QED
    BY <2>2, <2>3 DEF AliasesUnique
<1>3. ASSUME NEW c \in Calls, HandshakeSucceeds(c)
      PROVE  AliasesUnique'
  <2> DEFINE n == task[c].name
             v == [grant |-> task[c].grant, alias |-> AliasFor(n, Taken)]
             f == With(active, n, v)
  <2>1. active' = f
    BY <1>3 DEF HandshakeSucceeds
  <2>2. v.alias \notin Taken
    BY <1>3, HandshakeSucceedsTyped
  <2>3. \A m \in DOMAIN active : active[m].alias # v.alias
    BY <2>2 DEF Taken
  <2> HIDE DEF n, v
  <2>4. DOMAIN f = DOMAIN active \cup {n}
        /\ f[n] = v /\ \A m \in DOMAIN active \ {n} : f[m] = active[m]
    BY DEF With
  <2> HIDE DEF f
  <2> QED
    BY <2>1, <2>3, <2>4 DEF AliasesUnique
<1>4. CASE active' = EmptyMap
  BY <1>4, EmptyMapOK DEF AliasesUnique
<1> QED
  BY <1>1, <1>2, <1>3, <1>4
     DEF Next, vars, ListServers, Resumes, Connects, ConnectFails, Rejected, BrokerReplies,
         BrokerGrants, HandshakeFails, NoticeSent, NoticeFails, ClientClosed, BrokerReleases,
         GrantedLate, LeftUnanswered, Activate, Deactivate, ClientLeaves, Exits,
         BrokerReclaims, BrokerDies, ForcedElsewhere, ReturnedElsewhere

\* No two active servers go by the same alias (gateway.ts:184-185, 220).
THEOREM AliasesCorrect == Spec => []AliasesUnique
<1>1. Init => Typed /\ AliasesUnique
  BY InitTyped, EmptyMapOK DEF Init, AliasesUnique
<1>2. Typed /\ AliasesUnique /\ [Next]_vars => (Typed /\ AliasesUnique)'
  BY StepTyped, StepUnique
<1> QED
  BY <1>1, <1>2, PTL DEF Spec

-----------------------------------------------------------------------------
(* Grants do not dangle                                                    *)

\* Of a polite client, no two calls are about one server, and an activation that has
\* not come to its entry is never about a server that is active: it would have been
\* answered at once.
About(t, n) == t.phase # "idle" /\ t.op # "list" /\ t.name = n
Early(t) == t.op = "activate" /\ t.phase \in {"connect", "asked", "handshake"}
Apart == polite => \A c, d \in Calls, n \in Names : About(task[c], n) /\ About(task[d], n) => c = d
Absent ==
    polite => \A c \in Calls, n \in DOMAIN active : About(task[c], n) => ~Early(task[c])

\* Connections are lost all at once, so one that is open is not older than one
\* that is not; and nobody gives a grant back over an older connection than the
\* one it came by.
Later == \A j, k \in DOMAIN conns : j <= k /\ Open(j) => Open(k)
Reaches ==
    \A c \in Calls :
        (task[c].phase \in {"handshake", "notice", "release"} /\ task[c].grant \in DOMAIN held)
            => held[task[c].grant].conn <= task[c].conn

LEMMA TaskOf ==
    ASSUME Typed, NEW c \in Calls, NEW t, Becomes(c, t)
    PROVE  /\ task'[c] = t
           /\ \A d \in Calls \ {c} : task'[d] = task[d]
           /\ TaskOK(task[c], Len(conns), nextGrant)
  BY DEF Typed, TasksOK, Becomes

LEMMA HandlerApart ==
    ASSUME Typed, Apart, Absent, NEW c \in Calls, NEW t, Becomes(c, t),
           UNCHANGED polite, DOMAIN active' \subseteq DOMAIN active,
           \A n \in Names : About(t, n) =>
                \/ About(task[c], n) /\ (Early(t) => Early(task[c]))
                \/ (polite => ~Engaged(n)) /\ n \notin DOMAIN active'
    PROVE  Apart' /\ Absent'
<1>1. ASSUME NEW n \in Names, ~Engaged(n), NEW d \in Calls
      PROVE  ~About(task[d], n)
  BY <1>1 DEF Engaged, About, Idle
<1>2. ASSUME polite
      PROVE  \A a, b \in Calls, n \in Names : About(task'[a], n) /\ About(task'[b], n) => a = b
  BY <1>1, <1>2, TaskOf DEF Apart
<1>3. DOMAIN active \subseteq Names
  BY DEF Typed, ActiveOK
<1>4. ASSUME polite
      PROVE  \A d \in Calls, n \in DOMAIN active' : About(task'[d], n) => ~Early(task'[d])
  BY <1>1, <1>3, <1>4, TaskOf DEF Absent
<1> QED
  BY <1>2, <1>4 DEF Apart, Absent

\* A call that goes on is about the server it was about.
LEMMA GoesOnApart ==
    ASSUME Typed, Apart, Absent, NEW c \in Calls,
           \/ ListServers(c) \/ Connects(c) \/ ConnectFails(c) \/ Rejected(c) \/ BrokerReplies(c)
           \/ BrokerGrants(c) \/ HandshakeFails(c) \/ NoticeSent(c) \/ NoticeFails(c)
           \/ ClientClosed(c) \/ BrokerReleases(c) \/ GrantedLate(c) \/ LeftUnanswered(c)
    PROVE  Apart' /\ Absent'
<1> DEFINE Follows(t, n) == About(task[c], n) /\ (Early(t) => Early(task[c]))
<1>1. /\ UNCHANGED <<polite, active>>
      /\ \E t : Becomes(c, t) /\ \A n \in Names : About(t, n) => Follows(t, n)
  <2>0. UNCHANGED <<polite, active>>
    BY DEF ListServers, Connects, ConnectFails, Rejected, BrokerReplies, BrokerGrants,
           HandshakeFails, NoticeSent, NoticeFails, ClientClosed, BrokerReleases, GrantedLate,
           LeftUnanswered
  <2>1. CASE ConnectFails(c) \/ Rejected(c) \/ BrokerReplies(c) \/ NoticeSent(c)
             \/ BrokerReleases(c) \/ GrantedLate(c) \/ LeftUnanswered(c)
    <3>1. Becomes(c, Resting)
      BY <2>1 DEF ConnectFails, Rejected, BrokerReplies, NoticeSent, BrokerReleases, GrantedLate,
                  LeftUnanswered, Answered
    <3>2. \A n \in Names : ~About(Resting, n)
      BY DEF About, Resting
    <3> QED
      BY <2>0, <3>1, <3>2
  <2>2. CASE ListServers(c)
    <3> DEFINE t == GoesOn("list", NoName, broker, NoGrant)
    <3>1. Becomes(c, t) /\ \A n \in Names : ~About(t, n)
      BY <2>2 DEF ListServers, GoesOn, About
    <3> QED
      BY <2>0, <3>1
  <2>3. CASE Connects(c)
    <3> DEFINE t == GoesOn(task[c].op, task[c].name, Len(conns) + 1, task[c].grant)
    <3>1. Becomes(c, t) /\ \A n \in Names : About(t, n) => Follows(t, n)
      BY <2>3 DEF Connects, GoesOn, About, Early
    <3> QED
      BY <2>0, <3>1
  <2>4. CASE BrokerGrants(c)
    <3> DEFINE t == [phase |-> "handshake", op |-> "activate", name |-> task[c].name,
                     conn |-> task[c].conn, grant |-> nextGrant]
    <3>1. Becomes(c, t) /\ \A n \in Names : About(t, n) => Follows(t, n)
      BY <2>4 DEF BrokerGrants, About, Early
    <3> QED
      BY <2>0, <3>1
  <2>5. CASE HandshakeFails(c) \/ NoticeFails(c)
    <3> DEFINE t == [task[c] EXCEPT !.phase = "release"]
    <3>1. /\ TaskOK(task[c], Len(conns), nextGrant)
          /\ task[c].phase \in {"handshake", "notice"}
      BY <2>5 DEF HandshakeFails, NoticeFails, Typed, TasksOK
    <3>2. Becomes(c, t) /\ \A n \in Names : About(t, n) => Follows(t, n)
      BY <2>5, <3>1 DEF HandshakeFails, NoticeFails, About, Early, TaskOK, Working, Resting
    <3> QED
      BY <2>0, <3>2
  <2>6. CASE ClientClosed(c)
    <3> DEFINE t == GoesOn("deactivate", task[c].name, broker, task[c].grant)
    <3>1. TaskOK(task[c], Len(conns), nextGrant) /\ task[c].phase = "closing"
      BY <2>6 DEF ClientClosed, Typed, TasksOK
    <3>2. Becomes(c, t) /\ \A n \in Names : About(t, n) => Follows(t, n)
      BY <2>6, <3>1 DEF ClientClosed, GoesOn, About, Early, TaskOK, Resting
    <3> QED
      BY <2>0, <3>2
  <2> QED
    BY <2>1, <2>2, <2>3, <2>4, <2>5, <2>6
<1>2. PICK t : Becomes(c, t) /\ \A n \in Names : About(t, n) => Follows(t, n)
  BY <1>1
<1> QED
  BY <1>1, <1>2, HandlerApart

LEMMA StepApart ==
    ASSUME Typed, Apart, Absent, [Next]_vars
    PROVE  Apart' /\ Absent'
<1>1. CASE UNCHANGED <<task, active, polite>>
  BY <1>1 DEF Apart, Absent
<1>2. ASSUME NEW c \in Calls, NEW n \in Names, Activate(c, n)
      PROVE  Apart' /\ Absent'
  <2> DEFINE t == GoesOn("activate", n, broker, NoGrant)
  <2>1. /\ Becomes(c, t) /\ UNCHANGED <<active, polite>>
        /\ polite => ~Engaged(n)
        /\ n \notin DOMAIN active
        /\ \A m \in Names : About(t, m) => m = n
    BY <1>2 DEF Activate, GoesOn, About
  <2> HIDE DEF t
  <2> QED
    BY <2>1, HandlerApart
<1>3. ASSUME NEW c \in Calls, NEW n \in Names, Deactivate(c, n)
      PROVE  Apart' /\ Absent'
  <2> DEFINE t == [phase |-> "closing", op |-> "deactivate", name |-> n,
                   conn |-> NoConnection, grant |-> active[n].grant]
  <2>1. /\ Becomes(c, t) /\ UNCHANGED polite
        /\ polite => ~Engaged(n)
        /\ \A m \in Names : About(t, m) => m = n
    BY <1>3 DEF Deactivate, About
  <2>2. n \notin DOMAIN active' /\ DOMAIN active' \subseteq DOMAIN active
    <3> DEFINE f == Without(active, {n})
    <3>1. DOMAIN f = DOMAIN active \ {n}
      BY WithoutMeans
    <3>2. active' = f
      BY <1>3 DEF Deactivate
    <3> HIDE DEF f
    <3> QED
      BY <3>1, <3>2
  <2> HIDE DEF t
  <2> QED
    BY <2>1, <2>2, HandlerApart
<1>4. ASSUME NEW c \in Calls, HandshakeSucceeds(c)
      PROVE  Apart' /\ Absent'
  <2> DEFINE t == [task[c] EXCEPT !.phase = "notice"]
  <2>1. Becomes(c, t) /\ task[c].phase = "handshake" /\ UNCHANGED polite
    BY <1>4 DEF HandshakeSucceeds
  <2>2. TaskOK(task[c], Len(conns), nextGrant)
    BY DEF Typed, TasksOK
  <2>3. About(task[c], task[c].name) /\ task[c].name \in Names
    BY <2>1, <2>2 DEF TaskOK, About, Resting
  <2>4. DOMAIN active' = DOMAIN active \cup {task[c].name}
    BY <1>4, WithMeans DEF HandshakeSucceeds
  <2>5. ~Early(t) /\ \A n \in Names : About(t, n) => About(task[c], n)
    BY <2>1, <2>2 DEF About, Early, TaskOK, Working, Resting
  <2>6. task'[c] = t /\ \A d \in Calls \ {c} : task'[d] = task[d]
    <3> HIDE DEF t
    <3> QED
      BY <2>1, TaskOf
  <2> HIDE DEF t
  <2>7. Apart'
    BY <2>1, <2>5, <2>6 DEF Apart
  <2>8. DOMAIN active \subseteq Names
    BY DEF Typed, ActiveOK
  <2>9. Absent'
    BY <2>1, <2>3, <2>4, <2>5, <2>6, <2>8 DEF Apart, Absent
  <2> QED
    BY <2>7, <2>9
<1>5. CASE Exits
  <2>1. DOMAIN active' = {} /\ task' = AfterExit /\ UNCHANGED polite
    BY <1>5, EmptyMapOK DEF Exits
  <2>2. \A c \in Calls, n \in Names : About(AfterExit[c], n) => About(task[c], n)
    <3> SUFFICES ASSUME NEW c \in Calls, NEW n \in Names, About(AfterExit[c], n)
                 PROVE  About(task[c], n)
      OBVIOUS
    <3>1. InFlight(c) /\ AfterExit[c] = [task[c] EXCEPT !.phase = "left"]
      BY DEF AfterExit, About, Resting
    <3>2. TaskOK(task[c], Len(conns), nextGrant)
      BY DEF Typed, TasksOK
    <3> QED
      BY <3>1, <3>2 DEF InFlight, About, TaskOK, Working, Resting
  <2> QED
    BY <2>1, <2>2 DEF Apart, Absent
<1>6. CASE \E k, n : \/ ClientLeaves \/ BrokerReclaims(k) \/ BrokerDies
                     \/ ForcedElsewhere(n) \/ ReturnedElsewhere(k)
  BY <1>1, <1>6 DEF ClientLeaves, BrokerReclaims, BrokerDies, ForcedElsewhere, ReturnedElsewhere
<1>7. CASE UNCHANGED vars
  BY <1>1, <1>7 DEF vars
<1> QED
  BY <1>2, <1>3, <1>4, <1>5, <1>6, <1>7, GoesOnApart DEF Next, Resumes

\* Which connections are open after a step: the same, and perhaps a new one; or
\* none at all.
LEMMA OpenAfter ==
    ASSUME Typed, Later, [Next]_vars
    PROVE  /\ Later' /\ Len(conns) <= Len(conns')
           /\ \A k \in 1..Len(conns) : Open(k)' => Open(k)
<1> DEFINE S == {"open", "closed", "lost"}
<1>1. conns \in Seq(S) /\ DOMAIN conns = 1..Len(conns) /\ Len(conns) \in Nat
  BY DEF Typed, ConnsOK
<1>2. CASE conns' = conns
  BY <1>1, <1>2 DEF Later, Open
<1>3. CASE conns' = Append(conns, "open")
  <2>1. /\ Len(conns') = Len(conns) + 1 /\ DOMAIN conns' = 1..(Len(conns) + 1)
        /\ conns'[Len(conns) + 1] = "open"
        /\ \A k \in 1..Len(conns) : conns'[k] = conns[k]
    BY <1>1, <1>3
  <2>2. \A j, k \in DOMAIN conns' : j <= k /\ conns'[j] = "open" => conns'[k] = "open"
    <3> SUFFICES ASSUME NEW j \in DOMAIN conns', NEW k \in DOMAIN conns',
                        j <= k, conns'[j] = "open", k # Len(conns) + 1
                 PROVE  conns'[k] = "open"
      BY <2>1
    <3>1. j \in 1..Len(conns) /\ k \in 1..Len(conns)
      BY <1>1, <2>1
    <3> QED
      BY <1>1, <2>1, <3>1 DEF Later, Open
  <2> QED
    BY <1>1, <2>1, <2>2 DEF Later, Open
<1>4. ASSUME DOMAIN conns' = DOMAIN conns, Len(conns') = Len(conns),
             \A k \in DOMAIN conns : conns'[k] # "open"
      PROVE  /\ Later' /\ Len(conns) <= Len(conns')
             /\ \A k \in 1..Len(conns) : Open(k)' => Open(k)
  BY <1>1, <1>4 DEF Later, Open
<1>5. CASE Exits \/ BrokerDies
  <2>1. DOMAIN conns' = DOMAIN conns /\ \A k \in DOMAIN conns : conns'[k] # "open"
    BY <1>5 DEF Exits, BrokerDies
  <2>2. Len(conns') = Len(conns)
    BY <1>1, <1>5 DEF Exits, BrokerDies
  <2> QED
    BY <1>4, <2>1, <2>2
<1>6. ASSUME NEW k \in 1..MaxConnections, BrokerReclaims(k)
      PROVE  /\ Later' /\ Len(conns) <= Len(conns')
             /\ \A j \in 1..Len(conns) : Open(j)' => Open(j)
  <2>1. conns' = [conns EXCEPT ![k] = "lost"] /\ conns[k] = "closed"
    BY <1>6 DEF BrokerReclaims
  <2>2. /\ DOMAIN conns' = DOMAIN conns /\ Len(conns') = Len(conns)
        /\ \A j \in DOMAIN conns : conns'[j] = "open" <=> conns[j] = "open"
    BY <1>1, <2>1
  <2> QED
    BY <1>1, <2>2 DEF Later, Open
<1> QED
  BY <1>2, <1>3, <1>5, <1>6
     DEF Next, vars, ListServers, Resumes, Connects, ConnectFails, Rejected, BrokerReplies,
         BrokerGrants, HandshakeSucceeds, HandshakeFails, NoticeSent, NoticeFails, ClientClosed,
         BrokerReleases, GrantedLate, LeftUnanswered, Activate, Deactivate, ClientLeaves,
         ForcedElsewhere, ReturnedElsewhere

\* Grants are only added by the broker, under the next id.
NoneGranted == \A c \in Calls : ~BrokerGrants(c) /\ ~GrantedLate(c)
OnlyFewer == \A g \in DOMAIN held' : g \in DOMAIN held /\ held'[g] = held[g]

LEMMA HeldAfter ==
    ASSUME Typed, [Next]_vars, NoneGranted
    PROVE  OnlyFewer
<1>1. CASE held' = held
  BY <1>1 DEF OnlyFewer
<1>2. ASSUME NEW T, held' = Without(held, T)
      PROVE  OnlyFewer
  <2> DEFINE f == Without(held, T)
  <2>1. \A g \in DOMAIN f : g \in DOMAIN held /\ f[g] = held[g]
    BY WithoutMeans
  <2>2. held' = f
    BY <1>2
  <2> HIDE DEF f
  <2> QED
    BY <2>1, <2>2 DEF OnlyFewer
<1>3. CASE held' = EmptyMap
  BY <1>3, EmptyMapOK DEF OnlyFewer
<1> QED
  BY <1>1, <1>2, <1>3
     DEF Next, vars, ListServers, Resumes, Connects, ConnectFails, Rejected, BrokerReplies,
         HandshakeSucceeds, HandshakeFails, NoticeSent, NoticeFails, ClientClosed,
         BrokerReleases, LeftUnanswered, Activate, Deactivate, ClientLeaves, Exits,
         BrokerReclaims, BrokerDies, ForcedElsewhere, ReturnedElsewhere, NoneGranted

LEMMA GrantsAfter ==
    ASSUME Typed, NEW c \in Calls, BrokerGrants(c) \/ GrantedLate(c)
    PROVE  /\ DOMAIN held' = DOMAIN held \cup {nextGrant} /\ nextGrant \notin DOMAIN held
           /\ held'[nextGrant].conn = task[c].conn
           /\ \A g \in DOMAIN held : held'[g] = held[g]
<1> DEFINE h == [name |-> task[c].name, conn |-> task[c].conn]
           f == With(held, nextGrant, h)
<1>1. nextGrant \notin DOMAIN held
  BY Naturals_ DEF Typed, HeldOK
<1>2. DOMAIN f = DOMAIN held \cup {nextGrant} /\ f[nextGrant] = h
      /\ \A g \in DOMAIN held \ {nextGrant} : f[g] = held[g]
  BY DEF With
<1>3. held' = f
  BY DEF BrokerGrants, GrantedLate
<1>4. h.conn = task[c].conn
  OBVIOUS
<1> HIDE DEF f, h
<1> QED
  BY <1>1, <1>2, <1>3, <1>4

LEMMA ReachesStep ==
    ASSUME Typed, Reaches, NEW c \in Calls, NEW t, Becomes(c, t), OnlyFewer,
           t.phase \in {"handshake", "notice", "release"} =>
               (t.grant \in DOMAIN held => held[t.grant].conn <= t.conn)
    PROVE  Reaches'
  BY TaskOf DEF Reaches, OnlyFewer

LEMMA StepReaches ==
    ASSUME Typed, Reaches, [Next]_vars
    PROVE  Reaches'
<1>1. CASE UNCHANGED task /\ OnlyFewer
  BY <1>1 DEF Reaches, OnlyFewer
<1>2. ASSUME NEW c \in Calls, BrokerGrants(c)
      PROVE  Reaches'
  <2> DEFINE t == [phase |-> "handshake", op |-> "activate", name |-> task[c].name,
                   conn |-> task[c].conn, grant |-> nextGrant]
  <2>1. Becomes(c, t)
    BY <1>2 DEF BrokerGrants
  <2>2. t.conn = task[c].conn /\ t.grant = nextGrant
    OBVIOUS
  <2> HIDE DEF t
  <2>3. \A d \in Calls \ {c} : task[d].phase \in {"handshake", "notice", "release"} => task[d].grant # nextGrant
    BY Naturals_ DEF Typed, TasksOK, TaskOK, Resting
  <2>4. task[c].conn \in Nat
    BY <1>2 DEF BrokerGrants, Typed, TasksOK, TaskOK, Resting, Working
  <2>5. task'[c] = t /\ \A d \in Calls \ {c} : task'[d] = task[d]
    BY <2>1, TaskOf
  <2>6. /\ DOMAIN held' = DOMAIN held \cup {nextGrant}
        /\ held'[nextGrant].conn = task[c].conn
        /\ \A g \in DOMAIN held : held'[g] = held[g]
    BY <1>2, GrantsAfter
  <2>7. \A d \in Calls \ {c} :
          (task'[d].phase \in {"handshake", "notice", "release"} /\ task'[d].grant \in DOMAIN held')
              => held'[task'[d].grant].conn <= task'[d].conn
    BY <2>3, <2>5, <2>6 DEF Reaches
  <2>8. held'[task'[c].grant].conn <= task'[c].conn
    BY <2>2, <2>4, <2>5, <2>6
  <2> QED
    BY <2>7, <2>8 DEF Reaches
<1>3. ASSUME NEW c \in Calls, OnlyFewer,
             HandshakeFails(c) \/ HandshakeSucceeds(c) \/ NoticeFails(c)
      PROVE  Reaches'
  <2>1. PICK t : /\ Becomes(c, t) /\ task[c].phase \in {"handshake", "notice"}
                 /\ t.grant = task[c].grant /\ t.conn = task[c].conn
    <3> DEFINE u(p) == [task[c] EXCEPT !.phase = p]
    <3>1. Becomes(c, u("notice")) \/ Becomes(c, u("release"))
      BY <1>3 DEF HandshakeFails, HandshakeSucceeds, NoticeFails
    <3>2. task[c].phase \in {"handshake", "notice"}
      BY <1>3 DEF HandshakeFails, HandshakeSucceeds, NoticeFails
    <3>3. TaskOK(task[c], Len(conns), nextGrant)
      BY DEF Typed, TasksOK
    <3>4. \A p : u(p).grant = task[c].grant /\ u(p).conn = task[c].conn
      BY <3>2, <3>3 DEF TaskOK, Working, Resting
    <3> HIDE DEF u
    <3> QED
      BY <3>1, <3>2, <3>4
  <2> QED
    BY <1>3, <2>1, ReachesStep DEF Reaches
<1>4. ASSUME NEW c \in Calls, ClientClosed(c), OnlyFewer
      PROVE  Reaches'
  <2> DEFINE t == GoesOn("deactivate", task[c].name, broker, task[c].grant)
  <2>1. Becomes(c, t) /\ task[c].phase = "closing" /\ t.conn = broker
    BY <1>4 DEF ClientClosed, GoesOn
  <2>2. broker = Len(conns)
    BY <2>1 DEF Typed, ConnsOK, TasksOK, Resting
  <2> HIDE DEF t
  <2> QED
    BY <1>4, <2>1, <2>2, ReachesStep DEF Typed, HeldOK
<1>5. ASSUME NEW c \in Calls, OnlyFewer,
             NEW n,
             \/ ListServers(c) \/ ConnectFails(c) \/ Rejected(c) \/ BrokerReplies(c)
             \/ NoticeSent(c) \/ BrokerReleases(c) \/ LeftUnanswered(c)
             \/ Activate(c, n) \/ Deactivate(c, n)
      PROVE  Reaches'
  <2>1. PICK t : Becomes(c, t) /\ t.phase \notin {"handshake", "notice", "release"}
    BY <1>5 DEF ListServers, ConnectFails, Rejected, BrokerReplies, NoticeSent,
         BrokerReleases, LeftUnanswered, Activate, Deactivate, Answered, Resting, GoesOn
  <2> QED
    BY <1>5, <2>1, ReachesStep
<1>6. ASSUME NEW c \in Calls, Connects(c), OnlyFewer
      PROVE  Reaches'
  <2> DEFINE t == GoesOn(task[c].op, task[c].name, Len(conns) + 1, task[c].grant)
  <2>1. Becomes(c, t) /\ task[c].phase = "connect"
    BY <1>6 DEF Connects
  <2>2. task[c].op # "deactivate" /\ Len(conns) + 1 # NoConnection
    BY <2>1, Naturals_ DEF Typed, TasksOK, TaskOK, Resting, NoConnection
  <2>3. t.phase = "asked"
    BY <2>2 DEF GoesOn
  <2> HIDE DEF t
  <2> QED
    BY <1>6, <2>1, <2>3, ReachesStep
<1>7. CASE Exits
  <2>1. task' = AfterExit
    BY <1>7 DEF Exits
  <2>2. \A c \in Calls : AfterExit[c].phase \in {"idle", "left"}
    BY DEF AfterExit, InFlight, Resting, Typed, TasksOK, TaskOK, Working
  <2> QED
    BY <2>1, <2>2 DEF Reaches
<1>8. CASE NoneGranted
  <2>1. OnlyFewer
    BY <1>8, HeldAfter
  <2>2. CASE UNCHANGED task
    BY <1>1, <2>1, <2>2
  <2>3. CASE \E c \in Calls : \E n : \/ ListServers(c) \/ Resumes(c) \/ Activate(c, n) \/ Deactivate(c, n)
    BY <1>3, <1>4, <1>5, <1>6, <1>8, <2>1, <2>3 DEF Resumes, NoneGranted
  <2>4. CASE \/ UNCHANGED vars \/ ClientLeaves
             \/ \E k, n : BrokerReclaims(k) \/ BrokerDies \/ ForcedElsewhere(n) \/ ReturnedElsewhere(k)
    BY <2>2, <2>4 DEF vars, ClientLeaves, BrokerReclaims, BrokerDies, ForcedElsewhere, ReturnedElsewhere
  <2> QED
    BY <1>7, <2>3, <2>4 DEF Next
<1>9. ASSUME NEW c \in Calls, GrantedLate(c)
      PROVE  Reaches'
  <2>1. Becomes(c, Resting)
    BY <1>9 DEF GrantedLate, Answered
  <2>2. /\ task'[c] = Resting
        /\ \A d \in Calls \ {c} : task'[d] = task[d] /\ TaskOK(task[d], Len(conns), nextGrant)
    BY <2>1, TaskOf DEF Typed, TasksOK
  <2>3. \A d \in Calls \ {c} :
          task[d].phase \in {"handshake", "notice", "release"} => task[d].grant # nextGrant
    BY <2>2, Naturals_ DEF TaskOK, Resting
  <2>4. /\ DOMAIN held' = DOMAIN held \cup {nextGrant}
        /\ \A g \in DOMAIN held : held'[g] = held[g]
    BY <1>9, GrantsAfter
  <2> QED
    BY <2>2, <2>3, <2>4 DEF Reaches, Resting
<1> QED
  BY <1>2, <1>8, <1>9 DEF NoneGranted

\* A claim survives a step of c unless it is c that lets go of it.
LEMMA ClaimStays ==
    ASSUME Typed, NEW c \in Calls, NEW t, Becomes(c, t), active' = active,
           NEW g, Claimed(g), OwnGrant(c) = g => (t.phase # "idle" /\ t.grant = g)
    PROVE  Claimed(g)'
<1>1. CASE \E n \in DOMAIN active : active[n].grant = g
  BY <1>1 DEF Claimed
<1>2. ASSUME NEW d \in Calls, OwnGrant(d) = g
      PROVE  Claimed(g)'
  <2>1. OwnGrant(d)' = g
    BY <1>2, TaskOf DEF OwnGrant, Idle
  <2> QED
    BY <2>1 DEF Claimed
<1> QED
  BY <1>1, <1>2 DEF Claimed

\* While the AI client is told of a new server, a polite client leaves it alone.
Entered ==
    polite => \A c \in Calls : task[c].phase = "notice" =>
        /\ task[c].name \in DOMAIN active
        /\ active[task[c].name].grant = task[c].grant

LEMMA NameOf ==
    ASSUME Typed, NEW c \in Calls, task[c].phase \in {"handshake", "notice"}
    PROVE  task[c].name \in Names /\ About(task[c], task[c].name) /\ ~Idle(c)
  BY DEF Typed, TasksOK, TaskOK, About, Idle, Resting

LEMMA StepEntered ==
    ASSUME Typed, Apart, Entered, [Next]_vars
    PROVE  Entered'
<1>1. ASSUME UNCHANGED <<active, polite>>,
             \A c \in Calls : task'[c].phase = "notice" => task'[c] = task[c]
      PROVE  Entered'
  BY <1>1 DEF Entered
<1>2. ASSUME NEW c \in Calls, HandshakeSucceeds(c)
      PROVE  Entered'
  <2> DEFINE n == task[c].name
             v == [grant |-> task[c].grant, alias |-> AliasFor(n, Taken)]
             f == With(active, n, v)
             t == [task[c] EXCEPT !.phase = "notice"]
  <2>1. /\ active' = f /\ Becomes(c, t) /\ UNCHANGED polite
        /\ task[c].phase = "handshake" /\ v.grant = task[c].grant
    BY <1>2 DEF HandshakeSucceeds
  <2>2. t.name = n /\ t.grant = task[c].grant
    BY <2>1 DEF Typed, TasksOK, TaskOK, Working, Resting
  <2>3. About(task[c], n) /\ n \in Names
    BY <2>1, NameOf
  <2> HIDE DEF n, v, t
  <2>4. /\ DOMAIN f = DOMAIN active \cup {n} /\ f[n] = v
        /\ \A m \in DOMAIN active \ {n} : f[m] = active[m]
    BY DEF With
  <2> HIDE DEF f
  <2>5. task'[c] = t /\ \A d \in Calls \ {c} : task'[d] = task[d]
    BY <2>1, TaskOf
  <2>6. ASSUME polite, NEW d \in Calls \ {c}, task[d].phase = "notice"
        PROVE  task[d].name # n
    <3>1. About(task[d], task[d].name)
      BY <2>6, NameOf
    <3> QED
      BY <2>3, <2>6, <3>1 DEF Apart
  <2> QED
    BY <2>1, <2>2, <2>4, <2>5, <2>6 DEF Entered
<1>3. ASSUME NEW c \in Calls, NEW n \in Names, Deactivate(c, n)
      PROVE  Entered'
  <2> DEFINE t == [phase |-> "closing", op |-> "deactivate", name |-> n,
                   conn |-> NoConnection, grant |-> active[n].grant]
             f == Without(active, {n})
  <2>1. /\ active' = f /\ Becomes(c, t) /\ UNCHANGED polite
        /\ polite => ~Engaged(n)
        /\ t.phase # "notice"
    BY <1>3 DEF Deactivate
  <2> HIDE DEF t
  <2>2. DOMAIN f = DOMAIN active \ {n} /\ \A m \in DOMAIN f : f[m] = active[m]
    BY WithoutMeans
  <2> HIDE DEF f
  <2>3. task'[c] = t /\ \A d \in Calls \ {c} : task'[d] = task[d]
    BY <2>1, TaskOf
  <2>4. ASSUME polite, NEW d \in Calls, task[d].phase = "notice"
        PROVE  task[d].name # n
    BY <2>1, <2>4, NameOf DEF Engaged
  <2> QED
    BY <2>1, <2>2, <2>3, <2>4 DEF Entered
<1>4. ASSUME NEW c \in Calls, NEW n,
             \/ ListServers(c) \/ Connects(c) \/ ConnectFails(c) \/ Rejected(c)
             \/ BrokerReplies(c) \/ BrokerGrants(c) \/ HandshakeFails(c) \/ NoticeSent(c)
             \/ NoticeFails(c) \/ ClientClosed(c) \/ BrokerReleases(c) \/ GrantedLate(c)
             \/ LeftUnanswered(c) \/ Activate(c, n)
      PROVE  Entered'
  <2>1. PICK t : Becomes(c, t) /\ t.phase # "notice" /\ UNCHANGED <<active, polite>>
    <3>1. TaskOK(task[c], Len(conns), nextGrant)
      BY DEF Typed, TasksOK
    <3> QED
      BY <1>4, <3>1
         DEF ListServers, Connects, ConnectFails, Rejected, BrokerReplies, BrokerGrants,
             HandshakeFails, NoticeSent, NoticeFails, ClientClosed, BrokerReleases,
             GrantedLate, LeftUnanswered, Activate, Answered, Resting, GoesOn, TaskOK, Working
  <2>2. task'[c] = t /\ \A d \in Calls \ {c} : task'[d] = task[d]
    BY <2>1, TaskOf
  <2> QED
    BY <1>1, <2>1, <2>2
<1>5. CASE Exits
  <2>1. task' = AfterExit
    BY <1>5 DEF Exits
  <2>2. \A c \in Calls : AfterExit[c].phase \in {"idle", "left"}
    BY DEF AfterExit, InFlight, Resting, Typed, TasksOK, TaskOK, Working
  <2> QED
    BY <2>1, <2>2 DEF Entered
<1>6. CASE \/ UNCHANGED vars \/ ClientLeaves
           \/ \E k, n : BrokerReclaims(k) \/ BrokerDies \/ ForcedElsewhere(n) \/ ReturnedElsewhere(k)
  BY <1>1, <1>6 DEF vars, ClientLeaves, BrokerReclaims, BrokerDies, ForcedElsewhere,
                    ReturnedElsewhere
<1>7. CASE \E c \in Calls : \/ ListServers(c) \/ Resumes(c)
                           \/ \E n \in Names : Activate(c, n) \/ Deactivate(c, n)
  BY <1>2, <1>3, <1>4, <1>7 DEF Resumes
<1> QED
  BY <1>5, <1>6, <1>7 DEF Next

\* What a handler lets go of has been given back, or went with its connection.
LEMMA StepDangles ==
    ASSUME Typed, Absent, Later, Reaches, Entered, NothingDanglesIfPolite, [Next]_vars
    PROVE  NothingDanglesIfPolite'
<1>0. UNCHANGED polite
  BY DEF Next, vars, ListServers, Resumes, Connects, ConnectFails, Rejected, BrokerReplies,
         BrokerGrants, HandshakeSucceeds, HandshakeFails, NoticeSent, NoticeFails,
         ClientClosed, BrokerReleases, GrantedLate, LeftUnanswered, Activate, Deactivate,
         ClientLeaves, Exits, BrokerReclaims, BrokerDies, ForcedElsewhere, ReturnedElsewhere
<1> SUFFICES ASSUME polite, NEW g \in DOMAIN held', Open(held[g].conn)'
             PROVE  Claimed(g)'
  BY <1>0 DEF NothingDanglesIfPolite, NothingDangles
<1>1. ASSUME g \in DOMAIN held, held'[g] = held[g]
      PROVE  Open(held[g].conn) /\ Claimed(g) /\ g \in 1..(nextGrant - 1)
  <2>1. held[g].conn \in 1..Len(conns)
    BY <1>1 DEF Typed, HeldOK, HeldGrant, NoConnection
  <2>2. \A k \in 1..Len(conns) : k \in DOMAIN conns' /\ conns'[k] = "open" => Open(k)
    BY OpenAfter DEF Open
  <2>3. Open(held[g].conn)
    BY <1>1, <2>1, <2>2 DEF Open
  <2> QED
    BY <1>1, <2>3 DEF NothingDanglesIfPolite, NothingDangles, Typed, HeldOK
<1>2. ASSUME NEW c \in Calls, BrokerGrants(c)
      PROVE  Claimed(g)'
  <2> DEFINE t == [phase |-> "handshake", op |-> "activate", name |-> task[c].name,
                   conn |-> task[c].conn, grant |-> nextGrant]
  <2>1. Becomes(c, t) /\ active' = active /\ task[c].phase = "asked"
        /\ t.phase # "idle" /\ t.grant = nextGrant
    BY <1>2 DEF BrokerGrants
  <2> HIDE DEF t
  <2>2. CASE g = nextGrant
    <3>1. OwnGrant(c)' = g
      BY <2>1, <2>2, TaskOf DEF OwnGrant, Idle
    <3> QED
      BY <3>1 DEF Claimed
  <2>3. CASE g # nextGrant
    <3>1. g \in DOMAIN held /\ held'[g] = held[g]
      BY <1>2, <2>3, GrantsAfter
    <3>2. OwnGrant(c) = NoGrant
      BY <2>1 DEF OwnGrant, Idle, Typed, TasksOK, TaskOK, Resting
    <3> QED
      BY <1>1, <2>1, <3>1, <3>2, ClaimStays DEF NoGrant
  <2> QED
    BY <2>2, <2>3
\* A late grant is held for a connection that has been closed.
<1>late. ASSUME NEW c \in Calls, GrantedLate(c)
       PROVE  Claimed(g)'
  <2>1. /\ Becomes(c, Resting) /\ active' = active /\ conns' = conns
        /\ task[c].phase = "left" /\ ~Open(task[c].conn)
    BY <1>late DEF GrantedLate, Answered, Open
  <2>2. /\ DOMAIN held' = DOMAIN held \cup {nextGrant}
        /\ held'[nextGrant].conn = task[c].conn
        /\ \A h \in DOMAIN held : held'[h] = held[h]
    BY <1>late, GrantsAfter
  <2>3. g # nextGrant
    BY <2>1, <2>2 DEF Open
  <2>4. OwnGrant(c) = NoGrant
    BY <2>1 DEF OwnGrant, Idle, Typed, TasksOK, TaskOK, Resting
  <2> QED
    BY <1>1, <2>1, <2>2, <2>3, <2>4, ClaimStays DEF NoGrant
<1> SUFFICES ASSUME NoneGranted
             PROVE  Claimed(g)'
  BY <1>2, <1>late DEF NoneGranted
<1>3. /\ g \in DOMAIN held /\ held'[g] = held[g]
      /\ Open(held[g].conn) /\ Claimed(g) /\ g \in 1..(nextGrant - 1)
  BY <1>1, HeldAfter DEF OnlyFewer
<1>4. CASE UNCHANGED <<task, active>>
  BY <1>3, <1>4 DEF Claimed, OwnGrant, Idle
<1>5. ASSUME NEW c \in Calls, NEW n,
             \/ ListServers(c) \/ Connects(c) \/ ConnectFails(c) \/ BrokerReplies(c)
             \/ LeftUnanswered(c) \/ Activate(c, n)
      PROVE  Claimed(g)'
  <2>1. PICK t : Becomes(c, t) /\ active' = active
    BY <1>5 DEF ListServers, Connects, ConnectFails, BrokerReplies, LeftUnanswered, Activate, Answered
  <2>2. task[c].phase \in {"idle", "connect", "asked", "left"}
    BY <1>5 DEF ListServers, Connects, ConnectFails, BrokerReplies, LeftUnanswered, Activate, Idle
  <2>3. OwnGrant(c) = NoGrant
    BY <2>2 DEF OwnGrant, Idle, Typed, TasksOK, TaskOK, Resting
  <2> QED
    BY <1>3, <2>1, <2>3, ClaimStays DEF NoGrant
<1>6. ASSUME NEW c \in Calls, HandshakeFails(c) \/ NoticeFails(c)
      PROVE  Claimed(g)'
  <2> DEFINE t == [task[c] EXCEPT !.phase = "release"]
  <2>0. /\ Becomes(c, t) /\ active' = active
        /\ task[c].phase \in {"handshake", "notice"}
    BY <1>6 DEF HandshakeFails, NoticeFails
  <2>1. t.phase # "idle" /\ t.grant = OwnGrant(c)
    BY <2>0 DEF Typed, TasksOK, TaskOK, Working, Resting, OwnGrant, Idle
  <2> HIDE DEF t
  <2> QED
    BY <1>3, <2>0, <2>1, ClaimStays
<1>7. ASSUME NEW c \in Calls, ClientClosed(c)
      PROVE  Claimed(g)'
  <2> DEFINE t == GoesOn("deactivate", task[c].name, broker, task[c].grant)
  <2>1. Becomes(c, t) /\ active' = active /\ t.phase # "idle" /\ t.grant = OwnGrant(c)
    BY <1>7 DEF ClientClosed, OwnGrant, Idle, GoesOn
  <2> HIDE DEF t
  <2> QED
    BY <1>3, <2>1, ClaimStays
<1>8. ASSUME NEW c \in Calls, Rejected(c)
      PROVE  Claimed(g)'
  <2>1. Becomes(c, Resting) /\ active' = active /\ ~Open(task[c].conn)
        /\ task[c].phase \in {"asked", "release"}
    BY <1>8 DEF Rejected, Answered, OnOpen
  <2>2. TaskOK(task[c], Len(conns), nextGrant)
    BY DEF Typed, TasksOK
  <2>3. OwnGrant(c) # g
    <3>1. CASE task[c].phase = "asked"
      BY <1>3, <2>2, <3>1 DEF OwnGrant, Idle, TaskOK, Resting, NoGrant
    <3>2. CASE task[c].phase = "release"
      <4> SUFFICES ASSUME task[c].grant = g PROVE FALSE
        BY <3>2 DEF OwnGrant, Idle
      <4>1. held[g].conn <= task[c].conn
        BY <1>3, <3>2 DEF Reaches
      <4>2. task[c].conn \in DOMAIN conns /\ held[g].conn \in DOMAIN conns
        BY <1>3, <2>2, <3>2 DEF TaskOK, Resting, NoConnection, Open, Typed, ConnsOK
      <4> QED
        BY <1>3, <2>1, <4>1, <4>2 DEF Later
    <3> QED
      BY <2>1, <3>1, <3>2
  <2> QED
    BY <1>3, <2>1, <2>3, ClaimStays
<1>9. ASSUME NEW c \in Calls, BrokerReleases(c)
      PROVE  Claimed(g)'
  <2>1. Becomes(c, Resting) /\ active' = active /\ task[c].phase = "release"
    BY <1>9 DEF BrokerReleases, Answered
  <2>2. OwnGrant(c) # g
    <3> DEFINE f == Without(held, {task[c].grant})
    <3>1. DOMAIN f = DOMAIN held \ {task[c].grant}
      BY WithoutMeans
    <3>2. held' = f
      BY <1>9 DEF BrokerReleases
    <3> HIDE DEF f
    <3> QED
      BY <2>1, <3>1, <3>2 DEF OwnGrant, Idle
  <2> QED
    BY <1>3, <2>1, <2>2, ClaimStays
<1>10. ASSUME NEW c \in Calls, HandshakeSucceeds(c)
       PROVE  Claimed(g)'
  <2> DEFINE n == task[c].name
             v == [grant |-> task[c].grant, alias |-> AliasFor(n, Taken)]
             f == With(active, n, v)
             t == [task[c] EXCEPT !.phase = "notice"]
  <2>1. active' = f /\ Becomes(c, t) /\ task[c].phase = "handshake"
    BY <1>10 DEF HandshakeSucceeds
  <2>2. n \notin DOMAIN active
    BY <2>1 DEF Absent, About, Early, Typed, TasksOK, TaskOK, Resting
  <2>3. v.grant = OwnGrant(c)
    BY <2>1 DEF OwnGrant, Idle
  <2> HIDE DEF n, v, t
  <2>4. DOMAIN f = DOMAIN active \cup {n} /\ f[n] = v
        /\ \A m \in DOMAIN active : f[m] = active[m]
    BY <2>2 DEF With
  <2> HIDE DEF f
  <2>5. CASE \E m \in DOMAIN active : active[m].grant = g
    BY <2>1, <2>4, <2>5 DEF Claimed
  <2>6. CASE OwnGrant(c) = g
    BY <2>1, <2>3, <2>4, <2>6 DEF Claimed
  <2>7. ASSUME NEW d \in Calls \ {c}, OwnGrant(d) = g
        PROVE  Claimed(g)'
    <3>1. OwnGrant(d)' = g
      BY <2>1, <2>7, TaskOf DEF OwnGrant, Idle
    <3> QED
      BY <3>1 DEF Claimed
  <2> QED
    BY <1>3, <2>5, <2>6, <2>7 DEF Claimed
<1>11. ASSUME NEW c \in Calls, NEW n \in Names, Deactivate(c, n)
       PROVE  Claimed(g)'
  <2> DEFINE t == [phase |-> "closing", op |-> "deactivate", name |-> n,
                   conn |-> NoConnection, grant |-> active[n].grant]
             f == Without(active, {n})
  <2>1. active' = f /\ Becomes(c, t) /\ Idle(c) /\ t.phase # "idle" /\ t.grant = active[n].grant
    BY <1>11 DEF Deactivate
  <2> HIDE DEF t
  <2>2. DOMAIN f = DOMAIN active \ {n} /\ \A m \in DOMAIN f : f[m] = active[m]
    BY WithoutMeans
  <2> HIDE DEF f
  <2>3. OwnGrant(c)' = active[n].grant
    BY <2>1, TaskOf DEF OwnGrant, Idle
  <2>4. CASE \E m \in DOMAIN active : active[m].grant = g
    BY <2>1, <2>2, <2>3, <2>4 DEF Claimed
  <2>5. ASSUME NEW d \in Calls, OwnGrant(d) = g
        PROVE  Claimed(g)'
    <3>1. d # c
      BY <1>3, <2>1, <2>5 DEF OwnGrant, NoGrant
    <3>2. OwnGrant(d)' = g
      BY <2>1, <2>5, <3>1, TaskOf DEF OwnGrant, Idle
    <3> QED
      BY <3>2 DEF Claimed
  <2> QED
    BY <1>3, <2>4, <2>5 DEF Claimed
<1>told. ASSUME NEW c \in Calls, NoticeSent(c)
       PROVE  Claimed(g)'
  <2>1. Becomes(c, Resting) /\ active' = active /\ task[c].phase = "notice"
    BY <1>told DEF NoticeSent, Answered
  <2>2. CASE OwnGrant(c) = g
    BY <2>1, <2>2 DEF Entered, Claimed, OwnGrant, Idle
  <2>3. CASE OwnGrant(c) # g
    BY <1>3, <2>1, <2>3, ClaimStays
  <2> QED
    BY <2>2, <2>3
<1>12. ~Exits
  BY DEF Exits, Open
<1>13. CASE \E c \in Calls : \/ ListServers(c) \/ Resumes(c)
                            \/ \E n \in Names : Activate(c, n) \/ Deactivate(c, n)
  BY <1>5, <1>6, <1>7, <1>8, <1>9, <1>10, <1>11, <1>13, <1>told DEF Resumes, NoneGranted
<1>14. CASE \/ UNCHANGED vars \/ ClientLeaves
            \/ \E k, n : BrokerReclaims(k) \/ BrokerDies \/ ForcedElsewhere(n) \/ ReturnedElsewhere(k)
  BY <1>4, <1>14 DEF vars, ClientLeaves, BrokerReclaims, BrokerDies, ForcedElsewhere, ReturnedElsewhere
<1> QED
  BY <1>12, <1>13, <1>14 DEF Next

\* What the broker holds for an open connection belongs to an active server or
\* to a call under way, as long as no two calls about one server overlap
\* (gateway.ts:180-200).
THEOREM DanglingCorrect == Spec => []NothingDanglesIfPolite
<1> DEFINE IInv == /\ Typed /\ Apart /\ Absent /\ Later /\ Reaches /\ Entered
                   /\ NothingDanglesIfPolite
<1>1. Init => IInv
  <2> SUFFICES ASSUME Init PROVE IInv
    OBVIOUS
  <2>1. DOMAIN active = {} /\ DOMAIN held = {} /\ conns = <<>>
        /\ \A c \in Calls : task[c].phase = "idle"
    BY EmptyMapOK DEF Init, Resting
  <2> QED
    BY <2>1, InitTyped
       DEF Apart, Absent, About, Later, Reaches, Entered, NothingDanglesIfPolite, NothingDangles
<1>2. IInv /\ [Next]_vars => IInv'
  BY StepTyped, StepApart, OpenAfter, StepReaches, StepEntered, StepDangles
<1> QED
  BY <1>1, <1>2, PTL DEF Spec

-----------------------------------------------------------------------------
(* Whose grant it is                                                       *)

\* A grant belongs to one active server at most, and until the entry is made to the
\* call that got it.  Then the call shares it with the entry while the AI client is
\* told, and with nobody to tell keeps it for giving it back.  This holds for impolite
\* clients as well: an entry that is overwritten loses its grant, but nobody else has it.
Shares(t, client) ==
    \/ t.phase = "notice"
    \/ t.phase = "release" /\ t.op = "activate" /\ ~client
OneOwner ==
    /\ \A c \in Calls, n \in DOMAIN active :
          OwnGrant(c) = active[n].grant => Shares(task[c], attached)
    /\ \A c, d \in Calls :
          OwnGrant(c) = OwnGrant(d) /\ task[c].phase = "handshake" => c = d
    /\ \A m, n \in DOMAIN active : active[m].grant = active[n].grant => m = n

OwnGrantOf(t) == IF t.phase = "idle" THEN NoGrant ELSE t.grant

LEMMA GrantRange ==
    ASSUME Typed
    PROVE  /\ \A n \in DOMAIN active :
                active[n].grant # NoGrant /\ active[n].grant # nextGrant
           /\ \A c \in Calls : OwnGrant(c) # nextGrant
<1>1. ASSUME NEW n \in DOMAIN active
      PROVE  active[n].grant # NoGrant /\ active[n].grant # nextGrant
  <2>1. active[n].grant \in GrantIds /\ active[n].grant < nextGrant
    BY DEF Typed, ActiveOK, ActiveServer
  <2> QED
    BY <2>1, BoundsAssumption, Naturals_ DEF GrantIds, NoGrant
<1>2. ASSUME NEW c \in Calls
      PROVE  OwnGrant(c) # nextGrant
  <2>1. TaskOK(task[c], Len(conns), nextGrant)
    BY DEF Typed, TasksOK
  <2> QED
    BY <2>1, Naturals_ DEF TaskOK, OwnGrant, Idle, Resting, NoGrant, Working
<1> QED
  BY <1>1, <1>2

LEMMA OwnGrantAfter ==
    ASSUME Typed, NEW c \in Calls, NEW t, Becomes(c, t)
    PROVE  /\ OwnGrant(c)' = OwnGrantOf(t)
           /\ \A d \in Calls \ {c} : OwnGrant(d)' = OwnGrant(d)
  BY TaskOf DEF OwnGrant, OwnGrantOf, Idle

\* A call that lets its grant go, gets a fresh one, or keeps it for giving it back.
LEMMA CallOneOwner ==
    ASSUME Typed, OneOwner, NEW c \in Calls, NEW t, Becomes(c, t), UNCHANGED <<active, attached>>,
           \/ OwnGrantOf(t) = NoGrant /\ t.phase # "handshake"
           \/ OwnGrantOf(t) = nextGrant
           \/ /\ OwnGrantOf(t) = OwnGrant(c) /\ t.phase # "handshake"
              /\ Shares(task[c], attached) => Shares(t, attached)
    PROVE  OneOwner'
<1>1. /\ OwnGrant(c)' = OwnGrantOf(t) /\ task'[c] = t
      /\ \A d \in Calls \ {c} : OwnGrant(d)' = OwnGrant(d) /\ task'[d] = task[d]
  BY TaskOf, OwnGrantAfter
<1>2. /\ \A n \in DOMAIN active : active[n].grant # NoGrant /\ active[n].grant # nextGrant
      /\ \A d \in Calls : OwnGrant(d) # nextGrant
  BY GrantRange
<1>3. \A d \in Calls, n \in DOMAIN active :
        OwnGrant(d)' = active[n].grant => Shares(task'[d], attached)
  BY <1>1, <1>2 DEF OneOwner
<1>4. \A d \in Calls : task[d].phase = "handshake" => OwnGrant(d) # NoGrant
  BY DEF Typed, TasksOK, TaskOK, OwnGrant, Idle, Resting, NoGrant
<1>5. \A a, b \in Calls :
        OwnGrant(a)' = OwnGrant(b)' /\ task'[a].phase = "handshake" => a = b
  BY <1>1, <1>2, <1>4 DEF OneOwner
<1> QED
  BY <1>3, <1>5 DEF OneOwner

LEMMA StepOneOwner ==
    ASSUME Typed, OneOwner, [Next]_vars
    PROVE  OneOwner'
<1>1. CASE UNCHANGED <<task, active>> /\ (attached' = attached \/ attached' = FALSE)
  BY <1>1 DEF OneOwner, OwnGrant, Idle, Shares
<1>2. ASSUME NEW c \in Calls, NEW n,
             \/ ListServers(c) \/ ConnectFails(c) \/ Rejected(c) \/ BrokerReplies(c)
             \/ NoticeSent(c) \/ BrokerReleases(c) \/ GrantedLate(c) \/ LeftUnanswered(c)
             \/ Activate(c, n)
      PROVE  OneOwner'
  <2>1. PICK t : /\ Becomes(c, t) /\ UNCHANGED <<active, attached>>
                 /\ OwnGrantOf(t) = NoGrant /\ t.phase # "handshake"
    BY <1>2 DEF ListServers, ConnectFails, Rejected, BrokerReplies, NoticeSent, BrokerReleases,
       GrantedLate, LeftUnanswered, Activate, Answered, Resting, GoesOn, OwnGrantOf
  <2> QED
    BY <2>1, CallOneOwner
<1>3. ASSUME NEW c \in Calls,
             Connects(c) \/ HandshakeFails(c) \/ NoticeFails(c) \/ ClientClosed(c)
      PROVE  OneOwner'
  <2>1. TaskOK(task[c], Len(conns), nextGrant)
    BY DEF Typed, TasksOK
  <2>2. PICK t : /\ Becomes(c, t) /\ UNCHANGED <<active, attached>>
                 /\ OwnGrantOf(t) = OwnGrant(c) /\ t.phase # "handshake"
                 /\ Shares(task[c], attached) => Shares(t, attached)
    <3>1. CASE Connects(c) \/ ClientClosed(c)
      BY <3>1 DEF Connects, ClientClosed, GoesOn, OwnGrantOf, OwnGrant, Idle, Shares
    <3>2. CASE HandshakeFails(c) \/ NoticeFails(c)
      <4> DEFINE u == [task[c] EXCEPT !.phase = "release"]
      <4>1. /\ Becomes(c, u) /\ UNCHANGED <<active, attached>>
            /\ task[c].phase = "handshake" \/ (task[c].phase = "notice" /\ ~attached)
        BY <3>2 DEF HandshakeFails, NoticeFails
      <4>2. u.phase = "release" /\ u.op = "activate" /\ u.grant = OwnGrant(c)
        BY <2>1, <4>1 DEF TaskOK, Working, Resting, OwnGrant, Idle
      <4> HIDE DEF u
      <4> QED
        BY <4>1, <4>2 DEF OwnGrantOf, Shares
    <3> QED
      BY <1>3, <3>1, <3>2
  <2> QED
    BY <2>2, CallOneOwner
<1>4. ASSUME NEW c \in Calls, BrokerGrants(c)
      PROVE  OneOwner'
  <2>1. PICK t : Becomes(c, t) /\ UNCHANGED <<active, attached>> /\ OwnGrantOf(t) = nextGrant
    BY <1>4 DEF BrokerGrants, OwnGrantOf
  <2> QED
    BY <2>1, CallOneOwner
<1>5. ASSUME NEW c \in Calls, HandshakeSucceeds(c)
      PROVE  OneOwner'
  <2> DEFINE n == task[c].name
             v == [grant |-> task[c].grant, alias |-> AliasFor(n, Taken)]
             f == With(active, n, v)
             t == [task[c] EXCEPT !.phase = "notice"]
  <2>1. /\ active' = f /\ Becomes(c, t) /\ attached' = attached
        /\ task[c].phase = "handshake" /\ v.grant = OwnGrant(c)
    BY <1>5 DEF HandshakeSucceeds, OwnGrant, Idle
  <2>2. t.phase = "notice" /\ OwnGrantOf(t) = OwnGrant(c)
    BY <2>1 DEF Typed, TasksOK, TaskOK, Working, Resting, OwnGrant, OwnGrantOf, Idle
  <2> HIDE DEF n, v, t
  <2>3. /\ DOMAIN f = DOMAIN active \cup {n} /\ f[n] = v
        /\ \A m \in DOMAIN active \ {n} : f[m] = active[m]
    BY DEF With
  <2> HIDE DEF f
  <2>4. /\ OwnGrant(c)' = OwnGrant(c) /\ task'[c] = t
        /\ \A d \in Calls \ {c} : OwnGrant(d)' = OwnGrant(d) /\ task'[d] = task[d]
    BY <2>1, <2>2, TaskOf, OwnGrantAfter
  <2>5. /\ \A m \in DOMAIN active : active[m].grant # OwnGrant(c)
        /\ \A d \in Calls \ {c} : OwnGrant(d) # OwnGrant(c)
    BY <2>1 DEF OneOwner, Shares
  <2>6. Shares(task'[c], attached')
    BY <2>2, <2>4 DEF Shares
  <2>7. \A d \in Calls, m \in DOMAIN f : OwnGrant(d)' = f[m].grant => Shares(task'[d], attached')
    BY <2>1, <2>3, <2>4, <2>5, <2>6 DEF OneOwner
  <2>8. \A a, b \in Calls :
          OwnGrant(a)' = OwnGrant(b)' /\ task'[a].phase = "handshake" => a = b
    BY <2>2, <2>4, <2>5 DEF OneOwner
  <2>9. \A k, m \in DOMAIN f : f[k].grant = f[m].grant => k = m
    BY <2>1, <2>3, <2>5 DEF OneOwner
  <2> QED
    BY <2>1, <2>7, <2>8, <2>9 DEF OneOwner
<1>6. ASSUME NEW c \in Calls, NEW n \in Names, Deactivate(c, n)
      PROVE  OneOwner'
  <2> DEFINE t == [phase |-> "closing", op |-> "deactivate", name |-> n,
                   conn |-> NoConnection, grant |-> active[n].grant]
             f == Without(active, {n})
  <2>1. /\ active' = f /\ Becomes(c, t) /\ n \in DOMAIN active
        /\ OwnGrantOf(t) = active[n].grant /\ t.phase = "closing" /\ attached' = attached
    BY <1>6 DEF Deactivate, OwnGrantOf
  <2> HIDE DEF t
  <2>2. DOMAIN f = DOMAIN active \ {n} /\ \A m \in DOMAIN f : f[m] = active[m]
    BY WithoutMeans
  <2> HIDE DEF f
  <2>3. /\ OwnGrant(c)' = active[n].grant /\ task'[c] = t
        /\ \A d \in Calls \ {c} : OwnGrant(d)' = OwnGrant(d) /\ task'[d] = task[d]
    BY <2>1, TaskOf, OwnGrantAfter
  <2>5. \A d \in Calls : OwnGrant(d) = active[n].grant => task[d].phase # "handshake"
    BY <2>1 DEF OneOwner, Shares
  <2>6. \A d \in Calls, m \in DOMAIN f : OwnGrant(d)' = f[m].grant => Shares(task'[d], attached')
    BY <2>1, <2>2, <2>3 DEF OneOwner
  <2>7. \A a, b \in Calls :
          OwnGrant(a)' = OwnGrant(b)' /\ task'[a].phase = "handshake" => a = b
    BY <2>1, <2>3, <2>5 DEF OneOwner
  <2> QED
    BY <2>1, <2>2, <2>6, <2>7 DEF OneOwner
<1>7. CASE Exits
  <2>1. DOMAIN active' = {} /\ task' = AfterExit
    BY <1>7, EmptyMapOK DEF Exits
  <2>2. \A c \in Calls : AfterExit[c].phase \in {"idle", "left"}
    BY DEF AfterExit, InFlight, Resting, Typed, TasksOK, TaskOK, Working
  <2> QED
    BY <2>1, <2>2 DEF OneOwner
<1>8. CASE \/ UNCHANGED vars \/ ClientLeaves
           \/ \E k, n : BrokerReclaims(k) \/ BrokerDies \/ ForcedElsewhere(n) \/ ReturnedElsewhere(k)
  BY <1>1, <1>8 DEF vars, ClientLeaves, BrokerReclaims, BrokerDies, ForcedElsewhere,
                    ReturnedElsewhere
<1>9. CASE \E c \in Calls : \/ ListServers(c) \/ Resumes(c)
                           \/ \E n \in Names : Activate(c, n) \/ Deactivate(c, n)
  BY <1>2, <1>3, <1>4, <1>5, <1>6, <1>9 DEF Resumes
<1> QED
  BY <1>7, <1>8, <1>9 DEF Next

\* A grant that is about to be given back is not one an active server depends on,
\* whatever calls overlap: not for a deactivation (gateway.ts:208-210), nor for an
\* activation that failed (195-199) until the AI client has left.
THEOREM ReleasesCorrect == Spec => []ReleasesOnlyForgotten
<1>1. Init => Typed /\ OneOwner
  <2>1. Init => DOMAIN active = {} /\ \A c \in Calls : task[c].phase = "idle"
    BY EmptyMapOK DEF Init, Resting
  <2> QED
    BY <2>1, InitTyped DEF OneOwner
<1>2. Typed /\ OneOwner /\ [Next]_vars => (Typed /\ OneOwner)'
  BY StepTyped, StepOneOwner
<1>3. OneOwner => ReleasesOnlyForgotten
  BY DEF OneOwner, Shares, ReleasesOnlyForgotten
<1> QED
  BY <1>1, <1>2, <1>3, PTL DEF Spec

-----------------------------------------------------------------------------
(* What the gateway takes the broker to do                                 *)

\* Connections are counted, and none whose end the broker has seen holds a grant.
HoldersThere ==
    /\ Len(conns) <= MaxConnections
    /\ \A g \in Standing : g.conn \notin Ended

\* Grants that are taken away stand no more, and the others stay as they were.
LEMMA StandingShrinks ==
    ASSUME NEW S, held' = Without(held, S)
    PROVE  Standing' = {g \in Standing : g.id \notin S}
<1>1. DOMAIN held' = DOMAIN held \ S /\ \A i \in DOMAIN held' : held'[i] = held[i]
  BY DEF Without
<1>2. ASSUME NEW g
      PROVE  g \in Standing' <=> g \in Standing /\ g.id \notin S
  <2>1. ASSUME g \in Standing' PROVE g \in Standing /\ g.id \notin S
    BY <1>1, <2>1 DEF Standing
  <2>2. ASSUME g \in Standing, g.id \notin S PROVE g \in Standing'
    BY <1>1, <2>2 DEF Standing
  <2> QED
    BY <2>1, <2>2
<1> QED
  BY <1>2

\* What no step but a few does to the connections and the grants.
LEMMA EndedAfterConnect ==
    ASSUME Typed, NEW c \in Calls, Connects(c)
    PROVE  /\ Ended' = Ended /\ UNCHANGED <<held, nextGrant>>
           /\ Len(conns') <= MaxConnections
           /\ DOMAIN conns \subseteq DOMAIN conns'
<1>1. conns \in Seq({"open", "closed", "lost"}) /\ Len(conns) \in Nat
  BY DEF Typed, ConnsOK
<1>2. conns' = Append(conns, "open") /\ Len(conns) < MaxConnections /\ UNCHANGED <<held, nextGrant>>
  BY DEF Connects
<1>3. /\ DOMAIN conns = 1..Len(conns) /\ DOMAIN conns' = 1..(Len(conns) + 1)
      /\ Len(conns') = Len(conns) + 1
      /\ conns'[Len(conns) + 1] = "open" /\ \A k \in 1..Len(conns) : conns'[k] = conns[k]
  BY <1>1, <1>2
<1>4. Len(conns') <= MaxConnections
  BY <1>1, <1>2, <1>3, BoundsAssumption
<1>5. ASSUME NEW k PROVE k \in Ended' <=> k \in Ended
  <2>1. k \in 1..(Len(conns) + 1) <=> k \in 1..Len(conns) \/ k = Len(conns) + 1
    BY <1>1
  <2> QED
    BY <1>3, <2>1 DEF Ended
<1>6. Ended' = Ended
  BY ONLY <1>5
<1>7. DOMAIN conns \subseteq DOMAIN conns'
  BY ONLY <1>1, <1>3
<1> QED
  BY <1>2, <1>4, <1>6, <1>7

LEMMA EndedAfterExit ==
    ASSUME Typed, Exits
    PROVE  Ended' = Ended /\ Len(conns') = Len(conns) /\ UNCHANGED <<held, nextGrant>>
<1>1. conns' = [k \in DOMAIN conns |-> IF conns[k] = "open" THEN "closed" ELSE conns[k]]
      /\ UNCHANGED <<held, nextGrant>>
  BY DEF Exits
<1>2. conns \in Seq({"open", "closed", "lost"}) /\ Len(conns) \in Nat /\ DOMAIN conns = 1..Len(conns)
  BY DEF Typed, ConnsOK
<1>3. Ended' = Ended
  BY <1>1 DEF Ended
<1> QED
  BY <1>1, <1>2, <1>3

\* A new grant, over a connection whose end the broker has not read.
LEMMA GrantStands ==
    ASSUME Typed, HoldersThere, NEW c \in Calls, BrokerGrants(c) \/ GrantedLate(c)
    PROVE  \E g \in Contract!Claim :
             /\ g.id = nextGrant /\ g.conn = task[c].conn
             /\ Standing' = Standing \cup {g} /\ g.conn \notin Ended
<1>1. /\ task[c].phase \in {"asked", "left"} /\ task[c].op = "activate"
      /\ task[c].conn \in DOMAIN conns /\ conns[task[c].conn] \in {"open", "closed"}
      /\ nextGrant <= MaxGrants
      /\ held' = With(held, nextGrant, [name |-> task[c].name, conn |-> task[c].conn])
  BY DEF BrokerGrants, GrantedLate, OnOpen, Open, Typed, TasksOK, TaskOK, Resting
<1>2. nextGrant \in GrantIds /\ nextGrant \notin DOMAIN held
  BY <1>1, Naturals_ DEF Typed, ConnsOK, HeldOK, GrantIds
<1>3. task[c].name \in Names
  BY <1>1 DEF Typed, TasksOK, TaskOK, Resting
<1>4. task[c].conn \in 1..MaxConnections /\ task[c].conn \notin Ended
  <2>1. DOMAIN conns = 1..Len(conns) /\ Len(conns) \in Nat
    BY DEF Typed, ConnsOK
  <2> QED
    BY <1>1, <2>1, BoundsAssumption DEF HoldersThere, Ended
<1>5. PICK g : g = [id |-> nextGrant, name |-> task[c].name, conn |-> task[c].conn]
  OBVIOUS
<1>6. g \in Contract!Claim /\ g.id = nextGrant /\ g.conn = task[c].conn
  BY <1>2, <1>3, <1>4, <1>5 DEF Contract!Claim
<1>7. /\ DOMAIN held' = DOMAIN held \cup {nextGrant}
      /\ held'[nextGrant].name = task[c].name /\ held'[nextGrant].conn = task[c].conn
      /\ \A i \in DOMAIN held : held'[i] = held[i]
  BY <1>1, <1>2 DEF With
<1>8. Standing' = Standing \cup {g}
  BY <1>5, <1>7 DEF Standing
<1> QED
  BY <1>4, <1>6, <1>8

LEMMA IssueStep ==
    ASSUME Typed, HoldersThere, NEW c \in Calls, BrokerGrants(c) \/ GrantedLate(c)
    PROVE  Contract!GrantsNext
<1>1. PICK g \in Contract!Claim :
             /\ g.id = nextGrant /\ g.conn = task[c].conn
             /\ Standing' = Standing \cup {g} /\ g.conn \notin Ended
  BY GrantStands
<1>2. conns' = conns /\ nextGrant' = nextGrant + 1 /\ nextGrant \in Nat \ {0}
  BY Naturals_ DEF BrokerGrants, GrantedLate, Typed, ConnsOK
<1>3. /\ 1..(nextGrant' - 1) = 1..(nextGrant - 1) \cup {nextGrant}
      /\ nextGrant \notin 1..(nextGrant - 1)
  BY <1>2
<1>4. Ended' = Ended
  BY <1>2 DEF Ended
<1>5. Contract!Issue(g)
  BY ONLY <1>1, <1>3, <1>4 DEF Contract!Issue, Standing, Ended
<1> QED
  BY <1>5 DEF Contract!GrantsNext

LEMMA ReclaimStep ==
    ASSUME Typed, NEW k \in 1..MaxConnections, BrokerReclaims(k)
    PROVE  /\ Ended' = Ended \cup {k} /\ k \notin Ended /\ Len(conns') = Len(conns)
           /\ Standing' = {g \in Standing : g.conn # k}
           /\ UNCHANGED nextGrant
<1>1. /\ k \in DOMAIN conns /\ conns[k] = "closed" /\ conns' = [conns EXCEPT ![k] = "lost"]
      /\ held' = Without(held, On(k)) /\ nextGrant' = nextGrant
  BY DEF BrokerReclaims
<1>2. conns \in Seq({"open", "closed", "lost"}) /\ DOMAIN conns = 1..Len(conns)
  BY DEF Typed, ConnsOK
<1>3. Ended' = Ended \cup {k} /\ k \notin Ended /\ Len(conns') = Len(conns)
  BY <1>1, <1>2 DEF Ended
<1>4. \A g \in Standing : g.id \in On(k) <=> g.conn = k
  BY DEF Standing, On
<1>5. Standing' = {g \in Standing : g.conn # k}
  BY <1>1, <1>4, StandingShrinks
<1> QED
  BY <1>1, <1>3, <1>5

LEMMA DeathStep ==
    ASSUME Typed, HoldersThere, BrokerDies
    PROVE  /\ Standing' = {} /\ UNCHANGED nextGrant /\ Len(conns') = Len(conns)
           /\ Ended \subseteq Ended' /\ Ended' \subseteq 1..MaxConnections
           /\ \A g \in Standing : g.conn \in Ended'
<1>1. conns' = [k \in DOMAIN conns |-> "lost"] /\ held' = EmptyMap /\ nextGrant' = nextGrant
  BY DEF BrokerDies
<1>2. /\ conns \in Seq({"open", "closed", "lost"}) /\ DOMAIN conns = 1..Len(conns)
      /\ Len(conns) \in Nat
  BY DEF Typed, ConnsOK
<1>3. Ended' = 1..Len(conns) /\ Ended \subseteq 1..Len(conns) /\ Len(conns') = Len(conns)
  BY <1>1, <1>2 DEF Ended
<1>4. 1..Len(conns) \subseteq 1..MaxConnections
  BY <1>2, BoundsAssumption DEF HoldersThere
<1>5. \A g \in Standing : g.conn \in 1..Len(conns)
  BY <1>2 DEF Standing, Typed, HeldOK, HeldGrant, NoConnection
<1>6. Standing' = {}
  BY <1>1, EmptyMapOK DEF Standing
<1> QED
  BY <1>1, <1>3, <1>4, <1>5, <1>6

LEMMA GrantsStep ==
    ASSUME Typed, HoldersThere, [Next]_vars
    PROVE  [Contract!GrantsNext]_Contract!grantsVars
<1>1. ASSUME UNCHANGED <<held, nextGrant>>, Ended' = Ended
      PROVE  UNCHANGED Contract!grantsVars
  <2>1. Standing' = Standing
    BY <1>1 DEF Standing
  <2> QED
    BY <1>1, <2>1 DEF Contract!grantsVars, Standing, Ended
<1>2. ASSUME UNCHANGED <<held, nextGrant, conns>>
      PROVE  UNCHANGED Contract!grantsVars
  <2>1. Ended' = Ended
    BY <1>2 DEF Ended
  <2> QED
    BY <1>1, <1>2, <2>1
<1>3. ASSUME NEW c \in Calls, Connects(c) PROVE UNCHANGED Contract!grantsVars
  BY <1>1, <1>3, EndedAfterConnect
<1>4. CASE Exits
  BY <1>1, <1>4, EndedAfterExit
<1>5. ASSUME NEW i \in GrantIds, held' = Without(held, {i}), UNCHANGED <<conns, nextGrant>>
      PROVE  Contract!GrantsNext
  <2>1. Standing' = {g \in Standing : g.id # i}
    BY <1>5, StandingShrinks
  <2>2. Ended' = Ended
    BY <1>5 DEF Ended
  <2>3. Contract!Return(i)
    BY ONLY <1>5, <2>1, <2>2 DEF Contract!Return, Standing, Ended
  <2> QED
    BY <2>3 DEF Contract!GrantsNext
<1>6. ASSUME NEW c \in Calls, BrokerReleases(c) PROVE Contract!GrantsNext
  <2>1. task[c].grant \in 1..(nextGrant - 1) /\ nextGrant \in 1..(MaxGrants + 1)
    BY <1>6 DEF BrokerReleases, Typed, TasksOK, TaskOK, Resting, ConnsOK
  <2>2. task[c].grant \in GrantIds
    BY <2>1, BoundsAssumption DEF GrantIds
  <2> QED
    BY <1>5, <1>6, <2>2 DEF BrokerReleases
<1>7. ASSUME NEW i \in GrantIds, ReturnedElsewhere(i) PROVE Contract!GrantsNext
  BY <1>5, <1>7 DEF ReturnedElsewhere
<1>8. ASSUME NEW n \in Names, ForcedElsewhere(n) PROVE Contract!GrantsNext
  <2> DEFINE S == {g \in DOMAIN held : held[g].name = n}
  <2>1. held' = Without(held, S) /\ UNCHANGED <<conns, nextGrant>>
    BY <1>8 DEF ForcedElsewhere
  <2>2. \A g \in Standing : g.id \in S <=> g.name = n
    BY DEF Standing
  <2> HIDE DEF S
  <2>3. Standing' = {g \in Standing : g.name # n}
    BY <2>1, <2>2, StandingShrinks
  <2>4. Ended' = Ended
    BY <2>1 DEF Ended
  <2>5. Contract!Clear(n)
    BY ONLY <2>1, <2>3, <2>4 DEF Contract!Clear, Standing, Ended
  <2> QED
    BY <2>5 DEF Contract!GrantsNext
<1>9. ASSUME NEW k \in 1..MaxConnections, BrokerReclaims(k) PROVE Contract!GrantsNext
  <2>1. /\ Ended' = Ended \cup {k} /\ k \notin Ended
        /\ Standing' = {g \in Standing : g.conn # k} /\ UNCHANGED nextGrant
    BY <1>9, ReclaimStep
  <2>2. Contract!Finish(k)
    BY ONLY <2>1 DEF Contract!Finish, Standing, Ended
  <2> QED
    BY <2>2 DEF Contract!GrantsNext
<1>10. CASE BrokerDies
  <2>1. /\ Standing' = {} /\ UNCHANGED nextGrant
        /\ Ended \subseteq Ended' /\ Ended' \subseteq 1..MaxConnections
        /\ \A g \in Standing : g.conn \in Ended'
    BY <1>10, DeathStep
  <2>2. Contract!Die
    BY ONLY <2>1 DEF Contract!Die, Standing, Ended
  <2> QED
    BY <2>2 DEF Contract!GrantsNext
<1> QED
  BY <1>2, <1>3, <1>4, <1>6, <1>7, <1>8, <1>9, <1>10, IssueStep
     DEF Next, vars, ListServers, Resumes, ConnectFails, Rejected, BrokerReplies,
         HandshakeSucceeds, HandshakeFails, NoticeSent, NoticeFails, ClientClosed,
         LeftUnanswered, Activate, Deactivate, ClientLeaves

LEMMA HoldersStep ==
    ASSUME Typed, HoldersThere, [Next]_vars
    PROVE  HoldersThere'
<1>0. HoldersThere <=> Len(conns) <= MaxConnections /\ \A g \in Standing : g.conn \notin Ended
  BY DEF HoldersThere
<1>1. HoldersThere' <=> Len(conns') <= MaxConnections /\ \A g \in Standing' : g.conn \notin Ended'
  BY DEF HoldersThere
<1> HIDE DEF HoldersThere
<1>2. ASSUME Ended' = Ended, Standing' \subseteq Standing, Len(conns') <= MaxConnections
      PROVE  HoldersThere'
  BY <1>0, <1>1, <1>2
<1>3. ASSUME UNCHANGED held PROVE Standing' = Standing
  BY <1>3 DEF Standing
<1>4. ASSUME UNCHANGED conns PROVE Ended' = Ended /\ Len(conns') <= MaxConnections
  BY <1>0, <1>4 DEF Ended
<1>5. ASSUME NEW S, held' = Without(held, S) PROVE Standing' \subseteq Standing
  BY <1>5, StandingShrinks
<1>6. ASSUME NEW c \in Calls, Connects(c) PROVE HoldersThere'
  BY <1>2, <1>3, <1>6, EndedAfterConnect
<1>7. CASE Exits
  BY <1>0, <1>2, <1>3, <1>7, EndedAfterExit
<1>8. ASSUME NEW c \in Calls, BrokerGrants(c) \/ GrantedLate(c) PROVE HoldersThere'
  <2>1. Ended' = Ended /\ Len(conns') <= MaxConnections
    BY <1>4, <1>8 DEF BrokerGrants, GrantedLate
  <2>2. \A g \in Standing' : g \in Standing \/ g.conn \notin Ended
    BY <1>8, GrantStands
  <2> QED
    BY <1>0, <1>1, <2>1, <2>2
<1>9. ASSUME NEW k \in 1..MaxConnections, BrokerReclaims(k) PROVE HoldersThere'
  BY <1>0, <1>1, <1>9, ReclaimStep
<1>10. CASE BrokerDies
  BY <1>0, <1>1, <1>10, DeathStep
<1> QED
  BY <1>2, <1>3, <1>4, <1>5, <1>6, <1>7, <1>8, <1>9, <1>10
     DEF Next, vars, ListServers, Resumes, ConnectFails, Rejected, BrokerReplies, BrokerReleases,
         HandshakeSucceeds, HandshakeFails, NoticeSent, NoticeFails, ClientClosed,
         LeftUnanswered, Activate, Deactivate, ClientLeaves, ForcedElsewhere, ReturnedElsewhere

LEMMA HoldersAlwaysThere == Spec => [](Typed /\ HoldersThere)
<1>1. Init => HoldersThere
  BY BoundsAssumption, EmptyMapOK DEF Init, HoldersThere, Standing
<1> QED
  BY <1>1, InitTyped, StepTyped, HoldersStep, PTL DEF Spec

\* The gateway takes nothing for granted that the broker does not keep: all that happens
\* to its grants, replies, releases, disconnections, deaths and what other clients do, is
\* what Grants allows (broker.ts:77-81).
THEOREM GrantsKept == Spec => KeepsGrants
<1>1. Init => Contract!GrantsInit
  <2>1. Init => Standing = {} /\ Ended = {} /\ 1..(nextGrant - 1) = {}
    BY EmptyMapOK DEF Init, Standing, Ended
  <2> QED
    BY <2>1 DEF Contract!GrantsInit, Standing, Ended
<1>2. Typed /\ HoldersThere /\ [Next]_vars => [Contract!GrantsNext]_Contract!grantsVars
  BY GrantsStep
<1> QED
  BY <1>1, <1>2, HoldersAlwaysThere, PTL DEF Spec, KeepsGrants, Contract!GrantsSpec

-----------------------------------------------------------------------------
(* The end of the gateway                                                  *)

\* A gateway that has ended makes no call and has no connection open; the broker may
\* have a request of its left.
Quiet == exited => /\ \A c \in Calls : task[c].phase \in {"idle", "left"}
                   /\ \A k \in DOMAIN conns : conns[k] # "open"

LEMMA QuietStep ==
    ASSUME Typed, Quiet, [Next]_vars
    PROVE  Quiet'
<1>1. conns \in Seq({"open", "closed", "lost"})
  BY DEF Typed, ConnsOK
<1>2. CASE ~exited /\ UNCHANGED exited
  BY <1>2 DEF Quiet
<1>3. CASE Exits
  <2>1. \A c \in Calls : task'[c].phase \in {"idle", "left"}
    BY <1>3 DEF Exits, AfterExit, InFlight, Resting, Typed, TasksOK, TaskOK, Working
  <2>2. \A k \in DOMAIN conns' : conns'[k] # "open"
    BY <1>3 DEF Exits
  <2> QED
    BY <2>1, <2>2 DEF Quiet
<1>4. CASE UNCHANGED <<task, conns, exited>>
  BY <1>4 DEF Quiet
<1>5. ASSUME NEW k \in 1..MaxConnections, BrokerReclaims(k) PROVE Quiet'
  BY <1>1, <1>5 DEF BrokerReclaims, Quiet
<1>6. CASE BrokerDies
  BY <1>6 DEF BrokerDies, Quiet
<1>7. ASSUME exited, NEW c \in Calls PROVE task[c].phase \in {"idle", "left"}
  BY <1>7 DEF Quiet
<1>8. ASSUME NEW c \in Calls,
             \/ ListServers(c) \/ Resumes(c)
             \/ \E n \in Names : Activate(c, n) \/ Deactivate(c, n),
             ~GrantedLate(c), ~LeftUnanswered(c)
      PROVE  ~exited /\ UNCHANGED exited
  BY <1>7, <1>8
     DEF ListServers, Resumes, Connects, ConnectFails, Rejected, BrokerReplies, BrokerGrants,
         HandshakeSucceeds, HandshakeFails, NoticeSent, NoticeFails, ClientClosed,
         BrokerReleases, Activate, Deactivate
<1>9. ASSUME NEW c \in Calls, GrantedLate(c) \/ LeftUnanswered(c)
      PROVE  Quiet'
  <2>1. Becomes(c, Resting) /\ UNCHANGED <<conns, exited>>
    BY <1>9 DEF GrantedLate, LeftUnanswered, Answered
  <2>2. \A d \in Calls : task'[d].phase = "idle" \/ task'[d] = task[d]
    BY <2>1, TaskOf DEF Resting
  <2> QED
    BY <2>1, <2>2 DEF Quiet
<1> QED
  BY <1>2, <1>3, <1>4, <1>5, <1>6, <1>8, <1>9
     DEF Next, vars, ClientLeaves, ForcedElsewhere, ReturnedElsewhere

\* Once the gateway has ended, only the broker is left to act, and for every grant that
\* is still held, one it issued too late included, it has the end of a connection to
\* read (gateway.ts:238-246, index.ts:17-22).
THEOREM ReclaimCorrect == Spec => []ReclaimPending
<1>1. Init => Quiet
  BY DEF Init, Quiet
<1>2. Typed /\ Quiet /\ [Next]_vars => Quiet'
  BY QuietStep
<1>3. Typed /\ HoldersThere /\ Quiet => ReclaimPending
  <2> SUFFICES ASSUME Typed, HoldersThere, Quiet, exited, NEW g \in DOMAIN held
               PROVE  held[g].conn \in DOMAIN conns /\ conns[held[g].conn] = "closed"
    BY DEF ReclaimPending
  <2>1. /\ conns \in Seq({"open", "closed", "lost"})
        /\ DOMAIN conns = 1..Len(conns) /\ Len(conns) \in Nat
    BY DEF Typed, ConnsOK
  <2>2. held[g].conn \in Nat \ {0} /\ held[g].conn <= Len(conns)
    BY DEF Typed, HeldOK, HeldGrant, NoConnection
  <2>3. held[g].conn \in DOMAIN conns
    BY <2>1, <2>2
  <2>4. PICK h : h = [id |-> g, name |-> held[g].name, conn |-> held[g].conn]
    OBVIOUS
  <2>5. held[g].conn \notin Ended
    BY <2>4 DEF HoldersThere, Standing
  <2> QED
    BY <2>1, <2>3, <2>5 DEF Quiet, Ended
<1> QED
  BY <1>1, <1>2, <1>3, HoldersAlwaysThere, PTL DEF Spec
=============================================================================

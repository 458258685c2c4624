------------------------------ MODULE Gateway ------------------------------
(***************************************************************************)
(* The gateway: packages/gateway/src/gateway.ts, with the connection to    *)
(* the broker it holds (packages/locator-ts/src/broker.ts).                *)
(*                                                                         *)
(* The gateway runs on one thread, but every handler is suspended at each  *)
(* await and the AI client may have several calls under way, so a call is  *)
(* a small state machine and any two of them interleave.  Between two      *)
(* awaits a handler is one action.                                         *)
(*                                                                         *)
(* The broker is seen from this side only: the grants it holds for the     *)
(* connections of this gateway.  What it does with them is in Broker.      *)
(* Calls that are answered at once and change nothing (an activation of an *)
(* active server, a deactivation of an inactive one, an unknown tool) and  *)
(* forwarded tool calls, which change nothing either, are left out, and so *)
(* is the notice at the end of a deactivation: nothing hangs on its fate.  *)
(***************************************************************************)
EXTENDS Naturals, FiniteSets, Sequences, Functions

CONSTANTS
    Calls,          \* tool calls that can be under way at once
    Names,          \* server names
    Aliases,        \* what may stand before the separator of a tool name
    Qualified,      \* Qualified[n]: last label of n, then with ever more labels
    Numbered,       \* Numbered[n]: 2, 3, ... -> the last label with that number
    MaxGrants,      \* bound: grants the broker issues
    MaxConnections  \* bound: connections to a broker

Numbers == 2..(Cardinality(Names) + 2)

ASSUME NamesAssumption == IsFiniteSet(Names) /\ "" \notin Names
ASSUME QualifiedAssumption ==
    /\ Qualified \in [Names -> Seq(Aliases)]
    /\ \A n \in Names : Qualified[n] # <<>>
ASSUME NumberedAssumption ==
    /\ Numbered \in [Names -> [Numbers -> Aliases]]
    /\ \A n \in Names : IsInjective(Numbered[n])
ASSUME BoundsAssumption == MaxGrants \in Nat /\ MaxConnections \in Nat

VARIABLES
    task,       \* the handler of each call
    active,     \* Gateway.#active: name -> grant and alias
    broker,     \* Gateway.#broker: its connection, or NoConnection
    conns,      \* every connection made so far, by number
    held,       \* grants the broker holds for these connections
    nextGrant,  \* grant ids are never used twice
    exited,     \* the gateway process has ended
    attached,   \* the AI client is at the other end of the gateway
    polite      \* the AI client waits for a call about a server before it
                \* makes the next about the same server

vars == <<task, active, broker, conns, held, nextGrant, exited, attached, polite>>

-----------------------------------------------------------------------------
(* State                                                                   *)

NoConnection == 0
NoGrant == 0
NoName == ""
GrantIds == 1..MaxGrants

\* A handler from its first await to its reply.
Working == [phase : {"connect", "asked", "handshake", "notice", "closing", "release",
                     "left"},
            op    : {"activate", "deactivate", "list"},
            name  : Names \cup {NoName},
            conn  : Nat,     \* the broker connection it got hold of
            grant : Nat]
Resting == [phase |-> "idle"]

ActiveServer == [grant : GrantIds, alias : Aliases]
HeldGrant == [name : Names, conn : Nat \ {NoConnection}]

With(f, x, v) == [y \in DOMAIN f \cup {x} |-> IF y = x THEN v ELSE f[y]]
Without(f, S) == [y \in DOMAIN f \ S |-> f[y]]
EmptyMap == [i \in {} |-> i]

Becomes(c, t) == task' = [task EXCEPT ![c] = t]
Answered(c) == Becomes(c, Resting)
Idle(c) == task[c].phase = "idle"
Open(k) == k \in DOMAIN conns /\ conns[k] = "open"
OnOpen(c) == Open(task[c].conn)
OwnGrant(c) == IF Idle(c) THEN NoGrant ELSE task[c].grant

\* Another call about the server is under way.
Engaged(n) == \E c \in Calls : ~Idle(c) /\ task[c].name = n

-----------------------------------------------------------------------------
(* Aliases                                                                 *)

\* aliasFor: the shortest qualification that is free, or the first free number.
Least(S) == CHOOSE i \in S : \A j \in S : i <= j
FreeQualified(n, taken) == {i \in DOMAIN Qualified[n] : Qualified[n][i] \notin taken}
FreeNumbers(n, taken) == {k \in Numbers : Numbered[n][k] \notin taken}

AliasFor(n, taken) ==
    IF FreeQualified(n, taken) # {}
    THEN Qualified[n][Least(FreeQualified(n, taken))]
    ELSE Numbered[n][Least(FreeNumbers(n, taken))]

TakenAsNames == DOMAIN active
Taken == {active[n].alias : n \in DOMAIN active}

-----------------------------------------------------------------------------
(* Getting hold of the broker                                              *)

\* #brokerClient: the connection there is, lost or not, or a new one.
GoesOn(op, n, k, g) ==
    [phase |-> IF k = NoConnection THEN "connect"
               ELSE IF op = "deactivate" THEN "release" ELSE "asked",
     op |-> op, name |-> n, conn |-> k, grant |-> g]

\* Whoever finds no connection makes one; of two at once the later one stays.
Connects(c) ==
    /\ task[c].phase = "connect"
    /\ Len(conns) < MaxConnections
    /\ conns' = Append(conns, "open")
    /\ broker' = Len(conns) + 1
    /\ Becomes(c, GoesOn(task[c].op, task[c].name, Len(conns) + 1, task[c].grant))
    /\ UNCHANGED <<active, held, nextGrant, exited, attached, polite>>

ConnectFails(c) ==
    /\ task[c].phase = "connect"
    /\ Answered(c)
    /\ UNCHANGED <<active, broker, conns, held, nextGrant, exited, attached, polite>>

\* A request on a connection that is lost, before or after it was sent, is
\* rejected: #failAll, and call when the socket is closed already.
RejectedIfUnsent(c) ==
    /\ task[c].phase \in {"asked", "release"} /\ ~OnOpen(c)
    /\ task[c].phase = "release"
    /\ Answered(c)
    /\ UNCHANGED <<active, broker, conns, held, nextGrant, exited, attached, polite>>
Rejected(c) ==
    /\ task[c].phase \in {"asked", "release"} /\ ~OnOpen(c)
    /\ Answered(c)
    /\ UNCHANGED <<active, broker, conns, held, nextGrant, exited, attached, polite>>

-----------------------------------------------------------------------------
(* The tools                                                               *)

ListServers(c) ==
    /\ attached /\ ~exited /\ Idle(c)
    /\ Becomes(c, GoesOn("list", NoName, broker, NoGrant))
    /\ UNCHANGED <<active, broker, conns, held, nextGrant, exited, attached, polite>>

\* The check for an entry is made here and not again.
Activate(c, n) ==
    /\ attached /\ ~exited /\ Idle(c)
    /\ polite => ~Engaged(n)
    /\ n \notin DOMAIN active
    /\ Becomes(c, GoesOn("activate", n, broker, NoGrant))
    /\ UNCHANGED <<active, broker, conns, held, nextGrant, exited, attached, polite>>

\* The broker answers a list, or refuses an activation.
BrokerReplies(c) ==
    /\ task[c].phase = "asked" /\ OnOpen(c)
    /\ Answered(c)
    /\ UNCHANGED <<active, broker, conns, held, nextGrant, exited, attached, polite>>

BrokerGrantsAgain(c) ==
    /\ task[c].phase = "asked" /\ OnOpen(c)
    /\ task[c].op = "activate"
    /\ nextGrant <= MaxGrants
    /\ held' = With(held, nextGrant, [name |-> task[c].name, conn |-> task[c].conn])
    /\ Becomes(c, [phase |-> "handshake", op |-> "activate", name |-> task[c].name,
                   conn |-> task[c].conn, grant |-> nextGrant])
    /\ UNCHANGED <<active, broker, conns, nextGrant, exited, attached, polite>>
BrokerGrants(c) ==
    /\ task[c].phase = "asked" /\ OnOpen(c)
    /\ task[c].op = "activate"
    /\ nextGrant <= MaxGrants
    /\ held' = With(held, nextGrant, [name |-> task[c].name, conn |-> task[c].conn])
    /\ nextGrant' = nextGrant + 1
    /\ Becomes(c, [phase |-> "handshake", op |-> "activate", name |-> task[c].name,
                   conn |-> task[c].conn, grant |-> nextGrant])
    /\ UNCHANGED <<active, broker, conns, exited, attached, polite>>

\* The server has listed its tools: alias and entry, without an await between.
\* Then the AI client is told that the list of tools has changed.
HandshakeSucceeds(c) ==
    /\ task[c].phase = "handshake"
    /\ active' = With(active, task[c].name,
                      [grant |-> task[c].grant, alias |-> AliasFor(task[c].name, Taken)])
    /\ Becomes(c, [task[c] EXCEPT !.phase = "notice"])
    /\ UNCHANGED <<broker, conns, held, nextGrant, exited, attached, polite>>

NoticeSent(c) ==
    /\ task[c].phase = "notice" /\ attached
    /\ Answered(c)
    /\ UNCHANGED <<active, broker, conns, held, nextGrant, exited, attached, polite>>

\* There is no client to tell.  The handler of a failed handshake catches this as
\* well: the grant is given back, and the entry stays.
NoticeFails(c) ==
    /\ task[c].phase = "notice" /\ ~attached
    /\ Becomes(c, [task[c] EXCEPT !.phase = "release"])
    /\ UNCHANGED <<active, broker, conns, held, nextGrant, exited, attached, polite>>

\* The server did not speak MCP, or not in time: the grant is given back.
HandshakeFailsKeepingGrant(c) ==
    /\ task[c].phase = "handshake"
    /\ Answered(c)
    /\ UNCHANGED <<active, broker, conns, held, nextGrant, exited, attached, polite>>
HandshakeFails(c) ==
    /\ task[c].phase = "handshake"
    /\ Becomes(c, [task[c] EXCEPT !.phase = "release"])
    /\ UNCHANGED <<active, broker, conns, held, nextGrant, exited, attached, polite>>

\* The entry goes first; then the client is closed, and the broker asked.
DeactivateKeepingEntry(c, n) ==
    /\ attached /\ ~exited /\ Idle(c)
    /\ polite => ~Engaged(n)
    /\ n \in DOMAIN active
    /\ Becomes(c, [phase |-> "closing", op |-> "deactivate", name |-> n,
                   conn |-> NoConnection, grant |-> active[n].grant])
    /\ UNCHANGED <<active, broker, conns, held, nextGrant, exited, attached, polite>>
Deactivate(c, n) ==
    /\ attached /\ ~exited /\ Idle(c)
    /\ polite => ~Engaged(n)
    /\ n \in DOMAIN active
    /\ active' = Without(active, {n})
    /\ Becomes(c, [phase |-> "closing", op |-> "deactivate", name |-> n,
                   conn |-> NoConnection, grant |-> active[n].grant])
    /\ UNCHANGED <<broker, conns, held, nextGrant, exited, attached, polite>>

ClientClosed(c) ==
    /\ task[c].phase = "closing"
    /\ Becomes(c, GoesOn("deactivate", task[c].name, broker, task[c].grant))
    /\ UNCHANGED <<active, broker, conns, held, nextGrant, exited, attached, polite>>

\* A grant may be released over any connection; one that is gone is an error
\* nobody looks at.
BrokerReleases(c) ==
    /\ task[c].phase = "release" /\ OnOpen(c)
    /\ held' = Without(held, {task[c].grant})
    /\ Answered(c)
    /\ UNCHANGED <<active, broker, conns, nextGrant, exited, attached, polite>>

-----------------------------------------------------------------------------
(* The world around                                                        *)

\* The AI client closes its end.  Nothing in the gateway waits for that: it ends on a
\* signal only.
ClientLeaves ==
    /\ attached
    /\ attached' = FALSE
    /\ UNCHANGED <<task, active, broker, conns, held, nextGrant, exited, polite>>

\* An activation the broker has yet to answer, or even to read.
InFlight(c) == task[c].phase = "asked" /\ task[c].op = "activate" /\ OnOpen(c)
AfterExit == [c \in Calls |->
                 IF InFlight(c) THEN [task[c] EXCEPT !.phase = "left"] ELSE Resting]

\* shutdown on a signal, or a crash: the end of the process closes every
\* socket, those that another connection has replaced included.  The broker still
\* has the requests that were made.
ExitsClosingCurrent ==
    /\ ~exited
    /\ exited' = TRUE
    /\ active' = EmptyMap
    /\ broker' = NoConnection
    /\ conns' = [k \in DOMAIN conns |->
                    IF conns[k] = "open" /\ k = broker THEN "closed" ELSE conns[k]]
    /\ task' = AfterExit
    /\ attached' = FALSE
    /\ UNCHANGED <<held, nextGrant, polite>>
Exits ==
    /\ ~exited
    /\ exited' = TRUE
    /\ active' = EmptyMap
    /\ broker' = NoConnection
    /\ conns' = [k \in DOMAIN conns |->
                    IF conns[k] = "open" THEN "closed" ELSE conns[k]]
    /\ task' = AfterExit
    /\ attached' = FALSE
    /\ UNCHANGED <<held, nextGrant, polite>>

\* It grants what nobody waits for any more, or does not get to it.
GrantedLate(c) ==
    /\ task[c].phase = "left"
    /\ task[c].conn \in DOMAIN conns /\ conns[task[c].conn] = "closed"
    /\ nextGrant <= MaxGrants
    /\ held' = With(held, nextGrant, [name |-> task[c].name, conn |-> task[c].conn])
    /\ nextGrant' = nextGrant + 1
    /\ Answered(c)
    /\ UNCHANGED <<active, broker, conns, exited, attached, polite>>

LeftUnanswered(c) ==
    /\ task[c].phase = "left"
    /\ Answered(c)
    /\ UNCHANGED <<active, broker, conns, held, nextGrant, exited, attached, polite>>

\* The broker reads the end of a connection, behind every request that was made on
\* it, and gives back what it holds.
On(k) == {g \in DOMAIN held : held[g].conn = k}
BrokerReclaims(k) ==
    /\ k \in DOMAIN conns /\ conns[k] = "closed"
    /\ \A c \in Calls : task[c].phase = "left" => task[c].conn # k
    /\ conns' = [conns EXCEPT ![k] = "lost"]
    /\ held' = Without(held, On(k))
    /\ UNCHANGED <<task, active, broker, nextGrant, exited, attached, polite>>

\* The broker process ends, and with it every connection and every grant.
BrokerDies ==
    /\ \E k \in DOMAIN conns : Open(k)
    /\ conns' = [k \in DOMAIN conns |-> "lost"]
    /\ held' = EmptyMap
    /\ UNCHANGED <<task, active, broker, nextGrant, exited, attached, polite>>

\* Another client deactivates a server by force.
ForcedElsewhere(n) ==
    /\ \E g \in DOMAIN held : held[g].name = n
    /\ held' = Without(held, {g \in DOMAIN held : held[g].name = n})
    /\ UNCHANGED <<task, active, broker, conns, nextGrant, exited, attached, polite>>

\* Another client gives back a grant that is not its own: the broker does not ask.
ReturnedElsewhere(g) ==
    /\ g \in DOMAIN held
    /\ held' = Without(held, {g})
    /\ UNCHANGED <<task, active, broker, conns, nextGrant, exited, attached, polite>>

-----------------------------------------------------------------------------
(* Specification                                                           *)

Init ==
    /\ task = [c \in Calls |-> Resting]
    /\ active = EmptyMap
    /\ broker = NoConnection
    /\ conns = <<>>
    /\ held = EmptyMap
    /\ nextGrant = 1
    /\ exited = FALSE
    /\ attached = TRUE
    /\ polite \in BOOLEAN

\* What a handler that is suspended waits for, or the broker where it has gone.
Resumes(c) ==
    \/ Connects(c) \/ ConnectFails(c)
    \/ Rejected(c)
    \/ BrokerReplies(c) \/ BrokerGrants(c)
    \/ HandshakeSucceeds(c) \/ HandshakeFails(c)
    \/ NoticeSent(c) \/ NoticeFails(c)
    \/ ClientClosed(c)
    \/ BrokerReleases(c)
    \/ GrantedLate(c) \/ LeftUnanswered(c)

Next ==
    \/ \E c \in Calls :
         \/ ListServers(c) \/ Resumes(c)
         \/ \E n \in Names : Activate(c, n) \/ Deactivate(c, n)
    \/ ClientLeaves
    \/ Exits
    \/ \E k \in 1..MaxConnections : BrokerReclaims(k)
    \/ BrokerDies
    \/ \E n \in Names : ForcedElsewhere(n)
    \/ \E g \in GrantIds : ReturnedElsewhere(g)

Spec == Init /\ [][Next]_vars

\* Connecting is a counted number of attempts, the handshake has a time limit,
\* the broker answers every request (EveryRequestAnswered of Broker), and reads
\* the end of a connection.
FairSpec ==
    /\ Spec
    /\ \A c \in Calls : WF_vars(Resumes(c))
    /\ \A k \in 1..MaxConnections : WF_vars(BrokerReclaims(k))
-----------------------------------------------------------------------------
(* Properties                                                              *)

\* Every variable stays within its type, and grant ids are fresh
\* (gateway.ts:78-81, broker.ts:82-87).
TypeOK ==
    /\ task \in [Calls -> {Resting} \cup Working]
    /\ active \in [DOMAIN active -> ActiveServer]
    /\ DOMAIN active \subseteq Names
    /\ broker \in {NoConnection} \cup DOMAIN conns
    /\ conns \in Seq({"open", "closed", "lost"})
    /\ held \in [DOMAIN held -> HeldGrant]
    /\ DOMAIN held \subseteq 1..(nextGrant - 1)
    /\ nextGrant \in 1..(MaxGrants + 1)
    /\ exited \in BOOLEAN /\ attached \in BOOLEAN /\ polite \in BOOLEAN

\* No two active servers go by the same alias, so a tool name means one server,
\* however activations and deactivations interleave (gateway.ts:184-185, 220).
AliasesUnique ==
    \A m, n \in DOMAIN active : active[m].alias = active[n].alias => m = n

\* A grant the gateway is about to give back is not one a server it offers depends
\* on: not for a deactivation, ever (gateway.ts:208-210), nor for an activation that
\* failed (195-199) while there is an AI client to offer anything to.  Once the client
\* has left, the notice at 188 fails with the entry made at 185 in place.
ReleasesOnlyForgotten ==
    \A c \in Calls, n \in DOMAIN active :
        OwnGrant(c) = active[n].grant =>
            \/ task[c].phase \notin {"closing", "release"}
            \/ ~attached /\ task[c].op = "activate"

\* "Never leave a grant dangling": what the broker holds for an open connection
\* belongs to an active server or to a call under way (gateway.ts:180-200).
Claimed(g) ==
    \/ \E n \in DOMAIN active : active[n].grant = g
    \/ \E c \in Calls : OwnGrant(c) = g
NothingDangles == \A g \in DOMAIN held : Open(held[g].conn) => Claimed(g)

\* The same, as long as no two calls about one server overlap.
NothingDanglesIfPolite == polite => NothingDangles

\* What this gateway takes the broker to do with its grants is what Broker is shown to
\* do: Grants, over the connections of this gateway (broker.ts:82-110).
Standing == {[id |-> g, name |-> held[g].name, conn |-> held[g].conn] : g \in DOMAIN held}
Ended == {k \in DOMAIN conns : conns[k] = "lost"}
Contract == INSTANCE Grants WITH
    Holders <- 1..MaxConnections,
    Ids <- GrantIds,
    claims <- Standing,
    over <- Ended,
    issued <- 1..(nextGrant - 1)
KeepsGrants == Contract!GrantsSpec

\* "Fail those calls rather than hang them forever": every call is answered,
\* whatever becomes of the broker (broker.ts:146-149, 167-176).
EveryCallAnswered == \A c \in Calls : ~Idle(c) ~> Idle(c)

\* What is held when the gateway has ended is held by connections that have ended too
\* and whose end the broker has yet to read (gateway.ts:238-246, index.ts:17-22).
ReclaimPending ==
    exited => \A g \in DOMAIN held :
        held[g].conn \in DOMAIN conns /\ conns[held[g].conn] = "closed"

\* "The broker would reclaim them on disconnect too": once the gateway has
\* ended, none of its grants is left (gateway.ts:238-246, index.ts:17-22).
NothingHeldAfterExit == exited ~> [](held = EmptyMap)
=============================================================================

------------------------------- MODULE Grants -------------------------------
(***************************************************************************)
(* What clients may expect of their grants (broker/crates/broker/src/      *)
(* server.rs:129-309, 358-365): a grant is new when it is issued, belongs  *)
(* to the connection that asked, and then goes for one of four reasons:    *)
(* somebody gives it back by its id, its server is deactivated by force,   *)
(* its connection is over, or the broker dies.  Broker keeps this for its  *)
(* connections; of all that Broker does, it is what Gateway relies on.     *)
(***************************************************************************)

CONSTANTS Names, Holders, Ids

VARIABLES
    claims,     \* the grants that stand: server and connection of each id
    over,       \* connections whose end the broker has seen
    issued      \* the ids handed out or used up so far

grantsVars == <<claims, over, issued>>

Claim == [id : Ids, name : Names, conn : Holders]

GrantsInit == claims = {} /\ over = {} /\ issued = {}

Issue(g) ==
    /\ g.id \notin issued /\ g.conn \notin over
    /\ claims' = claims \cup {g}
    /\ issued' = issued \cup {g.id}
    /\ UNCHANGED over

\* A failed activation uses up an id.
Waste(i) ==
    /\ i \notin issued
    /\ issued' = issued \cup {i}
    /\ UNCHANGED <<claims, over>>

\* Any client may give back any grant, and clear a server of all its grants.
Return(i) ==
    /\ claims' = {g \in claims : g.id # i}
    /\ UNCHANGED <<over, issued>>
Clear(n) ==
    /\ claims' = {g \in claims : g.name # n}
    /\ UNCHANGED <<over, issued>>

\* A connection takes with it what it holds, and nothing else.
Finish(c) ==
    /\ c \notin over
    /\ over' = over \cup {c}
    /\ claims' = {g \in claims : g.conn # c}
    /\ UNCHANGED issued

\* No connection that holds anything survives the broker.
Die ==
    /\ over \subseteq over' /\ over' \subseteq Holders
    /\ \A g \in claims : g.conn \in over'
    /\ claims' = {}
    /\ UNCHANGED issued

GrantsNext ==
    \/ \E g \in Claim : Issue(g)
    \/ \E i \in Ids : Waste(i) \/ Return(i)
    \/ \E n \in Names : Clear(n)
    \/ \E c \in Holders : Finish(c)
    \/ Die

GrantsSpec == GrantsInit /\ [][GrantsNext]_grantsVars
=============================================================================

------------------------------ MODULE Lifetime ------------------------------
(***************************************************************************)
(* What the engine promises of every server (broker/crates/broker/src/     *)
(* activation.rs:1-12, spec/002 section 4): a server is up while anybody   *)
(* claims it, claims are taken one at a time under ids that never repeat,  *)
(* and a server only goes down when the last claim on it is gone.          *)
(***************************************************************************)
EXTENDS Naturals

CONSTANTS Names, Ids

VARIABLES
    claims,     \* claims[n]: the ids of the grants on server n
    up,         \* up[n]: the broker keeps a process for server n
    issued      \* the ids handed out or used up so far

lifetimeVars == <<claims, up, issued>>

LifetimeInit ==
    /\ claims = [n \in Names |-> {}]
    /\ up = [n \in Names |-> FALSE]
    /\ issued = {}

\* A claim brings the server up.
Claim(n, i) ==
    /\ i \in Ids \ issued
    /\ issued' = issued \cup {i}
    /\ claims' = [claims EXCEPT ![n] = @ \cup {i}]
    /\ up' = [up EXCEPT ![n] = TRUE]

\* A failed activation uses up an id.
Waste(i) ==
    /\ i \in Ids \ issued
    /\ issued' = issued \cup {i}
    /\ UNCHANGED <<claims, up>>

\* Claims go away, and servers nobody claims any more may go down with them or
\* later; no server comes up.
Drop ==
    /\ claims' \in [Names -> SUBSET Ids]
    /\ up' \in [Names -> BOOLEAN]
    /\ \A n \in Names :
         /\ claims'[n] \subseteq claims[n]
         /\ up'[n] => up[n]
         /\ up[n] /\ ~up'[n] => claims'[n] = {}
    /\ \/ UNCHANGED issued
       \/ \E i \in Ids \ issued : issued' = issued \cup {i}

LifetimeNext ==
    \/ \E n \in Names, i \in Ids : Claim(n, i)
    \/ \E i \in Ids : Waste(i)
    \/ Drop

LifetimeSpec == LifetimeInit /\ [][LifetimeNext]_lifetimeVars

\* A claimed server is up.
ClaimedIsUp == \A n \in Names : claims[n] # {} => up[n]
=============================================================================

------------------------------ MODULE MCBroker ------------------------------
(***************************************************************************)
(* Instances of Broker for TLC.                                            *)
(***************************************************************************)
EXTENDS Broker, TLC

CONSTANTS hStdio, hExe, hBare

\* hBare stands for a card without a launch stanza.
LaunchTable == (hStdio :> "stdio") @@ (hExe :> "executable") @@ (hBare :> "none")
MCLaunchOf == [h \in Hashes |-> LaunchTable[h]]

Interchangeable == Permutations(Names) \cup Permutations(Conns)
=============================================================================

------------------------------ MODULE MCEngine ------------------------------
(***************************************************************************)
(* Instances of Engine for TLC.                                            *)
(***************************************************************************)
EXTENDS Engine, TLC

CONSTANTS hStdio, hExe, hBroken

\* hBroken stands for a card with an executable launch and no endpoint.
LaunchTable == (hStdio :> "stdio") @@ (hExe :> "executable")
               @@ (hBroken :> "noEndpoint")
MCLaunchOf == [h \in Hashes |-> LaunchTable[h]]

Interchangeable == Permutations(Names) \cup Permutations(Conns)
=============================================================================

--------------------------- MODULE MCConsentStore ---------------------------
(***************************************************************************)
(* Instances of ConsentStore for TLC.                                      *)
(***************************************************************************)
EXTENDS ConsentStore, TLC

World(serial, ticks, fail, bound) ==
    [serial |-> serial, ticks |-> ticks, fail |-> fail, ops |-> bound]

\* Everything to be relied on, and nothing.
BestAndWorst == {World(TRUE, TRUE, FALSE, 4), World(FALSE, FALSE, TRUE, 3)}
WritersOverlap == {World(FALSE, TRUE, FALSE, 3)}
WritesFail == {World(TRUE, TRUE, TRUE, 3)}

Interchangeable == Permutations(Names) \cup Permutations(Hashes)
=============================================================================

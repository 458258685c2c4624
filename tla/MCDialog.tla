------------------------------ MODULE MCDialog ------------------------------
(***************************************************************************)
(* Instances of Dialog for TLC.                                            *)
(***************************************************************************)
EXTENDS Dialog, TLC

CONSTANTS r1, r2

\* Two cards of one server, one of a program and one of an endpoint, whose texts
\* look like flags.
Notes == [name |-> "notes", title |-> "--stale", tier |-> "user", path |-> "notes.card",
          hash |-> "h1", summary |-> None, launch |-> "notes --serve", address |-> None,
          signer |-> "--hash"]
Swapped == [name |-> "notes", title |-> "", tier |-> "system", path |-> "--name",
            hash |-> "h2", summary |-> "--previous", launch |-> None,
            address |-> "--command", signer |-> "unsigned"]
MCCards == {Notes, Swapped}
=============================================================================

----------------------------- MODULE MCGateway -----------------------------
(***************************************************************************)
(* Instances of Gateway for TLC.                                           *)
(***************************************************************************)
EXTENDS Gateway, TLC

\* Three servers whose last labels agree; the third runs out of labels before
\* the others do.
ThreeNames == {"com.acme.notes", "org.acme.notes", "acme.notes"}
ThreeQualified ==
    ("com.acme.notes" :> <<"notes", "acme_notes", "com_acme_notes">>)
    @@ ("org.acme.notes" :> <<"notes", "acme_notes", "org_acme_notes">>)
    @@ ("acme.notes" :> <<"notes", "acme_notes">>)
ThreeNumbered == [n \in ThreeNames |-> [k \in 2..5 |-> "notes" \o ToString(k)]]
MCAliases == UNION {{ThreeQualified[n][i] : i \in DOMAIN ThreeQualified[n]} : n \in ThreeNames}
             \cup {"notes" \o ToString(k) : k \in 2..5}

\* Two of them are active in the runs.
MCNames == {"com.acme.notes", "acme.notes"}
MCQualified == Restrict(ThreeQualified, MCNames)
MCNumbered == [n \in Names |-> [k \in Numbers |-> "notes" \o ToString(k)]]

\* With all three, the numbers too: an alias is never one of those that the other
\* active servers have (gateway.ts:250-263).
Three == INSTANCE Gateway WITH
    Names <- ThreeNames, Aliases <- MCAliases,
    Qualified <- ThreeQualified, Numbered <- ThreeNumbered
ASSUME AliasesOfThree ==
    \A n \in ThreeNames, taken \in SUBSET MCAliases :
        Cardinality(taken) < Cardinality(ThreeNames)
            => Three!AliasFor(n, taken) \in MCAliases \ taken
=============================================================================

--------------------------- MODULE LifetimeProofs ---------------------------
(***************************************************************************)
(* What the promise of Lifetime amounts to for a client.                   *)
(***************************************************************************)
EXTENDS Lifetime, TLAPS

LifetimeInv ==
    /\ claims \in [Names -> SUBSET Ids]
    /\ up \in [Names -> BOOLEAN]
    /\ ClaimedIsUp

\* A claim, a wasted id and a drop each keep claimed servers up.
LEMMA LifetimeStep == LifetimeInv /\ [LifetimeNext]_lifetimeVars => LifetimeInv'
<1> SUFFICES ASSUME LifetimeInv, [LifetimeNext]_lifetimeVars
             PROVE  LifetimeInv'
  OBVIOUS
<1> USE DEF LifetimeInv, ClaimedIsUp
<1>1. ASSUME NEW n \in Names, NEW i \in Ids, Claim(n, i)
      PROVE  LifetimeInv'
  BY <1>1 DEF Claim
<1>2. ASSUME NEW i \in Ids, Waste(i)
      PROVE  LifetimeInv'
  BY <1>2 DEF Waste
<1>3. CASE Drop
  <2>1. ASSUME NEW n \in Names, claims'[n] # {}
        PROVE  up'[n]
    <3>1. claims[n] # {}
      BY <1>3, <2>1 DEF Drop
    <3>2. up[n]
      BY <3>1
    <3> QED
      BY <1>3, <2>1, <3>2 DEF Drop
  <2> QED
    BY <1>3, <2>1 DEF Drop
<1>4. CASE UNCHANGED lifetimeVars
  BY <1>4 DEF lifetimeVars
<1> QED
  BY <1>1, <1>2, <1>3, <1>4 DEF LifetimeNext

\* Under the promise a claimed server is up at all times: whoever keeps
\* Lifetime, as the engine does, never leaves a client that holds a grant
\* without a server (activation.rs:3-12).
THEOREM ClaimedStaysUp == LifetimeSpec => []ClaimedIsUp
<1>1. LifetimeInit => LifetimeInv
  BY DEF LifetimeInit, LifetimeInv, ClaimedIsUp
<1>2. LifetimeInv => ClaimedIsUp
  BY DEF LifetimeInv
<1> QED
  BY <1>1, <1>2, LifetimeStep, PTL DEF LifetimeSpec
=============================================================================

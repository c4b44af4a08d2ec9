----------------------------- MODULE MCPaymaster -----------------------------
(***************************************************************************)
(* An instance of Paymaster for TLC: requests for a domain whose           *)
(* configuration changes, each with the swap that may follow.              *)
(***************************************************************************)
EXTENDS Paymaster, TLC

CONSTANTS r1, r2, s1, s2, x1, x2, y, w1, w2, d

MCTxOf == (r1 :> x1) @@ (r2 :> x2) @@ (s1 :> y) @@ (s2 :> y)
MCSwapOf == (r1 :> s1) @@ (r2 :> s2)
MCDomainOf == [r \in Requests |-> d]
MCVariationOf == (r1 :> "a") @@ (r2 :> AnyVariation)
MCPayerOf == (x1 :> w2) @@ (x2 :> w1) @@ (y :> w1)

Config(sponsors, preflight, variations) ==
    (d :> [sponsors |-> sponsors, preflight |-> preflight, variations |-> variations])

Var(name, accepts, sw) == [name |-> name, accepts |-> accepts, swap |-> sw]

(* The domain has two signers, w1 and w2, or only w1, or is not registered *)
(* at all.  x1, paid by w2, passes variation a only while w2 is no signer; *)
(* x2 passes b, and later a.                                               *)
MCConfigs ==
    { Config({w1, w2}, TRUE, {Var("a", {}, TRUE), Var("b", {x1, x2}, FALSE)}),
      Config({w1}, FALSE, {Var("a", {x1, x2}, TRUE)}),
      NoConfig }
=============================================================================

---------------------------- MODULE MCPaidEscrow ----------------------------
(***************************************************************************)
(* TLC instance of PaidEscrow: a human payer a, her agent g, a recipient b *)
(* and an account f that collects fees.                                    *)
(***************************************************************************)
EXTENDS PaidEscrow, TLC

CONSTANTS a, b, g, f, k1, k2, k3, n1, n2

MCAccount == {a, b, g, f}
MCGenesis == (a :> 85) @@ (b :> 0) @@ (g :> 0) @@ (f :> 0)
MCPrincipal == (g :> a)
MCBlockPair == {{a, b}}
MCFollowPair == {<<a, b>>}

(* Symmetric: dedupe keys are only compared, and so are nonces. *)
Symmetry == Permutations({k1, k2, k3}) \union Permutations({n1, n2})
=============================================================================

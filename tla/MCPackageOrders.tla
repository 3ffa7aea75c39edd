-------------------------- MODULE MCPackageOrders --------------------------
(* Small instances of PackageOrders for TLC. *)
EXTENDS PackageOrdersInv, TLC

CONSTANTS demo, starter, premium

row(a, p, c, k) == [active |-> a, payment_required |-> p, price |-> c, rank |-> k]

\* Two tiers: the free Demo and a paid package.
TwoTiers == demo :> row(TRUE, FALSE, 0, 0) @@ starter :> row(TRUE, TRUE, 1, 1)
\* Three tiers, two of them paid.
ThreeTiers == TwoTiers @@ premium :> row(TRUE, TRUE, 2, 2)

NoForms == {}
\* A paid package given away at another price, and a package withdrawn; each undoes the other.
GiveAway == [code |-> starter, config |-> row(TRUE, FALSE, 3, 1)]
Withdraw == [code |-> starter, config |-> row(FALSE, TRUE, 1, 1)]
Edits    == {GiveAway, Withdraw}
Withdrawals == {Withdraw}
\* Demo and starter both moved to rank 4.
Reranks  == {[code |-> starter, config |-> row(TRUE, TRUE, 1, 4)],
             [code |-> demo, config |-> row(TRUE, FALSE, 0, 4)]}

Symmetric == Permutations(Orders) \cup Permutations(Reqs)
============================================================================

---------------------------- MODULE MCSpendPolicy ----------------------------
(***************************************************************************)
(* A small instance of the spending policy for TLC.                        *)
(***************************************************************************)
EXTENDS SpendPolicy

CONSTANTS shop, rival

TwoAccounts == {shop, rival}

(* A budget for one account whose list of accounts is not up to date, one  *)
(* whose limit cannot be read, and a freeze.                               *)
Budget == [tier |-> "standard", max |-> 0,
           allowed |-> {shop, rival}, blocked |-> {rival}]
Unclear == [tier |-> "standard", max |-> Unreadable,
            allowed |-> {shop}, blocked |-> {}]
Frozen == [tier |-> "frozen", max |-> NoLimit, allowed |-> {}, blocked |-> {}]
SomePolicies == {Budget, Unclear, Frozen}
SomeChanges == {Budget, Frozen}

Transfer(dest, value, ecc2) ==
  [dest |-> dest, value |-> value, ecc2 |-> ecc2, all |-> FALSE]

(* Within the budget, over it, over it in SHELL, to an account it blocks;  *)
(* and the whole balance.                                                  *)
SomeTransfers ==
  {Transfer(shop, 0, 0), Transfer(shop, 1, 0), Transfer(shop, 1, 1),
   Transfer(rival, 0, 0), [Transfer(shop, 1, 0) EXCEPT !.all = TRUE]}
=============================================================================

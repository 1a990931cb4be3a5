------------------------------ MODULE MCFundBuyer ------------------------------
(***************************************************************************)
(* Small instances of fund_buyer and its treasury for TLC.                 *)
(***************************************************************************)
EXTENDS FundBuyer, TLC

CONSTANTS k0, k1, k2, a0, a1, dest, call1, call2, call3

MCKey == {k0, k1, k2}
MCAddress == {a0, a1}
MCCall == {call1, call2}
ThreeCalls == {call1, call2, call3}
CallsAreAlike == Permutations(ThreeCalls)
SameCustodian == [c \in Call |-> k1]
OtherCustodians == {a1}

TopUp == [dest |-> dest, value |-> 1, sendAll |-> FALSE]
TopUps == {TopUp}
SameTopUp == [c \in Call |-> TopUp]

Owners(keys, addresses, req, reqData) ==
  [owners_pubkey |-> keys, owners_address |-> addresses,
   reqConfirms |-> req, reqConfirmsData |-> reqData]

OneOfTwo == Owners(<<k1>>, <<a1>>, 1, 2)
TwoOfTwo == Owners(<<k1>>, <<a1>>, 2, 2)

SomeTreasuries == {TwoOfTwo, OneOfTwo}
GovernedTreasury == {TwoOfTwo}
NoUpdates == {}
ToOneSignature == {OneOfTwo}
NoLimits == {}
=============================================================================

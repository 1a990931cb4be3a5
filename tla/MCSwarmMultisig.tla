--------------------------- MODULE MCSwarmMultisig ---------------------------
(***************************************************************************)
(* Small instances of the wallet for TLC.                                  *)
(***************************************************************************)
EXTENDS SwarmMultisigRefinement

CONSTANTS k0, k1, k2, a0, a1, dest

MCKey == {k0, k1, k2}
MCAddress == {a0, a1}

Owners(keys, addresses, req, reqData) ==
  [owners_pubkey |-> keys, owners_address |-> addresses,
   reqConfirms |-> req, reqConfirmsData |-> reqData]

TwoOfThree == Owners(<<k1, k2>>, <<a1>>, 2, 1)
TwoOfTwo == Owners(<<k1, k1, k2>>, << >>, 3, 3)
Reordered == Owners(<<k2>>, <<a1>>, 1, 2)
OneOwner == Owners(<< >>, <<a1, a1>>, 2, 1)
ZeroOwner == Owners(<<k1, k0>>, << >>, 1, 1)
ThreeOfThree == Owners(<<k1, k2>>, <<a1>>, 3, 2)

SmallTransfer == [dest |-> dest, value |-> 1, sendAll |-> FALSE]
AllTransfer == [dest |-> dest, value |-> 1, sendAll |-> TRUE]

TransferInit == {TwoOfThree, ThreeOfThree, OneOwner}
TransferKinds == {SmallTransfer}
BothKinds == {SmallTransfer, AllTransfer}
NoUpdates == {}

UpdateInit == {TwoOfTwo, ThreeOfThree}
AllUpdates == {Reordered, OneOwner, ZeroOwner}
NoLimits == {}
ZeroLimit == {0}
OneLimit == {1}
=============================================================================

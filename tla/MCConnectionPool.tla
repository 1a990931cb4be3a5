--------------------------- MODULE MCConnectionPool ---------------------------
(***************************************************************************)
(* Small instances of the connection pool for TLC.                         *)
(***************************************************************************)
EXTENDS ConnectionPool

CONSTANTS n1, n2, n3, n4, good

MCAddr == {n1, n2, n3, n4, good}

(* Four unreachable nodes listed ahead of the one that works; and lists    *)
(* that shrink and reorder, name a node twice, or lose every node.         *)
MCConfigs == {<<n1, n2, n3, n4, good>>, <<n3, n1>>, <<n2, n2>>, << >>}
FourUnreachable == {n1, n2, n3, n4}
OnlyGood == {good}
===============================================================================

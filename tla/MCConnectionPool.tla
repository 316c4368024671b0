--------------------------- MODULE MCConnectionPool ---------------------------
(***************************************************************************)
(* Small instances of ConnectionPool.                                      *)
(***************************************************************************)
EXTENDS ConnectionPool, TLC

Symmetry == Permutations(Conns)
=============================================================================

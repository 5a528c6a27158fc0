--------------------------- MODULE MCRepoRuntime ----------------------------
(***************************************************************************)
(* RepoRuntime with at most one caller of each kind.                       *)
(***************************************************************************)
EXTENDS RepoRuntime

CONSTANTS u1, a1, s1, k1, r1, r2
=============================================================================

------------------------ MODULE MCRegistryMigration -------------------------
(* A home with an active and an archived copy of one knowledge base, a lens over
   them, another repository made afterwards and a stray copy of the first.   *)
EXTENDS RegistryMigration, TLC

CONSTANTS a, b, c, d, na, nb, nc, nd, lens, k1, k2

MCRepos == {a, b, c, d}
MCName == (a :> na) @@ (b :> nb) @@ (c :> nc) @@ (d :> nd)
MCRoot == (a :> k1) @@ (b :> k1) @@ (c :> k2) @@ (d :> k1)
MCUids == 1..7
MCArchiveId == (b :> 1)
MCLenses == lens :> [write |-> na, reads |-> {na, nb}]
MCBudget == [e \in Events |-> CASE e = "run" -> 3 [] e = "fault" -> 2 [] e = "operator" -> 3 [] OTHER -> 1]
=============================================================================

--------------------------- MODULE MCOriginConnect --------------------------
(* One repository, two remotes: a path both sides have, one only local and
   one only remote; a reconnection of a clone, and a first connection.       *)
EXTENDS OriginConnect, TLC

CONSTANTS u1, u2, p, q, x

MCRemote == (u1 :> (p :> u1 @@ q :> NoFact @@ x :> u1)) @@ (u2 :> (p :> u2 @@ q :> NoFact @@ x :> NoFact))
MCMatched == {u2}
MCHomes  == {[facts |-> (p :> 0 @@ q :> 0 @@ x :> NoFact), kb |-> k] : k \in {Own, u1}}
MCBudget == [e \in Events |-> CASE e = "call" -> 4 [] OTHER -> 1]
Alike == Permutations(Requests)
=============================================================================

--------------------------- MODULE MCRepoLifecycle --------------------------
(* RepoLifecycle on three repositories and three names.  The two URLs lead *)
(* to one knowledge base, as those of a repository and of its mirror do.   *)
EXTENDS RepoLifecycle, TLC

CONSTANTS u1, u2, u3, a, b, d, url, mirror, base, c1, c2

MCKbOf == [o \in {url, mirror} |-> base]
MCMounts == {{u1}, {u1, u2}}

None   == [u \in Uids |-> NoRow]
Held(state, name, kb, origin) == [state |-> state, name |-> name, kb |-> kb, origin |-> origin]

(* A served and an archived repository of one name; and one archived that  *)
(* migrate-registry brought, next to a served clone of the same base.      *)
MCHomes ==
    { [None EXCEPT ![u1] = Held("active", a, u1, NoOrigin),
                   ![u2] = Held("archived", a, u2, NoOrigin)],
      [None EXCEPT ![u1] = Held("archived", b, NoKb, url),
                   ![u2] = Held("active", a, base, mirror)] }

CallsAlike == Permutations(Calls)

MCBudget == [e \in Events |-> CASE e = "call" -> 3 [] OTHER -> 1]
=============================================================================

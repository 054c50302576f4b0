---------------------------- MODULE MCInterpreter ----------------------------
(* A ring of six instructions, the first four of any kind, in three lines of *)
(* which the cache has two.                                                  *)
EXTENDS CachedInterpreter

MCAddress == 0 .. 5
MCSucc == [a \in MCAddress |-> (a + 1) % 6]
Kinds == {"plain", "called", "branch", "compact", "jump"}
MCPrograms ==
    {[a \in MCAddress |-> CASE a = 4 -> "plain" [] a = 5 -> "jump"
                            [] OTHER -> first[a]] : first \in [0 .. 3 -> Kinds]}
MCQuanta == {1, 2}
==============================================================================

--------------------------- MODULE MCGeneratedCode ---------------------------
(* Programs of four instructions in a ring.  Compilers put no control        *)
(* instruction into a slot: such programs are the legal ones.                *)
EXTENDS GeneratedCode

MCAddress == 0 .. 3
MCSucc == [a \in MCAddress |-> (a + 1) % 4]

Legal(programs) ==
    {p \in programs : \A a \in MCAddress :
        SetsNoCTI(p[a]) => ~Control(p[MCSucc[a]])}

MCSteady == Legal([MCAddress -> {"plain", "branch", "compact", "jump"}])
MCRaising ==
    Legal([MCAddress -> {"emitted", "called", "branch", "compact"}])
MCPrograms == MCSteady \cup MCRaising
MCSingle == [p \in MCPrograms |-> IF p \in MCSteady THEN {1, 2, 3} ELSE {1}]
MCQuanta == [p \in MCPrograms |-> {1, 2, 3}]
==============================================================================

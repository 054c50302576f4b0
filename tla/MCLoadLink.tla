------------------------------ MODULE MCLoadLink ------------------------------
(* LoadLink on a line of stack, three 8-byte lines and one past memory.      *)
EXTENDS LoadLink

MCSpace == -8 .. 31
AllWords == {a \in MCSpace : a % 4 = 0}
DoubleWords == {a \in MCSpace : a % 8 = 0}
AnyStores == MCSpace \X Word
AlignedStores == {s \in AnyStores : s[1] % s[2] = 0}
===============================================================================

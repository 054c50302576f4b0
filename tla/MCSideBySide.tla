---------------------------- MODULE MCSideBySide -----------------------------
(* Words of four bits.  Of the registers that instructions name one in a     *)
(* slot has every value; another in a slot, and $30, have small amounts and  *)
(* the limits of signed and unsigned words.  Blocks of code end where a word *)
(* does, or, as the program headers have them, anywhere and at each other.   *)
EXTENDS SideBySide

Registers == {0, 2, 3, 30, 31}
Operands == {0, 2, 3, 30}
File(a, b, frame) ==
    [x \in Registers |->
        CASE x = 0 -> 0 [] x = 2 -> a [] x = 3 -> b [] x = 30 -> frame
          [] x = 31 -> 4]
Files ==
    {File(a, b, 5) : a \in Word, b \in {0, 1, 2, 3, 7, 8, 9, 15}} \cup
    {File(a, 6, frame) : a \in Word, frame \in {0, 7, 8, 15}}

Bytes8 == {[p \in 0 .. 7 |-> IF p \in {0, 2, 3, 6} THEN 1 ELSE 0]}
Mmus ==
    {[mmu |-> "none", stack |-> s, rox |-> FALSE, executable |-> {}] :
        s \in {0, 3, 4}} \cup
    {[mmu |-> "emulated", stack |-> 0, rox |-> FALSE, executable |-> {}],
     [mmu |-> "emulated", stack |-> 0, rox |-> TRUE, executable |-> {<<4, 8>>}],
     [mmu |-> "emulated", stack |-> 0, rox |-> TRUE,
      executable |-> {<<1, 3>>, <<3, 7>>}]}
==============================================================================

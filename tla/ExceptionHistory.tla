--------------------------- MODULE ExceptionHistory ---------------------------
(*****************************************************************************)
(* GeneratedCode, on the programs of MCGeneratedCode, with a history variable*)
(* that changes nothing it does: where a program should go on after the      *)
(* exception it raised last.                                                 *)
(*****************************************************************************)
EXTENDS MCGeneratedCode

VARIABLE resume     \* behind the instruction that raised, or the target of
                    \* the branch in whose slot it was; None when none is
                    \* pending

HistoryVars == <<vars, resume>>

HistoryInit == Init /\ resume = None

HistoryNext ==
    /\ Next
    /\ resume' = IF ~fromException' THEN None
                 ELSE IF ~InChunk THEN resume
                 ELSE IF Slot = None THEN Succ[at] ELSE Slot

HistorySpec == HistoryInit /\ [][HistoryNext]_HistoryVars

(* README.md:19, "the VM can enter or exit at any instruction, and the full, *)
(* correct state will be present": while an exception is pending, handled or *)
(* thrown on to the host, the program goes on behind the instruction that    *)
(* raised it, in no slot.  The catch of execute_internal() restores the      *)
(* program counter and the flags that generated code was entered with.       *)
ExceptionIsWhole == fromException => ArchPc = resume /\ Slot = None
===============================================================================

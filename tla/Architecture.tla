----------------------------- MODULE Architecture -----------------------------
(*****************************************************************************)
(* What a MIPS32 Release 6 processor promises of the order of instructions:  *)
(* the instruction after a taken branch runs before the target does, no      *)
(* control instruction runs in a delay slot or a forbidden slot, and an      *)
(* exception whose handler returns goes on after the instruction that raised *)
(* it.  Both engines of the emulator implement this module.                  *)
(*****************************************************************************)
EXTENDS Guest

VARIABLES
    code,           \* the loaded program
    pc,             \* the next instruction
    slot,           \* the target of the branch whose delay slot pc is, or None
    forbidden       \* is pc a control instruction that may not run here

vars == <<code, pc, slot, forbidden>>

Init ==
    /\ code \in Programs
    /\ pc \in Address
    /\ slot = None
    /\ forbidden = FALSE

(* Where execution goes after an instruction that does not branch.           *)
Onward == IF slot = None THEN Succ[pc] ELSE slot

Run ==
    /\ ~Control(code[pc])
    /\ pc' = Onward /\ slot' = None /\ forbidden' = FALSE
    /\ UNCHANGED code

(* A control instruction; never in a slot of another one.                    *)
Transfer(w) ==
    /\ ~forbidden /\ slot = None
    /\ Control(code[pc]) /\ w \in Ways(code[pc])
    /\ IF code[pc] # "branch" /\ w # None
          THEN pc' = w /\ forbidden' = FALSE
          ELSE pc' = Succ[pc] /\ forbidden' = Control(code[Succ[pc]])
    /\ slot' = IF code[pc] = "branch" THEN w ELSE None
    /\ UNCHANGED code

(* The instruction raised an exception and execution goes on after it.       *)
Skip ==
    /\ Throws(code[pc]) \/ forbidden
    /\ pc' = Onward /\ slot' = None /\ forbidden' = FALSE
    /\ UNCHANGED code

Next == Run \/ (\E w \in Address \cup {None} : Transfer(w)) \/ Skip

Spec == Init /\ [][Next]_vars
==============================================================================

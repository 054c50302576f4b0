------------------------------ MODULE StopResume ------------------------------
(*****************************************************************************)
(* What an all-stop debugger promises about the guest it controls: the guest *)
(* runs only between a resume and the next stop, it never runs an            *)
(* instruction that carries a breakpoint, a step runs one instruction and    *)
(* every stop has a reason.                                                  *)
(*****************************************************************************)
EXTENDS Integers

CONSTANTS Code, Entry, Succ

VARIABLES
    halted,         \* is the guest stopped
    at,             \* where the guest stands
    breaks,         \* breakpoints set per address
    left            \* instructions a step may still run; Free after a continue

vars == <<halted, at, breaks, left>>

Free == 2

Init ==
    /\ halted = TRUE
    /\ at = Entry
    /\ breaks = [a \in Code |-> 0]
    /\ left = Free

Resume ==
    /\ halted
    /\ halted' = FALSE
    /\ at' \in Code
    /\ left' \in {1, Free}
    /\ UNCHANGED breaks

Run ==
    /\ ~halted /\ breaks[at] = 0 /\ left > 0
    /\ at' \in Succ[at]
    /\ left' = IF left = Free THEN Free ELSE left - 1
    /\ UNCHANGED <<halted, breaks>>

Halt ==
    /\ ~halted
    /\ breaks[at] > 0 \/ left = 0
    /\ halted' = TRUE
    /\ UNCHANGED <<at, breaks, left>>

SetBreak ==
    /\ halted
    /\ \E a \in Code : \/ breaks' = [breaks EXCEPT ![a] = @ + 1]
                       \/ breaks[a] > 0 /\ breaks' = [breaks EXCEPT ![a] = @ - 1]
    /\ UNCHANGED <<halted, at, left>>

Next == Resume \/ Run \/ Halt \/ SetBreak

Spec == Init /\ [][Next]_vars
===============================================================================

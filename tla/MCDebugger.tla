------------------------------ MODULE MCDebugger ------------------------------
(* Debugger on two instructions (1 goes to 2, and 2 branches to itself or    *)
(* back to 1), and on three with a branch and a way back.                    *)
EXTENDS Debugger, TLC

MCCode == 1 .. 2
MCSucc == (1 :> {2}) @@ (2 :> {1, 2})

MCCode3 == 1 .. 3
MCSucc3 == (1 :> {2}) @@ (2 :> {1, 3}) @@ (3 :> {1})
===============================================================================

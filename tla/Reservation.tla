------------------------------ MODULE Reservation ------------------------------
(*****************************************************************************)
(* What load-link and store-conditional promise: a conditional store succeeds*)
(* only while the bytes that were linked have not been stored to, and a      *)
(* conditional store that fails writes nothing. A reservation may be lost at *)
(* any time.                                                                 *)
(*****************************************************************************)
CONSTANTS
    Bytes,          \* the addresses of memory
    Exact           \* must a conditional store go to what was linked

VARIABLES
    held,           \* the linked bytes, {} without a reservation
    wrote,          \* the bytes the last operation wrote
    outcome         \* of the last operation: "won" or "lost" if conditional

vars == <<held, wrote, outcome>>

Init == held = {} /\ wrote = {} /\ outcome = "plain"

Link ==
    /\ held' \in SUBSET Bytes
    /\ wrote' = {} /\ outcome' = "plain"

Store ==
    /\ wrote' \in SUBSET Bytes
    /\ held' \in IF wrote' \cap held = {} THEN {held, {}} ELSE {{}}
    /\ outcome' = "plain"

Win ==
    /\ held # {}
    /\ wrote' \in SUBSET Bytes
    /\ Exact => wrote' \cap held # {}
    /\ held' = {} /\ outcome' = "won"

Lose == wrote' = {} /\ held' = {} /\ outcome' = "lost"

Next == Link \/ Store \/ Win \/ Lose

Spec == Init /\ [][Next]_vars
===============================================================================

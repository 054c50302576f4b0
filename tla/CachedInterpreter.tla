-------------------------- MODULE CachedInterpreter ---------------------------
(*****************************************************************************)
(* The interpreter and its cache of instructions: entering execute() fetches *)
(* the line of the program counter, and each iteration executes an entry of  *)
(* the line it holds.  Interpreter takes the instruction from memory, which  *)
(* ServesMemory justifies.                                                   *)
(*****************************************************************************)
EXTENDS Interpreter, CacheGeometry

VARIABLES lines, write_offset, held, held_base, served

Cache == INSTANCE InstructionCache

cache == <<lines, write_offset, held, held_base, served>>
cachedVars == <<vars, cache>>

CachedInit == Init /\ Cache!Init

CachedNext ==
    \/ \E n \in Quanta : Execute(n) /\ Cache!Enter(pc)
    \/ Leave /\ UNCHANGED cache
    \/ \E w \in Address \cup {None} : Retire(w) /\ Cache!Execute(pc)
    \/ \E handled \in BOOLEAN : Raise(handled) /\ Cache!Execute(pc)

CachedSpec == CachedInit /\ [][CachedNext]_cachedVars

(* The entry that the interpreter executes is the instruction in memory.     *)
ServesMemory == Cache!ServesMemory
===============================================================================

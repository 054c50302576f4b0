----------------------------- MODULE Interpreter -----------------------------
(*****************************************************************************)
(* processor::execute_internal without a JIT.  An iteration of its loop is   *)
(* one action: what it prepares (the updater of the program counter, of the  *)
(* branch target, cti_clear), the handler of the instruction, and what the   *)
(* destructors do when the scope is left, also by an exception.  The handler *)
(* of an exception is the host's; it returns, or leaves clock() by throwing  *)
(* and the host calls clock() again.                                         *)
(*****************************************************************************)
EXTENDS Guest, Integers

CONSTANTS
    Quanta,         \* the numbers of instructions a host asks clock() for
    ReentersRI      \* does the host call clock() again after a reserved
                    \* instruction exception that its handler threw out

ASSUME InterpreterAssumption ==
    /\ Quanta \subseteq Nat \ {0}
    /\ ReentersRI \in BOOLEAN

VARIABLES
    code,           \* guest memory, as instructions
    pc,             \* program_counter_
    target,         \* branch_target_, None for 0
    flags,          \* flags_
    left,           \* target_instructions_ - instruction_count_
    where           \* "host": outside execute(), else "running"

vars == <<code, pc, target, flags, left, where>>

TypeOK ==
    /\ code \in Programs
    /\ pc \in Address
    /\ target \in Address \cup {None}
    /\ flags \subseteq {"branch_delay", "no_cti"}
    /\ left \in Nat
    /\ where \in {"host", "running"}

Init ==
    /\ code \in Programs /\ pc \in Address /\ target = None
    /\ flags = {} /\ left = 0 /\ where = "host"

Execute(n) ==
    /\ where = "host"
    /\ left' = n /\ where' = "running"
    /\ UNCHANGED <<code, pc, target, flags>>

Leave ==
    /\ where = "running" /\ left = 0
    /\ where' = "host"
    /\ UNCHANGED <<code, pc, target, flags, left>>

-------------------------------------------------------------------------------
InSlot == "branch_delay" \in flags

(* Mutant: cti_clear removes no_cti whenever the scope is left.              *)
AfterScopeClears(set) == ((flags \ {"branch_delay"}) \cup set) \ {"no_cti"}

(* The flags once the scope is left: branch_delay was taken at its start,    *)
(* and cti_clear removes a no_cti that was set at its start.                 *)
AfterScope(set) ==
    ((flags \ {"branch_delay"}) \cup set) \ (flags \cap {"no_cti"})

(* Mutant: only a delay slot is tested, not a forbidden slot.                *)
RefusedInSlot == Control(code[pc]) /\ InSlot

(* PROC_Helper::Execute                                                      *)
Refused == Control(code[pc]) /\ "no_cti" \in flags

(* What the updater or the incrementer leaves in program_counter_.           *)
Onward == IF InSlot THEN target ELSE Succ[pc]

Iterate ==
    /\ where = "running" /\ left > 0
    /\ left' = left - 1
    /\ UNCHANGED code

(* delay_branch(), compact_branch(), set_no_cti() and everything else.       *)
Retire(w) ==
    /\ Iterate
    /\ ~Refused /\ w \in Ways(code[pc])
    /\ pc' = IF code[pc] # "branch" /\ w # None THEN w ELSE Onward
    /\ target' = IF InSlot THEN None
                 ELSE IF code[pc] = "branch" /\ w # None THEN w
                 ELSE target
    /\ flags' = AfterScope(
          CASE code[pc] = "branch" /\ w # None -> {"branch_delay", "no_cti"}
            [] SetsNoCTI(code[pc]) /\ w = None -> {"no_cti"}
            [] OTHER                           -> {})
    /\ UNCHANGED where

(* Mutant: a throwing handler resets the updater too, as if a fault in a     *)
(* slot could be retried.                                                    *)
RaiseKeepsSlot(handled) ==
    /\ Iterate
    /\ Throws(code[pc]) \/ Refused
    /\ handled \/ (Refused => ReentersRI)
    /\ pc' = IF handled THEN Onward ELSE pc
    /\ target' = IF InSlot THEN None ELSE target
    /\ flags' = AfterScope({})
    /\ where' = IF handled THEN "running" ELSE "host"

(* An exception.  When the handler throws, the incrementer is reset and the  *)
(* updater of a delay slot is not.                                           *)
Raise(handled) ==
    /\ Iterate
    /\ Throws(code[pc]) \/ Refused
    /\ handled \/ (Refused => ReentersRI)
    /\ pc' = IF handled \/ InSlot THEN Onward ELSE pc
    /\ target' = IF InSlot THEN None ELSE target
    /\ flags' = AfterScope({})
    /\ where' = IF handled THEN "running" ELSE "host"

Next ==
    \/ \E n \in Quanta : Execute(n)
    \/ Leave
    \/ \E w \in Address \cup {None} : Retire(w)
    \/ \E handled \in BOOLEAN : Raise(handled)

Spec == Init /\ [][Next]_vars

-------------------------------------------------------------------------------
(* A branch that has been taken forbids control instructions until its delay *)
(* slot is done and its target is known: every handler relies on it, since   *)
(* a second branch would overwrite branch_target_.                           *)
SlotInv == InSlot => "no_cti" \in flags /\ target # None

Slot == IF InSlot THEN target ELSE None
Forbidden == "no_cti" \in flags /\ Control(code[pc])

(* The interpreter orders instructions as the architecture does, over every  *)
(* return to the host and every exception.                                   *)
Arch == INSTANCE Architecture WITH slot <- Slot, forbidden <- Forbidden
Conforms == Arch!Spec

(* README.md: "the VM can enter or exit at any instruction, and the full,    *)
(* correct state will be present".  A host that is left by an exception      *)
(* finds the processor before the instruction that raised it, with all it    *)
(* needs to raise it again, or after it.                                     *)
ExitIsWhole ==
    [][where = "running" /\ where' = "host" /\ left > 0 =>
          \/ UNCHANGED <<pc, Slot, Forbidden>>
          \/ pc' = Onward /\ ~InSlot' /\ ~Forbidden']_vars
==============================================================================

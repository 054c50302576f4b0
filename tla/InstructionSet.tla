--------------------------- MODULE InstructionSet ----------------------------
(*****************************************************************************)
(* What the handlers of the interpreter and the code that JIT1 emits have in *)
(* common: operands, and the ways an instruction can end.  An instruction i  *)
(* is a record of the fields of its word:                                    *)
(*   rd, rs, rt  registers,    imm  its immediate, in half a word,           *)
(*   sa          shift amount or lowest bit,   msb  highest bit or size - 1. *)
(* A code, as of a trap, is a field that nothing computes with; sa is it.    *)
(*****************************************************************************)
EXTENDS Words

CONSTANTS
    Register,       \* the numbers of the general purpose registers modelled
    Pc,             \* the address of the instruction
    CacheLine,      \* processor::get_cache_line_size()
    InstructionCount,       \* processor::get_instruction_count()
    SupportsLLSC,   \* processor::supports_llsc()
    UserValue       \* processor::user_value, the thread pointer

ASSUME InstructionSetAssumption ==
    /\ {0, 30, 31} \subseteq Register /\ Register \subseteq 0 .. 31
    /\ {Pc, CacheLine, InstructionCount, UserValue} \subseteq Word
    /\ SupportsLLSC \in BOOLEAN

(* ABI names: $30 is the frame pointer and $31 the link register.            *)
fp == 30
ra == 31

Offset(i) == SignedField(i.imm, Bits \div 2)    \* TinyInt<16>, sign extended
BranchTarget(i) == Wrap(Pc + 4 + 4 * Offset(i))

(* The region of a jump has the highest bits of its address, 4 out of 32.    *)
Region == 2^(Bits - (Bits + 7) \div 8)
RegionTarget(i) == (Pc \div Region) * Region + ((4 * i.imm) % Region)

Ended(registers, how) == [regs |-> registers, out |-> how]
Continue(registers) == Ended(registers, <<"next">>)
Raise(registers, type) == Ended(registers, <<"raise", type>>)
Coded(registers, type, i) == Ended(registers, <<"raise", type, i.sa>>)
DelayBranch(registers, target) == Ended(registers, <<"delay", target>>)
CompactBranch(registers, target) == Ended(registers, <<"compact", target>>)
NoCTI(registers) == Ended(registers, <<"no_cti">>)
==============================================================================

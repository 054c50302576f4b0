----------------------------- MODULE GuestMemory -----------------------------
(*****************************************************************************)
(* Guest memory as both engines address it.  Memory is an array of bytes;    *)
(* its place 0 is guest address -stack, so that the stack lies below address *)
(* 0 and the image above it.  A configuration c is a record                  *)
(*   mmu         "none" or "emulated", through sys_memory_source,            *)
(*   stack       processor::stack_size_, 0 with the emulated MMU,            *)
(*   rox         processor::readonly_exec_,                                  *)
(*   executable  sys_memory_source::m_ExecutableBlocks, <<first, end>>;      *)
(*               none unless rox.                                            *)
(* Accesses are not aligned: misaligned_address_handling is `keep'.          *)
(*****************************************************************************)
EXTENDS InstructionSet

CONSTANT MemorySize

Place == 0 .. MemorySize - 1
ByteBits == Bits \div 4
Byte == 0 .. 2^ByteBits - 1
Memory == [Place -> Byte]

(* The n bytes from a place on, the lowest first.                            *)
Value(memory, place, n) ==
    LET part(k) == IF k < n THEN memory[place + k] * 2^(ByteBits * k) ELSE 0
    IN  part(0) + part(1) + part(2) + part(3)
(* What an access of n bytes makes of them in a register.                    *)
Extended(x, n, signed) == IF signed THEN SignExtend(x, ByteBits * n) ELSE x
Stored(memory, place, n, x) ==
    [p \in Place |-> IF p \in place .. place + n - 1
                     THEN Shr(x, ByteBits * (p - place)) % 2^ByteBits
                     ELSE memory[p]]

Address(base, i) == Wrap(base + Offset(i))
PlaceOf(c, address) == Wrap(address + c.stack)

(* zero_check_address: the access has a byte at address 0.                   *)
TouchesZero(address, n) == Signed(address) \in -(n - 1) .. 0

(* sys_memory_source::at, and the comparison with memory_size_.              *)
InRange(place, n) == place + n <= MemorySize

(* sys_memory_source::write_at refuses what lies wholly in one block.        *)
Writable(c, place, n) ==
    /\ InRange(place, n)
    /\ \A b \in c.executable : ~(place >= b[1] /\ place + n <= b[2])

Accessed(registers, memory, how) ==
    [regs |-> registers, memory |-> memory, out |-> how]
Fault(registers, memory, type) ==
    Accessed(registers, memory, <<"raise", type>>)
==============================================================================

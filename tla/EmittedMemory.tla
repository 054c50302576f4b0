---------------------------- MODULE EmittedMemory ----------------------------
(*****************************************************************************)
(* What the code does that jit1_memory.cpp emits for loads and stores.  An   *)
(* address with the base $0 is known when code is emitted and tested then;   *)
(* another one is in eax, or in edx for the emulated MMU.                    *)
(*****************************************************************************)
EXTENDS GuestMemory, Slots

(* The pointer an access goes through: a place of memory, a fault, or what   *)
(* lies outside of the memory of the guest.                                  *)
Refuse == <<"fault">>
Through(place, n) ==
    IF InRange(place, n) THEN <<"place", place>> ELSE <<"outside">>

(* The sum of the offset, the size and the stack wraps at 64 bits, where a   *)
(* negative offset comes out as large or, with enough behind it, as small.   *)
(* The stack is not added to the address that is used.                       *)
Static(c, offset, n) ==
    LET end == offset + n + c.stack
    IN  IF end < 0 \/ end > MemorySize \/ offset = 0 THEN Refuse
        ELSE Through(Wrap(offset), n)

(* lea edx, [eax + size - 1]; cmp edx, size - 1; jbe                         *)
ZeroTest(address, n) == Wrap(address + n - 1) <= n - 1

(* Mutant: the zero test is made behind the shift by the stack.              *)
ShiftedFirst(c, address, n) ==
    LET place == PlaceOf(c, address)
    IN  IF ZeroTest(place, n) \/ place > MemorySize - n THEN Refuse
        ELSE <<"place", place>>
Dynamic(c, address, n) ==
    LET place == PlaceOf(c, address)
    IN  IF ZeroTest(address, n) \/ place > MemorySize - n THEN Refuse
        ELSE <<"place", place>>

(* Without a stack a store is tested against the size of memory rounded up   *)
(* to a power of two, which is added to both sides: what passes is address 0 *)
(* and the addresses that are not in memory at the end of the space.         *)
BitCeil(n) == CHOOSE p \in {2^k : k \in 0 .. Bits} : p >= n /\ p < 2 * n
DynamicStoreWithoutStack(address, n) ==
    LET power == BitCeil(MemorySize)
    IN  IF Wrap(address + power + n - 1) >= Wrap(power + n) THEN Refuse
        ELSE Through(address, n)

(* get_mem_read_jit and get_mem_write_jit give a null pointer or a place.    *)
Read(c, address, n) ==
    LET place == PlaceOf(c, address)
    IN  IF InRange(place, n) THEN <<"place", place>> ELSE Refuse
(* Mutant: executable blocks are not looked up.                              *)
WriteAnywhere(c, address, n) ==
    LET place == PlaceOf(c, address)
    IN  IF InRange(place, n) THEN <<"place", place>> ELSE Refuse
ReadForWrite(c, address, n) ==
    LET place == PlaceOf(c, address)
    IN  IF Writable(c, place, n) THEN <<"place", place>> ELSE Refuse

-------------------------------------------------------------------------------
(* write_STORE                                                               *)

StorePointer(m, i, c, n) ==
    LET address == Address(At(m, i.rs), i)
    IN  CASE c.mmu = "emulated" -> ReadForWrite(c, address, n)
          [] c.mmu = "none" /\ i.rs = 0 -> Static(c, Offset(i), n)
          [] c.mmu = "none" /\ i.rs # 0 /\ c.stack = 0 ->
                DynamicStoreWithoutStack(address, n)
          [] OTHER -> Dynamic(c, address, n)

(* Where code can be written a store through the emulated MMU leaves for the *)
(* caller: the pointer is still in eax.  save_return does not set the        *)
(* program counter.                                                          *)
StoreValue(m, memory, i, c, n, value) ==
    LET pointer == StorePointer(m, i, c, n)
        how == IF c.mmu = "emulated" /\ ~c.rox THEN <<"left">> ELSE <<"next">>
    IN  CASE pointer = Refuse -> Fault(m, memory, "AdES")
          [] pointer = <<"outside">> -> Accessed(m, memory, pointer)
          [] OTHER ->
                Accessed(m, Stored(memory, pointer[2], n, value), how)

Store(m, memory, i, c, n) ==
    StoreValue(m, memory, i, c, n, IF i.rt = 0 THEN 0 ELSE At(m, i.rt))

SB(m, memory, i, c) == Store(m, memory, i, c, 1)
SH(m, memory, i, c) == Store(m, memory, i, c, 2)
SW(m, memory, i, c) == Store(m, memory, i, c, 4)

-------------------------------------------------------------------------------
(* write_LOAD                                                                *)

(* get_address, for an offset that LWPC gives the whole address.             *)
LoadPointer(m, base, offset, c, n) ==
    LET address == Wrap(At(m, base) + offset)
    IN  CASE c.mmu = "emulated" -> Read(c, address, n)
          [] c.mmu = "none" /\ base = 0 -> Static(c, offset, n)
          [] OTHER -> Dynamic(c, address, n)

Load(m, memory, base, offset, c, n, d, signed) ==
    LET pointer == LoadPointer(m, base, offset, c, n)
    IN  CASE pointer = Refuse -> Fault(m, memory, "AdEL")
          [] pointer = <<"outside">> -> Accessed(m, memory, pointer)
          [] OTHER ->
                LET value == Extended(Value(memory, pointer[2], n), n, signed)
                IN  Accessed(Put(m, d, value), memory, <<"next">>)

(* A load into $0 is a NOP, which does not fault.                            *)
LoadInto(m, memory, i, c, n, signed) ==
    IF i.rt = 0 THEN Accessed(m, memory, <<"next">>)
    ELSE Load(m, memory, i.rs, Offset(i), c, n, i.rt, signed)

LB(m, memory, i, c) == LoadInto(m, memory, i, c, 1, TRUE)
LBU(m, memory, i, c) == LoadInto(m, memory, i, c, 1, FALSE)
LH(m, memory, i, c) == LoadInto(m, memory, i, c, 2, TRUE)
LHU(m, memory, i, c) == LoadInto(m, memory, i, c, 2, FALSE)
LW(m, memory, i, c) == LoadInto(m, memory, i, c, 4, FALSE)

(* The destination rs is where other loads have their base: what it holds is *)
(* added to the address, and $0 is written like any other register.          *)
LWPC(m, memory, i, c) ==
    LET offset == Signed(Wrap(Pc + 4 * Offset(i)))
    IN  Load(m, memory, i.rs, offset, c, 4, i.rs, FALSE)
==============================================================================

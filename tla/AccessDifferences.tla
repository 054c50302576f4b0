-------------------------- MODULE AccessDifferences ---------------------------
(*****************************************************************************)
(* Where the two engines make something else of an access of n bytes at      *)
(* address, by an instruction i in a configuration c of memory.              *)
(*****************************************************************************)
EXTENDS GuestMemory

IM == INSTANCE InterpretedMemory
EM == INSTANCE EmittedMemory

(* The stack is missing, and an access that ends at or behind address 0 is   *)
(* not told from one that begins there.                                      *)
StaticPlace(n, i, c) ==
    /\ c.mmu = "none" /\ i.rs = 0 /\ (c.stack # 0 \/ Offset(i) < 0)
    /\ EM!Static(c, Offset(i), n) # EM!Refuse

StoreWithoutStack(n, i, c, address) ==
    /\ c.mmu = "none" /\ i.rs # 0 /\ c.stack = 0
    /\ \/ IM!Fetches(c, address, n)
       \/ EM!DynamicStoreWithoutStack(address, n) # EM!Refuse

(* Address 0 is tested by the interpreter only.                              *)
EmulatedZero(n, c, address) ==
    /\ c.mmu = "emulated" /\ TouchesZero(address, n)
    /\ InRange(PlaceOf(c, address), n)

(* A null pointer of write_at is tested by emitted code only.                *)
NullWrite(n, c, address) ==
    c.mmu = "emulated" /\ ~Writable(c, PlaceOf(c, address), n)

StoreLeaves(c) == c.mmu = "emulated" /\ ~c.rox

LoadDiffers(n, i, c, address) ==
    StaticPlace(n, i, c) \/ EmulatedZero(n, c, address)
StoreDiffers(n, i, c, address) ==
    \/ LoadDiffers(n, i, c, address)
    \/ StoreWithoutStack(n, i, c, address) \/ NullWrite(n, c, address)
    \/ StoreLeaves(c)
==============================================================================

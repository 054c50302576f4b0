-------------------------- MODULE InterpretedMemory --------------------------
(*****************************************************************************)
(* The handlers of loads and stores and processor::mem_fetch and mem_write.  *)
(* The addresses that AdEL and AdES carry are left out.                      *)
(*****************************************************************************)
EXTENDS GuestMemory

(* try_mem_fetch_except and try_mem_write_except                             *)
Fetches(c, address, n) ==
    ~TouchesZero(address, n) /\ InRange(PlaceOf(c, address), n)

Fetch(r, memory, c, address, n, d, signed) ==
    IF ~Fetches(c, address, n) THEN Fault(r, memory, "AdEL")
    ELSE LET value == Extended(Value(memory, PlaceOf(c, address), n), n, signed)
         IN  Accessed(IF d = 0 THEN r ELSE [r EXCEPT ![d] = value],
                      memory, <<"next">>)

(* What write_at refuses is written to through a null pointer.               *)
Store(r, memory, c, address, n, value) ==
    LET place == PlaceOf(c, address)
        written == Accessed(r, Stored(memory, place, n, value), <<"next">>)
    IN  IF TouchesZero(address, n) THEN Fault(r, memory, "AdES")
        ELSE IF c.mmu = "emulated"
             THEN IF Writable(c, place, n) THEN written
                  ELSE Accessed(r, memory, <<"host trap">>)
        ELSE IF InRange(place, n) THEN written
        ELSE Fault(r, memory, "AdES")

LB(r, memory, i, c) ==
    Fetch(r, memory, c, Address(r[i.rs], i), 1, i.rt, TRUE)
LBU(r, memory, i, c) ==
    Fetch(r, memory, c, Address(r[i.rs], i), 1, i.rt, FALSE)
LH(r, memory, i, c) ==
    Fetch(r, memory, c, Address(r[i.rs], i), 2, i.rt, TRUE)
LHU(r, memory, i, c) ==
    Fetch(r, memory, c, Address(r[i.rs], i), 2, i.rt, FALSE)
LW(r, memory, i, c) ==
    Fetch(r, memory, c, Address(r[i.rs], i), 4, i.rt, FALSE)
LWPC(r, memory, i, c) ==
    Fetch(r, memory, c, Wrap(Pc + 4 * Offset(i)), 4, i.rs, FALSE)

SB(r, memory, i, c) == Store(r, memory, c, Address(r[i.rs], i), 1, r[i.rt])
SH(r, memory, i, c) == Store(r, memory, c, Address(r[i.rs], i), 2, r[i.rt])
SW(r, memory, i, c) == Store(r, memory, c, Address(r[i.rs], i), 4, r[i.rt])

(* mem_poke asks for a byte what mem_fetch asks, and throws AdEL.            *)
Pokes(c, address) == Fetches(c, address, 1)

(* The number of the base register is added for what it holds.  The handler  *)
(* is noexcept: an exception out of it is std::terminate.  Which cache and   *)
(* which operation makes no difference.                                      *)
CacheAddress(i) == Wrap(i.rs + Offset(i))
CACHE(r, memory, i, c) ==
    Accessed(r, memory, IF Pokes(c, CacheAddress(i))
                        THEN <<"next">> ELSE <<"terminates">>)
==============================================================================

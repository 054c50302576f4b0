------------------------- MODULE EmittedCoprocessor --------------------------
(*****************************************************************************)
(* The code that JIT1 emits for coprocessor 1; for its other instructions    *)
(* the handlers are called.  The registers of the coprocessor are where the  *)
(* interpreter has them, r12 points at them.                                 *)
(*****************************************************************************)
EXTENDS FloatingPoint, EmittedMemory

Emits == {"MFC1", "MFHC1", "MTC1", "MTHC1", "SEL", "BC1EQZ", "BC1NEZ", "SWC1", "SDC1"}

MovedBy(m, u, how) == [regs |-> m, fpu |-> u, out |-> how]
Into(m, u, d, x) == MovedBy(IF d = 0 THEN m ELSE Put(m, d, x), u, <<"next">>)
From(m, s) == IF s = 0 THEN 0 ELSE At(m, s)

MFC1(m, u, i) == Into(m, u, i.rt, u.f[i.fs][1])
MFHC1(m, u, i) == Into(m, u, i.rt, u.f[i.fs][2])
MTC1(m, u, i) == MovedBy(m, SetLow(u, i.fs, From(m, i.rt)), <<"next">>)
MTHC1(m, u, i) == MovedBy(m, SetHigh(u, i.fs, From(m, i.rt)), <<"next">>)

(* Mutant: where fd is fs the condition is turned round, as it is for ft.    *)
SELTurned(m, u, F, i) ==
    LET set == Get(u, F, i.fd) % 2 = 1
        selected == IF i.ft = i.fs THEN i.ft
                    ELSE IF i.fd = i.ft THEN IF set THEN i.fd ELSE i.fs
                    ELSE IF i.fd = i.fs THEN IF set THEN i.fd ELSE i.ft
                    ELSE IF set THEN i.ft ELSE i.fs
    IN  MovedBy(m, Set(u, F, i.fd, Get(u, F, selected)), <<"next">>)
SEL(m, u, F, i) ==
    LET set == Get(u, F, i.fd) % 2 = 1
        selected == IF i.ft = i.fs THEN i.ft
                    ELSE IF i.fd = i.ft THEN IF set THEN i.fd ELSE i.fs
                    ELSE IF i.fd = i.fs THEN IF set THEN i.ft ELSE i.fd
                    ELSE IF set THEN i.ft ELSE i.fs
    IN  MovedBy(m, Set(u, F, i.fd, Get(u, F, selected)), <<"next">>)

BranchIf(m, u, i, condition) ==
    MovedBy(m, u, IF condition THEN <<"delay", BranchTarget(i)>> ELSE <<"no_cti">>)
BC1EQZ(m, u, i) == BranchIf(m, u, i, u.f[i.ft][1] % 2 = 0)
BC1NEZ(m, u, i) == BranchIf(m, u, i, u.f[i.ft][1] % 2 = 1)

SWC1(m, u, memory, i, c) == StoreValue(m, memory, i, c, 4, u.f[i.ft][1])
SDC1(m, u, memory, i, c) == StoreValue(m, memory, i, c, 8, Get(u, Double, i.ft))
==============================================================================

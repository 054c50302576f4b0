----------------------- MODULE InterpretedInstructions -----------------------
(*****************************************************************************)
(* The handlers of processor_inst.cpp: what an instruction makes of the      *)
(* registers and how it ends.  They are run by the interpreter, and called   *)
(* from emitted code for what JIT1 does not emit.  Memory instructions are   *)
(* in InterpretedMemory; r is the register file.                                  *)
(*****************************************************************************)
EXTENDS InstructionSet

(* processor::set_register: $0 takes no value.                               *)
Set(r, d, value) == IF d = 0 THEN r ELSE [r EXCEPT ![d] = value]
Write(r, d, value) == Continue(Set(r, d, value))
Link(r, distance) == Set(r, ra, Wrap(Pc + distance))

-------------------------------------------------------------------------------
(* Arithmetic                                                                *)

ADD(r, i) ==
    LET sum == Signed(r[i.rs]) + Signed(r[i.rt])
    IN  IF Overflows(sum) THEN Raise(r, "Ov") ELSE Write(r, i.rd, Wrap(sum))
SUB(r, i) ==
    LET difference == Signed(r[i.rs]) - Signed(r[i.rt])
    IN  IF Overflows(difference) THEN Raise(r, "Ov")
                                 ELSE Write(r, i.rd, Wrap(difference))
ADDU(r, i) == Write(r, i.rd, Wrap(r[i.rs] + r[i.rt]))
SUBU(r, i) == Write(r, i.rd, Wrap(r[i.rs] - r[i.rt]))
ADDIU(r, i) == Write(r, i.rt, Wrap(r[i.rs] + Offset(i)))
MOVE(r, i) == Write(r, i.rt, r[i.rs])
AUI(r, i) == Write(r, i.rt, Wrap(r[i.rs] + Shl(i.imm, Bits \div 2)))
LSA(r, i) == Write(r, i.rd, Wrap(Shl(r[i.rs], i.sa + 1) + r[i.rt]))
ADDIUPC(r, i) == Write(r, i.rs, Wrap(Pc + 4 * Offset(i)))
AUIPC(r, i) == Write(r, i.rs, Wrap(Pc + Shl(i.imm, Bits \div 2)))
ALUIPC(r, i) ==
    LET sum == Wrap(Pc + Shl(i.imm, Bits \div 2))
    IN  Write(r, i.rs, sum - (sum % 2^(Bits \div 2)))

High(product) == Wrap(product \div 2^Bits)
MUL(r, i) == Write(r, i.rd, Wrap(Signed(r[i.rs]) * Signed(r[i.rt])))
MUH(r, i) == Write(r, i.rd, High(Signed(r[i.rs]) * Signed(r[i.rt])))
MULU(r, i) == Write(r, i.rd, Wrap(r[i.rs] * r[i.rt]))
MUHU(r, i) == Write(r, i.rd, High(r[i.rs] * r[i.rt]))

(* A division by zero is unpredictable in the architecture, zero here.  The  *)
(* lowest integer by -1 is undefined in C++ and traps on the host.           *)
HostDivides(r, i) == Signed(r[i.rs]) = -Top => r[i.rt] # Highest
DIV(r, i) ==
    IF r[i.rt] = 0 THEN Write(r, i.rd, 0)
    ELSE IF ~HostDivides(r, i) THEN Ended(r, <<"host trap">>)
    ELSE Write(r, i.rd, Wrap(Quotient(Signed(r[i.rs]), Signed(r[i.rt]))))
MOD(r, i) ==
    IF r[i.rt] = 0 THEN Write(r, i.rd, 0)
    ELSE IF ~HostDivides(r, i) THEN Ended(r, <<"host trap">>)
    ELSE Write(r, i.rd, Wrap(Remainder(Signed(r[i.rs]), Signed(r[i.rt]))))
DIVU(r, i) ==
    Write(r, i.rd, IF r[i.rt] = 0 THEN 0 ELSE r[i.rs] \div r[i.rt])
MODU(r, i) ==
    Write(r, i.rd, IF r[i.rt] = 0 THEN 0 ELSE r[i.rs] % r[i.rt])

-------------------------------------------------------------------------------
(* Logic, comparison, selection                                              *)

AND(r, i) == Write(r, i.rd, And(r[i.rs], r[i.rt]))
OR(r, i) == Write(r, i.rd, Or(r[i.rs], r[i.rt]))
NOR(r, i) == Write(r, i.rd, Not(Or(r[i.rs], r[i.rt])))
XOR(r, i) == Write(r, i.rd, Xor(r[i.rs], r[i.rt]))
ANDI(r, i) == Write(r, i.rt, And(r[i.rs], i.imm))
ORI(r, i) == Write(r, i.rt, Or(r[i.rs], i.imm))
XORI(r, i) == Write(r, i.rt, Xor(r[i.rs], i.imm))

Truth(condition) == IF condition THEN 1 ELSE 0
SLT(r, i) == Write(r, i.rd, Truth(Signed(r[i.rs]) < Signed(r[i.rt])))
SLTU(r, i) == Write(r, i.rd, Truth(r[i.rs] < r[i.rt]))
SLTI(r, i) == Write(r, i.rt, Truth(Signed(r[i.rs]) < Offset(i)))
SLTIU(r, i) == Write(r, i.rt, Truth(r[i.rs] < Wrap(Offset(i))))
SELEQZ(r, i) == Write(r, i.rd, IF r[i.rt] = 0 THEN r[i.rs] ELSE 0)
SELNEZ(r, i) == Write(r, i.rd, IF r[i.rt] # 0 THEN r[i.rs] ELSE 0)

-------------------------------------------------------------------------------
(* Shifts and fields                                                         *)

SLL(r, i) == Write(r, i.rd, Shl(r[i.rt], i.sa))
SRL(r, i) == Write(r, i.rd, Shr(r[i.rt], i.sa))
SRA(r, i) == Write(r, i.rd, Sar(r[i.rt], i.sa))
SLLV(r, i) == Write(r, i.rd, Shl(r[i.rt], r[i.rs] % Bits))
SRLV(r, i) == Write(r, i.rd, Shr(r[i.rt], r[i.rs] % Bits))
SRAV(r, i) == Write(r, i.rd, Sar(r[i.rt], r[i.rs] % Bits))

(* A shift by a whole word is undefined; hosts shift by nothing, and the     *)
(* disjunction of the two halves is the word again.                          *)
Rotate(x, n) == Or(Shr(x, n), Shl(x, Bits - n))
ROTR(r, i) == Write(r, i.rd, Rotate(r[i.rt], i.sa))
ROTRV(r, i) == Write(r, i.rd, Rotate(r[i.rt], r[i.rs] % Bits))

(* The instruction's own lowest bits are read as the count of bytes: it is   *)
(* always zero, whatever sa, and rs is shifted by a whole word.              *)
ALIGN(r, i) == Write(r, i.rd, Or(r[i.rt], r[i.rs]))

SEB(r, i) == Write(r, i.rd, SignExtend(r[i.rt], Bits \div 4))
SEH(r, i) == Write(r, i.rd, SignExtend(r[i.rt], Bits \div 2))

(* The bit that goes to bit b: within its byte backwards, or in the other    *)
(* byte of its halfword.                                                     *)
Permute(x, from(_)) == WordOf[{b \in 0 .. Bits - 1 : from(b) \in BitsOf[x]}]
BITSWAP(r, i) ==
    LET byte == Bits \div 4
        from(b) == (b \div byte) * byte + byte - 1 - (b % byte)
    IN  Write(r, i.rd, Permute(r[i.rt], from))
WSBH(r, i) ==
    LET byte == Bits \div 4
        from(b) == IF (b \div byte) % 2 = 0 THEN b + byte ELSE b - byte
    IN  Write(r, i.rd, Permute(r[i.rt], from))

(* A size that passes the end of the word is unpredictable: -1 is written,   *)
(* and then over it what the shifts give.                                    *)
EXT(r, i) ==
    LET first == IF i.sa + i.msb > Bits - 1 THEN Set(r, i.rt, Highest) ELSE r
    IN  Write(first, i.rt, Shr(first[i.rs], i.sa) % (2^(i.msb + 1)))

(* From bit sa to bit msb, sa <= msb and not all of the word: the handler    *)
(* shifts by a whole word for that, which is undefined.                      *)
INS(r, i) ==
    LET field == i.sa .. i.msb
        moved == {b \in field : b - i.sa \in BitsOf[r[i.rs]]}
    IN  Write(r, i.rt, WordOf[(BitsOf[r[i.rt]] \ field) \cup moved])

CLZ(r, i) == Write(r, i.rd, LeadingZeros(r[i.rs]))
CLO(r, i) == Write(r, i.rd, LeadingZeros(Not(r[i.rs])))

-------------------------------------------------------------------------------
(* System: hazards are not handled, so that the instructions which clear     *)
(* them do nothing.                                                          *)

EHB(r, i) == Continue(r)
SYNC(r, i) == Continue(r)
SYNCI(r, i) == Continue(r)

(* PAUSE does not wait for the load link to break.                           *)
NOP(r, i) == Continue(r)
SSNOP(r, i) == Continue(r)
PAUSE(r, i) == Continue(r)
PREF(r, i) == Continue(r)

RDHWR(r, i) ==
    CASE i.rd = 0 -> Write(r, i.rt, 0)
      [] i.rd = 1 -> Write(r, i.rt, CacheLine)
      [] i.rd = 2 -> Write(r, i.rt, InstructionCount)
      [] i.rd = 3 -> Write(r, i.rt, 1)
      [] i.rd = 5 -> Write(r, i.rt, Truth(SupportsLLSC))
      [] i.rd = 29 -> Write(r, i.rt, UserValue)
      [] OTHER -> Raise(r, "Impl1")

(* MFC0, MFHC0, MTC0, MTHC0, ERET, ERETNC and their like of coprocessor 2:   *)
(* there is none.                                                            *)
Coprocessor0(r, i) == Raise(r, "CpU")

(* Other handlers that are built without coprocessor 0 do nothing else: the  *)
(* accesses to the memory of a user, and what only a kernel may do.          *)
CACHEE(r, i) == Coprocessor0(r, i)
GINVI(r, i) == Coprocessor0(r, i)
LBE(r, i) == Coprocessor0(r, i)
LBUE(r, i) == Coprocessor0(r, i)
LHE(r, i) == Coprocessor0(r, i)
LHUE(r, i) == Coprocessor0(r, i)
LWE(r, i) == Coprocessor0(r, i)
LLE(r, i) == Coprocessor0(r, i)
LLWPE(r, i) == Coprocessor0(r, i)
PREFE(r, i) == Coprocessor0(r, i)
SBE(r, i) == Coprocessor0(r, i)
SHE(r, i) == Coprocessor0(r, i)
SWE(r, i) == Coprocessor0(r, i)
SCE(r, i) == Coprocessor0(r, i)
SCWPE(r, i) == Coprocessor0(r, i)
WAIT(r, i) == Coprocessor0(r, i)

Coprocessor2(r, i) == Raise(r, "CpU")

BREAK(r, i) == Coded(r, "Bp", i)
SDBBP(r, i) == Coded(r, "Bp", i)
SIGRIE(r, i) == Coded(r, "RI", i)

TrapIf(r, i, condition) ==
    IF condition THEN Coded(r, "Tr", i) ELSE Continue(r)
TEQ(r, i) == TrapIf(r, i, r[i.rs] = r[i.rt])
TGE(r, i) == TrapIf(r, i, Signed(r[i.rs]) >= Signed(r[i.rt]))
TGEU(r, i) == TrapIf(r, i, r[i.rs] >= r[i.rt])
TLT(r, i) == TrapIf(r, i, Signed(r[i.rs]) < Signed(r[i.rt]))
TLTU(r, i) == TrapIf(r, i, r[i.rs] < r[i.rt])
TNE(r, i) == TrapIf(r, i, r[i.rs] # r[i.rt])

-------------------------------------------------------------------------------
(* Branches with a delay slot                                                *)

DelayIf(r, i, condition) ==
    IF condition THEN DelayBranch(r, BranchTarget(i)) ELSE NoCTI(r)
BEQ(r, i) == DelayIf(r, i, r[i.rs] = r[i.rt])
BNE(r, i) == DelayIf(r, i, r[i.rs] # r[i.rt])
BGEZ(r, i) == DelayIf(r, i, Signed(r[i.rs]) >= 0)
BGTZ(r, i) == DelayIf(r, i, Signed(r[i.rs]) > 0)
BLEZ(r, i) == DelayIf(r, i, Signed(r[i.rs]) <= 0)
BLTZ(r, i) == DelayIf(r, i, Signed(r[i.rs]) < 0)
BAL(r, i) == DelayIf(Link(r, 8), i, TRUE)
NAL(r, i) == NoCTI(Link(r, 8))
J(r, i) == DelayBranch(r, RegionTarget(i))
JAL(r, i) == DelayBranch(Link(r, 8), RegionTarget(i))
JR(r, i) == DelayBranch(r, r[i.rs])
JALR(r, i) ==
    LET linked == Set(r, i.rd, Wrap(Pc + 8))
    IN  DelayBranch(linked, linked[i.rs])

-------------------------------------------------------------------------------
(* Compact branches.  Those that link do so before the registers are read.   *)

CompactIf(r, i, condition) ==
    IF condition THEN CompactBranch(r, BranchTarget(i)) ELSE NoCTI(r)
LinkedRt(r, i) == Link(r, 4)[i.rt]          \* tested behind the link
LinkIf(r, i, condition) == CompactIf(Link(r, 4), i, condition)

BC(r, i) == CompactIf(r, i, TRUE)
BALC(r, i) == CompactIf(Link(r, 4), i, TRUE)
JIC(r, i) == CompactBranch(r, Wrap(r[i.rt] + Offset(i)))
JIALC(r, i) == CompactBranch(Link(r, 4), Wrap(r[i.rt] + Offset(i)))
BEQZC(r, i) == CompactIf(r, i, r[i.rs] = 0)
BNEZC(r, i) == CompactIf(r, i, r[i.rs] # 0)

NotPositive(x) == Signed(x) <= 0
Positive(x) == Signed(x) > 0
Negative(x) == Signed(x) < 0
NotNegative(x) == Signed(x) >= 0
IsZero(x) == x = 0

BLEZALC(r, i) ==
    IF i.rt = 0 THEN Raise(r, "RI") ELSE LinkIf(r, i, NotPositive(LinkedRt(r, i)))
BGTZALC(r, i) ==
    IF i.rt = 0 THEN Raise(r, "RI") ELSE LinkIf(r, i, Positive(LinkedRt(r, i)))
BLEZC(r, i) ==
    IF i.rt = 0 THEN Raise(r, "RI") ELSE CompactIf(r, i, NotPositive(r[i.rt]))
BGTZC(r, i) ==
    IF i.rt = 0 THEN Raise(r, "RI") ELSE CompactIf(r, i, Positive(r[i.rt]))

POP06(r, i) ==
    IF 0 \in {i.rs, i.rt} THEN Raise(r, "RI")
    ELSE IF i.rs = i.rt THEN LinkIf(r, i, NotNegative(LinkedRt(r, i)))
    ELSE CompactIf(r, i, r[i.rs] >= r[i.rt])
POP07(r, i) ==
    IF 0 \in {i.rs, i.rt} THEN Raise(r, "RI")
    ELSE IF i.rs = i.rt THEN LinkIf(r, i, Negative(LinkedRt(r, i)))
    ELSE CompactIf(r, i, r[i.rs] < r[i.rt])
POP26(r, i) ==
    IF 0 \in {i.rs, i.rt} THEN Raise(r, "RI")
    ELSE IF i.rs = i.rt THEN CompactIf(r, i, NotNegative(r[i.rt]))
    ELSE CompactIf(r, i, Signed(r[i.rs]) >= Signed(r[i.rt]))
POP27(r, i) ==
    IF 0 \in {i.rs, i.rt} THEN Raise(r, "RI")
    ELSE IF i.rs = i.rt THEN CompactIf(r, i, Negative(r[i.rt]))
    ELSE CompactIf(r, i, Signed(r[i.rs]) < Signed(r[i.rt]))

SumOverflows(r, i) == Overflows(Signed(r[i.rs]) + Signed(r[i.rt]))
POP10(r, i) ==
    IF i.rs = 0 /\ i.rt # 0 THEN LinkIf(r, i, IsZero(LinkedRt(r, i)))
    ELSE IF i.rs < i.rt THEN CompactIf(r, i, r[i.rs] = r[i.rt])
    ELSE CompactIf(r, i, SumOverflows(r, i))

(* BNEZALC asks whether rs is zero and is not.                               *)
POP30(r, i) ==
    IF i.rs = 0 /\ i.rt # 0 THEN Raise(r, "RI")
    ELSE IF i.rs < i.rt THEN CompactIf(r, i, r[i.rs] # r[i.rt])
    ELSE CompactIf(r, i, ~SumOverflows(r, i))
==============================================================================

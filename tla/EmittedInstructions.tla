------------------------ MODULE EmittedInstructions --------------------------
(*****************************************************************************)
(* What the code that jit1_instructions.cpp emits for an instruction does.   *)
(* An emitter tells its operands apart when it emits; the IFs that compare   *)
(* registers are its own, those that compare contents are the code's.        *)
(* Where the code works in a scratch register only its result is given.      *)
(*****************************************************************************)
EXTENDS Slots

CONSTANT Lzcnt      \* platform::get_host_features().lzcnt

Nop(m) == Continue(m)
Result(m, d, value) == Continue(Put(m, d, value))
Move(m, d, s) == Result(m, d, At(m, s))

(* tmp = op_rd.if_reg(eax); mov tmp, first; op tmp, second; mov op_rd, tmp.  *)
(* A destination in a host register is overwritten before second is read.    *)
Accumulate(m, d, first, Op(_, _), second) ==
    IF IsREG(d)
    THEN LET loaded == Put(m, d, At(m, first))
         IN  Result(loaded, d, Op(At(loaded, d), At(loaded, second)))
    ELSE Result(m, d, Op(At(m, first), At(m, second)))

(* No instruction of the host has two operands in memory: the assembler      *)
(* refuses to emit it.                                                       *)
Refused(m) == Ended(m, <<"not emitted">>)

Plus(x, y) == Wrap(x + y)
Minus(x, y) == Wrap(x - y)

-------------------------------------------------------------------------------
(* Arithmetic                                                                *)

SUBU(m, i) ==
    IF i.rd = 0 THEN Nop(m)
    ELSE IF i.rs = i.rt THEN Result(m, i.rd, 0)
    ELSE IF i.rs = 0 THEN Result(m, i.rd, Minus(0, At(m, i.rt)))
    ELSE IF i.rt = 0 THEN Move(m, i.rd, i.rs)
    ELSE IF i.rd = i.rs
         THEN Result(m, i.rd, Minus(At(m, i.rd), At(m, i.rt)))
    ELSE Accumulate(m, i.rd, i.rs, Minus, i.rt)

(* jo: the result is in eax, the destination has not been touched.           *)
Unless(overflow, m, result) == IF overflow THEN Raise(m, "Ov") ELSE result

SUB(m, i) ==
    LET difference == Signed(At(m, i.rs)) - Signed(At(m, i.rt))
    IN  IF i.rd = 0 THEN Nop(m)
        ELSE IF i.rs = i.rt THEN Result(m, i.rd, 0)
        ELSE IF i.rs = 0
             THEN Unless(At(m, i.rt) = Top, m,
                         Result(m, i.rd, Minus(0, At(m, i.rt))))
        ELSE IF i.rt = 0 THEN Move(m, i.rd, i.rs)
        ELSE Unless(Overflows(difference), m,
                    Result(m, i.rd, Wrap(difference)))

MOVE(m, i) ==
    IF i.rt \in {0, i.rs} THEN Nop(m)
    ELSE IF i.rs = 0 THEN Result(m, i.rt, 0)
    ELSE Move(m, i.rt, i.rs)

ADDIU(m, i) ==
    IF i.rt = 0 THEN Nop(m)
    ELSE IF i.rs = 0 THEN Result(m, i.rt, Wrap(Offset(i)))
    ELSE IF i.rs = i.rt /\ i.imm = 0 THEN Nop(m)
    ELSE Result(m, i.rt, Plus(At(m, i.rs), Offset(i)))

ADDU(m, i) ==
    IF i.rd = 0 THEN Nop(m)
    ELSE IF i.rt = 0 THEN Move(m, i.rd, i.rs)
    ELSE IF i.rs = 0 THEN Move(m, i.rd, i.rt)
    ELSE IF i.rd \in {i.rs, i.rt}
         THEN Result(m, i.rd, Plus(At(m, i.rs), At(m, i.rt)))
    ELSE Accumulate(m, i.rd, i.rs, Plus, i.rt)

(* Mutant: a sum in place is not taken back when it overflows.               *)
ADDInPlace(m, i) ==
    LET sum == Signed(At(m, i.rs)) + Signed(At(m, i.rt))
    IN  IF i.rd = 0 THEN Nop(m)
        ELSE IF i.rt = 0 THEN Move(m, i.rd, i.rs)
        ELSE IF i.rs = 0 THEN Move(m, i.rd, i.rt)
        ELSE Unless(Overflows(sum),
                    IF i.rs = i.rd THEN Put(m, i.rd, Wrap(sum)) ELSE m,
                    Result(m, i.rd, Wrap(sum)))

(* With rs = rd the sum is made in place and taken back when it overflows.   *)
ADD(m, i) ==
    LET sum == Signed(At(m, i.rs)) + Signed(At(m, i.rt))
        inPlace == Put(m, i.rd, Wrap(sum))
        back == Put(m, i.rd, Minus(At(inPlace, i.rd), At(m, i.rt)))
    IN  IF i.rd = 0 THEN Nop(m)
        ELSE IF i.rt = 0 THEN Move(m, i.rd, i.rs)
        ELSE IF i.rs = 0 THEN Move(m, i.rd, i.rt)
        ELSE IF i.rs = i.rd
             THEN Unless(Overflows(sum), back, Continue(inPlace))
        ELSE Unless(Overflows(sum), m, Result(m, i.rd, Wrap(sum)))

AUI(m, i) ==
    LET immediate == Shl(i.imm, Bits \div 2)
    IN  IF i.rt = 0 THEN Nop(m)
        ELSE IF i.rs = 0 THEN Result(m, i.rt, immediate)
        ELSE IF immediate = 0 THEN Move(m, i.rt, i.rs)
        ELSE Result(m, i.rt, Plus(At(m, i.rs), immediate))

(* rd = rs: the shift is made in place, and rt read behind it.               *)
LSA(m, i) ==
    LET shifted == Shl(At(m, i.rs), i.sa + 1)
        inPlace == Put(m, i.rd, shifted)
    IN  IF i.rd = 0 THEN Nop(m)
        ELSE IF i.rs = 0 THEN Move(m, i.rd, i.rt)
        ELSE IF i.rs = i.rd /\ i.rt = 0 THEN Continue(inPlace)
        ELSE IF i.rs = i.rd /\ ~IsREG(i.rd) /\ ~IsREG(i.rt) THEN Refused(m)
        ELSE IF i.rs = i.rd
             THEN Result(inPlace, i.rd, Plus(shifted, At(inPlace, i.rt)))
        ELSE Result(m, i.rd, Plus(shifted, At(m, i.rt)))

(* imul and mul leave both halves of a product in edx:eax.                   *)
Product(m, i, product) ==
    IF i.rd = 0 THEN Nop(m)
    ELSE IF 0 \in {i.rs, i.rt} THEN Result(m, i.rd, 0)
    ELSE Result(m, i.rd, product)
Low(n) == Wrap(n)
High(n) == Wrap(n \div 2^Bits)
MUL(m, i) == Product(m, i, Low(Signed(At(m, i.rs)) * Signed(At(m, i.rt))))
MUH(m, i) == Product(m, i, High(Signed(At(m, i.rs)) * Signed(At(m, i.rt))))
MULU(m, i) == Product(m, i, Low(At(m, i.rs) * At(m, i.rt)))
MUHU(m, i) == Product(m, i, High(At(m, i.rs) * At(m, i.rt)))

(* idiv traps on the host for the lowest integer by -1.                      *)
DIV(m, i) ==
    LET a == Signed(At(m, i.rs))
        b == Signed(At(m, i.rt))
    IN  IF i.rd = 0 THEN Nop(m)
        ELSE IF 0 \in {i.rs, i.rt} THEN Result(m, i.rd, 0)
        ELSE IF i.rs = i.rt THEN Result(m, i.rd, IF b = 0 THEN 0 ELSE 1)
        ELSE IF b = 0 THEN Result(m, i.rd, 0)
        ELSE IF a = -Top /\ b = -1 THEN Ended(m, <<"host trap">>)
        ELSE Result(m, i.rd, Wrap(Quotient(a, b)))
MOD(m, i) ==
    LET a == Signed(At(m, i.rs))
        b == Signed(At(m, i.rt))
    IN  IF i.rd = 0 THEN Nop(m)
        ELSE IF 0 \in {i.rs, i.rt} \/ i.rs = i.rt THEN Result(m, i.rd, 0)
        ELSE IF b = 0 THEN Result(m, i.rd, 0)
        ELSE IF a = -Top /\ b = -1 THEN Ended(m, <<"host trap">>)
        ELSE Result(m, i.rd, Wrap(Remainder(a, b)))
DIVU(m, i) ==
    LET a == At(m, i.rs)
        b == At(m, i.rt)
    IN  IF i.rd = 0 THEN Nop(m)
        ELSE IF 0 \in {i.rs, i.rt} THEN Result(m, i.rd, 0)
        ELSE IF i.rs = i.rt THEN Result(m, i.rd, IF b = 0 THEN 0 ELSE 1)
        ELSE Result(m, i.rd, IF b = 0 THEN 0 ELSE a \div b)
MODU(m, i) ==
    LET a == At(m, i.rs)
        b == At(m, i.rt)
    IN  IF i.rd = 0 THEN Nop(m)
        ELSE IF 0 \in {i.rs, i.rt} \/ i.rs = i.rt THEN Result(m, i.rd, 0)
        ELSE Result(m, i.rd, IF b = 0 THEN 0 ELSE a % b)


-------------------------------------------------------------------------------
(* Logic                                                                     *)

OR(m, i) ==
    IF i.rd = 0 THEN Nop(m)
    ELSE IF i.rs = 0 /\ i.rt = 0 THEN Result(m, i.rd, 0)
    ELSE IF i.rs \in {0, i.rt} THEN Move(m, i.rd, i.rt)
    ELSE IF i.rt = 0 THEN Move(m, i.rd, i.rs)
    ELSE Accumulate(m, i.rd, i.rt, Or, i.rs)

(* The complement that ends the last form does not read rs again.            *)
NOR(m, i) ==
    LET NotOr(x, y) == Not(Or(x, y))
    IN  IF i.rd = 0 THEN Nop(m)
        ELSE IF i.rs = 0 /\ i.rt = 0 THEN Result(m, i.rd, Highest)
        ELSE IF i.rs \in {0, i.rt} THEN Result(m, i.rd, Not(At(m, i.rt)))
        ELSE IF i.rt = 0 THEN Result(m, i.rd, Not(At(m, i.rs)))
        ELSE Accumulate(m, i.rd, i.rt, NotOr, i.rs)

AND(m, i) ==
    IF i.rd = 0 THEN Nop(m)
    ELSE IF 0 \in {i.rs, i.rt} THEN Result(m, i.rd, 0)
    ELSE IF i.rs = i.rt THEN Move(m, i.rd, i.rt)
    ELSE Accumulate(m, i.rd, i.rt, And, i.rs)

XOR(m, i) ==
    IF i.rd = 0 THEN Nop(m)
    ELSE IF i.rs = i.rt THEN Result(m, i.rd, 0)
    ELSE IF i.rs = 0 THEN Move(m, i.rd, i.rt)
    ELSE IF i.rt = 0 THEN Move(m, i.rd, i.rs)
    ELSE Result(m, i.rd, Xor(At(m, i.rs), At(m, i.rt)))

Immediate(m, i, Op(_, _)) ==
    IF i.rt = 0 THEN Nop(m)
    ELSE IF i.rs = 0 THEN Result(m, i.rt, Op(0, i.imm))
    ELSE Result(m, i.rt, Op(At(m, i.rs), i.imm))
ORI(m, i) == Immediate(m, i, Or)
XORI(m, i) == Immediate(m, i, Xor)
ANDI(m, i) == Immediate(m, i, And)

(* A mask of ones or zeros is made of the carry, cmp op_rt, 1; sbb.  In a    *)
(* host register that is the destination already, and rs is read behind it.  *)
Mask(m, i, chosen) ==
    LET mask == IF chosen THEN Highest ELSE 0
        source == IF IsREG(i.rd) /\ i.rs # i.rt THEN Put(m, i.rd, mask) ELSE m
    IN  Result(m, i.rd, And(mask, At(source, i.rs)))
SELEQZ(m, i) ==
    IF i.rd = 0 THEN Nop(m)
    ELSE IF i.rt = 0 THEN Move(m, i.rd, i.rs)
    ELSE Mask(m, i, At(m, i.rt) = 0)
SELNEZ(m, i) ==
    IF i.rd = 0 THEN Nop(m)
    ELSE IF i.rt = 0 THEN Result(m, i.rd, 0)
    ELSE Mask(m, i, At(m, i.rt) # 0)

Truth(condition) == IF condition THEN 1 ELSE 0
SLT(m, i) ==
    IF i.rd = 0 THEN Nop(m)
    ELSE IF i.rs = i.rt THEN Result(m, i.rd, 0)
    ELSE Result(m, i.rd, Truth(Signed(At(m, i.rs)) < Signed(At(m, i.rt))))
SLTU(m, i) ==
    IF i.rd = 0 THEN Nop(m)
    ELSE IF i.rt \in {0, i.rs} THEN Result(m, i.rd, 0)
    ELSE Result(m, i.rd, Truth(At(m, i.rs) < At(m, i.rt)))

(* setl and setb take a byte: the assembler refuses a host register of 32    *)
(* bits.  The immediates 0 and 1 have forms that do not use them.            *)
SetsRegister(i) == i.imm \notin {0, 1} /\ IsREG(i.rt) /\ i.rs # i.rt
SLTI(m, i) ==
    IF i.rt = 0 THEN Nop(m)
    ELSE IF i.rs = 0 THEN Result(m, i.rt, Truth(Offset(i) > 0))
    ELSE IF SetsRegister(i) THEN Refused(m)
    ELSE Result(m, i.rt, Truth(Signed(At(m, i.rs)) < Offset(i)))
SLTIU(m, i) ==
    IF i.rt = 0 THEN Nop(m)
    ELSE IF i.imm = 0 THEN Result(m, i.rt, 0)
    ELSE IF i.rs = 0 THEN Result(m, i.rt, 1)
    ELSE IF SetsRegister(i) THEN Refused(m)
    ELSE Result(m, i.rt, Truth(At(m, i.rs) < Wrap(Offset(i))))

-------------------------------------------------------------------------------
(* Shifts and fields                                                         *)

Unary(m, d, s, zero, value) ==
    IF d = 0 THEN Nop(m)
    ELSE IF s = 0 THEN Result(m, d, zero)
    ELSE Result(m, d, value)
SEB(m, i) ==
    Unary(m, i.rd, i.rt, 0, SignExtend(At(m, i.rt), Bits \div 4))
SEH(m, i) ==
    Unary(m, i.rd, i.rt, 0, SignExtend(At(m, i.rt), Bits \div 2))
SLL(m, i) == Unary(m, i.rd, i.rt, 0, Shl(At(m, i.rt), i.sa))
SRL(m, i) == Unary(m, i.rd, i.rt, 0, Shr(At(m, i.rt), i.sa))
SRA(m, i) == Unary(m, i.rd, i.rt, 0, Sar(At(m, i.rt), i.sa))

(* shl and shr by cl take the count modulo the word.                         *)
Variable(m, i, Shift(_, _)) ==
    IF i.rs = 0 /\ i.rd # 0 /\ i.rt # 0 THEN Move(m, i.rd, i.rt)
    ELSE Unary(m, i.rd, i.rt, 0, Shift(At(m, i.rt), At(m, i.rs) % Bits))
SLLV(m, i) == Variable(m, i, Shl)
SRLV(m, i) == Variable(m, i, Shr)

(* The mask of all bits is a shift by a whole word, undefined in C++; the    *)
(* hosts of JIT1 shift by nothing and it comes out empty.                    *)
EXT(m, i) ==
    IF i.rt = 0 THEN Nop(m)
    ELSE IF i.sa + i.msb > Bits - 1 THEN Result(m, i.rt, Highest)
    ELSE IF i.rs = 0 \/ i.msb = Bits - 1 THEN Result(m, i.rt, 0)
    ELSE Result(m, i.rt, Shr(At(m, i.rs), i.sa) % (2^(i.msb + 1)))

(* rs = rt keeps the bits that the mask of the size has or the field has     *)
(* not, and inserts nothing.                                                 *)
INS(m, i) ==
    LET bits == 0 .. Bits - 1
        field == i.sa .. i.msb
        size == i.msb - i.sa + 1
        keep(S) == Result(m, i.rt, WordOf[BitsOf[At(m, i.rt)] \cap S])
        moved == {b \in field : b - i.sa \in BitsOf[At(m, i.rs)]}
    IN  IF i.rt = 0 THEN Nop(m)
        ELSE IF i.sa > i.msb THEN Result(m, i.rt, Highest)
        ELSE IF i.rs = 0 THEN keep(bits \ field)
        ELSE IF i.rs = i.rt /\ i.sa = 0 THEN Nop(m)
        ELSE IF i.rs = i.rt THEN keep((0 .. size - 1) \cup (bits \ field))
        ELSE IF field = bits THEN Nop(m)
        ELSE Result(m, i.rt,
                    WordOf[(BitsOf[At(m, i.rt)] \ field) \cup moved])

(* bsr gives the number of the highest bit that is set, where lzcnt gives    *)
(* its distance from the top, and leaves twice a word less one for zero.     *)
(* Only the form for $30 in place turns one into the other.                  *)
BitIndex(x) == IF x = 0 THEN 2 * Bits - 1 ELSE Bits - 1 - LeadingZeros(x)
InPlace(i) == i.rs = i.rd /\ IsREG(i.rs)
CLZ(m, i) ==
    LET x == At(m, i.rs)
    IN  Unary(m, i.rd, i.rs, Bits,
              IF Lzcnt \/ InPlace(i) THEN LeadingZeros(x) ELSE BitIndex(x))

(* Without lzcnt the operand is read again and its complement is lost.       *)
CLO(m, i) ==
    LET x == At(m, i.rs)
    IN  Unary(m, i.rd, i.rs, 0,
              IF Lzcnt \/ InPlace(i) THEN LeadingZeros(Not(x))
                                     ELSE BitIndex(x))

-------------------------------------------------------------------------------
(* System and traps                                                          *)

EHB(m, i) == Nop(m)
SYNC(m, i) == Nop(m)

(* The selector is the field rd; only two are known, and rt = $0 is written. *)
RDHWR(m, i) ==
    CASE i.rd = 29 -> Result(m, i.rt, UserValue)
      [] i.rd = 1 -> Result(m, i.rt, CacheLine)
      [] OTHER -> Raise(m, "RI")

BREAK(m, i) == Coded(m, "Bp", i)
(* The code of 16 bits is at the end of the word; what is read is that of    *)
(* BREAK, the 20 bits from bit 6 on.                                         *)
SIGRIE(m, i) == Ended(m, <<"raise", "RI", 23 * 2^10 + i.sa \div 64>>)

TrapIf(m, i, condition) ==
    IF condition THEN Coded(m, "Tr", i) ELSE Nop(m)
TEQ(m, i) == TrapIf(m, i, i.rs = i.rt \/ At(m, i.rs) = At(m, i.rt))
TGE(m, i) ==
    TrapIf(m, i, i.rs = i.rt \/ Signed(At(m, i.rs)) >= Signed(At(m, i.rt)))
TGEU(m, i) == TrapIf(m, i, i.rs = i.rt \/ At(m, i.rs) >= At(m, i.rt))
TLT(m, i) ==
    TrapIf(m, i, i.rs # i.rt /\ Signed(At(m, i.rs)) < Signed(At(m, i.rt)))
TLTU(m, i) == TrapIf(m, i, i.rs # i.rt /\ At(m, i.rs) < At(m, i.rt))
TNE(m, i) == TrapIf(m, i, i.rs # i.rt /\ At(m, i.rs) # At(m, i.rt))

-------------------------------------------------------------------------------
(* Branches with a delay slot: the target is in esi, branch_delay in ebx.    *)

LinkTo(m, distance) == Put(m, ra, Wrap(Pc + distance))
DelayIf(m, i, condition) ==
    IF condition THEN DelayBranch(m, BranchTarget(i)) ELSE NoCTI(m)

BEQ(m, i) == DelayIf(m, i, i.rs = i.rt \/ At(m, i.rs) = At(m, i.rt))
BNE(m, i) == DelayIf(m, i, i.rs # i.rt /\ At(m, i.rs) # At(m, i.rt))
BGEZ(m, i) == DelayIf(m, i, i.rs = 0 \/ Signed(At(m, i.rs)) >= 0)
BGTZ(m, i) == DelayIf(m, i, i.rs # 0 /\ Signed(At(m, i.rs)) > 0)
BLEZ(m, i) == DelayIf(m, i, i.rs = 0 \/ Signed(At(m, i.rs)) <= 0)
BLTZ(m, i) == DelayIf(m, i, i.rs # 0 /\ Signed(At(m, i.rs)) < 0)
BAL(m, i) == DelayBranch(LinkTo(m, 8), BranchTarget(i))
J(m, i) == DelayBranch(m, RegionTarget(i))
JAL(m, i) == DelayBranch(LinkTo(m, 8), RegionTarget(i))

JumpTarget(m, i) == IF i.rs = 0 THEN 0 ELSE At(m, i.rs)
JR(m, i) == DelayBranch(m, JumpTarget(m, i))
(* esi is loaded before the link is written.                                 *)
JALR(m, i) ==
    DelayBranch(IF i.rd = 0 THEN m ELSE Put(m, i.rd, Wrap(Pc + 8)),
                JumpTarget(m, i))

-------------------------------------------------------------------------------
(* Compact branches                                                          *)

CompactIf(m, i, condition) ==
    IF condition THEN CompactBranch(m, BranchTarget(i)) ELSE NoCTI(m)
BC(m, i) == CompactIf(m, i, TRUE)
BALC(m, i) == CompactIf(LinkTo(m, 4), i, TRUE)

(* The form tests [rt] against zero, after the link where there is one.      *)
NotPositive(x) == Signed(x) <= 0
Positive(x) == Signed(x) > 0
Negative(x) == Signed(x) < 0
NotNegative(x) == Signed(x) >= 0
IsZero(x) == x = 0
IsNotZero(x) == x # 0
(* Mutant: the register is tested before the link is written to it.          *)
UnlinkedRt(m, i) == At(m, i.rt)
LinkedRt(m, i) == At(LinkTo(m, 4), i.rt)
LinkIf(m, i, condition) == CompactIf(LinkTo(m, 4), i, condition)

(* $31 is written before rt = $0 turns out to be reserved.                   *)
BLEZALC(m, i) ==
    IF i.rt = 0 THEN Raise(LinkTo(m, 4), "RI") ELSE LinkIf(m, i, NotPositive(LinkedRt(m, i)))
BGTZALC(m, i) ==
    IF i.rt = 0 THEN Raise(LinkTo(m, 4), "RI") ELSE LinkIf(m, i, Positive(LinkedRt(m, i)))
BLEZC(m, i) ==
    IF i.rt = 0 THEN Raise(m, "RI")
    ELSE CompactIf(m, i, NotPositive(At(m, i.rt)))
BGTZC(m, i) ==
    IF i.rt = 0 THEN Raise(m, "RI")
    ELSE CompactIf(m, i, Positive(At(m, i.rt)))
BEQZC(m, i) ==
    IF i.rs = 0 THEN Raise(m, "RI") ELSE CompactIf(m, i, At(m, i.rs) = 0)
BNEZC(m, i) ==
    IF i.rs = 0 THEN Raise(m, "RI") ELSE CompactIf(m, i, At(m, i.rs) # 0)

SignedLess(m, i) == Signed(At(m, i.rs)) < Signed(At(m, i.rt))

(* BGEUC and BLTUC are unsigned; jl and jge are not.                         *)
POP06(m, i) ==
    IF 0 \in {i.rs, i.rt} THEN Raise(m, "RI")
    ELSE IF i.rs = i.rt THEN LinkIf(m, i, NotNegative(LinkedRt(m, i)))
    ELSE CompactIf(m, i, ~SignedLess(m, i))
POP07(m, i) ==
    IF 0 \in {i.rs, i.rt} THEN Raise(m, "RI")
    ELSE IF i.rs = i.rt THEN LinkIf(m, i, Negative(LinkedRt(m, i)))
    ELSE CompactIf(m, i, SignedLess(m, i))
POP26(m, i) ==
    IF 0 \in {i.rs, i.rt} THEN Raise(m, "RI")
    ELSE IF i.rs = i.rt THEN CompactIf(m, i, NotNegative(At(m, i.rt)))
    ELSE CompactIf(m, i, ~SignedLess(m, i))
POP27(m, i) ==
    IF 0 \in {i.rs, i.rt} THEN Raise(m, "RI")
    ELSE IF i.rs = i.rt THEN CompactIf(m, i, Negative(At(m, i.rt)))
    ELSE CompactIf(m, i, SignedLess(m, i))

(* BOVC and BNVC ask for the overflow of a signed sum; jnc and jc test the   *)
(* carry of an unsigned one.                                                 *)
Carry(m, i) == At(m, i.rs) + At(m, i.rt) > Highest
POP10(m, i) ==
    IF i.rs = 0 /\ i.rt # 0 THEN LinkIf(m, i, IsZero(LinkedRt(m, i)))
    ELSE IF i.rs < i.rt THEN CompactIf(m, i, At(m, i.rs) = At(m, i.rt))
    ELSE CompactIf(m, i, Carry(m, i))
POP30(m, i) ==
    IF i.rs = 0 /\ i.rt # 0 THEN LinkIf(m, i, IsNotZero(LinkedRt(m, i)))
    ELSE IF i.rs < i.rt THEN CompactIf(m, i, At(m, i.rs) # At(m, i.rt))
    ELSE CompactIf(m, i, ~Carry(m, i))

(* JIALC reads rt behind the link.                                           *)
Indexed(m, i) == Wrap((IF i.rt = 0 THEN 0 ELSE At(m, i.rt)) + Offset(i))
JIC(m, i) == CompactBranch(m, Indexed(m, i))
JIALC(m, i) ==
    LET linked == LinkTo(m, 4) IN CompactBranch(linked, Indexed(linked, i))
==============================================================================

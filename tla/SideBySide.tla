----------------------------- MODULE SideBySide ------------------------------
(*****************************************************************************)
(* The two engines on the same instruction, as main.cpp runs them side by    *)
(* side and compares their processors and memories: the interpreter on its   *)
(* register file, JIT1 on the slots and the host register.  Every pair of    *)
(* states that agree is initial, so that one instruction from each stands    *)
(* for any sequence.                                                         *)
(*****************************************************************************)
EXTENDS InstructionSet, Sequences

CONSTANTS
    Lzcnt,          \* the host counts leading zeros in one instruction
    Operand,        \* the registers that instructions name
    Start,          \* the register files to start from
    MemorySize,
    Contents,       \* of memory at the start
    Configurations  \* of memory, see GuestMemory

ASSUME SideBySideAssumption ==
    /\ Lzcnt \in BOOLEAN /\ MemorySize \in 4 .. 2^Bits
    /\ Operand \subseteq Register
    /\ \A r \in Start : r \in [Register -> Word] /\ r[0] = 0
    /\ \A c \in Configurations :       \* what system::options::validate accepts
          /\ c.mmu \in {"none", "emulated"} /\ c.stack \in 0 .. MemorySize
          /\ c.mmu = "emulated" => c.stack = 0
          /\ c.executable # {} => c.rox /\ c.mmu = "emulated"
          /\ \A b \in c.executable :
                b[1] \in 0 .. MemorySize /\ b[2] \in 0 .. MemorySize

VARIABLES
    guest,          \* the interpreter's registers
    host,           \* the machine of JIT1, [slot, r15d]
    memory,         \* the memory of each, [guest, host]
    executed        \* <<>>, or the instruction and how each engine ended it

vars == <<guest, host, memory, executed>>

I == INSTANCE InterpretedInstructions
E == INSTANCE EmittedInstructions
IM == INSTANCE InterpretedMemory
EM == INSTANCE EmittedMemory
AD == INSTANCE AccessDifferences

-------------------------------------------------------------------------------
(* Instructions by the operands they have                                    *)

Arithmetic == {"ADD", "SUB", "ADDU", "SUBU", "MUL", "MUH", "MULU", "MUHU",
    "DIV", "MOD", "DIVU", "MODU", "AND", "OR", "NOR", "XOR", "SLT", "SLTU",
    "SELEQZ", "SELNEZ", "SLLV", "SRLV", "SRAV", "ROTRV"}
WithImmediate == {"ADDIU", "AUI", "ANDI", "ORI", "XORI", "SLTI", "SLTIU"}
Shifts == {"SLL", "SRL", "SRA", "ROTR"}
Fields == {"EXT", "INS"}
OfRt == {"SEB", "SEH", "BITSWAP", "WSBH"}
OfRs == {"CLZ", "CLO"}
OfPc == {"ADDIUPC", "AUIPC", "ALUIPC"}
Traps == {"TEQ", "TGE", "TGEU", "TLT", "TLTU", "TNE"}
Compares == {"BEQ", "BNE", "POP06", "POP07", "POP10", "POP26", "POP27", "POP30"}
TestsRs == {"BGEZ", "BGTZ", "BLEZ", "BLTZ", "BEQZC", "BNEZC"}
TestsRt == {"BLEZALC", "BGTZALC", "BLEZC", "BGTZC", "JIC", "JIALC"}
Jumps == {"BAL", "NAL", "J", "JAL", "BC", "BALC"}
Loads == {"LB", "LBU", "LH", "LHU", "LW"}
Stores == {"SB", "SH", "SW"}
Implied == {"BREAK", "SDBBP", "SIGRIE", "EHB", "SYNC", "SYNCI", "COP2"}
Hints == {"NOP", "SSNOP", "PAUSE", "PREF"}
RequiresCoP0 == {"COP0", "CACHEE", "GINVI", "LBE", "LBUE", "LHE", "LHUE", "LWE",
    "LLE", "LLWPE", "PREFE", "SBE", "SHE", "SWE", "SCE", "SCWPE", "WAIT"}

Instruction(RD, RS, RT, SA, MSB, IMM) ==
    [rd : RD, rs : RS, rt : RT, sa : SA, msb : MSB, imm : IMM]

(* One sort of instruction at a time: operations and their operands.         *)
Sorts ==
    LET none == {0}
        amounts == 0 .. Bits - 1
    IN  {<<Arithmetic, Instruction(Operand, Operand, Operand, none, none, none)>>,
         <<WithImmediate, Instruction(none, Operand, Operand, none, none, Half)>>,
         <<{"MOVE"}, Instruction(none, Operand, Operand, none, none, none)>>,
         <<{"LSA", "ALIGN"},
           Instruction(Operand, Operand, Operand, 0 .. 3, none, none)>>,
         <<Shifts, Instruction(Operand, none, Operand, amounts, none, none)>>,
         <<Fields, Instruction(none, Operand, Operand, amounts, amounts, none)>>,
         <<OfRt, Instruction(Operand, none, Operand, none, none, none)>>,
         <<OfRs, Instruction(Operand, Operand, none, none, none, none)>>,
         <<OfPc, Instruction(none, Operand, none, none, none, Half)>>,
         <<{"RDHWR"},
           Instruction({0, 1, 2, 3, 4, 5, 29}, none, Operand, none, none, none)>>,
         <<Traps, Instruction(none, Operand, Operand, 0 .. 1, none, none)>>,
         <<Compares, Instruction(none, Operand, Operand, none, none, Half)>>,
         <<TestsRs, Instruction(none, Operand, none, none, none, Half)>>,
         <<{"JR"}, Instruction(none, Operand, none, none, none, none)>>,
         <<{"JALR"}, Instruction(Operand, Operand, none, none, none, none)>>,
         <<TestsRt,
           Instruction(none, none, Operand \cup {ra}, none, none, Half)>>,
         <<Jumps, Instruction(none, none, none, none, none, Half)>>,
         <<Implied, Instruction(none, none, none, 0 .. 1, none, none)>>,
         <<Hints \cup RequiresCoP0,
           Instruction(none, none, none, none, none, none)>>}

MemorySorts ==
    {<<Loads \cup Stores, Instruction({0}, Operand, Operand, {0}, {0}, Half)>>,
     <<{"LWPC", "CACHE"}, Instruction({0}, Operand, {0}, {0}, {0}, Half)>>}

-------------------------------------------------------------------------------
(* The two engines                                                           *)

Interpret(op, r, i) ==
    CASE op = "ADD" -> I!ADD(r, i)          [] op = "SUB" -> I!SUB(r, i)
      [] op = "ADDU" -> I!ADDU(r, i)        [] op = "SUBU" -> I!SUBU(r, i)
      [] op = "ADDIU" -> I!ADDIU(r, i)      [] op = "AUI" -> I!AUI(r, i)
      [] op = "MOVE" -> I!MOVE(r, i)        [] op = "LSA" -> I!LSA(r, i)
      [] op = "MUL" -> I!MUL(r, i)          [] op = "MUH" -> I!MUH(r, i)
      [] op = "MULU" -> I!MULU(r, i)        [] op = "MUHU" -> I!MUHU(r, i)
      [] op = "DIV" -> I!DIV(r, i)          [] op = "MOD" -> I!MOD(r, i)
      [] op = "DIVU" -> I!DIVU(r, i)        [] op = "MODU" -> I!MODU(r, i)
      [] op = "AND" -> I!AND(r, i)          [] op = "OR" -> I!OR(r, i)
      [] op = "NOR" -> I!NOR(r, i)          [] op = "XOR" -> I!XOR(r, i)
      [] op = "ANDI" -> I!ANDI(r, i)        [] op = "ORI" -> I!ORI(r, i)
      [] op = "XORI" -> I!XORI(r, i)        [] op = "SLT" -> I!SLT(r, i)
      [] op = "SLTU" -> I!SLTU(r, i)        [] op = "SLTI" -> I!SLTI(r, i)
      [] op = "SLTIU" -> I!SLTIU(r, i)      [] op = "SELEQZ" -> I!SELEQZ(r, i)
      [] op = "SELNEZ" -> I!SELNEZ(r, i)    [] op = "SLL" -> I!SLL(r, i)
      [] op = "SRL" -> I!SRL(r, i)          [] op = "SRA" -> I!SRA(r, i)
      [] op = "SLLV" -> I!SLLV(r, i)        [] op = "SRLV" -> I!SRLV(r, i)
      [] op = "SRAV" -> I!SRAV(r, i)        [] op = "ROTR" -> I!ROTR(r, i)
      [] op = "ROTRV" -> I!ROTRV(r, i)      [] op = "ALIGN" -> I!ALIGN(r, i)
      [] op = "SEB" -> I!SEB(r, i)          [] op = "SEH" -> I!SEH(r, i)
      [] op = "BITSWAP" -> I!BITSWAP(r, i)  [] op = "WSBH" -> I!WSBH(r, i)
      [] op = "EXT" -> I!EXT(r, i)          [] op = "INS" -> I!INS(r, i)
      [] op = "CLZ" -> I!CLZ(r, i)          [] op = "CLO" -> I!CLO(r, i)
      [] op = "ADDIUPC" -> I!ADDIUPC(r, i)  [] op = "AUIPC" -> I!AUIPC(r, i)
      [] op = "ALUIPC" -> I!ALUIPC(r, i)    [] op = "EHB" -> I!EHB(r, i)
      [] op = "SYNC" -> I!SYNC(r, i)        [] op = "SYNCI" -> I!SYNCI(r, i)
      [] op = "RDHWR" -> I!RDHWR(r, i)      [] op = "COP0" -> I!Coprocessor0(r, i)
      [] op = "COP2" -> I!Coprocessor2(r, i)
      [] op = "BREAK" -> I!BREAK(r, i)
      [] op = "SIGRIE" -> I!SIGRIE(r, i)    [] op = "TEQ" -> I!TEQ(r, i)
      [] op = "TGE" -> I!TGE(r, i)          [] op = "TGEU" -> I!TGEU(r, i)
      [] op = "TLT" -> I!TLT(r, i)          [] op = "TLTU" -> I!TLTU(r, i)
      [] op = "TNE" -> I!TNE(r, i)          [] op = "BEQ" -> I!BEQ(r, i)
      [] op = "BNE" -> I!BNE(r, i)          [] op = "BGEZ" -> I!BGEZ(r, i)
      [] op = "BGTZ" -> I!BGTZ(r, i)        [] op = "BLEZ" -> I!BLEZ(r, i)
      [] op = "BLTZ" -> I!BLTZ(r, i)        [] op = "BAL" -> I!BAL(r, i)
      [] op = "NAL" -> I!NAL(r, i)          [] op = "J" -> I!J(r, i)
      [] op = "JAL" -> I!JAL(r, i)          [] op = "JR" -> I!JR(r, i)
      [] op = "JALR" -> I!JALR(r, i)        [] op = "BC" -> I!BC(r, i)
      [] op = "BALC" -> I!BALC(r, i)        [] op = "JIC" -> I!JIC(r, i)
      [] op = "JIALC" -> I!JIALC(r, i)      [] op = "BEQZC" -> I!BEQZC(r, i)
      [] op = "BNEZC" -> I!BNEZC(r, i)      [] op = "BLEZALC" -> I!BLEZALC(r, i)
      [] op = "BGTZALC" -> I!BGTZALC(r, i)  [] op = "BLEZC" -> I!BLEZC(r, i)
      [] op = "BGTZC" -> I!BGTZC(r, i)      [] op = "POP06" -> I!POP06(r, i)
      [] op = "POP07" -> I!POP07(r, i)      [] op = "POP10" -> I!POP10(r, i)
      [] op = "POP26" -> I!POP26(r, i)      [] op = "POP27" -> I!POP27(r, i)
      [] op = "POP30" -> I!POP30(r, i)
      [] op = "SDBBP" -> I!SDBBP(r, i)      [] op = "NOP" -> I!NOP(r, i)
      [] op = "SSNOP" -> I!SSNOP(r, i)      [] op = "PAUSE" -> I!PAUSE(r, i)
      [] op = "PREF" -> I!PREF(r, i)        [] op = "CACHEE" -> I!CACHEE(r, i)
      [] op = "GINVI" -> I!GINVI(r, i)      [] op = "LBE" -> I!LBE(r, i)
      [] op = "LBUE" -> I!LBUE(r, i)        [] op = "LHE" -> I!LHE(r, i)
      [] op = "LHUE" -> I!LHUE(r, i)        [] op = "LWE" -> I!LWE(r, i)
      [] op = "LLE" -> I!LLE(r, i)          [] op = "LLWPE" -> I!LLWPE(r, i)
      [] op = "PREFE" -> I!PREFE(r, i)      [] op = "SBE" -> I!SBE(r, i)
      [] op = "SHE" -> I!SHE(r, i)          [] op = "SWE" -> I!SWE(r, i)
      [] op = "SCE" -> I!SCE(r, i)          [] op = "SCWPE" -> I!SCWPE(r, i)
      [] op = "WAIT" -> I!WAIT(r, i)

(* What is not emitted is a call of the interpreter's handler.  It works on  *)
(* the slots: r15d is neither stored before it nor loaded after it, and the  *)
(* slot of $0 is cleared.                                                    *)
NotEmitted == {"ROTR", "ROTRV", "SRAV", "ALIGN", "BITSWAP", "WSBH", "NAL",
               "SYNCI", "SDBBP", "SSNOP", "PAUSE", "PREF", "COP2"} \cup OfPc
Called(m, op, i) ==
    LET done == Interpret(op, m.slot, i)
    IN  Ended([m EXCEPT !.slot = [done.regs EXCEPT ![0] = 0]], done.out)

(* RequiresCoP0 is tested before all else.                                   *)
Emitted(op, m, i) ==
    CASE op \in NotEmitted -> Called(m, op, i)
      [] op \in RequiresCoP0 -> Raise(m, "CpU")
      [] op = "NOP" -> Continue(m)
      [] op = "ADD" -> E!ADD(m, i)          [] op = "SUB" -> E!SUB(m, i)
      [] op = "ADDU" -> E!ADDU(m, i)        [] op = "SUBU" -> E!SUBU(m, i)
      [] op = "ADDIU" -> E!ADDIU(m, i)      [] op = "AUI" -> E!AUI(m, i)
      [] op = "MOVE" -> E!MOVE(m, i)        [] op = "LSA" -> E!LSA(m, i)
      [] op = "MUL" -> E!MUL(m, i)          [] op = "MUH" -> E!MUH(m, i)
      [] op = "MULU" -> E!MULU(m, i)        [] op = "MUHU" -> E!MUHU(m, i)
      [] op = "DIV" -> E!DIV(m, i)          [] op = "MOD" -> E!MOD(m, i)
      [] op = "DIVU" -> E!DIVU(m, i)        [] op = "MODU" -> E!MODU(m, i)
      [] op = "AND" -> E!AND(m, i)          [] op = "OR" -> E!OR(m, i)
      [] op = "NOR" -> E!NOR(m, i)          [] op = "XOR" -> E!XOR(m, i)
      [] op = "ANDI" -> E!ANDI(m, i)        [] op = "ORI" -> E!ORI(m, i)
      [] op = "XORI" -> E!XORI(m, i)        [] op = "SLT" -> E!SLT(m, i)
      [] op = "SLTU" -> E!SLTU(m, i)        [] op = "SLTI" -> E!SLTI(m, i)
      [] op = "SLTIU" -> E!SLTIU(m, i)      [] op = "SELEQZ" -> E!SELEQZ(m, i)
      [] op = "SELNEZ" -> E!SELNEZ(m, i)    [] op = "SLL" -> E!SLL(m, i)
      [] op = "SRL" -> E!SRL(m, i)          [] op = "SRA" -> E!SRA(m, i)
      [] op = "SLLV" -> E!SLLV(m, i)        [] op = "SRLV" -> E!SRLV(m, i)
      [] op = "SEB" -> E!SEB(m, i)          [] op = "SEH" -> E!SEH(m, i)
      [] op = "EXT" -> E!EXT(m, i)          [] op = "INS" -> E!INS(m, i)
      [] op = "CLZ" -> E!CLZ(m, i)          [] op = "CLO" -> E!CLO(m, i)
      [] op = "EHB" -> E!EHB(m, i)          [] op = "SYNC" -> E!SYNC(m, i)
      [] op = "RDHWR" -> E!RDHWR(m, i)      [] op = "BREAK" -> E!BREAK(m, i)
      [] op = "SIGRIE" -> E!SIGRIE(m, i)    [] op = "TEQ" -> E!TEQ(m, i)
      [] op = "TGE" -> E!TGE(m, i)          [] op = "TGEU" -> E!TGEU(m, i)
      [] op = "TLT" -> E!TLT(m, i)          [] op = "TLTU" -> E!TLTU(m, i)
      [] op = "TNE" -> E!TNE(m, i)          [] op = "BEQ" -> E!BEQ(m, i)
      [] op = "BNE" -> E!BNE(m, i)          [] op = "BGEZ" -> E!BGEZ(m, i)
      [] op = "BGTZ" -> E!BGTZ(m, i)        [] op = "BLEZ" -> E!BLEZ(m, i)
      [] op = "BLTZ" -> E!BLTZ(m, i)        [] op = "BAL" -> E!BAL(m, i)
      [] op = "J" -> E!J(m, i)              [] op = "JAL" -> E!JAL(m, i)
      [] op = "JR" -> E!JR(m, i)            [] op = "JALR" -> E!JALR(m, i)
      [] op = "BC" -> E!BC(m, i)            [] op = "BALC" -> E!BALC(m, i)
      [] op = "JIC" -> E!JIC(m, i)          [] op = "JIALC" -> E!JIALC(m, i)
      [] op = "BEQZC" -> E!BEQZC(m, i)      [] op = "BNEZC" -> E!BNEZC(m, i)
      [] op = "BLEZALC" -> E!BLEZALC(m, i)  [] op = "BGTZALC" -> E!BGTZALC(m, i)
      [] op = "BLEZC" -> E!BLEZC(m, i)      [] op = "BGTZC" -> E!BGTZC(m, i)
      [] op = "POP06" -> E!POP06(m, i)      [] op = "POP07" -> E!POP07(m, i)
      [] op = "POP10" -> E!POP10(m, i)      [] op = "POP26" -> E!POP26(m, i)
      [] op = "POP27" -> E!POP27(m, i)      [] op = "POP30" -> E!POP30(m, i)

InterpretAccess(op, r, i, c) ==
    CASE op = "LB" -> IM!LB(r, memory.guest, i, c)
      [] op = "LBU" -> IM!LBU(r, memory.guest, i, c)
      [] op = "LH" -> IM!LH(r, memory.guest, i, c)
      [] op = "LHU" -> IM!LHU(r, memory.guest, i, c)
      [] op = "LW" -> IM!LW(r, memory.guest, i, c)
      [] op = "LWPC" -> IM!LWPC(r, memory.guest, i, c)
      [] op = "SB" -> IM!SB(r, memory.guest, i, c)
      [] op = "SH" -> IM!SH(r, memory.guest, i, c)
      [] op = "SW" -> IM!SW(r, memory.guest, i, c)
      [] op = "CACHE" -> IM!CACHE(r, memory.guest, i, c)
CalledAccess(m, i, c) ==
    LET done == IM!CACHE(m.slot, memory.host, i, c)
    IN  IM!Accessed([m EXCEPT !.slot = [done.regs EXCEPT ![0] = 0]],
                    done.memory, done.out)
EmittedAccess(op, m, i, c) ==
    CASE op = "LB" -> EM!LB(m, memory.host, i, c)
      [] op = "LBU" -> EM!LBU(m, memory.host, i, c)
      [] op = "LH" -> EM!LH(m, memory.host, i, c)
      [] op = "LHU" -> EM!LHU(m, memory.host, i, c)
      [] op = "LW" -> EM!LW(m, memory.host, i, c)
      [] op = "LWPC" -> EM!LWPC(m, memory.host, i, c)
      [] op = "SB" -> EM!SB(m, memory.host, i, c)
      [] op = "SH" -> EM!SH(m, memory.host, i, c)
      [] op = "SW" -> EM!SW(m, memory.host, i, c)
      [] op = "CACHE" -> CalledAccess(m, i, c)

-------------------------------------------------------------------------------
(* What differs, operation by operation; r are the registers before.         *)

(* Words of another instruction: JIC and JIALC, BLEZ and BGTZ.               *)
Decodes(op, i) ==
    /\ op \in {"BEQZC", "BNEZC"} => i.rs # 0
    /\ op \in {"BLEZALC", "BGTZALC"} => i.rt # 0

(* A shift by a whole word or by less than nothing in the handler.           *)
Defined(op, i) ==
    /\ op = "INS" => i.sa <= i.msb /\ i.msb - i.sa < Bits - 1
    /\ op = "EXT" => i.sa + i.msb < Bits

(* JIT1 emits nothing for a destination $0, so that nothing overflows.       *)
OverflowLost(op, i, r) ==
    /\ op \in {"ADD", "SUB", "DIV", "MOD"} /\ i.rd = 0
    /\ Interpret(op, r, i).out # <<"next">>

(* r15d is the destination and is written before a source in it is read.     *)
SourceOverwritten(op, i) ==
    \/ op = "SUBU" /\ i.rd = fp /\ i.rt = fp /\ i.rs \notin {0, fp}
    \/ /\ op \in {"AND", "OR", "NOR", "SELEQZ", "SELNEZ"}
       /\ i.rd = fp /\ i.rs = fp /\ i.rt \notin {0, fp}
    \/ op = "LSA" /\ i.rd = i.rs /\ i.rt = i.rd /\ i.rd # 0

NoSuchEncoding(op, i) ==
    \/ op \in {"SLTI", "SLTIU"} /\ i.rs # 0 /\ E!SetsRegister(i)
    \/ op = "LSA" /\ i.rd = i.rs /\ i.rt # 0 /\ i.rd \notin {0, fp} /\ i.rt # fp

(* A handler is called with a stale $30, and what it writes to $30 is lost.  *)
FrameNotShared(op, i) == op \in NotEmitted /\ fp \in {i.rd, i.rs, i.rt}

HardwareRegisters(op, i) ==
    op = "RDHWR" /\ (i.rt = 0 \/ i.rd \notin {1, 29})

ExtractsNothing(op, i) == op = "EXT" /\ i.msb = Bits - 1 /\ 0 \notin {i.rs, i.rt}
InsertsIntoItself(op, i) == op = "INS" /\ i.rs = i.rt /\ i.rs # 0 /\ i.sa > 0
CountsFromTheBottom(op, i) ==
    op \in OfRs /\ ~Lzcnt /\ i.rd # 0 /\ i.rs # 0 /\ ~E!InPlace(i)

LinkFirst(op, i) ==
    \/ op = "JIALC" /\ i.rt = ra
    \/ op = "JALR" /\ i.rd = i.rs /\ i.rd # 0

UnsignedAsSigned(op, i, r) ==
    /\ op \in {"POP06", "POP07"} /\ i.rs # i.rt /\ 0 \notin {i.rs, i.rt}
    /\ (r[i.rs] < Top) # (r[i.rt] < Top)
OverflowAsCarry(op, i, r) ==
    /\ op \in {"POP10", "POP30"} /\ i.rs >= i.rt
    /\ I!SumOverflows(r, i) # (r[i.rs] + r[i.rt] > Highest)
NotZeroAndLink(op, i) == op = "POP30" /\ i.rs = 0 /\ i.rt # 0

Differs(op, i, r) ==
    \/ OverflowLost(op, i, r) \/ SourceOverwritten(op, i) \/ NoSuchEncoding(op, i)
    \/ FrameNotShared(op, i) \/ HardwareRegisters(op, i)
    \/ ExtractsNothing(op, i) \/ InsertsIntoItself(op, i) \/ CountsFromTheBottom(op, i)
    \/ LinkFirst(op, i) \/ UnsignedAsSigned(op, i, r)
    \/ OverflowAsCarry(op, i, r) \/ NotZeroAndLink(op, i)
    \/ op = "SIGRIE"

(* And for an access of n bytes at address:                                  *)

Bytes(op) ==
    CASE op \in {"LB", "LBU", "SB", "CACHE"} -> 1 [] op \in {"LH", "LHU", "SH"} -> 2
      [] OTHER -> 4

(* A load into $0 is a NOP and does not fault.                               *)
LoadIntoZero(op, i, c, address) ==
    op \in Loads /\ i.rt = 0 /\ ~IM!Fetches(c, address, Bytes(op))

(* All of LWPC, where the base of other loads is the destination.            *)
AccessDiffers(op, i, c, address) ==
    \/ op = "LWPC"
    \/ LoadIntoZero(op, i, c, address)
    \/ op \in Loads /\ AD!LoadDiffers(Bytes(op), i, c, address)
    \/ op \in Stores /\ AD!StoreDiffers(Bytes(op), i, c, address)

AddressOf(op, r, i) ==
    CASE op = "LWPC" -> Wrap(Pc + 4 * Offset(i))
      [] op = "CACHE" -> IM!CacheAddress(i)
      [] OTHER -> Wrap(r[i.rs] + Offset(i))

-------------------------------------------------------------------------------
(* The registers that the guest has when emitted code is left, by `save'.    *)
View(m) == [m.slot EXCEPT ![fp] = m.r15d]

(* Two machines that agree.  The slot of $30 holds what it did long ago.     *)
Init ==
    /\ guest \in Start
    /\ host = [slot |-> [guest EXCEPT ![fp] = Not(@)], r15d |-> guest[fp]]
    /\ \E contents \in Contents : memory = [guest |-> contents, host |-> contents]
    /\ executed = <<>>

Execute(op, i) ==
    LET interpreted == Interpret(op, guest, i)
        emitted == Emitted(op, host, i)
    IN  /\ Decodes(op, i) /\ Defined(op, i)
        /\ guest' = interpreted.regs
        /\ host' = emitted.regs
        /\ executed' = <<op, i, interpreted.out, emitted.out>>
        /\ UNCHANGED memory

Access(op, i, c) ==
    LET interpreted == InterpretAccess(op, guest, i, c)
        emitted == EmittedAccess(op, host, i, c)
    IN  /\ guest' = interpreted.regs
        /\ host' = emitted.regs
        /\ memory' = [guest |-> interpreted.memory, host |-> emitted.memory]
        /\ executed' = <<op, i, interpreted.out, emitted.out, c, AddressOf(op, guest, i)>>

Next ==
    /\ executed = <<>>
    /\ \/ \E sort \in Sorts : \E op \in sort[1], i \in sort[2] : Execute(op, i)
       \/ \E sort \in MemorySorts, c \in Configurations :
             \E op \in sort[1], i \in sort[2] : Access(op, i, c)

Spec == Init /\ [][Next]_vars

(* system::compare and processor::compare report something.  memcmp() is     *)
(* given the number of the registers for that of their bytes: it looks at    *)
(* the first quarter of them.                                                *)
Compared ==
    \/ \E r \in Register : r < 32 \div 4 /\ View(host)[r] # guest[r]
    \/ executed[3] # executed[4]
    \/ memory.host # memory.guest

-------------------------------------------------------------------------------
SameState ==
    View(host) = guest /\ memory.host = memory.guest /\ executed[3] = executed[4]

IsAccess == Len(executed) = 6
Distinct ==
    IF IsAccess
    THEN AccessDiffers(executed[1], executed[2], executed[5], executed[6])
    ELSE Differs(executed[1], executed[2], guest)

(* The engines end every instruction alike and leave the guest with the same *)
(* registers and the same memory, whichever operands coincide and wherever   *)
(* they are kept, but for the cases of Differs and AccessDiffers.            *)
EnginesAgree ==
    executed # <<>> => Distinct \/ SameState

Raised(how) == how[1] = "raise"

(* An instruction that raises leaves all registers and all of memory as it   *)
(* found them, also where emitted code had begun to write one.               *)
ExceptionUndoes ==
    [][/\ Raised(executed'[3]) => guest' = guest /\ memory'.guest = memory.guest
       /\ Raised(executed'[4]) =>
            View(host') = View(host) /\ memory'.host = memory.host]_vars

(* A null pointer is never followed: an access with a byte at address 0      *)
(* raises, also where it begins in the stack, just below address 0.  CACHE   *)
(* ends the emulator.                                                        *)
Stops(how) == how[1] \in {"raise", "terminates"}
NullFaults ==
    executed # <<>> /\ IsAccess /\ IM!TouchesZero(executed[6], Bytes(executed[1])) =>
        /\ Stops(executed[3])
        /\ Stops(executed[4]) \/ Distinct

(* With executable memory read-only, a byte of a block of it changes in      *)
(* either engine only by a store that reaches past an end of that block.     *)
ReachesPast(b, address, n) == address < b[1] \/ address + n > b[2]
ExecutableStands ==
    [][Len(executed') = 6 =>
        \A b \in executed'[5].executable :
            \/ ReachesPast(b, executed'[6], Bytes(executed'[1]))
            \/ \A p \in b[1] .. b[2] - 1 :
                  /\ memory'.guest[p] = memory.guest[p]
                  /\ memory'.host[p] = memory.host[p]]_vars

(* --rox makes executable memory read-only: it is what it was at the start.  *)
ReadOnlyExecutable ==
    executed # <<>> /\ IsAccess =>
        \E contents \in Contents :
            \A b \in executed[5].executable : \A p \in b[1] .. b[2] - 1 :
                memory.guest[p] = contents[p] /\ memory.host[p] = contents[p]

(* The side-by-side mode errors upon a mismatch of the two states.           *)
MismatchIsFound == executed # <<>> /\ ~SameState => Compared
==============================================================================

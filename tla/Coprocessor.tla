---------------------------- MODULE Coprocessor ------------------------------
(*****************************************************************************)
(* The two engines on the same instruction of coprocessor 1, as SideBySide   *)
(* has them for those of the processor, and on the same registers and        *)
(* memory.  Every agreeing pair of states is initial, so that one            *)
(* instruction stands for any sequence.  The status of the host's unit and   *)
(* the results of its arithmetic are inputs, the same for both.              *)
(*****************************************************************************)
EXTENDS SideBySide, FloatingPoint

CONSTANTS
    Units,          \* the units to start from
    FOperand,       \* the registers that instructions name
    FResult,        \* those of them that choices and moves write
    Status,         \* what earlier instructions leave in the host's status
    Outcome         \* what the host computes, [value, raised]

ASSUME CoprocessorAssumption ==
    /\ FOperand \subseteq FRegister /\ FResult \subseteq FRegister /\ FResult # {}
    /\ Units \subseteq Unit

VARIABLE
    fpu             \* the unit of each, [guest, host]

unitVars == <<vars, fpu>>

CI == INSTANCE InterpretedCoprocessor
CE == INSTANCE EmittedCoprocessor

-------------------------------------------------------------------------------
(* Instructions by the operands they have                                    *)

Computations == {"ADD", "SUB", "MUL", "DIV", "MADDF", "MSUBF", "RECIP", "RINT",
    "RSQRT", "SQRT", "CVT_D", "CVT_S"}
Copies == {"ABS", "NEG", "MOV", "CLASS", "SEL", "SELEQZ", "SELNEZ"}
Choices == {"MAX", "MIN", "MAXA", "MINA"}
Conversions == {"CVT_W", "CVT_L"}
Narrow == {"ROUND_W", "CEIL_W", "FLOOR_W", "TRUNC_W"}
Wide == {"ROUND_L", "CEIL_L", "FLOOR_L", "TRUNC_L"}
Moves == {"MFC1", "MFHC1", "MTC1", "MTHC1"}
ControlMoves == {"CFC1", "CTC1"}
UnitBranches == {"BC1EQZ", "BC1NEZ"}
UnitLoads == {"LWC1", "LDC1"}
UnitStores == {"SWC1", "SDC1"}

UnitInstruction(FD, FS, FT, RS, RT, IMM, COND) ==
    [fd : FD, fs : FS, ft : FT, rs : RS, rt : RT, imm : IMM, cond : COND]
OnUnit(FD, FS, FT, COND) == UnitInstruction(FD, FS, FT, {0}, {0}, {0}, COND)

One == {CHOOSE n \in FResult : TRUE}
NoStatus == {{}}
NoOutcome == {[value |-> 0, raised |-> {}]}
(* What the host makes of an integer that does not fit its type.             *)
Undefined == {[value |-> 1, raised |-> {}]}

(* One sort of instruction of the unit at a time: operations, operands,      *)
(* status of the host and results.                                           *)
UnitSorts ==
    {<<Computations, OnUnit(One, One, One, {0}), NoStatus, Outcome>>,
     <<Copies, OnUnit(FResult, FResult, FResult, {0}), Status, NoOutcome>>,
     <<{"CLASS"}, OnUnit(One, FRegister, One, {0}), NoStatus, NoOutcome>>,
     <<Choices, OnUnit(FResult, FOperand, FOperand, {0}), NoStatus, NoOutcome>>,
     <<Conversions, OnUnit(One, FRegister, One, {0}), Status, Undefined>>,
     <<Narrow \cup Wide, OnUnit(One, FRegister, One, {0}), NoStatus, Undefined>>,
     <<{"CMP"}, OnUnit(One, FOperand, FOperand, 0 .. 31), NoStatus, NoOutcome>>}

MoveSorts ==
    {<<Moves, UnitInstruction(One, FResult, One, {0}, Operand, {0}, {0})>>,
     <<ControlMoves,
       UnitInstruction(One, CI!Controls \cup {1}, One, {0}, Operand, {0}, {0})>>,
     <<UnitBranches, UnitInstruction(One, {0}, FResult, {0}, {0}, Half, {0})>>}

AccessSort ==
    <<UnitLoads \cup UnitStores,
      UnitInstruction(One, {0}, FResult, Operand, {0}, Half, {0})>>

-------------------------------------------------------------------------------
(* The two engines                                                           *)

Handled(op, u, F, i, h, o) ==
    CASE op = "ADD" -> CI!ADD(u, F, i, h, o)
      [] op = "SUB" -> CI!SUB(u, F, i, h, o)
      [] op = "MUL" -> CI!MUL(u, F, i, h, o)
      [] op = "DIV" -> CI!DIV(u, F, i, h, o)
      [] op = "MADDF" -> CI!MADDF(u, F, i, h, o)
      [] op = "MSUBF" -> CI!MSUBF(u, F, i, h, o)
      [] op = "RECIP" -> CI!RECIP(u, F, i, h, o)
      [] op = "RINT" -> CI!RINT(u, F, i, h, o)
      [] op = "RSQRT" -> CI!RSQRT(u, F, i, h, o)
      [] op = "SQRT" -> CI!SQRT(u, F, i, h, o)
      [] op = "CVT_D" -> CI!CVT_D(u, Double, i, h, o)
      [] op = "CVT_S" -> CI!CVT_S(u, Single, i, h, o)
      [] op = "ABS" -> CI!ABS(u, F, i, h)
      [] op = "NEG" -> CI!NEG(u, F, i, h)
      [] op = "MOV" -> CI!MOV(u, F, i, h)
      [] op = "CLASS" -> CI!CLASS(u, F, i, h)
      [] op = "SEL" -> CI!SEL(u, F, i, h)
      [] op = "SELEQZ" -> CI!SELEQZ(u, F, i, h)
      [] op = "SELNEZ" -> CI!SELNEZ(u, F, i, h)
      [] op = "MAX" -> CI!MAX(u, F, i, h)
      [] op = "MIN" -> CI!MIN(u, F, i, h)
      [] op = "MAXA" -> CI!MAXA(u, F, i, h)
      [] op = "MINA" -> CI!MINA(u, F, i, h)
      [] op = "CVT_W" -> CI!CVT_W(u, F, i, h, o)
      [] op = "CVT_L" -> CI!CVT_L(u, F, i, h, o)
      [] op = "ROUND_W" -> CI!ROUND_W(u, F, i, h, o)
      [] op = "ROUND_L" -> CI!ROUND_L(u, F, i, h, o)
      [] op = "CEIL_W" -> CI!CEIL_W(u, F, i, h, o)
      [] op = "CEIL_L" -> CI!CEIL_L(u, F, i, h, o)
      [] op = "FLOOR_W" -> CI!FLOOR_W(u, F, i, h, o)
      [] op = "FLOOR_L" -> CI!FLOOR_L(u, F, i, h, o)
      [] op = "TRUNC_W" -> CI!TRUNC_W(u, F, i, h, o)
      [] op = "TRUNC_L" -> CI!TRUNC_L(u, F, i, h, o)
      [] op = "CMP" ->
            IF F = Single THEN CI!CMP_condn_s(u, i) ELSE CI!CMP_condn_d(u, i)

Moving(op, r, u, i) ==
    CASE op = "MFC1" -> CI!MFC1(r, u, i)     [] op = "MFHC1" -> CI!MFHC1(r, u, i)
      [] op = "MTC1" -> CI!MTC1(r, u, i)     [] op = "MTHC1" -> CI!MTHC1(r, u, i)
      [] op = "CFC1" -> CI!CFC1(r, u, i)     [] op = "CTC1" -> CI!CTC1(r, u, i)
      [] op = "BC1EQZ" -> CI!BC1EQZ(r, u, i) [] op = "BC1NEZ" -> CI!BC1NEZ(r, u, i)
Accessing(op, r, u, i, c, contents) ==
    CASE op = "LWC1" -> CI!LWC1(r, u, contents, i, c)
      [] op = "LDC1" -> CI!LDC1(r, u, contents, i, c)
      [] op = "SWC1" -> CI!SWC1(r, u, contents, i, c)
      [] op = "SDC1" -> CI!SDC1(r, u, contents, i, c)

(* For what is not emitted the handler is called on the slots, r15d is       *)
(* neither stored before it nor loaded after it, and the slot of $0 is       *)
(* cleared.                                                                  *)
Slots(registers) == [host EXCEPT !.slot = [registers EXCEPT ![0] = 0]]

MovingByHost(op, u, i) ==
    CASE op = "MFC1" -> CE!MFC1(host, u, i)   [] op = "MFHC1" -> CE!MFHC1(host, u, i)
      [] op = "MTC1" -> CE!MTC1(host, u, i)   [] op = "MTHC1" -> CE!MTHC1(host, u, i)
      [] op = "BC1EQZ" -> CE!BC1EQZ(host, u, i)
      [] op = "BC1NEZ" -> CE!BC1NEZ(host, u, i)
      [] OTHER ->
            LET done == Moving(op, host.slot, u, i)
            IN  [done EXCEPT !.regs = Slots(done.regs)]

-------------------------------------------------------------------------------
(* The interpreter clocks before every instruction, JIT1 where a chunk is    *)
(* entered.  needs_clock_ is never cleared.                                  *)
ClockedIf(u, condition) == IF u.clocks /\ condition THEN Clock(u) ELSE u

UnitInit == Init /\ \E u \in Units : fpu = [guest |-> u, host |-> u]

(* An instruction of the unit alone                                          *)
Operate(op, F, i, h, o, entered) ==
    LET mine == ClockedIf(fpu.guest, TRUE)
        other == ClockedIf(fpu.host, entered)
        interpreted == Handled(op, mine, F, i, h, o)
        emitted == IF op \in CE!Emits THEN CE!SEL(host, other, F, i)
                                     ELSE Handled(op, other, F, i, h, o)
    IN  /\ fpu' = [guest |-> interpreted.fpu, host |-> emitted.fpu]
        /\ executed' = <<op, i, interpreted.out, emitted.out, entered, F, h>>
        /\ UNCHANGED <<guest, host, memory>>

(* One of the unit and the registers of the processor                        *)
Move(op, i, entered) ==
    LET interpreted == Moving(op, guest, ClockedIf(fpu.guest, TRUE), i)
        emitted == MovingByHost(op, ClockedIf(fpu.host, entered), i)
    IN  /\ guest' = interpreted.regs
        /\ host' = emitted.regs
        /\ fpu' = [guest |-> interpreted.fpu, host |-> emitted.fpu]
        /\ executed' = <<op, i, interpreted.out, emitted.out, entered>>
        /\ UNCHANGED memory

(* One of the unit and memory                                                *)
Load(op, i, c, entered) ==
    LET interpreted ==
            Accessing(op, guest, ClockedIf(fpu.guest, TRUE), i, c, memory.guest)
        emitted ==
            Accessing(op, host.slot, ClockedIf(fpu.host, entered), i, c, memory.host)
    IN  /\ fpu' = [guest |-> interpreted.fpu, host |-> emitted.fpu]
        /\ executed' = <<op, i, interpreted.out, emitted.out, entered, c>>
        /\ UNCHANGED <<guest, host, memory>>
Store(op, i, c, entered) ==
    LET mine == ClockedIf(fpu.guest, TRUE)
        other == ClockedIf(fpu.host, entered)
        interpreted == Accessing(op, guest, mine, i, c, memory.guest)
        emitted == IF op = "SWC1" THEN CE!SWC1(host, other, memory.host, i, c)
                                  ELSE CE!SDC1(host, other, memory.host, i, c)
    IN  /\ fpu' = [guest |-> mine, host |-> other]
        /\ memory' = [guest |-> interpreted.memory, host |-> emitted.memory]
        /\ executed' = <<op, i, interpreted.out, emitted.out, entered, c>>
        /\ UNCHANGED <<guest, host>>

(* Whether a chunk is entered, where that makes a difference.                *)
Entering == IF fpu.host.clocks /\ fpu.host.raw THEN BOOLEAN ELSE {TRUE}

UnitNext ==
    /\ executed = <<>>
    /\ \E entered \in Entering :
        \/ \E sort \in UnitSorts, F \in Formats, traps \in BOOLEAN :
           \E op \in sort[1], i \in sort[2], status \in sort[3], o \in sort[4] :
              Operate(op, F, i, [traps |-> traps, status |-> status], o, entered)
        \/ \E sort \in MoveSorts : \E op \in sort[1], i \in sort[2] :
              Move(op, i, entered)
        \/ \E op \in UnitLoads, i \in AccessSort[2], c \in Configurations :
              Load(op, i, c, entered)
        \/ \E op \in UnitStores, i \in AccessSort[2], c \in Configurations :
              Store(op, i, c, entered)

UnitSpec == UnitInit /\ [][UnitNext]_unitVars

-------------------------------------------------------------------------------
Op == executed[1]
Instr == executed[2]

SameUnits ==
    /\ View(host) = guest /\ fpu.host = fpu.guest /\ memory.host = memory.guest
    /\ executed[3] = executed[4]
SameButReserved ==
    /\ View(host) = guest \/ Op = "CFC1"
    /\ Clock(fpu.host) = Clock(fpu.guest) /\ memory.host = memory.guest
    /\ executed[3] = executed[4]

(* A handler is called with a stale $30, and what it writes there is lost.   *)
StaleFrame ==
    \/ Op \in {"CFC1", "CTC1"} /\ Instr.rt = fp
    \/ Op \in UnitLoads /\ Instr.rs = fp

(* A reserved bit of FCSR outlives, in JIT1, the chunk that has written it.  *)
ClockLate == fpu.host.clocks /\ ~executed[5] /\ SameButReserved

(* The handler of SEL replaces what it selects for a signal of an earlier    *)
(* instruction, emitted code does not look at the status.                    *)
StaleSignal ==
    /\ Op = "SEL" /\ executed[7].traps
    /\ \/ executed[7].status \cap {"InvalidOp", "DivZero"} # {}
       \/ executed[7].status = {"Overflow"}

AccessSize == IF Op \in {"SWC1", "LWC1"} THEN 4 ELSE 8
UnitStoreDiffers ==
    /\ Op \in UnitStores
    /\ AD!StoreDiffers(AccessSize, Instr, executed[6],
                       CI!Address(guest[Instr.rs], Instr))

(* The engines end every instruction of the coprocessor alike and leave the  *)
(* guest with the same registers, control word and memory, whichever of the  *)
(* operands coincide, but for these four cases.                              *)
UnitsAgree ==
    executed # <<>> =>
        SameUnits \/ StaleFrame \/ ClockLate \/ StaleSignal \/ UnitStoreDiffers

(* An instruction that raises leaves the registers of the processor and of   *)
(* the coprocessor and memory as it found them, in both engines; of the      *)
(* control word it may change the flags and the cause.                       *)
UnitExceptionUndoes ==
    [][/\ Raised(executed'[3]) =>
            /\ guest' = guest /\ fpu'.guest.f = fpu.guest.f
            /\ memory'.guest = memory.guest
       /\ Raised(executed'[4]) =>
            /\ View(host') = View(host) /\ fpu'.host.f = fpu.host.f
            /\ memory'.host = memory.host]_unitVars

-------------------------------------------------------------------------------
(* What the interpreter writes, as the architecture has it                   *)

Source(n) == Get(fpu.guest, executed'[6], n)
Result(F) == Get(fpu.guest', F, executed'[2].fd)
Written == executed'[3] = <<"next">>
F0 == executed'[6]

AsInteger(W, x) == IF x >= SignBit(W) THEN x - 2 * SignBit(W) ELSE x

(* n is an integer that the mode asks for: between what twice the number is  *)
(* rounded to, down and up.  Of two integers as near as each other either    *)
(* is one: std::round takes that away from zero, the architecture the even   *)
(* one.                                                                      *)
IsRounded(F, x, n, how) ==
    CASE how = "nearest" -> 2 * n - 1 <= TwiceDown(F, x) /\ TwiceUp(F, x) <= 2 * n + 1
      [] how = "up" -> 2 * n - 2 < TwiceUp(F, x) /\ TwiceUp(F, x) <= 2 * n
      [] how = "down" -> 2 * n <= TwiceDown(F, x) /\ TwiceDown(F, x) < 2 * n + 2
      [] how = "zero" ->
            /\ n # 0 => (n < 0 <=> IsNegative(F, x))
            /\ 2 * Magnitude(n) <= TwiceDown(F, Absolute(F, x))
            /\ TwiceDown(F, Absolute(F, x)) < 2 * Magnitude(n) + 2

(* The integer that the mode asks for does not fit: the number, in halves,   *)
(* lies beyond the limits of the integers by what the mode leaves of it.     *)
IsOutside(F, W, x, how) ==
    LET low == 2 * LowestInt(W)
        high == 2 * HighestInt(W)
    IN  CASE how = "nearest" -> TwiceUp(F, x) <= low - 1 \/ TwiceDown(F, x) >= high + 1
          [] how = "up" -> TwiceUp(F, x) <= low - 2 \/ TwiceUp(F, x) > high
          [] how = "down" -> TwiceDown(F, x) < low \/ TwiceDown(F, x) >= high + 2
          [] how = "zero" -> TwiceUp(F, x) <= low - 2 \/ TwiceDown(F, x) >= high + 2

(* What there is instead of an integer that does not fit, or for a NaN       *)
Limit(F, W, x) ==
    IF IsNaN(F, x) THEN 0
    ELSE IF IsNegative(F, x) THEN LowestInt(W) ELSE HighestInt(W)

(* What an instruction that reads x and writes n, an integer of W, leaves of *)
(* the flags of the unit u and how it ends: a number that is refused, and no *)
(* other, flags InvalidOp, raises it if it is enabled, and gives the limit.  *)
Answers(F, W, x, n, how, refused, u, flags, out) ==
    /\ flags = u.flags \cup IF refused THEN {"InvalidOp"} ELSE {}
    /\ out = IF refused /\ "InvalidOp" \in u.enables THEN <<"raise", "FPE">>
                                                     ELSE <<"next">>
    /\ out = <<"next">> =>
          IF refused THEN n = Limit(F, W, x) ELSE IsRounded(F, x, n, how)

(* A build that does not look at the status of the host compares with limits *)
(* as its format has them.  The format may have no number between a limit    *)
(* and what is beyond it by a half or by one.  The highest integer is then   *)
(* one more: rounding up, that number is taken for one in range, and         *)
(* converted as C leaves open.                                               *)
HighestTaken(F, W, x, h, how) ==
    /\ ~h.traps /\ how = "up" /\ FractionBits(F) + 2 < W.width
    /\ TwiceUp(F, x) = 2 * SignBit(W)
(* And the lowest integer itself is refused.                                 *)
LowestRefused(F, W, x, h, how) ==
    /\ ~h.traps /\ FractionBits(F) < W.width /\ TwiceUp(F, x) = 2 * LowestInt(W)
    /\ \/ how = "nearest"
       \/ how \in {"up", "zero"} /\ FractionBits(F) + 1 < W.width

How(op) ==
    CASE op \in {"ROUND_W", "ROUND_L"} -> "nearest"
      [] op \in {"CEIL_W", "CEIL_L"} -> "up"
      [] op \in {"FLOOR_W", "FLOOR_L"} -> "down"
      [] op \in {"TRUNC_W", "TRUNC_L"} -> "zero"

(* A rounding answers for every number and NaN: it refuses what is not       *)
(* finite and what lies outside, but for the two named numbers, where it     *)
(* does the opposite.  What it writes for the highest of them is open.       *)
RoundsRight ==
    LET op == executed'[1]
        W == IF op \in Narrow THEN Single ELSE Double
        h == executed'[7]
        x == Source(executed'[2].fs)
        n == AsInteger(W, Result(W))
        refused == ~IsFinite(F0, x) \/ IsOutside(F0, W, x, How(op))
        Answered(yes) == Answers(F0, W, x, n, How(op), yes, fpu.guest,
                                 fpu'.guest.flags, executed'[3])
    IN  op \in Narrow \cup Wide =>
            \/ Answered(refused)
            \/ /\ IsFinite(F0, x) /\ LowestRefused(F0, W, x, h, How(op))
               /\ Answered(TRUE)
            \/ /\ IsFinite(F0, x) /\ HighestTaken(F0, W, x, h, How(op))
               /\ fpu'.guest.flags = fpu.guest.flags /\ Written

(* A build with traps takes for a signal of the conversion what an earlier   *)
(* instruction has left in the status of the host, and every number that is  *)
(* not an integer for one that is out of range.                              *)
SignalSeen(F, x, h) ==
    h.traps /\ (h.status \cap {"InvalidOp", "Inexact"} # {} \/ ~IsInteger(F, x))

(* The zero for a NaN is one of the format that is read: as a single it is   *)
(* half of a long integer, the other half of the register stays.             *)
HalfZero(F, W, x, h) == h.traps /\ IsNaN(F, x) /\ F = Single /\ W = Double

(* A conversion answers likewise for every number and NaN, rounding toward   *)
(* zero whatever the mode, but for three cases: a signal that is seen there  *)
(* gives the limit; half of the zero for a NaN is written; and where a build *)
(* that does not look has no integer to give, C leaves open what it writes,  *)
(* and nothing is flagged.                                                   *)
ConvertsRight ==
    LET W == IF executed'[1] = "CVT_W" THEN Single ELSE Double
        h == executed'[7]
        x == Source(executed'[2].fs)
        n == AsInteger(W, Result(W))
        refused == ~IsFinite(F0, x) \/ IsOutside(F0, W, x, "zero")
    IN  executed'[1] \in Conversions =>
            \/ Answers(F0, W, x, n, "zero", refused, fpu.guest,
                       fpu'.guest.flags, executed'[3])
            \/ SignalSeen(F0, x, h) /\ (Written => n = Limit(F0, W, x))
            \/ /\ HalfZero(F0, W, x, h) /\ "InvalidOp" \in fpu'.guest.flags
               /\ Written => Result(F0) = 0
            \/ ~h.traps /\ refused /\ fpu'.guest.flags = fpu.guest.flags /\ Written

(* The predicates AF, UN, EQ, UEQ, OLT, ULT, OLE and ULE; OR, UNE and NE are *)
(* the negations of UN, EQ and UEQ, and there are no others.                 *)
Predicates == <<{}, {"un"}, {"eq"}, {"un", "eq"}, {"lt"}, {"un", "lt"},
                {"lt", "eq"}, {"un", "lt", "eq"}>>
Relation(F, x, y) ==
    CASE IsNaN(F, x) \/ IsNaN(F, y) -> "un"
      [] IsLess(F, x, y) -> "lt" [] IsLess(F, y, x) -> "gt"
      [] IsEqual(F, x, y) -> "eq"

(* A comparison answers all ones or all zeros as the table has it.  It       *)
(* raises or flags InvalidOp for a signalling NaN, and in its signalling     *)
(* form for any NaN, and for nothing else.                                   *)
ComparesRight ==
    LET cond == executed'[2].cond
        x == Source(executed'[2].fs)
        y == Source(executed'[2].ft)
        related == Relation(F0, x, y) \in Predicates[(cond % 8) + 1]
        negated == cond >= 16
        invalid ==
            \/ SignallingNaN(F0) \in {x, y}
            \/ cond \in 8 .. 15 \cup 24 .. 31 /\ Relation(F0, x, y) = "un"
        flagged == fpu.guest.flags \cup IF invalid THEN {"InvalidOp"} ELSE {}
    IN  executed'[1] = "CMP" =>
            IF negated /\ cond % 8 \notin {1, 2, 3}
            THEN executed'[3] = <<"raise", "RI">>
            ELSE /\ fpu'.guest.flags = flagged
                 /\ Raised(executed'[3]) <=> invalid /\ "InvalidOp" \in fpu.guest.enables
                 /\ Written => Result(F0) =
                        IF related # negated THEN 2^F0.width - 1 ELSE 0

(* The larger or smaller of two finite numbers, by their absolute values for *)
(* MAXA and MINA, +0 above -0; the number, where the other is a NaN.  Of an  *)
(* infinity and another number only that it writes one of the two.           *)
ChoosesRight ==
    LET op == executed'[1]
        s == Source(executed'[2].fs)
        t == Source(executed'[2].ft)
        x == Result(F0)
        Size2(y) == IF op \in {"MAXA", "MINA"} THEN Rank(F0, Absolute(F0, y))
                                             ELSE Rank(F0, y)
        Bounds(y) == CASE op \in {"MAX", "MAXA"} -> Size2(x) >= Size2(y)
                       [] OTHER -> Size2(x) <= Size2(y)
        Ties(y) == Size2(y) = Size2(x) /\ y # x =>
            (IsNegative(F0, x) <=> op \in {"MIN", "MINA"})
    IN  op \in Choices /\ Written =>
            /\ x \in {s, t}
            /\ IsFinite(F0, s) /\ IsFinite(F0, t) =>
                  \A y \in {s, t} : Bounds(y) /\ Ties(y)
            /\ IsNaN(F0, s) /\ IsFinite(F0, t) => x = t
            /\ IsFinite(F0, s) /\ IsNaN(F0, t) => x = s

(* In the interpreter roundings, conversions to integers and comparisons     *)
(* write, flag and raise what they should for every number and every NaN and *)
(* nothing else, but for the cases named above, and choices write the larger *)
(* or the smaller of two finite numbers.                                     *)
ResultsRight == [][Len(executed') = 7 =>
                      RoundsRight /\ ConvertsRight /\ ComparesRight /\ ChoosesRight]_unitVars

-------------------------------------------------------------------------------
(* What the source says of these results and does not keep to.  The register *)
(* that an instruction reads still has its operand afterwards, unless it is  *)
(* the one written as well.                                                  *)

OperandStands == executed # <<>> /\ Len(executed) = 7 /\ Instr.fd # Instr.fs
Operand1 == Get(fpu.guest, executed[6], Instr.fs)

(* coprocessor1_inst.cpp:561, 628: the result of MAXA and MINA is never      *)
(* infinite.                                                                 *)
AssertionsHold == executed # <<>> => executed[3] # <<"asserts">>

(* coprocessor1_inst.cpp:1138, an out-of-range check: a rounding flags       *)
(* InvalidOp if its number is out of range or none, and only then.  For      *)
(* units that begin without that flag.                                       *)
RefusesWhatIsOutside ==
    LET W == IF Op \in Narrow THEN Single ELSE Double
        F == executed[6]
    IN  OperandStands /\ Op \in Narrow \cup Wide =>
            ("InvalidOp" \in fpu.guest.flags <=>
                ~IsFinite(F, Operand1) \/ IsOutside(F, W, Operand1, How(Op)))

(* coprocessor1_inst.cpp:169: CVT commands round according to the rounding   *)
(* mode of FCSR.                                                             *)
HowOf(mode) ==
    CASE mode = "ToNearest" -> "nearest" [] mode = "ToPositive" -> "up"
      [] mode = "ToNegative" -> "down"   [] mode = "ToZero" -> "zero"
ConvertsByMode ==
    LET W == IF Op = "CVT_W" THEN Single ELSE Double
        F == executed[6]
        how == HowOf(fpu.guest.mode)
    IN  /\ OperandStands /\ Op \in Conversions /\ executed[3] = <<"next">>
        /\ IsFinite(F, Operand1) /\ ~IsOutside(F, W, Operand1, how)
        => IsRounded(F, Operand1, AsInteger(W, Get(fpu.guest, W, Instr.fd)), how)

(* coprocessor1_support.hpp:156: a default value is for an exception that is *)
(* thrown and not signalled.  MOV throws none and writes what it reads.      *)
MovesExactly ==
    OperandStands /\ Op = "MOV" => Get(fpu.guest, executed[6], Instr.fd) = Operand1
==============================================================================

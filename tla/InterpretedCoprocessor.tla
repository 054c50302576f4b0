----------------------- MODULE InterpretedCoprocessor ------------------------
(*****************************************************************************)
(* The handlers of coprocessor 1.  An instruction i is a record of the       *)
(* fields fd, fs, ft, rs, rt of its word, imm and cond.  h is the host:      *)
(*   traps    the build looks at the status of the host's unit,              *)
(*   status   the signals that what ran before has left in that status.      *)
(* o is what the host computes, [value, raised]: any number and any signals. *)
(* It is also what a conversion gives that C leaves undefined.               *)
(*****************************************************************************)
EXTENDS FloatingPoint, InterpretedMemory

Done(u) == [fpu |-> u, out |-> <<"next">>]
Throws(u, type) == [fpu |-> u, out |-> <<"raise", type>>]
(* An assertion does not hold.  It stops a debug build, and a release build  *)
(* may do anything, since it is told that this does not happen.              *)
Asserts(u) == [fpu |-> u, out |-> <<"asserts">>]

(* throw_signal, of those signals that the instruction has                   *)
Signalled(u, raised) ==
    [u EXCEPT !.flags = @ \cup raised, !.cause = @ \cup raised,
              !.clocks = @ \/ raised # {}]

WithSign(F, x, value) == IF IsLess(F, value, 0) THEN Negated(F, x) ELSE x
(* GetDefaultExceptionFloat                                                  *)
Default(u, F, raised, value) ==
    CASE "InvalidOp" \in raised -> QuietNaN(F)
      [] "InvalidOp" \notin raised /\ "DivZero" \in raised ->
            WithSign(F, Infinity(F), value)
      [] raised = {"Overflow"} ->
            LET away == IF IsLess(F, value, 0) THEN "ToNegative" ELSE "ToPositive"
            IN  WithSign(F, IF u.mode \in {"ToNearest", away} THEN Infinity(F)
                                                              ELSE Largest(F), value)
      [] OTHER -> value

(* Mutant: the register is written before the signal is thrown.              *)
WriteFirst(u, F, d, signals, h, status, value) ==
    LET raised == status \cap signals
        signalled == Set(Signalled(u, raised), F, d, value)
    IN  IF ~h.traps \/ status = {} THEN Done(Set(u, F, d, value))
        ELSE IF raised \cap u.enables # {} THEN Throws(signalled, "FPE")
        ELSE Done(Set(signalled, F, d, Default(signalled, F, status, value)))
WriteResult(u, F, d, signals, h, status, value) ==
    LET raised == status \cap signals
        signalled == Signalled(u, raised)
    IN  IF ~h.traps \/ status = {} THEN Done(Set(u, F, d, value))
        ELSE IF raised \cap u.enables # {} THEN Throws(signalled, "FPE")
        ELSE Done(Set(signalled, F, d, Default(signalled, F, status, value)))

(* An instruction without signals does not clear the status of the host.     *)
Copied(u, F, i, h, value) == WriteResult(u, F, i.fd, {}, h, h.status, value)

-------------------------------------------------------------------------------
(* The arithmetic of the host                                                *)

Usual == Signal \ {"DivZero"}
Computed(u, F, i, signals, h, o) ==
    WriteResult(ClearCause(u), F, i.fd, signals, h, o.raised, o.value)

ADD(u, F, i, h, o) == Computed(u, F, i, Usual, h, o)
SUB(u, F, i, h, o) == Computed(u, F, i, Usual, h, o)
MUL(u, F, i, h, o) == Computed(u, F, i, Usual, h, o)
MADDF(u, F, i, h, o) == Computed(u, F, i, Usual, h, o)
MSUBF(u, F, i, h, o) == Computed(u, F, i, Usual, h, o)
RINT(u, F, i, h, o) == Computed(u, F, i, Usual, h, o)
DIV(u, F, i, h, o) == Computed(u, F, i, Signal, h, o)
RECIP(u, F, i, h, o) == Computed(u, F, i, Signal, h, o)
RSQRT(u, F, i, h, o) == Computed(u, F, i, Signal, h, o)
SQRT(u, F, i, h, o) == Computed(u, F, i, {"Inexact", "InvalidOp"}, h, o)
(* For these F is the format of the result.                                  *)
CVT_D(u, F, i, h, o) == Computed(u, F, i, {"Inexact", "InvalidOp"}, h, o)
CVT_S(u, F, i, h, o) == Computed(u, F, i, Usual, h, o)

-------------------------------------------------------------------------------
(* Signs, classes and choices                                                *)

ABS(u, F, i, h) == Copied(u, F, i, h, Absolute(F, Get(u, F, i.fs)))
NEG(u, F, i, h) == Copied(u, F, i, h, Negated(F, Get(u, F, i.fs)))
MOV(u, F, i, h) == Copied(u, F, i, h, Get(u, F, i.fs))

(* std::fpclassify                                                           *)
Classify(F, x) ==
    CASE IsNaN(F, x) -> "nan"
      [] Absolute(F, x) = Infinity(F) -> "infinity"
      [] Absolute(F, x) = 0 -> "zero"
      [] Exponent(F, x) = 0 /\ Fraction(F, x) # 0 -> "subnormal"
      [] OTHER -> "normal"

(* The mask has one bit at most; its number from 1 on is written instead.    *)
Classes == <<<<"signal", "nan">>, <<"quiet", "nan">>,
    <<"neg", "infinity">>, <<"neg", "normal">>, <<"neg", "subnormal">>,
    <<"neg", "zero">>, <<"pos", "infinity">>, <<"pos", "normal">>,
    <<"pos", "subnormal">>, <<"pos", "zero">>>>
ClassOf(F, x) ==
    <<CASE x = SignallingNaN(F) -> "signal" [] x = QuietNaN(F) -> "quiet"
        [] OTHER -> IF IsLess(F, x, 0) THEN "neg" ELSE "pos",
      Classify(F, x)>>
CLASS(u, F, i, h) ==
    LET set == {k \in DOMAIN Classes : Classes[k] = ClassOf(F, Get(u, F, i.fs))}
    IN  Copied(u, F, i, h, IF set = {} THEN 0 ELSE CHOOSE k \in set : TRUE)

(* raise_signal sets neither a flag nor the cause.                           *)
Greater(F, s, t) ==
    IF IsNegative(F, s) # IsNegative(F, t)
    THEN IF IsNegative(F, s) THEN t ELSE s
    ELSE IF Rank(F, t) >= Rank(F, s) THEN t ELSE s
Lesser(F, s, t) ==
    IF IsNegative(F, s) # IsNegative(F, t)
    THEN IF IsNegative(F, s) THEN s ELSE t
    ELSE IF Rank(F, t) < Rank(F, s) THEN t ELSE s

(* Infinities are not real either.                                           *)
Chosen(u, F, i, h, choice) ==
    LET s == Get(u, F, i.fs)
        t == Get(u, F, i.ft)
        real == IsFinite(F, s) /\ IsFinite(F, t)
    IN  IF ~real /\ "InvalidOp" \in u.enables THEN Throws(ClearCause(u), "FPE")
        ELSE WriteResult(ClearCause(u), F, i.fd, {"InvalidOp"}, h, {},
                CASE ~IsFinite(F, t) -> s
                  [] IsFinite(F, t) /\ ~IsFinite(F, s) -> t
                  [] OTHER -> choice)

(* Mutant: of two numbers as large as each other the negative one is chosen. *)
GreaterAbsoluteSigned(F, s, t) ==
    IF Absolute(F, t) > Absolute(F, s) THEN t ELSE
    IF Absolute(F, t) < Absolute(F, s) THEN s ELSE Lesser(F, s, t)
GreaterAbsolute(F, s, t) ==
    IF Absolute(F, t) > Absolute(F, s) THEN t ELSE
    IF Absolute(F, t) < Absolute(F, s) THEN s ELSE Greater(F, s, t)
LesserAbsolute(F, s, t) ==
    IF Absolute(F, t) < Absolute(F, s) THEN t ELSE
    IF Absolute(F, t) > Absolute(F, s) THEN s ELSE Lesser(F, s, t)

MAX(u, F, i, h) ==
    Chosen(u, F, i, h, Greater(F, Get(u, F, i.fs), Get(u, F, i.ft)))
MIN(u, F, i, h) ==
    Chosen(u, F, i, h, Lesser(F, Get(u, F, i.fs), Get(u, F, i.ft)))

(* MAXA and MINA assert that their result is not infinite.                   *)
ChosenAbsolute(u, F, i, h, choice) ==
    IF /\ Absolute(F, Get(u, F, i.fs)) = Infinity(F) /\ ~IsFinite(F, Get(u, F, i.ft))
       /\ "InvalidOp" \notin u.enables
    THEN Asserts(ClearCause(u))
    ELSE Chosen(u, F, i, h, choice)

MAXA(u, F, i, h) ==
    ChosenAbsolute(u, F, i, h, GreaterAbsolute(F, Get(u, F, i.fs), Get(u, F, i.ft)))
MINA(u, F, i, h) ==
    ChosenAbsolute(u, F, i, h, LesserAbsolute(F, Get(u, F, i.fs), Get(u, F, i.ft)))

IsOdd(x) == x % 2 = 1
SEL(u, F, i, h) ==
    Copied(u, F, i, h, Get(u, F, IF IsOdd(Get(u, F, i.fd)) THEN i.ft ELSE i.fs))
SELEQZ(u, F, i, h) ==
    Copied(u, F, i, h, IF IsOdd(Get(u, F, i.ft)) THEN 0 ELSE Get(u, F, i.fs))
SELNEZ(u, F, i, h) ==
    Copied(u, F, i, h, IF IsOdd(Get(u, F, i.ft)) THEN Get(u, F, i.fs) ELSE 0)

-------------------------------------------------------------------------------
(* To integers of the width of W                                             *)

Fits(W, n) == LowestInt(W) <= n /\ n <= HighestInt(W)
SetInt(u, W, d, n) == Set(u, W, d, n % (2 * SignBit(W)))

(* The integer instead of what there is none for.  A NaN gives a zero.       *)
Saturated(F, W, x) ==
    IF IsNaN(F, x) THEN 0
    ELSE IF IsNegative(F, x) THEN LowestInt(W) ELSE HighestInt(W)

(* The status of the host has not been cleared, and an inexact result is     *)
(* taken for one that is out of range.                                       *)
Convert(u, F, W, i, h, o) ==
    LET x == Get(u, F, i.fs)
        fits == IsFinite(F, x) /\ Fits(W, Truncated(F, x))
        raised == IF ~fits THEN {"InvalidOp"}
                  ELSE IF IsInteger(F, x) THEN {} ELSE {"Inexact"}
        seen == (h.status \cup raised) \cap {"InvalidOp", "Inexact"}
        set == IF "InvalidOp" \in seen \cap u.enables THEN {"InvalidOp"} ELSE seen
        flagged == [ClearCause(u) EXCEPT !.flags = @ \cup set]
    IN  CASE h.traps /\ seen \cap u.enables # {} -> Throws(flagged, "FPE")
          [] h.traps /\ seen # {} /\ seen \cap u.enables = {} ->
                Done(IF IsNaN(F, x) THEN Set(flagged, F, i.fd, 0)
                     ELSE SetInt(flagged, W, i.fd, Saturated(F, W, x)))
          [] OTHER ->
                Done(SetInt(ClearCause(u), W, i.fd,
                            IF fits THEN Truncated(F, x) ELSE o.value))

CVT_W(u, F, i, h, o) == Convert(u, F, Single, i, h, o)
CVT_L(u, F, i, h, o) == Convert(u, F, Double, i, h, o)

(* Mutant: the number above the highest integer is taken for one in range.   *)
OutOfRangeLate(F, W, x, how) ==
    TwiceUp(F, x) < 2 * LowestInt(W) - 2 \/ TwiceDown(F, x) > 2 * HighestInt(W) + 2

(* Whether a number is out of range, without the status of the host.  Its    *)
(* bounds are computed in the format of the number, in halves here: a limit  *)
(* of the integers, and what is a half of one or one beyond the limit.       *)
OutOfRange(F, W, x, how) ==
    LET Below(d) == NearestTo(F, NearestTo(F, 2 * LowestInt(W)) - d)
        Above(d) == NearestTo(F, NearestTo(F, 2 * HighestInt(W)) + d)
        down == TwiceDown(F, x)
        up == TwiceUp(F, x)
    IN  CASE how = "nearest" -> up <= Below(1) \/ down >= Above(1)
          [] how = "up" -> up <= Below(2) \/ up > Above(0)
          [] how = "down" -> down < Below(0) \/ down >= Above(2)
          [] how = "zero" -> up <= Below(2) \/ down >= Above(2)

ToInteger(F, x, how) ==
    CASE how = "nearest" -> Rounded(F, x) [] how = "up" -> Ceiling(F, x)
      [] how = "down" -> Floor(F, x)      [] how = "zero" -> Truncated(F, x)

(* COP1_ROUND_Common                                                         *)
Round(u, F, W, how, i, h, o) ==
    LET x == Get(u, F, i.fs)
        fits == IsFinite(F, x) /\ Fits(W, ToInteger(F, x, how))
        refused == IF h.traps THEN ~fits
                   ELSE ~IsFinite(F, x) \/ OutOfRange(F, W, x, how)
        flagged == SetFlag(ClearCause(u), "InvalidOp")
    IN  CASE refused /\ "InvalidOp" \in u.enables -> Throws(flagged, "FPE")
          [] refused /\ "InvalidOp" \notin u.enables ->
                Done(SetInt(flagged, W, i.fd, Saturated(F, W, x)))
          [] OTHER ->
                Done(SetInt(ClearCause(u), W, i.fd,
                            IF fits THEN ToInteger(F, x, how) ELSE o.value))

ROUND_W(u, F, i, h, o) == Round(u, F, Single, "nearest", i, h, o)
ROUND_L(u, F, i, h, o) == Round(u, F, Double, "nearest", i, h, o)
CEIL_W(u, F, i, h, o) == Round(u, F, Single, "up", i, h, o)
CEIL_L(u, F, i, h, o) == Round(u, F, Double, "up", i, h, o)
FLOOR_W(u, F, i, h, o) == Round(u, F, Single, "down", i, h, o)
FLOOR_L(u, F, i, h, o) == Round(u, F, Double, "down", i, h, o)
TRUNC_W(u, F, i, h, o) == Round(u, F, Single, "zero", i, h, o)
TRUNC_L(u, F, i, h, o) == Round(u, F, Double, "zero", i, h, o)

-------------------------------------------------------------------------------
(* Comparisons; cond is the last field of the word.                          *)

Bit(n, k) == (n \div 2^k) % 2 = 1

(* The tests that the bits ask for, all of them turned round by the highest. *)
Holds(F, x, y, cond) ==
    LET negated == Bit(cond, 4)
        greater == negated
        less == Bit(cond, 2) # negated
        equal == Bit(cond, 1) # negated
        unordered == Bit(cond, 0) # negated
    IN  \/ unordered /\ IsUnordered(F, x, y)
        \/ equal /\ IsEqual(F, x, y)
        \/ greater /\ IsLess(F, y, x)
        \/ less /\ IsLess(F, x, y)

(* Mutant: the quiet NaNs signal, too.                                       *)
SignalsAlways(F, x, y, cond) == IsUnordered(F, x, y)
Signals(F, x, y, cond) ==
    \/ SignallingNaN(F) \in {x, y}
    \/ Bit(cond, 3) /\ IsUnordered(F, x, y)

(* COP1_CMP_condn_common                                                     *)
Compare(u, F, i) ==
    LET x == Get(u, F, i.fs)
        y == Get(u, F, i.ft)
        clocked == [u EXCEPT !.clocks = TRUE]
        flagged == IF Signals(F, x, y, i.cond) THEN SetFlag(clocked, "InvalidOp")
                                               ELSE clocked
    IN  IF Bit(i.cond, 4) /\ (i.cond % 8 = 0 \/ Bit(i.cond, 2))
        THEN Throws(clocked, "RI")
        ELSE IF Signals(F, x, y, i.cond) /\ "InvalidOp" \in u.enables
        THEN Throws(flagged, "FPE")
        ELSE Done(Set(flagged, F, i.fd,
                      IF Holds(F, x, y, i.cond) THEN 2^F.width - 1 ELSE 0))

CMP_condn_s(u, i) == Compare(u, Single, i)
CMP_condn_d(u, i) == Compare(u, Double, i)

-------------------------------------------------------------------------------
(* Between the processor, whose registers are r, and the coprocessor         *)

Moved(r, u, how) == [regs |-> r, fpu |-> u, out |-> how]
SetGPR(r, d, x) == IF d = 0 THEN r ELSE [r EXCEPT ![d] = x]
(* An exception leaves a function that is noexcept.                          *)
Terminated(r, u) == Moved(r, u, <<"terminated">>)

MFC1(r, u, i) == Moved(SetGPR(r, i.rt, u.f[i.fs][1]), u, <<"next">>)
MFHC1(r, u, i) == Moved(SetGPR(r, i.rt, u.f[i.fs][2]), u, <<"next">>)
MTC1(r, u, i) == Moved(r, SetLow(u, i.fs, r[i.rt]), <<"next">>)
MTHC1(r, u, i) == Moved(r, SetHigh(u, i.fs, r[i.rt]), <<"next">>)

Controls == {0, 26, 28, 31}
CFC1(r, u, i) ==
    LET cleared == ClearCause(u)
        word == CASE i.fs = 0 -> Fir [] i.fs = 26 -> GetFEXR(cleared)
                  [] i.fs = 28 -> GetFENR(cleared) [] i.fs = 31 -> GetFCSR(cleared)
    IN  IF i.fs \notin Controls THEN Terminated(r, cleared)
        ELSE Moved(SetGPR(r, i.rt, word), cleared, <<"next">>)

(* raise_any_signals: the cause may have been set, or enabled at last.       *)
AnySignals(u) == u.cause \cap (u.enables \cup {"Unsupported"}) # {}
CTC1(r, u, i) ==
    LET written == CASE i.fs = 26 -> SetFEXR(u, r[i.rt])
                     [] i.fs = 28 -> SetFENR(u, r[i.rt])
                     [] i.fs = 31 -> SetFCSR(u, r[i.rt])
    IN  IF i.fs \notin Controls \ {0} THEN Terminated(r, u)
        ELSE Moved(r, written, IF AnySignals(written) THEN <<"raise", "FPE">>
                                               ELSE <<"next">>)

BranchIf(r, u, i, condition) ==
    Moved(r, u, IF condition THEN <<"delay", BranchTarget(i)>> ELSE <<"no_cti">>)
BC1EQZ(r, u, i) == BranchIf(r, u, i, ~IsOdd(u.f[i.ft][1]))
BC1NEZ(r, u, i) == BranchIf(r, u, i, IsOdd(u.f[i.ft][1]))

(* Loads and stores.  A double is two words, the low one at the address.     *)
WithUnit(a, u) == [regs |-> a.regs, memory |-> a.memory, out |-> a.out, fpu |-> u]
LoadWords(r, u, memory, i, c, n, Loaded(_)) ==
    LET address == Address(r[i.rs], i)
    IN  IF Fetches(c, address, n)
        THEN WithUnit(Accessed(r, memory, <<"next">>), Loaded(PlaceOf(c, address)))
        ELSE WithUnit(Fault(r, memory, "AdEL"), u)

LWC1(r, u, memory, i, c) ==
    LET Loaded(place) == SetLow(u, i.ft, Value(memory, place, 4))
    IN  LoadWords(r, u, memory, i, c, 4, Loaded)
LDC1(r, u, memory, i, c) ==
    LET Loaded(place) ==
            SetHigh(SetLow(u, i.ft, Value(memory, place, 4)),
                    i.ft, Value(memory, place + 4, 4))
    IN  LoadWords(r, u, memory, i, c, 8, Loaded)
SWC1(r, u, memory, i, c) ==
    WithUnit(Store(r, memory, c, Address(r[i.rs], i), 4, u.f[i.ft][1]), u)
SDC1(r, u, memory, i, c) ==
    WithUnit(Store(r, memory, c, Address(r[i.rs], i), 8, Get(u, Double, i.ft)), u)
==============================================================================

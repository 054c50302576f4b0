---------------------------- MODULE FloatingPoint -----------------------------
(*****************************************************************************)
(* The registers of coprocessor 1, the numbers in them and its control and   *)
(* status register.  A single is as wide as a Word, a double twice as wide;  *)
(* a number is given by its bits.  What the host computes is not modelled;   *)
(* its comparisons and conversions to integers are, exactly.                 *)
(*****************************************************************************)
EXTENDS InstructionSet

CONSTANTS
    FRegister,          \* the numbers of the floating-point registers modelled
    SingleExponent,     \* bits of the exponent of a single
    DoubleExponent,     \* and of a double
    Fir                 \* coprocessor1::FIR

ASSUME FloatingPointAssumption ==
    /\ FRegister \subseteq 0 .. 31
    /\ SingleExponent \in 2 .. Bits - 3 /\ DoubleExponent \in 2 .. 2 * Bits - 3
    /\ Fir \in Word

Single == [width |-> Bits, exponent |-> SingleExponent]
Double == [width |-> 2 * Bits, exponent |-> DoubleExponent]
Formats == {Single, Double}

FractionBits(F) == F.width - 1 - F.exponent
SignBit(F) == 2^(F.width - 1)
Exponents(F) == 2^F.exponent - 1    \* the exponent of infinities and NaNs

IsNegative(F, x) == x >= SignBit(F)             \* std::signbit
Absolute(F, x) == x % SignBit(F)                \* std::fabs
Negated(F, x) == (x + SignBit(F)) % (2 * SignBit(F))
Fraction(F, x) == x % 2^FractionBits(F)
Exponent(F, x) == Absolute(F, x) \div 2^FractionBits(F)

IsFinite(F, x) == Exponent(F, x) # Exponents(F)
IsNaN(F, x) == ~IsFinite(F, x) /\ Fraction(F, x) # 0
Infinity(F) == Exponents(F) * 2^FractionBits(F)
Largest(F) == Infinity(F) - 1
(* std::numeric_limits: the only NaNs that the source tells from the others  *)
QuietNaN(F) == Infinity(F) + 2^(FractionBits(F) - 1)
SignallingNaN(F) == Infinity(F) + 2^(FractionBits(F) - 2)

(* Numbers that are not NaN compare as their ranks do.                       *)
Rank(F, x) == IF IsNegative(F, x) THEN -Absolute(F, x) ELSE x
IsUnordered(F, x, y) == IsNaN(F, x) \/ IsNaN(F, y)
IsLess(F, x, y) == ~IsUnordered(F, x, y) /\ Rank(F, x) < Rank(F, y)
IsEqual(F, x, y) == ~IsUnordered(F, x, y) /\ Rank(F, x) = Rank(F, y)

-------------------------------------------------------------------------------
(* From a finite number to integers                                          *)

Significand(F, x) ==
    Fraction(F, x) + IF Exponent(F, x) = 0 THEN 0 ELSE 2^FractionBits(F)
(* Twice a number is its significand times 2^Scale.                          *)
Scale(F, x) ==
    LET e == IF Exponent(F, x) = 0 THEN 1 ELSE Exponent(F, x)
    IN  e - (2^(F.exponent - 1) - 1) - FractionBits(F) + 1

(* The integers below and above twice the number: whether a number is less   *)
(* than an integer or a half of one can be told from them.  A table of all.  *)
TwiceDownOf ==
    [F \in Formats |-> [x \in 0 .. 2^F.width - 1 |->
        LET n == Significand(F, x) * IF IsNegative(F, x) THEN -1 ELSE 1
        IN  IF Scale(F, x) >= 0 THEN n * 2^Scale(F, x) ELSE n \div 2^(-Scale(F, x))]]
TwiceDown(F, x) == TwiceDownOf[F][x]
TwiceUp(F, x) == -TwiceDown(F, Negated(F, x))

Floor(F, x) == TwiceDown(F, x) \div 2
Ceiling(F, x) == -Floor(F, Negated(F, x))
Truncated(F, x) == IF IsNegative(F, x) THEN Ceiling(F, x) ELSE Floor(F, x)
(* std::round: halves go away from zero                                      *)
Rounded(F, x) ==
    IF IsNegative(F, x) THEN -((-TwiceUp(F, x) + 1) \div 2)
                        ELSE (TwiceDown(F, x) + 1) \div 2
IsInteger(F, x) == Floor(F, x) = Ceiling(F, x)

(* The multiple of d nearest to n, or the even one of two.                   *)
NearestMultiple(n, d) ==
    LET q == (2 * n + d) \div (2 * d)
    IN  d * IF (2 * n + d) % (2 * d) = 0 THEN q - (q % 2) ELSE q

(* The number of F nearest to an integer n: what n becomes in arithmetic.  A *)
(* number this large is one of FractionBits + 1 bits times 2^k.              *)
SpacingOf(F, n) ==
    2^(CHOOSE k \in 0 .. 2 * Bits : /\ n < 2^(k + FractionBits(F) + 1)
                                    /\ k = 0 \/ n >= 2^(k + FractionBits(F)))
NearestTo(F, n) ==
    LET m == Magnitude(n)
        nearest == NearestMultiple(m, SpacingOf(F, m))
    IN  IF n < 0 THEN -nearest ELSE nearest

(* int32 and int64, as wide as a single and a double                         *)
LowestInt(F) == -SignBit(F)
HighestInt(F) == SignBit(F) - 1

-------------------------------------------------------------------------------
(* The unit u is a record of                                                 *)
(*   f       the registers, <<low word, high word>>,                         *)
(*   mode    RoundingMode,                                                   *)
(*   flags, enables, cause    sets of signals; cause may have "Unsupported", *)
(*   raw     whether a reserved bit of FCSR does not have its value,         *)
(*   clocks  needs_clock_.                                                   *)
(* FlushZero is left to the arithmetic of the host.                          *)

Signal == {"Inexact", "Underflow", "Overflow", "DivZero", "InvalidOp"}
Cause == Signal \cup {"Unsupported"}
Mode == {"ToNearest", "ToZero", "ToPositive", "ToNegative"}

Unit == [f : [FRegister -> Word \X Word], mode : Mode,
         flags : SUBSET Signal, enables : SUBSET Signal, cause : SUBSET Cause,
         raw : BOOLEAN, clocks : BOOLEAN]

Get(u, F, n) == IF F = Single THEN u.f[n][1] ELSE u.f[n][1] + 2^Bits * u.f[n][2]
SetLow(u, n, x) == [u EXCEPT !.f[n] = <<x, @[2]>>]
SetHigh(u, n, x) == [u EXCEPT !.f[n] = <<@[1], x>>]
Set(u, F, n, x) ==
    IF F = Single THEN SetLow(u, n, x)
    ELSE [u EXCEPT !.f[n] = <<Wrap(x), x \div 2^Bits>>]

(* FCSR::clock gives the reserved bits their values.                         *)
Clock(u) == [u EXCEPT !.raw = FALSE]

(* FCSR::set_flag gives whether the signal is enabled, as well.              *)
SetFlag(u, signal) == [u EXCEPT !.flags = @ \cup {signal}]
ClearCause(u) == [u EXCEPT !.cause = {}]

(* The words of FCSR, FEXR and FENR.  A small word has room for some of the  *)
(* bits: the others cannot be moved to or from a register of the processor.  *)
Has(word, bit) == bit \in BitsOf[word]
SignalsIn(word, invalid, inexact) ==
    {s \in {"InvalidOp", "Inexact"} :
        Has(word, IF s = "InvalidOp" THEN invalid ELSE inexact)}
SumOf(bits) == WordOf[bits]
Where(condition, bit) == IF condition THEN {bit} ELSE {}

ModeBits(u) == Where(u.mode \in {"ToZero", "ToNegative"}, 0)
FlagBits(u) == Where("InvalidOp" \in u.flags, 1) \cup Where("Inexact" \in u.flags, 2)
EnableBits(u) ==
    Where("InvalidOp" \in u.enables, 3) \cup Where("Inexact" \in u.enables, 4)
CauseBits(u) ==
    Where("InvalidOp" \in u.cause, 5) \cup Where("Unsupported" \in u.cause, 6)
Reserved(u) == Where(u.raw, 7)

SetMode(u, word) == [u EXCEPT !.mode = IF Has(word, 0) THEN "ToZero" ELSE "ToNearest"]
SetEnables(u, word) == [u EXCEPT !.enables = SignalsIn(word, 3, 4)]

GetFCSR(u) ==
    SumOf(ModeBits(u) \cup FlagBits(u) \cup EnableBits(u) \cup CauseBits(u)
          \cup Reserved(u))
GetFEXR(u) == SumOf(FlagBits(u) \cup CauseBits(u))
GetFENR(u) == SumOf(ModeBits(u) \cup EnableBits(u))

SetFEXR(u, word) ==
    [u EXCEPT !.flags = SignalsIn(word, 1, 2),
              !.cause = Where(Has(word, 5), "InvalidOp")
                        \cup Where(Has(word, 6), "Unsupported")]
SetFENR(u, word) == SetEnables(SetMode(u, word), word)
(* All the bits, those that have a fixed value as well.                      *)
SetFCSR(u, word) == [SetFENR(SetFEXR(u, word), word) EXCEPT !.raw = Has(word, 7)]
==============================================================================

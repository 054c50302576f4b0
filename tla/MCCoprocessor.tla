---------------------------- MODULE MCCoprocessor ----------------------------
(* Singles of 8 bits, 4 of them exponent, and doubles of 16, 5 of them       *)
(* exponent: like those of the code they reach beyond the integers of their  *)
(* own width and are not as precise.  One register has each number of        *)
(* interest: zeros, subnormals, infinities, NaNs, and halves and limits of   *)
(* the integers.                                                             *)
EXTENDS Coprocessor

Registers == {0, 2, 30, 31}
File(x, frame) ==
    [n \in Registers |->
        CASE n = 0 -> 0 [] n = 2 -> x [] n = 30 -> frame [] n = 31 -> 12]
Files == {File(0, 6), File(166, 252)}

Number(F, negative, exponent, fraction) ==
    (IF negative THEN SignBit(F) ELSE 0)
    + exponent * 2^FractionBits(F) + fraction
(* 0, 1, a subnormal, 1/2, 3/2, 5/2, 127 rounded down, the largest number,   *)
(* infinity and the two NaNs that the source knows and one that it does not. *)
Singles == <<0, 56, 1, 48, 60, 66, 111, 119, 120, 124, 122, 121>>
(* The same around 128 and 32768, with halves and without.                   *)
Doubles == <<0, 15360, 14336, 30719, 30720, 30721, 22520, 22524, 22528, 22532,
             31744, 32000, 32256, 31745>>

(* 128 and its negative, and NaNs                                            *)
LastSingles == <<112, 240, 122, 123, 124, 125, 126, 127>>

Numbers == 0 .. 31
File1 ==
    [n \in Numbers |->
        IF n < 12 THEN <<Singles[n + 1], 3>>
        ELSE IF n < 16 THEN <<Singles[n - 11] + 128, 188>>
        ELSE IF n < 31 THEN <<Doubles[((n - 16) % 14) + 1] % 256,
                              Doubles[((n - 16) % 14) + 1] \div 256>>
        ELSE <<0, 248>>]
File2 ==
    [n \in Numbers |->
        IF n < 8 THEN <<Singles[n + 5] + 128, 3>>
        ELSE IF n < 16 THEN <<LastSingles[n - 7], 60>>
        ELSE <<Doubles[((n - 16) % 14) + 1] % 256,
               Doubles[((n - 16) % 14) + 1] \div 256 + IF n < 30 THEN 128 ELSE 0>>]

UnitOf(file, mode, enables, cause, raw, clocks) ==
    [f |-> file, mode |-> mode, flags |-> {"Inexact"}, enables |-> enables,
     cause |-> cause, raw |-> raw, clocks |-> clocks]
StartUnits ==
    {UnitOf(File1, "ToNearest", {}, {"InvalidOp"}, FALSE, FALSE),
     UnitOf(File1, "ToZero", {"InvalidOp"}, {}, TRUE, TRUE),
     UnitOf(File2, "ToNegative", {"Overflow", "Inexact"}, {}, TRUE, FALSE)}

Choosing == {0, 1, 2, 5, 9, 10, 12, 13, 15, 17, 26, 27, 31}
Results == {1, 9, 12, 29}
Statuses == {{}, {"InvalidOp"}, {"Inexact"}, {"Overflow"}, {"Inexact", "Overflow"}}
Outcomes ==
    {[value |-> v, raised |-> s] : v \in {3, 200},
        s \in {{}, {"Inexact"}, {"Overflow"}, {"Inexact", "Overflow"},
               {"DivZero"}, {"InvalidOp"}, {"Inexact", "Underflow"}}}

Bytes12 == {[p \in 0 .. 11 |-> p % 4]}
Mmus ==
    {[mmu |-> "none", stack |-> s, rox |-> FALSE, executable |-> {}] :
        s \in {0, 4}} \cup
    {[mmu |-> "emulated", stack |-> 0, rox |-> TRUE, executable |-> {<<8, 12>>}]}
==============================================================================

-------------------------------- MODULE Words --------------------------------
(*****************************************************************************)
(* Machine words of Bits bits.  The model is the same for every width: a     *)
(* halfword is half a word and a byte a quarter of one, so that small words  *)
(* have every boundary that words of 32 bits have.                           *)
(*****************************************************************************)
EXTENDS Integers, FiniteSets

CONSTANT Bits

ASSUME WordsAssumption == Bits \in {4, 8, 16, 32}

Word == 0 .. 2^Bits - 1
Half == 0 .. 2^(Bits \div 2) - 1
Top == 2^(Bits - 1)         \* the sign bit, as a number
Highest == 2^Bits - 1       \* uint32(-1)

Wrap(n) == n % 2^Bits

(* The signed number that a word, or its lowest n bits, stand for.           *)
Signed(x) == IF x >= Top THEN x - 2^Bits ELSE x
SignedField(x, n) ==
    LET low == x % 2^n IN IF low >= 2^(n - 1) THEN low - 2^n ELSE low

SignExtend(x, n) == Wrap(SignedField(x, n))

(* int64 result of two int32, beyond what an int32 holds                     *)
Overflows(n) == n >= Top \/ n < -Top

BitsOf == [x \in Word |-> {b \in 0 .. Bits - 1 : (x \div 2^b) % 2 = 1}]
WordOf == [S \in SUBSET (0 .. Bits - 1) |-> CHOOSE x \in Word : BitsOf[x] = S]

And(x, y) == WordOf[BitsOf[x] \cap BitsOf[y]]
Or(x, y) == WordOf[BitsOf[x] \cup BitsOf[y]]
Xor(x, y) == WordOf[(BitsOf[x] \cup BitsOf[y]) \ (BitsOf[x] \cap BitsOf[y])]
Not(x) == Highest - x

Shl(x, n) == Wrap(x * 2^n)
Shr(x, n) == x \div 2^n
Sar(x, n) == Wrap(Signed(x) \div 2^n)

(* Division of signed numbers in C, towards zero                             *)
Magnitude(n) == IF n < 0 THEN -n ELSE n
Quotient(a, b) ==
    LET q == Magnitude(a) \div Magnitude(b)
    IN  IF (a < 0) = (b < 0) THEN q ELSE -q
Remainder(a, b) == a - b * Quotient(a, b)

LeadingZeros(x) ==
    Cardinality({b \in 0 .. Bits - 1 : \A c \in BitsOf[x] : c < b})
==============================================================================

--------------------------- MODULE SideBySideProofs ---------------------------
(*****************************************************************************)
(* Proofs about SideBySide and Coprocessor, for words of any width: that the *)
(* two engines end every instruction, of the processor and of its unit for   *)
(* floating point, alike but for the listed differences, that neither        *)
(* follows a null pointer, that an exception undoes what its instruction     *)
(* did, and that executable memory is not stored to.                         *)
(*                                                                           *)
(* The lemmas go through the instructions by what they compute: sums and     *)
(* products, the operations on bits, fields and counted zeros, the           *)
(* conditions of branches, and then pointers and accesses to memory.  The    *)
(* specification follows: from machines that agree, one instruction.         *)
(*                                                                           *)
(* The same comes after it for Coprocessor: units that are the same, or the  *)
(* same but for a clock that is still to come, are shown to stay so under    *)
(* every handler and in what is emitted.                                     *)
(*****************************************************************************)
EXTENDS Coprocessor, FiniteSetTheorems, WellFoundedInduction, TLAPS

-------------------------------------------------------------------------------
(* One meaning of the words, whichever module speaks *)
LEMMA SharedWords ==
    ASSUME NEW x, NEW y
    PROVE  /\ I!Wrap(x) = Wrap(x) /\ E!Wrap(x) = Wrap(x)
           /\ I!Signed(x) = Signed(x) /\ E!Signed(x) = Signed(x)
           /\ I!Overflows(x) = Overflows(x) /\ E!Overflows(x) = Overflows(x)
           /\ I!Not(x) = Not(x) /\ E!Not(x) = Not(x)
           /\ I!Shl(x, y) = Shl(x, y) /\ E!Shl(x, y) = Shl(x, y)
           /\ I!Shr(x, y) = Shr(x, y) /\ E!Shr(x, y) = Shr(x, y)
           /\ I!Sar(x, y) = Sar(x, y) /\ E!Sar(x, y) = Sar(x, y)
           /\ I!SignExtend(x, y) = SignExtend(x, y) /\ E!SignExtend(x, y) = SignExtend(x, y)
BY DEF I!Wrap, E!Wrap, Wrap, I!Signed, E!Signed, Signed, I!Overflows, E!Overflows,
   Overflows,
       I!Not, E!Not, Not, I!Shl, E!Shl, Shl, I!Shr, E!Shr, Shr, I!Sar, E!Sar, Sar,
       I!SignExtend, E!SignExtend, SignExtend, I!SignedField, E!SignedField, SignedField,
       I!Top, E!Top, Top, I!Highest, E!Highest, Highest

(* And one meaning of the number of elements. *)
LEMMA SharedCardinality ==
    ASSUME NEW S
    PROVE  I!Cardinality(S) = Cardinality(S) /\ E!Cardinality(S) = Cardinality(S)
BY DEF I!Cardinality, E!Cardinality, Cardinality

(* The operations on bits are the same in all of them. *)
LEMMA SharedBits ==
    ASSUME NEW x, NEW y
    PROVE  /\ I!BitsOf = BitsOf /\ E!BitsOf = BitsOf
           /\ I!WordOf = WordOf /\ E!WordOf = WordOf
           /\ I!And(x, y) = And(x, y) /\ E!And(x, y) = And(x, y)
           /\ I!Or(x, y) = Or(x, y) /\ E!Or(x, y) = Or(x, y)
           /\ I!Xor(x, y) = Xor(x, y) /\ E!Xor(x, y) = Xor(x, y)
           /\ I!LeadingZeros(x) = LeadingZeros(x) /\ E!LeadingZeros(x) = LeadingZeros(x)
<1>1. I!BitsOf = BitsOf /\ E!BitsOf = BitsOf
  BY DEF I!BitsOf, E!BitsOf, BitsOf, I!Word, E!Word, Word
<1>2. I!WordOf = WordOf /\ E!WordOf = WordOf
  BY <1>1 DEF I!WordOf, E!WordOf, WordOf, I!Word, E!Word, Word
<1>3. /\ I!And(x, y) = And(x, y) /\ E!And(x, y) = And(x, y)
      /\ I!Or(x, y) = Or(x, y) /\ E!Or(x, y) = Or(x, y)
      /\ I!Xor(x, y) = Xor(x, y) /\ E!Xor(x, y) = Xor(x, y)
  BY <1>1, <1>2 DEF I!And, E!And, And, I!Or, E!Or, Or, I!Xor, E!Xor, Xor
<1>4. I!LeadingZeros(x) = LeadingZeros(x) /\ E!LeadingZeros(x) = LeadingZeros(x)
  <2> DEFINE above(bits) == {b \in 0 .. Bits - 1 : \A c \in bits : c < b}
  <2>1. /\ LeadingZeros(x) = Cardinality(above(BitsOf[x]))
        /\ I!LeadingZeros(x) = Cardinality(above(I!BitsOf[x]))
        /\ E!LeadingZeros(x) = Cardinality(above(E!BitsOf[x]))
    BY SharedCardinality DEF I!LeadingZeros, E!LeadingZeros, LeadingZeros
  <2> HIDE DEF above
  <2> QED
    BY <1>1, <2>1
<1> QED
  BY <1>1, <1>2, <1>3, <1>4

-------------------------------------------------------------------------------
(* Words *)
Size == 2^Bits

(* A word is a number below Size, and Top is its sign bit. *)
LEMMA Sizes ==
    /\ Size \in Nat /\ Top \in Nat /\ Size = Top + Top /\ Top >= 8
    /\ Highest = Size - 1 /\ Word = 0 .. Size - 1 /\ 0 \in Word
<1>1. CASE Bits = 4
  BY <1>1 DEF Top, Highest, Word, Size
<1>2. CASE Bits = 8
  BY <1>2 DEF Top, Highest, Word, Size
<1>3. CASE Bits = 16
  BY <1>3 DEF Top, Highest, Word, Size
<1>4. CASE Bits = 32
  BY <1>4 DEF Top, Highest, Word, Size
<1> QED
  BY <1>1, <1>2, <1>3, <1>4, WordsAssumption

(* A signed word is below Top, or its distance to Size below zero. *)
LEMMA SignedIs ==
    ASSUME NEW x \in Word
    PROVE  /\ Signed(x) \in Int /\ -Top <= Signed(x) /\ Signed(x) < Top
           /\ x < Top => Signed(x) = x
           /\ x >= Top => Signed(x) = x - Size
           /\ x \in Nat /\ x < Size
BY Sizes DEF Signed, Size

(* One wrap takes a number that is at most one Size out of range into a      *)
(* word.                                                                     *)
LEMMA WrapIs ==
    ASSUME NEW n \in Int
    PROVE  /\ Wrap(n) \in Word
           /\ n >= 0 /\ n < Size => Wrap(n) = n
           /\ n < 0 /\ n >= -Size => Wrap(n) = n + Size
           /\ n >= Size /\ n < Size + Size => Wrap(n) = n - Size
<1>1. CASE Bits = 4
  BY <1>1 DEF Wrap, Word, Size
<1>2. CASE Bits = 8
  BY <1>2 DEF Wrap, Word, Size
<1>3. CASE Bits = 16
  BY <1>3 DEF Wrap, Word, Size
<1>4. CASE Bits = 32
  BY <1>4 DEF Wrap, Word, Size
<1> QED
  BY <1>1, <1>2, <1>3, <1>4, WordsAssumption

(* A word wraps to itself. *)
LEMMA WrapWord ==
    ASSUME NEW x \in Word
    PROVE  x \in Nat /\ Wrap(x) = x
BY WrapIs, Sizes

(* A word that is signed and wrapped is the word. *)
LEMMA WrapSigned ==
    ASSUME NEW x \in Word
    PROVE  Wrap(Signed(x)) = x
<1>1. CASE x < Top
  BY <1>1, SignedIs, WrapWord
<1>2. CASE x >= Top
  BY <1>2, SignedIs, WrapIs, Sizes
<1> QED
  BY <1>1, <1>2, Sizes

-------------------------------------------------------------------------------
(* The machine *)

Agreed(m, r) ==
    /\ m \in [slot : [Register -> Word], r15d : Word]
    /\ View(m) = r /\ r[0] = 0

(* Both engines end an instruction alike, and one that raises changes no     *)
(* register.                                                                 *)
Alike(interpreted, emitted, r) ==
    /\ View(emitted.regs) = interpreted.regs /\ interpreted.out = emitted.out
    /\ interpreted.out[1] = "raise" => interpreted.regs = r

(* $0, $30 and $31 are registers, whichever registers the model has. *)
LEMMA RegistersHaveZero == {0, 30, 31} \subseteq Register /\ Register \subseteq 0 .. 31
BY InstructionSetAssumption

(* Emitted code reads the register that the interpreter reads, in a slot or  *)
(* in r15d.                                                                  *)
LEMMA AtIs ==
    ASSUME NEW m, NEW r, Agreed(m, r), NEW x \in Register
    PROVE  E!At(m, x) = r[x] /\ r[x] \in Word
BY RegistersHaveZero DEF Agreed, View, E!At, E!IsREG, E!fp, fp

(* The registers are words, and $0 is zero. *)
LEMMA FileIs ==
    ASSUME NEW m, NEW r, Agreed(m, r)
    PROVE  r \in [Register -> Word] /\ r[0] = 0
BY RegistersHaveZero DEF Agreed, View, fp

(* What emitted code puts into a register other than $0 is what the guest    *)
(* finds there when it is left, and nothing else changes.                    *)
LEMMA PutIs ==
    ASSUME NEW m, NEW r, Agreed(m, r), NEW d \in Register \ {0}, NEW v
    PROVE  /\ View(E!Put(m, d, v)) = [r EXCEPT ![d] = v]
           /\ \A x \in Register : E!At(E!Put(m, d, v), x) = IF x = d THEN v ELSE r[x]
           /\ \A w : View(E!Put(E!Put(m, d, v), d, w)) = [r EXCEPT ![d] = w]
BY RegistersHaveZero DEF Agreed, View, E!Put, E!At, E!IsREG, E!fp, fp

(* The fields of an instruction that name registers *)
Names(i) == i.rd \in Register /\ i.rs \in Register /\ i.rt \in Register

(* All of this for the registers that an instruction names. *)
LEMMA NamesAre ==
    ASSUME NEW m, NEW r, Agreed(m, r), NEW i, Names(i)
    PROVE  /\ i.rd \in Register /\ i.rs \in Register /\ i.rt \in Register
           /\ E!At(m, i.rd) = r[i.rd] /\ r[i.rd] \in Word
           /\ E!At(m, i.rs) = r[i.rs] /\ r[i.rs] \in Word
           /\ E!At(m, i.rt) = r[i.rt] /\ r[i.rt] \in Word
           /\ r[0] = 0
BY AtIs, FileIs DEF Names

-------------------------------------------------------------------------------
(* The ways to end *)
LEMMA WriteAlike ==
    ASSUME NEW m, NEW r, Agreed(m, r), NEW d \in Register, NEW v
    PROVE  /\ d # 0 => Alike(I!Write(r, d, v), E!Result(m, d, v), r)
           /\ d = 0 \/ v = r[d] => Alike(I!Write(r, d, v), E!Nop(m), r)
BY PutIs, FileIs
DEF Alike, Agreed, I!Write, I!Set, I!Continue, I!Ended,
    E!Result, E!Nop, E!Continue, E!Ended

(* A destination that is written twice holds what was written last. *)
LEMMA WriteTwice ==
    ASSUME NEW m, NEW r, Agreed(m, r), NEW d \in Register \ {0}, NEW u, NEW v
    PROVE  Alike(I!Write(r, d, v), E!Result(E!Put(m, d, u), d, v), r)
BY PutIs
DEF Alike, I!Write, I!Set, I!Continue, I!Ended, E!Result, E!Continue, E!Ended

(* Both engines raise alike. *)
LEMMA RaiseAlike ==
    ASSUME NEW m, NEW r, Agreed(m, r), NEW type, NEW i
    PROVE  /\ Alike(I!Raise(r, type), E!Raise(m, type), r)
           /\ Alike(I!Coded(r, type, i), E!Coded(m, type, i), r)
BY DEF Agreed, Alike, I!Raise, I!Coded, I!Ended, E!Raise, E!Coded, E!Ended

(* Both engines go on alike, and branch alike. *)
LEMMA EndAlike ==
    ASSUME NEW m, NEW r, Agreed(m, r), NEW target
    PROVE  /\ Alike(I!Continue(r), E!Continue(m), r)
           /\ Alike(I!NoCTI(r), E!NoCTI(m), r)
           /\ Alike(I!DelayBranch(r, target), E!DelayBranch(m, target), r)
           /\ Alike(I!CompactBranch(r, target), E!CompactBranch(m, target), r)
BY DEF Agreed, Alike, I!Continue, I!NoCTI, I!DelayBranch, I!CompactBranch, I!Ended,
       E!Continue, E!NoCTI, E!DelayBranch, E!CompactBranch, E!Ended

(* Also after a link was written. *)
LEMMA LinkAlike ==
    ASSUME NEW m, NEW r, Agreed(m, r), NEW d \in Register \ {0}, NEW v, NEW target
    PROVE  /\ Alike(I!NoCTI(I!Set(r, d, v)), E!NoCTI(E!Put(m, d, v)), r)
           /\ Alike(I!DelayBranch(I!Set(r, d, v), target),
                    E!DelayBranch(E!Put(m, d, v), target), r)
           /\ Alike(I!CompactBranch(I!Set(r, d, v), target),
                    E!CompactBranch(E!Put(m, d, v), target), r)
BY PutIs
DEF Alike, I!Set, I!NoCTI, I!DelayBranch, I!CompactBranch, I!Ended,
    E!NoCTI, E!DelayBranch, E!CompactBranch, E!Ended

-------------------------------------------------------------------------------
(* Arithmetic *)
LEMMA AddsAlike ==
    ASSUME NEW m, NEW r, Agreed(m, r), NEW i, Names(i)
    PROVE  Alike(I!ADDU(r, i), E!ADDU(m, i), r)
<1> DEFINE put == E!Put(m, i.rd, r[i.rs])
<1>1. Wrap(r[i.rs] + 0) = r[i.rs] /\ Wrap(0 + r[i.rt]) = r[i.rt]
  BY NamesAre, WrapWord
<1>2. CASE i.rd \notin {0, i.rs, i.rt}
  <2>1. E!At(put, i.rd) = r[i.rs] /\ E!At(put, i.rt) = r[i.rt]
    BY <1>2, NamesAre, PutIs
  <2> QED
    BY <1>1, <1>2, <2>1, NamesAre, WriteAlike, WriteTwice, SharedWords
    DEF I!ADDU, E!ADDU, E!Move, E!Plus, E!Accumulate
<1>3. I!ADDU(r, i) = I!Write(r, i.rd, Wrap(r[i.rs] + r[i.rt]))
  BY SharedWords DEF I!ADDU
<1>4. CASE i.rd = 0
  BY <1>3, <1>4, NamesAre, WriteAlike DEF E!ADDU
<1>5. CASE i.rd # 0 /\ i.rd \in {i.rs, i.rt}
  <2>1. E!ADDU(m, i) = E!Result(m, i.rd, Wrap(r[i.rs] + r[i.rt]))
    BY <1>1, <1>5, NamesAre, SharedWords DEF E!ADDU, E!Move, E!Plus
  <2> QED
    BY <1>3, <1>5, <2>1, NamesAre, WriteAlike
<1> QED
  BY <1>2, <1>4, <1>5

(* SUBU: by copy and difference, or by a negation, unless the destination    *)
(* was the second source.                                                    *)
LEMMA SubtractsAlike ==
    ASSUME NEW m, NEW r, Agreed(m, r), NEW i, Names(i), ~SourceOverwritten("SUBU", i)
    PROVE  Alike(I!SUBU(r, i), E!SUBU(m, i), r)
<1> DEFINE put == E!Put(m, i.rd, r[i.rs])
<1>1. Wrap(r[i.rs] - 0) = r[i.rs] /\ Wrap(r[i.rs] - r[i.rs]) = 0
  BY NamesAre, WrapWord, Sizes
<1>2. CASE i.rd \notin {0, i.rs} /\ i.rt # i.rd
  <2>1. E!At(put, i.rd) = r[i.rs] /\ E!At(put, i.rt) = r[i.rt]
    BY <1>2, NamesAre, PutIs
  <2> QED
    BY <1>1, <1>2, <2>1, NamesAre, WriteAlike, WriteTwice, SharedWords
    DEF I!SUBU, E!SUBU, E!Move, E!Minus, E!Accumulate
<1>3. CASE i.rd = fp /\ i.rt = fp
  <2>1. i.rs = fp \/ i.rs = 0
    BY <1>3 DEF SourceOverwritten
  <2>2. CASE i.rs = fp
    BY <1>1, <1>3, <2>2, NamesAre, WriteAlike, SharedWords DEF I!SUBU, E!SUBU, fp
  <2>3. CASE i.rs = 0
    BY <1>3, <2>3, NamesAre, WriteAlike, SharedWords DEF I!SUBU, E!SUBU, E!Minus, fp
  <2> QED
    BY <2>1, <2>2, <2>3
<1>4. CASE i.rd \in {0, i.rs} \/ (i.rt = i.rd /\ i.rd # fp)
  BY <1>1, <1>4, NamesAre, WriteAlike, SharedWords
  DEF I!SUBU, E!SUBU, E!Move, E!Minus, E!Accumulate, E!IsREG, E!fp, fp
<1> QED
  BY <1>2, <1>3, <1>4

(* What is true of a sum and a difference: taken back, without an operand,   *)
(* of a register with itself.                                                *)
LEMMA SumsAre ==
    ASSUME NEW a \in Word, NEW b \in Word
    PROVE  /\ Wrap(Signed(a) + 0) = a /\ ~Overflows(Signed(a) + 0)
           /\ Wrap(0 + Signed(b)) = b /\ ~Overflows(0 + Signed(b))
           /\ Wrap(Wrap(Signed(a) + Signed(b)) - b) = a
           /\ Wrap(Signed(a) - 0) = a /\ ~Overflows(Signed(a) - 0)
           /\ Signed(a) - Signed(a) = 0 /\ Wrap(0) = 0 /\ ~Overflows(0)
           /\ Wrap(0 - Signed(b)) = Wrap(0 - b)
           /\ Overflows(0 - Signed(b)) <=> b = Top
           /\ Signed(0) = 0
<1>1. /\ Signed(a) \in Int /\ -Top <= Signed(a) /\ Signed(a) < Top
      /\ Signed(b) \in Int /\ -Top <= Signed(b) /\ Signed(b) < Top
      /\ Wrap(Signed(a)) = a /\ Wrap(Signed(b)) = b /\ Signed(0) = 0
  BY SignedIs, WrapSigned, Sizes
<1>2. Wrap(0) = 0
  BY WrapIs, Sizes
<1>3. Wrap(Wrap(Signed(a) + Signed(b)) - b) = a
  <2> DEFINE sum == Signed(a) + Signed(b)
  <2>1. sum \in Int /\ -Size <= sum /\ sum < Size
    BY <1>1, Sizes
  <2>2. Wrap(sum) = sum \/ Wrap(sum) = sum + Size
    BY <2>1, WrapIs
  <2>3. Signed(b) = b \/ Signed(b) = b - Size
    BY DEF Signed, Size
  <2>4. Signed(a) = a \/ Signed(a) = a - Size
    BY DEF Signed, Size
  <2>5. /\ a \in Int /\ b \in Int /\ 0 <= a /\ a < Size /\ 0 <= b /\ b < Size
        /\ Wrap(sum) \in Int /\ 0 <= Wrap(sum) /\ Wrap(sum) < Size
    BY <2>1, WrapIs, Sizes
  <2>6. Wrap(sum) - b = a \/ Wrap(sum) - b = a - Size
        \/ Wrap(sum) - b = a + Size \/ Wrap(sum) - b = a - (Size + Size)
    BY <2>2, <2>3, <2>4, <2>5, Sizes
  <2>7. Wrap(sum) - b = a \/ Wrap(sum) - b = a - Size
    BY <2>5, <2>6, Sizes
  <2>8. Wrap(a) = a /\ Wrap(a - Size) = a
    <3>1. a - Size \in Int /\ a - Size < 0 /\ a - Size >= -Size
      BY <2>5, Sizes
    <3>2. (a - Size) + Size = a
      BY <2>5, Sizes
    <3> QED
      BY <3>1, <3>2, WrapIs, WrapWord
  <2> QED
    BY <2>7, <2>8
<1>4. /\ Wrap(0 - Signed(b)) = Wrap(0 - b)
      /\ Overflows(0 - Signed(b)) <=> b = Top
  <2>1. CASE b < Top
    BY <2>1, SignedIs, Sizes DEF Overflows
  <2>2. CASE b >= Top
    <3>1. Signed(b) = b - Size /\ b \in Nat /\ b < Size
      BY <2>2, SignedIs, Sizes
    <3>2. 0 - Signed(b) = Size - b /\ Size - b >= 0 /\ Size - b < Size
      BY <2>2, <3>1, Sizes
    <3>3. 0 - b < 0 /\ 0 - b >= -Size /\ (0 - b) + Size = Size - b /\ 0 - b \in Int
      BY <2>2, <3>1, Sizes
    <3>4. Wrap(0 - Signed(b)) = Size - b /\ Wrap(0 - b) = Size - b
      BY <3>1, <3>2, <3>3, WrapIs, Sizes
    <3>5. Overflows(Size - b) <=> b = Top
      BY <2>2, <3>1, Sizes DEF Overflows
    <3> QED
      BY <3>2, <3>4, <3>5
  <2> QED
    BY <2>1, <2>2, SignedIs, Sizes
<1> QED
  BY <1>1, <1>2, <1>3, <1>4, Sizes DEF Overflows

(* ADD: a sum in place is taken back when it overflows, by subtracting what  *)
(* was added.                                                                *)
LEMMA AddAlike ==
    ASSUME NEW m, NEW r, Agreed(m, r), NEW i, Names(i), ~OverflowLost("ADD", i, r)
    PROVE  Alike(I!ADD(r, i), E!ADD(m, i), r)
<1> DEFINE a == r[i.rs]
           b == r[i.rt]
           sum == Signed(a) + Signed(b)
           put == E!Put(m, i.rd, Wrap(sum))
<1>1. /\ a \in Word /\ b \in Word
      /\ E!At(m, i.rs) = a /\ E!At(m, i.rt) = b
  BY NamesAre
<1>2. CASE Overflows(sum)
  <2>1. I!ADD(r, i) = I!Raise(r, "Ov")
    BY <1>2, SharedWords DEF I!ADD
  <2>2. i.rd # 0
    BY <2>1 DEF OverflowLost, Interpret, I!Raise, I!Ended
  <2>3. i.rt # 0 /\ i.rs # 0
    <3>1. r[0] = 0
      BY NamesAre
    <3> QED
      BY <1>1, <1>2, <3>1, SumsAre
  <2>4. CASE i.rs = i.rd
    <3>1. E!At(put, i.rd) = Wrap(sum)
      BY <1>1, <2>2, <2>4, NamesAre, PutIs
    <3>2. E!Minus(Wrap(sum), b) = a
      <4>1. Wrap(Wrap(sum) - b) = a
        BY <1>1, SumsAre
      <4> HIDE DEF sum, a, b
      <4> QED
        BY <4>1, SharedWords DEF E!Minus
    <3>3. E!ADD(m, i) = E!Raise(E!Put(m, i.rd, a), "Ov")
      BY <1>1, <1>2, <2>2, <2>3, <2>4, <3>1, <3>2, SharedWords DEF E!ADD, E!Unless
    <3>4. View(E!Put(m, i.rd, a)) = r
      BY <2>2, <2>4, NamesAre, PutIs, FileIs
    <3> QED
      BY <2>1, <3>3, <3>4 DEF Alike, I!Raise, I!Ended, E!Raise, E!Ended
  <2>5. CASE i.rs # i.rd
    BY <1>1, <1>2, <2>1, <2>2, <2>3, <2>5, RaiseAlike, SharedWords DEF E!ADD, E!Unless
  <2> QED
    BY <2>4, <2>5
<1>3. CASE ~Overflows(sum)
  <2>1. I!ADD(r, i) = I!Write(r, i.rd, Wrap(sum))
    BY <1>3, SharedWords DEF I!ADD
  <2>2. CASE i.rd = 0
    BY <2>1, <2>2, NamesAre, WriteAlike DEF E!ADD
  <2>3. CASE i.rd # 0 /\ i.rt = 0
    BY <1>1, <2>1, <2>3, NamesAre, WriteAlike, SumsAre DEF E!ADD, E!Move
  <2>4. CASE i.rd # 0 /\ i.rt # 0 /\ i.rs = 0
    BY <1>1, <2>1, <2>4, NamesAre, WriteAlike, SumsAre DEF E!ADD, E!Move
  <2>5. CASE i.rd # 0 /\ i.rt # 0 /\ i.rs # 0
    BY <1>1, <1>3, <2>1, <2>5, NamesAre, WriteAlike, SharedWords DEF E!ADD,
       E!Unless, E!Result
  <2> QED
    BY <2>2, <2>3, <2>4, <2>5
<1> QED
  BY <1>2, <1>3

(* SUB: the overflow of a negation is that of the difference from zero. *)
LEMMA SubAlike ==
    ASSUME NEW m, NEW r, Agreed(m, r), NEW i, Names(i), ~OverflowLost("SUB", i, r)
    PROVE  Alike(I!SUB(r, i), E!SUB(m, i), r)
<1> DEFINE a == r[i.rs]
           b == r[i.rt]
           difference == Signed(a) - Signed(b)
<1>1. /\ a \in Word /\ b \in Word /\ r[0] = 0
      /\ E!At(m, i.rs) = a /\ E!At(m, i.rt) = b
  BY NamesAre
<1>2. CASE Overflows(difference)
  <2>1. I!SUB(r, i) = I!Raise(r, "Ov")
    BY <1>2, SharedWords DEF I!SUB
  <2>2. i.rd # 0
    BY <2>1 DEF OverflowLost, Interpret, I!Raise, I!Ended
  <2>3. i.rt # 0 /\ i.rs # i.rt
    BY <1>1, <1>2, SumsAre
  <2>4. CASE i.rs = 0
    BY <1>1, <1>2, <2>1, <2>2, <2>3, <2>4, RaiseAlike, SharedWords, SumsAre
    DEF E!SUB, E!Unless, E!Top, Top
  <2>5. CASE i.rs # 0
    BY <1>1, <1>2, <2>1, <2>2, <2>3, <2>5, RaiseAlike, SharedWords DEF E!SUB, E!Unless
  <2> QED
    BY <2>4, <2>5
<1>3. CASE ~Overflows(difference)
  <2>1. I!SUB(r, i) = I!Write(r, i.rd, Wrap(difference))
    BY <1>3, SharedWords DEF I!SUB
  <2>2. CASE i.rd = 0
    BY <2>1, <2>2, NamesAre, WriteAlike DEF E!SUB
  <2>3. CASE i.rd # 0 /\ i.rs = i.rt
    BY <1>1, <2>1, <2>3, NamesAre, WriteAlike, SumsAre DEF E!SUB
  <2>4. CASE i.rd # 0 /\ i.rs # i.rt /\ i.rs = 0
    <3>1. b # Top /\ Wrap(difference) = Wrap(0 - b)
      BY <1>1, <1>3, <2>4, SumsAre
    <3> QED
      BY <1>1, <2>1, <2>4, <3>1, NamesAre, WriteAlike, SharedWords
      DEF E!SUB, E!Unless, E!Minus, E!Top, Top
  <2>5. CASE i.rd # 0 /\ i.rs # i.rt /\ i.rs # 0 /\ i.rt = 0
    BY <1>1, <2>1, <2>5, NamesAre, WriteAlike, SumsAre DEF E!SUB, E!Move
  <2>6. CASE i.rd # 0 /\ i.rs # i.rt /\ i.rs # 0 /\ i.rt # 0
    BY <1>1, <1>3, <2>1, <2>6, NamesAre, WriteAlike, SharedWords DEF E!SUB, E!Unless
  <2> QED
    BY <2>2, <2>3, <2>4, <2>5, <2>6
<1> QED
  BY <1>2, <1>3

-------------------------------------------------------------------------------
(* Offsets and immediates *)
LEMMA SharedFields ==
    ASSUME NEW i
    PROVE  /\ I!Offset(i) = Offset(i) /\ E!Offset(i) = Offset(i)
           /\ I!BranchTarget(i) = BranchTarget(i) /\ E!BranchTarget(i) = BranchTarget(i)
           /\ I!RegionTarget(i) = RegionTarget(i) /\ E!RegionTarget(i) = RegionTarget(i)
<1>1. I!Offset(i) = Offset(i) /\ E!Offset(i) = Offset(i)
  BY DEF I!Offset, E!Offset, Offset, I!SignedField, E!SignedField, SignedField
<1>2. I!BranchTarget(i) = BranchTarget(i) /\ E!BranchTarget(i) = BranchTarget(i)
  BY <1>1, SharedWords DEF I!BranchTarget, E!BranchTarget, BranchTarget
<1>3. I!RegionTarget(i) = RegionTarget(i) /\ E!RegionTarget(i) = RegionTarget(i)
  BY DEF I!RegionTarget, E!RegionTarget, RegionTarget, I!Region, E!Region, Region
<1> QED
  BY <1>1, <1>2, <1>3

(* A displacement is less than half a word in either direction, and zero     *)
(* only for the immediate zero.                                              *)
LEMMA OffsetIs ==
    ASSUME NEW i, i.imm \in Half
    PROVE  /\ Offset(i) \in Int /\ -Top < Offset(i) /\ Offset(i) < Top
           /\ Offset(i) = 0 <=> i.imm = 0
           /\ i.imm \in Word /\ Shl(i.imm, Bits \div 2) \in Word
<1>1. CASE Bits = 4
  BY <1>1 DEF Offset, SignedField, Half, Word, Top, Shl, Wrap
<1>2. CASE Bits = 8
  BY <1>2 DEF Offset, SignedField, Half, Word, Top, Shl, Wrap
<1>3. CASE Bits = 16
  BY <1>3 DEF Offset, SignedField, Half, Word, Top, Shl, Wrap
<1>4. CASE Bits = 32
  BY <1>4 DEF Offset, SignedField, Half, Word, Top, Shl, Wrap
<1> QED
  BY <1>1, <1>2, <1>3, <1>4, WordsAssumption

(* ADDIU, AUI and MOVE, whichever of source and immediate is zero. *)
LEMMA AddsImmediateAlike ==
    ASSUME NEW m, NEW r, Agreed(m, r), NEW i, Names(i), i.imm \in Half
    PROVE  /\ Alike(I!ADDIU(r, i), E!ADDIU(m, i), r)
           /\ Alike(I!AUI(r, i), E!AUI(m, i), r)
           /\ Alike(I!MOVE(r, i), E!MOVE(m, i), r)
<1>1. /\ Wrap(r[i.rs] + 0) = r[i.rs]
      /\ Wrap(0 + Offset(i)) = Wrap(Offset(i))
      /\ Wrap(0 + Shl(i.imm, Bits \div 2)) = Shl(i.imm, Bits \div 2)
      /\ r[0] = 0
  BY NamesAre, WrapWord, OffsetIs, Sizes
<1>2. Alike(I!ADDIU(r, i), E!ADDIU(m, i), r)
  <2>1. i.imm = 0 => Offset(i) = 0
    BY OffsetIs
  <2> QED
    BY <1>1, <2>1, NamesAre, WriteAlike, SharedWords, SharedFields DEF I!ADDIU,
       E!ADDIU, E!Plus
<1>3. Alike(I!AUI(r, i), E!AUI(m, i), r)
  BY <1>1, NamesAre, WriteAlike, SharedWords DEF I!AUI, E!AUI, E!Plus, E!Move
<1>4. Alike(I!MOVE(r, i), E!MOVE(m, i), r)
  BY <1>1, NamesAre, WriteAlike DEF I!MOVE, E!MOVE, E!Move
<1> QED
  BY <1>2, <1>3, <1>4

-------------------------------------------------------------------------------
(* Powers of two: the provers know those of a number that is written out. *)
Power(n) == 2^n

(* The powers of two that shifts are about. *)
LEMMA PowersAre ==
    /\ Power(0) = 1 /\ Power(1) = 2 /\ Power(2) = 4
    /\ Power(3) = 8 /\ Power(4) = 16 /\ Power(5) = 32
    /\ Power(6) = 64 /\ Power(7) = 128 /\ Power(8) = 256
    /\ Power(9) = 512 /\ Power(10) = 1024 /\ Power(11) = 2048
    /\ Power(12) = 4096 /\ Power(13) = 8192 /\ Power(14) = 16384
    /\ Power(15) = 32768 /\ Power(16) = 65536 /\ Power(17) = 131072
    /\ Power(18) = 262144 /\ Power(19) = 524288 /\ Power(20) = 1048576
    /\ Power(21) = 2097152 /\ Power(22) = 4194304 /\ Power(23) = 8388608
    /\ Power(24) = 16777216 /\ Power(25) = 33554432 /\ Power(26) = 67108864
    /\ Power(27) = 134217728 /\ Power(28) = 268435456 /\ Power(29) = 536870912
    /\ Power(30) = 1073741824 /\ Power(31) = 2147483648 /\ Power(32) = 4294967296
BY DEF Power

(* Each power of two is twice the one before. *)
LEMMA PowerIs ==
    ASSUME NEW n \in 0 .. 32
    PROVE  /\ Power(n) \in Nat \ {0}
           /\ n # 32 => Power(n + 1) = Power(n) + Power(n)
<1>1. \/ n = 0 \/ n = 1 \/ n = 2 \/ n = 3 \/ n = 4 \/ n = 5 \/ n = 6 \/ n = 7
      \/ n = 8 \/ n = 9 \/ n = 10 \/ n = 11 \/ n = 12 \/ n = 13 \/ n = 14 \/ n = 15
      \/ n = 16 \/ n = 17 \/ n = 18 \/ n = 19 \/ n = 20 \/ n = 21 \/ n = 22 \/ n = 23
      \/ n = 24 \/ n = 25 \/ n = 26 \/ n = 27 \/ n = 28 \/ n = 29 \/ n = 30 \/ n = 31
      \/ n = 32
  OBVIOUS
<1> QED
  BY <1>1, PowersAre

(* A word has at most 32 bits, and its halves and quarters have whole        *)
(* numbers of them.                                                          *)
LEMMA PowersOfWord ==
    /\ Bits \in Nat /\ Bits <= 32 /\ Bits >= 4
    /\ Power(0) = 1 /\ Size = Power(Bits) /\ Bits \div 4 \in 1 .. Bits
    /\ Bits \div 2 \in 1 .. Bits
BY PowersAre, WordsAssumption DEF Power, Size

(* What a division with remainder leaves. *)
LEMMA Divisions ==
    ASSUME NEW x \in Nat, NEW p \in Nat \ {0}
    PROVE  /\ x \div p \in Nat /\ x % p \in Nat /\ x % p < p
           /\ x = p * (x \div p) + (x % p) /\ x \div p <= x
           /\ 0 \div p = 0 /\ 0 % p = 0
           /\ x \div 1 = x
           /\ x < p => x % p = x
<1>1. /\ x \div p \in Int /\ x % p \in 0 .. p - 1 /\ x = p * (x \div p) + (x % p)
      /\ x \div 1 = x
  OBVIOUS
<1>2. x \div p >= 0
  BY <1>1
<1>3. x \div p <= x
  BY <1>1, <1>2
<1>4. 0 \div p = 0 /\ 0 % p = 0
  OBVIOUS
<1>5. x < p => x % p = x
  BY <1>1
<1> QED
  BY <1>1, <1>2, <1>3, <1>4, <1>5

(* A shift of zero is zero, and a shift by nothing is nothing. *)
LEMMA ShiftsAre ==
    ASSUME NEW x \in Word, NEW n \in 0 .. 32
    PROVE  /\ Shl(x, n) \in Word /\ Shl(0, n) = 0 /\ Shl(x, 0) = x
           /\ Shr(x, n) \in Word /\ Shr(0, n) = 0 /\ Shr(x, 0) = x
           /\ Sar(0, n) = 0
<1>1. Power(n) \in Nat \ {0} /\ Power(0) = 1
  BY PowerIs, PowersOfWord
<1>2. x \in Nat /\ x < Size /\ x * Power(n) \in Nat
  BY <1>1, Sizes
<1>3. Wrap(0) = 0 /\ Wrap(x) = x /\ Signed(0) = 0 /\ Wrap(x * Power(n)) \in Word
  BY <1>2, SumsAre, WrapWord, WrapIs, Sizes
<1>4. Shl(x, n) = Wrap(x * Power(n)) /\ Shl(0, n) = Wrap(0 * Power(n)) /\ Shl(x, 0) = Wrap(x * Power(0))
  BY DEF Shl, Power
<1>5. Shr(x, n) = x \div Power(n) /\ Shr(0, n) = 0 \div Power(n) /\ Shr(x, 0) = x \div Power(0)
  BY DEF Shr, Power
<1>6. Sar(0, n) = Wrap(0 \div Power(n))
  BY <1>3 DEF Sar, Power
<1>7. x \div Power(n) \in Word
  BY <1>1, <1>2, Divisions, Sizes
<1>8. 0 \div Power(n) = 0 /\ x \div 1 = x /\ 0 * Power(n) = 0 /\ x * 1 = x
  BY <1>1, <1>2, Divisions
<1> QED
  BY <1>1, <1>3, <1>4, <1>5, <1>6, <1>7, <1>8

(* The extensions of zero are zero. *)
LEMMA ExtensionsOfZero ==
    SignExtend(0, Bits \div 4) = 0 /\ SignExtend(0, Bits \div 2) = 0
<1>1. CASE Bits = 4
  BY <1>1 DEF SignExtend, SignedField, Wrap
<1>2. CASE Bits = 8
  BY <1>2 DEF SignExtend, SignedField, Wrap
<1>3. CASE Bits = 16
  BY <1>3 DEF SignExtend, SignedField, Wrap
<1>4. CASE Bits = 32
  BY <1>4 DEF SignExtend, SignedField, Wrap
<1> QED
  BY <1>1, <1>2, <1>3, <1>4, WordsAssumption

(* An instruction with one source: the constant emitted for the source $0 is *)
(* what the handler computes from zero.                                      *)
LEMMA UnaryAlike ==
    ASSUME NEW m, NEW r, Agreed(m, r), NEW d \in Register, NEW s \in Register,
           NEW zero, NEW value, s = 0 => value = zero
    PROVE  Alike(I!Write(r, d, value), E!Unary(m, d, s, zero, value), r)
BY WriteAlike DEF E!Unary

(* SLL, SRL, SRA, SEB and SEH. *)
LEMMA ShiftsAlike ==
    ASSUME NEW m, NEW r, Agreed(m, r), NEW i, Names(i), i.sa \in 0 .. Bits - 1
    PROVE  /\ Alike(I!SLL(r, i), E!SLL(m, i), r)
           /\ Alike(I!SRL(r, i), E!SRL(m, i), r)
           /\ Alike(I!SRA(r, i), E!SRA(m, i), r)
           /\ Alike(I!SEB(r, i), E!SEB(m, i), r)
           /\ Alike(I!SEH(r, i), E!SEH(m, i), r)
<1>1. /\ i.sa \in 0 .. 32 /\ r[0] = 0 /\ E!At(m, i.rt) = r[i.rt] /\ 0 \in Word
      /\ i.rd \in Register /\ i.rt \in Register
  <2>1. i.sa \in 0 .. 32
    BY PowersOfWord
  <2> QED
    BY <2>1, NamesAre, Sizes
<1>2. Shl(0, i.sa) = 0 /\ Shr(0, i.sa) = 0 /\ Sar(0, i.sa) = 0
  BY <1>1, ShiftsAre
<1> QED
  BY <1>1, <1>2, ExtensionsOfZero, UnaryAlike, SharedWords
  DEF I!SLL, E!SLL, I!SRL, E!SRL, I!SRA, E!SRA, I!SEB, E!SEB, I!SEH, E!SEH

(* SLLV and SRLV: the count that the host takes modulo the word is the one   *)
(* that the handler masks.                                                   *)
LEMMA VariableShiftsAlike ==
    ASSUME NEW m, NEW r, Agreed(m, r), NEW i, Names(i)
    PROVE  /\ Alike(I!SLLV(r, i), E!SLLV(m, i), r)
           /\ Alike(I!SRLV(r, i), E!SRLV(m, i), r)
<1> DEFINE count == r[i.rs] % Bits
<1>1. /\ r[0] = 0 /\ E!At(m, i.rt) = r[i.rt] /\ 0 \in Word /\ r[i.rt] \in Word
      /\ i.rd \in Register /\ i.rt \in Register /\ r[i.rs] \in Word
      /\ E!At(m, i.rs) = r[i.rs]
  BY NamesAre, Sizes
<1>2. count \in 0 .. 32 /\ (r[i.rs] = 0 => count = 0)
  <2>1. Bits \in Nat \ {0} /\ Bits <= 32 /\ r[i.rs] \in Nat
    BY <1>1, PowersOfWord, Sizes
  <2>2. count \in Nat /\ count < Bits /\ (r[i.rs] = 0 => count = 0)
    BY <2>1, Divisions
  <2> HIDE DEF count
  <2> QED
    BY <2>1, <2>2
<1>3. Shl(0, count) = 0 /\ Shr(0, count) = 0
  BY <1>1, <1>2, ShiftsAre
<1>4. Shl(r[i.rt], 0) = r[i.rt] /\ Shr(r[i.rt], 0) = r[i.rt]
  BY <1>1, ShiftsAre
<1> HIDE DEF count
<1>5. /\ I!SLLV(r, i) = I!Write(r, i.rd, Shl(r[i.rt], count))
      /\ I!SRLV(r, i) = I!Write(r, i.rd, Shr(r[i.rt], count))
  BY SharedWords DEF I!SLLV, I!SRLV, count
<1>6. CASE i.rs = 0 /\ i.rd # 0 /\ i.rt # 0
  BY <1>1, <1>2, <1>4, <1>5, <1>6, WriteAlike DEF E!SLLV, E!SRLV, E!Variable, E!Move
<1>7. CASE ~(i.rs = 0 /\ i.rd # 0 /\ i.rt # 0)
  <2>1. /\ E!SLLV(m, i) = E!Unary(m, i.rd, i.rt, 0, Shl(r[i.rt], count))
        /\ E!SRLV(m, i) = E!Unary(m, i.rd, i.rt, 0, Shr(r[i.rt], count))
    BY <1>1, <1>7, SharedWords DEF E!SLLV, E!SRLV, E!Variable, count
  <2> QED
    BY <1>1, <1>3, <1>5, <2>1, UnaryAlike
<1> QED
  BY <1>6, <1>7

(* LSA, whichever of its operands coincide, where it can be encoded. *)
LEMMA ShiftAndAddAlike ==
    ASSUME NEW m, NEW r, Agreed(m, r), NEW i, Names(i), i.sa \in 0 .. 3,
           ~SourceOverwritten("LSA", i), ~NoSuchEncoding("LSA", i)
    PROVE  Alike(I!LSA(r, i), E!LSA(m, i), r)
<1> DEFINE shifted == Shl(r[i.rs], i.sa + 1)
           put == E!Put(m, i.rd, shifted)
<1>1. /\ r[0] = 0 /\ E!At(m, i.rt) = r[i.rt] /\ E!At(m, i.rs) = r[i.rs] /\ 0 \in Word
      /\ i.rd \in Register /\ i.rt \in Register /\ i.rs \in Register
      /\ r[i.rt] \in Word /\ r[i.rs] \in Word
  BY NamesAre, Sizes
<1>2. shifted \in Word /\ (r[i.rs] = 0 => shifted = 0)
  <2>1. i.sa + 1 \in 0 .. 32
    OBVIOUS
  <2> QED
    BY <1>1, <2>1, ShiftsAre
<1>3. /\ Wrap(shifted + 0) = shifted
      /\ shifted = 0 => Wrap(shifted + r[i.rt]) = r[i.rt]
  <2> HIDE DEF shifted
  <2> QED
    BY <1>1, <1>2, WrapWord
<1>4. I!LSA(r, i) = I!Write(r, i.rd, Wrap(shifted + r[i.rt]))
  BY SharedWords DEF I!LSA
<1> HIDE DEF shifted
<1>5. CASE i.rd = 0
  BY <1>1, <1>4, <1>5, WriteAlike DEF E!LSA
<1>6. CASE i.rd # 0 /\ i.rs = 0
  BY <1>1, <1>2, <1>3, <1>4, <1>6, WriteAlike DEF E!LSA, E!Move
<1>7. CASE i.rd # 0 /\ i.rs # 0 /\ i.rs # i.rd
  BY <1>1, <1>4, <1>7, WriteAlike, SharedWords DEF E!LSA, E!Plus, shifted
<1>8. CASE i.rd # 0 /\ i.rs # 0 /\ i.rs = i.rd /\ i.rt = 0
  BY <1>1, <1>3, <1>4, <1>8, WriteAlike, SharedWords DEF E!LSA, E!Result, shifted
<1>9. CASE i.rd # 0 /\ i.rs # 0 /\ i.rs = i.rd /\ i.rt # 0
  <2>1. i.rt # i.rd /\ (E!IsREG(i.rd) \/ E!IsREG(i.rt))
    BY <1>9 DEF SourceOverwritten, NoSuchEncoding, E!IsREG, E!fp, fp
  <2>2. E!At(put, i.rt) = r[i.rt]
    BY <1>1, <1>9, <2>1, PutIs
  <2>3. E!LSA(m, i) = E!Result(put, i.rd, Wrap(shifted + r[i.rt]))
    BY <1>1, <1>9, <2>1, <2>2, SharedWords DEF E!LSA, E!Plus, shifted
  <2> QED
    BY <1>1, <1>4, <1>9, <2>3, WriteTwice
<1> QED
  BY <1>5, <1>6, <1>7, <1>8, <1>9

(* Both halves of products, signed and unsigned. *)
LEMMA ProductsAlike ==
    ASSUME NEW m, NEW r, Agreed(m, r), NEW i, Names(i)
    PROVE  /\ Alike(I!MUL(r, i), E!MUL(m, i), r)
           /\ Alike(I!MUH(r, i), E!MUH(m, i), r)
           /\ Alike(I!MULU(r, i), E!MULU(m, i), r)
           /\ Alike(I!MUHU(r, i), E!MUHU(m, i), r)
<1> DEFINE a == r[i.rs]
           b == r[i.rt]
<1>1. /\ r[0] = 0 /\ E!At(m, i.rt) = b /\ E!At(m, i.rs) = a /\ 0 \in Word
      /\ i.rd \in Register /\ i.rt \in Register /\ i.rs \in Register
      /\ b \in Word /\ a \in Word
  BY NamesAre, Sizes
<1>2. Signed(0) = 0 /\ Wrap(0) = 0 /\ I!High(0) = 0
  <2>1. I!High(0) = Wrap(0 \div Size)
    BY SharedWords DEF I!High, Size
  <2>2. 0 \div Size = 0
    BY Sizes, Divisions
  <2> QED
    BY <1>1, <2>1, <2>2, SumsAre
<1>3. Signed(a) \in Int /\ Signed(b) \in Int /\ a \in Int /\ b \in Int
  BY <1>1, SignedIs, Sizes
<1>4. ASSUME NEW value, a = 0 \/ b = 0 => value = 0
      PROVE  Alike(I!Write(r, i.rd, value), E!Product(m, i, value), r)
  BY <1>1, <1>4, WriteAlike DEF E!Product
<1>5. a = 0 \/ b = 0 => Signed(a) * Signed(b) = 0 /\ a * b = 0
  BY <1>2, <1>3
<1>6. a = 0 \/ b = 0 =>
        /\ Wrap(Signed(a) * Signed(b)) = 0 /\ I!High(Signed(a) * Signed(b)) = 0
        /\ Wrap(a * b) = 0 /\ I!High(a * b) = 0
  BY <1>2, <1>5
<1>7. /\ I!MUL(r, i) = I!Write(r, i.rd, Wrap(Signed(a) * Signed(b)))
      /\ I!MUH(r, i) = I!Write(r, i.rd, I!High(Signed(a) * Signed(b)))
      /\ I!MULU(r, i) = I!Write(r, i.rd, Wrap(a * b))
      /\ I!MUHU(r, i) = I!Write(r, i.rd, I!High(a * b))
  BY SharedWords DEF I!MUL, I!MUH, I!MULU, I!MUHU
<1>8. \A n : E!High(n) = I!High(n) /\ E!Low(n) = Wrap(n)
  BY SharedWords DEF E!High, I!High, E!Low
<1>9. /\ E!MUL(m, i) = E!Product(m, i, Wrap(Signed(a) * Signed(b)))
      /\ E!MUH(m, i) = E!Product(m, i, I!High(Signed(a) * Signed(b)))
      /\ E!MULU(m, i) = E!Product(m, i, Wrap(a * b))
      /\ E!MUHU(m, i) = E!Product(m, i, I!High(a * b))
  BY <1>1, <1>8, SharedWords DEF E!MUL, E!MUH, E!MULU, E!MUHU
<1> QED
  BY <1>4, <1>6, <1>7, <1>9

(* One meaning of quotient and remainder. *)
LEMMA SharedQuotients ==
    ASSUME NEW x, NEW y
    PROVE  /\ I!Quotient(x, y) = Quotient(x, y) /\ E!Quotient(x, y) = Quotient(x, y)
           /\ I!Remainder(x, y) = Remainder(x, y) /\ E!Remainder(x, y) = Remainder(x, y)
BY DEF I!Quotient, E!Quotient, Quotient, I!Remainder, E!Remainder, Remainder,
       I!Magnitude, E!Magnitude, Magnitude

(* Zero divided, and a number divided by itself. *)
LEMMA QuotientsAre ==
    ASSUME NEW b \in Int, b # 0
    PROVE  /\ Quotient(0, b) = 0 /\ Remainder(0, b) = 0
           /\ Quotient(b, b) = 1 /\ Remainder(b, b) = 0
<1> DEFINE size == Magnitude(b)
<1>1. size \in Nat \ {0}
  BY DEF Magnitude
<1>2. 0 \div size = 0 /\ size \div size = 1
  BY <1>1
<1>3. Quotient(0, b) = 0 /\ Quotient(b, b) = 1
  BY <1>1, <1>2 DEF Quotient, Magnitude
<1> QED
  BY <1>3 DEF Remainder

(* DIV and MOD: the host never divides the lowest integer by -1, and a       *)
(* division by zero gives zero in both.                                      *)
LEMMA SignedDivisionsAlike ==
    ASSUME NEW m, NEW r, Agreed(m, r), NEW i, Names(i)
    PROVE  /\ ~OverflowLost("DIV", i, r) => Alike(I!DIV(r, i), E!DIV(m, i), r)
           /\ ~OverflowLost("MOD", i, r) => Alike(I!MOD(r, i), E!MOD(m, i), r)
<1> DEFINE a == r[i.rs]
           b == r[i.rt]
           traps == Signed(a) = -Top /\ Signed(b) = -1
<1>1. /\ r[0] = 0 /\ E!At(m, i.rt) = b /\ E!At(m, i.rs) = a
      /\ i.rd \in Register /\ i.rt \in Register /\ i.rs \in Register
      /\ b \in Word /\ a \in Word
  BY NamesAre
<1>2. /\ Signed(a) \in Int /\ Signed(b) \in Int /\ Signed(0) = 0 /\ Top >= 8
      /\ Signed(b) = 0 <=> b = 0
      /\ Signed(b) = -1 <=> b = Highest
      /\ Top \in Int /\ Wrap(0) = 0 /\ Wrap(1) = 1
  <2>1. Signed(0) = 0 /\ Wrap(0) = 0 /\ Wrap(1) = 1
    BY WrapIs, SignedIs, Sizes
  <2> QED
    BY <1>1, <2>1, SignedIs, Sizes
<1>3. /\ b = 0 => I!DIV(r, i) = I!Write(r, i.rd, 0) /\ I!MOD(r, i) = I!Write(r, i.rd, 0)
      /\ b # 0 /\ traps => /\ I!DIV(r, i) = I!Ended(r, <<"host trap">>)
                           /\ I!MOD(r, i) = I!Ended(r, <<"host trap">>)
      /\ b # 0 /\ ~traps =>
            /\ I!DIV(r, i) = I!Write(r, i.rd, Wrap(Quotient(Signed(a), Signed(b))))
            /\ I!MOD(r, i) = I!Write(r, i.rd, Wrap(Remainder(Signed(a), Signed(b))))
  <2>1. I!Top = Top /\ I!Highest = Highest
    BY DEF I!Top, Top, I!Highest, Highest
  <2>2. I!HostDivides(r, i) <=> ~traps
    BY <1>2, <2>1, SharedWords DEF I!HostDivides
  <2> HIDE DEF traps
  <2>3. b = 0 => I!DIV(r, i) = I!Write(r, i.rd, 0) /\ I!MOD(r, i) = I!Write(r, i.rd, 0)
    BY DEF I!DIV, I!MOD
  <2>4. b # 0 /\ traps => /\ I!DIV(r, i) = I!Ended(r, <<"host trap">>)
                          /\ I!MOD(r, i) = I!Ended(r, <<"host trap">>)
    BY <2>2 DEF I!DIV, I!MOD
  <2>5. b # 0 /\ ~traps =>
            /\ I!DIV(r, i) = I!Write(r, i.rd, Wrap(Quotient(Signed(a), Signed(b))))
            /\ I!MOD(r, i) = I!Write(r, i.rd, Wrap(Remainder(Signed(a), Signed(b))))
    BY <2>2, SharedWords, SharedQuotients DEF I!DIV, I!MOD
  <2> QED
    BY <2>3, <2>4, <2>5
<1>4. /\ b # 0 /\ a = 0 => ~traps /\ Quotient(Signed(a), Signed(b)) = 0
                                  /\ Remainder(Signed(a), Signed(b)) = 0
      /\ b # 0 /\ a = b => ~traps /\ Quotient(Signed(a), Signed(b)) = 1
                                  /\ Remainder(Signed(a), Signed(b)) = 0
  BY <1>2, QuotientsAre
<1>5. CASE b # 0 /\ traps
  <2>1. i.rd = 0 => OverflowLost("DIV", i, r) /\ OverflowLost("MOD", i, r)
    <3>1. /\ Interpret("DIV", r, i) = I!DIV(r, i)
          /\ Interpret("MOD", r, i) = I!MOD(r, i)
      BY DEF Interpret
    <3>2. I!DIV(r, i).out = <<"host trap">> /\ I!MOD(r, i).out = <<"host trap">>
      <4>1. /\ I!DIV(r, i) = I!Ended(r, <<"host trap">>)
            /\ I!MOD(r, i) = I!Ended(r, <<"host trap">>)
        <5> HIDE DEF traps
        <5> QED
          BY <1>3, <1>5
      <4>2. \A how : I!Ended(r, how).out = how
        BY DEF I!Ended
      <4> QED
        BY <4>1, <4>2
    <3>3. <<"host trap">> # <<"next">>
      OBVIOUS
    <3> QED
      BY <3>1, <3>2, <3>3 DEF OverflowLost
  <2>2. a # 0 /\ a # b
    BY <1>4, <1>5
  <2>3. i.rd # 0 => /\ E!DIV(m, i) = E!Ended(m, <<"host trap">>)
                    /\ E!MOD(m, i) = E!Ended(m, <<"host trap">>)
    BY <1>1, <1>2, <1>5, <2>2, SharedWords DEF E!DIV, E!MOD, E!Top, Top
  <2>4. View(m) = r /\ <<"host trap">>[1] # "raise"
    BY DEF Agreed
  <2>5. Alike(I!Ended(r, <<"host trap">>), E!Ended(m, <<"host trap">>), r)
    BY <2>4 DEF Alike, I!Ended, E!Ended
  <2> HIDE DEF traps
  <2> QED
    BY <1>3, <1>5, <2>1, <2>3, <2>5
<1>6. CASE b = 0
  <2>1. i.rd # 0 => E!DIV(m, i) = E!Result(m, i.rd, 0) /\ E!MOD(m, i) = E!Result(m, i.rd, 0)
    BY <1>1, <1>2, <1>6, SharedWords DEF E!DIV, E!MOD
  <2>2. i.rd = 0 => E!DIV(m, i) = E!Nop(m) /\ E!MOD(m, i) = E!Nop(m)
    BY DEF E!DIV, E!MOD
  <2> QED
    BY <1>1, <1>3, <1>6, <2>1, <2>2, WriteAlike
<1>7. CASE b # 0 /\ ~traps
  <2>1. i.rd # 0 =>
          /\ E!DIV(m, i) = E!Result(m, i.rd, Wrap(Quotient(Signed(a), Signed(b))))
          /\ E!MOD(m, i) = E!Result(m, i.rd, Wrap(Remainder(Signed(a), Signed(b))))
    <3>1. CASE i.rs = 0
      <4>1. a = 0 /\ i.rt # 0
        BY <1>1, <1>7, <3>1
      <4> QED
        BY <1>1, <1>2, <1>4, <1>7, <3>1, <4>1 DEF E!DIV, E!MOD
    <3>2. CASE i.rs # 0 /\ i.rs = i.rt
      BY <1>1, <1>2, <1>4, <1>7, <3>2, SharedWords DEF E!DIV, E!MOD
    <3>3. CASE i.rs # 0 /\ i.rs # i.rt
      <4>1. i.rt # 0 /\ E!Top = Top
        BY <1>1, <1>7 DEF E!Top, Top
      <4>2. Signed(b) # 0 /\ ~(Signed(a) = -Top /\ Signed(b) = -1)
        BY <1>2, <1>7
      <4>3. E!Signed(a) = Signed(a) /\ E!Signed(b) = Signed(b)
        BY SharedWords
      <4>4. i.rd # 0 =>
              E!DIV(m, i) = E!Result(m, i.rd, E!Wrap(E!Quotient(Signed(a), Signed(b))))
        BY <1>1, <3>3, <4>1, <4>2, <4>3 DEF E!DIV
      <4>5. i.rd # 0 =>
              E!MOD(m, i) = E!Result(m, i.rd, E!Wrap(E!Remainder(Signed(a), Signed(b))))
        BY <1>1, <3>3, <4>1, <4>2, <4>3 DEF E!MOD
      <4> QED
        BY <4>4, <4>5, SharedWords, SharedQuotients
    <3> QED
      BY <3>1, <3>2, <3>3
  <2>2. i.rd = 0 => E!DIV(m, i) = E!Nop(m) /\ E!MOD(m, i) = E!Nop(m)
    BY DEF E!DIV, E!MOD
  <2> QED
    BY <1>1, <1>3, <1>7, <2>1, <2>2, WriteAlike
<1> QED
  BY <1>5, <1>6, <1>7

(* DIVU and MODU. *)
LEMMA DivisionsAlike ==
    ASSUME NEW m, NEW r, Agreed(m, r), NEW i, Names(i)
    PROVE  /\ Alike(I!DIVU(r, i), E!DIVU(m, i), r)
           /\ Alike(I!MODU(r, i), E!MODU(m, i), r)
<1> DEFINE a == r[i.rs]
           b == r[i.rt]
<1>1. /\ r[0] = 0 /\ E!At(m, i.rt) = b /\ E!At(m, i.rs) = a
      /\ i.rd \in Register /\ i.rt \in Register /\ i.rs \in Register
      /\ b \in Nat /\ a \in Nat
  BY NamesAre, Sizes
<1>2. b # 0 => 0 \div b = 0 /\ 0 % b = 0 /\ b \div b = 1 /\ b % b = 0
  BY <1>1
<1>3. Alike(I!DIVU(r, i), E!DIVU(m, i), r)
  BY <1>1, <1>2, WriteAlike DEF I!DIVU, E!DIVU
<1>4. Alike(I!MODU(r, i), E!MODU(m, i), r)
  BY <1>1, <1>2, WriteAlike DEF I!MODU, E!MODU
<1> QED
  BY <1>3, <1>4

-------------------------------------------------------------------------------
(* Bits.  A word is told by its bits: from the highest down, they give all   *)
(* its quotients by powers of two.                                           *)
LEMMA LeastNumber ==
    ASSUME NEW S \in SUBSET Nat, S # {}
    PROVE  \E m \in S : \A k \in S : m <= k
<1> DEFINE R == OpToRel(<, Nat)
<1>1. IsWellFoundedOn(R, Nat)
  BY NatLessThanWellFounded
<1>2. \A x, y \in Nat : x < y => <<x, y>> \in R
  BY DEF OpToRel
<1> HIDE DEF R
<1>3. PICK m \in S : \A y \in S : <<y, m>> \notin R
  BY <1>1, WFMin
<1>4. ASSUME NEW k \in S PROVE m <= k
  <2>1. k \in Nat /\ m \in Nat /\ ~(k < m)
    BY <1>2, <1>3
  <2> QED
    BY <2>1
<1> QED
  BY <1>4

(* Induction over numbers, for the members of a set. *)
LEMMA SetInduction ==
    ASSUME NEW T, 0 \in T, \A n \in Nat : n \in T => n + 1 \in T
    PROVE  Nat \subseteq T
<1> SUFFICES ASSUME Nat \ T # {} PROVE FALSE
  OBVIOUS
<1>1. PICK m \in Nat \ T : \A k \in Nat \ T : m <= k
  BY LeastNumber
<1>2. m # 0 /\ m - 1 \in Nat
  BY <1>1
<1>3. m - 1 \in T
  BY <1>1, <1>2
<1>4. (m - 1) + 1 \in T
  BY <1>2, <1>3
<1> QED
  BY <1>1, <1>4

(* A quotient is what it is multiplied from. *)
LEMMA QuotientIs ==
    ASSUME NEW d \in Nat \ {0}, NEW k \in Nat, NEW t \in Nat, t < d
    PROVE  (d * k + t) \div d = k
<1> DEFINE x == d * k + t
           q == x \div d
<1>1. x \in Nat /\ q \in Nat
  BY Divisions
<1>2. x = d * q + (x % d) /\ x % d \in Nat /\ x % d < d
  BY <1>1, Divisions
<1>3. d * k - d * q < d /\ d * q - d * k < d
  <2>1. d * k + t = d * q + (x % d)
    BY <1>2
  <2>2. d * k \in Nat /\ d * q \in Nat
    BY <1>1
  <2> HIDE DEF x, q
  <2> QED
    BY <1>2, <2>1, <2>2
<1>4. d * (k - q) < d /\ d * (q - k) < d
  <2> HIDE DEF q
  <2> QED
    BY <1>1, <1>3
<1>5. k - q < 1 /\ q - k < 1
  <2> HIDE DEF q
  <2> QED
    BY <1>1, <1>4
<1> QED
  <2> HIDE DEF q
  <2>1. q = k
    BY <1>1, <1>5
  <2> QED
    BY <2>1 DEF q

(* A number shifted by one more bit, and the bit. *)
LEMMA Halves ==
    ASSUME NEW x \in Nat, NEW p \in Nat \ {0}
    PROVE  x \div p = 2 * (x \div (p + p)) + ((x \div p) % 2)
<1> DEFINE q == x \div p
           s == x % p
           k == q \div 2
           e == q % 2
<1>1. q \in Nat /\ s \in Nat /\ s < p /\ x = p * q + s
  BY Divisions
<1>2. k \in Nat /\ e \in {0, 1} /\ q = 2 * k + e
  <2> HIDE DEF q
  <2> QED
    BY <1>1
<1> HIDE DEF q, s, k, e
<1>3. x = (p + p) * k + (p * e + s)
  BY <1>1, <1>2
<1>4. p * e + s \in Nat /\ p * e + s < p + p
  BY <1>1, <1>2
<1>5. x \div (p + p) = k
  <2> DEFINE d == p + p
             t == p * e + s
  <2>1. d \in Nat \ {0} /\ t \in Nat /\ t < d /\ x = d * k + t
    BY <1>3, <1>4
  <2> HIDE DEF d, t
  <2>2. x \div d = k
    BY <1>2, <2>1, QuotientIs
  <2> QED
    BY <2>2 DEF d
<1> QED
  BY <1>2, <1>5 DEF q, e
(* A word is told by its bits: the same bits are the same word. *)
LEMMA BitsTell ==
    ASSUME NEW x \in Word, NEW y \in Word, BitsOf[x] = BitsOf[y]
    PROVE  x = y
<1> DEFINE same(n) == x \div Power(n) = y \div Power(n)
           T == {k \in Nat : k <= Bits => same(Bits - k)}
<1>1. x \in Nat /\ y \in Nat /\ x < Size /\ y < Size /\ Bits \in Nat /\ Bits <= 32
  BY Sizes, PowersOfWord
<1>2. 0 \in T
  <2>1. x \div Size = 0 /\ y \div Size = 0
    BY <1>1, QuotientIs, Sizes
  <2>2. Bits - 0 = Bits
    BY <1>1
  <2> QED
    BY <2>1, <2>2, PowersOfWord
<1>3. ASSUME NEW k \in Nat, k \in T PROVE k + 1 \in T
  <2> SUFFICES ASSUME k + 1 <= Bits PROVE same(Bits - (k + 1))
    OBVIOUS
  <2> DEFINE n == Bits - (k + 1)
             p == Power(n)
  <2>1. n \in 0 .. Bits - 1 /\ n \in 0 .. 32 /\ n # 32 /\ Bits - k = n + 1
    BY <1>1
  <2>2. same(n + 1)
    BY <1>1, <1>3, <2>1
  <2>3. p \in Nat \ {0} /\ Power(n + 1) = p + p
    BY <2>1, PowerIs
  <2>4. (n \in BitsOf[x]) <=> (x \div p) % 2 = 1
    BY <2>1 DEF BitsOf, Power
  <2>5. (n \in BitsOf[y]) <=> (y \div p) % 2 = 1
    BY <2>1 DEF BitsOf, Power
  <2> HIDE DEF n, p
  <2>6. /\ x \div p = 2 * (x \div (p + p)) + ((x \div p) % 2)
        /\ y \div p = 2 * (y \div (p + p)) + ((y \div p) % 2)
    BY <1>1, <2>3, Halves
  <2>7. (x \div p) % 2 \in {0, 1} /\ (y \div p) % 2 \in {0, 1}
    <3>1. x \div p \in Nat /\ y \div p \in Nat
      BY <1>1, <2>3, Divisions
    <3> QED
      BY <3>1
  <2>8. x \div (p + p) = y \div (p + p)
    BY <2>2, <2>3
  <2>9. (x \div p) % 2 = (y \div p) % 2
    BY <2>4, <2>5, <2>7
  <2> QED
    BY <2>6, <2>8, <2>9 DEF n, p
<1>4. Nat \subseteq T
  <2> HIDE DEF T
  <2> QED
    BY <1>2, <1>3, SetInduction
<1>5. same(0)
  <2>1. Bits \in T
    BY <1>1, <1>4
  <2>2. Bits - Bits = 0 /\ Bits <= Bits
    BY <1>1
  <2> HIDE DEF same
  <2> QED
    BY <2>1, <2>2
<1> QED
  BY <1>1, <1>5, PowersOfWord, Divisions

(* The word of the bits of a word is the word. *)
LEMMA WordOfBits ==
    ASSUME NEW x \in Word
    PROVE  WordOf[BitsOf[x]] = x
<1>1. BitsOf[x] \in SUBSET (0 .. Bits - 1)
  BY DEF BitsOf
<1>2. WordOf[BitsOf[x]] = CHOOSE y \in Word : BitsOf[y] = BitsOf[x]
  BY <1>1 DEF WordOf
<1>3. /\ WordOf[BitsOf[x]] \in Word
      /\ BitsOf[WordOf[BitsOf[x]]] = BitsOf[x]
  BY <1>2
<1> QED
  BY <1>3, BitsTell

(* Zero has no bits, the highest word has all. *)
LEMMA BitsOfLimits ==
    BitsOf[0] = {} /\ BitsOf[Highest] = 0 .. Bits - 1
<1>1. 0 \in Word /\ Highest \in Word
  BY Sizes
<1>2. \A x \in Word : BitsOf[x] = {b \in 0 .. Bits - 1 : (x \div Power(b)) % 2 = 1}
  BY DEF BitsOf, Power
<1>3. ASSUME NEW b \in 0 .. Bits - 1 PROVE (0 \div Power(b)) % 2 # 1
  <2>1. b \in 0 .. 32
    BY PowersOfWord
  <2>2. 0 \div Power(b) = 0
    BY <2>1, PowerIs, Divisions
  <2> QED
    BY <2>2
<1>4. ASSUME NEW b \in 0 .. Bits - 1 PROVE (Highest \div Power(b)) % 2 = 1
  <2>1. \/ b = 0 \/ b = 1 \/ b = 2 \/ b = 3 \/ b = 4 \/ b = 5 \/ b = 6 \/ b = 7
        \/ b = 8 \/ b = 9 \/ b = 10 \/ b = 11 \/ b = 12 \/ b = 13 \/ b = 14 \/ b = 15
        \/ b = 16 \/ b = 17 \/ b = 18 \/ b = 19 \/ b = 20 \/ b = 21 \/ b = 22 \/ b = 23
        \/ b = 24 \/ b = 25 \/ b = 26 \/ b = 27 \/ b = 28 \/ b = 29 \/ b = 30 \/ b = 31
    BY PowersOfWord
  <2>2. CASE Bits = 4
    <3>1. Highest = 15 /\ (b = 0 \/ b = 1 \/ b = 2 \/ b = 3)
      BY <2>1, <2>2 DEF Highest
    <3> QED
      BY <3>1, PowersAre
  <2>3. CASE Bits = 8
    <3>1. Highest = 255
      BY <2>3 DEF Highest
    <3>2. b < 8
      BY <2>3
    <3> QED
      BY <2>1, <3>1, <3>2, PowersAre
  <2>4. CASE Bits = 16
    <3>1. Highest = 65535
      BY <2>4 DEF Highest
    <3>2. b < 16
      BY <2>4
    <3> QED
      BY <2>1, <3>1, <3>2, PowersAre
  <2>5. CASE Bits = 32
    <3>1. Highest = 4294967295
      BY <2>5 DEF Highest
    <3> QED
      BY <2>1, <3>1, PowersAre
  <2> QED
    BY <2>2, <2>3, <2>4, <2>5, WordsAssumption
<1> QED
  BY <1>1, <1>2, <1>3, <1>4


(* What the emitter uses to leave out an operation on $0, or on the same     *)
(* register twice.                                                           *)
LEMMA LogicIs ==
    ASSUME NEW x \in Word
    PROVE  /\ And(0, x) = 0 /\ And(x, 0) = 0 /\ And(x, x) = x /\ And(Highest, x) = x
           /\ Or(0, x) = x /\ Or(x, 0) = x /\ Or(x, x) = x
           /\ Xor(0, x) = x /\ Xor(x, 0) = x /\ Xor(x, x) = 0
           /\ Not(0) = Highest
           /\ \A y : And(x, y) = And(y, x) /\ Or(x, y) = Or(y, x) /\ Xor(x, y) = Xor(y, x)
<1>1. BitsOf[0] = {} /\ BitsOf[Highest] = 0 .. Bits - 1
  BY BitsOfLimits
<1>2. WordOf[BitsOf[x]] = x /\ WordOf[{}] = 0
  BY <1>1, WordOfBits, Sizes
<1>3. BitsOf[x] \subseteq 0 .. Bits - 1
  BY DEF BitsOf
<1>4. And(0, x) = 0 /\ And(x, 0) = 0 /\ And(x, x) = x /\ And(Highest, x) = x
  <2>1. /\ {} \cap BitsOf[x] = {} /\ BitsOf[x] \cap {} = {}
        /\ BitsOf[x] \cap BitsOf[x] = BitsOf[x] /\ (0 .. Bits - 1) \cap BitsOf[x] = BitsOf[x]
    BY <1>3
  <2> QED
    BY <1>1, <1>2, <2>1 DEF And
<1>5. Or(0, x) = x /\ Or(x, 0) = x /\ Or(x, x) = x
  <2>1. /\ {} \cup BitsOf[x] = BitsOf[x] /\ BitsOf[x] \cup {} = BitsOf[x]
        /\ BitsOf[x] \cup BitsOf[x] = BitsOf[x]
    OBVIOUS
  <2> QED
    BY <1>1, <1>2, <2>1 DEF Or
<1>6. Xor(0, x) = x /\ Xor(x, 0) = x /\ Xor(x, x) = 0
  <2>1. /\ ({} \cup BitsOf[x]) \ ({} \cap BitsOf[x]) = BitsOf[x]
        /\ (BitsOf[x] \cup {}) \ (BitsOf[x] \cap {}) = BitsOf[x]
        /\ (BitsOf[x] \cup BitsOf[x]) \ (BitsOf[x] \cap BitsOf[x]) = {}
    OBVIOUS
  <2> QED
    BY <1>1, <1>2, <2>1 DEF Xor
<1>7. Not(0) = Highest
  BY Sizes DEF Not
<1>8. ASSUME NEW y
      PROVE  And(x, y) = And(y, x) /\ Or(x, y) = Or(y, x) /\ Xor(x, y) = Xor(y, x)
  <2>1. /\ BitsOf[x] \cap BitsOf[y] = BitsOf[y] \cap BitsOf[x]
        /\ BitsOf[x] \cup BitsOf[y] = BitsOf[y] \cup BitsOf[x]
    OBVIOUS
  <2> QED
    BY <2>1 DEF And, Or, Xor
<1> QED
  BY <1>4, <1>5, <1>6, <1>7, <1>8

(* AND, OR, NOR and XOR with every coincidence of their operands, unless a   *)
(* source was overwritten.                                                   *)
LEMMA LogicAlike ==
    ASSUME NEW m, NEW r, Agreed(m, r), NEW i, Names(i)
    PROVE  /\ ~SourceOverwritten("OR", i) => Alike(I!OR(r, i), E!OR(m, i), r)
           /\ ~SourceOverwritten("NOR", i) => Alike(I!NOR(r, i), E!NOR(m, i), r)
           /\ ~SourceOverwritten("AND", i) => Alike(I!AND(r, i), E!AND(m, i), r)
           /\ Alike(I!XOR(r, i), E!XOR(m, i), r)
<1> DEFINE a == r[i.rs]
           b == r[i.rt]
           put == E!Put(m, i.rd, b)
<1>1. /\ r[0] = 0 /\ E!At(m, i.rt) = b /\ E!At(m, i.rs) = a
      /\ i.rd \in Register /\ i.rt \in Register /\ i.rs \in Register
      /\ b \in Word /\ a \in Word /\ 0 \in Word
  BY NamesAre, Sizes
<1>2. /\ And(0, b) = 0 /\ And(a, 0) = 0 /\ And(b, b) = b /\ And(a, b) = And(b, a)
      /\ Or(0, b) = b /\ Or(a, 0) = a /\ Or(b, b) = b /\ Or(a, b) = Or(b, a)
      /\ Or(0, 0) = 0 /\ Not(0) = Highest
      /\ Xor(0, b) = b /\ Xor(a, 0) = a /\ Xor(b, b) = 0
  BY <1>1, LogicIs
<1>3. i.rd \notin {0, i.rs} =>
        /\ E!At(put, i.rd) = b /\ E!At(put, i.rs) = a
        /\ \A v : Alike(I!Write(r, i.rd, v), E!Result(put, i.rd, v), r)
  BY <1>1, PutIs, WriteTwice
<1>4. E!Highest = Highest
  BY DEF E!Highest, Highest
<1> HIDE DEF a, b, put
<1>5. ASSUME ~SourceOverwritten("OR", i) PROVE Alike(I!OR(r, i), E!OR(m, i), r)
  <2>1. I!OR(r, i) = I!Write(r, i.rd, Or(a, b))
    BY SharedBits DEF I!OR, a, b
  <2>2. CASE i.rd = 0 \/ 0 \in {i.rs, i.rt} \/ i.rs = i.rt
    BY <1>1, <1>2, <2>1, <2>2, WriteAlike DEF E!OR, E!Move, a, b
  <2>3. CASE ~(i.rd = 0 \/ 0 \in {i.rs, i.rt} \/ i.rs = i.rt)
    <3>1. CASE i.rd = fp
      <4>1. i.rd # i.rs
        BY <1>5, <2>3, <3>1 DEF SourceOverwritten, fp
      <4>2. E!OR(m, i) = E!Result(put, i.rd, Or(b, a))
        BY <1>1, <1>3, <2>3, <3>1, <4>1, SharedBits
        DEF E!OR, E!Accumulate, E!IsREG, E!fp, fp, put
      <4> QED
        BY <1>2, <1>3, <2>1, <2>3, <4>1, <4>2
    <3>2. CASE i.rd # fp
      BY <1>1, <1>2, <2>1, <2>3, <3>2, WriteAlike, SharedBits
      DEF E!OR, E!Accumulate, E!IsREG, E!fp, fp
    <3> QED
      BY <3>1, <3>2
  <2> QED
    BY <2>2, <2>3
<1>6. ASSUME ~SourceOverwritten("NOR", i) PROVE Alike(I!NOR(r, i), E!NOR(m, i), r)
  <2>1. I!NOR(r, i) = I!Write(r, i.rd, Not(Or(a, b)))
    BY SharedBits, SharedWords DEF I!NOR, a, b
  <2>2. CASE i.rd = 0 \/ 0 \in {i.rs, i.rt} \/ i.rs = i.rt
    <3>1. CASE i.rd = 0
      BY <1>1, <2>1, <3>1, WriteAlike DEF E!NOR
    <3>2. CASE i.rd # 0 /\ i.rs = 0 /\ i.rt = 0
      BY <1>1, <1>2, <1>4, <2>1, <3>2, WriteAlike DEF E!NOR, a, b
    <3>3. CASE i.rd # 0 /\ i.rt # 0 /\ i.rs \in {0, i.rt}
      BY <1>1, <1>2, <2>1, <3>3, WriteAlike, SharedWords DEF E!NOR, a, b
    <3>4. CASE i.rd # 0 /\ i.rs # 0 /\ i.rt = 0
      BY <1>1, <1>2, <2>1, <3>4, WriteAlike, SharedWords DEF E!NOR, a, b
    <3> QED
      BY <2>2, <3>1, <3>2, <3>3, <3>4
  <2>3. CASE ~(i.rd = 0 \/ 0 \in {i.rs, i.rt} \/ i.rs = i.rt)
    <3>1. CASE i.rd = fp
      <4>1. i.rd # i.rs
        BY <1>6, <2>3, <3>1 DEF SourceOverwritten, fp
      <4>2. E!NOR(m, i) = E!Result(put, i.rd, Not(Or(b, a)))
        BY <1>1, <1>3, <2>3, <3>1, <4>1, SharedBits, SharedWords
        DEF E!NOR, E!Accumulate, E!IsREG, E!fp, fp, put
      <4> QED
        BY <1>2, <1>3, <2>1, <2>3, <4>1, <4>2
    <3>2. CASE i.rd # fp
      BY <1>1, <1>2, <2>1, <2>3, <3>2, WriteAlike, SharedBits, SharedWords
      DEF E!NOR, E!Accumulate, E!IsREG, E!fp, fp
    <3> QED
      BY <3>1, <3>2
  <2> QED
    BY <2>2, <2>3
<1>7. ASSUME ~SourceOverwritten("AND", i) PROVE Alike(I!AND(r, i), E!AND(m, i), r)
  <2>1. I!AND(r, i) = I!Write(r, i.rd, And(a, b))
    BY SharedBits DEF I!AND, a, b
  <2>2. CASE i.rd = 0 \/ 0 \in {i.rs, i.rt} \/ i.rs = i.rt
    BY <1>1, <1>2, <2>1, <2>2, WriteAlike DEF E!AND, E!Move, a, b
  <2>3. CASE ~(i.rd = 0 \/ 0 \in {i.rs, i.rt} \/ i.rs = i.rt)
    <3>1. CASE i.rd = fp
      <4>1. i.rd # i.rs
        BY <1>7, <2>3, <3>1 DEF SourceOverwritten, fp
      <4>2. E!AND(m, i) = E!Result(put, i.rd, And(b, a))
        BY <1>1, <1>3, <2>3, <3>1, <4>1, SharedBits
        DEF E!AND, E!Accumulate, E!IsREG, E!fp, fp, put
      <4> QED
        BY <1>2, <1>3, <2>1, <2>3, <4>1, <4>2
    <3>2. CASE i.rd # fp
      BY <1>1, <1>2, <2>1, <2>3, <3>2, WriteAlike, SharedBits
      DEF E!AND, E!Accumulate, E!IsREG, E!fp, fp
    <3> QED
      BY <3>1, <3>2
  <2> QED
    BY <2>2, <2>3
<1>8. Alike(I!XOR(r, i), E!XOR(m, i), r)
  BY <1>1, <1>2, WriteAlike, SharedBits DEF I!XOR, E!XOR, E!Move, a, b
<1> QED
  BY <1>5, <1>6, <1>7, <1>8

(* ANDI, ORI and XORI. *)
LEMMA LogicImmediateAlike ==
    ASSUME NEW m, NEW r, Agreed(m, r), NEW i, Names(i)
    PROVE  /\ Alike(I!ORI(r, i), E!ORI(m, i), r)
           /\ Alike(I!XORI(r, i), E!XORI(m, i), r)
           /\ Alike(I!ANDI(r, i), E!ANDI(m, i), r)
BY NamesAre, WriteAlike, SharedBits
DEF I!ORI, I!XORI, I!ANDI, E!ORI, E!XORI, E!ANDI, E!Immediate

(* SELEQZ and SELNEZ: the mask that is emitted selects what the handler      *)
(* selects.                                                                  *)
LEMMA SelectsAlike ==
    ASSUME NEW m, NEW r, Agreed(m, r), NEW i, Names(i)
    PROVE  /\ ~SourceOverwritten("SELEQZ", i) => Alike(I!SELEQZ(r, i), E!SELEQZ(m, i), r)
           /\ ~SourceOverwritten("SELNEZ", i) => Alike(I!SELNEZ(r, i), E!SELNEZ(m, i), r)
<1> DEFINE a == r[i.rs]
           b == r[i.rt]
<1>1. /\ r[0] = 0 /\ E!At(m, i.rt) = b /\ E!At(m, i.rs) = a
      /\ i.rd \in Register /\ i.rt \in Register /\ i.rs \in Register
      /\ b \in Word /\ a \in Word
  BY NamesAre
<1>2. And(0, a) = 0 /\ And(Highest, a) = a
  BY <1>1, LogicIs
<1>3. E!Highest = Highest
  BY DEF E!Highest, Highest
<1>4. ASSUME NEW chosen \in BOOLEAN, NEW mask, mask = IF chosen THEN Highest ELSE 0,
             NEW value, value = IF chosen THEN a ELSE 0, i.rd # 0, i.rt # 0,
             i.rd = fp /\ i.rs = fp => i.rt = fp
      PROVE  Alike(I!Write(r, i.rd, value), E!Mask(m, i, chosen), r)
  <2> DEFINE put == E!Put(m, i.rd, mask)
  <2>1. And(mask, a) = value
    BY <1>2, <1>4
  <2>2. E!Mask(m, i, chosen) =
          E!Result(m, i.rd, And(mask, E!At(IF E!IsREG(i.rd) /\ i.rs # i.rt THEN put ELSE m, i.rs)))
    <3>1. CASE chosen
      BY <1>3, <1>4, <3>1, SharedBits DEF E!Mask
    <3>2. CASE ~chosen
      BY <1>4, <3>2, SharedBits DEF E!Mask
    <3> QED
      BY <3>1, <3>2
  <2>3. E!At(IF E!IsREG(i.rd) /\ i.rs # i.rt THEN put ELSE m, i.rs) = a
    <3>1. CASE i.rd = fp /\ i.rs # i.rt
      <4>1. i.rd # i.rs
        BY <1>4, <3>1
      <4>2. E!At(put, i.rs) = a
        BY <1>1, <1>4, <4>1, PutIs
      <4> QED
        BY <3>1, <4>2 DEF E!IsREG, E!fp, fp
    <3>2. CASE ~(i.rd = fp /\ i.rs # i.rt)
      BY <1>1, <3>2 DEF E!IsREG, E!fp, fp
    <3> QED
      BY <3>1, <3>2
  <2> QED
    BY <1>1, <1>4, <2>1, <2>2, <2>3, WriteAlike
<1>5. ASSUME ~SourceOverwritten("SELEQZ", i)
      PROVE  Alike(I!SELEQZ(r, i), E!SELEQZ(m, i), r)
  <2>1. CASE i.rd = 0 \/ i.rt = 0
    BY <1>1, <2>1, WriteAlike DEF I!SELEQZ, E!SELEQZ, E!Move
  <2>2. CASE i.rd # 0 /\ i.rt # 0
    <3>1. i.rd = fp /\ i.rs = fp => i.rt = fp
      BY <1>5, <2>2 DEF SourceOverwritten, fp
    <3>2. Alike(I!Write(r, i.rd, IF b = 0 THEN a ELSE 0), E!Mask(m, i, b = 0), r)
      BY <1>4, <2>2, <3>1
    <3> QED
      BY <1>1, <2>2, <3>2 DEF I!SELEQZ, E!SELEQZ
  <2> QED
    BY <2>1, <2>2
<1>6. ASSUME ~SourceOverwritten("SELNEZ", i)
      PROVE  Alike(I!SELNEZ(r, i), E!SELNEZ(m, i), r)
  <2>1. CASE i.rd = 0 \/ i.rt = 0
    BY <1>1, <2>1, WriteAlike DEF I!SELNEZ, E!SELNEZ, E!Move
  <2>2. CASE i.rd # 0 /\ i.rt # 0
    <3>1. i.rd = fp /\ i.rs = fp => i.rt = fp
      BY <1>6, <2>2 DEF SourceOverwritten, fp
    <3>2. Alike(I!Write(r, i.rd, IF b # 0 THEN a ELSE 0), E!Mask(m, i, b # 0), r)
      BY <1>4, <2>2, <3>1
    <3> QED
      BY <1>1, <2>2, <3>2 DEF I!SELNEZ, E!SELNEZ
  <2> QED
    BY <2>1, <2>2
<1> QED
  BY <1>5, <1>6

(* SLT and SLTU. *)
LEMMA ComparisonsAlike ==
    ASSUME NEW m, NEW r, Agreed(m, r), NEW i, Names(i)
    PROVE  /\ Alike(I!SLT(r, i), E!SLT(m, i), r)
           /\ Alike(I!SLTU(r, i), E!SLTU(m, i), r)
<1>1. r[i.rt] \in Int /\ r[i.rs] \in Int /\ r[i.rs] >= 0 /\ r[0] = 0
  BY NamesAre, Sizes
<1>2. Signed(r[i.rt]) \in Int /\ Signed(r[i.rs]) \in Int
  BY NamesAre, SignedIs
<1>3. Alike(I!SLT(r, i), E!SLT(m, i), r)
  <2>1. i.rs = i.rt => I!Truth(Signed(r[i.rs]) < Signed(r[i.rt])) = 0
    BY <1>2 DEF I!Truth
  <2>2. I!SLT(r, i) = I!Write(r, i.rd, I!Truth(Signed(r[i.rs]) < Signed(r[i.rt])))
    BY SharedWords DEF I!SLT
  <2>3. E!SLT(m, i) =
          IF i.rd = 0 THEN E!Nop(m)
          ELSE IF i.rs = i.rt THEN E!Result(m, i.rd, 0)
          ELSE E!Result(m, i.rd, I!Truth(Signed(r[i.rs]) < Signed(r[i.rt])))
    BY NamesAre, SharedWords DEF E!SLT, E!Truth, I!Truth
  <2> QED
    BY <2>1, <2>2, <2>3, NamesAre, WriteAlike
<1>4. Alike(I!SLTU(r, i), E!SLTU(m, i), r)
  <2>1. i.rt = 0 \/ i.rs = i.rt => I!Truth(r[i.rs] < r[i.rt]) = 0
    BY <1>1 DEF I!Truth
  <2>2. E!SLTU(m, i) =
          IF i.rd = 0 THEN E!Nop(m)
          ELSE IF i.rt \in {0, i.rs} THEN E!Result(m, i.rd, 0)
          ELSE E!Result(m, i.rd, I!Truth(r[i.rs] < r[i.rt]))
    BY NamesAre DEF E!SLTU, E!Truth, I!Truth
  <2> QED
    BY <2>1, <2>2, NamesAre, WriteAlike DEF I!SLTU
<1> QED
  BY <1>3, <1>4

(* SLTI and SLTIU, where they can be encoded. *)
LEMMA ImmediateComparisonsAlike ==
    ASSUME NEW m, NEW r, Agreed(m, r), NEW i, Names(i), i.imm \in Half
    PROVE  /\ ~NoSuchEncoding("SLTI", i) => Alike(I!SLTI(r, i), E!SLTI(m, i), r)
           /\ ~NoSuchEncoding("SLTIU", i) => Alike(I!SLTIU(r, i), E!SLTIU(m, i), r)
<1> DEFINE a == r[i.rs]
           offset == Offset(i)
<1>1. /\ r[0] = 0 /\ E!At(m, i.rs) = a /\ i.rt \in Register /\ i.rs \in Register
      /\ a \in Word
  BY NamesAre
<1>2. /\ offset \in Int /\ -Top < offset /\ offset < Top /\ (offset = 0 <=> i.imm = 0)
      /\ Signed(0) = 0
  BY OffsetIs, SignedIs, Sizes
<1>3. Wrap(offset) \in Nat /\ (Wrap(offset) = 0 <=> i.imm = 0)
  <2> HIDE DEF offset
  <2> QED
    BY <1>2, WrapIs, Sizes
<1>4. ASSUME ~NoSuchEncoding("SLTI", i) PROVE Alike(I!SLTI(r, i), E!SLTI(m, i), r)
  <2>1. I!SLTI(r, i) = I!Write(r, i.rt, I!Truth(Signed(a) < offset))
    BY SharedWords, SharedFields DEF I!SLTI
  <2>2. E!SLTI(m, i) =
          IF i.rt = 0 THEN E!Nop(m)
          ELSE IF i.rs = 0 THEN E!Result(m, i.rt, I!Truth(offset > 0))
          ELSE E!Result(m, i.rt, I!Truth(Signed(a) < offset))
    BY <1>1, <1>4, SharedWords, SharedFields DEF E!SLTI, E!Truth, I!Truth,
       NoSuchEncoding
  <2>3. i.rs = 0 => I!Truth(offset > 0) = I!Truth(Signed(a) < offset)
    BY <1>1, <1>2 DEF I!Truth
  <2> QED
    BY <1>1, <2>1, <2>2, <2>3, WriteAlike
<1>5. ASSUME ~NoSuchEncoding("SLTIU", i) PROVE Alike(I!SLTIU(r, i), E!SLTIU(m, i), r)
  <2>1. I!SLTIU(r, i) = I!Write(r, i.rt, I!Truth(a < Wrap(offset)))
    BY SharedWords, SharedFields DEF I!SLTIU
  <2>2. E!SLTIU(m, i) =
          IF i.rt = 0 THEN E!Nop(m)
          ELSE IF i.imm = 0 THEN E!Result(m, i.rt, 0)
          ELSE IF i.rs = 0 THEN E!Result(m, i.rt, 1)
          ELSE E!Result(m, i.rt, I!Truth(a < Wrap(offset)))
    BY <1>1, <1>5, SharedWords, SharedFields DEF E!SLTIU, E!Truth, I!Truth,
       NoSuchEncoding
  <2>3. /\ i.imm = 0 => I!Truth(a < Wrap(offset)) = 0
        /\ i.imm # 0 /\ i.rs = 0 => I!Truth(a < Wrap(offset)) = 1
    BY <1>1, <1>3, Sizes DEF I!Truth
  <2> QED
    BY <1>1, <2>1, <2>2, <2>3, WriteAlike
<1> QED
  BY <1>4, <1>5

(* Zero has only leading zeros, the highest word none. *)
LEMMA ZerosAre ==
    LeadingZeros(0) = Bits /\ LeadingZeros(Highest) = 0
<1>1. Bits \in Nat /\ Bits >= 4
  BY PowersOfWord
<1>2. LeadingZeros(0) = Cardinality(0 .. Bits - 1)
  <2>1. {b \in 0 .. Bits - 1 : \A c \in BitsOf[0] : c < b} = 0 .. Bits - 1
    BY BitsOfLimits
  <2> QED
    BY <2>1 DEF LeadingZeros
<1>3. LeadingZeros(Highest) = Cardinality({})
  <2>1. {b \in 0 .. Bits - 1 : \A c \in BitsOf[Highest] : c < b} = {}
    <3> SUFFICES ASSUME NEW b \in 0 .. Bits - 1, \A c \in BitsOf[Highest] : c < b
                 PROVE  FALSE
      OBVIOUS
    <3>1. b < b
      BY BitsOfLimits
    <3> QED
      BY <1>1, <3>1
  <2> QED
    BY <2>1 DEF LeadingZeros
<1>4. Cardinality(0 .. Bits - 1) = Bits
  BY <1>1, FS_Interval
<1> QED
  BY <1>2, <1>3, <1>4, FS_EmptySet

(* CLZ and CLO, on hosts that count from the top. *)
LEMMA CountsAlike ==
    ASSUME NEW m, NEW r, Agreed(m, r), NEW i, Names(i)
    PROVE  /\ ~CountsFromTheBottom("CLZ", i) => Alike(I!CLZ(r, i), E!CLZ(m, i), r)
           /\ ~CountsFromTheBottom("CLO", i) => Alike(I!CLO(r, i), E!CLO(m, i), r)
<1> DEFINE a == r[i.rs]
<1>1. /\ r[0] = 0 /\ E!At(m, i.rs) = a /\ i.rd \in Register /\ i.rs \in Register
  BY NamesAre
<1>2. a = 0 => LeadingZeros(a) = Bits /\ LeadingZeros(Not(a)) = 0
  BY ZerosAre, Sizes, LogicIs
<1>3. /\ I!CLZ(r, i) = I!Write(r, i.rd, LeadingZeros(a))
      /\ I!CLO(r, i) = I!Write(r, i.rd, LeadingZeros(Not(a)))
  BY SharedBits, SharedWords DEF I!CLZ, I!CLO
<1>4. CASE i.rd = 0
  BY <1>1, <1>3, <1>4, WriteAlike DEF E!CLZ, E!CLO, E!Unary
<1>5. CASE i.rd # 0 /\ i.rs = 0
  BY <1>1, <1>2, <1>3, <1>5, WriteAlike DEF E!CLZ, E!CLO, E!Unary
<1>6. CASE i.rd # 0 /\ i.rs # 0
  <2>1. ASSUME ~CountsFromTheBottom("CLZ", i) PROVE Alike(I!CLZ(r, i), E!CLZ(m, i), r)
    <3>1. Lzcnt \/ E!InPlace(i)
      BY <1>6, <2>1 DEF CountsFromTheBottom, OfRs
    <3>2. E!CLZ(m, i) = E!Result(m, i.rd, LeadingZeros(a))
      BY <1>1, <1>6, <3>1, SharedBits DEF E!CLZ, E!Unary
    <3> QED
      BY <1>1, <1>3, <1>6, <3>2, WriteAlike
  <2>2. ASSUME ~CountsFromTheBottom("CLO", i) PROVE Alike(I!CLO(r, i), E!CLO(m, i), r)
    <3>1. Lzcnt \/ E!InPlace(i)
      BY <1>6, <2>2 DEF CountsFromTheBottom, OfRs
    <3>2. E!CLO(m, i) = E!Result(m, i.rd, LeadingZeros(Not(a)))
      BY <1>1, <1>6, <3>1, SharedBits, SharedWords DEF E!CLO, E!Unary
    <3> QED
      BY <1>1, <1>3, <1>6, <3>2, WriteAlike
  <2> QED
    BY <2>1, <2>2
<1> QED
  BY <1>4, <1>5, <1>6

(* EXT, but for the mask of all bits. *)
LEMMA ExtractAlike ==
    ASSUME NEW m, NEW r, Agreed(m, r), NEW i, Names(i),
           i.sa \in 0 .. Bits - 1, i.msb \in 0 .. Bits - 1,
           Defined("EXT", i), ~ExtractsNothing("EXT", i)
    PROVE  Alike(I!EXT(r, i), E!EXT(m, i), r)
<1> DEFINE a == r[i.rs]
           value == Shr(a, i.sa) % (2^(i.msb + 1))
<1>1. /\ r[0] = 0 /\ E!At(m, i.rs) = a /\ i.rt \in Register /\ i.rs \in Register
      /\ a \in Word
  BY NamesAre
<1>2. i.sa + i.msb < Bits /\ ~(i.sa + i.msb > Bits - 1)
  BY PowersOfWord DEF Defined
<1>3. i.rs = 0 => value = 0
  <2>1. i.sa \in 0 .. 32 /\ i.msb + 1 \in 0 .. 32
    BY PowersOfWord
  <2>2. Shr(0, i.sa) = 0 /\ 0 % Power(i.msb + 1) = 0
    <3>1. Shr(0, i.sa) = 0
      BY <1>1, <2>1, ShiftsAre
    <3>2. Power(i.msb + 1) \in Nat \ {0}
      BY <2>1, PowerIs
    <3>3. 0 % Power(i.msb + 1) = 0
      BY <3>2, Divisions
    <3> QED
      BY <3>1, <3>3
  <2> QED
    BY <1>1, <2>2 DEF Power
<1>4. I!EXT(r, i) = I!Write(r, i.rt, value)
  BY <1>2, SharedWords DEF I!EXT
<1>5. i.rt # 0 /\ i.rs # 0 => i.msb # Bits - 1
  BY DEF ExtractsNothing
<1>6. E!EXT(m, i) = IF i.rt = 0 THEN E!Nop(m)
                    ELSE IF i.rs = 0 THEN E!Result(m, i.rt, 0)
                    ELSE E!Result(m, i.rt, value)
  BY <1>1, <1>2, <1>3, <1>5, SharedWords DEF E!EXT
<1> HIDE DEF value
<1> QED
  BY <1>1, <1>3, <1>4, <1>6, WriteAlike

(* INS, but into the register it is taken from. *)
LEMMA InsertAlike ==
    ASSUME NEW m, NEW r, Agreed(m, r), NEW i, Names(i),
           i.sa \in 0 .. Bits - 1, i.msb \in 0 .. Bits - 1,
           Defined("INS", i), ~InsertsIntoItself("INS", i)
    PROVE  Alike(I!INS(r, i), E!INS(m, i), r)
<1> DEFINE a == r[i.rs]
           b == r[i.rt]
           bits == 0 .. Bits - 1
           field == i.sa .. i.msb
           moved == {n \in field : n - i.sa \in BitsOf[a]}
           value == WordOf[(BitsOf[b] \ field) \cup moved]
<1>1. /\ r[0] = 0 /\ E!At(m, i.rs) = a /\ E!At(m, i.rt) = b
      /\ i.rt \in Register /\ i.rs \in Register /\ a \in Word /\ b \in Word
  BY NamesAre
<1>2. i.sa <= i.msb /\ i.msb - i.sa < Bits - 1
  BY DEF Defined
<1>3. ~(i.sa > i.msb) /\ field # bits
  <2>1. Bits \in Nat
    BY PowersOfWord
  <2>2. 0 \in bits /\ Bits - 1 \in bits
    BY <2>1
  <2> QED
    BY <1>2, <2>1, <2>2
<1>4. I!INS(r, i) = I!Write(r, i.rt, value)
  BY SharedBits DEF I!INS
<1>5. BitsOf[b] \subseteq bits
  BY <1>1 DEF BitsOf
<1>6. i.rs = 0 => value = WordOf[BitsOf[b] \cap (bits \ field)]
  <2> SUFFICES ASSUME i.rs = 0 PROVE value = WordOf[BitsOf[b] \cap (bits \ field)]
    OBVIOUS
  <2>1. moved = {}
    BY <1>1, BitsOfLimits
  <2>2. (BitsOf[b] \ field) \cup {} = BitsOf[b] \cap (bits \ field)
    BY <1>5
  <2> QED
    BY <2>1, <2>2
<1>7. i.rs = i.rt /\ i.sa = 0 => value = b
  <2> SUFFICES ASSUME i.rs = i.rt, i.sa = 0 PROVE value = b
    OBVIOUS
  <2>1. \A n \in field : n - i.sa = n
    BY <1>2
  <2>2. (BitsOf[b] \ field) \cup moved = BitsOf[b]
    BY <2>1
  <2> QED
    BY <1>1, <2>2, WordOfBits
<1>8. i.rs = i.rt => i.rs = 0 \/ i.sa = 0
  BY DEF InsertsIntoItself
<1>9. E!INS(m, i) = IF i.rt = 0 THEN E!Nop(m)
                    ELSE IF i.rs = 0
                         THEN E!Result(m, i.rt, WordOf[BitsOf[b] \cap (bits \ field)])
                    ELSE IF i.rs = i.rt /\ i.sa = 0 THEN E!Nop(m)
                    ELSE E!Result(m, i.rt, value)
  BY <1>1, <1>3, <1>8, SharedBits DEF E!INS
<1> HIDE DEF value
<1> QED
  BY <1>1, <1>4, <1>6, <1>7, <1>9, WriteAlike

-------------------------------------------------------------------------------
(* System, traps and branches *)
LEMMA HardwareRegisterAlike ==
    ASSUME NEW m, NEW r, Agreed(m, r), NEW i, i.rt \in Register, ~HardwareRegisters("RDHWR", i)
    PROVE  Alike(I!RDHWR(r, i), E!RDHWR(m, i), r)
<1>1. i.rt # 0 /\ (i.rd = 1 \/ i.rd = 29)
  BY DEF HardwareRegisters
<1>2. CASE i.rd = 1
  BY <1>1, <1>2, WriteAlike DEF I!RDHWR, E!RDHWR
<1>3. CASE i.rd = 29
  BY <1>1, <1>3, WriteAlike DEF I!RDHWR, E!RDHWR
<1> QED
  BY <1>1, <1>2, <1>3

(* The six traps. *)
LEMMA TrapsAlike ==
    ASSUME NEW m, NEW r, Agreed(m, r), NEW i, Names(i)
    PROVE  /\ Alike(I!TEQ(r, i), E!TEQ(m, i), r)
           /\ Alike(I!TGE(r, i), E!TGE(m, i), r)
           /\ Alike(I!TGEU(r, i), E!TGEU(m, i), r)
           /\ Alike(I!TLT(r, i), E!TLT(m, i), r)
           /\ Alike(I!TLTU(r, i), E!TLTU(m, i), r)
           /\ Alike(I!TNE(r, i), E!TNE(m, i), r)
<1> DEFINE a == r[i.rs]
           b == r[i.rt]
<1>1. /\ E!At(m, i.rs) = a /\ E!At(m, i.rt) = b
      /\ a \in Int /\ b \in Int /\ Signed(a) \in Int /\ Signed(b) \in Int
      /\ i.rs = i.rt => a = b
  BY NamesAre, SignedIs, Sizes
<1>2. /\ Alike(I!Coded(r, "Tr", i), E!Coded(m, "Tr", i), r)
      /\ Alike(I!Continue(r), E!Continue(m), r)
  BY RaiseAlike, EndAlike
<1> DEFINE x == Signed(a)
           y == Signed(b)
<1>3. /\ a >= b <=> i.rs = i.rt \/ a >= b
      /\ x >= y <=> i.rs = i.rt \/ x >= y
      /\ a < b <=> i.rs # i.rt /\ a < b
      /\ x < y <=> i.rs # i.rt /\ x < y
      /\ a = b <=> i.rs = i.rt \/ a = b
      /\ a # b <=> i.rs # i.rt /\ a # b
  BY <1>1
<1>4. /\ I!TEQ(r, i) = I!TrapIf(r, i, a = b)
      /\ I!TGE(r, i) = I!TrapIf(r, i, x >= y)
      /\ I!TGEU(r, i) = I!TrapIf(r, i, a >= b)
      /\ I!TLT(r, i) = I!TrapIf(r, i, x < y)
      /\ I!TLTU(r, i) = I!TrapIf(r, i, a < b)
      /\ I!TNE(r, i) = I!TrapIf(r, i, a # b)
  BY SharedWords DEF I!TEQ, I!TGE, I!TGEU, I!TLT, I!TLTU, I!TNE
<1>5. /\ E!TEQ(m, i) = E!TrapIf(m, i, i.rs = i.rt \/ a = b)
      /\ E!TGE(m, i) = E!TrapIf(m, i, i.rs = i.rt \/ x >= y)
      /\ E!TGEU(m, i) = E!TrapIf(m, i, i.rs = i.rt \/ a >= b)
      /\ E!TLT(m, i) = E!TrapIf(m, i, i.rs # i.rt /\ x < y)
      /\ E!TLTU(m, i) = E!TrapIf(m, i, i.rs # i.rt /\ a < b)
      /\ E!TNE(m, i) = E!TrapIf(m, i, i.rs # i.rt /\ a # b)
  BY <1>1, SharedWords DEF E!TEQ, E!TGE, E!TGEU, E!TLT, E!TLTU, E!TNE
<1> HIDE DEF a, b, x, y
<1> QED
  BY <1>2, <1>3, <1>4, <1>5 DEF I!TrapIf, E!TrapIf, E!Nop

(* The ends of a branch, with and without a link, and what a register holds  *)
(* behind the link.                                                          *)
LEMMA BranchAlike ==
    ASSUME NEW m, NEW r, Agreed(m, r), NEW i, NEW target
    PROVE  /\ Alike(I!NoCTI(r), E!NoCTI(m), r)
           /\ Alike(I!DelayBranch(r, target), E!DelayBranch(m, target), r)
           /\ Alike(I!CompactBranch(r, target), E!CompactBranch(m, target), r)
           /\ Alike(I!Raise(r, "RI"), E!Raise(m, "RI"), r)
           /\ \A n : /\ Alike(I!NoCTI(I!Link(r, n)), E!NoCTI(E!LinkTo(m, n)), r)
                     /\ Alike(I!DelayBranch(I!Link(r, n), target),
                              E!DelayBranch(E!LinkTo(m, n), target), r)
                     /\ Alike(I!CompactBranch(I!Link(r, n), target),
                              E!CompactBranch(E!LinkTo(m, n), target), r)
           /\ \A n : \A x \in Register :
                /\ E!At(E!LinkTo(m, n), x) = I!Link(r, n)[x]
                /\ x # 31 => I!Link(r, n)[x] = r[x]
                /\ x = 31 => I!Link(r, n)[x] = Wrap(Pc + n)
<1>1. /\ 31 \in Register \ {0}
      /\ \A n : I!Link(r, n) = I!Set(r, 31, Wrap(Pc + n))
      /\ \A n : E!LinkTo(m, n) = E!Put(m, 31, Wrap(Pc + n))
  BY RegistersHaveZero, SharedWords DEF I!Link, E!LinkTo, I!ra, E!ra
<1>2. \A n : \A x \in Register :
        /\ E!At(E!LinkTo(m, n), x) = I!Link(r, n)[x]
        /\ x # 31 => I!Link(r, n)[x] = r[x]
        /\ x = 31 => I!Link(r, n)[x] = Wrap(Pc + n)
  <2> TAKE n
  <2> TAKE x \in Register
  <2>1. E!At(E!Put(m, 31, Wrap(Pc + n)), x) = IF x = 31 THEN Wrap(Pc + n) ELSE r[x]
    BY <1>1, PutIs
  <2>2. I!Set(r, 31, Wrap(Pc + n))[x] = IF x = 31 THEN Wrap(Pc + n) ELSE r[x]
    BY <1>1, FileIs DEF I!Set
  <2> QED
    BY <1>1, <2>1, <2>2
<1>3. \A n : /\ Alike(I!NoCTI(I!Link(r, n)), E!NoCTI(E!LinkTo(m, n)), r)
            /\ Alike(I!DelayBranch(I!Link(r, n), target),
                     E!DelayBranch(E!LinkTo(m, n), target), r)
            /\ Alike(I!CompactBranch(I!Link(r, n), target),
                     E!CompactBranch(E!LinkTo(m, n), target), r)
  BY <1>1, LinkAlike
<1> QED
  BY <1>2, <1>3, EndAlike, RaiseAlike

(* Branches with a delay slot on one or two registers. *)
LEMMA BranchesAlike ==
    ASSUME NEW m, NEW r, Agreed(m, r), NEW i, Names(i)
    PROVE  /\ Alike(I!BEQ(r, i), E!BEQ(m, i), r)
           /\ Alike(I!BNE(r, i), E!BNE(m, i), r)
           /\ Alike(I!BGEZ(r, i), E!BGEZ(m, i), r)
           /\ Alike(I!BGTZ(r, i), E!BGTZ(m, i), r)
           /\ Alike(I!BLEZ(r, i), E!BLEZ(m, i), r)
           /\ Alike(I!BLTZ(r, i), E!BLTZ(m, i), r)
<1> DEFINE a == r[i.rs]
           b == r[i.rt]
           x == Signed(a)
<1>1. /\ E!At(m, i.rs) = a /\ E!At(m, i.rt) = b /\ x \in Int
      /\ i.rs = i.rt => a = b
      /\ i.rs = 0 => x = 0
  BY NamesAre, SignedIs, Sizes
<1>2. /\ a = b <=> i.rs = i.rt \/ a = b
      /\ a # b <=> i.rs # i.rt /\ a # b
      /\ x >= 0 <=> i.rs = 0 \/ x >= 0
      /\ x > 0 <=> i.rs # 0 /\ x > 0
      /\ x <= 0 <=> i.rs = 0 \/ x <= 0
      /\ x < 0 <=> i.rs # 0 /\ x < 0
  BY <1>1
<1>3. /\ I!BEQ(r, i) = I!DelayIf(r, i, a = b)
      /\ I!BNE(r, i) = I!DelayIf(r, i, a # b)
      /\ I!BGEZ(r, i) = I!DelayIf(r, i, x >= 0)
      /\ I!BGTZ(r, i) = I!DelayIf(r, i, x > 0)
      /\ I!BLEZ(r, i) = I!DelayIf(r, i, x <= 0)
      /\ I!BLTZ(r, i) = I!DelayIf(r, i, x < 0)
  BY SharedWords DEF I!BEQ, I!BNE, I!BGEZ, I!BGTZ, I!BLEZ, I!BLTZ
<1>4. /\ E!BEQ(m, i) = E!DelayIf(m, i, i.rs = i.rt \/ a = b)
      /\ E!BNE(m, i) = E!DelayIf(m, i, i.rs # i.rt /\ a # b)
      /\ E!BGEZ(m, i) = E!DelayIf(m, i, i.rs = 0 \/ x >= 0)
      /\ E!BGTZ(m, i) = E!DelayIf(m, i, i.rs # 0 /\ x > 0)
      /\ E!BLEZ(m, i) = E!DelayIf(m, i, i.rs = 0 \/ x <= 0)
      /\ E!BLTZ(m, i) = E!DelayIf(m, i, i.rs # 0 /\ x < 0)
  BY <1>1, SharedWords DEF E!BEQ, E!BNE, E!BGEZ, E!BGTZ, E!BLEZ, E!BLTZ
<1>5. /\ Alike(I!DelayBranch(r, BranchTarget(i)), E!DelayBranch(m, BranchTarget(i)), r)
      /\ Alike(I!NoCTI(r), E!NoCTI(m), r)
  BY EndAlike
<1> HIDE DEF a, b, x
<1> QED
  BY <1>2, <1>3, <1>4, <1>5, SharedFields DEF I!DelayIf, E!DelayIf

(* Jumps to a constant address. *)
LEMMA JumpsAlike ==
    ASSUME NEW m, NEW r, Agreed(m, r), NEW i
    PROVE  /\ Alike(I!BAL(r, i), E!BAL(m, i), r)
           /\ Alike(I!J(r, i), E!J(m, i), r)
           /\ Alike(I!JAL(r, i), E!JAL(m, i), r)
           /\ Alike(I!BC(r, i), E!BC(m, i), r)
           /\ Alike(I!BALC(r, i), E!BALC(m, i), r)
<1>1. /\ 31 \in Register \ {0}
      /\ I!BranchTarget(i) = E!BranchTarget(i) /\ I!RegionTarget(i) = E!RegionTarget(i)
      /\ \A n : I!Link(r, n) = I!Set(r, 31, Wrap(Pc + n))
      /\ \A n : E!LinkTo(m, n) = E!Put(m, 31, Wrap(Pc + n))
  BY RegistersHaveZero, SharedWords, SharedFields DEF I!Link, E!LinkTo, I!ra, E!ra
<1> QED
  BY <1>1, EndAlike, LinkAlike
  DEF I!BAL, E!BAL, I!J, E!J, I!JAL, E!JAL, I!BC, E!BC, I!BALC, E!BALC,
      I!DelayIf, I!CompactIf, E!CompactIf

(* Jumps to a register, unless the link overwrote it. *)
LEMMA RegisterJumpsAlike ==
    ASSUME NEW m, NEW r, Agreed(m, r), NEW i, Names(i)
    PROVE  /\ Alike(I!JR(r, i), E!JR(m, i), r)
           /\ ~LinkFirst("JALR", i) => Alike(I!JALR(r, i), E!JALR(m, i), r)
<1>1. E!JumpTarget(m, i) = r[i.rs]
  BY NamesAre DEF E!JumpTarget
<1>2. Alike(I!JR(r, i), E!JR(m, i), r)
  BY <1>1, EndAlike DEF I!JR, E!JR
<1>3. ASSUME ~LinkFirst("JALR", i) PROVE Alike(I!JALR(r, i), E!JALR(m, i), r)
  <2> DEFINE linked == I!Set(r, i.rd, Wrap(Pc + 8))
  <2>1. linked[i.rs] = r[i.rs]
    BY <1>3, NamesAre, FileIs DEF LinkFirst, I!Set
  <2>2. I!JALR(r, i) = I!DelayBranch(I!Set(r, i.rd, Wrap(Pc + 8)), r[i.rs])
    BY <2>1, SharedWords DEF I!JALR
  <2>3. E!JALR(m, i) =
          E!DelayBranch(IF i.rd = 0 THEN m ELSE E!Put(m, i.rd, Wrap(Pc + 8)), r[i.rs])
    BY <1>1, SharedWords DEF E!JALR
  <2>4. CASE i.rd = 0
    BY <2>2, <2>3, <2>4, EndAlike DEF I!Set
  <2>5. CASE i.rd # 0
    BY <2>2, <2>3, <2>5, NamesAre, LinkAlike
  <2> QED
    BY <2>4, <2>5
<1> QED
  BY <1>2, <1>3

(* Compact branches on one register. *)
LEMMA CompactBranchesAlike ==
    ASSUME NEW m, NEW r, Agreed(m, r), NEW i, Names(i)
    PROVE  /\ i.rs # 0 => Alike(I!BEQZC(r, i), E!BEQZC(m, i), r)
           /\ i.rs # 0 => Alike(I!BNEZC(r, i), E!BNEZC(m, i), r)
           /\ i.rt # 0 => Alike(I!BLEZALC(r, i), E!BLEZALC(m, i), r)
           /\ i.rt # 0 => Alike(I!BGTZALC(r, i), E!BGTZALC(m, i), r)
           /\ Alike(I!BLEZC(r, i), E!BLEZC(m, i), r)
           /\ Alike(I!BGTZC(r, i), E!BGTZC(m, i), r)
<1> DEFINE a == r[i.rs]
           b == r[i.rt]
           linked == I!Link(r, 4)[i.rt]
           target == BranchTarget(i)
<1>1. /\ E!At(m, i.rs) = a /\ E!At(m, i.rt) = b /\ E!At(E!LinkTo(m, 4), i.rt) = linked
  BY NamesAre, BranchAlike
<1>2. /\ I!BranchTarget(i) = target /\ E!BranchTarget(i) = target
      /\ \A x : I!Positive(x) <=> Signed(x) > 0
      /\ \A x : E!Positive(x) <=> Signed(x) > 0
      /\ \A x : I!NotPositive(x) <=> Signed(x) <= 0
      /\ \A x : E!NotPositive(x) <=> Signed(x) <= 0
  BY SharedWords, SharedFields
  DEF I!Positive, E!Positive, I!NotPositive, E!NotPositive
<1>3. /\ Alike(I!NoCTI(r), E!NoCTI(m), r)
      /\ Alike(I!CompactBranch(r, target), E!CompactBranch(m, target), r)
      /\ Alike(I!Raise(r, "RI"), E!Raise(m, "RI"), r)
      /\ Alike(I!NoCTI(I!Link(r, 4)), E!NoCTI(E!LinkTo(m, 4)), r)
      /\ Alike(I!CompactBranch(I!Link(r, 4), target),
               E!CompactBranch(E!LinkTo(m, 4), target), r)
  BY BranchAlike
<1> HIDE DEF a, b, linked, target
<1>4. /\ i.rs # 0 => Alike(I!BEQZC(r, i), E!BEQZC(m, i), r)
      /\ i.rs # 0 => Alike(I!BNEZC(r, i), E!BNEZC(m, i), r)
  BY <1>1, <1>2, <1>3 DEF I!BEQZC, E!BEQZC, I!BNEZC, E!BNEZC, I!CompactIf,
     E!CompactIf, a
<1>5. i.rt # 0 => /\ Alike(I!BLEZALC(r, i), E!BLEZALC(m, i), r)
                  /\ Alike(I!BGTZALC(r, i), E!BGTZALC(m, i), r)
  BY <1>1, <1>2, <1>3
  DEF I!BLEZALC, E!BLEZALC, I!BGTZALC, E!BGTZALC, I!LinkIf, E!LinkIf,
      I!CompactIf, E!CompactIf, I!LinkedRt, E!LinkedRt, linked
<1>6. /\ Alike(I!BLEZC(r, i), E!BLEZC(m, i), r)
      /\ Alike(I!BGTZC(r, i), E!BGTZC(m, i), r)
  BY <1>1, <1>2, <1>3
  DEF I!BLEZC, E!BLEZC, I!BGTZC, E!BGTZC, I!CompactIf, E!CompactIf, b
<1> QED
  BY <1>4, <1>5, <1>6

(* Signed words of the same sign are in the order of the words. *)
LEMMA SignedOrder ==
    ASSUME NEW a \in Word, NEW b \in Word, (a < Top) <=> (b < Top)
    PROVE  Signed(a) < Signed(b) <=> a < b
<1>1. a \in Nat /\ b \in Nat /\ Top \in Nat /\ Size \in Nat
  BY Sizes
<1>2. CASE a < Top
  BY <1>1, <1>2, SignedIs
<1>3. CASE a >= Top
  BY <1>1, <1>3, SignedIs
<1> QED
  BY <1>1, <1>2, <1>3

(* The compact branches that compare two registers. *)
LEMMA PopComparesAlike ==
    ASSUME NEW m, NEW r, Agreed(m, r), NEW i, Names(i)
    PROVE  /\ ~UnsignedAsSigned("POP06", i, r) => Alike(I!POP06(r, i), E!POP06(m, i), r)
           /\ ~UnsignedAsSigned("POP07", i, r) => Alike(I!POP07(r, i), E!POP07(m, i), r)
           /\ Alike(I!POP26(r, i), E!POP26(m, i), r)
           /\ Alike(I!POP27(r, i), E!POP27(m, i), r)
<1> DEFINE a == r[i.rs]
           b == r[i.rt]
           x == Signed(a)
           y == Signed(b)
           linked == I!Link(r, 4)[i.rt]
           target == BranchTarget(i)
<1>1. /\ E!At(m, i.rs) = a /\ E!At(m, i.rt) = b /\ E!At(E!LinkTo(m, 4), i.rt) = linked
      /\ a \in Word /\ b \in Word
  BY NamesAre, BranchAlike
<1>2. /\ I!BranchTarget(i) = target /\ E!BranchTarget(i) = target
      /\ \A n : I!Negative(n) <=> Signed(n) < 0
      /\ \A n : E!Negative(n) <=> Signed(n) < 0
      /\ \A n : I!NotNegative(n) <=> Signed(n) >= 0
      /\ \A n : E!NotNegative(n) <=> Signed(n) >= 0
      /\ E!SignedLess(m, i) <=> x < y
      /\ x \in Int /\ y \in Int /\ a \in Int /\ b \in Int
  <2>1. x \in Int /\ y \in Int /\ a \in Int /\ b \in Int
    BY <1>1, SignedIs
  <2>2. E!SignedLess(m, i) <=> x < y
    BY <1>1, SharedWords DEF E!SignedLess
  <2>3. /\ \A n : I!Negative(n) <=> Signed(n) < 0
        /\ \A n : E!Negative(n) <=> Signed(n) < 0
        /\ \A n : I!NotNegative(n) <=> Signed(n) >= 0
        /\ \A n : E!NotNegative(n) <=> Signed(n) >= 0
    BY SharedWords DEF I!Negative, E!Negative, I!NotNegative, E!NotNegative
  <2> QED
    BY <2>1, <2>2, <2>3, SharedFields
<1>3. /\ Alike(I!NoCTI(r), E!NoCTI(m), r)
      /\ Alike(I!CompactBranch(r, target), E!CompactBranch(m, target), r)
      /\ Alike(I!Raise(r, "RI"), E!Raise(m, "RI"), r)
      /\ Alike(I!NoCTI(I!Link(r, 4)), E!NoCTI(E!LinkTo(m, 4)), r)
      /\ Alike(I!CompactBranch(I!Link(r, 4), target),
               E!CompactBranch(E!LinkTo(m, 4), target), r)
  BY BranchAlike
<1>4. \A op \in {"POP06", "POP07"} :
        ~UnsignedAsSigned(op, i, r) /\ 0 \notin {i.rs, i.rt} /\ i.rs # i.rt =>
            (x < y <=> a < b)
  <2> TAKE op \in {"POP06", "POP07"}
  <2> SUFFICES ASSUME ~UnsignedAsSigned(op, i, r), 0 \notin {i.rs, i.rt}, i.rs # i.rt
               PROVE  x < y <=> a < b
    OBVIOUS
  <2>1. (a < Top) <=> (b < Top)
    BY DEF UnsignedAsSigned
  <2> QED
    BY <1>1, <2>1, SignedOrder
<1>5. Signed(a) = x /\ Signed(b) = y
  OBVIOUS
<1> HIDE DEF linked, target, x, y
<1>6. /\ Alike(I!POP26(r, i), E!POP26(m, i), r)
      /\ Alike(I!POP27(r, i), E!POP27(m, i), r)
  BY <1>1, <1>2, <1>3, <1>5, SharedWords
  DEF I!POP26, E!POP26, I!POP27, E!POP27, I!CompactIf, E!CompactIf
<1>7. ~UnsignedAsSigned("POP06", i, r) => Alike(I!POP06(r, i), E!POP06(m, i), r)
  BY <1>1, <1>2, <1>3, <1>4
  DEF I!POP06, E!POP06, I!CompactIf, E!CompactIf, I!LinkIf, E!LinkIf,
      I!LinkedRt, E!LinkedRt, linked
<1>8. ~UnsignedAsSigned("POP07", i, r) => Alike(I!POP07(r, i), E!POP07(m, i), r)
  BY <1>1, <1>2, <1>3, <1>4
  DEF I!POP07, E!POP07, I!CompactIf, E!CompactIf, I!LinkIf, E!LinkIf,
      I!LinkedRt, E!LinkedRt, linked
<1> QED
  BY <1>6, <1>7, <1>8

(* The compact branches on the overflow of a sum. *)
LEMMA PopOverflowsAlike ==
    ASSUME NEW m, NEW r, Agreed(m, r), NEW i, Names(i)
    PROVE  /\ ~OverflowAsCarry("POP10", i, r) => Alike(I!POP10(r, i), E!POP10(m, i), r)
           /\ ~OverflowAsCarry("POP30", i, r) /\ ~NotZeroAndLink("POP30", i) =>
                Alike(I!POP30(r, i), E!POP30(m, i), r)
<1> DEFINE a == r[i.rs]
           b == r[i.rt]
           linked == I!Link(r, 4)[i.rt]
           target == BranchTarget(i)
           carry == a + b > Highest
<1>1. /\ E!At(m, i.rs) = a /\ E!At(m, i.rt) = b /\ E!At(E!LinkTo(m, 4), i.rt) = linked
      /\ i.rs \in Nat /\ i.rt \in Nat
  <2>1. /\ E!At(m, i.rs) = a /\ E!At(m, i.rt) = b
        /\ E!At(E!LinkTo(m, 4), i.rt) = linked
    BY NamesAre, BranchAlike
  <2>2. i.rs \in Nat /\ i.rt \in Nat
    <3>1. \A x \in Register : x \in 0 .. 31
      BY RegistersHaveZero
    <3> QED
      BY <3>1 DEF Names
  <2> QED
    BY <2>1, <2>2
<1>2. /\ I!BranchTarget(i) = target /\ E!BranchTarget(i) = target
      /\ E!Carry(m, i) <=> carry
  BY <1>1, SharedFields DEF E!Carry, E!Highest, Highest
<1>3. /\ Alike(I!NoCTI(r), E!NoCTI(m), r)
      /\ Alike(I!CompactBranch(r, target), E!CompactBranch(m, target), r)
      /\ Alike(I!NoCTI(I!Link(r, 4)), E!NoCTI(E!LinkTo(m, 4)), r)
      /\ Alike(I!CompactBranch(I!Link(r, 4), target),
               E!CompactBranch(E!LinkTo(m, 4), target), r)
  BY BranchAlike
<1>4. \A op \in {"POP10", "POP30"} :
        ~OverflowAsCarry(op, i, r) /\ ~(i.rs < i.rt) => (I!SumOverflows(r, i) <=> carry)
  <2> TAKE op \in {"POP10", "POP30"}
  <2> SUFFICES ASSUME ~OverflowAsCarry(op, i, r), ~(i.rs < i.rt)
               PROVE  I!SumOverflows(r, i) <=> carry
    OBVIOUS
  <2>1. i.rs >= i.rt
    BY <1>1
  <2> QED
    BY <2>1 DEF OverflowAsCarry, I!SumOverflows, I!Overflows
<1> HIDE DEF linked, target, carry
<1>5. ~OverflowAsCarry("POP10", i, r) => Alike(I!POP10(r, i), E!POP10(m, i), r)
  BY <1>1, <1>2, <1>3, <1>4
  DEF I!POP10, E!POP10, I!CompactIf, E!CompactIf, I!LinkIf, E!LinkIf,
      I!LinkedRt, E!LinkedRt, I!IsZero, E!IsZero, linked
<1>6. ~OverflowAsCarry("POP30", i, r) /\ ~NotZeroAndLink("POP30", i) =>
        Alike(I!POP30(r, i), E!POP30(m, i), r)
  BY <1>1, <1>2, <1>3, <1>4
  DEF I!POP30, E!POP30, I!CompactIf, E!CompactIf, NotZeroAndLink
<1> QED
  BY <1>5, <1>6

(* Jumps to a register and an offset. *)
LEMMA IndexedJumpsAlike ==
    ASSUME NEW m, NEW r, Agreed(m, r), NEW i, Names(i)
    PROVE  /\ Alike(I!JIC(r, i), E!JIC(m, i), r)
           /\ ~LinkFirst("JIALC", i) => Alike(I!JIALC(r, i), E!JIALC(m, i), r)
<1> DEFINE target == Wrap(r[i.rt] + Offset(i))
           linked == E!LinkTo(m, 4)
<1>1. E!Indexed(m, i) = target
  BY NamesAre, SharedWords, SharedFields DEF E!Indexed
<1>2. Alike(I!JIC(r, i), E!JIC(m, i), r)
  BY <1>1, BranchAlike, SharedWords, SharedFields DEF I!JIC, E!JIC
<1>3. ASSUME ~LinkFirst("JIALC", i) PROVE Alike(I!JIALC(r, i), E!JIALC(m, i), r)
  <2>1. i.rt # 31
    BY <1>3 DEF LinkFirst, ra
  <2>2. E!At(linked, i.rt) = r[i.rt] /\ r[0] = 0
    BY <2>1, NamesAre, BranchAlike
  <2>3. E!Indexed(linked, i) = target
    BY <2>2, SharedWords, SharedFields DEF E!Indexed
  <2> HIDE DEF target
  <2>4. E!JIALC(m, i) = E!CompactBranch(E!LinkTo(m, 4), target)
    BY <2>3 DEF E!JIALC
  <2>5. I!JIALC(r, i) = I!CompactBranch(I!Link(r, 4), target)
    BY SharedWords, SharedFields DEF I!JIALC, target
  <2> QED
    BY <2>4, <2>5, BranchAlike
<1> QED
  BY <1>2, <1>3

-------------------------------------------------------------------------------
(* Instructions that emitted code calls the handler for: it works on slots. *)
LEMMA SlotsAre ==
    ASSUME NEW m, NEW r, Agreed(m, r)
    PROVE  /\ m.slot \in [Register -> Word]
           /\ \A x \in Register \ {30} : m.slot[x] = r[x]
           /\ r \in [Register -> Word] /\ r[30] = m.r15d /\ r[0] = 0
BY RegistersHaveZero DEF Agreed, View, fp

(* What is not emitted is called. *)
LEMMA CalledEmitted ==
    ASSUME NEW m, NEW i, NEW op \in NotEmitted
    PROVE  Emitted(op, m, i) = Called(m, op, i)
<1>1. CASE op = "ROTR"
  BY <1>1 DEF Emitted, NotEmitted, OfPc, RequiresCoP0
<1>2. CASE op = "ROTRV"
  BY <1>2 DEF Emitted, NotEmitted, OfPc, RequiresCoP0
<1>3. CASE op = "SRAV"
  BY <1>3 DEF Emitted, NotEmitted, OfPc, RequiresCoP0
<1>4. CASE op = "ALIGN"
  BY <1>4 DEF Emitted, NotEmitted, OfPc, RequiresCoP0
<1>5. CASE op = "BITSWAP"
  BY <1>5 DEF Emitted, NotEmitted, OfPc, RequiresCoP0
<1>6. CASE op = "WSBH"
  BY <1>6 DEF Emitted, NotEmitted, OfPc, RequiresCoP0
<1>7. CASE op = "NAL"
  BY <1>7 DEF Emitted, NotEmitted, OfPc, RequiresCoP0
<1>8. CASE op = "SYNCI"
  BY <1>8 DEF Emitted, NotEmitted, OfPc, RequiresCoP0
<1>9. CASE op = "SDBBP"
  BY <1>9 DEF Emitted, NotEmitted, OfPc, RequiresCoP0
<1>10. CASE op = "SSNOP"
  BY <1>10 DEF Emitted, NotEmitted, OfPc, RequiresCoP0
<1>11. CASE op = "PAUSE"
  BY <1>11 DEF Emitted, NotEmitted, OfPc, RequiresCoP0
<1>12. CASE op = "PREF"
  BY <1>12 DEF Emitted, NotEmitted, OfPc, RequiresCoP0
<1>13. CASE op = "COP2"
  BY <1>13 DEF Emitted, NotEmitted, OfPc, RequiresCoP0
<1>14. CASE op = "ADDIUPC"
  BY <1>14 DEF Emitted, NotEmitted, OfPc, RequiresCoP0
<1>15. CASE op = "AUIPC"
  BY <1>15 DEF Emitted, NotEmitted, OfPc, RequiresCoP0
<1>16. CASE op = "ALUIPC"
  BY <1>16 DEF Emitted, NotEmitted, OfPc, RequiresCoP0
<1> QED
  BY <1>1, <1>2, <1>3, <1>4, <1>5, <1>6, <1>7, <1>8, <1>9, <1>10, <1>11, <1>12,
     <1>13, <1>14, <1>15, <1>16 DEF NotEmitted, OfPc

(* A handler that sets one register does so in the slots, where nobody looks *)
(* for $30.                                                                  *)
LEMMA CalledAlike ==
    ASSUME NEW m, NEW r, Agreed(m, r), NEW i, NEW op \in NotEmitted,
           NEW d \in Register \ {30}, NEW v, NEW how, how[1] = "raise" => d = 0,
           Interpret(op, r, i) = I!Ended(I!Set(r, d, v), how),
           Interpret(op, m.slot, i) = I!Ended(I!Set(m.slot, d, v), how)
    PROVE  Alike(Interpret(op, r, i), Emitted(op, m, i), r)
<1> DEFINE slots == [I!Set(m.slot, d, v) EXCEPT ![0] = 0]
           after == [m EXCEPT !.slot = slots]
           written == I!Set(r, d, v)
<1>1. Emitted(op, m, i) = [regs |-> after, out |-> how]
  BY CalledEmitted DEF Called, I!Ended, Ended
<1>2. Interpret(op, r, i) = [regs |-> written, out |-> how]
  BY DEF I!Ended
<1>3. View(after) = written
  <2>1. after.slot = slots /\ after.r15d = m.r15d
    BY DEF Agreed
  <2>2. View(after) = [slots EXCEPT ![30] = m.r15d]
    BY <2>1 DEF View, fp
  <2>3. CASE d = 0
    <3>1. slots = [m.slot EXCEPT ![0] = 0] /\ written = r
      BY <2>3 DEF I!Set
    <3>2. [[m.slot EXCEPT ![0] = 0] EXCEPT ![30] = m.r15d] = r
      BY SlotsAre, RegistersHaveZero
    <3> QED
      BY <2>2, <3>1, <3>2
  <2>4. CASE d # 0
    <3>1. slots = [[m.slot EXCEPT ![d] = v] EXCEPT ![0] = 0] /\ written = [r EXCEPT ![d] = v]
      BY <2>4 DEF I!Set
    <3>2. [[[m.slot EXCEPT ![d] = v] EXCEPT ![0] = 0] EXCEPT ![30] = m.r15d]
            = [r EXCEPT ![d] = v]
      <4> DEFINE s == m.slot
                 x == m.r15d
      <4>1. /\ s \in [Register -> Word] /\ s[0] = 0 /\ r = [s EXCEPT ![30] = x]
            /\ 0 \in Register /\ 30 \in Register
        BY SlotsAre, RegistersHaveZero
      <4> HIDE DEF s, x
      <4>2. [[s EXCEPT ![d] = v] EXCEPT ![0] = 0] = [s EXCEPT ![d] = v]
        BY <2>4, <4>1
      <4>3. [[s EXCEPT ![d] = v] EXCEPT ![30] = x] = [[s EXCEPT ![30] = x] EXCEPT ![d] = v]
        BY <4>1
      <4>4. [[[s EXCEPT ![d] = v] EXCEPT ![0] = 0] EXCEPT ![30] = x] = [r EXCEPT ![d] = v]
        BY <4>1, <4>2, <4>3
      <4> QED
        BY <4>4 DEF s, x
    <3> QED
      BY <2>2, <3>1, <3>2
  <2> QED
    BY <2>3, <2>4
<1>4. how[1] = "raise" => written = r
  BY DEF I!Set
<1> HIDE DEF slots, after, written
<1> QED
  BY <1>1, <1>2, <1>3, <1>4 DEF Alike

(* The handler of each operation that is called. *)
LEMMA CalledInterpreted ==
    ASSUME NEW r, NEW i
    PROVE  /\ Interpret("ROTR", r, i) = I!ROTR(r, i)
           /\ Interpret("ROTRV", r, i) = I!ROTRV(r, i)
           /\ Interpret("SRAV", r, i) = I!SRAV(r, i)
           /\ Interpret("ALIGN", r, i) = I!ALIGN(r, i)
           /\ Interpret("BITSWAP", r, i) = I!BITSWAP(r, i)
           /\ Interpret("WSBH", r, i) = I!WSBH(r, i)
           /\ Interpret("NAL", r, i) = I!NAL(r, i)
           /\ Interpret("SYNCI", r, i) = I!SYNCI(r, i)
           /\ Interpret("SDBBP", r, i) = I!SDBBP(r, i)
           /\ Interpret("SSNOP", r, i) = I!SSNOP(r, i)
           /\ Interpret("PAUSE", r, i) = I!PAUSE(r, i)
           /\ Interpret("PREF", r, i) = I!PREF(r, i)
           /\ Interpret("COP2", r, i) = I!Coprocessor2(r, i)
           /\ Interpret("ADDIUPC", r, i) = I!ADDIUPC(r, i)
           /\ Interpret("AUIPC", r, i) = I!AUIPC(r, i)
           /\ Interpret("ALUIPC", r, i) = I!ALUIPC(r, i)
BY DEF Interpret

(* A called handler does what it does in the interpreter, unless $30 is an   *)
(* operand.                                                                  *)
LEMMA CalledInstructionsAlike ==
    ASSUME NEW m, NEW r, Agreed(m, r), NEW i, Names(i), NEW op \in NotEmitted,
           ~FrameNotShared(op, i)
    PROVE  Alike(Interpret(op, r, i), Emitted(op, m, i), r)
<1>1. /\ i.rd \in Register \ {30} /\ i.rs \in Register \ {30} /\ i.rt \in Register \ {30}
      /\ 0 \in Register \ {30} /\ 31 \in Register \ {30}
  BY RegistersHaveZero DEF Names, FrameNotShared, fp
<1>2. m.slot[i.rs] = r[i.rs] /\ m.slot[i.rt] = r[i.rt]
  BY <1>1, SlotsAre
<1>3. ASSUME NEW d \in Register \ {30}, NEW v,
             Interpret(op, r, i) = I!Write(r, d, v),
             Interpret(op, m.slot, i) = I!Write(m.slot, d, v)
      PROVE  Alike(Interpret(op, r, i), Emitted(op, m, i), r)
  <2>1. <<"next">>[1] # "raise"
    OBVIOUS
  <2> QED
    BY <1>3, <2>1, CalledAlike DEF I!Write, I!Continue
<1>4. ASSUME NEW how, Interpret(op, r, i) = I!Ended(r, how),
             Interpret(op, m.slot, i) = I!Ended(m.slot, how)
      PROVE  Alike(Interpret(op, r, i), Emitted(op, m, i), r)
  <2>1. I!Set(r, 0, 0) = r /\ I!Set(m.slot, 0, 0) = m.slot
    BY DEF I!Set
  <2> QED
    BY <1>1, <1>4, <2>1, CalledAlike
<1>5. CASE op = "ROTR"
  BY <1>1, <1>2, <1>3, <1>5, CalledInterpreted DEF I!ROTR
<1>6. CASE op = "ROTRV"
  BY <1>1, <1>2, <1>3, <1>6, CalledInterpreted DEF I!ROTRV
<1>7. CASE op = "SRAV"
  BY <1>1, <1>2, <1>3, <1>7, CalledInterpreted DEF I!SRAV
<1>8. CASE op = "ALIGN"
  BY <1>1, <1>2, <1>3, <1>8, CalledInterpreted DEF I!ALIGN
<1>9. CASE op = "BITSWAP"
  <2> DEFINE q == Bits \div 4
             v == I!WordOf[{b \in 0 .. Bits - 1 :
                             (b \div q) * q + q - 1 - (b % q) \in I!BitsOf[r[i.rt]]}]
  <2>1. I!BITSWAP(r, i) = I!Write(r, i.rd, v)
    BY DEF I!BITSWAP, I!Permute
  <2>2. I!BITSWAP(m.slot, i) = I!Write(m.slot, i.rd, v)
    BY <1>2 DEF I!BITSWAP, I!Permute
  <2> HIDE DEF v
  <2> QED
    BY <1>1, <1>3, <1>9, <2>1, <2>2, CalledInterpreted
<1>10. CASE op = "WSBH"
  <2> DEFINE q == Bits \div 4
             v == I!WordOf[{b \in 0 .. Bits - 1 :
                             (IF (b \div q) % 2 = 0 THEN b + q ELSE b - q) \in I!BitsOf[r[i.rt]]}]
  <2>1. I!WSBH(r, i) = I!Write(r, i.rd, v)
    BY DEF I!WSBH, I!Permute
  <2>2. I!WSBH(m.slot, i) = I!Write(m.slot, i.rd, v)
    BY <1>2 DEF I!WSBH, I!Permute
  <2> HIDE DEF v
  <2> QED
    BY <1>1, <1>3, <1>10, <2>1, <2>2, CalledInterpreted
<1>11. CASE op = "NAL"
  <2>1. <<"no_cti">>[1] # "raise"
    OBVIOUS
  <2> QED
    BY <1>1, <1>11, <2>1, CalledInterpreted, CalledAlike DEF I!NAL, I!NoCTI, I!Link,
       I!ra
<1>12. CASE op \in {"SYNCI", "SSNOP", "PAUSE", "PREF"}
  <2>1. CASE op = "SYNCI"
    BY <1>4, <2>1, CalledInterpreted DEF I!SYNCI, I!Continue
  <2>2. CASE op = "SSNOP"
    BY <1>4, <2>2, CalledInterpreted DEF I!SSNOP, I!Continue
  <2>3. CASE op = "PAUSE"
    BY <1>4, <2>3, CalledInterpreted DEF I!PAUSE, I!Continue
  <2>4. CASE op = "PREF"
    BY <1>4, <2>4, CalledInterpreted DEF I!PREF, I!Continue
  <2> QED
    BY <1>12, <2>1, <2>2, <2>3, <2>4
<1>13. CASE op = "SDBBP"
  <2> DEFINE how == <<"raise", "Bp", i.sa>>
  <2>1. I!SDBBP(r, i) = I!Ended(r, how) /\ I!SDBBP(m.slot, i) = I!Ended(m.slot, how)
    BY DEF I!SDBBP, I!Coded
  <2> HIDE DEF how
  <2> QED
    BY <1>4, <1>13, <2>1, CalledInterpreted
<1>14. CASE op = "COP2"
  BY <1>4, <1>14, CalledInterpreted DEF I!Coprocessor2, I!Raise
<1>15. CASE op = "ADDIUPC"
  BY <1>1, <1>3, <1>15, CalledInterpreted DEF I!ADDIUPC
<1>16. CASE op = "AUIPC"
  BY <1>1, <1>3, <1>16, CalledInterpreted DEF I!AUIPC
<1>17. CASE op = "ALUIPC"
  BY <1>1, <1>3, <1>17, CalledInterpreted DEF I!ALUIPC
<1> QED
  BY <1>5, <1>6, <1>7, <1>8, <1>9, <1>10, <1>11, <1>12, <1>13, <1>14, <1>15, <1>16,
     <1>17
  DEF NotEmitted, OfPc

-------------------------------------------------------------------------------
(* Every other instruction has an emitter of its own. *)
LEMMA ArithmeticDispatch ==
    ASSUME NEW r, NEW m, NEW i
    PROVE  /\ Interpret("ADD", r, i) = I!ADD(r, i) /\ Emitted("ADD", m, i) = E!ADD(m, i)
           /\ Interpret("SUB", r, i) = I!SUB(r, i) /\ Emitted("SUB", m, i) = E!SUB(m, i)
           /\ Interpret("ADDU", r, i) = I!ADDU(r, i) /\ Emitted("ADDU", m, i) = E!ADDU(m, i)
           /\ Interpret("SUBU", r, i) = I!SUBU(r, i) /\ Emitted("SUBU", m, i) = E!SUBU(m, i)
           /\ Interpret("MUL", r, i) = I!MUL(r, i) /\ Emitted("MUL", m, i) = E!MUL(m, i)
           /\ Interpret("MUH", r, i) = I!MUH(r, i) /\ Emitted("MUH", m, i) = E!MUH(m, i)
           /\ Interpret("MULU", r, i) = I!MULU(r, i) /\ Emitted("MULU", m, i) = E!MULU(m, i)
           /\ Interpret("MUHU", r, i) = I!MUHU(r, i) /\ Emitted("MUHU", m, i) = E!MUHU(m, i)
           /\ Interpret("DIV", r, i) = I!DIV(r, i) /\ Emitted("DIV", m, i) = E!DIV(m, i)
           /\ Interpret("MOD", r, i) = I!MOD(r, i) /\ Emitted("MOD", m, i) = E!MOD(m, i)
           /\ Interpret("DIVU", r, i) = I!DIVU(r, i) /\ Emitted("DIVU", m, i) = E!DIVU(m, i)
           /\ Interpret("MODU", r, i) = I!MODU(r, i) /\ Emitted("MODU", m, i) = E!MODU(m, i)
<1>1. /\ Interpret("ADD", r, i) = I!ADD(r, i) /\ Emitted("ADD", m, i) = E!ADD(m, i)
      /\ Interpret("SUB", r, i) = I!SUB(r, i) /\ Emitted("SUB", m, i) = E!SUB(m, i)
      /\ Interpret("ADDU", r, i) = I!ADDU(r, i) /\ Emitted("ADDU", m, i) = E!ADDU(m, i)
      /\ Interpret("SUBU", r, i) = I!SUBU(r, i) /\ Emitted("SUBU", m, i) = E!SUBU(m, i)
      /\ Interpret("MUL", r, i) = I!MUL(r, i) /\ Emitted("MUL", m, i) = E!MUL(m, i)
  BY SMTT(30) DEF Interpret, Emitted, NotEmitted, RequiresCoP0, OfPc
<1>2. /\ Interpret("MUH", r, i) = I!MUH(r, i) /\ Emitted("MUH", m, i) = E!MUH(m, i)
      /\ Interpret("MULU", r, i) = I!MULU(r, i) /\ Emitted("MULU", m, i) = E!MULU(m, i)
      /\ Interpret("MUHU", r, i) = I!MUHU(r, i) /\ Emitted("MUHU", m, i) = E!MUHU(m, i)
      /\ Interpret("DIV", r, i) = I!DIV(r, i) /\ Emitted("DIV", m, i) = E!DIV(m, i)
      /\ Interpret("MOD", r, i) = I!MOD(r, i) /\ Emitted("MOD", m, i) = E!MOD(m, i)
  BY SMTT(30) DEF Interpret, Emitted, NotEmitted, RequiresCoP0, OfPc
<1>3. /\ Interpret("DIVU", r, i) = I!DIVU(r, i) /\ Emitted("DIVU", m, i) = E!DIVU(m, i)
      /\ Interpret("MODU", r, i) = I!MODU(r, i) /\ Emitted("MODU", m, i) = E!MODU(m, i)
  BY SMTT(30) DEF Interpret, Emitted, NotEmitted, RequiresCoP0, OfPc
<1> QED
  BY <1>1, <1>2, <1>3

(* The same, for operations on bits, comparisons and shifts. *)
LEMMA LogicDispatch ==
    ASSUME NEW r, NEW m, NEW i
    PROVE  /\ Interpret("AND", r, i) = I!AND(r, i) /\ Emitted("AND", m, i) = E!AND(m, i)
           /\ Interpret("OR", r, i) = I!OR(r, i) /\ Emitted("OR", m, i) = E!OR(m, i)
           /\ Interpret("NOR", r, i) = I!NOR(r, i) /\ Emitted("NOR", m, i) = E!NOR(m, i)
           /\ Interpret("XOR", r, i) = I!XOR(r, i) /\ Emitted("XOR", m, i) = E!XOR(m, i)
           /\ Interpret("SLT", r, i) = I!SLT(r, i) /\ Emitted("SLT", m, i) = E!SLT(m, i)
           /\ Interpret("SLTU", r, i) = I!SLTU(r, i) /\ Emitted("SLTU", m, i) = E!SLTU(m, i)
           /\ Interpret("SELEQZ", r, i) = I!SELEQZ(r, i) /\ Emitted("SELEQZ", m, i) = E!SELEQZ(m, i)
           /\ Interpret("SELNEZ", r, i) = I!SELNEZ(r, i) /\ Emitted("SELNEZ", m, i) = E!SELNEZ(m, i)
           /\ Interpret("SLLV", r, i) = I!SLLV(r, i) /\ Emitted("SLLV", m, i) = E!SLLV(m, i)
           /\ Interpret("SRLV", r, i) = I!SRLV(r, i) /\ Emitted("SRLV", m, i) = E!SRLV(m, i)
<1>1. /\ Interpret("AND", r, i) = I!AND(r, i) /\ Emitted("AND", m, i) = E!AND(m, i)
      /\ Interpret("OR", r, i) = I!OR(r, i) /\ Emitted("OR", m, i) = E!OR(m, i)
      /\ Interpret("NOR", r, i) = I!NOR(r, i) /\ Emitted("NOR", m, i) = E!NOR(m, i)
      /\ Interpret("XOR", r, i) = I!XOR(r, i) /\ Emitted("XOR", m, i) = E!XOR(m, i)
      /\ Interpret("SLT", r, i) = I!SLT(r, i) /\ Emitted("SLT", m, i) = E!SLT(m, i)
  BY SMTT(30) DEF Interpret, Emitted, NotEmitted, RequiresCoP0, OfPc
<1>2. /\ Interpret("SLTU", r, i) = I!SLTU(r, i) /\ Emitted("SLTU", m, i) = E!SLTU(m, i)
      /\ Interpret("SELEQZ", r, i) = I!SELEQZ(r, i) /\ Emitted("SELEQZ", m, i) = E!SELEQZ(m, i)
      /\ Interpret("SELNEZ", r, i) = I!SELNEZ(r, i) /\ Emitted("SELNEZ", m, i) = E!SELNEZ(m, i)
      /\ Interpret("SLLV", r, i) = I!SLLV(r, i) /\ Emitted("SLLV", m, i) = E!SLLV(m, i)
      /\ Interpret("SRLV", r, i) = I!SRLV(r, i) /\ Emitted("SRLV", m, i) = E!SRLV(m, i)
  BY SMTT(30) DEF Interpret, Emitted, NotEmitted, RequiresCoP0, OfPc
<1> QED
  BY <1>1, <1>2

(* The same, for operations with an immediate. *)
LEMMA ImmediateDispatch ==
    ASSUME NEW r, NEW m, NEW i
    PROVE  /\ Interpret("ADDIU", r, i) = I!ADDIU(r, i) /\ Emitted("ADDIU", m, i) = E!ADDIU(m, i)
           /\ Interpret("AUI", r, i) = I!AUI(r, i) /\ Emitted("AUI", m, i) = E!AUI(m, i)
           /\ Interpret("MOVE", r, i) = I!MOVE(r, i) /\ Emitted("MOVE", m, i) = E!MOVE(m, i)
           /\ Interpret("LSA", r, i) = I!LSA(r, i) /\ Emitted("LSA", m, i) = E!LSA(m, i)
           /\ Interpret("ANDI", r, i) = I!ANDI(r, i) /\ Emitted("ANDI", m, i) = E!ANDI(m, i)
           /\ Interpret("ORI", r, i) = I!ORI(r, i) /\ Emitted("ORI", m, i) = E!ORI(m, i)
           /\ Interpret("XORI", r, i) = I!XORI(r, i) /\ Emitted("XORI", m, i) = E!XORI(m, i)
           /\ Interpret("SLTI", r, i) = I!SLTI(r, i) /\ Emitted("SLTI", m, i) = E!SLTI(m, i)
           /\ Interpret("SLTIU", r, i) = I!SLTIU(r, i) /\ Emitted("SLTIU", m, i) = E!SLTIU(m, i)
           /\ Interpret("SLL", r, i) = I!SLL(r, i) /\ Emitted("SLL", m, i) = E!SLL(m, i)
           /\ Interpret("SRL", r, i) = I!SRL(r, i) /\ Emitted("SRL", m, i) = E!SRL(m, i)
           /\ Interpret("SRA", r, i) = I!SRA(r, i) /\ Emitted("SRA", m, i) = E!SRA(m, i)
           /\ Interpret("EXT", r, i) = I!EXT(r, i) /\ Emitted("EXT", m, i) = E!EXT(m, i)
           /\ Interpret("INS", r, i) = I!INS(r, i) /\ Emitted("INS", m, i) = E!INS(m, i)
           /\ Interpret("SEB", r, i) = I!SEB(r, i) /\ Emitted("SEB", m, i) = E!SEB(m, i)
           /\ Interpret("SEH", r, i) = I!SEH(r, i) /\ Emitted("SEH", m, i) = E!SEH(m, i)
           /\ Interpret("CLZ", r, i) = I!CLZ(r, i) /\ Emitted("CLZ", m, i) = E!CLZ(m, i)
           /\ Interpret("CLO", r, i) = I!CLO(r, i) /\ Emitted("CLO", m, i) = E!CLO(m, i)
           /\ Interpret("RDHWR", r, i) = I!RDHWR(r, i) /\ Emitted("RDHWR", m, i) = E!RDHWR(m, i)
BY SMTT(100) DEF Interpret, Emitted, NotEmitted, RequiresCoP0, OfPc

(* The same, for traps. *)
LEMMA TrapDispatch ==
    ASSUME NEW r, NEW m, NEW i
    PROVE  /\ Interpret("TEQ", r, i) = I!TEQ(r, i) /\ Emitted("TEQ", m, i) = E!TEQ(m, i)
           /\ Interpret("TGE", r, i) = I!TGE(r, i) /\ Emitted("TGE", m, i) = E!TGE(m, i)
           /\ Interpret("TGEU", r, i) = I!TGEU(r, i) /\ Emitted("TGEU", m, i) = E!TGEU(m, i)
           /\ Interpret("TLT", r, i) = I!TLT(r, i) /\ Emitted("TLT", m, i) = E!TLT(m, i)
           /\ Interpret("TLTU", r, i) = I!TLTU(r, i) /\ Emitted("TLTU", m, i) = E!TLTU(m, i)
           /\ Interpret("TNE", r, i) = I!TNE(r, i) /\ Emitted("TNE", m, i) = E!TNE(m, i)
BY SMTT(30) DEF Interpret, Emitted, NotEmitted, RequiresCoP0, OfPc

(* The same, for branches with a delay slot. *)
LEMMA BranchDispatch ==
    ASSUME NEW r, NEW m, NEW i
    PROVE  /\ Interpret("BEQ", r, i) = I!BEQ(r, i) /\ Emitted("BEQ", m, i) = E!BEQ(m, i)
           /\ Interpret("BNE", r, i) = I!BNE(r, i) /\ Emitted("BNE", m, i) = E!BNE(m, i)
           /\ Interpret("BGEZ", r, i) = I!BGEZ(r, i) /\ Emitted("BGEZ", m, i) = E!BGEZ(m, i)
           /\ Interpret("BGTZ", r, i) = I!BGTZ(r, i) /\ Emitted("BGTZ", m, i) = E!BGTZ(m, i)
           /\ Interpret("BLEZ", r, i) = I!BLEZ(r, i) /\ Emitted("BLEZ", m, i) = E!BLEZ(m, i)
           /\ Interpret("BLTZ", r, i) = I!BLTZ(r, i) /\ Emitted("BLTZ", m, i) = E!BLTZ(m, i)
           /\ Interpret("BAL", r, i) = I!BAL(r, i) /\ Emitted("BAL", m, i) = E!BAL(m, i)
           /\ Interpret("J", r, i) = I!J(r, i) /\ Emitted("J", m, i) = E!J(m, i)
           /\ Interpret("JAL", r, i) = I!JAL(r, i) /\ Emitted("JAL", m, i) = E!JAL(m, i)
           /\ Interpret("JR", r, i) = I!JR(r, i) /\ Emitted("JR", m, i) = E!JR(m, i)
           /\ Interpret("JALR", r, i) = I!JALR(r, i) /\ Emitted("JALR", m, i) = E!JALR(m, i)
<1>1. /\ Interpret("BEQ", r, i) = I!BEQ(r, i) /\ Emitted("BEQ", m, i) = E!BEQ(m, i)
      /\ Interpret("BNE", r, i) = I!BNE(r, i) /\ Emitted("BNE", m, i) = E!BNE(m, i)
      /\ Interpret("BGEZ", r, i) = I!BGEZ(r, i) /\ Emitted("BGEZ", m, i) = E!BGEZ(m, i)
      /\ Interpret("BGTZ", r, i) = I!BGTZ(r, i) /\ Emitted("BGTZ", m, i) = E!BGTZ(m, i)
      /\ Interpret("BLEZ", r, i) = I!BLEZ(r, i) /\ Emitted("BLEZ", m, i) = E!BLEZ(m, i)
  BY SMTT(30) DEF Interpret, Emitted, NotEmitted, RequiresCoP0, OfPc
<1>2. /\ Interpret("BLTZ", r, i) = I!BLTZ(r, i) /\ Emitted("BLTZ", m, i) = E!BLTZ(m, i)
      /\ Interpret("BAL", r, i) = I!BAL(r, i) /\ Emitted("BAL", m, i) = E!BAL(m, i)
      /\ Interpret("J", r, i) = I!J(r, i) /\ Emitted("J", m, i) = E!J(m, i)
      /\ Interpret("JAL", r, i) = I!JAL(r, i) /\ Emitted("JAL", m, i) = E!JAL(m, i)
      /\ Interpret("JR", r, i) = I!JR(r, i) /\ Emitted("JR", m, i) = E!JR(m, i)
  BY SMTT(30) DEF Interpret, Emitted, NotEmitted, RequiresCoP0, OfPc
<1>3. /\ Interpret("JALR", r, i) = I!JALR(r, i) /\ Emitted("JALR", m, i) = E!JALR(m, i)
  BY SMTT(30) DEF Interpret, Emitted, NotEmitted, RequiresCoP0, OfPc
<1> QED
  BY <1>1, <1>2, <1>3

(* The same, for compact branches. *)
LEMMA CompactDispatch ==
    ASSUME NEW r, NEW m, NEW i
    PROVE  /\ Interpret("BC", r, i) = I!BC(r, i) /\ Emitted("BC", m, i) = E!BC(m, i)
           /\ Interpret("BALC", r, i) = I!BALC(r, i) /\ Emitted("BALC", m, i) = E!BALC(m, i)
           /\ Interpret("JIC", r, i) = I!JIC(r, i) /\ Emitted("JIC", m, i) = E!JIC(m, i)
           /\ Interpret("JIALC", r, i) = I!JIALC(r, i) /\ Emitted("JIALC", m, i) = E!JIALC(m, i)
           /\ Interpret("BEQZC", r, i) = I!BEQZC(r, i) /\ Emitted("BEQZC", m, i) = E!BEQZC(m, i)
           /\ Interpret("BNEZC", r, i) = I!BNEZC(r, i) /\ Emitted("BNEZC", m, i) = E!BNEZC(m, i)
           /\ Interpret("BLEZALC", r, i) = I!BLEZALC(r, i) /\ Emitted("BLEZALC", m, i) = E!BLEZALC(m, i)
           /\ Interpret("BGTZALC", r, i) = I!BGTZALC(r, i) /\ Emitted("BGTZALC", m, i) = E!BGTZALC(m, i)
           /\ Interpret("BLEZC", r, i) = I!BLEZC(r, i) /\ Emitted("BLEZC", m, i) = E!BLEZC(m, i)
           /\ Interpret("BGTZC", r, i) = I!BGTZC(r, i) /\ Emitted("BGTZC", m, i) = E!BGTZC(m, i)
           /\ Interpret("POP06", r, i) = I!POP06(r, i) /\ Emitted("POP06", m, i) = E!POP06(m, i)
           /\ Interpret("POP07", r, i) = I!POP07(r, i) /\ Emitted("POP07", m, i) = E!POP07(m, i)
           /\ Interpret("POP10", r, i) = I!POP10(r, i) /\ Emitted("POP10", m, i) = E!POP10(m, i)
           /\ Interpret("POP26", r, i) = I!POP26(r, i) /\ Emitted("POP26", m, i) = E!POP26(m, i)
           /\ Interpret("POP27", r, i) = I!POP27(r, i) /\ Emitted("POP27", m, i) = E!POP27(m, i)
           /\ Interpret("POP30", r, i) = I!POP30(r, i) /\ Emitted("POP30", m, i) = E!POP30(m, i)
BY SMTT(100) DEF Interpret, Emitted, NotEmitted, RequiresCoP0, OfPc

(* The same, for the rest of what is emitted. *)
LEMMA SystemDispatch ==
    ASSUME NEW r, NEW m, NEW i
    PROVE  /\ Interpret("EHB", r, i) = I!EHB(r, i) /\ Emitted("EHB", m, i) = E!EHB(m, i)
           /\ Interpret("SYNC", r, i) = I!SYNC(r, i) /\ Emitted("SYNC", m, i) = E!SYNC(m, i)
           /\ Interpret("BREAK", r, i) = I!BREAK(r, i) /\ Emitted("BREAK", m, i) = E!BREAK(m, i)
           /\ Interpret("SIGRIE", r, i) = I!SIGRIE(r, i) /\ Emitted("SIGRIE", m, i) = E!SIGRIE(m, i)
BY SMTT(30) DEF Interpret, Emitted, NotEmitted, RequiresCoP0, OfPc

-------------------------------------------------------------------------------
(* All instructions *)
Operations ==
    Arithmetic \cup WithImmediate \cup {"MOVE", "LSA", "ALIGN", "RDHWR", "JR", "JALR"}
    \cup Shifts \cup Fields \cup OfRt \cup OfRs \cup OfPc \cup Traps \cup Compares
    \cup TestsRs \cup TestsRt \cup Jumps \cup Implied \cup Hints \cup RequiresCoP0

Fits(op, i) ==
    /\ op # "RDHWR" => i.rd \in Register
    /\ i.rs \in Register /\ i.rt \in Register
    /\ i.sa \in 0 .. Bits - 1
    /\ op = "LSA" => i.sa \in 0 .. 3
    /\ i.msb \in 0 .. Bits - 1 /\ i.imm \in Half

(* The sorts of instructions give every operation operands it can have. *)
LEMMA OperandsFit ==
    ASSUME NEW sort \in Sorts, NEW op \in sort[1], NEW i \in sort[2]
    PROVE  op \in Operations /\ Fits(op, i)
<1>1. /\ 0 \in Register /\ 31 \in Register /\ Operand \subseteq Register
      /\ 0 \in 0 .. Bits - 1 /\ 0 .. 3 \subseteq 0 .. Bits - 1 /\ 0 .. 1 \subseteq 0 .. Bits - 1
  BY RegistersHaveZero, SideBySideAssumption, PowersOfWord
<1>2. 0 \in Half
  <2>1. CASE Bits = 4
    BY <2>1 DEF Half
  <2>2. CASE Bits = 8
    BY <2>2 DEF Half
  <2>3. CASE Bits = 16
    BY <2>3 DEF Half
  <2>4. CASE Bits = 32
    BY <2>4 DEF Half
  <2> QED
    BY <2>1, <2>2, <2>3, <2>4, WordsAssumption
<1> DEFINE amounts == 0 .. Bits - 1
<1>3. \/ sort = <<Arithmetic, Instruction(Operand, Operand, Operand, {0}, {0}, {0})>>
      \/ sort = <<WithImmediate, Instruction({0}, Operand, Operand, {0}, {0}, Half)>>
      \/ sort = <<{"MOVE"}, Instruction({0}, Operand, Operand, {0}, {0}, {0})>>
      \/ sort = <<{"LSA", "ALIGN"}, Instruction(Operand, Operand, Operand, 0 .. 3, {0}, {0})>>
      \/ sort = <<Shifts, Instruction(Operand, {0}, Operand, amounts, {0}, {0})>>
      \/ sort = <<Fields, Instruction({0}, Operand, Operand, amounts, amounts, {0})>>
      \/ sort = <<OfRt, Instruction(Operand, {0}, Operand, {0}, {0}, {0})>>
      \/ sort = <<OfRs, Instruction(Operand, Operand, {0}, {0}, {0}, {0})>>
      \/ sort = <<OfPc, Instruction({0}, Operand, {0}, {0}, {0}, Half)>>
      \/ sort = <<{"RDHWR"}, Instruction({0, 1, 2, 3, 4, 5, 29}, {0}, Operand, {0}, {0}, {0})>>
      \/ sort = <<Traps, Instruction({0}, Operand, Operand, 0 .. 1, {0}, {0})>>
      \/ sort = <<Compares, Instruction({0}, Operand, Operand, {0}, {0}, Half)>>
      \/ sort = <<TestsRs, Instruction({0}, Operand, {0}, {0}, {0}, Half)>>
      \/ sort = <<{"JR"}, Instruction({0}, Operand, {0}, {0}, {0}, {0})>>
      \/ sort = <<{"JALR"}, Instruction(Operand, Operand, {0}, {0}, {0}, {0})>>
      \/ sort = <<TestsRt, Instruction({0}, {0}, Operand \cup {31}, {0}, {0}, Half)>>
      \/ sort = <<Jumps, Instruction({0}, {0}, {0}, {0}, {0}, Half)>>
      \/ sort = <<Implied, Instruction({0}, {0}, {0}, 0 .. 1, {0}, {0})>>
      \/ sort = <<Hints \cup RequiresCoP0, Instruction({0}, {0}, {0}, {0}, {0}, {0})>>
  BY DEF Sorts, ra
<1>4. op \in Operations
  BY <1>3 DEF Operations
<1>5. op \in {"RDHWR", "LSA"} =>
        \/ sort = <<{"RDHWR"}, Instruction({0, 1, 2, 3, 4, 5, 29}, {0}, Operand, {0}, {0}, {0})>>
        \/ sort = <<{"LSA", "ALIGN"}, Instruction(Operand, Operand, Operand, 0 .. 3, {0}, {0})>>
  BY <1>3
     DEF Arithmetic, WithImmediate, Shifts, Fields, OfRt, OfRs, OfPc, Traps, Compares, TestsRs,
         TestsRt, Jumps, Implied, Hints, RequiresCoP0
<1>6. ASSUME NEW rd, NEW rs \in SUBSET Register, NEW rt \in SUBSET Register,
             NEW sa \in SUBSET amounts, NEW msb \in SUBSET amounts, NEW imm \in SUBSET Half,
             sort[2] = Instruction(rd, rs, rt, sa, msb, imm)
      PROVE  /\ i.rd \in rd /\ i.rs \in Register /\ i.rt \in Register
             /\ i.sa \in sa /\ i.sa \in amounts /\ i.msb \in amounts /\ i.imm \in Half
  <2>1. i \in Instruction(rd, rs, rt, sa, msb, imm)
    BY <1>6
  <2>2. i.rd \in rd /\ i.rs \in rs /\ i.rt \in rt /\ i.sa \in sa /\ i.msb \in msb /\ i.imm \in imm
    BY <2>1 DEF Instruction
  <2> QED
    BY <2>2
<1>7. /\ {0} \in SUBSET Register /\ Operand \in SUBSET Register
      /\ Operand \cup {31} \in SUBSET Register /\ {0} \in SUBSET amounts
      /\ 0 .. 1 \in SUBSET amounts /\ 0 .. 3 \in SUBSET amounts
      /\ amounts \in SUBSET amounts /\ {0} \in SUBSET Half /\ Half \in SUBSET Half
  BY <1>1, <1>2
<1> HIDE DEF amounts
<1>8. /\ i.rs \in Register /\ i.rt \in Register /\ i.sa \in amounts
      /\ i.msb \in amounts /\ i.imm \in Half
  BY <1>3, <1>6, <1>7
<1>9. op # "RDHWR" => i.rd \in {0} \/ i.rd \in Operand
  BY <1>3, <1>6, <1>7
<1>10. op = "LSA" => i.sa \in 0 .. 3
  BY <1>5, <1>6, <1>7
<1> QED
  BY <1>1, <1>4, <1>8, <1>9, <1>10 DEF Fits, amounts

(* Without a coprocessor 0 the rest raises. *)
LEMMA PrivilegedRaise ==
    ASSUME NEW r, NEW m, NEW op \in RequiresCoP0, NEW i
    PROVE  Interpret(op, r, i) = I!Raise(r, "CpU") /\ Emitted(op, m, i) = E!Raise(m, "CpU")
<1>1. /\ Interpret("COP0", r, i) = I!Raise(r, "CpU")
      /\ Interpret("CACHEE", r, i) = I!Raise(r, "CpU")
      /\ Interpret("GINVI", r, i) = I!Raise(r, "CpU")
      /\ Interpret("LBE", r, i) = I!Raise(r, "CpU")
      /\ Interpret("LBUE", r, i) = I!Raise(r, "CpU")
      /\ Interpret("LHE", r, i) = I!Raise(r, "CpU")
  BY SMTT(30) DEF Interpret, I!Coprocessor0, I!CACHEE, I!GINVI, I!LBE, I!LBUE, I!LHE
<1>2. /\ Interpret("LHUE", r, i) = I!Raise(r, "CpU")
      /\ Interpret("LWE", r, i) = I!Raise(r, "CpU")
      /\ Interpret("LLE", r, i) = I!Raise(r, "CpU")
      /\ Interpret("LLWPE", r, i) = I!Raise(r, "CpU")
      /\ Interpret("PREFE", r, i) = I!Raise(r, "CpU")
      /\ Interpret("SBE", r, i) = I!Raise(r, "CpU")
  BY SMTT(30) DEF Interpret, I!Coprocessor0, I!LHUE, I!LWE, I!LLE, I!LLWPE, I!PREFE, I!SBE
<1>3. /\ Interpret("SHE", r, i) = I!Raise(r, "CpU")
      /\ Interpret("SWE", r, i) = I!Raise(r, "CpU")
      /\ Interpret("SCE", r, i) = I!Raise(r, "CpU")
      /\ Interpret("SCWPE", r, i) = I!Raise(r, "CpU")
      /\ Interpret("WAIT", r, i) = I!Raise(r, "CpU")
  BY SMTT(30) DEF Interpret, I!Coprocessor0, I!SHE, I!SWE, I!SCE, I!SCWPE, I!WAIT
<1>4. /\ Emitted("COP0", m, i) = Raise(m, "CpU")
      /\ Emitted("CACHEE", m, i) = Raise(m, "CpU")
      /\ Emitted("GINVI", m, i) = Raise(m, "CpU")
      /\ Emitted("LBE", m, i) = Raise(m, "CpU")
  BY SMTT(30) DEF Emitted, NotEmitted, RequiresCoP0, OfPc
<1>5. /\ Emitted("LBUE", m, i) = Raise(m, "CpU")
      /\ Emitted("LHE", m, i) = Raise(m, "CpU")
      /\ Emitted("LHUE", m, i) = Raise(m, "CpU")
      /\ Emitted("LWE", m, i) = Raise(m, "CpU")
  BY SMTT(30) DEF Emitted, NotEmitted, RequiresCoP0, OfPc
<1>6. /\ Emitted("LLE", m, i) = Raise(m, "CpU")
      /\ Emitted("LLWPE", m, i) = Raise(m, "CpU")
      /\ Emitted("PREFE", m, i) = Raise(m, "CpU")
      /\ Emitted("SBE", m, i) = Raise(m, "CpU")
  BY SMTT(30) DEF Emitted, NotEmitted, RequiresCoP0, OfPc
<1>7. /\ Emitted("SHE", m, i) = Raise(m, "CpU")
      /\ Emitted("SWE", m, i) = Raise(m, "CpU")
      /\ Emitted("SCE", m, i) = Raise(m, "CpU")
      /\ Emitted("SCWPE", m, i) = Raise(m, "CpU")
      /\ Emitted("WAIT", m, i) = Raise(m, "CpU")
  BY SMTT(30) DEF Emitted, NotEmitted, RequiresCoP0, OfPc
<1>8. Raise(m, "CpU") = E!Raise(m, "CpU")
  BY DEF Raise, E!Raise, Ended, E!Ended
<1> QED
  BY <1>1, <1>2, <1>3, <1>4, <1>5, <1>6, <1>7, <1>8 DEF RequiresCoP0

(* Both engines raise for what needs coprocessor 0. *)
LEMMA PrivilegedAlike ==
    ASSUME NEW m, NEW r, Agreed(m, r), NEW op \in RequiresCoP0, NEW i
    PROVE  Alike(Interpret(op, r, i), Emitted(op, m, i), r)
BY PrivilegedRaise, RaiseAlike

(* All instructions that do not access memory: what is not listed as a       *)
(* difference is alike.                                                      *)
LEMMA InstructionsAlike ==
    ASSUME NEW m, NEW r, Agreed(m, r), NEW op \in Operations, NEW i, Fits(op, i),
           Decodes(op, i), Defined(op, i), ~Differs(op, i, r)
    PROVE  Alike(Interpret(op, r, i), Emitted(op, m, i), r)
<1>1. /\ ~OverflowLost(op, i, r) /\ ~SourceOverwritten(op, i) /\ ~NoSuchEncoding(op, i)
      /\ ~FrameNotShared(op, i) /\ ~HardwareRegisters(op, i) /\ ~ExtractsNothing(op, i)
      /\ ~InsertsIntoItself(op, i) /\ ~CountsFromTheBottom(op, i) /\ ~LinkFirst(op, i)
      /\ ~UnsignedAsSigned(op, i, r) /\ ~OverflowAsCarry(op, i, r)
      /\ ~NotZeroAndLink(op, i) /\ op # "SIGRIE"
  BY DEF Differs
<1>2. CASE op = "RDHWR"
  BY <1>1, <1>2, ImmediateDispatch, HardwareRegisterAlike DEF Fits
<1>3. op # "RDHWR" => Names(i)
  BY DEF Fits, Names
<1>4. /\ i.sa \in 0 .. Bits - 1 /\ i.msb \in 0 .. Bits - 1 /\ i.imm \in Half
      /\ op = "LSA" => i.sa \in 0 .. 3
      /\ op \in {"BEQZC", "BNEZC"} => i.rs # 0
      /\ op \in {"BLEZALC", "BGTZALC"} => i.rt # 0
  BY DEF Fits, Decodes
<1>5. CASE op \in {"ADD", "SUB", "ADDU", "SUBU", "MUL", "MUH", "MULU", "MUHU", "DIV",
                "MOD", "DIVU", "MODU"}
  BY <1>1, <1>3, <1>4, <1>5, ArithmeticDispatch, AddAlike, SubAlike, AddsAlike,
     SubtractsAlike, ProductsAlike, SignedDivisionsAlike, DivisionsAlike
<1>6. CASE op \in {"AND", "OR", "NOR", "XOR", "SLT", "SLTU", "SELEQZ", "SELNEZ", "SLLV",
                "SRLV"}
  BY <1>1, <1>3, <1>4, <1>6, LogicDispatch, LogicAlike, ComparisonsAlike,
     SelectsAlike, VariableShiftsAlike
<1>7. CASE op \in {"ADDIU", "AUI", "MOVE", "ANDI", "ORI", "XORI", "SLTI", "SLTIU"}
  BY <1>1, <1>3, <1>4, <1>7, ImmediateDispatch, AddsImmediateAlike,
     LogicImmediateAlike, ImmediateComparisonsAlike
<1>8. CASE op \in {"LSA", "SLL", "SRL", "SRA", "EXT", "INS", "SEB", "SEH", "CLZ", "CLO"}
  BY <1>1, <1>3, <1>4, <1>8, ImmediateDispatch, ShiftAndAddAlike, ShiftsAlike,
     ExtractAlike, InsertAlike, CountsAlike
<1>9. CASE op \in {"TEQ", "TGE", "TGEU", "TLT", "TLTU", "TNE"}
  BY <1>1, <1>3, <1>4, <1>9, TrapDispatch, TrapsAlike
<1>10. CASE op \in {"BEQ", "BNE", "BGEZ", "BGTZ", "BLEZ", "BLTZ", "BAL", "J", "JAL", "JR",
                "JALR"}
  BY <1>1, <1>3, <1>4, <1>10, BranchDispatch, BranchesAlike, JumpsAlike,
     RegisterJumpsAlike
<1>11. CASE op \in {"BC", "BALC", "JIC", "JIALC", "BEQZC", "BNEZC", "BLEZALC", "BGTZALC",
                "BLEZC", "BGTZC", "POP06", "POP07", "POP10", "POP26",
                "POP27", "POP30"}
  BY <1>1, <1>3, <1>4, <1>11, CompactDispatch, JumpsAlike, IndexedJumpsAlike,
     CompactBranchesAlike, PopComparesAlike, PopOverflowsAlike
<1>12. CASE op \in NotEmitted
  <2>1. Names(i)
    BY <1>3, <1>12 DEF NotEmitted, OfPc
  <2> QED
    BY <1>1, <1>12, <2>1, CalledInstructionsAlike
<1>13. CASE op \in {"EHB", "SYNC", "BREAK"}
  BY <1>13, SystemDispatch, RaiseAlike, EndAlike
  DEF I!EHB, E!EHB, I!SYNC, E!SYNC, I!BREAK, E!BREAK, E!Nop
<1>14. CASE op = "NOP"
  <2>1. Interpret(op, r, i) = I!Continue(r) /\ Emitted(op, m, i) = E!Continue(m)
    BY <1>14 DEF Interpret, Emitted, NotEmitted, RequiresCoP0, OfPc, I!NOP,
        Continue, E!Continue, Ended, E!Ended
  <2> QED
    BY <2>1, EndAlike
<1>15. CASE op \in RequiresCoP0
  BY <1>15, PrivilegedAlike
<1> QED
  BY <1>2, <1>5, <1>6, <1>7, <1>8, <1>9, <1>10, <1>11, <1>12, <1>13, <1>14, <1>15, <1>1
  DEF Operations, Arithmetic, WithImmediate, Shifts, Fields, OfRt, OfRs, Traps,
     Compares,
      TestsRs, TestsRt, Jumps, Implied, Hints, NotEmitted

-------------------------------------------------------------------------------
(* Where the engines differ each of them still undoes what raises. *)
Undoes(interpreted, emitted, m, r) ==
    /\ interpreted.out[1] = "raise" => interpreted.regs = r
    /\ emitted.out[1] = "raise" => View(emitted.regs) = View(m)

(* What is alike undoes alike. *)
LEMMA AlikeUndoes ==
    ASSUME NEW m, NEW r, Agreed(m, r), NEW interpreted, NEW emitted,
           Alike(interpreted, emitted, r)
    PROVE  Undoes(interpreted, emitted, m, r)
BY DEF Alike, Undoes, Agreed

(* Where an overflow is lost, nothing was written. *)
LEMMA OverflowUndoes ==
    ASSUME NEW m, NEW r, NEW i, i.rd = 0, NEW op \in {"ADD", "SUB", "DIV", "MOD"}
    PROVE  /\ Undoes(Interpret(op, r, i), Emitted(op, m, i), m, r)
           /\ Interpret(op, r, i).regs = r
<1>1. /\ E!ADD(m, i).out = <<"next">> /\ E!SUB(m, i).out = <<"next">>
      /\ E!DIV(m, i).out = <<"next">> /\ E!MOD(m, i).out = <<"next">>
  BY DEF E!ADD, E!SUB, E!DIV, E!MOD, E!Nop, E!Continue, E!Ended
<1>2. /\ I!ADD(r, i).regs = r /\ I!SUB(r, i).regs = r
      /\ I!DIV(r, i).regs = r /\ I!MOD(r, i).regs = r
  BY DEF I!ADD, I!SUB, I!DIV, I!MOD, I!Write, I!Set, I!Raise, I!Continue, I!Ended
<1> QED
  BY <1>1, <1>2, ArithmeticDispatch DEF Undoes

(* Instructions that never raise *)
LEMMA WritesNeverRaise ==
    ASSUME NEW m, NEW r, NEW i,
           NEW op \in {"SUBU", "AND", "OR", "NOR", "SELEQZ", "SELNEZ", "LSA", "SLTI",
                       "SLTIU", "EXT", "INS", "CLZ", "CLO"}
    PROVE  Undoes(Interpret(op, r, i), Emitted(op, m, i), m, r)
<1>1. \A regs, d, v : I!Write(regs, d, v).out = <<"next">>
  BY DEF I!Write, I!Continue, I!Ended
<1>2. /\ I!SUBU(r, i).out = <<"next">> /\ I!AND(r, i).out = <<"next">>
      /\ I!OR(r, i).out = <<"next">> /\ I!NOR(r, i).out = <<"next">>
      /\ I!SELEQZ(r, i).out = <<"next">> /\ I!SELNEZ(r, i).out = <<"next">>
      /\ I!LSA(r, i).out = <<"next">> /\ I!SLTI(r, i).out = <<"next">>
      /\ I!SLTIU(r, i).out = <<"next">> /\ I!EXT(r, i).out = <<"next">>
      /\ I!INS(r, i).out = <<"next">> /\ I!CLZ(r, i).out = <<"next">>
      /\ I!CLO(r, i).out = <<"next">>
  BY <1>1 DEF I!SUBU, I!AND, I!OR, I!NOR, I!SELEQZ, I!SELNEZ, I!LSA, I!SLTI, I!SLTIU,
              I!EXT, I!INS, I!CLZ, I!CLO
<1>3. /\ \A n, d, v : E!Result(n, d, v).out = <<"next">>
      /\ \A n : E!Nop(n).out = <<"next">> /\ E!Continue(n).out = <<"next">>
      /\ \A n : E!Refused(n).out = <<"not emitted">>
  BY DEF E!Result, E!Nop, E!Refused, E!Continue, E!Ended
<1> DEFINE Quiet(e) == e.out \in {<<"next">>, <<"not emitted">>}
<1>4. Quiet(E!SUBU(m, i)) /\ Quiet(E!AND(m, i)) /\ Quiet(E!OR(m, i))
  BY <1>3 DEF E!SUBU, E!AND, E!OR, E!Move, E!Accumulate
<1>5. Quiet(E!NOR(m, i))
  BY <1>3 DEF E!NOR, E!Accumulate
<1>6. Quiet(E!SELEQZ(m, i)) /\ Quiet(E!SELNEZ(m, i)) /\ Quiet(E!LSA(m, i))
  BY <1>3 DEF E!SELEQZ, E!SELNEZ, E!LSA, E!Mask, E!Move
<1>7. Quiet(E!SLTI(m, i)) /\ Quiet(E!SLTIU(m, i)) /\ Quiet(E!EXT(m, i)) /\ Quiet(E!INS(m, i))
  <2>1. Quiet(E!SLTI(m, i))
    BY <1>3 DEF E!SLTI
  <2>2. Quiet(E!SLTIU(m, i))
    BY <1>3 DEF E!SLTIU
  <2>3. Quiet(E!EXT(m, i))
    BY <1>3 DEF E!EXT
  <2>4. Quiet(E!INS(m, i))
    BY <1>3 DEF E!INS
  <2> QED
    BY <2>1, <2>2, <2>3, <2>4
<1>8. Quiet(E!CLZ(m, i)) /\ Quiet(E!CLO(m, i))
  BY <1>3 DEF E!CLZ, E!CLO, E!Unary
<1>9. \A e : Quiet(e) => e.out[1] # "raise"
  <2>1. <<"next">>[1] # "raise" /\ <<"not emitted">>[1] # "raise"
    OBVIOUS
  <2>2. \A how \in {<<"next">>, <<"not emitted">>} : how[1] # "raise"
    BY <2>1
  <2> QED
    BY <2>2
<1> HIDE DEF Quiet
<1>10. Quiet(Emitted(op, m, i))
  BY <1>4, <1>5, <1>6, <1>7, <1>8, ArithmeticDispatch, LogicDispatch, ImmediateDispatch
<1>11. Interpret(op, r, i).out[1] # "raise"
  BY <1>2, ArithmeticDispatch, LogicDispatch, ImmediateDispatch
<1> QED
  BY <1>9, <1>10, <1>11 DEF Undoes

(* Also RDHWR, SIGRIE and the jumps through a register. *)
LEMMA SystemUndoes ==
    ASSUME NEW m, NEW r, NEW i, NEW op \in {"RDHWR", "SIGRIE", "JIALC", "JALR"}
    PROVE  Undoes(Interpret(op, r, i), Emitted(op, m, i), m, r)
<1>1. \A x, d, v : I!Write(x, d, v).out[1] # "raise"
  BY DEF I!Write, I!Continue, I!Ended
<1>2. \A x, d, v : E!Result(x, d, v).out[1] # "raise"
  BY DEF E!Result, E!Continue, E!Ended
<1>3. CASE op = "RDHWR"
  <2>1. I!RDHWR(r, i).out[1] = "raise" => I!RDHWR(r, i).regs = r
    <3>1. CASE i.rd \in {0, 1, 2, 3, 5, 29}
      BY <1>1, <3>1 DEF I!RDHWR
    <3>2. CASE i.rd \notin {0, 1, 2, 3, 5, 29}
      BY <3>2 DEF I!RDHWR, I!Raise, I!Ended
    <3> QED
      BY <3>1, <3>2
  <2>2. E!RDHWR(m, i).out[1] = "raise" => E!RDHWR(m, i).regs = m
    <3>1. CASE i.rd \in {1, 29}
      BY <1>2, <3>1 DEF E!RDHWR
    <3>2. CASE i.rd \notin {1, 29}
      BY <3>2 DEF E!RDHWR, E!Raise, E!Ended
    <3> QED
      BY <3>1, <3>2
  <2> QED
    BY <1>3, <2>1, <2>2, ImmediateDispatch DEF Undoes
<1>4. CASE op = "SIGRIE"
  <2>1. I!SIGRIE(r, i).regs = r /\ E!SIGRIE(m, i).regs = m
    BY DEF I!SIGRIE, E!SIGRIE, I!Coded, I!Ended, E!Ended
  <2> QED
    BY <1>4, <2>1, SystemDispatch DEF Undoes
<1>5. CASE op = "JIALC"
  <2>1. I!JIALC(r, i).out[1] # "raise" /\ E!JIALC(m, i).out[1] # "raise"
    BY DEF I!JIALC, E!JIALC, I!CompactBranch, E!CompactBranch, I!Ended, E!Ended
  <2> QED
    BY <1>5, <2>1, CompactDispatch DEF Undoes
<1>6. CASE op = "JALR"
  <2>1. I!JALR(r, i).out[1] # "raise" /\ E!JALR(m, i).out[1] # "raise"
    BY DEF I!JALR, E!JALR, I!DelayBranch, E!DelayBranch, I!Ended, E!Ended
  <2> QED
    BY <1>6, <2>1, BranchDispatch DEF Undoes
<1> QED
  BY <1>3, <1>4, <1>5, <1>6

(* A branch that compares raises only for operands it may not have. *)
LEMMA PopsUndo ==
    ASSUME NEW m, NEW r, NEW i, NEW op \in {"POP06", "POP07", "POP10", "POP30"},
           i.rs \in Nat, i.rt \in Nat
    PROVE  /\ Undoes(Interpret(op, r, i), Emitted(op, m, i), m, r)
           /\ op \in {"POP10", "POP30"} /\ i.rs >= i.rt => Interpret(op, r, i).regs = r
           /\ op \in {"POP06", "POP07"} /\ i.rs # i.rt => Interpret(op, r, i).regs = r
<1> DEFINE Holds(e, x) == e.out[1] = "raise" => e.regs = x
<1>1. /\ Holds(I!POP06(r, i), r) /\ Holds(E!POP06(m, i), m)
      /\ i.rs # i.rt => I!POP06(r, i).regs = r
  BY DEF I!POP06, I!Raise, I!LinkIf, I!CompactIf, I!CompactBranch, I!NoCTI, I!Ended,
         E!POP06, E!Raise, E!LinkIf, E!CompactIf, E!CompactBranch, E!NoCTI, E!Ended
<1>2. /\ Holds(I!POP07(r, i), r) /\ Holds(E!POP07(m, i), m)
      /\ i.rs # i.rt => I!POP07(r, i).regs = r
  BY DEF I!POP07, I!Raise, I!LinkIf, I!CompactIf, I!CompactBranch, I!NoCTI, I!Ended,
         E!POP07, E!Raise, E!LinkIf, E!CompactIf, E!CompactBranch, E!NoCTI, E!Ended
<1>3. /\ Holds(I!POP10(r, i), r) /\ Holds(E!POP10(m, i), m)
      /\ i.rs >= i.rt => I!POP10(r, i).regs = r
  BY DEF I!POP10, I!Raise, I!LinkIf, I!CompactIf, I!CompactBranch, I!NoCTI, I!Ended,
         E!POP10, E!Raise, E!LinkIf, E!CompactIf, E!CompactBranch, E!NoCTI, E!Ended
<1>4. /\ Holds(I!POP30(r, i), r) /\ Holds(E!POP30(m, i), m)
      /\ i.rs >= i.rt => I!POP30(r, i).regs = r
  BY DEF I!POP30, I!Raise, I!LinkIf, I!CompactIf, I!CompactBranch, I!NoCTI, I!Ended,
         E!POP30, E!Raise, E!LinkIf, E!CompactIf, E!CompactBranch, E!NoCTI, E!Ended
<1> QED
  BY <1>1, <1>2, <1>3, <1>4, CompactDispatch DEF Undoes

(* A called handler that raises has set nothing. *)
LEMMA CalledUndoes ==
    ASSUME NEW m, NEW r, Agreed(m, r), NEW i, NEW op \in NotEmitted
    PROVE  Undoes(Interpret(op, r, i), Emitted(op, m, i), m, r)
<1>1. ASSUME NEW x
      PROVE  Interpret(op, x, i).out[1] = "raise" => Interpret(op, x, i).regs = x
  <2>1. \A d, v : I!Write(x, d, v).out[1] # "raise"
    BY DEF I!Write, I!Continue, I!Ended
  <2>2. CASE op \in {"ROTR", "ROTRV", "SRAV", "ALIGN", "BITSWAP", "WSBH"} \cup OfPc
    <3> DEFINE Quiet(e) == e.out[1] # "raise"
    <3>1. /\ Quiet(I!ROTR(x, i)) /\ Quiet(I!ROTRV(x, i)) /\ Quiet(I!SRAV(x, i))
          /\ Quiet(I!ALIGN(x, i)) /\ Quiet(I!ADDIUPC(x, i)) /\ Quiet(I!AUIPC(x, i))
      BY <2>1 DEF I!ROTR, I!ROTRV, I!SRAV, I!ALIGN, I!ADDIUPC, I!AUIPC
    <3>2. Quiet(I!BITSWAP(x, i)) /\ Quiet(I!WSBH(x, i)) /\ Quiet(I!ALUIPC(x, i))
      BY <2>1 DEF I!BITSWAP, I!WSBH, I!ALUIPC
    <3>3. Quiet(Interpret(op, x, i))
      <4> HIDE DEF Quiet
      <4> QED
        BY <2>2, <3>1, <3>2, CalledInterpreted DEF OfPc
    <3> QED
      BY <3>3
  <2>3. CASE op \in {"NAL", "SYNCI", "SDBBP", "SSNOP", "PAUSE", "PREF", "COP2"}
    <3>1. I!NAL(x, i).out[1] # "raise"
      BY DEF I!NAL, I!NoCTI, I!Ended
    <3>2. /\ I!SYNCI(x, i).regs = x /\ I!SDBBP(x, i).regs = x /\ I!SSNOP(x, i).regs = x
          /\ I!PAUSE(x, i).regs = x /\ I!PREF(x, i).regs = x /\ I!Coprocessor2(x, i).regs = x
      BY DEF I!SYNCI, I!SDBBP, I!SSNOP, I!PAUSE, I!PREF, I!Coprocessor2,
             I!Continue, I!Coded, I!Raise, I!Ended
    <3> QED
      BY <2>3, <3>1, <3>2, CalledInterpreted
  <2> QED
    BY <2>2, <2>3 DEF NotEmitted
<1> DEFINE done == Interpret(op, m.slot, i)
           slots == [done.regs EXCEPT ![0] = 0]
           after == [m EXCEPT !.slot = slots]
<1>2. Emitted(op, m, i).regs = after /\ Emitted(op, m, i).out = done.out
  BY CalledEmitted DEF Called, Ended
<1>3. ASSUME done.out[1] = "raise"
      PROVE  View(after) = View(m)
  <2>1. done.regs = m.slot
    BY <1>1, <1>3
  <2>2. m.slot \in [Register -> Word] /\ m.slot[0] = 0 /\ 0 \in Register
    BY SlotsAre, RegistersHaveZero
  <2>3. slots = m.slot
    BY <2>1, <2>2
  <2>4. after.slot = m.slot /\ after.r15d = m.r15d
    BY <2>3 DEF Agreed
  <2> QED
    BY <2>4 DEF View
<1> HIDE DEF done, after
<1> QED
  BY <1>1, <1>2, <1>3 DEF Undoes

(* Also the listed differences undo what they raise on, and are differences  *)
(* still when they are looked at afterwards.                                 *)
LEMMA DifferingInstructions ==
    ASSUME NEW m, NEW r, Agreed(m, r), NEW op \in Operations, NEW i, Fits(op, i),
           Differs(op, i, r)
    PROVE  /\ Undoes(Interpret(op, r, i), Emitted(op, m, i), m, r)
           /\ Differs(op, i, Interpret(op, r, i).regs)
<1>1. i.rs \in Nat /\ i.rt \in Nat
  <2>1. \A x \in Register : x \in 0 .. 31
    BY RegistersHaveZero
  <2> QED
    BY <2>1 DEF Fits
<1>2. CASE OverflowLost(op, i, r)
  BY <1>2, OverflowUndoes DEF OverflowLost
<1>3. CASE UnsignedAsSigned(op, i, r)
  BY <1>1, <1>3, PopsUndo DEF UnsignedAsSigned
<1>4. CASE OverflowAsCarry(op, i, r)
  BY <1>1, <1>4, PopsUndo DEF OverflowAsCarry
<1>5. CASE SourceOverwritten(op, i) \/ NoSuchEncoding(op, i)
  <2>1. op \in {"SUBU", "AND", "OR", "NOR", "SELEQZ", "SELNEZ", "LSA", "SLTI", "SLTIU"}
    BY <1>5 DEF SourceOverwritten, NoSuchEncoding
  <2> QED
    BY <1>5, <2>1, WritesNeverRaise DEF Differs
<1>6. CASE ExtractsNothing(op, i) \/ InsertsIntoItself(op, i) \/ CountsFromTheBottom(op, i)
  <2>1. op \in {"EXT", "INS", "CLZ", "CLO"}
    BY <1>6 DEF ExtractsNothing, InsertsIntoItself, CountsFromTheBottom, OfRs
  <2> QED
    BY <1>6, <2>1, WritesNeverRaise DEF Differs
<1>7. CASE FrameNotShared(op, i)
  <2>1. op \in NotEmitted
    BY <1>7 DEF FrameNotShared
  <2> QED
    BY <1>7, <2>1, CalledUndoes DEF Differs
<1>8. CASE HardwareRegisters(op, i) \/ LinkFirst(op, i) \/ op = "SIGRIE"
  <2>1. op \in {"RDHWR", "JIALC", "JALR", "SIGRIE"}
    BY <1>8 DEF HardwareRegisters, LinkFirst
  <2> QED
    BY <1>8, <2>1, SystemUndoes DEF Differs
<1>9. CASE NotZeroAndLink(op, i)
  <2>1. op = "POP30"
    BY <1>9 DEF NotZeroAndLink
  <2> QED
    BY <1>1, <1>9, <2>1, PopsUndo DEF Differs
<1>10. Differs(op, i, r) => \/ OverflowLost(op, i, r) \/ UnsignedAsSigned(op, i, r)
                            \/ OverflowAsCarry(op, i, r)
                            \/ SourceOverwritten(op, i) \/ NoSuchEncoding(op, i)
                            \/ ExtractsNothing(op, i) \/ InsertsIntoItself(op, i)
                            \/ CountsFromTheBottom(op, i) \/ FrameNotShared(op, i)
                            \/ HardwareRegisters(op, i) \/ LinkFirst(op, i)
                            \/ op = "SIGRIE" \/ NotZeroAndLink(op, i)
  BY DEF Differs
<1> QED
  BY <1>2, <1>3, <1>4, <1>5, <1>6, <1>7, <1>8, <1>9, <1>10

(* What one instruction from each engine leaves, wherever they agreed. *)
LEMMA InstructionsEnd ==
    ASSUME NEW m, NEW r, Agreed(m, r), NEW op \in Operations, NEW i, Fits(op, i),
           Decodes(op, i), Defined(op, i)
    PROVE  /\ Undoes(Interpret(op, r, i), Emitted(op, m, i), m, r)
           /\ \/ Differs(op, i, Interpret(op, r, i).regs)
              \/ Alike(Interpret(op, r, i), Emitted(op, m, i), r)
BY InstructionsAlike, AlikeUndoes, DifferingInstructions

-------------------------------------------------------------------------------
(* Loads and stores: one meaning of memory, whichever module speaks *)
LEMMA SharedAddresses ==
    ASSUME NEW c, NEW x, NEW n, NEW i
    PROVE  /\ IM!Wrap(x) = Wrap(x) /\ EM!Wrap(x) = Wrap(x) /\ AD!Wrap(x) = Wrap(x)
           /\ IM!Signed(x) = Signed(x) /\ EM!Signed(x) = Signed(x)
           /\ IM!Offset(i) = Offset(i) /\ EM!Offset(i) = Offset(i) /\ AD!Offset(i) = Offset(i)
           /\ IM!Address(x, i) = Wrap(x + Offset(i)) /\ EM!Address(x, i) = Wrap(x + Offset(i))
           /\ IM!PlaceOf(c, x) = Wrap(x + c.stack) /\ EM!PlaceOf(c, x) = Wrap(x + c.stack)
           /\ AD!PlaceOf(c, x) = Wrap(x + c.stack)
           /\ IM!InRange(x, n) <=> x + n <= MemorySize
           /\ EM!InRange(x, n) <=> x + n <= MemorySize
           /\ AD!InRange(x, n) <=> x + n <= MemorySize
           /\ IM!TouchesZero(x, n) <=> Signed(x) \in -(n - 1) .. 0
           /\ AD!TouchesZero(x, n) <=> Signed(x) \in -(n - 1) .. 0
BY DEF IM!Wrap, EM!Wrap, AD!Wrap, Wrap, IM!Signed, EM!Signed, AD!Signed, Signed,
       IM!Top, EM!Top, AD!Top, Top, IM!Offset, EM!Offset, AD!Offset, Offset,
       IM!SignedField, EM!SignedField, AD!SignedField, SignedField, IM!Address, EM!Address,
       IM!PlaceOf, EM!PlaceOf, AD!PlaceOf, IM!InRange, EM!InRange, AD!InRange,
       IM!TouchesZero, AD!TouchesZero

(* The differences speak of the same memory. *)
LEMMA SharedDifferences ==
    ASSUME NEW c, NEW x, NEW n
    PROVE  /\ AD!IM!Fetches(c, x, n) <=> IM!Fetches(c, x, n)
           /\ AD!EM!Static(c, x, n) = EM!Static(c, x, n)
           /\ AD!EM!DynamicStoreWithoutStack(x, n) = EM!DynamicStoreWithoutStack(x, n)
           /\ AD!EM!Refuse = EM!Refuse
           /\ AD!Writable(c, x, n) <=> IM!Writable(c, x, n)
           /\ EM!Writable(c, x, n) <=> IM!Writable(c, x, n)
<1>1. AD!IM!Fetches(c, x, n) <=> IM!Fetches(c, x, n)
  BY DEF AD!IM!Fetches, IM!Fetches, AD!IM!TouchesZero, IM!TouchesZero, AD!IM!InRange,
         IM!InRange, AD!IM!PlaceOf, IM!PlaceOf, AD!IM!Wrap, IM!Wrap, AD!IM!Signed, IM!Signed,
         AD!IM!Top, IM!Top
<1>2. AD!EM!Through(x, n) = EM!Through(x, n) /\ AD!EM!Wrap(x) = EM!Wrap(x)
      /\ AD!EM!Through(EM!Wrap(x), n) = EM!Through(EM!Wrap(x), n)
      /\ AD!EM!Refuse = EM!Refuse
  BY DEF AD!EM!Through, EM!Through, AD!EM!InRange, EM!InRange, AD!EM!Wrap, EM!Wrap,
         AD!EM!Refuse, EM!Refuse
<1>3. AD!EM!Static(c, x, n) = EM!Static(c, x, n)
  BY <1>2 DEF AD!EM!Static, EM!Static
<1>4. AD!EM!DynamicStoreWithoutStack(x, n) = EM!DynamicStoreWithoutStack(x, n)
  <2> DEFINE power == EM!BitCeil(MemorySize)
  <2>1. AD!EM!BitCeil(MemorySize) = power
    BY DEF AD!EM!BitCeil, EM!BitCeil
  <2>2. /\ AD!EM!Wrap(x + power + n - 1) = EM!Wrap(x + power + n - 1)
        /\ AD!EM!Wrap(power + n) = EM!Wrap(power + n)
    BY DEF AD!EM!Wrap, EM!Wrap
  <2> HIDE DEF power
  <2> QED
    BY <1>2, <2>1, <2>2 DEF AD!EM!DynamicStoreWithoutStack,
       EM!DynamicStoreWithoutStack, power
<1>5. /\ AD!Writable(c, x, n) <=> IM!Writable(c, x, n)
      /\ EM!Writable(c, x, n) <=> IM!Writable(c, x, n)
  BY DEF AD!Writable, IM!Writable, EM!Writable, AD!InRange, IM!InRange, EM!InRange
<1> QED
  BY <1>1, <1>2, <1>3, <1>4, <1>5

(* Both engines read and write the same bytes. *)
LEMMA SharedContents ==
    ASSUME NEW contents, NEW place, NEW n, NEW x, NEW signed \in BOOLEAN, NEW regs, NEW type,
           NEW how
    PROVE  /\ EM!Stored(contents, place, n, x) = IM!Stored(contents, place, n, x)
           /\ EM!Extended(EM!Value(contents, place, n), n, signed)
                = IM!Extended(IM!Value(contents, place, n), n, signed)
           /\ EM!Accessed(regs, contents, how) = IM!Accessed(regs, contents, how)
           /\ EM!Fault(regs, contents, type) = IM!Fault(regs, contents, type)
<1>1. EM!Stored(contents, place, n, x) = IM!Stored(contents, place, n, x)
  BY DEF EM!Stored, IM!Stored, EM!Place, IM!Place, EM!Shr, IM!Shr, EM!ByteBits,
     IM!ByteBits
<1>2. EM!Value(contents, place, n) = IM!Value(contents, place, n)
  BY DEF EM!Value, IM!Value, EM!ByteBits, IM!ByteBits
<1>3. \A y : EM!Extended(y, n, signed) = IM!Extended(y, n, signed)
  BY DEF EM!Extended, IM!Extended, EM!SignExtend, IM!SignExtend, EM!SignedField,
     IM!SignedField,
         EM!Wrap, IM!Wrap, EM!ByteBits, IM!ByteBits
<1>4. /\ EM!Accessed(regs, contents, how) = IM!Accessed(regs, contents, how)
      /\ EM!Fault(regs, contents, type) = IM!Fault(regs, contents, type)
  BY DEF EM!Accessed, IM!Accessed, EM!Fault, IM!Fault
<1> QED
  BY <1>1, <1>2, <1>3, <1>4

(* An option that system::options::validate and system::initialize accept. *)
Proper(c) ==
    /\ c.mmu \in {"none", "emulated"} /\ c.stack \in 0 .. MemorySize
    /\ c.mmu = "emulated" => c.stack = 0

(* Guest memory below the sign bit of an address: nothing that an offset     *)
(* leads to from address 0 wraps around into memory.                         *)
SmallMemory == MemorySize <= Top

(* The test for null that is emitted is the one of the interpreter, although *)
(* it adds first and compares unsigned.                                      *)
LEMMA ZeroTestIs ==
    ASSUME NEW address \in Word, NEW n \in {1, 2, 4, 8}
    PROVE  EM!ZeroTest(address, n) <=> IM!TouchesZero(address, n)
<1>1. EM!ZeroTest(address, n) <=> Wrap(address + n - 1) <= n - 1
  BY SharedAddresses DEF EM!ZeroTest
<1>2. IM!TouchesZero(address, n) <=> Signed(address) \in -(n - 1) .. 0
  BY SharedAddresses
<1>3. /\ Size \in Nat /\ Top \in Nat /\ Size = Top + Top /\ Top >= 8 /\ address \in 0 .. Size - 1
      /\ Signed(address) = IF address >= Top THEN address - Size ELSE address
  BY Sizes DEF Signed, Size
<1>4. CASE address + n - 1 < Size
  <2>1. Wrap(address + n - 1) = address + n - 1
    BY <1>3, <1>4, WrapIs
  <2> QED
    BY <1>1, <1>2, <1>3, <1>4, <2>1
<1>5. CASE address + n - 1 >= Size
  <2>1. Wrap(address + n - 1) = address + n - 1 - Size
    BY <1>3, <1>5, WrapIs
  <2> QED
    BY <1>1, <1>2, <1>3, <1>5, <2>1
<1> QED
  BY <1>3, <1>4, <1>5

(* A pointer from the memory that a configuration has *)
Reached(c, address, n) ==
    IF IM!Fetches(c, address, n) THEN <<"place", IM!PlaceOf(c, address)>> ELSE EM!Refuse

(* A pointer computed at run time is the one of the interpreter, with a      *)
(* stack below or without.                                                   *)
LEMMA DynamicIs ==
    ASSUME NEW c, Proper(c), NEW address \in Word, NEW n \in {1, 2, 4, 8}
    PROVE  EM!Dynamic(c, address, n) = Reached(c, address, n)
<1> DEFINE place == Wrap(address + c.stack)
<1>1. place \in Int /\ MemorySize \in Int
  <2>1. address + c.stack \in Int /\ MemorySize \in Int
    BY SideBySideAssumption, Sizes DEF Proper
  <2> QED
    BY <2>1, WrapIs, Sizes
<1>2. /\ EM!PlaceOf(c, address) = place /\ IM!PlaceOf(c, address) = place
      /\ IM!InRange(place, n) <=> place + n <= MemorySize
  BY SharedAddresses
<1> HIDE DEF place
<1> QED
  BY <1>1, <1>2, ZeroTestIs DEF EM!Dynamic, Reached, IM!Fetches

(* And one at a constant address, where the stack is not forgotten. *)
LEMMA StaticIs ==
    ASSUME SmallMemory, NEW c, Proper(c), c.mmu = "none", NEW n \in {1, 2, 4, 8},
           NEW i, i.imm \in Half, i.rs = 0,
           ~AD!StaticPlace(n, i, c)
    PROVE  EM!Static(c, Offset(i), n) = Reached(c, Wrap(0 + Offset(i)), n)
<1> DEFINE offset == Offset(i)
           address == Wrap(0 + offset)
           place == Wrap(address + c.stack)
<1>1. /\ Size \in Nat /\ Top \in Nat /\ Size = Top + Top /\ Top >= 8
      /\ MemorySize \in 4 .. Size /\ MemorySize <= Top /\ c.stack \in 0 .. MemorySize
      /\ offset \in Int /\ -Top < offset /\ offset < Top
  BY Sizes, SideBySideAssumption, OffsetIs DEF Proper, SmallMemory, Size
<1>2. address \in Word /\ address = IF offset < 0 THEN offset + Size ELSE offset
  BY <1>1, WrapIs
<1>3. Signed(address) = offset
  BY <1>1, <1>2, SignedIs, Sizes
<1>4. place = IF offset + c.stack < 0 THEN offset + c.stack + Size
              ELSE offset + c.stack
  <2>1. CASE offset >= 0
    BY <1>1, <1>2, <2>1, WrapIs
  <2>2. CASE offset < 0
    BY <1>1, <1>2, <2>2, WrapIs
  <2> QED
    BY <1>1, <2>1, <2>2
<1>5. IM!Fetches(c, address, n) <=>
        offset \notin -(n - 1) .. 0 /\ place + n <= MemorySize
  <2>1. /\ IM!TouchesZero(address, n) <=> Signed(address) \in -(n - 1) .. 0
        /\ IM!PlaceOf(c, address) = place
        /\ IM!InRange(place, n) <=> place + n <= MemorySize
    BY SharedAddresses
  <2> HIDE DEF address, place, offset
  <2> QED
    BY <1>3, <2>1 DEF IM!Fetches
<1>6. IM!PlaceOf(c, address) = place
  BY SharedAddresses
<1>7. (c.stack = 0 /\ offset >= 0) \/ EM!Static(c, offset, n) = EM!Refuse
  BY <1>1, SharedAddresses, SharedDifferences DEF AD!StaticPlace
<1>8. EM!Static(c, offset, n) = EM!Refuse
        \/ EM!Static(c, offset, n) = EM!Through(Wrap(offset), n)
  BY SharedAddresses DEF EM!Static
<1>9. EM!Through(Wrap(offset), n) # EM!Refuse
  BY DEF EM!Through, EM!Refuse
<1>10. EM!Static(c, offset, n) = EM!Refuse
         <=> offset + n + c.stack < 0 \/ offset + n + c.stack > MemorySize \/ offset = 0
  BY <1>9, SharedAddresses DEF EM!Static
<1>11. CASE EM!Static(c, offset, n) = EM!Refuse
  <2>1. ~IM!Fetches(c, address, n)
    <3> HIDE DEF offset, address, place
    <3> QED
      BY <1>1, <1>4, <1>5, <1>10, <1>11
  <2> QED
    BY <1>11, <2>1 DEF Reached
<1>12. CASE EM!Static(c, offset, n) # EM!Refuse
  <2>1. c.stack = 0 /\ offset > 0 /\ offset + n <= MemorySize /\ place = offset
        /\ Wrap(offset) = offset
    BY <1>1, <1>2, <1>4, <1>7, <1>10, <1>12
  <2>2. IM!Fetches(c, address, n)
    BY <1>1, <1>5, <2>1
  <2>3. EM!Through(Wrap(offset), n) = <<"place", offset>>
    BY <2>1, SharedAddresses DEF EM!Through
  <2> QED
    BY <1>6, <1>8, <1>12, <2>1, <2>2, <2>3 DEF Reached
<1> QED
  BY <1>11, <1>12

(* The same place for all. *)
LEMMA SharedPlaces ==
    ASSUME NEW c, NEW x, NEW n
    PROVE  /\ EM!PlaceOf(c, x) = IM!PlaceOf(c, x) /\ AD!PlaceOf(c, x) = IM!PlaceOf(c, x)
           /\ AD!TouchesZero(x, n) <=> IM!TouchesZero(x, n)
           /\ EM!InRange(x, n) <=> IM!InRange(x, n)
           /\ AD!InRange(x, n) <=> IM!InRange(x, n)
BY SharedAddresses

(* The same address for both. *)
LEMMA AddressIs ==
    ASSUME NEW m, NEW r, Agreed(m, r), NEW i, i.rs \in Register, i.imm \in Half
    PROVE  /\ Wrap(r[i.rs] + Offset(i)) \in Word
           /\ IM!Address(r[i.rs], i) = Wrap(r[i.rs] + Offset(i))
           /\ EM!At(m, i.rs) = r[i.rs]
           /\ i.rs = 0 => r[i.rs] = 0
<1>1. r[i.rs] \in Word /\ E!At(m, i.rs) = r[i.rs] /\ r[0] = 0
  BY AtIs, FileIs
<1>2. r[i.rs] + Offset(i) \in Int
  BY <1>1, OffsetIs, Sizes
<1>3. EM!At(m, i.rs) = E!At(m, i.rs)
  BY DEF EM!At, E!At, EM!IsREG, E!IsREG, EM!fp, E!fp
<1> QED
  BY <1>1, <1>2, <1>3, WrapIs, SharedAddresses

(* Loads find memory where the interpreter finds it, through each of the     *)
(* emitted forms.                                                            *)
LEMMA LoadPointerIs ==
    ASSUME SmallMemory, NEW m, NEW r, Agreed(m, r), NEW c, Proper(c),
           NEW i, i.rs \in Register, i.imm \in Half, NEW n \in {1, 2, 4, 8},
           ~AD!LoadDiffers(n, i, c, Wrap(r[i.rs] + Offset(i)))
    PROVE  EM!LoadPointer(m, i.rs, Offset(i), c, n) = Reached(c, Wrap(r[i.rs] + Offset(i)), n)
<1> DEFINE address == Wrap(r[i.rs] + Offset(i))
           offset == Offset(i)
<1>1. /\ address \in Word /\ EM!Wrap(EM!At(m, i.rs) + offset) = address
      /\ i.rs = 0 => address = Wrap(0 + offset)
  BY AddressIs, SharedAddresses
<1>2. ~AD!StaticPlace(n, i, c) /\ ~AD!EmulatedZero(n, c, address)
  BY DEF AD!LoadDiffers
<1>3. CASE c.mmu = "emulated"
  <2>1. EM!LoadPointer(m, i.rs, offset, c, n) = EM!Read(c, address, n)
    BY <1>1, <1>3 DEF EM!LoadPointer
  <2>2. /\ EM!PlaceOf(c, address) = IM!PlaceOf(c, address)
        /\ AD!PlaceOf(c, address) = IM!PlaceOf(c, address)
        /\ AD!TouchesZero(address, n) <=> IM!TouchesZero(address, n)
    BY SharedPlaces
  <2>3. /\ EM!InRange(IM!PlaceOf(c, address), n) <=> IM!InRange(IM!PlaceOf(c, address), n)
        /\ AD!InRange(IM!PlaceOf(c, address), n) <=> IM!InRange(IM!PlaceOf(c, address), n)
    BY SharedPlaces
  <2> QED
    BY <1>2, <1>3, <2>1, <2>2, <2>3 DEF EM!Read, Reached, IM!Fetches, AD!EmulatedZero
<1>4. CASE c.mmu = "none" /\ i.rs = 0
  <2>1. EM!LoadPointer(m, i.rs, offset, c, n) = EM!Static(c, offset, n)
    BY <1>4 DEF EM!LoadPointer
  <2> QED
    BY <1>1, <1>2, <1>4, <2>1, StaticIs
<1>5. CASE c.mmu = "none" /\ i.rs # 0
  <2>1. EM!LoadPointer(m, i.rs, offset, c, n) = EM!Dynamic(c, address, n)
    BY <1>1, <1>5 DEF EM!LoadPointer
  <2> QED
    BY <1>1, <2>1, DynamicIs
<1> QED
  BY <1>3, <1>4, <1>5 DEF Proper

(* Stores do too, and the emulated MMU lets through only what may be         *)
(* written.                                                                  *)
LEMMA StorePointerIs ==
    ASSUME SmallMemory, NEW m, NEW r, Agreed(m, r), NEW c, Proper(c),
           NEW i, i.rs \in Register, i.imm \in Half, NEW n \in {1, 2, 4, 8},
           ~AD!StoreDiffers(n, i, c, Wrap(r[i.rs] + Offset(i)))
    PROVE  /\ EM!StorePointer(m, i, c, n) = Reached(c, Wrap(r[i.rs] + Offset(i)), n)
           /\ c.mmu = "emulated" =>
                /\ c.rox
                /\ IM!Writable(c, IM!PlaceOf(c, Wrap(r[i.rs] + Offset(i))), n)
                /\ ~IM!TouchesZero(Wrap(r[i.rs] + Offset(i)), n)
<1> DEFINE address == Wrap(r[i.rs] + Offset(i))
           place == IM!PlaceOf(c, address)
<1>1. /\ address \in Word /\ EM!Address(EM!At(m, i.rs), i) = address
      /\ EM!Offset(i) = Offset(i)
      /\ i.rs = 0 => address = Wrap(0 + Offset(i))
  BY AddressIs, SharedAddresses
<1>2. /\ ~AD!StaticPlace(n, i, c) /\ ~AD!EmulatedZero(n, c, address)
      /\ ~AD!StoreWithoutStack(n, i, c, address) /\ ~AD!NullWrite(n, c, address)
      /\ ~AD!StoreLeaves(c)
  BY DEF AD!StoreDiffers, AD!LoadDiffers
<1>3. /\ EM!PlaceOf(c, address) = place /\ AD!PlaceOf(c, address) = place
      /\ AD!TouchesZero(address, n) <=> IM!TouchesZero(address, n)
  BY SharedPlaces
<1>4. /\ AD!InRange(place, n) <=> IM!InRange(place, n)
      /\ EM!Writable(c, place, n) <=> IM!Writable(c, place, n)
      /\ AD!Writable(c, place, n) <=> IM!Writable(c, place, n)
  BY SharedPlaces, SharedDifferences
<1>5. CASE c.mmu = "emulated"
  <2>1. EM!StorePointer(m, i, c, n) = EM!ReadForWrite(c, address, n)
    BY <1>1, <1>5 DEF EM!StorePointer
  <2>2. IM!Writable(c, place, n) /\ c.rox
    BY <1>2, <1>3, <1>4, <1>5 DEF AD!NullWrite, AD!StoreLeaves
  <2>3. IM!InRange(place, n)
    BY <2>2 DEF IM!Writable
  <2>4. ~IM!TouchesZero(address, n)
    BY <1>2, <1>3, <1>4, <1>5, <2>3 DEF AD!EmulatedZero
  <2> HIDE DEF address, place
  <2>5. EM!ReadForWrite(c, address, n) = <<"place", place>>
    BY <1>3, <1>4, <2>2 DEF EM!ReadForWrite
  <2>6. IM!Fetches(c, address, n)
    BY <2>3, <2>4 DEF IM!Fetches, place
  <2> QED
    BY <2>1, <2>2, <2>4, <2>5, <2>6 DEF Reached, address, place
<1>6. CASE c.mmu = "none" /\ i.rs = 0
  <2>1. EM!StorePointer(m, i, c, n) = EM!Static(c, Offset(i), n)
    BY <1>1, <1>6 DEF EM!StorePointer
  <2> QED
    BY <1>1, <1>2, <1>6, <2>1, StaticIs
<1>7. CASE c.mmu = "none" /\ i.rs # 0 /\ c.stack = 0
  <2>1. EM!StorePointer(m, i, c, n) = EM!DynamicStoreWithoutStack(address, n)
    BY <1>1, <1>7 DEF EM!StorePointer
  <2>2. ~IM!Fetches(c, address, n) /\ EM!DynamicStoreWithoutStack(address, n) = EM!Refuse
    BY <1>2, <1>7, SharedDifferences DEF AD!StoreWithoutStack
  <2> QED
    BY <1>7, <2>1, <2>2 DEF Reached
<1>8. CASE c.mmu = "none" /\ i.rs # 0 /\ c.stack # 0
  <2>1. EM!StorePointer(m, i, c, n) = EM!Dynamic(c, address, n)
    BY <1>1, <1>8 DEF EM!StorePointer
  <2> QED
    BY <1>1, <1>8, <2>1, DynamicIs
<1> QED
  BY <1>5, <1>6, <1>7, <1>8 DEF Proper

(* Both engines end an access alike, with the same memory. *)
AccessAlike(interpreted, emitted) ==
    /\ View(emitted.regs) = interpreted.regs
    /\ emitted.memory = interpreted.memory /\ emitted.out = interpreted.out

(* Accesses that end alike are alike. *)
LEMMA AccessedAlike ==
    ASSUME NEW m, NEW x, View(m) = x, NEW contents, NEW how, NEW type
    PROVE  /\ AccessAlike(IM!Accessed(x, contents, how), EM!Accessed(m, contents, how))
           /\ AccessAlike(IM!Accessed(x, contents, how), IM!Accessed(m, contents, how))
           /\ AccessAlike(IM!Fault(x, contents, type), EM!Fault(m, contents, type))
BY DEF AccessAlike, IM!Accessed, EM!Accessed, IM!Fault, EM!Fault

(* A pointer into memory is neither refused nor outside. *)
LEMMA PointersAre ==
    ASSUME NEW place
    PROVE  /\ <<"place", place>> # EM!Refuse /\ <<"place", place>> # <<"outside">>
           /\ <<"place", place>>[2] = place /\ EM!Refuse # <<"outside">>
BY DEF EM!Refuse

(* Loads are alike. *)
LEMMA LoadsAlike ==
    ASSUME SmallMemory, NEW m, NEW r, Agreed(m, r), NEW c, Proper(c), NEW contents,
           NEW i, i.rs \in Register, i.rt \in Register, i.imm \in Half,
           NEW n \in {1, 2, 4}, NEW signed \in BOOLEAN,
           ~AD!LoadDiffers(n, i, c, Wrap(r[i.rs] + Offset(i))),
           i.rt = 0 => IM!Fetches(c, Wrap(r[i.rs] + Offset(i)), n)
    PROVE  AccessAlike(IM!Fetch(r, contents, c, Wrap(r[i.rs] + Offset(i)), n, i.rt, signed),
                       EM!LoadInto(m, contents, i, c, n, signed))
<1> DEFINE address == Wrap(r[i.rs] + Offset(i))
           place == IM!PlaceOf(c, address)
           value == IM!Extended(IM!Value(contents, place, n), n, signed)
           interpreted == IM!Fetch(r, contents, c, address, n, i.rt, signed)
           emitted == EM!LoadInto(m, contents, i, c, n, signed)
<1>1. EM!LoadPointer(m, i.rs, Offset(i), c, n) = Reached(c, address, n)
  BY LoadPointerIs
<1>2. EM!Offset(i) = Offset(i) /\ View(m) = r
  BY SharedAddresses DEF Agreed
<1>3. CASE i.rt = 0
  <2>1. interpreted = IM!Accessed(r, contents, <<"next">>)
    BY <1>3 DEF IM!Fetch
  <2>2. emitted = EM!Accessed(m, contents, <<"next">>)
    BY <1>3 DEF EM!LoadInto
  <2> QED
    BY <1>2, <2>1, <2>2, AccessedAlike
<1>4. CASE i.rt # 0 /\ ~IM!Fetches(c, address, n)
  <2>1. interpreted = IM!Fault(r, contents, "AdEL")
    BY <1>4 DEF IM!Fetch
  <2>2. EM!LoadPointer(m, i.rs, Offset(i), c, n) = EM!Refuse
    BY <1>1, <1>4 DEF Reached
  <2>3. emitted = EM!Fault(m, contents, "AdEL")
    BY <1>2, <1>4, <2>2, PointersAre DEF EM!LoadInto, EM!Load
  <2> QED
    BY <1>2, <2>1, <2>3, AccessedAlike
<1>5. CASE i.rt # 0 /\ IM!Fetches(c, address, n)
  <2>1. interpreted = IM!Accessed([r EXCEPT ![i.rt] = value], contents, <<"next">>)
    BY <1>5 DEF IM!Fetch
  <2>2. EM!LoadPointer(m, i.rs, Offset(i), c, n) = <<"place", place>>
    BY <1>1, <1>5 DEF Reached
  <2>3. EM!Extended(EM!Value(contents, place, n), n, signed) = value
    BY SharedContents
  <2>4. emitted = EM!Accessed(EM!Put(m, i.rt, value), contents, <<"next">>)
    <3> HIDE DEF value, place
    <3> QED
      BY <1>2, <1>5, <2>2, <2>3, PointersAre DEF EM!LoadInto, EM!Load
  <2>5. EM!Put(m, i.rt, value) = E!Put(m, i.rt, value)
    BY DEF EM!Put, E!Put, EM!IsREG, E!IsREG, EM!fp, E!fp
  <2>6. View(EM!Put(m, i.rt, value)) = [r EXCEPT ![i.rt] = value]
    BY <1>5, <2>5, PutIs
  <2> HIDE DEF value, interpreted, emitted
  <2> QED
    BY <2>1, <2>4, <2>6, AccessedAlike DEF interpreted, emitted
<1> QED
  BY <1>3, <1>4, <1>5

(* A value is stored alike, whichever register it comes from. *)
LEMMA ValuesStoredAlike ==
    ASSUME SmallMemory, NEW m, NEW r, Agreed(m, r), NEW c, Proper(c), NEW contents,
           NEW i, i.rs \in Register, i.imm \in Half, NEW n \in {1, 2, 4, 8}, NEW value,
           ~AD!StoreDiffers(n, i, c, Wrap(r[i.rs] + Offset(i)))
    PROVE  AccessAlike(IM!Store(r, contents, c, Wrap(r[i.rs] + Offset(i)), n, value),
                       EM!StoreValue(m, contents, i, c, n, value))
<1> DEFINE address == Wrap(r[i.rs] + Offset(i))
           place == IM!PlaceOf(c, address)
           interpreted == IM!Store(r, contents, c, address, n, value)
           emitted == EM!StoreValue(m, contents, i, c, n, value)
<1>1. /\ EM!StorePointer(m, i, c, n) = Reached(c, address, n)
      /\ c.mmu = "emulated" =>
           c.rox /\ IM!Writable(c, place, n) /\ ~IM!TouchesZero(address, n)
  BY StorePointerIs
<1>2. View(m) = r
  BY DEF Agreed
<1>3. CASE IM!Fetches(c, address, n)
  <2>1. EM!StorePointer(m, i, c, n) = <<"place", place>>
    BY <1>1, <1>3 DEF Reached
  <2>2. ~IM!TouchesZero(address, n) /\ IM!InRange(place, n)
    BY <1>3 DEF IM!Fetches
  <2>3. interpreted = IM!Accessed(r, IM!Stored(contents, place, n, value), <<"next">>)
    <3> HIDE DEF address
    <3> QED
      BY <1>1, <2>2 DEF IM!Store
  <2>4. emitted = EM!Accessed(m, EM!Stored(contents, place, n, value), <<"next">>)
    <3> HIDE DEF place
    <3> QED
      BY <1>1, <2>1, PointersAre DEF EM!StoreValue
  <2>5. EM!Stored(contents, place, n, value) = IM!Stored(contents, place, n, value)
    BY SharedContents
  <2>6. AccessAlike(interpreted, emitted)
    <3> HIDE DEF interpreted, emitted, place
    <3> QED
      BY <1>2, <2>3, <2>4, <2>5, AccessedAlike
  <2> QED
    BY <2>6
<1>4. CASE ~IM!Fetches(c, address, n)
  <2>1. EM!StorePointer(m, i, c, n) = EM!Refuse
    BY <1>1, <1>4 DEF Reached
  <2>2. emitted = EM!Fault(m, contents, "AdES")
    BY <2>1, PointersAre DEF EM!StoreValue
  <2>3. c.mmu # "emulated"
    <3>1. IM!Writable(c, place, n) => IM!InRange(place, n)
      BY DEF IM!Writable
    <3> QED
      BY <1>1, <1>4, <3>1 DEF IM!Fetches
  <2>4. interpreted = IM!Fault(r, contents, "AdES")
    <3> HIDE DEF address
    <3> QED
      BY <1>4, <2>3 DEF IM!Store, IM!Fetches
  <2> QED
    BY <1>2, <2>2, <2>4, AccessedAlike
<1> QED
  BY <1>3, <1>4

(* Stores are alike. *)
LEMMA StoresAlike ==
    ASSUME SmallMemory, NEW m, NEW r, Agreed(m, r), NEW c, Proper(c), NEW contents,
           NEW i, i.rs \in Register, i.rt \in Register, i.imm \in Half,
           NEW n \in {1, 2, 4},
           ~AD!StoreDiffers(n, i, c, Wrap(r[i.rs] + Offset(i)))
    PROVE  AccessAlike(IM!Store(r, contents, c, Wrap(r[i.rs] + Offset(i)), n, r[i.rt]),
                       EM!Store(m, contents, i, c, n))
<1>1. (IF i.rt = 0 THEN 0 ELSE EM!At(m, i.rt)) = r[i.rt]
  <2>1. EM!At(m, i.rt) = E!At(m, i.rt)
    BY DEF EM!At, E!At, EM!IsREG, E!IsREG, EM!fp, E!fp
  <2> QED
    BY <2>1, AtIs, FileIs
<1>2. EM!Store(m, contents, i, c, n) = EM!StoreValue(m, contents, i, c, n, r[i.rt])
  BY <1>1 DEF EM!Store
<1> QED
  BY <1>2, ValuesStoredAlike

(* The sorts of accesses give every access operands it can have. *)
LEMMA AccessOperandsFit ==
    ASSUME NEW sort \in MemorySorts, NEW op \in sort[1], NEW i \in sort[2]
    PROVE  /\ op \in Loads \cup Stores \cup {"LWPC", "CACHE"}
           /\ i.rs \in Register /\ i.rt \in Register /\ i.imm \in Half
<1>1. 0 \in Register /\ Operand \subseteq Register
  BY RegistersHaveZero, SideBySideAssumption
<1>2. \/ sort = <<Loads \cup Stores, Instruction({0}, Operand, Operand, {0}, {0}, Half)>>
      \/ sort = <<{"LWPC", "CACHE"}, Instruction({0}, Operand, {0}, {0}, {0}, Half)>>
  BY DEF MemorySorts
<1>3. CASE sort = <<Loads \cup Stores, Instruction({0}, Operand, Operand, {0}, {0}, Half)>>
  BY <1>1, <1>3 DEF Instruction
<1>4. CASE sort = <<{"LWPC", "CACHE"}, Instruction({0}, Operand, {0}, {0}, {0}, Half)>>
  BY <1>1, <1>4 DEF Instruction
<1> QED
  BY <1>2, <1>3, <1>4

(* CACHE is called and does not look at registers. *)
LEMMA CachesAlike ==
    ASSUME NEW m, NEW r, Agreed(m, r), NEW i, NEW c, memory.host = memory.guest
    PROVE  AccessAlike(InterpretAccess("CACHE", r, i, c), EmittedAccess("CACHE", m, i, c))
<1> DEFINE how == IF IM!Pokes(c, IM!CacheAddress(i)) THEN <<"next">> ELSE <<"terminates">>
           slots == [m.slot EXCEPT ![0] = 0]
           after == [m EXCEPT !.slot = slots]
<1>1. InterpretAccess("CACHE", r, i, c) = IM!Accessed(r, memory.guest, how)
  BY DEF InterpretAccess, IM!CACHE
<1>2. EmittedAccess("CACHE", m, i, c) = IM!Accessed(after, memory.host, how)
  BY DEF EmittedAccess, CalledAccess, IM!CACHE, IM!Accessed
<1>3. View(after) = r
  <2>1. m.slot \in [Register -> Word] /\ m.slot[0] = 0 /\ 0 \in Register
    BY SlotsAre, RegistersHaveZero
  <2>2. slots = m.slot
    BY <2>1
  <2>3. after.slot = m.slot /\ after.r15d = m.r15d
    BY <2>2 DEF Agreed
  <2> QED
    BY <2>3 DEF View, Agreed
<1> HIDE DEF how, after
<1> QED
  BY <1>1, <1>2, <1>3, AccessedAlike

(* All accesses: what is not listed as a difference is alike. *)
LEMMA AccessesAlike ==
    ASSUME SmallMemory, NEW m, NEW r, Agreed(m, r), memory.host = memory.guest,
           NEW c, Proper(c), NEW op \in Loads \cup Stores \cup {"LWPC", "CACHE"}, NEW i,
           i.rs \in Register, i.rt \in Register, i.imm \in Half,
           ~AccessDiffers(op, i, c, AddressOf(op, r, i))
    PROVE  AccessAlike(InterpretAccess(op, r, i, c), EmittedAccess(op, m, i, c))
<1> DEFINE address == Wrap(r[i.rs] + Offset(i))
<1>1. IM!Address(r[i.rs], i) = address
  BY SharedAddresses
<1>2. CASE op \in Loads
  <2>1. AddressOf(op, r, i) = address
    BY <1>2 DEF AddressOf, Loads
  <2>2. /\ ~AD!LoadDiffers(Bytes(op), i, c, address)
        /\ i.rt = 0 => IM!Fetches(c, address, Bytes(op))
    BY <1>2, <2>1 DEF AccessDiffers, LoadIntoZero
  <2>3. ASSUME NEW n \in {1, 2, 4}, NEW signed \in BOOLEAN, Bytes(op) = n
        PROVE  AccessAlike(IM!Fetch(r, memory.guest, c, address, n, i.rt, signed),
                           EM!LoadInto(m, memory.host, i, c, n, signed))
    BY <2>2, <2>3, LoadsAlike
  <2> HIDE DEF address
  <2>4. CASE op = "LB"
    <3>1. Bytes(op) = 1 /\ TRUE \in BOOLEAN
      BY <2>4 DEF Bytes
    <3> QED
      BY <1>1, <2>3, <2>4, <3>1 DEF InterpretAccess, EmittedAccess, IM!LB, EM!LB
  <2>5. CASE op = "LBU"
    <3>1. Bytes(op) = 1 /\ FALSE \in BOOLEAN
      BY <2>5 DEF Bytes
    <3> QED
      BY <1>1, <2>3, <2>5, <3>1 DEF InterpretAccess, EmittedAccess, IM!LBU, EM!LBU
  <2>6. CASE op = "LH"
    <3>1. Bytes(op) = 2 /\ TRUE \in BOOLEAN
      BY <2>6 DEF Bytes
    <3> QED
      BY <1>1, <2>3, <2>6, <3>1 DEF InterpretAccess, EmittedAccess, IM!LH, EM!LH
  <2>7. CASE op = "LHU"
    <3>1. Bytes(op) = 2 /\ FALSE \in BOOLEAN
      BY <2>7 DEF Bytes
    <3> QED
      BY <1>1, <2>3, <2>7, <3>1 DEF InterpretAccess, EmittedAccess, IM!LHU, EM!LHU
  <2>8. CASE op = "LW"
    <3>1. Bytes(op) = 4 /\ FALSE \in BOOLEAN
      BY <2>8 DEF Bytes
    <3> QED
      BY <1>1, <2>3, <2>8, <3>1 DEF InterpretAccess, EmittedAccess, IM!LW, EM!LW
  <2> QED
    BY <1>2, <2>4, <2>5, <2>6, <2>7, <2>8 DEF Loads
<1>3. CASE op \in Stores
  <2>1. AddressOf(op, r, i) = address
    BY <1>3 DEF AddressOf, Stores
  <2>2. ~AD!StoreDiffers(Bytes(op), i, c, address)
    BY <1>3, <2>1 DEF AccessDiffers
  <2>3. ASSUME NEW n \in {1, 2, 4}, Bytes(op) = n
        PROVE  AccessAlike(IM!Store(r, memory.guest, c, address, n, r[i.rt]),
                           EM!Store(m, memory.host, i, c, n))
    BY <2>2, <2>3, StoresAlike
  <2> HIDE DEF address
  <2>4. CASE op = "SB"
    <3>1. Bytes(op) = 1
      BY <2>4 DEF Bytes
    <3> QED
      BY <1>1, <2>3, <2>4, <3>1 DEF InterpretAccess, EmittedAccess, IM!SB, EM!SB
  <2>5. CASE op = "SH"
    <3>1. Bytes(op) = 2
      BY <2>5 DEF Bytes
    <3> QED
      BY <1>1, <2>3, <2>5, <3>1 DEF InterpretAccess, EmittedAccess, IM!SH, EM!SH
  <2>6. CASE op = "SW"
    <3>1. Bytes(op) = 4
      BY <2>6 DEF Bytes
    <3> QED
      BY <1>1, <2>3, <2>6, <3>1 DEF InterpretAccess, EmittedAccess, IM!SW, EM!SW
  <2> QED
    BY <1>3, <2>4, <2>5, <2>6 DEF Stores
<1>4. op # "LWPC"
  BY DEF AccessDiffers
<1> QED
  BY <1>2, <1>3, <1>4, CachesAlike

(* An access that raises has changed nothing, and a load never does. *)
Kept(e, registers, contents) ==
    e.out[1] = "raise" => e.regs = registers /\ e.memory = contents

(* A load of the interpreter changes nothing in memory, and no register when *)
(* it faults.                                                                *)
LEMMA FetchKeeps ==
    ASSUME NEW r, NEW contents, NEW c, NEW address, NEW n, NEW d, NEW signed \in BOOLEAN
    PROVE  /\ Kept(IM!Fetch(r, contents, c, address, n, d, signed), r, contents)
           /\ IM!Fetch(r, contents, c, address, n, d, signed).memory = contents
BY DEF Kept, IM!Fetch, IM!Fault, IM!Accessed

(* A store that faults has not stored. *)
LEMMA StoreKeeps ==
    ASSUME NEW r, NEW contents, NEW c, NEW address, NEW n, NEW value
    PROVE  Kept(IM!Store(r, contents, c, address, n, value), r, contents)
BY DEF Kept, IM!Store, IM!Fault, IM!Accessed

(* The same for an emitted load. *)
LEMMA EmittedLoadKeeps ==
    ASSUME NEW m, NEW contents, NEW base, NEW offset, NEW c, NEW n, NEW d,
           NEW signed \in BOOLEAN
    PROVE  /\ Kept(EM!Load(m, contents, base, offset, c, n, d, signed), m, contents)
           /\ EM!Load(m, contents, base, offset, c, n, d, signed).memory = contents
<1> DEFINE pointer == EM!LoadPointer(m, base, offset, c, n)
           e == EM!Load(m, contents, base, offset, c, n, d, signed)
           value == EM!Extended(EM!Value(contents, pointer[2], n), n, signed)
<1>1. CASE pointer = EM!Refuse
  BY <1>1, PointersAre DEF Kept, EM!Load, EM!Fault, EM!Accessed
<1>2. CASE pointer = <<"outside">>
  BY <1>2, PointersAre DEF Kept, EM!Load, EM!Fault, EM!Accessed
<1>3. CASE pointer # EM!Refuse /\ pointer # <<"outside">>
  <2>1. e = EM!Accessed(EM!Put(m, d, value), contents, <<"next">>)
    BY <1>3 DEF EM!Load
  <2>2. e.out[1] # "raise" /\ e.memory = contents
    <3> HIDE DEF e, value
    <3> QED
      BY <2>1 DEF EM!Accessed
  <2> QED
    BY <2>2 DEF Kept
<1> QED
  BY <1>1, <1>2, <1>3

(* Also where nothing is emitted for the destination $0. *)
LEMMA LoadIntoKeeps ==
    ASSUME NEW m, NEW contents, NEW i, NEW c, NEW n, NEW signed \in BOOLEAN
    PROVE  /\ Kept(EM!LoadInto(m, contents, i, c, n, signed), m, contents)
           /\ EM!LoadInto(m, contents, i, c, n, signed).memory = contents
<1>1. CASE i.rt = 0
  BY <1>1 DEF Kept, EM!LoadInto, EM!Accessed
<1>2. CASE i.rt # 0
  BY <1>2, EmittedLoadKeeps DEF EM!LoadInto
<1> QED
  BY <1>1, <1>2

(* And for an emitted store, whatever it stores. *)
LEMMA EmittedValueKeeps ==
    ASSUME NEW m, NEW contents, NEW i, NEW c, NEW n, NEW value
    PROVE  Kept(EM!StoreValue(m, contents, i, c, n, value), m, contents)
<1> DEFINE pointer == EM!StorePointer(m, i, c, n)
           e == EM!StoreValue(m, contents, i, c, n, value)
<1>1. CASE pointer = EM!Refuse
  BY <1>1, PointersAre DEF Kept, EM!StoreValue, EM!Fault, EM!Accessed
<1>2. CASE pointer = <<"outside">>
  BY <1>2, PointersAre DEF Kept, EM!StoreValue, EM!Fault, EM!Accessed
<1>3. CASE pointer # EM!Refuse /\ pointer # <<"outside">>
  <2>1. e.out \in {<<"left">>, <<"next">>}
    BY <1>3 DEF EM!StoreValue, EM!Accessed
  <2> HIDE DEF e
  <2>2. e.out[1] # "raise"
    BY <2>1
  <2> QED
    BY <2>2 DEF Kept, e
<1> QED
  BY <1>1, <1>2, <1>3

(* For those of the processor that is the content of a register. *)
LEMMA EmittedStoreKeeps ==
    ASSUME NEW m, NEW contents, NEW i, NEW c, NEW n
    PROVE  Kept(EM!Store(m, contents, i, c, n), m, contents)
BY EmittedValueKeeps DEF EM!Store

(* All accesses keep what they must when they raise. *)
LEMMA AccessesKeep ==
    ASSUME NEW m, NEW r, NEW i, NEW c, Agreed(m, r),
           NEW op \in Loads \cup Stores \cup {"LWPC", "CACHE"}
    PROVE  /\ Kept(InterpretAccess(op, r, i, c), r, memory.guest)
           /\ Kept(EmittedAccess(op, m, i, c), m, memory.host)
           /\ op \notin Stores => /\ InterpretAccess(op, r, i, c).memory = memory.guest
                                  /\ EmittedAccess(op, m, i, c).memory = memory.host
<1> DEFINE interpreted == InterpretAccess(op, r, i, c)
           emitted == EmittedAccess(op, m, i, c)
<1>1. ASSUME NEW address, NEW n, NEW d, NEW signed \in BOOLEAN,
             interpreted = IM!Fetch(r, memory.guest, c, address, n, d, signed)
      PROVE  Kept(interpreted, r, memory.guest) /\ interpreted.memory = memory.guest
  BY <1>1, FetchKeeps
<1>2. ASSUME NEW n, NEW signed \in BOOLEAN,
             emitted = EM!LoadInto(m, memory.host, i, c, n, signed)
      PROVE  Kept(emitted, m, memory.host) /\ emitted.memory = memory.host
  BY <1>2, LoadIntoKeeps
<1>3. TRUE \in BOOLEAN /\ FALSE \in BOOLEAN
  OBVIOUS
<1>4. CASE op = "LB"
  <2>1. interpreted = IM!Fetch(r, memory.guest, c, IM!Address(r[i.rs], i), 1, i.rt, TRUE)
    BY <1>4 DEF InterpretAccess, IM!LB
  <2>2. emitted = EM!LoadInto(m, memory.host, i, c, 1, TRUE)
    BY <1>4 DEF EmittedAccess, EM!LB
  <2> HIDE DEF interpreted, emitted
  <2> QED
    BY <1>1, <1>2, <1>3, <2>1, <2>2 DEF interpreted, emitted
<1>5. CASE op = "LBU"
  <2>1. interpreted = IM!Fetch(r, memory.guest, c, IM!Address(r[i.rs], i), 1, i.rt, FALSE)
    BY <1>5 DEF InterpretAccess, IM!LBU
  <2>2. emitted = EM!LoadInto(m, memory.host, i, c, 1, FALSE)
    BY <1>5 DEF EmittedAccess, EM!LBU
  <2> HIDE DEF interpreted, emitted
  <2> QED
    BY <1>1, <1>2, <1>3, <2>1, <2>2 DEF interpreted, emitted
<1>6. CASE op = "LH"
  <2>1. interpreted = IM!Fetch(r, memory.guest, c, IM!Address(r[i.rs], i), 2, i.rt, TRUE)
    BY <1>6 DEF InterpretAccess, IM!LH
  <2>2. emitted = EM!LoadInto(m, memory.host, i, c, 2, TRUE)
    BY <1>6 DEF EmittedAccess, EM!LH
  <2> HIDE DEF interpreted, emitted
  <2> QED
    BY <1>1, <1>2, <1>3, <2>1, <2>2 DEF interpreted, emitted
<1>7. CASE op = "LHU"
  <2>1. interpreted = IM!Fetch(r, memory.guest, c, IM!Address(r[i.rs], i), 2, i.rt, FALSE)
    BY <1>7 DEF InterpretAccess, IM!LHU
  <2>2. emitted = EM!LoadInto(m, memory.host, i, c, 2, FALSE)
    BY <1>7 DEF EmittedAccess, EM!LHU
  <2> HIDE DEF interpreted, emitted
  <2> QED
    BY <1>1, <1>2, <1>3, <2>1, <2>2 DEF interpreted, emitted
<1>8. CASE op = "LW"
  <2>1. interpreted = IM!Fetch(r, memory.guest, c, IM!Address(r[i.rs], i), 4, i.rt, FALSE)
    BY <1>8 DEF InterpretAccess, IM!LW
  <2>2. emitted = EM!LoadInto(m, memory.host, i, c, 4, FALSE)
    BY <1>8 DEF EmittedAccess, EM!LW
  <2> HIDE DEF interpreted, emitted
  <2> QED
    BY <1>1, <1>2, <1>3, <2>1, <2>2 DEF interpreted, emitted
<1>9. CASE op = "LWPC"
  <2>1. \E address : interpreted = IM!Fetch(r, memory.guest, c, address, 4, i.rs, FALSE)
    BY <1>9 DEF InterpretAccess, IM!LWPC
  <2>2. \E offset : emitted = EM!Load(m, memory.host, i.rs, offset, c, 4, i.rs, FALSE)
    BY <1>9 DEF EmittedAccess, EM!LWPC
  <2>3. ASSUME NEW offset, NEW signed \in BOOLEAN,
               emitted = EM!Load(m, memory.host, i.rs, offset, c, 4, i.rs, signed)
        PROVE  Kept(emitted, m, memory.host) /\ emitted.memory = memory.host
    BY <2>3, EmittedLoadKeeps
  <2> HIDE DEF interpreted, emitted
  <2> QED
    BY <1>1, <1>3, <2>1, <2>2, <2>3 DEF interpreted, emitted
<1>10. CASE op = "SB"
  BY <1>10, StoreKeeps, EmittedStoreKeeps
  DEF InterpretAccess, EmittedAccess, Stores, IM!SB, EM!SB
<1>11. CASE op = "SH"
  BY <1>11, StoreKeeps, EmittedStoreKeeps
  DEF InterpretAccess, EmittedAccess, Stores, IM!SH, EM!SH
<1>12. CASE op = "SW"
  BY <1>12, StoreKeeps, EmittedStoreKeeps
  DEF InterpretAccess, EmittedAccess, Stores, IM!SW, EM!SW
<1>13. CASE op = "CACHE"
  <2> DEFINE how == IF IM!Pokes(c, IM!CacheAddress(i)) THEN <<"next">> ELSE <<"terminates">>
  <2>1. how[1] # "raise"
    OBVIOUS
  <2> HIDE DEF how
  <2>2. interpreted = IM!Accessed(r, memory.guest, how)
    BY <1>13 DEF InterpretAccess, IM!CACHE, how
  <2>3. \E x : emitted = IM!Accessed(x, memory.host, how)
    BY <1>13 DEF EmittedAccess, CalledAccess, IM!CACHE, IM!Accessed, how
  <2> QED
    BY <2>1, <2>2, <2>3 DEF Kept, IM!Accessed
<1> QED
  BY <1>4, <1>5, <1>6, <1>7, <1>8, <1>9, <1>10, <1>11, <1>12, <1>13 DEF Loads, Stores

(* The interpreter does not follow a null pointer. *)
LEMMA NullStops ==
    ASSUME NEW r, NEW i, NEW c, NEW op \in Loads \cup Stores \cup {"LWPC", "CACHE"},
           IM!TouchesZero(AddressOf(op, r, i), Bytes(op))
    PROVE  Stops(InterpretAccess(op, r, i, c).out)
<1> DEFINE address == AddressOf(op, r, i)
<1>1. ASSUME NEW d, NEW signed PROVE Stops(IM!Fetch(r, memory.guest, c, address, Bytes(op), d, signed).out)
  <2>1. IM!Fetch(r, memory.guest, c, address, Bytes(op), d, signed)
            = IM!Fault(r, memory.guest, "AdEL")
    BY DEF IM!Fetch, IM!Fetches
  <2> QED
    BY <2>1 DEF IM!Fault, IM!Accessed, Stops
<1>2. ASSUME NEW value PROVE Stops(IM!Store(r, memory.guest, c, address, Bytes(op), value).out)
  <2>1. IM!Store(r, memory.guest, c, address, Bytes(op), value)
            = IM!Fault(r, memory.guest, "AdES")
    BY DEF IM!Store
  <2> QED
    BY <2>1 DEF IM!Fault, IM!Accessed, Stops
<1>3. /\ IM!Address(r[i.rs], i) = Wrap(r[i.rs] + Offset(i))
      /\ IM!Wrap(Pc + 4 * IM!Offset(i)) = Wrap(Pc + 4 * Offset(i))
  BY SharedAddresses
<1>4. CASE op = "LB"
  BY <1>1, <1>3, <1>4 DEF InterpretAccess, IM!LB, AddressOf, Bytes
<1>5. CASE op = "LBU"
  BY <1>1, <1>3, <1>5 DEF InterpretAccess, IM!LBU, AddressOf, Bytes
<1>6. CASE op = "LH"
  BY <1>1, <1>3, <1>6 DEF InterpretAccess, IM!LH, AddressOf, Bytes
<1>7. CASE op = "LHU"
  BY <1>1, <1>3, <1>7 DEF InterpretAccess, IM!LHU, AddressOf, Bytes
<1>8. CASE op = "LW"
  BY <1>1, <1>3, <1>8 DEF InterpretAccess, IM!LW, AddressOf, Bytes
<1>9. CASE op = "SB"
  BY <1>2, <1>3, <1>9 DEF InterpretAccess, IM!SB, AddressOf, Bytes
<1>10. CASE op = "SH"
  BY <1>2, <1>3, <1>10 DEF InterpretAccess, IM!SH, AddressOf, Bytes
<1>11. CASE op = "SW"
  BY <1>2, <1>3, <1>11 DEF InterpretAccess, IM!SW, AddressOf, Bytes
<1>12. CASE op = "LWPC"
  BY <1>1, <1>3, <1>12 DEF InterpretAccess, IM!LWPC, AddressOf, Bytes
<1>13. CASE op = "CACHE"
  <2>1. address = IM!CacheAddress(i) /\ Bytes(op) = 1
    BY <1>13 DEF AddressOf, Bytes
  <2>2. ~IM!Pokes(c, IM!CacheAddress(i))
    BY <2>1 DEF IM!Pokes, IM!Fetches
  <2>3. InterpretAccess(op, r, i, c) = IM!Accessed(r, memory.guest, <<"terminates">>)
    BY <1>13, <2>2 DEF InterpretAccess, IM!CACHE
  <2> QED
    BY <2>3 DEF IM!Accessed, Stops
<1> QED
  BY <1>4, <1>5, <1>6, <1>7, <1>8, <1>9, <1>10, <1>11, <1>12, <1>13 DEF Loads, Stores

(* Executable blocks lie in memory, and with read-only executable memory     *)
(* only: there is an emulated MMU then, and no stack below address 0.        *)
Blocks(c) ==
    /\ c.executable # {} => c.rox /\ c.mmu = "emulated"
    /\ \A b \in c.executable : b[1] \in 0 .. MemorySize /\ b[2] \in 0 .. MemorySize

(* A store that does not reach past an end of a block does not change it. *)
LEMMA StoresStand ==
    ASSUME NEW m, NEW r, Agreed(m, r), NEW c, Proper(c), Blocks(c),
           NEW op \in Stores, NEW i, i.rs \in Register, i.imm \in Half,
           NEW b \in c.executable, ~ReachesPast(b, AddressOf(op, r, i), Bytes(op))
    PROVE  /\ InterpretAccess(op, r, i, c).memory = memory.guest
           /\ EmittedAccess(op, m, i, c).memory = memory.host
<1> DEFINE address == Wrap(r[i.rs] + Offset(i))
           n == Bytes(op)
<1>1. /\ address \in Word /\ IM!Address(r[i.rs], i) = address
      /\ EM!Address(EM!At(m, i.rs), i) = address
  <2>1. EM!At(m, i.rs) = r[i.rs] /\ address \in Word
    BY AddressIs
  <2>2. IM!Address(r[i.rs], i) = address /\ EM!Address(r[i.rs], i) = address
    BY SharedAddresses
  <2> QED
    BY <2>1, <2>2
<1>2. AddressOf(op, r, i) = address /\ n \in {1, 2, 4}
  BY DEF AddressOf, Bytes, Stores
<1>3. c.mmu = "emulated" /\ c.stack = 0
  BY DEF Blocks, Proper
<1>4. address \in Nat /\ address + 0 = address
  BY <1>1, Sizes
<1>5. IM!PlaceOf(c, address) = address /\ EM!PlaceOf(c, address) = address
  <2>1. Wrap(address + 0) = address
    BY <1>1, <1>4, WrapWord
  <2>2. IM!PlaceOf(c, address) = Wrap(address + 0) /\ EM!PlaceOf(c, address) = Wrap(address + 0)
    BY <1>3, SharedAddresses
  <2> QED
    BY <2>1, <2>2
<1>6. EM!Writable(c, address, n) <=> IM!Writable(c, address, n)
  BY SharedDifferences
<1>7. ~IM!Writable(c, address, n)
  <2>1. /\ b[1] \in Nat /\ b[2] \in Nat
    BY SideBySideAssumption, Sizes DEF Blocks, Size
  <2>2. address >= b[1] /\ address + n <= b[2]
    BY <1>2, <1>4, <2>1 DEF ReachesPast
  <2> QED
    BY <2>2 DEF IM!Writable
<1> HIDE DEF address, n
<1>8. ASSUME NEW contents, NEW x
      PROVE  IM!Store(r, contents, c, address, n, x).memory = contents
  BY <1>3, <1>5, <1>7 DEF IM!Store, IM!Fault, IM!Accessed
<1>9. ASSUME NEW contents
      PROVE  EM!Store(m, contents, i, c, n).memory = contents
  <2>1. EM!StorePointer(m, i, c, n) = EM!ReadForWrite(c, address, n)
    BY <1>1, <1>3 DEF EM!StorePointer
  <2>2. EM!StorePointer(m, i, c, n) = EM!Refuse
    BY <1>5, <1>6, <1>7, <2>1 DEF EM!ReadForWrite
  <2> QED
    BY <2>2, PointersAre DEF EM!Store, EM!StoreValue, EM!Fault, EM!Accessed
<1>10. CASE op = "SB"
  <2>1. n = 1
    BY <1>10 DEF n, Bytes
  <2> QED
    BY <1>1, <1>8, <1>9, <1>10, <2>1 DEF InterpretAccess, EmittedAccess, IM!SB, EM!SB
<1>11. CASE op = "SH"
  <2>1. n = 2
    BY <1>11 DEF n, Bytes
  <2> QED
    BY <1>1, <1>8, <1>9, <1>11, <2>1 DEF InterpretAccess, EmittedAccess, IM!SH, EM!SH
<1>12. CASE op = "SW"
  <2>1. n = 4
    BY <1>12 DEF n, Bytes
  <2> QED
    BY <1>1, <1>8, <1>9, <1>12, <2>1 DEF InterpretAccess, EmittedAccess, IM!SW, EM!SW
<1> QED
  BY <1>10, <1>11, <1>12 DEF Stores

-------------------------------------------------------------------------------
(* The specification *)

(* The states that instructions start from. *)
Begins ==
    /\ guest \in Start
    /\ host = [slot |-> [guest EXCEPT ![fp] = Not(@)], r15d |-> guest[fp]]
    /\ memory.host = memory.guest

(* They agree in the sense of the lemmas. *)
LEMMA BeginsAgreed ==
    ASSUME Begins
    PROVE  Agreed(host, guest)
<1>1. guest \in [Register -> Word] /\ guest[0] = 0 /\ 30 \in Register /\ 0 \in Register
  BY SideBySideAssumption, RegistersHaveZero DEF Begins
<1>2. \A x \in Word : Not(x) \in Word
  BY Sizes DEF Not
<1> DEFINE slots == [guest EXCEPT ![30] = Not(@)]
<1>3. slots \in [Register -> Word]
  BY <1>1, <1>2
<1>4. [slots EXCEPT ![30] = guest[30]] = guest
  BY <1>1
<1>5. host = [slot |-> slots, r15d |-> guest[30]]
  BY DEF Begins, fp
<1>6. host \in [slot : [Register -> Word], r15d : Word]
  BY <1>1, <1>3, <1>5
<1>7. View(host) = guest
  <2> HIDE DEF slots
  <2> QED
    BY <1>4, <1>5 DEF View, fp
<1> QED
  BY <1>1, <1>6, <1>7 DEF Agreed

(* The configurations are those that both lemmas on pointers are about. *)
LEMMA ConfigurationsAre ==
    ASSUME NEW c \in Configurations
    PROVE  Proper(c) /\ Blocks(c)
BY SideBySideAssumption DEF Proper, Blocks

(* One instruction that does not access memory. *)
LEMMA ExecuteEnds ==
    ASSUME Begins, NEW sort \in Sorts, NEW op \in sort[1], NEW i \in sort[2], Execute(op, i)
    PROVE  /\ EnginesAgree' /\ NullFaults'
           /\ Raised(executed'[3]) => guest' = guest /\ memory'.guest = memory.guest
           /\ Raised(executed'[4]) => View(host') = View(host) /\ memory'.host = memory.host
           /\ Len(executed') = 4 /\ executed' # <<>>
<1> DEFINE interpreted == Interpret(op, guest, i)
           emitted == Emitted(op, host, i)
<1>1. /\ Undoes(interpreted, emitted, host, guest)
      /\ Differs(op, i, interpreted.regs) \/ Alike(interpreted, emitted, guest)
  BY BeginsAgreed, OperandsFit, InstructionsEnd DEF Execute
<1>2. /\ executed' = <<op, i, interpreted.out, emitted.out>>
      /\ guest' = interpreted.regs /\ host' = emitted.regs /\ memory' = memory
  BY DEF Execute
<1> HIDE DEF interpreted, emitted
<1>3. /\ executed'[1] = op /\ executed'[2] = i /\ executed'[3] = interpreted.out
      /\ executed'[4] = emitted.out /\ Len(executed') = 4 /\ executed' # <<>>
  BY <1>2
<1>4. ~IsAccess'
  BY <1>3 DEF IsAccess
<1>5. NullFaults'
  BY <1>4 DEF NullFaults
<1>6. EnginesAgree'
  <2>1. CASE Differs(op, i, interpreted.regs)
    <3>1. Distinct'
      BY <1>2, <1>3, <1>4, <2>1 DEF Distinct
    <3> QED
      BY <3>1 DEF EnginesAgree
  <2>2. CASE Alike(interpreted, emitted, guest)
    <3>1. SameState'
      BY <1>2, <1>3, <2>2 DEF SameState, Alike, Begins, View
    <3> QED
      BY <3>1 DEF EnginesAgree
  <2> QED
    BY <1>1, <2>1, <2>2
<1> QED
  BY <1>1, <1>2, <1>3, <1>5, <1>6 DEF Undoes, Raised, View

(* One access to memory. *)
LEMMA AccessEnds ==
    ASSUME Begins, NEW sort \in MemorySorts, NEW c \in Configurations,
           NEW op \in sort[1], NEW i \in sort[2], Access(op, i, c)
    PROVE  /\ Raised(executed'[3]) => guest' = guest /\ memory'.guest = memory.guest
           /\ Raised(executed'[4]) => View(host') = View(host) /\ memory'.host = memory.host
           /\ executed' # <<>> /\ executed'[1] = op /\ executed'[5] = c
           /\ SmallMemory => EnginesAgree' /\ NullFaults'
           /\ \A b \in c.executable :
                \/ ReachesPast(b, executed'[6], Bytes(op))
                \/ memory'.guest = memory.guest /\ memory'.host = memory.host
<1> DEFINE interpreted == InterpretAccess(op, guest, i, c)
           emitted == EmittedAccess(op, host, i, c)
           address == AddressOf(op, guest, i)
<1>1. /\ op \in Loads \cup Stores \cup {"LWPC", "CACHE"}
      /\ i.rs \in Register /\ i.rt \in Register /\ i.imm \in Half
      /\ Agreed(host, guest) /\ Proper(c) /\ Blocks(c) /\ memory.host = memory.guest
  BY AccessOperandsFit, BeginsAgreed, ConfigurationsAre DEF Begins
<1>2. /\ Kept(interpreted, guest, memory.guest) /\ Kept(emitted, host, memory.host)
      /\ op \notin Stores => interpreted.memory = memory.guest /\ emitted.memory = memory.host
  BY <1>1, AccessesKeep
<1>3. SmallMemory /\ ~AccessDiffers(op, i, c, address) => AccessAlike(interpreted, emitted)
  BY <1>1, AccessesAlike
<1>4. IM!TouchesZero(address, Bytes(op)) => Stops(interpreted.out)
  BY <1>1, NullStops
<1>5. ASSUME op \in Stores, NEW b \in c.executable, ~ReachesPast(b, address, Bytes(op))
      PROVE  interpreted.memory = memory.guest /\ emitted.memory = memory.host
  BY <1>1, <1>5, StoresStand
<1>6. /\ executed' = <<op, i, interpreted.out, emitted.out, c, address>>
      /\ guest' = interpreted.regs /\ host' = emitted.regs
      /\ memory' = [guest |-> interpreted.memory, host |-> emitted.memory]
  BY DEF Access
<1> HIDE DEF interpreted, emitted, address
<1>7. /\ executed'[1] = op /\ executed'[2] = i /\ executed'[3] = interpreted.out
      /\ executed'[4] = emitted.out /\ executed'[5] = c /\ executed'[6] = address
      /\ Len(executed') = 6 /\ executed' # <<>>
      /\ memory'.guest = interpreted.memory /\ memory'.host = emitted.memory
  BY <1>6
<1>8. IsAccess'
  BY <1>7 DEF IsAccess
<1>9. Distinct' = AccessDiffers(op, i, c, address)
  BY <1>7, <1>8 DEF Distinct
<1>10. ASSUME SmallMemory PROVE EnginesAgree' /\ NullFaults'
  <2>1. ~Distinct' => AccessAlike(interpreted, emitted)
    BY <1>3, <1>9, <1>10
  <2>2. AccessAlike(interpreted, emitted) => SameState'
    BY <1>6, <1>7 DEF SameState, AccessAlike, View
  <2>3. AccessAlike(interpreted, emitted) => emitted.out = interpreted.out
    BY DEF AccessAlike
  <2>4. IM!TouchesZero(executed'[6], Bytes(executed'[1])) => Stops(interpreted.out)
    BY <1>4, <1>7
  <2>5. NullFaults'
    BY <1>7, <2>1, <2>3, <2>4 DEF NullFaults
  <2> QED
    BY <2>1, <2>2, <2>5 DEF EnginesAgree
<1>11. Raised(executed'[3]) => guest' = guest /\ memory'.guest = memory.guest
  BY <1>2, <1>6, <1>7 DEF Raised, Kept
<1>12. Raised(executed'[4]) => View(host') = View(host) /\ memory'.host = memory.host
  BY <1>2, <1>6, <1>7 DEF Raised, Kept, View
<1>13. ASSUME NEW b \in c.executable, ~ReachesPast(b, executed'[6], Bytes(op))
       PROVE  memory'.guest = memory.guest /\ memory'.host = memory.host
  BY <1>2, <1>5, <1>7, <1>13
<1> QED
  BY <1>7, <1>10, <1>11, <1>12, <1>13

-------------------------------------------------------------------------------
(* The theorems.  Nothing is executed twice: what has to be invariant is     *)
(* only that the two machines agree while nothing is executed yet.           *)

Ready == executed = <<>> => Begins

(* It holds at the start, *)
LEMMA InitReady == Init => Ready
<1>1. ASSUME NEW contents, memory = [guest |-> contents, host |-> contents]
      PROVE  memory.host = memory.guest
  BY <1>1
<1> QED
  BY <1>1 DEF Init, Ready, Begins

(* One step: an instruction or an access, from machines that agree. *)
LEMMA NextEnds ==
    ASSUME Ready, Next
    PROVE  /\ executed' # <<>>
           /\ Raised(executed'[3]) => guest' = guest /\ memory'.guest = memory.guest
           /\ Raised(executed'[4]) => View(host') = View(host) /\ memory'.host = memory.host
           /\ SmallMemory => EnginesAgree' /\ NullFaults'
           /\ Len(executed') = 6 => \A b \in executed'[5].executable :
                \/ ReachesPast(b, executed'[6], Bytes(executed'[1]))
                \/ memory'.guest = memory.guest /\ memory'.host = memory.host
<1>1. Begins
  BY DEF Ready, Next
<1>2. CASE \E sort \in Sorts : \E op \in sort[1], i \in sort[2] : Execute(op, i)
  <2>1. PICK sort \in Sorts : \E op \in sort[1], i \in sort[2] : Execute(op, i)
    BY <1>2
  <2>2. PICK op \in sort[1], i \in sort[2] : Execute(op, i)
    BY <2>1
  <2>3. Len(executed') = 4
    BY <1>1, <2>2, ExecuteEnds
  <2>4. Len(executed') # 6
    BY <2>3
  <2> QED
    BY <1>1, <2>2, <2>4, ExecuteEnds
<1>3. CASE \E sort \in MemorySorts, c \in Configurations :
              \E op \in sort[1], i \in sort[2] : Access(op, i, c)
  <2>1. PICK sort \in MemorySorts, c \in Configurations :
              \E op \in sort[1], i \in sort[2] : Access(op, i, c)
    BY <1>3
  <2>2. PICK op \in sort[1], i \in sort[2] : Access(op, i, c)
    BY <2>1
  <2> QED
    BY <1>1, <2>2, AccessEnds
<1> QED
  BY <1>2, <1>3 DEF Next

(* after every step, *)
LEMMA NextReady == Ready /\ [Next]_vars => Ready'
BY NextEnds DEF Ready, vars, Begins

(* and so always. *)
LEMMA AlwaysReady == Spec => []Ready
BY InitReady, NextReady, PTL DEF Spec

(* The two engines end every instruction alike and leave the guest the same  *)
(* registers and memory, but for the differences that are listed by          *)
(* operation: for words of any width, any registers, operands and contents,  *)
(* and any memory that ends below the sign bit, where the base register of   *)
(* an access and its displacement are added alike.                           *)
THEOREM EnginesAlwaysAgree ==
    ASSUME SmallMemory
    PROVE  Spec => []EnginesAgree
<1>1. Init => EnginesAgree
  BY DEF Init, EnginesAgree
<1>2. Ready /\ EnginesAgree /\ [Next]_vars => EnginesAgree'
  <2>1. ASSUME UNCHANGED vars PROVE EnginesAgree' <=> EnginesAgree
    BY <2>1 DEF vars, EnginesAgree, Distinct, SameState, IsAccess, View
  <2> QED
    BY <2>1, NextEnds
<1> QED
  BY <1>1, <1>2, AlwaysReady, PTL DEF Spec

(* No engine follows a null pointer: an access with a byte at address 0      *)
(* raises in the interpreter, and in emitted code but for the listed         *)
(* differences (a load into $0 is not emitted).                              *)
THEOREM NullAlwaysFaults ==
    ASSUME SmallMemory
    PROVE  Spec => []NullFaults
<1>1. Init => NullFaults
  BY DEF Init, NullFaults
<1>2. Ready /\ NullFaults /\ [Next]_vars => NullFaults'
  <2>1. ASSUME UNCHANGED vars PROVE NullFaults' <=> NullFaults
    BY <2>1 DEF vars, NullFaults, Distinct, IsAccess
  <2> QED
    BY <2>1, NextEnds
<1> QED
  BY <1>1, <1>2, AlwaysReady, PTL DEF Spec

(* An instruction that raises an exception leaves the registers and the      *)
(* memory of the guest as it found them, in the handlers and in emitted code *)
(* that has already begun to write its destination.                          *)
THEOREM ExceptionsUndo == Spec => ExceptionUndoes
<1> DEFINE Step ==
       /\ Raised(executed'[3]) => guest' = guest /\ memory'.guest = memory.guest
       /\ Raised(executed'[4]) =>
            View(host') = View(host) /\ memory'.host = memory.host
<1>1. Ready /\ [Next]_vars => [Step]_vars
  BY NextEnds
<1>2. ExceptionUndoes <=> [][Step]_vars
  BY DEF ExceptionUndoes
<1> HIDE DEF Step
<1> QED
  BY <1>1, <1>2, AlwaysReady, PTL DEF Spec

(* With executable memory read-only, a byte of a block of it changes in      *)
(* either engine only by a store that reaches past an end of that block:     *)
(* for blocks that begin and end anywhere.                                   *)
THEOREM ExecutableAlwaysStands == Spec => ExecutableStands
<1> DEFINE Step ==
       Len(executed') = 6 =>
        \A b \in executed'[5].executable :
            \/ ReachesPast(b, executed'[6], Bytes(executed'[1]))
            \/ \A p \in b[1] .. b[2] - 1 :
                  /\ memory'.guest[p] = memory.guest[p]
                  /\ memory'.host[p] = memory.host[p]
<1>1. Ready /\ [Next]_vars => [Step]_vars
  BY NextEnds
<1>2. ExecutableStands <=> [][Step]_vars
  BY DEF ExecutableStands
<1> HIDE DEF Step
<1> QED
  BY <1>1, <1>2, AlwaysReady, PTL DEF Spec

-------------------------------------------------------------------------------
(* Coprocessor 1: units *)

UnitWith(f, mode, flags, enables, cause, raw, clocks) ==
    [f |-> f, mode |-> mode, flags |-> flags, enables |-> enables, cause |-> cause,
     raw |-> raw, clocks |-> clocks]

(* The parts of a unit *)
LEMMA PartsAre ==
    ASSUME NEW f, NEW mode, NEW flags, NEW enables, NEW cause, NEW raw, NEW clocks, NEW u,
           u = UnitWith(f, mode, flags, enables, cause, raw, clocks)
    PROVE  /\ u.f = f /\ u.mode = mode /\ u.flags = flags /\ u.enables = enables
           /\ u.cause = cause /\ u.raw = raw /\ u.clocks = clocks
BY DEF UnitWith

(* Flags that are raised besides. *)
LEMMA FlagsAre ==
    ASSUME NEW f, NEW mode, NEW flags, NEW enables, NEW cause, NEW raw, NEW clocks, NEW u,
           u = UnitWith(f, mode, flags, enables, cause, raw, clocks), NEW x
    PROVE  [u EXCEPT !.flags = @ \cup x]
                = UnitWith(f, mode, flags \cup x, enables, cause, raw, clocks)
BY DEF UnitWith

(* A clock to come, as a name: the provers do not take TRUE for an operand. *)
Due == TRUE

(* Units that are the same, or the same but for the reserved bits, with a    *)
(* clock of the second still to come.                                        *)
Twins(late, v, w) ==
    \E f, mode, flags, enables, cause, one, two : \E clocks \in BOOLEAN :
        /\ v = UnitWith(f, mode, flags, enables, cause, one, clocks)
        /\ w = UnitWith(f, mode, flags, enables, cause, two, clocks)
        /\ IF late THEN clocks = Due ELSE one = two

(* Twins from their parts. *)
LEMMA TwinsMade ==
    ASSUME NEW late \in BOOLEAN, NEW f, NEW mode, NEW flags, NEW enables, NEW cause,
           NEW one, NEW two, NEW clocks \in BOOLEAN, NEW v, NEW w,
           v = UnitWith(f, mode, flags, enables, cause, one, clocks),
           w = UnitWith(f, mode, flags, enables, cause, two, clocks),
           IF late THEN clocks = Due ELSE one = two
    PROVE  Twins(late, v, w)
BY DEF Twins

(* What twins are given alike leaves them twins. *)
LEMMA WritesTwin ==
    ASSUME NEW late \in BOOLEAN, NEW v, NEW w, Twins(late, v, w), NEW n, NEW x
    PROVE  /\ Twins(late, CI!SetLow(v, n, x), CI!SetLow(w, n, x))
           /\ Twins(late, CI!SetHigh(v, n, x), CI!SetHigh(w, n, x))
           /\ Twins(late, CI!Set(v, CI!Double, n, x), CI!Set(w, CI!Double, n, x))
           /\ Twins(late, CI!ClearCause(v), CI!ClearCause(w))
           /\ Twins(late, CI!SetFlag(v, x), CI!SetFlag(w, x))
           /\ Twins(late, [v EXCEPT !.flags = @ \cup x], [w EXCEPT !.flags = @ \cup x])
           /\ Twins(late, [v EXCEPT !.mode = x], [w EXCEPT !.mode = x])
           /\ Twins(late, [v EXCEPT !.flags = x], [w EXCEPT !.flags = x])
           /\ Twins(late, [v EXCEPT !.enables = x], [w EXCEPT !.enables = x])
           /\ Twins(late, [v EXCEPT !.cause = x], [w EXCEPT !.cause = x])
<1>1. PICK f, mode, flags, enables, cause, one, two, clocks :
        /\ v = UnitWith(f, mode, flags, enables, cause, one, clocks)
        /\ w = UnitWith(f, mode, flags, enables, cause, two, clocks)
        /\ clocks \in BOOLEAN /\ IF late THEN clocks = Due ELSE one = two
  BY DEF Twins
<1>3. CI!Double # CI!Single
  BY WordsAssumption DEF CI!Double, CI!Single
<1>4. Twins(late, CI!SetLow(v, n, x), CI!SetLow(w, n, x))
  <2>1. /\ CI!SetLow(v, n, x) = UnitWith([f EXCEPT ![n] = <<x, @[2]>>], mode, flags, enables, cause, one, clocks)
        /\ CI!SetLow(w, n, x) = UnitWith([f EXCEPT ![n] = <<x, @[2]>>], mode, flags, enables, cause, two, clocks)
    BY <1>1 DEF UnitWith, CI!SetLow
  <2> QED
    BY <1>1, <2>1, TwinsMade
<1>5. Twins(late, CI!SetHigh(v, n, x), CI!SetHigh(w, n, x))
  <2>1. /\ CI!SetHigh(v, n, x) = UnitWith([f EXCEPT ![n] = <<@[1], x>>], mode, flags, enables, cause, one, clocks)
        /\ CI!SetHigh(w, n, x) = UnitWith([f EXCEPT ![n] = <<@[1], x>>], mode, flags, enables, cause, two, clocks)
    BY <1>1 DEF UnitWith, CI!SetHigh
  <2> QED
    BY <1>1, <2>1, TwinsMade
<1>6. Twins(late, CI!Set(v, CI!Double, n, x), CI!Set(w, CI!Double, n, x))
  <2>1. /\ CI!Set(v, CI!Double, n, x) = UnitWith([f EXCEPT ![n] = <<CI!Wrap(x), x \div 2^Bits>>], mode, flags, enables, cause, one, clocks)
        /\ CI!Set(w, CI!Double, n, x) = UnitWith([f EXCEPT ![n] = <<CI!Wrap(x), x \div 2^Bits>>], mode, flags, enables, cause, two, clocks)
    BY <1>3, <1>1 DEF UnitWith, CI!Set
  <2> QED
    BY <1>1, <2>1, TwinsMade
<1>7. Twins(late, CI!ClearCause(v), CI!ClearCause(w))
  <2>1. /\ CI!ClearCause(v) = UnitWith(f, mode, flags, enables, {}, one, clocks)
        /\ CI!ClearCause(w) = UnitWith(f, mode, flags, enables, {}, two, clocks)
    BY <1>1 DEF UnitWith, CI!ClearCause
  <2> QED
    BY <1>1, <2>1, TwinsMade
<1>8. Twins(late, CI!SetFlag(v, x), CI!SetFlag(w, x))
  <2>1. /\ CI!SetFlag(v, x) = UnitWith(f, mode, flags \cup {x}, enables, cause, one, clocks)
        /\ CI!SetFlag(w, x) = UnitWith(f, mode, flags \cup {x}, enables, cause, two, clocks)
    BY <1>1 DEF UnitWith, CI!SetFlag
  <2> QED
    BY <1>1, <2>1, TwinsMade
<1>9. Twins(late, [v EXCEPT !.flags = @ \cup x], [w EXCEPT !.flags = @ \cup x])
  <2> DEFINE a == [v EXCEPT !.flags = @ \cup x]
             b == [w EXCEPT !.flags = @ \cup x]
  <2>3. a = UnitWith(f, mode, flags \cup x, enables, cause, one, clocks)
    <3>1. v = UnitWith(f, mode, flags, enables, cause, one, clocks)
      BY <1>1
    <3> QED
      BY ONLY <3>1, FlagsAre
  <2>4. b = UnitWith(f, mode, flags \cup x, enables, cause, two, clocks)
    <3>1. w = UnitWith(f, mode, flags, enables, cause, two, clocks)
      BY <1>1
    <3> QED
      BY ONLY <3>1, FlagsAre
  <2>1. /\ a = UnitWith(f, mode, flags \cup x, enables, cause, one, clocks)
        /\ b = UnitWith(f, mode, flags \cup x, enables, cause, two, clocks)
    BY <2>3, <2>4
  <2> HIDE DEF a, b
  <2>2. Twins(late, a, b)
    BY <1>1, <2>1, TwinsMade
  <2> QED
    BY <2>2 DEF a, b
<1>10. Twins(late, [v EXCEPT !.mode = x], [w EXCEPT !.mode = x])
  <2> DEFINE a == [v EXCEPT !.mode = x]
             b == [w EXCEPT !.mode = x]
  <2>1. /\ a = UnitWith(f, x, flags, enables, cause, one, clocks)
        /\ b = UnitWith(f, x, flags, enables, cause, two, clocks)
    BY <1>1 DEF UnitWith
  <2> HIDE DEF a, b
  <2>2. Twins(late, a, b)
    BY <1>1, <2>1, TwinsMade
  <2> QED
    BY <2>2 DEF a, b
<1>11. Twins(late, [v EXCEPT !.flags = x], [w EXCEPT !.flags = x])
  <2> DEFINE a == [v EXCEPT !.flags = x]
             b == [w EXCEPT !.flags = x]
  <2>1. /\ a = UnitWith(f, mode, x, enables, cause, one, clocks)
        /\ b = UnitWith(f, mode, x, enables, cause, two, clocks)
    BY <1>1 DEF UnitWith
  <2> HIDE DEF a, b
  <2>2. Twins(late, a, b)
    BY <1>1, <2>1, TwinsMade
  <2> QED
    BY <2>2 DEF a, b
<1>12. Twins(late, [v EXCEPT !.enables = x], [w EXCEPT !.enables = x])
  <2> DEFINE a == [v EXCEPT !.enables = x]
             b == [w EXCEPT !.enables = x]
  <2>1. /\ a = UnitWith(f, mode, flags, x, cause, one, clocks)
        /\ b = UnitWith(f, mode, flags, x, cause, two, clocks)
    BY <1>1 DEF UnitWith
  <2> HIDE DEF a, b
  <2>2. Twins(late, a, b)
    BY <1>1, <2>1, TwinsMade
  <2> QED
    BY <2>2 DEF a, b
<1>13. Twins(late, [v EXCEPT !.cause = x], [w EXCEPT !.cause = x])
  <2> DEFINE a == [v EXCEPT !.cause = x]
             b == [w EXCEPT !.cause = x]
  <2>1. /\ a = UnitWith(f, mode, flags, enables, x, one, clocks)
        /\ b = UnitWith(f, mode, flags, enables, x, two, clocks)
    BY <1>1 DEF UnitWith
  <2> HIDE DEF a, b
  <2>2. Twins(late, a, b)
    BY <1>1, <2>1, TwinsMade
  <2> QED
    BY <2>2 DEF a, b
<1> QED
  BY <1>4, <1>5, <1>6, <1>7, <1>8, <1>9, <1>10, <1>11, <1>12, <1>13

(* What twins have in common. *)
LEMMA TwinsAre ==
    ASSUME NEW late \in BOOLEAN, NEW v, NEW w, Twins(late, v, w)
    PROVE  /\ v.f = w.f /\ v.mode = w.mode /\ v.flags = w.flags /\ v.enables = w.enables
           /\ v.cause = w.cause
           /\ ~late => v = w
           /\ late => w.clocks /\ Clock(v) = Clock(w)
<1>1. PICK f, mode, flags, enables, cause, one, two, clocks :
        /\ v = UnitWith(f, mode, flags, enables, cause, one, clocks)
        /\ w = UnitWith(f, mode, flags, enables, cause, two, clocks)
        /\ clocks \in BOOLEAN /\ IF late THEN clocks = Due ELSE one = two
  BY DEF Twins
<1>3. /\ v.f = w.f /\ v.mode = w.mode /\ v.flags = w.flags /\ v.enables = w.enables
      /\ v.cause = w.cause
  BY <1>1, PartsAre
<1>4. ~late => v = w
  BY <1>1
<1>5. late => w.clocks
  BY <1>1 DEF UnitWith, Due
<1>6. Clock(v) = Clock(w)
  <2>1. ASSUME NEW raw \in BOOLEAN, ~raw
        PROVE  /\ Clock(v) = UnitWith(f, mode, flags, enables, cause, raw, clocks)
               /\ Clock(w) = UnitWith(f, mode, flags, enables, cause, raw, clocks)
    <3>1. Clock(v) = [v EXCEPT !.raw = raw] /\ Clock(w) = [w EXCEPT !.raw = raw]
      BY <2>1 DEF Clock
    <3> QED
      BY <1>1, <3>1 DEF UnitWith
  <2>2. \E raw \in BOOLEAN : ~raw
    OBVIOUS
  <2> QED
    BY <2>1, <2>2
<1> QED
  BY <1>3, <1>4, <1>5, <1>6

(* A signal sets its flag and its cause, and is a reason to clock. *)
LEMMA SignalledIs ==
    ASSUME NEW f, NEW mode, NEW flags, NEW enables, NEW cause, NEW raw, NEW clocks,
           NEW u, u = UnitWith(f, mode, flags, enables, cause, raw, clocks),
           NEW T, T # {}
    PROVE  CI!Signalled(u, T)
            = UnitWith(f, mode, flags \cup T, enables, cause \cup T, raw, Due)
<1> DEFINE x == [u EXCEPT !.flags = u.flags \cup T]
           y == [x EXCEPT !.cause = x.cause \cup T]
           z == [y EXCEPT !.clocks = y.clocks \/ T # {}]
<1>1. CI!Signalled(u, T) = z
  BY DEF CI!Signalled
<1>2. x = UnitWith(f, mode, flags \cup T, enables, cause, raw, clocks)
  BY DEF UnitWith
<1> HIDE DEF x
<1>3. y = UnitWith(f, mode, flags \cup T, enables, cause \cup T, raw, clocks)
  BY <1>2 DEF UnitWith
<1> HIDE DEF y
<1>5. z = [y EXCEPT !.clocks = Due]
  BY DEF Due
<1> HIDE DEF z
<1> QED
  BY <1>1, <1>3, <1>5 DEF UnitWith

(* To signal nothing changes nothing. *)
LEMMA NotSignalled ==
    ASSUME NEW f, NEW mode, NEW flags, NEW enables, NEW cause, NEW raw,
           NEW clocks \in BOOLEAN, NEW u,
           u = UnitWith(f, mode, flags, enables, cause, raw, clocks)
    PROVE  CI!Signalled(u, {}) = u
<1> DEFINE x == [u EXCEPT !.flags = u.flags \cup {}]
           y == [x EXCEPT !.cause = x.cause \cup {}]
           z == [y EXCEPT !.clocks = y.clocks \/ {} # {}]
<1>1. CI!Signalled(u, {}) = z
  BY DEF CI!Signalled
<1>0. flags \cup {} = flags /\ cause \cup {} = cause
  OBVIOUS
<1>2. x = u
  BY <1>0 DEF UnitWith
<1> HIDE DEF x
<1>3. y = u
  BY <1>0, <1>2 DEF UnitWith
<1> HIDE DEF y
<1>4. y.clocks \/ {} # {} <=> clocks
  BY <1>3 DEF UnitWith
<1>5. z = [u EXCEPT !.clocks = clocks]
  BY <1>3, <1>4
<1> HIDE DEF z
<1> QED
  BY <1>1, <1>5 DEF UnitWith

(* A signal is a reason to clock. *)
LEMMA SignalsTwin ==
    ASSUME NEW late \in BOOLEAN, NEW v, NEW w, Twins(late, v, w), NEW S
    PROVE  /\ Twins(late, CI!Signalled(v, S), CI!Signalled(w, S))
           /\ CI!Signalled(v, S).f = v.f /\ CI!Signalled(v, S).enables = v.enables
<1>1. PICK f, mode, flags, enables, cause, one, two, clocks :
        /\ v = UnitWith(f, mode, flags, enables, cause, one, clocks)
        /\ w = UnitWith(f, mode, flags, enables, cause, two, clocks)
        /\ clocks \in BOOLEAN /\ IF late THEN clocks = Due ELSE one = two
  BY DEF Twins
<1>4. ASSUME S # {}
      PROVE  /\ Twins(late, CI!Signalled(v, S), CI!Signalled(w, S))
             /\ CI!Signalled(v, S).f = v.f /\ CI!Signalled(v, S).enables = v.enables
  <2>1. CI!Signalled(v, S) = UnitWith(f, mode, flags \cup S, enables, cause \cup S, one, Due)
    BY <1>1, <1>4, SignalledIs
  <2>2. CI!Signalled(w, S) = UnitWith(f, mode, flags \cup S, enables, cause \cup S, two, Due)
    BY <1>1, <1>4, SignalledIs
  <2>0. Due \in BOOLEAN
    BY DEF Due
  <2>3. Twins(late, CI!Signalled(v, S), CI!Signalled(w, S))
    BY <1>1, <2>0, <2>1, <2>2, TwinsMade
  <2>5. CI!Signalled(v, S).f = f /\ CI!Signalled(v, S).enables = enables
    BY <2>1 DEF UnitWith
  <2>4. v.f = f /\ v.enables = enables
    BY <1>1, PartsAre
  <2> QED
    BY <2>3, <2>4, <2>5
<1>5. CI!Signalled(v, {}) = v /\ CI!Signalled(w, {}) = w
  BY <1>1, NotSignalled
<1> QED
  BY <1>4, <1>5

(* So is a comparison. *)
LEMMA DueTwin ==
    ASSUME NEW late \in BOOLEAN, NEW v, NEW w, Twins(late, v, w)
    PROVE  Twins(late, [v EXCEPT !.clocks = TRUE], [w EXCEPT !.clocks = TRUE])
<1>1. PICK f, mode, flags, enables, cause, one, two, clocks :
        /\ v = UnitWith(f, mode, flags, enables, cause, one, clocks)
        /\ w = UnitWith(f, mode, flags, enables, cause, two, clocks)
        /\ clocks \in BOOLEAN /\ IF late THEN clocks = Due ELSE one = two
  BY DEF Twins
<1> DEFINE x == [v EXCEPT !.clocks = TRUE]
           y == [w EXCEPT !.clocks = TRUE]
<1>3. x = [v EXCEPT !.clocks = Due] /\ y = [w EXCEPT !.clocks = Due]
  BY DEF Due
<1>4. /\ x = UnitWith(f, mode, flags, enables, cause, one, Due)
      /\ y = UnitWith(f, mode, flags, enables, cause, two, Due)
  BY <1>1, <1>3 DEF UnitWith
<1> HIDE DEF x, y
<1>5. Due \in BOOLEAN
  BY DEF Due
<1>6. Twins(late, x, y)
  BY <1>1, <1>4, <1>5, TwinsMade
<1> QED
  BY <1>6 DEF x, y

(* Reserved bits that are written leave a clock to come. *)
LEMMA RawTwins ==
    ASSUME NEW late \in BOOLEAN, NEW v, NEW w, Twins(late, v, w), NEW b \in BOOLEAN
    PROVE  Twins(late, [v EXCEPT !.raw = b], [w EXCEPT !.raw = b])
<1>1. PICK f, mode, flags, enables, cause, one, two, clocks :
        /\ v = UnitWith(f, mode, flags, enables, cause, one, clocks)
        /\ w = UnitWith(f, mode, flags, enables, cause, two, clocks)
        /\ clocks \in BOOLEAN /\ IF late THEN clocks = Due ELSE one = two
  BY DEF Twins
<1>3. Twins(late, [v EXCEPT !.raw = b], [w EXCEPT !.raw = b])
  <2> DEFINE x == [v EXCEPT !.raw = b]
             y == [w EXCEPT !.raw = b]
  <2>1. /\ x = UnitWith(f, mode, flags, enables, cause, b, clocks)
        /\ y = UnitWith(f, mode, flags, enables, cause, b, clocks)
    BY <1>1 DEF UnitWith
  <2> HIDE DEF x, y
  <2>2. Twins(late, x, y)
    BY <1>1, <2>1, TwinsMade
  <2> QED
    BY <2>2 DEF x, y
<1> QED
  BY <1>3

(* What is written beside the registers. *)
LEMMA StatusTwins ==
    ASSUME NEW late \in BOOLEAN, NEW v, NEW w, Twins(late, v, w), NEW x
    PROVE  /\ CI!ClearCause(v).f = v.f /\ CI!ClearCause(v).enables = v.enables
           /\ CI!SetFlag(v, x).f = v.f /\ CI!SetFlag(v, x).enables = v.enables
           /\ [v EXCEPT !.clocks = TRUE].f = v.f /\ [v EXCEPT !.clocks = TRUE].enables = v.enables
           /\ [v EXCEPT !.flags = @ \cup x].f = v.f
<1>1. PICK f, mode, flags, enables, cause, one, two : \E clocks \in BOOLEAN :
        /\ v = UnitWith(f, mode, flags, enables, cause, one, clocks)
        /\ w = UnitWith(f, mode, flags, enables, cause, two, clocks)
        /\ IF late THEN clocks = Due ELSE one = two
  BY DEF Twins
<1>2. PICK clocks \in BOOLEAN : v = UnitWith(f, mode, flags, enables, cause, one, clocks)
  BY <1>1
<1> QED
  BY <1>2 DEF CI!ClearCause, CI!SetFlag, UnitWith

(* A unit is its parts. *)
LEMMA UnitsAre ==
    ASSUME NEW u \in Unit
    PROVE  /\ u = UnitWith(u.f, u.mode, u.flags, u.enables, u.cause, u.raw, u.clocks)
           /\ u.clocks \in BOOLEAN /\ u.raw \in BOOLEAN
BY DEF Unit, UnitWith

(* Where a chunk is not entered JIT1 is a clock behind. *)
LEMMA ClocksTwin ==
    ASSUME NEW u \in Unit, NEW entered \in BOOLEAN, NEW late \in BOOLEAN,
           late = ~entered, late => u.clocks
    PROVE  /\ Twins(late, ClockedIf(u, TRUE), ClockedIf(u, entered))
           /\ ClockedIf(u, TRUE).f = u.f /\ ClockedIf(u, entered).f = u.f
<1>1. /\ u = UnitWith(u.f, u.mode, u.flags, u.enables, u.cause, u.raw, u.clocks)
      /\ u.clocks \in BOOLEAN
  BY UnitsAre
<1>2. Clock(u).f = u.f
  BY <1>1 DEF Clock, UnitWith
<1>3. ClockedIf(u, TRUE).f = u.f /\ ClockedIf(u, entered).f = u.f
  BY <1>2 DEF ClockedIf
<1>4. ASSUME NEW b \in BOOLEAN, b = FALSE
      PROVE  Clock(u) = UnitWith(u.f, u.mode, u.flags, u.enables, u.cause, b, u.clocks)
  <2>1. Clock(u) = [u EXCEPT !.raw = b]
    BY <1>4 DEF Clock
  <2> QED
    BY <1>1, <2>1 DEF UnitWith
<1>5. CASE late
  <2>1. u.clocks = Due
    BY <1>1, <1>5 DEF Due
  <2>2. ClockedIf(u, TRUE) = Clock(u) /\ ClockedIf(u, entered) = u
    BY <1>5 DEF ClockedIf
  <2>3. ASSUME NEW b \in BOOLEAN, b = FALSE
        PROVE  Twins(late, Clock(u), u)
    <3> DEFINE v == Clock(u)
    <3>1. v = UnitWith(u.f, u.mode, u.flags, u.enables, u.cause, b, u.clocks)
      BY <1>4, <2>3
    <3> HIDE DEF v
    <3>2. Twins(late, v, u)
      BY <1>1, <1>5, <2>1, <3>1, TwinsMade
    <3> QED
      BY <3>2 DEF v
  <2> QED
    BY <1>3, <2>2, <2>3
<1>6. CASE ~late
  <2>1. ClockedIf(u, TRUE) = ClockedIf(u, entered)
    BY <1>6 DEF ClockedIf
  <2>2. ClockedIf(u, entered) = u \/ ClockedIf(u, entered) = Clock(u)
    BY DEF ClockedIf
  <2>3. ASSUME NEW b \in BOOLEAN, b = FALSE
        PROVE  Twins(late, Clock(u), Clock(u)) /\ Twins(late, u, u)
    <3> DEFINE v == Clock(u)
    <3>1. v = UnitWith(u.f, u.mode, u.flags, u.enables, u.cause, b, u.clocks)
      BY <1>4, <2>3
    <3> HIDE DEF v
    <3>2. Twins(late, v, v) /\ Twins(late, u, u)
      BY <1>1, <1>6, <3>1, TwinsMade
    <3> QED
      BY <3>2 DEF v
  <2> QED
    BY <1>3, <2>1, <2>2, <2>3
<1> QED
  BY <1>5, <1>6

(* What twins are read alike, and written alike in every format. *)
LEMMA ReadsTwin ==
    ASSUME NEW late \in BOOLEAN, NEW v, NEW w, Twins(late, v, w), NEW F, NEW n, NEW x
    PROVE  /\ CI!Get(v, F, n) = CI!Get(w, F, n)
           /\ Twins(late, CI!Set(v, F, n, x), CI!Set(w, F, n, x))
<1>1. CI!Get(v, F, n) = CI!Get(w, F, n)
  BY TwinsAre DEF CI!Get
<1>2. CI!Double # CI!Single
  BY WordsAssumption DEF CI!Double, CI!Single
<1>3. CASE F = CI!Single
  <2>1. CI!Set(v, F, n, x) = CI!SetLow(v, n, x) /\ CI!Set(w, F, n, x) = CI!SetLow(w, n, x)
    BY <1>3 DEF CI!Set
  <2>2. Twins(late, CI!SetLow(v, n, x), CI!SetLow(w, n, x))
    BY WritesTwin
  <2> QED
    BY <1>1, <2>1, <2>2
<1>4. CASE F # CI!Single
  <2>1. /\ CI!Set(v, F, n, x) = CI!Set(v, CI!Double, n, x)
        /\ CI!Set(w, F, n, x) = CI!Set(w, CI!Double, n, x)
    BY <1>2, <1>4 DEF CI!Set
  <2>2. Twins(late, CI!Set(v, CI!Double, n, x), CI!Set(w, CI!Double, n, x))
    BY WritesTwin
  <2> QED
    BY <1>1, <2>1, <2>2
<1> QED
  BY <1>3, <1>4

(* What a reserved bit does not change *)
LEMMA RawKeeps ==
    ASSUME NEW late \in BOOLEAN, NEW v, NEW w, Twins(late, v, w), NEW b \in BOOLEAN
    PROVE  [v EXCEPT !.raw = b].f = v.f
<1>1. PICK f, mode, flags, enables, cause, one, two : \E clocks \in BOOLEAN :
        /\ v = UnitWith(f, mode, flags, enables, cause, one, clocks)
        /\ w = UnitWith(f, mode, flags, enables, cause, two, clocks)
        /\ IF late THEN clocks = Due ELSE one = two
  BY DEF Twins
<1>2. PICK clocks \in BOOLEAN : v = UnitWith(f, mode, flags, enables, cause, one, clocks)
  BY <1>1
<1> QED
  BY <1>2 DEF UnitWith

(* Without a signal nothing is set. *)
LEMMA UnsignalledIs ==
    ASSUME NEW late \in BOOLEAN, NEW v, NEW w, Twins(late, v, w)
    PROVE  CI!Signalled(v, {}) = v
<1>1. PICK f, mode, flags, enables, cause, one, two : \E clocks \in BOOLEAN :
        /\ v = UnitWith(f, mode, flags, enables, cause, one, clocks)
        /\ w = UnitWith(f, mode, flags, enables, cause, two, clocks)
        /\ IF late THEN clocks = Due ELSE one = two
  BY DEF Twins
<1>2. PICK clocks \in BOOLEAN : v = UnitWith(f, mode, flags, enables, cause, one, clocks)
  BY <1>1
<1> QED
  BY <1>2, NotSignalled

-------------------------------------------------------------------------------
(* Coprocessor 1: instructions of the unit *)

(* Two outcomes of one instruction: they are the same, leave twins behind,   *)
(* and the registers f if they are exceptions.                               *)
TwinEnds(late, a, b, f) ==
    /\ a.out = b.out /\ Twins(late, a.fpu, b.fpu)
    /\ a.out[1] = "raise" => a.fpu.f = f

(* Ends from their parts. *)
LEMMA EndsMade ==
    ASSUME NEW late \in BOOLEAN, NEW v, NEW w, Twins(late, v, w), NEW f, NEW type
    PROVE  /\ TwinEnds(late, CI!Done(v), CI!Done(w), f)
           /\ TwinEnds(late, CI!Asserts(v), CI!Asserts(w), f)
           /\ v.f = f => TwinEnds(late, CI!Throws(v, type), CI!Throws(w, type), f)
<1>1. CI!Done(v).fpu = v /\ CI!Done(w).fpu = w
  BY DEF CI!Done
<1>2. CI!Done(v).out = <<"next">> /\ CI!Done(w).out = <<"next">>
  BY DEF CI!Done
<1>3. CI!Throws(v, type).fpu = v /\ CI!Throws(w, type).fpu = w
  BY DEF CI!Throws
<1>4. CI!Throws(v, type).out = CI!Throws(w, type).out
  BY DEF CI!Throws
<1>5. <<"next">>[1] # "raise" /\ <<"asserts">>[1] # "raise"
  OBVIOUS
<1>6. /\ CI!Asserts(v).fpu = v /\ CI!Asserts(v).out = <<"asserts">>
      /\ CI!Asserts(w).fpu = w /\ CI!Asserts(w).out = <<"asserts">>
  BY DEF CI!Asserts
<1> QED
  BY <1>1, <1>2, <1>3, <1>4, <1>5, <1>6 DEF TwinEnds

(* What sets a result, or signals, ends alike for twins: *)
LEMMA ResultsTwin ==
    ASSUME NEW late \in BOOLEAN, NEW v, NEW w, Twins(late, v, w), NEW F, NEW d,
           NEW signals, NEW h, NEW status, NEW value
    PROVE  TwinEnds(late, CI!WriteResult(v, F, d, signals, h, status, value),
                          CI!WriteResult(w, F, d, signals, h, status, value), v.f)
<1> DEFINE raised == status \cap signals
           a == CI!Signalled(v, raised)
           b == CI!Signalled(w, raised)
<1> HIDE DEF raised
<1>1. Twins(late, a, b) /\ a.f = v.f /\ a.enables = v.enables
  BY SignalsTwin
<1>2. v.enables = w.enables
  BY TwinsAre
<1> HIDE DEF a, b
<1>3. CI!Default(a, F, status, value) = CI!Default(b, F, status, value)
  <2>1. a.mode = b.mode
    BY <1>1, TwinsAre
  <2> QED
    BY <2>1 DEF CI!Default
<1>4. CASE ~h.traps \/ status = {}
  <2>1. /\ CI!WriteResult(v, F, d, signals, h, status, value) = CI!Done(CI!Set(v, F, d, value))
        /\ CI!WriteResult(w, F, d, signals, h, status, value) = CI!Done(CI!Set(w, F, d, value))
    BY <1>4 DEF CI!WriteResult
  <2> QED
    BY <2>1, ReadsTwin, EndsMade
<1>5. CASE ~(~h.traps \/ status = {}) /\ raised \cap v.enables # {}
  <2>1. /\ CI!WriteResult(v, F, d, signals, h, status, value) = CI!Throws(a, "FPE")
        /\ CI!WriteResult(w, F, d, signals, h, status, value) = CI!Throws(b, "FPE")
    BY <1>2, <1>5 DEF CI!WriteResult, a, b, raised
  <2> QED
    BY <1>1, <2>1, EndsMade
<1>6. CASE ~(~h.traps \/ status = {}) /\ ~(raised \cap v.enables # {})
  <2> DEFINE x == CI!Default(a, F, status, value)
  <2>1. /\ CI!WriteResult(v, F, d, signals, h, status, value) = CI!Done(CI!Set(a, F, d, x))
        /\ CI!WriteResult(w, F, d, signals, h, status, value) = CI!Done(CI!Set(b, F, d, x))
    BY <1>2, <1>3, <1>6 DEF CI!WriteResult, a, b, raised
  <2> HIDE DEF x
  <2> QED
    BY <1>1, <2>1, ReadsTwin, EndsMade
<1> QED
  BY <1>4, <1>5, <1>6

(* arithmetic, *)
LEMMA ComputedTwin ==
    ASSUME NEW late \in BOOLEAN, NEW v, NEW w, Twins(late, v, w), NEW F, NEW i,
           NEW signals, NEW h, NEW o
    PROVE  TwinEnds(late, CI!Computed(v, F, i, signals, h, o),
                          CI!Computed(w, F, i, signals, h, o), v.f)
<1> DEFINE a == CI!ClearCause(v)
           b == CI!ClearCause(w)
<1>1. Twins(late, a, b)
  BY WritesTwin
<1>2. a.f = v.f
  BY StatusTwins
<1>3. /\ CI!Computed(v, F, i, signals, h, o)
            = CI!WriteResult(a, F, i.fd, signals, h, o.raised, o.value)
      /\ CI!Computed(w, F, i, signals, h, o)
            = CI!WriteResult(b, F, i.fd, signals, h, o.raised, o.value)
  BY DEF CI!Computed
<1> HIDE DEF a, b
<1> QED
  BY <1>1, <1>2, <1>3, ResultsTwin

(* copies, *)
LEMMA CopiedTwin ==
    ASSUME NEW late \in BOOLEAN, NEW v, NEW w, Twins(late, v, w), NEW F, NEW i, NEW h, NEW x
    PROVE  TwinEnds(late, CI!Copied(v, F, i, h, x), CI!Copied(w, F, i, h, x), v.f)
BY ResultsTwin DEF CI!Copied

(* choices, *)
LEMMA ChosenTwin ==
    ASSUME NEW late \in BOOLEAN, NEW v, NEW w, Twins(late, v, w), NEW F, NEW i, NEW h,
           NEW choice
    PROVE  TwinEnds(late, CI!Chosen(v, F, i, h, choice), CI!Chosen(w, F, i, h, choice), v.f)
<1> DEFINE a == CI!ClearCause(v)
           b == CI!ClearCause(w)
           s == CI!Get(v, F, i.fs)
           t == CI!Get(v, F, i.ft)
           real == CI!IsFinite(F, s) /\ CI!IsFinite(F, t)
           value == CASE ~CI!IsFinite(F, t) -> s
                      [] CI!IsFinite(F, t) /\ ~CI!IsFinite(F, s) -> t
                      [] OTHER -> choice
<1>1. Twins(late, a, b)
  BY WritesTwin
<1>2. a.f = v.f
  BY StatusTwins
<1>3. s = CI!Get(w, F, i.fs) /\ t = CI!Get(w, F, i.ft)
  BY ReadsTwin
<1>4. v.enables = w.enables
  BY TwinsAre
<1>5. CASE ~real /\ "InvalidOp" \in v.enables
  <2>1. /\ CI!Chosen(v, F, i, h, choice) = CI!Throws(a, "FPE")
        /\ CI!Chosen(w, F, i, h, choice) = CI!Throws(b, "FPE")
    BY <1>3, <1>4, <1>5 DEF CI!Chosen
  <2> HIDE DEF a, b
  <2> QED
    BY <1>1, <1>2, <2>1, EndsMade
<1>6. CASE ~(~real /\ "InvalidOp" \in v.enables)
  <2>1. CI!Chosen(v, F, i, h, choice)
            = CI!WriteResult(a, F, i.fd, {"InvalidOp"}, h, {}, value)
    BY <1>6 DEF CI!Chosen
  <2>2. CI!Chosen(w, F, i, h, choice)
            = CI!WriteResult(b, F, i.fd, {"InvalidOp"}, h, {}, value)
    BY <1>3, <1>4, <1>6 DEF CI!Chosen
  <2> HIDE DEF a, b, value
  <2> QED
    BY <1>1, <1>2, <2>1, <2>2, ResultsTwin
<1> QED
  BY <1>5, <1>6

LEMMA ChosenAbsoluteTwin ==
    ASSUME NEW late \in BOOLEAN, NEW v, NEW w, Twins(late, v, w), NEW F, NEW i, NEW h,
           NEW choice
    PROVE  TwinEnds(late, CI!ChosenAbsolute(v, F, i, h, choice),
                          CI!ChosenAbsolute(w, F, i, h, choice), v.f)
<1> DEFINE infinite(u) ==
        /\ CI!Absolute(F, CI!Get(u, F, i.fs)) = CI!Infinity(F)
        /\ ~CI!IsFinite(F, CI!Get(u, F, i.ft)) /\ "InvalidOp" \notin u.enables
<1>1. infinite(v) = infinite(w)
  BY ReadsTwin, TwinsAre
<1>2. Twins(late, CI!ClearCause(v), CI!ClearCause(w))
  BY WritesTwin
<1>3. \A u : CI!ChosenAbsolute(u, F, i, h, choice) =
            IF infinite(u) THEN CI!Asserts(CI!ClearCause(u)) ELSE CI!Chosen(u, F, i, h, choice)
  BY DEF CI!ChosenAbsolute
<1> HIDE DEF infinite
<1>4. CASE infinite(v)
  BY <1>1, <1>2, <1>3, <1>4, EndsMade
<1>5. CASE ~infinite(v)
  BY <1>1, <1>3, <1>5, ChosenTwin
<1> QED
  BY <1>4, <1>5

(* conversions, *)
LEMMA ConvertTwin ==
    ASSUME NEW late \in BOOLEAN, NEW v, NEW w, Twins(late, v, w), NEW F, NEW W, NEW i,
           NEW h, NEW o
    PROVE  TwinEnds(late, CI!Convert(v, F, W, i, h, o), CI!Convert(w, F, W, i, h, o), v.f)
<1> DEFINE x == CI!Get(v, F, i.fs)
           fits == CI!IsFinite(F, x) /\ CI!Fits(W, CI!Truncated(F, x))
           raised == IF ~fits THEN {"InvalidOp"}
                     ELSE IF CI!IsInteger(F, x) THEN {} ELSE {"Inexact"}
           seen == (h.status \cup raised) \cap {"InvalidOp", "Inexact"}
           set == IF "InvalidOp" \in seen \cap v.enables THEN {"InvalidOp"} ELSE seen
           p == CI!ClearCause(v)
           q == CI!ClearCause(w)
           a == [p EXCEPT !.flags = @ \cup set]
           b == [q EXCEPT !.flags = @ \cup set]
           number == IF CI!IsNaN(F, x) THEN 0 ELSE CI!Saturated(F, W, x) % (2 * CI!SignBit(W))
           result == (IF fits THEN CI!Truncated(F, x) ELSE o.value) % (2 * CI!SignBit(W))
<1>1. Twins(late, p, q)
  BY WritesTwin
<1>2. p.f = v.f
  BY StatusTwins
<1>3. x = CI!Get(w, F, i.fs)
  BY ReadsTwin
<1>4. v.enables = w.enables
  BY TwinsAre
<1>5. Twins(late, a, b) /\ a.f = v.f
  <2> HIDE DEF p, q, set
  <2> QED
    BY <1>1, <1>2, WritesTwin, StatusTwins
<1>6. CASE h.traps /\ seen \cap v.enables # {}
  <2>1. /\ CI!Convert(v, F, W, i, h, o) = CI!Throws(a, "FPE")
        /\ CI!Convert(w, F, W, i, h, o) = CI!Throws(b, "FPE")
    BY <1>3, <1>4, <1>6 DEF CI!Convert
  <2> HIDE DEF a, b
  <2> QED
    BY <1>5, <2>1, EndsMade
<1>7. CASE h.traps /\ seen # {} /\ seen \cap v.enables = {}
  <2>1. /\ CI!Convert(v, F, W, i, h, o)
                = CI!Done(IF CI!IsNaN(F, x) THEN CI!Set(a, F, i.fd, 0)
                          ELSE CI!SetInt(a, W, i.fd, CI!Saturated(F, W, x)))
        /\ CI!Convert(w, F, W, i, h, o)
                = CI!Done(IF CI!IsNaN(F, x) THEN CI!Set(b, F, i.fd, 0)
                          ELSE CI!SetInt(b, W, i.fd, CI!Saturated(F, W, x)))
    BY <1>3, <1>4, <1>7 DEF CI!Convert
  <2> HIDE DEF a, b
  <2> QED
    BY <1>5, <2>1, EndsMade, ReadsTwin DEF CI!SetInt
<1>8. CASE /\ ~(h.traps /\ seen \cap v.enables # {})
           /\ ~(h.traps /\ seen # {} /\ seen \cap v.enables = {})
  <2>1. /\ CI!Convert(v, F, W, i, h, o) = CI!Done(CI!Set(p, W, i.fd, result))
        /\ CI!Convert(w, F, W, i, h, o) = CI!Done(CI!Set(q, W, i.fd, result))
    BY <1>3, <1>4, <1>8 DEF CI!Convert, CI!SetInt
  <2> HIDE DEF p, q, result
  <2> QED
    BY <1>1, <2>1, EndsMade, ReadsTwin
<1> QED
  BY <1>6, <1>7, <1>8

(* roundings *)
LEMMA RoundTwin ==
    ASSUME NEW late \in BOOLEAN, NEW v, NEW w, Twins(late, v, w), NEW F, NEW W, NEW how,
           NEW i, NEW h, NEW o
    PROVE  TwinEnds(late, CI!Round(v, F, W, how, i, h, o),
                          CI!Round(w, F, W, how, i, h, o), v.f)
<1> DEFINE x == CI!Get(v, F, i.fs)
           fits == CI!IsFinite(F, x) /\ CI!Fits(W, CI!ToInteger(F, x, how))
           refused == IF h.traps THEN ~fits
                      ELSE ~CI!IsFinite(F, x) \/ CI!OutOfRange(F, W, x, how)
           p == CI!ClearCause(v)
           q == CI!ClearCause(w)
           a == CI!SetFlag(p, "InvalidOp")
           b == CI!SetFlag(q, "InvalidOp")
           limit == CI!Saturated(F, W, x) % (2 * CI!SignBit(W))
           result == (IF fits THEN CI!ToInteger(F, x, how) ELSE o.value)
                        % (2 * CI!SignBit(W))
<1>1. Twins(late, p, q)
  BY WritesTwin
<1>2. p.f = v.f
  BY StatusTwins
<1>3. x = CI!Get(w, F, i.fs)
  BY ReadsTwin
<1>4. v.enables = w.enables
  BY TwinsAre
<1>5. Twins(late, a, b) /\ a.f = v.f
  <2> HIDE DEF p, q
  <2> QED
    BY <1>1, <1>2, WritesTwin, StatusTwins
<1>6. CASE refused /\ "InvalidOp" \in v.enables
  <2>1. /\ CI!Round(v, F, W, how, i, h, o) = CI!Throws(a, "FPE")
        /\ CI!Round(w, F, W, how, i, h, o) = CI!Throws(b, "FPE")
    BY <1>3, <1>4, <1>6 DEF CI!Round
  <2> HIDE DEF a, b
  <2> QED
    BY <1>5, <2>1, EndsMade
<1>7. CASE refused /\ "InvalidOp" \notin v.enables
  <2>1. /\ CI!Round(v, F, W, how, i, h, o) = CI!Done(CI!Set(a, W, i.fd, limit))
        /\ CI!Round(w, F, W, how, i, h, o) = CI!Done(CI!Set(b, W, i.fd, limit))
    BY <1>3, <1>4, <1>7 DEF CI!Round, CI!SetInt
  <2> HIDE DEF a, b, limit
  <2> QED
    BY <1>5, <2>1, EndsMade, ReadsTwin
<1>8. CASE ~refused
  <2>1. /\ CI!Round(v, F, W, how, i, h, o) = CI!Done(CI!Set(p, W, i.fd, result))
        /\ CI!Round(w, F, W, how, i, h, o) = CI!Done(CI!Set(q, W, i.fd, result))
    BY <1>3, <1>4, <1>8 DEF CI!Round, CI!SetInt
  <2> HIDE DEF p, q, result
  <2> QED
    BY <1>1, <2>1, EndsMade, ReadsTwin
<1> QED
  BY <1>6, <1>7, <1>8

(* and comparisons. *)
LEMMA CompareTwin ==
    ASSUME NEW late \in BOOLEAN, NEW v, NEW w, Twins(late, v, w), NEW F, NEW i
    PROVE  TwinEnds(late, CI!Compare(v, F, i), CI!Compare(w, F, i), v.f)
<1> DEFINE x == CI!Get(v, F, i.fs)
           y == CI!Get(v, F, i.ft)
           p == [v EXCEPT !.clocks = TRUE]
           q == [w EXCEPT !.clocks = TRUE]
           a == IF CI!Signals(F, x, y, i.cond) THEN CI!SetFlag(p, "InvalidOp") ELSE p
           b == IF CI!Signals(F, x, y, i.cond) THEN CI!SetFlag(q, "InvalidOp") ELSE q
           result == IF CI!Holds(F, x, y, i.cond) THEN 2^F.width - 1 ELSE 0
           reserved == CI!Bit(i.cond, 4) /\ (i.cond % 8 = 0 \/ CI!Bit(i.cond, 2))
<1>1. Twins(late, p, q)
  BY DueTwin
<1>2. p.f = v.f
  BY StatusTwins
<1>3. x = CI!Get(w, F, i.fs) /\ y = CI!Get(w, F, i.ft)
  BY ReadsTwin
<1>4. v.enables = w.enables
  BY TwinsAre
<1>5. Twins(late, a, b) /\ a.f = v.f
  <2> HIDE DEF p, q
  <2>1. /\ Twins(late, CI!SetFlag(p, "InvalidOp"), CI!SetFlag(q, "InvalidOp"))
        /\ CI!SetFlag(p, "InvalidOp").f = p.f
    BY <1>1, WritesTwin, StatusTwins
  <2> QED
    BY <1>1, <1>2, <2>1
<1>6. CASE reserved
  <2>1. /\ CI!Compare(v, F, i) = CI!Throws(p, "RI")
        /\ CI!Compare(w, F, i) = CI!Throws(q, "RI")
    BY <1>6 DEF CI!Compare
  <2> HIDE DEF p, q
  <2> QED
    BY <1>1, <1>2, <2>1, EndsMade
<1>7. CASE ~reserved /\ CI!Signals(F, x, y, i.cond) /\ "InvalidOp" \in v.enables
  <2>1. /\ CI!Compare(v, F, i) = CI!Throws(a, "FPE")
        /\ CI!Compare(w, F, i) = CI!Throws(b, "FPE")
    BY <1>3, <1>4, <1>7 DEF CI!Compare
  <2> HIDE DEF a, b
  <2> QED
    BY <1>5, <2>1, EndsMade
<1>8. CASE ~reserved /\ ~(CI!Signals(F, x, y, i.cond) /\ "InvalidOp" \in v.enables)
  <2>1. /\ CI!Compare(v, F, i) = CI!Done(CI!Set(a, F, i.fd, result))
        /\ CI!Compare(w, F, i) = CI!Done(CI!Set(b, F, i.fd, result))
    BY <1>3, <1>4, <1>8 DEF CI!Compare
  <2> HIDE DEF a, b, result
  <2> QED
    BY <1>5, <2>1, EndsMade, ReadsTwin
<1> QED
  BY <1>6, <1>7, <1>8

(* Twins have the same registers. *)
LEMMA GetsTwin ==
    ASSUME NEW late \in BOOLEAN, NEW v, NEW w, Twins(late, v, w)
    PROVE  \A F, n : CI!Get(v, F, n) = CI!Get(w, F, n)
BY TwinsAre DEF CI!Get

ClassNumber(F, x) ==
    LET set == {k \in DOMAIN CI!Classes : CI!Classes[k] = CI!ClassOf(F, x)}
    IN  IF set = {} THEN 0 ELSE CHOOSE k \in set : TRUE
(* A class as a number, apart from the handler that finds it. *)
LEMMA ClassIs ==
    ASSUME NEW u, NEW F, NEW i, NEW h
    PROVE  CI!CLASS(u, F, i, h) = CI!Copied(u, F, i, h, ClassNumber(F, CI!Get(u, F, i.fs)))
BY Zenon DEF CI!CLASS, ClassNumber

UnitOperations ==
    Computations \cup Copies \cup Choices \cup Conversions \cup Narrow \cup Wide \cup {"CMP"}

(* Every handler of the unit ends alike for twins. *)
LEMMA HandledAlike ==
    ASSUME NEW late \in BOOLEAN, NEW v, NEW w, Twins(late, v, w), NEW op \in UnitOperations,
           NEW F, NEW i, NEW h, NEW o
    PROVE  TwinEnds(late, Handled(op, v, F, i, h, o), Handled(op, w, F, i, h, o), v.f)
<1>1. CASE op = "ADD"
  BY <1>1, ComputedTwin DEF Handled, CI!ADD
<1>2. CASE op = "SUB"
  BY <1>2, ComputedTwin DEF Handled, CI!SUB
<1>3. CASE op = "MUL"
  BY <1>3, ComputedTwin DEF Handled, CI!MUL
<1>4. CASE op = "MADDF"
  BY <1>4, ComputedTwin DEF Handled, CI!MADDF
<1>5. CASE op = "MSUBF"
  BY <1>5, ComputedTwin DEF Handled, CI!MSUBF
<1>6. CASE op = "RINT"
  BY <1>6, ComputedTwin DEF Handled, CI!RINT
<1>7. CASE op = "DIV"
  BY <1>7, ComputedTwin DEF Handled, CI!DIV
<1>8. CASE op = "RECIP"
  BY <1>8, ComputedTwin DEF Handled, CI!RECIP
<1>9. CASE op = "RSQRT"
  BY <1>9, ComputedTwin DEF Handled, CI!RSQRT
<1>10. CASE op = "SQRT"
  BY <1>10, ComputedTwin DEF Handled, CI!SQRT
<1>11. CASE op = "CVT_D"
  BY <1>11, ComputedTwin DEF Handled, CI!CVT_D
<1>12. CASE op = "CVT_S"
  BY <1>12, ComputedTwin DEF Handled, CI!CVT_S
<1>13. CASE op = "ABS"
  BY <1>13, CopiedTwin, GetsTwin DEF Handled, CI!ABS
<1>14. CASE op = "NEG"
  BY <1>14, CopiedTwin, GetsTwin DEF Handled, CI!NEG
<1>15. CASE op = "MOV"
  BY <1>15, CopiedTwin, GetsTwin DEF Handled, CI!MOV
<1>16. CASE op = "CLASS"
  BY <1>16, CopiedTwin, GetsTwin, ClassIs DEF Handled
<1>17. CASE op = "SEL"
  BY <1>17, CopiedTwin, GetsTwin DEF Handled, CI!SEL
<1>18. CASE op = "SELEQZ"
  BY <1>18, CopiedTwin, GetsTwin DEF Handled, CI!SELEQZ
<1>19. CASE op = "SELNEZ"
  BY <1>19, CopiedTwin, GetsTwin DEF Handled, CI!SELNEZ
<1>20. CASE op = "MAX"
  BY <1>20, ChosenTwin, GetsTwin DEF Handled, CI!MAX
<1>21. CASE op = "MIN"
  BY <1>21, ChosenTwin, GetsTwin DEF Handled, CI!MIN
<1>22. CASE op = "MAXA"
  BY <1>22, ChosenAbsoluteTwin, GetsTwin DEF Handled, CI!MAXA
<1>23. CASE op = "MINA"
  BY <1>23, ChosenAbsoluteTwin, GetsTwin DEF Handled, CI!MINA
<1>24. CASE op = "CVT_W"
  BY <1>24, ConvertTwin DEF Handled, CI!CVT_W
<1>25. CASE op = "CVT_L"
  BY <1>25, ConvertTwin DEF Handled, CI!CVT_L
<1>26. CASE op = "ROUND_W"
  BY <1>26, RoundTwin DEF Handled, CI!ROUND_W
<1>27. CASE op = "ROUND_L"
  BY <1>27, RoundTwin DEF Handled, CI!ROUND_L
<1>28. CASE op = "CEIL_W"
  BY <1>28, RoundTwin DEF Handled, CI!CEIL_W
<1>29. CASE op = "CEIL_L"
  BY <1>29, RoundTwin DEF Handled, CI!CEIL_L
<1>30. CASE op = "FLOOR_W"
  BY <1>30, RoundTwin DEF Handled, CI!FLOOR_W
<1>31. CASE op = "FLOOR_L"
  BY <1>31, RoundTwin DEF Handled, CI!FLOOR_L
<1>32. CASE op = "TRUNC_W"
  BY <1>32, RoundTwin DEF Handled, CI!TRUNC_W
<1>33. CASE op = "TRUNC_L"
  BY <1>33, RoundTwin DEF Handled, CI!TRUNC_L
<1>34. CASE op = "CMP"
  BY <1>34, CompareTwin DEF Handled, CI!CMP_condn_s, CI!CMP_condn_d
<1> QED
  BY <1>1, <1>2, <1>3, <1>4, <1>5, <1>6, <1>7, <1>8, <1>9, <1>10, <1>11,
     <1>12, <1>13, <1>14, <1>15, <1>16, <1>17, <1>18, <1>19, <1>20, <1>21,
     <1>22, <1>23, <1>24, <1>25, <1>26, <1>27, <1>28, <1>29, <1>30, <1>31,
     <1>32, <1>33, <1>34 DEF UnitOperations, Computations, Copies, Choices,
     Conversions, Narrow, Wide

(* The emitted coprocessor has the registers of the interpreted one. *)
LEMMA SharedUnits ==
    /\ \A u, F, n : CE!Get(u, F, n) = CI!Get(u, F, n)
    /\ \A u, F, n, x : CE!Set(u, F, n, x) = CI!Set(u, F, n, x)
    /\ \A u, n, x : CE!SetLow(u, n, x) = CI!SetLow(u, n, x)
    /\ \A u, n, x : CE!SetHigh(u, n, x) = CI!SetHigh(u, n, x)
    /\ CE!Double = CI!Double
<1>1. \A u, F, n : CE!Get(u, F, n) = CI!Get(u, F, n)
  BY DEF CE!Get, CI!Get, CE!Single, CI!Single
<1>2. \A u, n, x : CE!SetLow(u, n, x) = CI!SetLow(u, n, x)
  BY Zenon DEF CE!SetLow, CI!SetLow
<1>3. \A u, n, x : CE!SetHigh(u, n, x) = CI!SetHigh(u, n, x)
  BY Zenon DEF CE!SetHigh, CI!SetHigh
<1>4. \A u, F, n, x : CE!Set(u, F, n, x) = CI!Set(u, F, n, x)
  BY Zenon DEF CE!Set, CI!Set, CE!Single, CI!Single, CE!SetLow, CI!SetLow, CE!Wrap, CI!Wrap
<1>5. CE!Double = CI!Double
  BY DEF CE!Double, CI!Double
<1> QED
  BY <1>1, <1>2, <1>3, <1>4, <1>5

(* SEL is emitted.  It selects as the handler does, which puts something     *)
(* else in place only for a signal of an earlier instruction.                *)
LEMMA SelectsTwin ==
    ASSUME NEW late \in BOOLEAN, NEW v, NEW w, Twins(late, v, w), NEW F, NEW i, NEW h, NEW m,
           ~(/\ h.traps
             /\ \/ h.status \cap {"InvalidOp", "DivZero"} # {}
                \/ h.status = {"Overflow"})
    PROVE  TwinEnds(late, CI!SEL(v, F, i, h), CE!SEL(m, w, F, i), v.f)
<1> DEFINE n == IF CI!IsOdd(CI!Get(v, F, i.fd)) THEN i.ft ELSE i.fs
           x == CI!Get(v, F, n)
           a == CI!Set(v, F, i.fd, x)
           b == CI!Set(w, F, i.fd, x)
           signalled == CI!Signalled(v, h.status \cap {})
<1>1. CI!SEL(v, F, i, h) = CI!WriteResult(v, F, i.fd, {}, h, h.status, x)
  BY DEF CI!SEL, CI!Copied
<1>2. \A k : CI!Get(v, F, k) = CI!Get(w, F, k) /\ CE!Get(w, F, k) = CI!Get(w, F, k)
  BY GetsTwin, SharedUnits
<1>3. CE!SEL(m, w, F, i).fpu = b
  BY <1>2, SharedUnits DEF CE!SEL, CE!MovedBy, CI!IsOdd
<1>4. CE!SEL(m, w, F, i).out = <<"next">>
  BY DEF CE!SEL, CE!MovedBy
<1>5. Twins(late, a, b)
  <2> HIDE DEF x
  <2> QED
    BY ReadsTwin
<1>6. CI!WriteResult(v, F, i.fd, {}, h, h.status, x) = CI!Done(a)
  <2>1. CASE ~h.traps \/ h.status = {}
    BY <2>1 DEF CI!WriteResult
  <2>2. CASE ~(~h.traps \/ h.status = {})
    <3>1. h.status \cap {} = {}
      OBVIOUS
    <3>2. CI!Signalled(v, h.status \cap {}) = v
      BY <3>1, UnsignalledIs
    <3>3. CI!Default(v, F, h.status, x) = x
      BY <2>2 DEF CI!Default
    <3> HIDE DEF x
    <3> QED
      BY <2>2, <3>1, <3>2, <3>3 DEF CI!WriteResult
  <2> QED
    BY <2>1, <2>2
<1>7. CI!Done(a).fpu = a /\ CI!Done(a).out = <<"next">>
  BY DEF CI!Done
<1>8. <<"next">>[1] # "raise"
  OBVIOUS
<1> HIDE DEF a, b, x
<1> QED
  BY <1>1, <1>3, <1>4, <1>5, <1>6, <1>7, <1>8 DEF TwinEnds

-------------------------------------------------------------------------------
(* Coprocessor 1: moves and branches *)

(* The control registers are written alike, and nothing else with them. *)
LEMMA ControlsTwin ==
    ASSUME NEW late \in BOOLEAN, NEW v, NEW w, Twins(late, v, w), NEW x
    PROVE  /\ Twins(late, CI!SetFEXR(v, x), CI!SetFEXR(w, x)) /\ CI!SetFEXR(v, x).f = v.f
           /\ Twins(late, CI!SetFENR(v, x), CI!SetFENR(w, x)) /\ CI!SetFENR(v, x).f = v.f
<1> DEFINE p == CI!SignalsIn(x, 1, 2)
           q == CI!Where(CI!Has(x, 5), "InvalidOp") \cup CI!Where(CI!Has(x, 6), "Unsupported")
           s == IF CI!Has(x, 0) THEN "ToZero" ELSE "ToNearest"
           t == CI!SignalsIn(x, 3, 4)
<1>1. PICK f, mode, flags, enables, cause, one, two, clocks :
        /\ v = UnitWith(f, mode, flags, enables, cause, one, clocks)
        /\ w = UnitWith(f, mode, flags, enables, cause, two, clocks)
        /\ clocks \in BOOLEAN /\ IF late THEN clocks = Due ELSE one = two
  BY DEF Twins
<1>3. ASSUME NEW u, NEW raw, u = UnitWith(f, mode, flags, enables, cause, raw, clocks)
      PROVE  /\ CI!SetFEXR(u, x) = UnitWith(f, mode, p, enables, q, raw, clocks)
             /\ CI!SetFENR(u, x) = UnitWith(f, s, flags, t, cause, raw, clocks)
  <2>1. CI!SetFEXR(u, x) = [u EXCEPT !.flags = p, !.cause = q]
    BY DEF CI!SetFEXR
  <2>2. CI!SetFENR(u, x) = [[u EXCEPT !.mode = s] EXCEPT !.enables = t]
    BY DEF CI!SetFENR, CI!SetMode, CI!SetEnables
  <2> HIDE DEF p, q, s, t
  <2> QED
    BY <1>3, <2>1, <2>2 DEF UnitWith
<1> HIDE DEF p, q, s, t
<1>4. /\ CI!SetFEXR(v, x) = UnitWith(f, mode, p, enables, q, one, clocks)
      /\ CI!SetFENR(v, x) = UnitWith(f, s, flags, t, cause, one, clocks)
  BY <1>1, <1>3
<1>5. /\ CI!SetFEXR(w, x) = UnitWith(f, mode, p, enables, q, two, clocks)
      /\ CI!SetFENR(w, x) = UnitWith(f, s, flags, t, cause, two, clocks)
  BY <1>1, <1>3
<1>6. /\ Twins(late, CI!SetFEXR(v, x), CI!SetFEXR(w, x))
      /\ Twins(late, CI!SetFENR(v, x), CI!SetFENR(w, x))
  BY <1>1, <1>4, <1>5, TwinsMade
<1>7. v.f = f /\ CI!SetFEXR(v, x).f = f /\ CI!SetFENR(v, x).f = f
  BY <1>1, <1>4 DEF UnitWith
<1> QED
  BY <1>6, <1>7

(* The control word of two units that differ in a reserved bit *)
LEMMA StatusWordTwins ==
    ASSUME NEW late \in BOOLEAN, NEW v, NEW w, Twins(late, v, w), NEW x
    PROVE  Twins(late, CI!SetFCSR(v, x), CI!SetFCSR(w, x)) /\ CI!SetFCSR(v, x).f = v.f
<1> DEFINE a == CI!SetFENR(CI!SetFEXR(v, x), x)
           b == CI!SetFENR(CI!SetFEXR(w, x), x)
<1>1. Twins(late, a, b) /\ a.f = v.f
  BY ControlsTwin
<1>2. CI!SetFCSR(v, x) = [a EXCEPT !.raw = CI!Has(x, 7)]
  BY DEF CI!SetFCSR
<1>3. CI!SetFCSR(w, x) = [b EXCEPT !.raw = CI!Has(x, 7)]
  BY DEF CI!SetFCSR
<1> HIDE DEF a, b
<1>4. ASSUME NEW k \in BOOLEAN, k = CI!Has(x, 7)
      PROVE  Twins(late, CI!SetFCSR(v, x), CI!SetFCSR(w, x)) /\ CI!SetFCSR(v, x).f = v.f
  <2>1. CI!SetFCSR(v, x) = [a EXCEPT !.raw = k] /\ CI!SetFCSR(w, x) = [b EXCEPT !.raw = k]
    BY <1>2, <1>3, <1>4
  <2>2. Twins(late, [a EXCEPT !.raw = k], [b EXCEPT !.raw = k])
    BY <1>1, RawTwins
  <2>3. [a EXCEPT !.raw = k].f = a.f
    BY <1>1, RawKeeps
  <2> QED
    BY <1>1, <2>1, <2>2, <2>3
<1>5. CI!Has(x, 7) \in BOOLEAN
  BY DEF CI!Has
<1> QED
  BY <1>4, <1>5

(* Registers of the processor, whichever module speaks *)
LEMMA SharedRegisters ==
    /\ \A m, d, x : CE!Put(m, d, x) = E!Put(m, d, x)
    /\ \A m, d : CE!At(m, d) = E!At(m, d)
    /\ \A i : CI!BranchTarget(i) = CE!BranchTarget(i)
<1>1. \A m, d, x : CE!Put(m, d, x) = E!Put(m, d, x)
  BY Zenon DEF CE!Put, E!Put, CE!IsREG, E!IsREG, CE!fp, E!fp
<1>2. \A m, d : CE!At(m, d) = E!At(m, d)
  BY DEF CE!At, E!At, CE!IsREG, E!IsREG, CE!fp, E!fp
<1>3. \A i : CI!BranchTarget(i) = CE!BranchTarget(i)
  BY Zenon DEF CI!BranchTarget, CE!BranchTarget, CI!Offset, CE!Offset, CI!Wrap, CE!Wrap,
     CI!SignedField, CE!SignedField
<1> QED
  BY <1>1, <1>2, <1>3

(* Two outcomes of a move: but for the registers of the processor, which the *)
(* others also agree on.                                                     *)
MovesEnd(late, a, b, r, f) ==
    /\ a.out = b.out /\ Twins(late, a.fpu, b.fpu)
    /\ a.out[1] = "raise" => a.fpu.f = f /\ a.regs = r /\ View(b.regs) = r
MovesAlike(late, a, b, r, f) ==
    MovesEnd(late, a, b, r, f) /\ View(b.regs) = a.regs


(* Moves from the unit to the processor *)
LEMMA MovesFromUnit ==
    ASSUME NEW late \in BOOLEAN, NEW v, NEW w, Twins(late, v, w), NEW m, NEW r, Agreed(m, r),
           NEW d \in Register, NEW x
    PROVE  MovesAlike(late, CI!Moved(CI!SetGPR(r, d, x), v, <<"next">>),
                            CE!Into(m, w, d, x), r, v.f)
<1> DEFINE a == CI!Moved(CI!SetGPR(r, d, x), v, <<"next">>)
           b == CE!Into(m, w, d, x)
<1>1. a.out = <<"next">> /\ a.fpu = v /\ a.regs = CI!SetGPR(r, d, x)
  BY DEF CI!Moved
<1>2. /\ b.out = <<"next">> /\ b.fpu = w
      /\ b.regs = IF d = 0 THEN m ELSE CE!Put(m, d, x)
  BY DEF CE!Into, CE!MovedBy
<1>3. View(b.regs) = a.regs
  <2>1. CASE d = 0
    BY <1>1, <1>2, <2>1 DEF CI!SetGPR, Agreed
  <2>2. CASE d # 0
    <3>1. View(E!Put(m, d, x)) = [r EXCEPT ![d] = x]
      BY <2>2, PutIs
    <3> QED
      BY <1>1, <1>2, <2>2, <3>1, SharedRegisters DEF CI!SetGPR
  <2> QED
    BY <2>1, <2>2
<1>4. <<"next">>[1] # "raise"
  OBVIOUS
<1> HIDE DEF a, b
<1>5. MovesAlike(late, a, b, r, v.f)
  BY <1>1, <1>2, <1>3, <1>4 DEF MovesAlike, MovesEnd
<1> QED
  BY <1>5 DEF a, b

(* and from the processor to the unit. *)
LEMMA MovesToUnit ==
    ASSUME NEW late \in BOOLEAN, NEW v, NEW w, Twins(late, v, w), NEW m, NEW r, Agreed(m, r),
           NEW f, NEW how, how[1] # "raise"
    PROVE  MovesAlike(late, CI!Moved(r, v, how), CE!MovedBy(m, w, how), r, f)
<1> DEFINE a == CI!Moved(r, v, how)
           b == CE!MovedBy(m, w, how)
<1>1. a.out = how /\ a.fpu = v /\ a.regs = r
  BY DEF CI!Moved
<1>2. b.out = how /\ b.fpu = w /\ b.regs = m
  BY DEF CE!MovedBy
<1>3. View(m) = r
  BY DEF Agreed
<1> HIDE DEF a, b
<1>4. MovesAlike(late, a, b, r, f)
  BY <1>1, <1>2, <1>3 DEF MovesAlike, MovesEnd
<1> QED
  BY <1>4 DEF a, b

(* The moves and branches that are emitted *)
LEMMA EmittedMovesAlike ==
    ASSUME NEW late \in BOOLEAN, NEW v, NEW w, Twins(late, v, w), NEW m, NEW r, Agreed(m, r),
           v.f \in [FRegister -> Word \X Word], NEW i, i.rt \in Register
    PROVE  /\ MovesAlike(late, CI!MFC1(r, v, i), CE!MFC1(m, w, i), r, v.f)
           /\ MovesAlike(late, CI!MFHC1(r, v, i), CE!MFHC1(m, w, i), r, v.f)
           /\ MovesAlike(late, CI!MTC1(r, v, i), CE!MTC1(m, w, i), r, v.f)
           /\ MovesAlike(late, CI!MTHC1(r, v, i), CE!MTHC1(m, w, i), r, v.f)
           /\ i.ft \in FRegister =>
                /\ MovesAlike(late, CI!BC1EQZ(r, v, i), CE!BC1EQZ(m, w, i), r, v.f)
                /\ MovesAlike(late, CI!BC1NEZ(r, v, i), CE!BC1NEZ(m, w, i), r, v.f)
<1>1. v.f = w.f
  BY TwinsAre
<1>2. MovesAlike(late, CI!MFC1(r, v, i), CE!MFC1(m, w, i), r, v.f)
  BY <1>1, MovesFromUnit DEF CI!MFC1, CE!MFC1
<1>3. MovesAlike(late, CI!MFHC1(r, v, i), CE!MFHC1(m, w, i), r, v.f)
  BY <1>1, MovesFromUnit DEF CI!MFHC1, CE!MFHC1
<1>4. CE!From(m, i.rt) = r[i.rt]
  BY AtIs, FileIs, SharedRegisters DEF CE!From
<1>5. <<"next">>[1] # "raise"
  OBVIOUS
<1>6. MovesAlike(late, CI!MTC1(r, v, i), CE!MTC1(m, w, i), r, v.f)
  <2> DEFINE a == CI!SetLow(v, i.fs, r[i.rt])
             b == CI!SetLow(w, i.fs, r[i.rt])
  <2>1. Twins(late, a, b)
    BY WritesTwin
  <2>2. CI!MTC1(r, v, i) = CI!Moved(r, a, <<"next">>)
    BY DEF CI!MTC1
  <2>3. CE!MTC1(m, w, i) = CE!MovedBy(m, b, <<"next">>)
    BY <1>4, SharedUnits DEF CE!MTC1
  <2> HIDE DEF a, b
  <2> QED
    BY <1>5, <2>1, <2>2, <2>3, MovesToUnit
<1>7. MovesAlike(late, CI!MTHC1(r, v, i), CE!MTHC1(m, w, i), r, v.f)
  <2> DEFINE a == CI!SetHigh(v, i.fs, r[i.rt])
             b == CI!SetHigh(w, i.fs, r[i.rt])
  <2>1. Twins(late, a, b)
    BY WritesTwin
  <2>2. CI!MTHC1(r, v, i) = CI!Moved(r, a, <<"next">>)
    BY DEF CI!MTHC1
  <2>3. CE!MTHC1(m, w, i) = CE!MovedBy(m, b, <<"next">>)
    BY <1>4, SharedUnits DEF CE!MTHC1
  <2> HIDE DEF a, b
  <2> QED
    BY <1>5, <2>1, <2>2, <2>3, MovesToUnit
<1>8. ASSUME i.ft \in FRegister
      PROVE  /\ MovesAlike(late, CI!BC1EQZ(r, v, i), CE!BC1EQZ(m, w, i), r, v.f)
             /\ MovesAlike(late, CI!BC1NEZ(r, v, i), CE!BC1NEZ(m, w, i), r, v.f)
  <2> DEFINE x == v.f[i.ft][1]
             target == CI!BranchTarget(i)
  <2>1. x \in Int /\ w.f[i.ft][1] = x
    BY <1>1, <1>8, Sizes DEF Word
  <2>2. ~CI!IsOdd(x) <=> x % 2 = 0
    <3> HIDE DEF x
    <3> QED
      BY <2>1 DEF CI!IsOdd
  <2>3. target = CE!BranchTarget(i)
    BY SharedRegisters
  <2>4. <<"delay", target>>[1] # "raise" /\ <<"no_cti">>[1] # "raise"
    OBVIOUS
  <2>5. /\ CI!BC1EQZ(r, v, i) = CI!BranchIf(r, v, i, ~CI!IsOdd(x))
        /\ CI!BC1NEZ(r, v, i) = CI!BranchIf(r, v, i, CI!IsOdd(x))
    BY DEF CI!BC1EQZ, CI!BC1NEZ
  <2>6. /\ CE!BC1EQZ(m, w, i) = CE!BranchIf(m, w, i, x % 2 = 0)
        /\ CE!BC1NEZ(m, w, i) = CE!BranchIf(m, w, i, x % 2 = 1)
    BY <2>1 DEF CE!BC1EQZ, CE!BC1NEZ
  <2> HIDE DEF x, target
  <2>7. CASE CI!IsOdd(x)
    <3>1. x % 2 = 1 /\ x % 2 # 0
      BY <2>7 DEF CI!IsOdd
    <3>2. /\ CI!BC1EQZ(r, v, i) = CI!Moved(r, v, <<"no_cti">>)
          /\ CI!BC1NEZ(r, v, i) = CI!Moved(r, v, <<"delay", target>>)
      BY <2>5, <2>7 DEF CI!BranchIf, target
    <3>3. /\ CE!BC1EQZ(m, w, i) = CE!MovedBy(m, w, <<"no_cti">>)
          /\ CE!BC1NEZ(m, w, i) = CE!MovedBy(m, w, <<"delay", target>>)
      BY <2>3, <2>6, <3>1 DEF CE!BranchIf
    <3> QED
      BY <2>4, <3>2, <3>3, MovesToUnit
  <2>8. CASE ~CI!IsOdd(x)
    <3>1. x % 2 = 0 /\ x % 2 # 1
      BY <2>2, <2>8
    <3>2. /\ CI!BC1EQZ(r, v, i) = CI!Moved(r, v, <<"delay", target>>)
          /\ CI!BC1NEZ(r, v, i) = CI!Moved(r, v, <<"no_cti">>)
      BY <2>5, <2>8 DEF CI!BranchIf, target
    <3>3. /\ CE!BC1EQZ(m, w, i) = CE!MovedBy(m, w, <<"delay", target>>)
          /\ CE!BC1NEZ(m, w, i) = CE!MovedBy(m, w, <<"no_cti">>)
      BY <2>3, <2>6, <3>1 DEF CE!BranchIf
    <3> QED
      BY <2>4, <3>2, <3>3, MovesToUnit
  <2> QED
    BY <2>7, <2>8
<1> QED
  BY <1>2, <1>3, <1>6, <1>7, <1>8

(* What a handler called on the slots leaves there is what the guest finds,  *)
(* but for $30.                                                              *)
LEMMA SlotsViewed ==
    ASSUME NEW r, Agreed(host, r)
    PROVE  /\ View(Slots(host.slot)) = r
           /\ \A d \in Register \ {30} : \A x :
                View(Slots(CI!SetGPR(host.slot, d, x))) = CI!SetGPR(r, d, x)
<1>1. /\ host.slot \in [Register -> Word]
      /\ \A x \in Register \ {30} : host.slot[x] = r[x]
      /\ r \in [Register -> Word] /\ r[30] = host.r15d /\ r[0] = 0
      /\ 0 \in Register /\ 30 \in Register
  BY SlotsAre, RegistersHaveZero
<1>2. ASSUME NEW registers
      PROVE  View(Slots(registers)) = [[registers EXCEPT ![0] = 0] EXCEPT ![30] = host.r15d]
  <2>1. host \in [slot : [Register -> Word], r15d : Word]
    BY DEF Agreed
  <2>2. Slots(registers).slot = [registers EXCEPT ![0] = 0]
    BY <2>1 DEF Slots
  <2>3. Slots(registers).r15d = host.r15d
    BY <2>1 DEF Slots
  <2> QED
    BY <2>2, <2>3 DEF View, fp
<1>3. [[host.slot EXCEPT ![0] = 0] EXCEPT ![30] = host.r15d] = r
  BY <1>1
<1>4. ASSUME NEW d \in Register \ {30}, NEW x
      PROVE  View(Slots(CI!SetGPR(host.slot, d, x))) = CI!SetGPR(r, d, x)
  <2>1. CASE d = 0
    BY <1>2, <1>3, <2>1 DEF CI!SetGPR
  <2>2. CASE d # 0
    <3>1. [[[host.slot EXCEPT ![d] = x] EXCEPT ![0] = 0] EXCEPT ![30] = host.r15d]
            = [r EXCEPT ![d] = x]
      <4> DEFINE slots == [[[host.slot EXCEPT ![d] = x] EXCEPT ![0] = 0]
                              EXCEPT ![30] = host.r15d]
                 found == [r EXCEPT ![d] = x]
      <4>1. slots = [k \in Register |-> slots[k]] /\ found = [k \in Register |-> found[k]]
        BY <1>1
      <4>2. ASSUME NEW k \in Register PROVE slots[k] = found[k]
        BY <1>1, <2>2, <4>2
      <4> HIDE DEF slots, found
      <4>3. slots = found
        BY <4>1, <4>2
      <4> QED
        BY <4>3 DEF slots, found
    <3>2. CI!SetGPR(host.slot, d, x) = [host.slot EXCEPT ![d] = x]
      BY <2>2 DEF CI!SetGPR
    <3>3. CI!SetGPR(r, d, x) = [r EXCEPT ![d] = x]
      BY <2>2 DEF CI!SetGPR
    <3> QED
      BY <1>2, <3>1, <3>2, <3>3
  <2> QED
    BY <2>1, <2>2
<1> QED
  BY <1>2, <1>3, <1>4

(* What the host makes of a handler that it calls *)
LEMMA CalledMove ==
    ASSUME NEW u, NEW i, NEW op \in ControlMoves, NEW registers, NEW x, NEW how,
           Moving(op, host.slot, u, i) = CI!Moved(registers, x, how)
    PROVE  /\ MovingByHost(op, u, i).regs = Slots(registers)
           /\ MovingByHost(op, u, i).fpu = x /\ MovingByHost(op, u, i).out = how
<1> DEFINE done == Moving(op, host.slot, u, i)
<1>1. MovingByHost(op, u, i) = [done EXCEPT !.regs = Slots(done.regs)]
  BY DEF MovingByHost, ControlMoves
<1>2. done = [regs |-> registers, fpu |-> x, out |-> how]
  BY DEF CI!Moved
<1> HIDE DEF done
<1> QED
  BY <1>1, <1>2

(* CFC1 is called on the slots; it reads the reserved bits as well. *)
LEMMA ControlRead ==
    ASSUME NEW late \in BOOLEAN, NEW v, NEW w, Twins(late, v, w), NEW r, Agreed(host, r),
           NEW i, i.rt \in Register
    PROVE  /\ MovesEnd(late, CI!CFC1(r, v, i), MovingByHost("CFC1", w, i), r, v.f)
           /\ ~late /\ i.rt # 30 =>
                View(MovingByHost("CFC1", w, i).regs) = CI!CFC1(r, v, i).regs
<1> DEFINE ReadWord(u) == CASE i.fs = 0 -> Fir [] i.fs = 26 -> CI!GetFEXR(u)
                         [] i.fs = 28 -> CI!GetFENR(u) [] i.fs = 31 -> CI!GetFCSR(u)
           p == CI!ClearCause(v)
           q == CI!ClearCause(w)
           a == CI!CFC1(r, v, i)
           b == MovingByHost("CFC1", w, i)
<1>1. Twins(late, p, q)
  BY WritesTwin
<1>2. ~late => v = w
  BY TwinsAre
<1>3. "CFC1" \in ControlMoves /\ Moving("CFC1", host.slot, w, i) = CI!CFC1(host.slot, w, i)
  BY DEF ControlMoves, Moving
<1>4. <<"next">>[1] # "raise" /\ <<"terminated">>[1] # "raise"
  OBVIOUS
<1>5. CASE i.fs \notin CI!Controls
  <2>1. \A u, s : CI!CFC1(s, u, i) = CI!Moved(s, CI!ClearCause(u), <<"terminated">>)
    BY <1>5 DEF CI!CFC1, CI!Terminated
  <2>2. /\ b.regs = Slots(host.slot) /\ b.fpu = q /\ b.out = <<"terminated">>
    BY <1>3, <2>1, CalledMove
  <2>3. /\ a.regs = r /\ a.fpu = p /\ a.out = <<"terminated">>
    BY <2>1 DEF CI!Moved
  <2>4. View(b.regs) = a.regs
    BY <2>2, <2>3, SlotsViewed
  <2>5. MovesEnd(late, a, b, r, v.f)
    <3> HIDE DEF a, b, p, q
    <3> QED
      BY <1>1, <1>4, <2>2, <2>3 DEF MovesEnd
  <2> QED
    BY <2>4, <2>5
<1>6. CASE i.fs \in CI!Controls
  <2>1. \A u, s : CI!CFC1(s, u, i)
            = CI!Moved(CI!SetGPR(s, i.rt, ReadWord(CI!ClearCause(u))), CI!ClearCause(u), <<"next">>)
    BY <1>6 DEF CI!CFC1, CI!Controls
  <2> HIDE DEF ReadWord
  <2>2. /\ b.regs = Slots(CI!SetGPR(host.slot, i.rt, ReadWord(q))) /\ b.fpu = q
        /\ b.out = <<"next">>
    BY <1>3, <2>1, CalledMove
  <2>3. /\ a.regs = CI!SetGPR(r, i.rt, ReadWord(p)) /\ a.fpu = p /\ a.out = <<"next">>
    BY <2>1 DEF CI!Moved
  <2>4. ~late /\ i.rt # 30 => View(b.regs) = a.regs
    BY <1>2, <2>2, <2>3, SlotsViewed
  <2>5. MovesEnd(late, a, b, r, v.f)
    <3> HIDE DEF a, b, p, q
    <3> QED
      BY <1>1, <1>4, <2>2, <2>3 DEF MovesEnd
  <2> QED
    BY <2>4, <2>5
<1> QED
  BY <1>5, <1>6

(* CTC1 is, too; a signal that it sets and enables is raised. *)
LEMMA ControlWritten ==
    ASSUME NEW late \in BOOLEAN, NEW v, NEW w, Twins(late, v, w), NEW r, Agreed(host, r),
           NEW i, i.rt \in Register
    PROVE  i.rt # 30 =>
            MovesAlike(late, CI!CTC1(r, v, i), MovingByHost("CTC1", w, i), r, v.f)
<1> DEFINE Control(u, x) == CASE i.fs = 26 -> CI!SetFEXR(u, x)
                               [] i.fs = 28 -> CI!SetFENR(u, x)
                               [] i.fs = 31 -> CI!SetFCSR(u, x)
           x == r[i.rt]
           p == Control(v, x)
           q == Control(w, x)
           a == CI!CTC1(r, v, i)
           b == MovingByHost("CTC1", w, i)
           how == IF CI!AnySignals(p) THEN <<"raise", "FPE">> ELSE <<"next">>
<1>1. "CTC1" \in ControlMoves /\ Moving("CTC1", host.slot, w, i) = CI!CTC1(host.slot, w, i)
  BY DEF ControlMoves, Moving
<1>2. <<"next">>[1] # "raise" /\ <<"terminated">>[1] # "raise"
  OBVIOUS
<1>3. ASSUME i.rt # 30 PROVE host.slot[i.rt] = x
  BY <1>3, SlotsAre
<1>4. View(Slots(host.slot)) = r
  BY SlotsViewed
<1>5. CASE i.fs \notin CI!Controls \ {0}
  <2>1. \A u, s : CI!CTC1(s, u, i) = CI!Moved(s, u, <<"terminated">>)
    BY <1>5 DEF CI!CTC1, CI!Terminated
  <2>2. /\ b.regs = Slots(host.slot) /\ b.fpu = w /\ b.out = <<"terminated">>
    BY <1>1, <2>1, CalledMove
  <2>3. /\ a.regs = r /\ a.fpu = v /\ a.out = <<"terminated">>
    BY <2>1 DEF CI!Moved
  <2> HIDE DEF a, b
  <2>4. MovesAlike(late, a, b, r, v.f)
    BY <1>2, <1>4, <2>2, <2>3 DEF MovesEnd, MovesAlike
  <2> QED
    BY <2>4 DEF a, b
<1>6. CASE i.fs \in CI!Controls \ {0} /\ i.rt # 30
  <2>0. i.fs = 26 \/ i.fs = 28 \/ i.fs = 31
    BY <1>6 DEF CI!Controls
  <2>1. Twins(late, p, q) /\ p.f = v.f
    <3> HIDE DEF x
    <3>1. /\ Twins(late, CI!SetFEXR(v, x), CI!SetFEXR(w, x)) /\ CI!SetFEXR(v, x).f = v.f
          /\ Twins(late, CI!SetFENR(v, x), CI!SetFENR(w, x)) /\ CI!SetFENR(v, x).f = v.f
      BY ControlsTwin
    <3>2. Twins(late, CI!SetFCSR(v, x), CI!SetFCSR(w, x)) /\ CI!SetFCSR(v, x).f = v.f
      BY StatusWordTwins
    <3> QED
      BY <2>0, <3>1, <3>2
  <2>2. \A u, s : CI!CTC1(s, u, i)
            = CI!Moved(s, Control(u, s[i.rt]), IF CI!AnySignals(Control(u, s[i.rt]))
                                                THEN <<"raise", "FPE">> ELSE <<"next">>)
    BY <1>6 DEF CI!CTC1
  <2> HIDE DEF Control
  <2>3. CI!AnySignals(p) <=> CI!AnySignals(q)
    BY <2>1, TwinsAre DEF CI!AnySignals
  <2>4. /\ b.regs = Slots(host.slot) /\ b.fpu = q /\ b.out = how
    BY <1>1, <1>3, <1>6, <2>2, <2>3, CalledMove
  <2>5. /\ a.regs = r /\ a.fpu = p /\ a.out = how
    BY <2>2 DEF CI!Moved
  <2> HIDE DEF a, b, p, q, how
  <2>6. MovesAlike(late, a, b, r, v.f)
    BY <1>4, <2>1, <2>4, <2>5 DEF MovesEnd, MovesAlike
  <2> QED
    BY <2>6 DEF a, b
<1> QED
  BY <1>5, <1>6

(* Whatever it reads of the slots, a CTC1 that raises undoes. *)
LEMMA ControlUndoes ==
    ASSUME NEW late \in BOOLEAN, NEW v, NEW w, Twins(late, v, w), NEW r, Agreed(host, r), NEW i
    PROVE  /\ CI!CTC1(r, v, i).out[1] = "raise" =>
                CI!CTC1(r, v, i).regs = r /\ CI!CTC1(r, v, i).fpu.f = v.f
           /\ MovingByHost("CTC1", w, i).out[1] = "raise" =>
                /\ View(MovingByHost("CTC1", w, i).regs) = r
                /\ MovingByHost("CTC1", w, i).fpu.f = v.f
<1> DEFINE Control(u, x) == CASE i.fs = 26 -> CI!SetFEXR(u, x)
                               [] i.fs = 28 -> CI!SetFENR(u, x)
                               [] i.fs = 31 -> CI!SetFCSR(u, x)
           Ends(u, x) == IF CI!AnySignals(Control(u, x)) THEN <<"raise", "FPE">>
                                                         ELSE <<"next">>
<1>1. "CTC1" \in ControlMoves /\ Moving("CTC1", host.slot, w, i) = CI!CTC1(host.slot, w, i)
  BY DEF ControlMoves, Moving
<1>2. <<"terminated">>[1] # "raise"
  OBVIOUS
<1>3. View(Slots(host.slot)) = r
  BY SlotsViewed
<1>4. CASE i.fs \notin CI!Controls \ {0}
  <2>1. \A u, s : CI!CTC1(s, u, i) = CI!Moved(s, u, <<"terminated">>)
    BY <1>4 DEF CI!CTC1, CI!Terminated
  <2>2. MovingByHost("CTC1", w, i).out = <<"terminated">>
    BY <1>1, <2>1, CalledMove
  <2>3. CI!CTC1(r, v, i).out = <<"terminated">>
    BY <2>1 DEF CI!Moved
  <2> QED
    BY <1>2, <2>2, <2>3
<1>5. CASE i.fs \in CI!Controls \ {0}
  <2>0. i.fs = 26 \/ i.fs = 28 \/ i.fs = 31
    BY <1>5 DEF CI!Controls
  <2>1. ASSUME NEW x
        PROVE  Control(v, x).f = v.f /\ Control(w, x).f = v.f
    <3>1. /\ Twins(late, CI!SetFEXR(v, x), CI!SetFEXR(w, x)) /\ CI!SetFEXR(v, x).f = v.f
          /\ Twins(late, CI!SetFENR(v, x), CI!SetFENR(w, x)) /\ CI!SetFENR(v, x).f = v.f
      BY ControlsTwin
    <3>2. Twins(late, CI!SetFCSR(v, x), CI!SetFCSR(w, x)) /\ CI!SetFCSR(v, x).f = v.f
      BY StatusWordTwins
    <3>3. /\ CI!SetFEXR(w, x).f = v.f /\ CI!SetFENR(w, x).f = v.f
          /\ CI!SetFCSR(w, x).f = v.f
      BY <3>1, <3>2, TwinsAre
    <3> QED
      BY <2>0, <3>1, <3>2, <3>3
  <2>2. \A u, s : CI!CTC1(s, u, i) = CI!Moved(s, Control(u, s[i.rt]), Ends(u, s[i.rt]))
    BY <1>5 DEF CI!CTC1
  <2> HIDE DEF Control, Ends
  <2>3. CI!CTC1(r, v, i).regs = r /\ CI!CTC1(r, v, i).fpu.f = v.f
    BY <2>1, <2>2 DEF CI!Moved
  <2>4. /\ MovingByHost("CTC1", w, i).regs = Slots(host.slot)
        /\ MovingByHost("CTC1", w, i).fpu = Control(w, host.slot[i.rt])
    BY <1>1, <2>2, CalledMove
  <2> QED
    BY <1>3, <2>1, <2>3, <2>4
<1> QED
  BY <1>4, <1>5

-------------------------------------------------------------------------------
(* Coprocessor 1: loads and stores *)

(* A load that raises changes nothing of its unit. *)
LEMMA UnitLoadsUndo ==
    ASSUME NEW u, NEW r, NEW i, NEW c, NEW contents, NEW op \in UnitLoads, NEW a,
           a = Accessing(op, r, u, i, c, contents), a.out[1] = "raise"
    PROVE  a.fpu = u
<1>1. <<"next">>[1] # "raise"
  OBVIOUS
<1>2. CASE op = "LWC1"
  <2>1. a = CI!LWC1(r, u, contents, i, c)
    BY <1>2 DEF Accessing
  <2> QED
    BY <1>1, <2>1 DEF CI!LWC1, CI!LoadWords, CI!WithUnit, CI!Accessed, CI!Fault
<1>3. CASE op = "LDC1"
  <2>1. a = CI!LDC1(r, u, contents, i, c)
    BY <1>3 DEF Accessing
  <2> QED
    BY <1>1, <2>1 DEF CI!LDC1, CI!LoadWords, CI!WithUnit, CI!Accessed, CI!Fault
<1> QED
  BY <1>2, <1>3 DEF UnitLoads

(* The handlers of both engines load alike from registers that agree on the  *)
(* base.                                                                     *)
LEMMA UnitLoadsAlike ==
    ASSUME NEW late \in BOOLEAN, NEW v, NEW w, Twins(late, v, w), NEW r, NEW s, NEW i, NEW c,
           NEW contents, NEW op \in UnitLoads
    PROVE  r[i.rs] = s[i.rs] =>
                /\ Accessing(op, r, v, i, c, contents).out
                    = Accessing(op, s, w, i, c, contents).out
                /\ Twins(late, Accessing(op, r, v, i, c, contents).fpu,
                               Accessing(op, s, w, i, c, contents).fpu)
<1> DEFINE place(q) == CI!PlaceOf(c, CI!Address(q[i.rs], i))
           WithLow(u, q) == CI!SetLow(u, i.ft, CI!Value(contents, place(q), 4))
           WithBoth(u, q) == CI!SetHigh(WithLow(u, q), i.ft, CI!Value(contents, place(q) + 4, 4))
           fetches(q, n) == CI!Fetches(c, CI!Address(q[i.rs], i), n)
<1>2. CASE op = "LWC1"
  <2>1. \A u, q : Accessing(op, q, u, i, c, contents) = CI!LWC1(q, u, contents, i, c)
    BY <1>2 DEF Accessing
  <2>2. ASSUME NEW u, NEW q, fetches(q, 4)
        PROVE  /\ CI!LWC1(q, u, contents, i, c).out = <<"next">>
               /\ CI!LWC1(q, u, contents, i, c).fpu = WithLow(u, q)
    BY <2>2 DEF CI!LWC1, CI!LoadWords, CI!WithUnit, CI!Accessed
  <2>3. ASSUME NEW u, NEW q, ~fetches(q, 4)
        PROVE  /\ CI!LWC1(q, u, contents, i, c).out = <<"raise", "AdEL">>
               /\ CI!LWC1(q, u, contents, i, c).fpu = u
    BY <2>3 DEF CI!LWC1, CI!LoadWords, CI!WithUnit, CI!Accessed, CI!Fault
  <2>4. ASSUME r[i.rs] = s[i.rs]
        PROVE  Twins(late, WithLow(v, r), WithLow(w, s)) /\ (fetches(r, 4) <=> fetches(s, 4))
    BY <2>4, WritesTwin
  <2> HIDE DEF fetches, WithLow
  <2> QED
    BY <2>1, <2>2, <2>3, <2>4
<1>3. CASE op = "LDC1"
  <2>1. \A u, q : Accessing(op, q, u, i, c, contents) = CI!LDC1(q, u, contents, i, c)
    BY <1>3 DEF Accessing
  <2>2. ASSUME NEW u, NEW q, fetches(q, 8)
        PROVE  /\ CI!LDC1(q, u, contents, i, c).out = <<"next">>
               /\ CI!LDC1(q, u, contents, i, c).fpu = WithBoth(u, q)
    BY <2>2 DEF CI!LDC1, CI!LoadWords, CI!WithUnit, CI!Accessed
  <2>3. ASSUME NEW u, NEW q, ~fetches(q, 8)
        PROVE  /\ CI!LDC1(q, u, contents, i, c).out = <<"raise", "AdEL">>
               /\ CI!LDC1(q, u, contents, i, c).fpu = u
    BY <2>3 DEF CI!LDC1, CI!LoadWords, CI!WithUnit, CI!Accessed, CI!Fault
  <2>4. ASSUME r[i.rs] = s[i.rs]
        PROVE  Twins(late, WithBoth(v, r), WithBoth(w, s)) /\ (fetches(r, 8) <=> fetches(s, 8))
    <3>1. Twins(late, WithLow(v, r), WithLow(w, s))
      BY <2>4, WritesTwin
    <3> HIDE DEF WithLow
    <3> QED
      BY <2>4, <3>1, WritesTwin
  <2> HIDE DEF fetches, WithBoth
  <2> QED
    BY <2>1, <2>2, <2>3, <2>4
<1> QED
  BY <1>2, <1>3 DEF UnitLoads

(* The coprocessor stores as the processor does. *)
LEMMA SharedAddressTests ==
    ASSUME NEW c, NEW n, NEW x
    PROVE  /\ CE!Refuse = EM!Refuse /\ CE!Wrap(x) = EM!Wrap(x)
           /\ CE!Through(x, n) = EM!Through(x, n) /\ CE!PlaceOf(c, x) = EM!PlaceOf(c, x)
           /\ CE!Static(c, x, n) = EM!Static(c, x, n)
           /\ CE!DynamicStoreWithoutStack(x, n) = EM!DynamicStoreWithoutStack(x, n)
           /\ CE!Dynamic(c, x, n) = EM!Dynamic(c, x, n)
           /\ CE!ReadForWrite(c, x, n) = EM!ReadForWrite(c, x, n)
<1>1. CE!Refuse = EM!Refuse /\ \A y : CE!Wrap(y) = EM!Wrap(y)
  BY DEF CE!Refuse, EM!Refuse, CE!Wrap, EM!Wrap
<1>2. \A y : CE!Through(y, n) = EM!Through(y, n)
  BY Zenon DEF CE!Through, EM!Through, CE!InRange, EM!InRange
<1>3. CE!PlaceOf(c, x) = EM!PlaceOf(c, x)
  BY <1>1 DEF CE!PlaceOf, EM!PlaceOf
<1>4. CE!Static(c, x, n) = EM!Static(c, x, n)
  BY <1>1, <1>2 DEF CE!Static, EM!Static
<1>5. CE!DynamicStoreWithoutStack(x, n) = EM!DynamicStoreWithoutStack(x, n)
  <2> DEFINE power == EM!BitCeil(MemorySize)
  <2>1. CE!BitCeil(MemorySize) = power
    BY DEF CE!BitCeil, EM!BitCeil
  <2> HIDE DEF power
  <2> QED
    BY <1>1, <1>2, <2>1 DEF CE!DynamicStoreWithoutStack, EM!DynamicStoreWithoutStack, power
<1>6. CE!Dynamic(c, x, n) = EM!Dynamic(c, x, n)
  BY <1>1, <1>3 DEF CE!Dynamic, EM!Dynamic, CE!ZeroTest, EM!ZeroTest
<1>7. CE!ReadForWrite(c, x, n) = EM!ReadForWrite(c, x, n)
  BY <1>1, <1>3 DEF CE!ReadForWrite, EM!ReadForWrite, CE!Writable, EM!Writable,
     CE!InRange, EM!InRange
<1> QED
  BY <1>1, <1>2, <1>3, <1>4, <1>5, <1>6, <1>7

(* A store that is emitted for the unit is one of the processor, *)
LEMMA SharedEmittedStore ==
    ASSUME NEW m, NEW contents, NEW i, NEW c, NEW n, NEW value
    PROVE  CE!StoreValue(m, contents, i, c, n, value) = EM!StoreValue(m, contents, i, c, n, value)
<1>1. CE!At(m, i.rs) = EM!At(m, i.rs)
  BY DEF CE!At, EM!At, CE!IsREG, EM!IsREG, CE!fp, EM!fp
<1>2. CE!Offset(i) = EM!Offset(i)
  BY DEF CE!Offset, EM!Offset, CE!SignedField, EM!SignedField
<1>3. CE!Address(CE!At(m, i.rs), i) = EM!Address(EM!At(m, i.rs), i)
  BY <1>1, <1>2 DEF CE!Address, EM!Address, CE!Wrap, EM!Wrap
<1>4. CE!StorePointer(m, i, c, n) = EM!StorePointer(m, i, c, n)
  BY <1>2, <1>3, SharedAddressTests DEF CE!StorePointer, EM!StorePointer
<1>5. \A place : CE!Stored(contents, place, n, value) = EM!Stored(contents, place, n, value)
  BY DEF EM!Stored, CE!Stored, EM!Place, CE!Place, EM!Shr, CE!Shr, EM!ByteBits, CE!ByteBits
<1>6. /\ \A stored, how : CE!Accessed(m, stored, how) = EM!Accessed(m, stored, how)
      /\ CE!Fault(m, contents, "AdES") = EM!Fault(m, contents, "AdES")
  BY DEF CE!Accessed, EM!Accessed, CE!Fault, EM!Fault
<1>7. CE!Refuse = EM!Refuse
  BY DEF CE!Refuse, EM!Refuse
<1> QED
  BY <1>4, <1>5, <1>6, <1>7 DEF CE!StoreValue, EM!StoreValue

(* and so is one that is interpreted. *)
LEMMA SharedStore ==
    ASSUME NEW r, NEW contents, NEW c, NEW x, NEW n, NEW value, NEW i
    PROVE  /\ CI!Store(r, contents, c, x, n, value) = IM!Store(r, contents, c, x, n, value)
           /\ CI!Address(x, i) = IM!Address(x, i)
<1>1. CI!PlaceOf(c, x) = IM!PlaceOf(c, x)
  BY DEF CI!PlaceOf, IM!PlaceOf, CI!Wrap, IM!Wrap
<1>2. \A place : CI!Stored(contents, place, n, value) = IM!Stored(contents, place, n, value)
  BY DEF IM!Stored, CI!Stored, IM!Place, CI!Place, IM!Shr, CI!Shr, IM!ByteBits, CI!ByteBits
<1>3. /\ \A stored, how : CI!Accessed(r, stored, how) = IM!Accessed(r, stored, how)
      /\ CI!Fault(r, contents, "AdES") = IM!Fault(r, contents, "AdES")
  BY DEF CI!Accessed, IM!Accessed, CI!Fault, IM!Fault
<1>4. /\ CI!TouchesZero(x, n) <=> IM!TouchesZero(x, n)
      /\ \A place : CI!InRange(place, n) <=> IM!InRange(place, n)
      /\ \A place : CI!Writable(c, place, n) <=> IM!Writable(c, place, n)
  BY DEF CI!TouchesZero, IM!TouchesZero, CI!Signed, IM!Signed, CI!Top, IM!Top,
     CI!Writable, IM!Writable, CI!InRange, IM!InRange
<1>5. CI!Address(x, i) = IM!Address(x, i)
  BY DEF CI!Address, IM!Address, CI!Wrap, IM!Wrap, CI!Offset, IM!Offset, CI!SignedField,
     IM!SignedField
<1> QED
  BY <1>1, <1>2, <1>3, <1>4, <1>5 DEF CI!Store, IM!Store

(* The stores of the unit *)
LEMMA UnitStoresAlike ==
    ASSUME NEW late \in BOOLEAN, NEW v, NEW w, Twins(late, v, w), NEW m, NEW r, Agreed(m, r),
           NEW c, Proper(c), NEW contents, NEW i, i.rs \in Register, i.imm \in Half,
           NEW op \in UnitStores, NEW a, a = Accessing(op, r, v, i, c, contents),
           NEW b, b = IF op = "SWC1" THEN CE!SWC1(m, w, contents, i, c)
                                    ELSE CE!SDC1(m, w, contents, i, c)
    PROVE  /\ a.out[1] = "raise" => a.memory = contents
           /\ b.out[1] = "raise" => b.memory = contents
           /\ SmallMemory /\ ~AD!StoreDiffers(IF op = "SWC1" THEN 4 ELSE 8, i, c,
                                              Wrap(r[i.rs] + Offset(i))) =>
                a.memory = b.memory /\ a.out = b.out
<1> DEFINE address == Wrap(r[i.rs] + Offset(i))
           n == IF op = "SWC1" THEN 4 ELSE 8
           x == IF op = "SWC1" THEN v.f[i.ft][1] ELSE CI!Get(v, CI!Double, i.ft)
           p == IM!Store(r, contents, c, address, n, x)
           q == EM!StoreValue(m, contents, i, c, n, x)
<1>1. CI!Address(r[i.rs], i) = address
  BY AddressIs, SharedStore
<1>2. v.f = w.f /\ CI!Get(v, CI!Double, i.ft) = CE!Get(w, CE!Double, i.ft)
  BY TwinsAre, GetsTwin, SharedUnits
<1>3. CI!Store(r, contents, c, address, n, x) = p
  BY SharedStore
<1>4. CE!StoreValue(m, contents, i, c, n, x) = q
  BY SharedEmittedStore
<1>5. op = "SWC1" \/ op = "SDC1"
  BY DEF UnitStores
<1>6. a.memory = p.memory /\ a.out = p.out
  <2>1. a = CI!WithUnit(CI!Store(r, contents, c, address, n, x), v)
    BY <1>1, <1>5 DEF Accessing, CI!SWC1, CI!SDC1
  <2> HIDE DEF address, n, x, p
  <2> QED
    BY <1>3, <2>1 DEF CI!WithUnit
<1>7. b = q
  <2>1. CE!StoreValue(m, contents, i, c, n, x) = b
    BY <1>2, <1>5 DEF CE!SWC1, CE!SDC1
  <2> QED
    BY <1>4, <2>1
<1>8. n \in {1, 2, 4, 8}
  OBVIOUS
<1> HIDE DEF x, n, address
<1>9. p.out[1] = "raise" => p.memory = contents
  BY StoreKeeps DEF Kept
<1>10. q.out[1] = "raise" => q.memory = contents
  BY EmittedValueKeeps DEF Kept
<1>11. SmallMemory /\ ~AD!StoreDiffers(n, i, c, address) => p.memory = q.memory /\ p.out = q.out
  BY <1>8, ValuesStoredAlike DEF AccessAlike, address
<1> HIDE DEF p, q
<1>12. /\ a.out[1] = "raise" => a.memory = contents
       /\ b.out[1] = "raise" => b.memory = contents
       /\ SmallMemory /\ ~AD!StoreDiffers(n, i, c, address) =>
                a.memory = b.memory /\ a.out = b.out
  BY <1>6, <1>7, <1>9, <1>10, <1>11
<1> QED
  BY <1>12 DEF n, address

-------------------------------------------------------------------------------
(* Coprocessor 1: the specification *)

UnitsBegin == Begins /\ fpu.host = fpu.guest /\ fpu.guest \in Unit

(* What one instruction does to two machines that agree *)
UnitsUndo ==
    /\ Raised(executed'[3]) =>
        guest' = guest /\ fpu'.guest.f = fpu.guest.f /\ memory'.guest = memory.guest
    /\ Raised(executed'[4]) =>
        /\ View(host') = View(host) /\ fpu'.host.f = fpu.host.f
        /\ memory'.host = memory.host

(* A clock that is late makes twins the same. *)
LEMMA ClocksAre ==
    ASSUME NEW late \in BOOLEAN, late, NEW v, NEW w, Twins(late, v, w)
    PROVE  Clock(v) = Clock(w)
BY TwinsAre

(* Twins are units that agree, or agree but for the clock that is late. *)
LEMMA TwinsAgree ==
    ASSUME NEW late \in BOOLEAN, late = ~executed'[5], Twins(late, fpu'.guest, fpu'.host),
           executed'[3] = executed'[4], memory'.host = memory'.guest,
           View(host') = guest' \/ (late /\ executed'[1] = "CFC1")
    PROVE  UnitsAgree'
<1>1. CASE late
  <2>1. fpu'.host.clocks /\ Clock(fpu'.guest) = Clock(fpu'.host)
    <3> DEFINE v == fpu'.guest
               w == fpu'.host
    <3>1. Twins(late, v, w)
      OBVIOUS
    <3> HIDE DEF v, w
    <3>2. w.clocks
      BY <1>1, <3>1, TwinsAre
    <3>3. Clock(v) = Clock(w)
      BY <1>1, <3>1, ClocksAre
    <3> QED
      BY <3>2, <3>3 DEF v, w
  <2>2. ClockLate'
    BY <1>1, <2>1 DEF ClockLate, SameButReserved, Op, View
  <2> QED
    BY <2>2 DEF UnitsAgree
<1>2. CASE ~late
  <2>1. fpu'.guest = fpu'.host
    BY <1>2, TwinsAre
  <2>2. SameUnits'
    BY <1>2, <2>1 DEF SameUnits, View
  <2> QED
    BY <2>2 DEF UnitsAgree
<1> QED
  BY <1>1, <1>2

(* Whether a chunk is entered *)
LEMMA EnteringIs ==
    ASSUME UnitsBegin, NEW entered \in Entering, NEW late \in BOOLEAN, late = ~entered
    PROVE  /\ Twins(late, ClockedIf(fpu.guest, TRUE), ClockedIf(fpu.host, entered))
           /\ ClockedIf(fpu.guest, TRUE).f = fpu.guest.f
           /\ ClockedIf(fpu.host, entered).f = fpu.guest.f /\ fpu.host.f = fpu.guest.f
           /\ fpu.guest.f \in [FRegister -> Word \X Word]
           /\ Agreed(host, guest) /\ memory.host = memory.guest /\ View(host) = guest
<1>1. entered \in BOOLEAN /\ (~entered => fpu.guest.clocks)
  BY DEF Entering, UnitsBegin
<1>2. fpu.guest \in Unit /\ fpu.host = fpu.guest
  BY DEF UnitsBegin
<1>3. /\ Twins(late, ClockedIf(fpu.guest, TRUE), ClockedIf(fpu.guest, entered))
      /\ ClockedIf(fpu.guest, TRUE).f = fpu.guest.f
      /\ ClockedIf(fpu.guest, entered).f = fpu.guest.f
  BY <1>1, <1>2, ClocksTwin
<1>4. fpu.guest.f \in [FRegister -> Word \X Word]
  BY <1>2 DEF Unit
<1>5. Agreed(host, guest) /\ memory.host = memory.guest /\ View(host) = guest
  BY BeginsAgreed DEF UnitsBegin, Begins, Agreed
<1> QED
  BY <1>2, <1>3, <1>4, <1>5

(* An instruction of the unit alone *)
LEMMA OperateEnds ==
    ASSUME UnitsBegin, NEW entered \in Entering, NEW op \in UnitOperations, NEW F, NEW i, NEW h,
           NEW o, Operate(op, F, i, h, o, entered)
    PROVE  UnitsUndo /\ UnitsAgree' /\ executed' # <<>>
<1> DEFINE v == ClockedIf(fpu.guest, TRUE)
           w == ClockedIf(fpu.host, entered)
           a == Handled(op, v, F, i, h, o)
           c == Handled(op, w, F, i, h, o)
           b == IF op \in CE!Emits THEN CE!SEL(host, w, F, i) ELSE c
<1>1. PICK late \in BOOLEAN : late = ~entered
  BY DEF Entering
<1>2. /\ Twins(late, v, w) /\ v.f = fpu.guest.f /\ w.f = fpu.guest.f
      /\ fpu.host.f = fpu.guest.f /\ memory.host = memory.guest /\ View(host) = guest
  BY <1>1, EnteringIs
<1>3. /\ fpu' = [guest |-> a.fpu, host |-> b.fpu]
      /\ executed' = <<op, i, a.out, b.out, entered, F, h>>
      /\ guest' = guest /\ host' = host /\ memory' = memory
  BY DEF Operate
<1> HIDE DEF v, w
<1>4. TwinEnds(late, a, c, v.f)
  BY <1>2, HandledAlike
<1>5. op \in CE!Emits <=> op = "SEL"
  BY DEF CE!Emits, UnitOperations, Computations, Copies, Choices, Conversions, Narrow, Wide
<1>6. op = "SEL" => a = CI!SEL(v, F, i, h)
  BY DEF Handled
<1>7. CE!SEL(host, w, F, i).out = <<"next">>
  BY DEF CE!SEL, CE!MovedBy
<1> HIDE DEF a, c
<1>8. /\ op # "SEL" => b = c
      /\ op = "SEL" => b = CE!SEL(host, w, F, i)
  BY <1>5
<1> HIDE DEF b
<1>9. /\ fpu'.guest = a.fpu /\ fpu'.host = b.fpu
      /\ executed'[1] = op /\ executed'[3] = a.out /\ executed'[4] = b.out
      /\ executed'[5] = entered /\ executed'[7] = h /\ executed' # <<>>
  BY <1>3
<1>10. UnitsUndo
  <2>1. a.out[1] = "raise" => a.fpu.f = fpu.guest.f
    BY <1>2, <1>4 DEF TwinEnds
  <2>2. CASE op = "SEL"
    <3>1. <<"next">>[1] # "raise"
      OBVIOUS
    <3> QED
      BY <1>3, <1>7, <1>8, <1>9, <2>1, <2>2, <3>1 DEF UnitsUndo, Raised
  <2>3. CASE op # "SEL"
    <3>1. b.out = a.out /\ b.fpu.f = a.fpu.f
      BY <1>4, <1>8, <2>3, TwinsAre DEF TwinEnds
    <3> QED
      BY <1>2, <1>3, <1>9, <2>1, <3>1 DEF UnitsUndo, Raised, View
  <2> QED
    BY <2>2, <2>3
<1>11. ASSUME TwinEnds(late, a, b, v.f) PROVE UnitsAgree'
  <2>1. Twins(late, fpu'.guest, fpu'.host) /\ executed'[3] = executed'[4]
    BY <1>9, <1>11 DEF TwinEnds
  <2>2. late = ~executed'[5] /\ memory'.host = memory'.guest /\ View(host') = guest'
    BY <1>1, <1>2, <1>3, <1>9 DEF View
  <2> QED
    BY <2>1, <2>2, TwinsAgree
<1>12. UnitsAgree'
  <2>1. CASE op # "SEL"
    BY <1>4, <1>8, <1>11, <2>1
  <2>2. CASE /\ op = "SEL" /\ h.traps
             /\ \/ h.status \cap {"InvalidOp", "DivZero"} # {}
                \/ h.status = {"Overflow"}
    <3>1. StaleSignal'
      BY <1>9, <2>2 DEF StaleSignal, Op
    <3> QED
      BY <3>1 DEF UnitsAgree
  <2>3. CASE /\ op = "SEL"
             /\ ~(/\ h.traps
                  /\ \/ h.status \cap {"InvalidOp", "DivZero"} # {}
                     \/ h.status = {"Overflow"})
    <3>1. TwinEnds(late, CI!SEL(v, F, i, h), CE!SEL(host, w, F, i), v.f)
      BY <1>2, <2>3, SelectsTwin
    <3> QED
      BY <1>6, <1>8, <1>11, <2>3, <3>1
  <2> QED
    BY <2>1, <2>2, <2>3
<1> QED
  BY <1>9, <1>10, <1>12

(* One of the unit and the registers of the processor *)
LEMMA MoveEnds ==
    ASSUME UnitsBegin, NEW entered \in Entering,
           NEW op \in Moves \cup ControlMoves \cup UnitBranches, NEW i, i.rt \in Register,
           op \in UnitBranches => i.ft \in FRegister, Move(op, i, entered)
    PROVE  UnitsUndo /\ UnitsAgree' /\ executed' # <<>>
<1> DEFINE v == ClockedIf(fpu.guest, TRUE)
           w == ClockedIf(fpu.host, entered)
           a == Moving(op, guest, v, i)
           b == MovingByHost(op, w, i)
<1>1. PICK late \in BOOLEAN : late = ~entered
  BY DEF Entering
<1>2. /\ Twins(late, v, w) /\ v.f = fpu.guest.f /\ w.f = fpu.guest.f
      /\ fpu.host.f = fpu.guest.f /\ memory.host = memory.guest /\ View(host) = guest
      /\ v.f \in [FRegister -> Word \X Word] /\ Agreed(host, guest)
  BY <1>1, EnteringIs
<1>3. /\ guest' = a.regs /\ host' = b.regs /\ fpu' = [guest |-> a.fpu, host |-> b.fpu]
      /\ executed' = <<op, i, a.out, b.out, entered>> /\ memory' = memory
  BY DEF Move
<1> HIDE DEF v, w
<1>4. ASSUME op \notin ControlMoves PROVE MovesAlike(late, a, b, guest, v.f)
  <2>1. /\ MovesAlike(late, CI!MFC1(guest, v, i), CE!MFC1(host, w, i), guest, v.f)
        /\ MovesAlike(late, CI!MFHC1(guest, v, i), CE!MFHC1(host, w, i), guest, v.f)
        /\ MovesAlike(late, CI!MTC1(guest, v, i), CE!MTC1(host, w, i), guest, v.f)
        /\ MovesAlike(late, CI!MTHC1(guest, v, i), CE!MTHC1(host, w, i), guest, v.f)
        /\ i.ft \in FRegister =>
            /\ MovesAlike(late, CI!BC1EQZ(guest, v, i), CE!BC1EQZ(host, w, i), guest, v.f)
            /\ MovesAlike(late, CI!BC1NEZ(guest, v, i), CE!BC1NEZ(host, w, i), guest, v.f)
    BY <1>2, EmittedMovesAlike
  <2>2. CASE op = "MFC1"
    BY <2>1, <2>2 DEF Moving, MovingByHost
  <2>3. CASE op = "MFHC1"
    BY <2>1, <2>3 DEF Moving, MovingByHost
  <2>4. CASE op = "MTC1"
    BY <2>1, <2>4 DEF Moving, MovingByHost
  <2>5. CASE op = "MTHC1"
    BY <2>1, <2>5 DEF Moving, MovingByHost
  <2>6. CASE op = "BC1EQZ"
    BY <2>1, <2>6 DEF Moving, MovingByHost, UnitBranches
  <2>7. CASE op = "BC1NEZ"
    BY <2>1, <2>7 DEF Moving, MovingByHost, UnitBranches
  <2> QED
    BY <1>4, <2>2, <2>3, <2>4, <2>5, <2>6, <2>7 DEF Moves, UnitBranches, ControlMoves
<1>5. ASSUME op = "CFC1"
      PROVE  /\ MovesEnd(late, a, b, guest, v.f)
             /\ ~late /\ i.rt # 30 => View(b.regs) = a.regs
  <2>1. a = CI!CFC1(guest, v, i) /\ b = MovingByHost("CFC1", w, i)
    BY <1>5 DEF Moving
  <2> HIDE DEF a, b
  <2> QED
    BY <1>2, <2>1, ControlRead
<1>6. ASSUME op = "CTC1"
      PROVE  /\ i.rt # 30 => MovesAlike(late, a, b, guest, v.f)
             /\ a.out[1] = "raise" => a.regs = guest /\ a.fpu.f = v.f
             /\ b.out[1] = "raise" => View(b.regs) = guest /\ b.fpu.f = v.f
  <2>1. a = CI!CTC1(guest, v, i) /\ b = MovingByHost("CTC1", w, i)
    BY <1>6 DEF Moving
  <2> HIDE DEF a, b
  <2> QED
    BY <1>2, <2>1, ControlWritten, ControlUndoes
<1>7. op \in ControlMoves <=> op = "CFC1" \/ op = "CTC1"
  BY DEF ControlMoves
<1> HIDE DEF a, b
<1>8. /\ fpu'.guest = a.fpu /\ fpu'.host = b.fpu
      /\ executed'[1] = op /\ executed'[2] = i /\ executed'[3] = a.out
      /\ executed'[4] = b.out /\ executed'[5] = entered /\ executed' # <<>>
  BY <1>3
<1>9. ASSUME MovesEnd(late, a, b, guest, v.f) PROVE UnitsUndo
  <2>1. a.out = b.out /\ a.fpu.f = b.fpu.f
    BY <1>9, TwinsAre DEF MovesEnd
  <2>2. a.out[1] = "raise" => a.fpu.f = v.f /\ a.regs = guest /\ View(b.regs) = guest
    BY <1>9 DEF MovesEnd
  <2> QED
    BY <1>2, <1>3, <1>8, <2>1, <2>2 DEF UnitsUndo, Raised
<1>10. ASSUME MovesEnd(late, a, b, guest, v.f),
              View(b.regs) = a.regs \/ (late /\ op = "CFC1")
       PROVE  UnitsAgree'
  <2>1. Twins(late, fpu'.guest, fpu'.host) /\ executed'[3] = executed'[4]
    BY <1>8, <1>10 DEF MovesEnd
  <2>2. late = ~executed'[5] /\ memory'.host = memory'.guest
    BY <1>1, <1>2, <1>3, <1>8
  <2>3. View(host') = guest' \/ (late /\ executed'[1] = "CFC1")
    BY <1>3, <1>8, <1>10
  <2> QED
    BY <2>1, <2>2, <2>3, TwinsAgree
<1>11. CASE op \notin ControlMoves
  BY <1>4, <1>8, <1>9, <1>10, <1>11 DEF MovesAlike
<1>12. CASE op \in ControlMoves /\ i.rt = 30
  <2>1. StaleFrame'
    BY <1>7, <1>8, <1>12 DEF StaleFrame, Op, Instr, fp
  <2>2. UnitsAgree'
    BY <2>1 DEF UnitsAgree
  <2>3. CASE op = "CFC1"
    BY <1>5, <1>8, <1>9, <2>2, <2>3
  <2>4. CASE op = "CTC1"
    BY <1>2, <1>3, <1>6, <1>8, <2>2, <2>4 DEF UnitsUndo, Raised
  <2> QED
    BY <1>7, <1>12, <2>3, <2>4
<1>13. CASE op \in ControlMoves /\ i.rt # 30
  <2>1. CASE op = "CFC1"
    BY <1>5, <1>8, <1>9, <1>10, <1>13, <2>1
  <2>2. CASE op = "CTC1"
    BY <1>6, <1>8, <1>9, <1>10, <1>13, <2>2 DEF MovesAlike
  <2> QED
    BY <1>7, <1>13, <2>1, <2>2
<1> QED
  BY <1>11, <1>12, <1>13

(* Slots that agree have every register of the guest but $30. *)
LEMMA SlotsShow ==
    ASSUME NEW m, NEW r, Agreed(m, r), NEW n \in Register, n # 30
    PROVE  m.slot[n] = r[n]
BY DEF Agreed, View, fp

(* A load of the unit *)
LEMMA LoadEnds ==
    ASSUME UnitsBegin, NEW entered \in Entering, NEW op \in UnitLoads, NEW i,
           i.rs \in Register, NEW c, Load(op, i, c, entered)
    PROVE  UnitsUndo /\ UnitsAgree' /\ executed' # <<>>
<1> DEFINE v == ClockedIf(fpu.guest, TRUE)
           w == ClockedIf(fpu.host, entered)
           slots == host.slot
           a == Accessing(op, guest, v, i, c, memory.guest)
           b == Accessing(op, slots, w, i, c, memory.guest)
<1>1. PICK late \in BOOLEAN : late = ~entered
  BY DEF Entering
<1>2. /\ Twins(late, v, w) /\ v.f = fpu.guest.f /\ w.f = fpu.guest.f
      /\ fpu.host.f = fpu.guest.f /\ memory.host = memory.guest /\ View(host) = guest
      /\ Agreed(host, guest)
  BY <1>1, EnteringIs
<1>3. /\ fpu' = [guest |-> a.fpu, host |-> b.fpu]
      /\ executed' = <<op, i, a.out, b.out, entered, c>>
      /\ guest' = guest /\ host' = host /\ memory' = memory
  BY <1>2 DEF Load
<1>4. guest[i.rs] = slots[i.rs] \/ i.rs = 30
  BY <1>2, SlotsShow
<1> HIDE DEF v, w, slots
<1>5. /\ guest[i.rs] = slots[i.rs] => a.out = b.out /\ Twins(late, a.fpu, b.fpu)
      /\ a.out[1] = "raise" => a.fpu = v
  <2>1. ASSUME guest[i.rs] = slots[i.rs]
        PROVE  /\ Accessing(op, guest, v, i, c, memory.guest).out
                    = Accessing(op, slots, w, i, c, memory.guest).out
               /\ Twins(late, Accessing(op, guest, v, i, c, memory.guest).fpu,
                              Accessing(op, slots, w, i, c, memory.guest).fpu)
    BY <1>2, <2>1, UnitLoadsAlike
  <2> QED
    BY <2>1, UnitLoadsUndo
<1>6. b.out[1] = "raise" => b.fpu = w
  BY UnitLoadsUndo
<1> HIDE DEF a, b
<1>7. /\ fpu'.guest = a.fpu /\ fpu'.host = b.fpu
      /\ executed'[1] = op /\ executed'[2] = i /\ executed'[3] = a.out
      /\ executed'[4] = b.out /\ executed'[5] = entered /\ executed' # <<>>
  BY <1>3
<1>8. UnitsUndo
  BY <1>2, <1>3, <1>5, <1>6, <1>7 DEF UnitsUndo, Raised, View
<1>9. CASE i.rs = 30
  <2>1. StaleFrame'
    BY <1>7, <1>9 DEF StaleFrame, Op, Instr, fp
  <2> QED
    BY <1>7, <1>8, <2>1 DEF UnitsAgree
<1>10. CASE guest[i.rs] = slots[i.rs]
  <2>1. Twins(late, fpu'.guest, fpu'.host) /\ executed'[3] = executed'[4]
    BY <1>5, <1>7, <1>10
  <2>2. late = ~executed'[5] /\ memory'.host = memory'.guest /\ View(host') = guest'
    BY <1>1, <1>2, <1>3, <1>7 DEF View
  <2> QED
    BY <1>7, <1>8, <2>1, <2>2, TwinsAgree
<1> QED
  BY <1>4, <1>9, <1>10

(* A store of the unit *)
LEMMA StoreEnds ==
    ASSUME UnitsBegin, NEW entered \in Entering, NEW op \in UnitStores, NEW i,
           i.rs \in Register, i.imm \in Half, NEW c \in Configurations,
           Store(op, i, c, entered)
    PROVE  UnitsUndo /\ executed' # <<>> /\ (SmallMemory => UnitsAgree')
<1> DEFINE v == ClockedIf(fpu.guest, TRUE)
           w == ClockedIf(fpu.host, entered)
           a == Accessing(op, guest, v, i, c, memory.guest)
           b == IF op = "SWC1" THEN CE!SWC1(host, w, memory.guest, i, c)
                               ELSE CE!SDC1(host, w, memory.guest, i, c)
           n == IF op = "SWC1" THEN 4 ELSE 8
           address == Wrap(guest[i.rs] + Offset(i))
<1>1. PICK late \in BOOLEAN : late = ~entered
  BY DEF Entering
<1>2. /\ Twins(late, v, w) /\ v.f = fpu.guest.f /\ w.f = fpu.guest.f
      /\ fpu.host.f = fpu.guest.f /\ memory.host = memory.guest /\ View(host) = guest
      /\ Agreed(host, guest)
  BY <1>1, EnteringIs
<1>3. /\ fpu' = [guest |-> v, host |-> w]
      /\ memory' = [guest |-> a.memory, host |-> b.memory]
      /\ executed' = <<op, i, a.out, b.out, entered, c>>
      /\ guest' = guest /\ host' = host
  BY <1>2 DEF Store
<1>4. Proper(c)
  BY ConfigurationsAre
<1>5. CI!Address(guest[i.rs], i) = address
  BY <1>2, AddressIs, SharedStore
<1> HIDE DEF v, w
<1>6. /\ a.out[1] = "raise" => a.memory = memory.guest
      /\ b.out[1] = "raise" => b.memory = memory.guest
      /\ SmallMemory /\ ~AD!StoreDiffers(n, i, c, address) =>
            a.memory = b.memory /\ a.out = b.out
  BY <1>2, <1>4, UnitStoresAlike
<1> HIDE DEF a, b, address
<1>7. /\ fpu'.guest = v /\ fpu'.host = w
      /\ memory'.guest = a.memory /\ memory'.host = b.memory
      /\ executed'[1] = op /\ executed'[2] = i /\ executed'[3] = a.out
      /\ executed'[4] = b.out /\ executed'[5] = entered /\ executed'[6] = c
      /\ executed' # <<>>
  BY <1>3
<1>8. UnitsUndo
  BY <1>2, <1>3, <1>6, <1>7 DEF UnitsUndo, Raised, View
<1>9. AccessSize' = n
  BY <1>7 DEF AccessSize, Op, UnitStores
<1> HIDE DEF n
<1>10. CASE AD!StoreDiffers(n, i, c, address)
  <2>1. /\ executed'[1] \in UnitStores
        /\ AD!StoreDiffers(AccessSize', executed'[2], executed'[6],
                           CI!Address(guest'[executed'[2].rs], executed'[2]))
    BY <1>3, <1>5, <1>7, <1>9, <1>10
  <2>2. UnitStoreDiffers'
    BY <2>1 DEF UnitStoreDiffers, Op, Instr
  <2> QED
    BY <1>7, <1>8, <2>2 DEF UnitsAgree
<1>11. ASSUME ~AD!StoreDiffers(n, i, c, address), SmallMemory
       PROVE  UnitsAgree'
  <2>1. /\ Twins(late, fpu'.guest, fpu'.host) /\ executed'[3] = executed'[4]
        /\ memory'.host = memory'.guest
    BY <1>2, <1>6, <1>7, <1>11
  <2>2. late = ~executed'[5] /\ View(host') = guest'
    BY <1>1, <1>2, <1>3, <1>7 DEF View
  <2> QED
    BY <2>1, <2>2, TwinsAgree
<1> QED
  BY <1>7, <1>8, <1>10, <1>11

(* The sorts of instructions give operands that they can have. *)
LEMMA UnitOperandsFit ==
    /\ \A sort \in UnitSorts : sort[1] \subseteq UnitOperations
    /\ \A sort \in MoveSorts : \A op \in sort[1], i \in sort[2] :
        /\ op \in Moves \cup ControlMoves \cup UnitBranches /\ i.rt \in Register
        /\ op \in UnitBranches => i.ft \in FRegister
    /\ \A i \in AccessSort[2] : i.rs \in Register /\ i.imm \in Half
<1>1. 0 \in Register /\ Operand \subseteq Register /\ FResult \subseteq FRegister
  BY RegistersHaveZero, SideBySideAssumption, CoprocessorAssumption
<1>2. ASSUME NEW sort \in UnitSorts
      PROVE  sort[1] \subseteq UnitOperations
  <2>1. \/ sort[1] = Computations \/ sort[1] = Copies \/ sort[1] = {"CLASS"}
        \/ sort[1] = Choices \/ sort[1] = Conversions \/ sort[1] = Narrow \cup Wide
        \/ sort[1] = {"CMP"}
    BY <1>2 DEF UnitSorts
  <2> QED
    BY <2>1 DEF UnitOperations, Copies
<1>3. ASSUME NEW sort \in MoveSorts, NEW op \in sort[1], NEW i \in sort[2]
      PROVE  /\ op \in Moves \cup ControlMoves \cup UnitBranches /\ i.rt \in Register
             /\ op \in UnitBranches => i.ft \in FRegister
  <2>1. CASE sort = <<Moves, UnitInstruction(One, FResult, One, {0}, Operand, {0}, {0})>>
    <3>1. op \in Moves /\ i \in UnitInstruction(One, FResult, One, {0}, Operand, {0}, {0})
      BY <2>1
    <3> QED
      BY <1>1, <3>1 DEF UnitInstruction, Moves, UnitBranches
  <2>2. CASE sort = <<ControlMoves, UnitInstruction(One, CI!Controls \cup {1}, One, {0},
                                                    Operand, {0}, {0})>>
    <3>1. /\ op \in ControlMoves
          /\ i \in UnitInstruction(One, CI!Controls \cup {1}, One, {0}, Operand, {0}, {0})
      BY <2>2
    <3> QED
      BY <1>1, <3>1 DEF UnitInstruction, ControlMoves, UnitBranches
  <2>3. CASE sort = <<UnitBranches, UnitInstruction(One, {0}, FResult, {0}, {0}, Half, {0})>>
    <3>1. /\ op \in UnitBranches
          /\ i \in UnitInstruction(One, {0}, FResult, {0}, {0}, Half, {0})
      BY <2>3
    <3> QED
      BY <1>1, <3>1 DEF UnitInstruction
  <2> QED
    BY <2>1, <2>2, <2>3 DEF MoveSorts
<1>4. ASSUME NEW i \in AccessSort[2]
      PROVE  i.rs \in Register /\ i.imm \in Half
  BY <1>1, <1>4 DEF AccessSort, UnitInstruction
<1> QED
  BY <1>2, <1>3, <1>4

(* Again nothing is executed twice: what has to be invariant is only that  *)
(* the machines and their units agree while nothing is executed yet.       *)

UnitReady == executed = <<>> => UnitsBegin

(* It holds at the start, *)
LEMMA UnitInitReady == UnitInit => UnitReady
<1>1. ASSUME NEW u \in Units, fpu = [guest |-> u, host |-> u]
      PROVE  fpu.host = fpu.guest /\ fpu.guest \in Unit
  BY <1>1, CoprocessorAssumption
<1> QED
  BY <1>1, InitReady DEF UnitInit, UnitReady, UnitsBegin, Ready, Init

(* One instruction of the unit, from machines that agree *)
LEMMA UnitNextEnds ==
    ASSUME UnitReady, UnitNext
    PROVE  UnitsUndo /\ executed' # <<>> /\ (SmallMemory => UnitsAgree')
<1>1. UnitsBegin
  BY DEF UnitReady, UnitNext
<1>2. PICK entered \in Entering :
        \/ \E sort \in UnitSorts, F \in Formats, traps \in BOOLEAN :
           \E op \in sort[1], i \in sort[2], status \in sort[3], o \in sort[4] :
              Operate(op, F, i, [traps |-> traps, status |-> status], o, entered)
        \/ \E sort \in MoveSorts : \E op \in sort[1], i \in sort[2] :
              Move(op, i, entered)
        \/ \E op \in UnitLoads, i \in AccessSort[2], c \in Configurations :
              Load(op, i, c, entered)
        \/ \E op \in UnitStores, i \in AccessSort[2], c \in Configurations :
              Store(op, i, c, entered)
  BY DEF UnitNext
<1>3. ASSUME NEW sort \in UnitSorts, NEW F, NEW h, NEW op \in sort[1], NEW i, NEW o,
             Operate(op, F, i, h, o, entered)
      PROVE  UnitsUndo /\ executed' # <<>> /\ UnitsAgree'
  <2>1. op \in UnitOperations
    BY <1>3, UnitOperandsFit
  <2> QED
    BY <1>1, <1>3, <2>1, OperateEnds
<1>4. ASSUME NEW sort \in MoveSorts, NEW op \in sort[1], NEW i \in sort[2],
             Move(op, i, entered)
      PROVE  UnitsUndo /\ executed' # <<>> /\ UnitsAgree'
  <2>1. /\ op \in Moves \cup ControlMoves \cup UnitBranches /\ i.rt \in Register
        /\ op \in UnitBranches => i.ft \in FRegister
    BY <1>4, UnitOperandsFit
  <2> QED
    BY <1>1, <1>4, <2>1, MoveEnds
<1>5. ASSUME NEW op \in UnitLoads, NEW i \in AccessSort[2], NEW c,
             Load(op, i, c, entered)
      PROVE  UnitsUndo /\ executed' # <<>> /\ UnitsAgree'
  <2>1. i.rs \in Register
    BY <1>5, UnitOperandsFit
  <2> QED
    BY <1>1, <1>5, <2>1, LoadEnds
<1>6. ASSUME NEW op \in UnitStores, NEW i \in AccessSort[2], NEW c \in Configurations,
             Store(op, i, c, entered)
      PROVE  UnitsUndo /\ executed' # <<>> /\ (SmallMemory => UnitsAgree')
  <2>1. i.rs \in Register /\ i.imm \in Half
    BY <1>6, UnitOperandsFit
  <2> QED
    BY <1>1, <1>6, <2>1, StoreEnds
<1> QED
  BY <1>2, <1>3, <1>4, <1>5, <1>6

(* after every step, *)
LEMMA UnitNextReady == UnitReady /\ [UnitNext]_unitVars => UnitReady'
<1>1. ASSUME UnitReady, UNCHANGED unitVars PROVE UnitReady'
  BY <1>1 DEF UnitReady, unitVars, vars, UnitsBegin, Begins
<1> QED
  BY <1>1, UnitNextEnds DEF UnitReady

(* and so always. *)
LEMMA AlwaysUnitReady == UnitSpec => []UnitReady
BY UnitInitReady, UnitNextReady, PTL DEF UnitSpec

(* The two engines end every instruction of coprocessor 1 alike and leave    *)
(* the guest with the same registers, unit and memory, but for the four      *)
(* listed cases: for formats of any widths, any registers, units, words and  *)
(* contents, any status of the host's unit and any result of its arithmetic, *)
(* and any memory that ends below the sign bit.                              *)
THEOREM UnitsAlwaysAgree ==
    ASSUME SmallMemory
    PROVE  UnitSpec => []UnitsAgree
<1>1. UnitInit => UnitsAgree
  BY DEF UnitInit, Init, UnitsAgree
<1>2. UnitReady /\ UnitsAgree /\ [UnitNext]_unitVars => UnitsAgree'
  <2>1. ASSUME UNCHANGED unitVars PROVE UnitsAgree' <=> UnitsAgree
    BY <2>1 DEF unitVars, vars, UnitsAgree, SameUnits, StaleFrame, ClockLate, StaleSignal,
       UnitStoreDiffers, SameButReserved, AccessSize, Op, Instr, View
  <2> QED
    BY <2>1, UnitNextEnds
<1> QED
  BY <1>1, <1>2, AlwaysUnitReady, PTL DEF UnitSpec

(* An instruction of coprocessor 1 that raises an exception leaves the       *)
(* registers of the processor and of the unit and memory as it found them,   *)
(* in both engines.                                                          *)
THEOREM UnitExceptionsUndo == UnitSpec => UnitExceptionUndoes
<1> DEFINE Step ==
       /\ Raised(executed'[3]) =>
            /\ guest' = guest /\ fpu'.guest.f = fpu.guest.f
            /\ memory'.guest = memory.guest
       /\ Raised(executed'[4]) =>
            /\ View(host') = View(host) /\ fpu'.host.f = fpu.host.f
            /\ memory'.host = memory.host
<1>1. UnitReady /\ [UnitNext]_unitVars => [Step]_unitVars
  BY UnitNextEnds DEF UnitsUndo
<1>2. UnitExceptionUndoes <=> [][Step]_unitVars
  BY DEF UnitExceptionUndoes
<1> HIDE DEF Step
<1> QED
  BY <1>1, <1>2, AlwaysUnitReady, PTL DEF UnitSpec

-------------------------------------------------------------------------------
(* What the interpreter writes: numbers and comparisons *)

-------------------------------------------------------------------------------
(* Coprocessor 1: comparisons *)

(* Numbers are what they are, whichever module speaks. *)
LEMMA SharedNumbers ==
    ASSUME NEW F, NEW x, NEW y
    PROVE  /\ CI!IsNaN(F, x) <=> IsNaN(F, x)
           /\ CI!IsUnordered(F, x, y) <=> IsNaN(F, x) \/ IsNaN(F, y)
           /\ CI!IsLess(F, x, y) <=> IsLess(F, x, y)
           /\ CI!IsEqual(F, x, y) <=> IsEqual(F, x, y)
           /\ CI!SignallingNaN(F) = SignallingNaN(F)
<1>1. \A z : CI!IsNaN(F, z) <=> IsNaN(F, z)
  BY Zenon DEF CI!IsNaN, IsNaN, CI!IsFinite, IsFinite, CI!Exponent, Exponent, CI!Exponents,
     Exponents, CI!Fraction, Fraction, CI!FractionBits, FractionBits, CI!Absolute, Absolute,
     CI!SignBit, SignBit
<1>2. \A z : CI!Rank(F, z) = Rank(F, z)
  BY Zenon DEF CI!Rank, Rank, CI!IsNegative, IsNegative, CI!Absolute, Absolute, CI!SignBit,
     SignBit
<1>3. CI!SignallingNaN(F) = SignallingNaN(F)
  BY Zenon DEF CI!SignallingNaN, SignallingNaN, CI!Infinity, Infinity, CI!Exponents,
     Exponents, CI!FractionBits, FractionBits
<1> QED
  BY <1>1, <1>2, <1>3 DEF CI!IsUnordered, IsUnordered, CI!IsLess, IsLess, CI!IsEqual,
     IsEqual

(* The law of powers.  The provers compute those of two up to the word of the *)
(* processor and know no law: what a long word needs has to be given to them. *)
PowersOfTwo == \A m, n \in Nat : 2^m \in Nat \ {0} /\ 2^(m + n) = 2^m * 2^n

(* The numbers of a format *)
LEMMA FormatsAre ==
    ASSUME PowersOfTwo, NEW F \in Formats
    PROVE  /\ SignBit(F) \in Nat \ {0} /\ 2^F.width = SignBit(F) + SignBit(F)
           /\ F.width \in Nat /\ F.exponent \in Nat /\ F.exponent >= 2
           /\ FractionBits(F) \in Nat /\ FractionBits(F) >= 2
           /\ F.width = FractionBits(F) + F.exponent + 1
<1>1. /\ F.width \in Nat /\ F.width >= 4 /\ F.exponent \in 2 .. F.width - 3
  BY WordsAssumption, FloatingPointAssumption DEF Formats, Single, Double
<1>2. F.width - 1 \in Nat /\ (F.width - 1) + 1 = F.width
  BY <1>1
<1>3. 2^F.width = SignBit(F) * 2^1 /\ SignBit(F) \in Nat \ {0}
  BY <1>2 DEF PowersOfTwo, SignBit
<1>4. 2^1 = 2
  OBVIOUS
<1>5. 2^F.width = SignBit(F) + SignBit(F)
  BY <1>3, <1>4
<1> QED
  BY <1>1, <1>3, <1>5 DEF FractionBits

(* A rank is a number. *)
LEMMA RanksAre ==
    ASSUME PowersOfTwo, NEW F \in Formats, NEW x \in Int
    PROVE  Rank(F, x) \in Int
<1>1. SignBit(F) \in Nat \ {0}
  BY FormatsAre
<1>2. Absolute(F, x) \in Int
  BY <1>1 DEF Absolute
<1> QED
  BY <1>2 DEF Rank

(* A register of a unit holds a number of every format, *)
LEMMA RegistersAre ==
    ASSUME PowersOfTwo, NEW u, u.f \in [FRegister -> Word \X Word], NEW F \in Formats,
           NEW n \in FRegister
    PROVE  CI!Get(u, F, n) \in 0 .. 2 * SignBit(F) - 1
<1> DEFINE low == u.f[n][1]
           high == u.f[n][2]
<1>1. /\ low \in 0 .. Size - 1 /\ high \in 0 .. Size - 1 /\ Size = 2^Bits
      /\ Size \in {16, 256, 65536, 4294967296}
  <2>1. low \in Word /\ high \in Word
    OBVIOUS
  <2>2. Size \in {16, 256, 65536, 4294967296}
    <3>1. CASE Bits = 4
      BY <3>1 DEF Size
    <3>2. CASE Bits = 8
      BY <3>2 DEF Size
    <3>3. CASE Bits = 16
      BY <3>3 DEF Size
    <3>4. CASE Bits = 32
      BY <3>4 DEF Size
    <3> QED
      BY <3>1, <3>2, <3>3, <3>4, WordsAssumption
  <2> HIDE DEF low, high
  <2> QED
    BY <2>1, <2>2, Sizes DEF Size
<1> HIDE DEF low, high
<1>2. CASE F = Single
  <2>1. 2 * SignBit(F) = Size
    BY <1>1, <1>2, FormatsAre DEF Single
  <2>2. CI!Get(u, F, n) = low
    BY <1>2 DEF CI!Get, CI!Single, Single, low
  <2> QED
    BY <1>1, <2>1, <2>2
<1>3. CASE F = Double
  <2>1. Bits \in Nat /\ Bits + Bits = F.width /\ F # Single
    BY <1>3, WordsAssumption DEF Single, Double
  <2>2. 2 * SignBit(F) = Size * Size
    <3>1. 2^(Bits + Bits) = Size * Size
      BY <1>1, <2>1 DEF PowersOfTwo
    <3> QED
      BY <2>1, <3>1, FormatsAre
  <2>3. CI!Get(u, F, n) = low + Size * high
    BY <1>1, <2>1 DEF CI!Get, CI!Single, Single, low, high
  <2>4. low + Size * high \in 0 .. Size * Size - 1
    BY <1>1
  <2> QED
    BY <2>2, <2>3, <2>4
<1> QED
  BY <1>2, <1>3 DEF Formats

(* and is what was written to it. *)
LEMMA GetsWhatIsSet ==
    ASSUME NEW F \in Formats, NEW n \in FRegister, NEW x \in Int,
           NEW f \in [FRegister -> Word \X Word], NEW mode, NEW flags, NEW enables,
           NEW cause, NEW raw, NEW clocks, NEW u,
           u = UnitWith(f, mode, flags, enables, cause, raw, clocks)
    PROVE  /\ CI!Get(CI!Set(u, F, n, x), F, n) = x
           /\ CI!Set(u, F, n, x).flags = u.flags
<1>1. Size \in Nat \ {0} /\ Size = 2^Bits
  BY Sizes DEF Size
<1>2. u.f = f
  BY PartsAre
<1>3. CASE F = CI!Single
  <2>1. CI!Set(u, F, n, x) = [u EXCEPT !.f[n] = <<x, @[2]>>]
    BY <1>3 DEF CI!Set, CI!SetLow
  <2>2. CI!Set(u, F, n, x).f = [f EXCEPT ![n] = <<x, @[2]>>]
    BY <1>2, <2>1 DEF UnitWith
  <2>3. CI!Set(u, F, n, x).f[n] = <<x, f[n][2]>>
    BY <2>2
  <2>4. CI!Set(u, F, n, x).flags = u.flags
    BY <2>1 DEF UnitWith
  <2> QED
    BY <1>3, <2>3, <2>4 DEF CI!Get
<1>4. CASE F # CI!Single
  <2> DEFINE low == CI!Wrap(x)
             high == x \div 2^Bits
  <2>1. CI!Set(u, F, n, x) = [u EXCEPT !.f[n] = <<low, high>>]
    BY <1>4 DEF CI!Set
  <2>2. low + 2^Bits * high = x
    BY <1>1 DEF CI!Wrap
  <2> HIDE DEF low, high
  <2>3. CI!Set(u, F, n, x).f = [f EXCEPT ![n] = <<low, high>>]
    BY <1>2, <2>1 DEF UnitWith
  <2>4. CI!Set(u, F, n, x).f[n] = <<low, high>>
    BY <2>3
  <2>5. CI!Set(u, F, n, x).flags = u.flags
    BY <2>1 DEF UnitWith
  <2> QED
    BY <1>4, <2>2, <2>4, <2>5 DEF CI!Get
<1> QED
  BY <1>3, <1>4

(* The bits of a condition *)
LEMMA ConditionsAre ==
    ASSUME NEW c \in 0 .. 31
    PROVE  /\ CI!Bit(c, 4) <=> c >= 16
           /\ CI!Bit(c, 3) <=> c \in 8 .. 15 \cup 24 .. 31
           /\ CI!Bit(c, 2) <=> c % 8 >= 4
           /\ CI!Bit(c, 1) <=> c % 8 \in {2, 3, 6, 7}
           /\ CI!Bit(c, 0) <=> c % 8 \in {1, 3, 5, 7}
           /\ c % 8 \in 0 .. 7
BY DEF CI!Bit

(* The predicates, by the bits of a condition *)
LEMMA PredicatesAre ==
    ASSUME NEW k \in 0 .. 7
    PROVE  /\ "un" \in Predicates[k + 1] <=> k \in {1, 3, 5, 7}
           /\ "eq" \in Predicates[k + 1] <=> k \in {2, 3, 6, 7}
           /\ "lt" \in Predicates[k + 1] <=> k >= 4
           /\ "gt" \notin Predicates[k + 1]
BY DEF Predicates

(* How two numbers relate, told by four questions of which one holds *)
LEMMA RelationsAre ==
    ASSUME PowersOfTwo, NEW F \in Formats, NEW x \in Int, NEW y \in Int
    PROVE  /\ Relation(F, x, y) \in {"un", "lt", "gt", "eq"}
           /\ (IsNaN(F, x) \/ IsNaN(F, y)) <=> Relation(F, x, y) = "un"
           /\ IsLess(F, x, y) <=> Relation(F, x, y) = "lt"
           /\ IsLess(F, y, x) <=> Relation(F, x, y) = "gt"
           /\ IsEqual(F, x, y) <=> Relation(F, x, y) = "eq"
<1>1. Rank(F, x) \in Int /\ Rank(F, y) \in Int
  BY RanksAre
<1>2. CASE IsNaN(F, x) \/ IsNaN(F, y)
  BY <1>2 DEF Relation, IsLess, IsEqual, IsUnordered
<1>3. CASE ~(IsNaN(F, x) \/ IsNaN(F, y)) /\ Rank(F, x) < Rank(F, y)
  BY <1>1, <1>3 DEF Relation, IsLess, IsEqual, IsUnordered
<1>4. CASE ~(IsNaN(F, x) \/ IsNaN(F, y)) /\ Rank(F, y) < Rank(F, x)
  BY <1>1, <1>4 DEF Relation, IsLess, IsEqual, IsUnordered
<1>5. CASE ~(IsNaN(F, x) \/ IsNaN(F, y)) /\ Rank(F, y) = Rank(F, x)
  BY <1>1, <1>5 DEF Relation, IsLess, IsEqual, IsUnordered
<1> QED
  BY <1>1, <1>2, <1>3, <1>4, <1>5

(* What the handler asks of the bits of a condition is what the table has. *)
LEMMA HoldsAsTheTable ==
    ASSUME PowersOfTwo, NEW F \in Formats, NEW x \in Int, NEW y \in Int, NEW c \in 0 .. 31
    PROVE  CI!Holds(F, x, y, c) <=>
                (Relation(F, x, y) \in Predicates[(c % 8) + 1]) # (c >= 16)
<1> DEFINE k == c % 8
           r == Relation(F, x, y)
<1>1. /\ CI!Bit(c, 4) <=> c >= 16
      /\ CI!Bit(c, 2) <=> k >= 4
      /\ CI!Bit(c, 1) <=> k \in {2, 3, 6, 7}
      /\ CI!Bit(c, 0) <=> k \in {1, 3, 5, 7}
      /\ k \in 0 .. 7
  BY ConditionsAre
<1>2. /\ "un" \in Predicates[k + 1] <=> k \in {1, 3, 5, 7}
      /\ "eq" \in Predicates[k + 1] <=> k \in {2, 3, 6, 7}
      /\ "lt" \in Predicates[k + 1] <=> k >= 4
      /\ "gt" \notin Predicates[k + 1]
  BY <1>1, PredicatesAre
<1>3. /\ r \in {"un", "lt", "gt", "eq"}
      /\ CI!IsUnordered(F, x, y) <=> r = "un"
      /\ CI!IsLess(F, x, y) <=> r = "lt"
      /\ CI!IsLess(F, y, x) <=> r = "gt"
      /\ CI!IsEqual(F, x, y) <=> r = "eq"
  BY RelationsAre, SharedNumbers
<1> HIDE DEF k, r
<1>4. /\ (CI!Bit(c, 2) # CI!Bit(c, 4)) <=> ~(CI!Bit(c, 2) <=> CI!Bit(c, 4))
      /\ (CI!Bit(c, 1) # CI!Bit(c, 4)) <=> ~(CI!Bit(c, 1) <=> CI!Bit(c, 4))
      /\ (CI!Bit(c, 0) # CI!Bit(c, 4)) <=> ~(CI!Bit(c, 0) <=> CI!Bit(c, 4))
  BY Zenon DEF CI!Bit
<1>5. CI!Holds(F, x, y, c) <=>
          \/ ~(CI!Bit(c, 0) <=> CI!Bit(c, 4)) /\ CI!IsUnordered(F, x, y)
          \/ ~(CI!Bit(c, 1) <=> CI!Bit(c, 4)) /\ CI!IsEqual(F, x, y)
          \/ CI!Bit(c, 4) /\ CI!IsLess(F, y, x)
          \/ ~(CI!Bit(c, 2) <=> CI!Bit(c, 4)) /\ CI!IsLess(F, x, y)
  BY <1>4, Zenon DEF CI!Holds
<1>6. CI!Holds(F, x, y, c) <=> ~(r \in Predicates[k + 1] <=> c >= 16)
  <2>1. CASE r = "un"
    BY <1>1, <1>2, <1>3, <1>5, <2>1
  <2>2. CASE r = "lt"
    BY <1>1, <1>2, <1>3, <1>5, <2>2
  <2>3. CASE r = "gt"
    BY <1>1, <1>2, <1>3, <1>5, <2>3
  <2>4. CASE r = "eq"
    BY <1>1, <1>2, <1>3, <1>5, <2>4
  <2> QED
    BY <1>3, <2>1, <2>2, <2>3, <2>4
<1>7. CI!Holds(F, x, y, c) <=> (r \in Predicates[k + 1]) # (c >= 16)
  BY <1>6
<1> QED
  BY <1>7 DEF k, r

(* When a comparison raises or flags InvalidOp, and what it answers, as the  *)
(* table has them.                                                           *)
ReservedCondition(c) == c >= 16 /\ c % 8 \notin {1, 2, 3}
InvalidCompare(F, x, y, c) ==
    \/ SignallingNaN(F) \in {x, y}
    \/ c \in 8 .. 15 \cup 24 .. 31 /\ Relation(F, x, y) = "un"
Invalid(F, x, y, c) == IF InvalidCompare(F, x, y, c) THEN {"InvalidOp"} ELSE {}
Answer(F, x, y, c) ==
    IF (Relation(F, x, y) \in Predicates[(c % 8) + 1]) # (c >= 16)
    THEN 2^F.width - 1 ELSE 0

(* A unit whose clock is asked for, and one with a flag besides *)
LEMMA DueIs ==
    ASSUME NEW f, NEW mode, NEW flags, NEW enables, NEW cause, NEW raw, NEW clocks, NEW u,
           u = UnitWith(f, mode, flags, enables, cause, raw, clocks)
    PROVE  LET p == [u EXCEPT !.clocks = TRUE]
           IN  /\ p = UnitWith(f, mode, flags, enables, cause, raw, Due)
               /\ CI!SetFlag(p, "InvalidOp")
                    = UnitWith(f, mode, flags \cup {"InvalidOp"}, enables, cause, raw, Due)
<1> DEFINE p == [u EXCEPT !.clocks = TRUE]
<1>1. p = [u EXCEPT !.clocks = Due]
  BY DEF Due
<1>2. p = UnitWith(f, mode, flags, enables, cause, raw, Due)
  BY <1>1 DEF UnitWith
<1> HIDE DEF p
<1>3. [p EXCEPT !.flags = @ \cup {"InvalidOp"}]
        = UnitWith(f, mode, flags \cup {"InvalidOp"}, enables, cause, raw, Due)
  BY <1>2 DEF UnitWith
<1>4. CI!SetFlag(p, "InvalidOp")
        = UnitWith(f, mode, flags \cup {"InvalidOp"}, enables, cause, raw, Due)
  BY <1>3 DEF CI!SetFlag
<1> QED
  BY <1>2, <1>4 DEF p

(* What the handler of comparisons asks and answers is what the table has. *)
LEMMA TableIs ==
    ASSUME PowersOfTwo, NEW F \in Formats, NEW x \in Int, NEW y \in Int, NEW c \in 0 .. 31
    PROVE  /\ CI!Bit(c, 4) /\ (c % 8 = 0 \/ CI!Bit(c, 2)) <=> ReservedCondition(c)
           /\ CI!Signals(F, x, y, c) <=> InvalidCompare(F, x, y, c)
           /\ (IF CI!Holds(F, x, y, c) THEN 2^F.width - 1 ELSE 0) = Answer(F, x, y, c)
           /\ Answer(F, x, y, c) \in Int
<1>1. CI!Bit(c, 4) /\ (c % 8 = 0 \/ CI!Bit(c, 2)) <=> ReservedCondition(c)
  BY ConditionsAre DEF ReservedCondition
<1>2. CI!Signals(F, x, y, c) <=> InvalidCompare(F, x, y, c)
  <2>1. CI!IsUnordered(F, x, y) <=> Relation(F, x, y) = "un"
    BY SharedNumbers, RelationsAre
  <2>2. CI!SignallingNaN(F) = SignallingNaN(F)
    BY SharedNumbers
  <2>3. CI!Bit(c, 3) <=> c \in 8 .. 15 \cup 24 .. 31
    BY ConditionsAre
  <2> QED
    BY <2>1, <2>2, <2>3 DEF CI!Signals, InvalidCompare
<1>3. CI!Holds(F, x, y, c) <=> (Relation(F, x, y) \in Predicates[(c % 8) + 1]) # (c >= 16)
  BY HoldsAsTheTable
<1>4. CASE CI!Holds(F, x, y, c)
  <2>1. Answer(F, x, y, c) = 2^F.width - 1
    BY <1>3, <1>4, Zenon DEF Answer
  <2>2. 2^F.width - 1 \in Int
    BY FormatsAre
  <2> QED
    BY <1>1, <1>2, <1>4, <2>1, <2>2
<1>5. CASE ~CI!Holds(F, x, y, c)
  <2>1. Answer(F, x, y, c) = 0
    BY <1>3, <1>5, Zenon DEF Answer
  <2> QED
    BY <1>1, <1>2, <1>5, <2>1
<1> QED
  BY <1>4, <1>5

(* The handler of comparisons does what the table says. *)
LEMMA CompareAsTheTable ==
    ASSUME PowersOfTwo, NEW F \in Formats, NEW f \in [FRegister -> Word \X Word],
           NEW mode, NEW flags, NEW enables, NEW cause, NEW raw, NEW clocks, NEW u,
           u = UnitWith(f, mode, flags, enables, cause, raw, clocks),
           NEW i, i.fs \in FRegister, i.ft \in FRegister, i.fd \in FRegister,
           i.cond \in 0 .. 31, NEW x, NEW y, x = CI!Get(u, F, i.fs), y = CI!Get(u, F, i.ft),
           NEW e, e = CI!Compare(u, F, i)
    PROVE  IF ReservedCondition(i.cond) THEN e.out = <<"raise", "RI">>
           ELSE /\ e.fpu.flags = flags \cup Invalid(F, x, y, i.cond)
                /\ Raised(e.out) <=>
                        InvalidCompare(F, x, y, i.cond) /\ "InvalidOp" \in enables
                /\ e.out = <<"next">> => CI!Get(e.fpu, F, i.fd) = Answer(F, x, y, i.cond)
<1> DEFINE c == i.cond
           p == [u EXCEPT !.clocks = TRUE]
           a == IF CI!Signals(F, x, y, c) THEN CI!SetFlag(p, "InvalidOp") ELSE p
           result == IF CI!Holds(F, x, y, c) THEN 2^F.width - 1 ELSE 0
           reserved == CI!Bit(c, 4) /\ (c % 8 = 0 \/ CI!Bit(c, 2))
<1>1. u.f = f /\ u.enables = enables
  BY PartsAre
<1>2. x \in Int /\ y \in Int
  BY <1>1, RegistersAre, FormatsAre
<1>3. /\ reserved <=> ReservedCondition(c)
      /\ CI!Signals(F, x, y, c) <=> InvalidCompare(F, x, y, c)
      /\ result = Answer(F, x, y, c) /\ result \in Int
  BY <1>2, TableIs
<1>4. a = UnitWith(f, mode, flags \cup Invalid(F, x, y, c), enables, cause, raw, Due)
  <2>1. /\ p = UnitWith(f, mode, flags, enables, cause, raw, Due)
        /\ CI!SetFlag(p, "InvalidOp")
                = UnitWith(f, mode, flags \cup {"InvalidOp"}, enables, cause, raw, Due)
    BY DueIs
  <2> HIDE DEF p
  <2>2. flags \cup {} = flags
    OBVIOUS
  <2> QED
    BY <1>3, <2>1, <2>2 DEF Invalid
<1>5. a.flags = flags \cup Invalid(F, x, y, c)
  <2> HIDE DEF a
  <2> QED
    BY <1>4, PartsAre
<1>6. CASE reserved
  <2>1. e = CI!Throws(p, "RI")
    BY <1>6 DEF CI!Compare
  <2> HIDE DEF p, reserved
  <2> QED
    BY <1>3, <1>6, <2>1 DEF CI!Throws
<1>7. CASE ~reserved /\ CI!Signals(F, x, y, c) /\ "InvalidOp" \in enables
  <2>1. e = CI!Throws(a, "FPE")
    BY <1>1, <1>7 DEF CI!Compare
  <2> HIDE DEF a, reserved
  <2>2. e.fpu = a /\ e.out = <<"raise", "FPE">>
    BY <2>1 DEF CI!Throws
  <2> QED
    BY <1>3, <1>5, <1>7, <2>2 DEF Raised
<1>8. CASE ~reserved /\ ~(CI!Signals(F, x, y, c) /\ "InvalidOp" \in enables)
  <2>1. e = CI!Done(CI!Set(a, F, i.fd, result))
    BY <1>1, <1>8 DEF CI!Compare
  <2> HIDE DEF a, result, reserved
  <2>2. e.fpu = CI!Set(a, F, i.fd, result) /\ e.out = <<"next">>
    BY <2>1 DEF CI!Done
  <2>3. /\ CI!Get(CI!Set(a, F, i.fd, result), F, i.fd) = result
        /\ CI!Set(a, F, i.fd, result).flags = a.flags
    BY <1>3, <1>4, GetsWhatIsSet
  <2>4. ~Raised(e.out)
    BY <2>2 DEF Raised
  <2> QED
    BY <1>3, <1>5, <1>8, <2>2, <2>3, <2>4
<1> QED
  BY <1>6, <1>7, <1>8

(* A clock leaves the registers, the flags and the enables. *)
LEMMA ClockedIs ==
    ASSUME NEW u \in Unit
    PROVE  \E raw : ClockedIf(u, TRUE) =
               UnitWith(u.f, u.mode, u.flags, u.enables, u.cause, raw, u.clocks)
<1>1. PICK f, mode, flags, enables, cause, raw, clocks :
          u = UnitWith(f, mode, flags, enables, cause, raw, clocks)
  BY UnitsAre
<1>2. /\ f = u.f /\ mode = u.mode /\ flags = u.flags /\ enables = u.enables
      /\ cause = u.cause /\ clocks = u.clocks
  BY <1>1, PartsAre
<1>3. PICK none \in BOOLEAN : none = FALSE
  OBVIOUS
<1>4. [u EXCEPT !.raw = none] = UnitWith(f, mode, flags, enables, cause, none, clocks)
  BY <1>1 DEF UnitWith
<1>5. Clock(u) = UnitWith(f, mode, flags, enables, cause, none, clocks)
  BY <1>3, <1>4 DEF Clock
<1> QED
  BY <1>1, <1>2, <1>5 DEF ClockedIf

(* The handlers read the registers that the properties read. *)
LEMMA SharedGet ==
    ASSUME NEW u, NEW F, NEW n
    PROVE  CI!Get(u, F, n) = Get(u, F, n)
BY DEF CI!Get, Get, CI!Single, Single

(* What a step of the interpreter leaves, and what it started from *)
LEMMA GuestStep ==
    ASSUME UnitsBegin, NEW op, NEW F, NEW i, NEW h, NEW o, NEW entered,
           Operate(op, F, i, h, o, entered)
    PROVE  LET v == ClockedIf(fpu.guest, TRUE)
               e == Handled(op, v, F, i, h, o)
           IN  /\ executed'[1] = op /\ executed'[2] = i /\ executed'[3] = e.out
               /\ executed'[6] = F /\ executed'[7] = h /\ fpu'.guest = e.fpu
               /\ fpu.guest \in Unit /\ fpu.guest.f \in [FRegister -> Word \X Word]
               /\ \A n : CI!Get(v, F, n) = Source(n)
               /\ \A W : CI!Get(e.fpu, W, i.fd) = Result(W)
<1> DEFINE u == fpu.guest
           v == ClockedIf(u, TRUE)
           e == Handled(op, v, F, i, h, o)
           b == IF op \in CE!Emits THEN CE!SEL(host, ClockedIf(fpu.host, entered), F, i)
                ELSE Handled(op, ClockedIf(fpu.host, entered), F, i, h, o)
<1>1. /\ fpu' = [guest |-> e.fpu, host |-> b.fpu]
      /\ executed' = <<op, i, e.out, b.out, entered, F, h>>
  BY DEF Operate
<1> HIDE DEF v, e, b
<1>2. /\ fpu'.guest = e.fpu /\ executed'[1] = op /\ executed'[2] = i
      /\ executed'[3] = e.out /\ executed'[6] = F /\ executed'[7] = h
  BY <1>1
<1>3. u \in Unit /\ u.f \in [FRegister -> Word \X Word]
  BY DEF UnitsBegin, Unit
<1>4. PICK raw : v = UnitWith(u.f, u.mode, u.flags, u.enables, u.cause, raw, u.clocks)
  BY <1>3, ClockedIs DEF v
<1>5. v.f = u.f
  BY ONLY <1>4, PartsAre
<1>6. ASSUME NEW n PROVE CI!Get(v, F, n) = Source(n)
  <2>1. CI!Get(v, F, n) = CI!Get(u, F, n)
    BY <1>5 DEF CI!Get
  <2> QED
    BY <1>2, <2>1, SharedGet DEF Source
<1>7. ASSUME NEW W PROVE CI!Get(e.fpu, W, i.fd) = Result(W)
  BY <1>2, SharedGet DEF Result
<1> HIDE DEF u
<1> QED
  BY <1>2, <1>3, <1>6, <1>7 DEF u, v, e

(* The operands of a comparison *)
LEMMA ComparedOperands ==
    ASSUME NEW sort \in UnitSorts, "CMP" \in sort[1], NEW i \in sort[2]
    PROVE  /\ i.fs \in FRegister /\ i.ft \in FRegister /\ i.fd \in FRegister
           /\ i.cond \in 0 .. 31
<1>1. sort = <<{"CMP"}, OnUnit(One, FOperand, FOperand, 0 .. 31), NoStatus, NoOutcome>>
  BY DEF UnitSorts, Computations, Copies, Choices, Conversions, Narrow, Wide
<1>2. i \in OnUnit(One, FOperand, FOperand, 0 .. 31)
  BY <1>1
<1>3. One \subseteq FResult
  BY CoprocessorAssumption DEF One
<1> QED
  BY <1>2, <1>3, CoprocessorAssumption DEF OnUnit, UnitInstruction

(* One comparison *)
LEMMA CompareStep ==
    ASSUME PowersOfTwo, UnitsBegin, NEW entered, NEW op, op = "CMP", NEW F \in Formats, NEW i, NEW h, NEW o,
           i.fs \in FRegister, i.ft \in FRegister, i.fd \in FRegister, i.cond \in 0 .. 31,
           Operate(op, F, i, h, o, entered)
    PROVE  ComparesRight
<1> DEFINE u == fpu.guest
           v == ClockedIf(u, TRUE)
           e == Handled(op, v, F, i, h, o)
           x == CI!Get(v, F, i.fs)
           y == CI!Get(v, F, i.ft)
           c == i.cond
<1>1. e = CI!Compare(v, F, i)
  <2>1. F = Single \/ F = CI!Double
    BY DEF Formats, Double, CI!Double
  <2>2. CI!Single = Single
    BY DEF CI!Single, Single
  <2> QED
    BY <2>1, <2>2 DEF Handled, CI!CMP_condn_s, CI!CMP_condn_d
<1> HIDE DEF v, e
<1>2. /\ fpu'.guest = e.fpu /\ executed'[1] = op /\ executed'[2] = i
      /\ executed'[3] = e.out /\ executed'[6] = F
      /\ u \in Unit /\ u.f \in [FRegister -> Word \X Word]
      /\ x = Source(i.fs) /\ y = Source(i.ft) /\ CI!Get(e.fpu, F, i.fd) = Result(F)
  BY ONLY UnitsBegin, Operate(op, F, i, h, o, entered), GuestStep DEF v, e
<1>3. \E raw : v = UnitWith(u.f, u.mode, u.flags, u.enables, u.cause, raw, u.clocks)
  BY <1>2, ClockedIs DEF v
<1> HIDE DEF u, x, y
<1>4. IF ReservedCondition(c) THEN e.out = <<"raise", "RI">>
      ELSE /\ e.fpu.flags = u.flags \cup Invalid(F, x, y, c)
           /\ Raised(e.out) <=> InvalidCompare(F, x, y, c) /\ "InvalidOp" \in u.enables
           /\ e.out = <<"next">> => Result(F) = Answer(F, x, y, c)
  BY <1>1, <1>2, <1>3, CompareAsTheTable DEF x, y
<1> QED
  BY <1>2, <1>4, Zenon
     DEF ComparesRight, ReservedCondition, InvalidCompare, Invalid, Answer, Written, F0, u

-------------------------------------------------------------------------------
(* What the interpreter writes: choices *)

-------------------------------------------------------------------------------
(* Coprocessor 1: choices *)

(* What a number is, told from the sign bit *)
LEMMA NumbersAre ==
    ASSUME PowersOfTwo, NEW F \in Formats, NEW x \in 0 .. 2 * SignBit(F) - 1
    PROVE  /\ SignBit(F) \in Nat \ {0}
           /\ IsNegative(F, x) <=> x >= SignBit(F)
           /\ Absolute(F, x) = (IF IsNegative(F, x) THEN x - SignBit(F) ELSE x)
           /\ Absolute(F, x) \in 0 .. SignBit(F) - 1
           /\ Rank(F, x) = (IF IsNegative(F, x) THEN SignBit(F) - x ELSE x)
           /\ Rank(F, Absolute(F, x)) = Absolute(F, x)
<1> DEFINE top == SignBit(F)
<1>1. top \in Nat \ {0}
  BY FormatsAre
<1>2. /\ x >= top => x % top = x - top
      /\ x < top => x % top = x
  <2>1. ASSUME x >= top PROVE x % top = x - top
    <3>1. x - top \in Nat /\ x - top < top /\ top * 1 + (x - top) = x
      BY <1>1, <2>1
    <3>2. x \div top = 1
      <4> HIDE DEF top
      <4>1. (top * 1 + (x - top)) \div top = 1
        BY <1>1, <3>1, QuotientIs
      <4> QED
        BY <3>1, <4>1
    <3>3. x \in Nat /\ top * 1 = top
      BY <1>1
    <3> HIDE DEF top
    <3>4. x = top * (x \div top) + (x % top) /\ x % top \in Nat
      BY <1>1, <3>3, Divisions
    <3>5. x = top * 1 + (x % top)
      BY <3>2, <3>4
    <3> QED
      BY <1>1, <3>3, <3>4, <3>5
  <2>2. ASSUME x < top PROVE x % top = x
    <3>1. x \in Nat
      BY <1>1
    <3> HIDE DEF top
    <3> QED
      BY <1>1, <2>2, <3>1, Divisions
  <2> QED
    BY <2>1, <2>2
<1>3. IsNegative(F, x) <=> x >= top
  BY DEF IsNegative
<1>4. /\ Absolute(F, x) = (IF IsNegative(F, x) THEN x - top ELSE x)
      /\ Absolute(F, x) \in 0 .. top - 1
  BY <1>1, <1>2, <1>3 DEF Absolute
<1>5. ~IsNegative(F, Absolute(F, x))
  BY <1>1, <1>4 DEF IsNegative
<1> QED
  BY <1>1, <1>3, <1>4, <1>5 DEF Rank

(* They are the same, whichever module speaks. *)
LEMMA SharedSigns ==
    ASSUME NEW F, NEW x, NEW y
    PROVE  /\ CI!IsNegative(F, x) <=> IsNegative(F, x)
           /\ CI!Absolute(F, x) = Absolute(F, x) /\ CI!Rank(F, x) = Rank(F, x)
           /\ CI!IsFinite(F, x) <=> IsFinite(F, x)
BY Zenon DEF CI!Rank, Rank, CI!IsNegative, IsNegative, CI!Absolute, Absolute, CI!SignBit,
   SignBit, CI!IsFinite, IsFinite, CI!Exponent, Exponent, CI!Exponents, Exponents,
   CI!FractionBits, FractionBits

(* What the handler of MAX chooses *)
LEMMA GreaterIs ==
    ASSUME PowersOfTwo, NEW F \in Formats, NEW s \in 0 .. 2 * SignBit(F) - 1,
           NEW t \in 0 .. 2 * SignBit(F) - 1, NEW x, x = CI!Greater(F, s, t)
    PROVE  /\ x \in {s, t}
           /\ \A y \in {s, t} :
                /\ Rank(F, x) >= Rank(F, y)
                /\ Rank(F, y) = Rank(F, x) /\ y # x => ~IsNegative(F, x)
           /\ IsNegative(F, x) => IsNegative(F, s) /\ IsNegative(F, t)
<1>1. x = IF ~(IsNegative(F, s) <=> IsNegative(F, t))
          THEN IF IsNegative(F, s) THEN t ELSE s
          ELSE IF Rank(F, t) >= Rank(F, s) THEN t ELSE s
  <2>1. (CI!IsNegative(F, s) # CI!IsNegative(F, t)) <=>
            ~(IsNegative(F, s) <=> IsNegative(F, t))
    BY SharedSigns DEF CI!IsNegative, IsNegative
  <2> QED
    BY <2>1, SharedSigns DEF CI!Greater
<1> QED
  BY <1>1, NumbersAre

(* What the handler of MIN chooses *)
LEMMA LesserIs ==
    ASSUME PowersOfTwo, NEW F \in Formats, NEW s \in 0 .. 2 * SignBit(F) - 1,
           NEW t \in 0 .. 2 * SignBit(F) - 1, NEW x, x = CI!Lesser(F, s, t)
    PROVE  /\ x \in {s, t}
           /\ \A y \in {s, t} :
                /\ Rank(F, x) <= Rank(F, y)
                /\ Rank(F, y) = Rank(F, x) /\ y # x => IsNegative(F, x)
           /\ IsNegative(F, s) \/ IsNegative(F, t) => IsNegative(F, x)
<1>1. x = IF ~(IsNegative(F, s) <=> IsNegative(F, t))
          THEN IF IsNegative(F, s) THEN s ELSE t
          ELSE IF Rank(F, t) < Rank(F, s) THEN t ELSE s
  <2>1. (CI!IsNegative(F, s) # CI!IsNegative(F, t)) <=>
            ~(IsNegative(F, s) <=> IsNegative(F, t))
    BY SharedSigns DEF CI!IsNegative, IsNegative
  <2> QED
    BY <2>1, SharedSigns DEF CI!Lesser
<1> QED
  BY <1>1, NumbersAre

(* What the handlers of MAXA and MINA choose, but for their names *)
LEMMA AbsolutelyIs ==
    ASSUME PowersOfTwo, NEW F \in Formats, NEW s \in 0 .. 2 * SignBit(F) - 1,
           NEW t \in 0 .. 2 * SignBit(F) - 1, NEW x, NEW z,
           x = CI!GreaterAbsolute(F, s, t), z = CI!LesserAbsolute(F, s, t)
    PROVE  /\ x \in {s, t} /\ z \in {s, t}
           /\ \A y \in {s, t} :
                /\ Absolute(F, x) >= Absolute(F, y)
                /\ Absolute(F, y) = Absolute(F, x) /\ y # x => ~IsNegative(F, x)
           /\ \A y \in {s, t} :
                /\ Absolute(F, z) <= Absolute(F, y)
                /\ Absolute(F, y) = Absolute(F, z) /\ y # z => IsNegative(F, z)
<1>1. Absolute(F, s) \in Int /\ Absolute(F, t) \in Int
  BY NumbersAre
<1>2. CASE Absolute(F, t) > Absolute(F, s)
  BY <1>1, <1>2, SharedSigns DEF CI!GreaterAbsolute, CI!LesserAbsolute
<1>3. CASE Absolute(F, t) < Absolute(F, s)
  BY <1>1, <1>3, SharedSigns DEF CI!GreaterAbsolute, CI!LesserAbsolute
<1>4. CASE Absolute(F, t) = Absolute(F, s)
  <2>1. x = CI!Greater(F, s, t) /\ z = CI!Lesser(F, s, t)
    BY <1>1, <1>4, SharedSigns DEF CI!GreaterAbsolute, CI!LesserAbsolute
  <2>2. /\ x \in {s, t} /\ (IsNegative(F, x) => IsNegative(F, s) /\ IsNegative(F, t))
        /\ z \in {s, t} /\ (IsNegative(F, s) \/ IsNegative(F, t) => IsNegative(F, z))
    BY <2>1, GreaterIs, LesserIs
  <2>3. s # t => ~(IsNegative(F, s) <=> IsNegative(F, t))
    BY <1>4, NumbersAre
  <2> QED
    BY <1>1, <1>4, <2>2, <2>3
<1> QED
  BY <1>1, <1>2, <1>3, <1>4

(* What a choice should be: the text of ChoosesRight, of one choice *)
Extreme(op, F, s, t, x) ==
    LET Size2(y) == IF op \in {"MAXA", "MINA"} THEN Rank(F, Absolute(F, y)) ELSE Rank(F, y)
        Bounds(y) == CASE op \in {"MAX", "MAXA"} -> Size2(x) >= Size2(y)
                       [] OTHER -> Size2(x) <= Size2(y)
        Ties(y) == Size2(y) = Size2(x) /\ y # x =>
            (IsNegative(F, x) <=> op \in {"MIN", "MINA"})
    IN  \A y \in {s, t} : Bounds(y) /\ Ties(y)

Choice(op, F, s, t) ==
    CASE op = "MAX" -> CI!Greater(F, s, t) [] op = "MIN" -> CI!Lesser(F, s, t)
      [] op = "MAXA" -> CI!GreaterAbsolute(F, s, t)
      [] op = "MINA" -> CI!LesserAbsolute(F, s, t)

(* Each choice is a largest or a smallest number of the two. *)
LEMMA ChoicesAreExtreme ==
    ASSUME PowersOfTwo, NEW F \in Formats, NEW s \in 0 .. 2 * SignBit(F) - 1,
           NEW t \in 0 .. 2 * SignBit(F) - 1, NEW op \in Choices, NEW x, x = Choice(op, F, s, t)
    PROVE  x \in {s, t} /\ Extreme(op, F, s, t, x)
<1>1. CASE op = "MAX"
  <2>1. x = CI!Greater(F, s, t)
    BY <1>1 DEF Choice
  <2> QED
    BY <1>1, <2>1, GreaterIs DEF Extreme
<1>2. CASE op = "MIN"
  <2>1. x = CI!Lesser(F, s, t)
    BY <1>2 DEF Choice
  <2> QED
    BY <1>2, <2>1, LesserIs DEF Extreme
<1>3. \A y \in {s, t} : Rank(F, Absolute(F, y)) = Absolute(F, y)
  BY NumbersAre
<1>4. CASE op = "MAXA"
  <2>1. x = CI!GreaterAbsolute(F, s, t)
    BY <1>4 DEF Choice
  <2>2. x \in {s, t} /\ \A y \in {s, t} :
            /\ Absolute(F, x) >= Absolute(F, y)
            /\ Absolute(F, y) = Absolute(F, x) /\ y # x => ~IsNegative(F, x)
    BY <2>1, AbsolutelyIs
  <2> QED
    BY <1>3, <1>4, <2>2 DEF Extreme
<1>5. CASE op = "MINA"
  <2>1. x = CI!LesserAbsolute(F, s, t)
    BY <1>5 DEF Choice
  <2>2. x \in {s, t} /\ \A y \in {s, t} :
            /\ Absolute(F, x) <= Absolute(F, y)
            /\ Absolute(F, y) = Absolute(F, x) /\ y # x => IsNegative(F, x)
    BY <2>1, AbsolutelyIs
  <2> QED
    BY <1>3, <1>5, <2>2 DEF Extreme
<1> QED
  BY <1>1, <1>2, <1>4, <1>5 DEF Choices

(* A result that is written without a signal is what is read back. *)
LEMMA WrittenIs ==
    ASSUME NEW F \in Formats, NEW f \in [FRegister -> Word \X Word],
           NEW mode, NEW flags, NEW enables, NEW cause, NEW raw, NEW clocks, NEW u,
           u = UnitWith(f, mode, flags, enables, cause, raw, clocks),
           NEW n \in FRegister, NEW signals, NEW h, NEW x \in Int, NEW e,
           e = CI!WriteResult(CI!ClearCause(u), F, n, signals, h, {}, x)
    PROVE  CI!Get(e.fpu, F, n) = x
<1> DEFINE a == CI!ClearCause(u)
<1>1. a = UnitWith(f, mode, flags, enables, {}, raw, clocks)
  BY DEF CI!ClearCause, UnitWith
<1> HIDE DEF a
<1>2. e = CI!Done(CI!Set(a, F, n, x))
  BY DEF CI!WriteResult, a
<1>3. e.fpu = CI!Set(a, F, n, x)
  BY <1>2 DEF CI!Done
<1> QED
  BY <1>1, <1>3, GetsWhatIsSet

(* What the handler writes: a choice if both are finite, and if not one that *)
(* is, or the first.                                                         *)
LEMMA ChosenAsAsked ==
    ASSUME PowersOfTwo, NEW F \in Formats, NEW f \in [FRegister -> Word \X Word],
           NEW mode, NEW flags, NEW enables, NEW cause, NEW raw, NEW clocks, NEW u,
           u = UnitWith(f, mode, flags, enables, cause, raw, clocks),
           NEW i, i.fs \in FRegister, i.ft \in FRegister, i.fd \in FRegister,
           NEW s, NEW t, s = CI!Get(u, F, i.fs), t = CI!Get(u, F, i.ft),
           NEW h, NEW o, NEW op \in Choices, NEW e, e = Handled(op, u, F, i, h, o),
           e.out = <<"next">>, NEW x, x = CI!Get(e.fpu, F, i.fd)
    PROVE  /\ x \in {s, t}
           /\ IsFinite(F, s) /\ IsFinite(F, t) => Extreme(op, F, s, t, x)
           /\ ~IsFinite(F, s) /\ IsFinite(F, t) => x = t
           /\ IsFinite(F, s) /\ ~IsFinite(F, t) => x = s
<1> DEFINE choice == Choice(op, F, s, t)
           value == CASE ~CI!IsFinite(F, t) -> s
                      [] CI!IsFinite(F, t) /\ ~CI!IsFinite(F, s) -> t
                      [] OTHER -> choice
           real == CI!IsFinite(F, s) /\ CI!IsFinite(F, t)
<1>1. u.f = f
  BY PartsAre
<1>2. s \in 0 .. 2 * SignBit(F) - 1 /\ t \in 0 .. 2 * SignBit(F) - 1
  BY <1>1, RegistersAre
<1>3. choice \in {s, t} /\ Extreme(op, F, s, t, choice)
  BY <1>2, ChoicesAreExtreme
<1>4. e = CI!Chosen(u, F, i, h, choice)
  <2>0. CI!Asserts(CI!ClearCause(u)).out # <<"next">>
    BY DEF CI!Asserts
  <2>1. CASE op = "MAX"
    BY <2>1 DEF Handled, CI!MAX, Choice
  <2>2. CASE op = "MIN"
    BY <2>2 DEF Handled, CI!MIN, Choice
  <2>3. CASE op = "MAXA"
    BY <2>0, <2>3 DEF Handled, CI!MAXA, CI!ChosenAbsolute, Choice
  <2>4. CASE op = "MINA"
    BY <2>0, <2>4 DEF Handled, CI!MINA, CI!ChosenAbsolute, Choice
  <2> QED
    BY <2>1, <2>2, <2>3, <2>4 DEF Choices
<1> HIDE DEF choice
<1>5. ~(~real /\ "InvalidOp" \in u.enables)
  <2>1. ASSUME ~real /\ "InvalidOp" \in u.enables PROVE FALSE
    <3>1. e = CI!Throws(CI!ClearCause(u), "FPE")
      BY <1>4, <2>1 DEF CI!Chosen
    <3>2. e.out = <<"raise", "FPE">>
      BY <3>1 DEF CI!Throws
    <3> QED
      BY <3>2
  <2> QED
    BY <2>1
<1>6. e = CI!WriteResult(CI!ClearCause(u), F, i.fd, {"InvalidOp"}, h, {}, value)
  BY <1>4, <1>5 DEF CI!Chosen
<1>7. /\ CI!IsFinite(F, s) <=> IsFinite(F, s)
      /\ CI!IsFinite(F, t) <=> IsFinite(F, t)
  BY SharedSigns
<1>8. /\ ~IsFinite(F, t) => value = s
      /\ IsFinite(F, t) /\ ~IsFinite(F, s) => value = t
      /\ IsFinite(F, t) /\ IsFinite(F, s) => value = choice
  BY <1>7
<1> HIDE DEF value
<1>9. value \in {s, t} /\ value \in Int
  <2>1. value \in {s, t}
    BY <1>3, <1>8
  <2>2. s \in Int /\ t \in Int
    BY <1>2, FormatsAre
  <2> QED
    BY <2>1, <2>2
<1>10. x = value
  BY <1>6, <1>9, WrittenIs
<1> QED
  BY <1>3, <1>8, <1>9, <1>10

(* One choice *)
LEMMA ChooseStep ==
    ASSUME PowersOfTwo, UnitsBegin, NEW entered, NEW op \in Choices, NEW F \in Formats, NEW i,
           NEW h, NEW o, i.fs \in FRegister, i.ft \in FRegister, i.fd \in FRegister,
           Operate(op, F, i, h, o, entered)
    PROVE  ChoosesRight
<1> DEFINE u == fpu.guest
           v == ClockedIf(u, TRUE)
           e == Handled(op, v, F, i, h, o)
           s == CI!Get(v, F, i.fs)
           t == CI!Get(v, F, i.ft)
           x == CI!Get(e.fpu, F, i.fd)
<1> HIDE DEF v, e
<1>1. /\ executed'[1] = op /\ executed'[2] = i /\ executed'[3] = e.out /\ executed'[6] = F
      /\ u \in Unit /\ u.f \in [FRegister -> Word \X Word]
      /\ s = Source(i.fs) /\ t = Source(i.ft) /\ x = Result(F)
  BY GuestStep DEF v, e
<1>2. \E raw : v = UnitWith(u.f, u.mode, u.flags, u.enables, u.cause, raw, u.clocks)
  BY <1>1, ClockedIs DEF v
<1> HIDE DEF u, s, t, x
<1>3. e.out = <<"next">> =>
        /\ x \in {s, t}
        /\ IsFinite(F, s) /\ IsFinite(F, t) => Extreme(op, F, s, t, x)
        /\ ~IsFinite(F, s) /\ IsFinite(F, t) => x = t
        /\ IsFinite(F, s) /\ ~IsFinite(F, t) => x = s
  BY <1>1, <1>2, ChosenAsAsked DEF e, s, t, x
<1>4. /\ IsNaN(F, s) => ~IsFinite(F, s)
      /\ IsNaN(F, t) => ~IsFinite(F, t)
  BY Zenon DEF IsNaN
<1> QED
  BY <1>1, <1>3, <1>4, Zenon DEF ChoosesRight, Extreme, Written, F0

(* The operands of a choice *)
LEMMA ChosenOperands ==
    ASSUME NEW sort \in UnitSorts, NEW op \in Choices, op \in sort[1], NEW i \in sort[2]
    PROVE  i.fs \in FRegister /\ i.ft \in FRegister /\ i.fd \in FRegister
<1>1. sort = <<Choices, OnUnit(FResult, FOperand, FOperand, {0}), NoStatus, NoOutcome>>
  BY DEF UnitSorts, Computations, Copies, Choices, Conversions, Narrow, Wide
<1>2. i \in OnUnit(FResult, FOperand, FOperand, {0})
  BY <1>1
<1> QED
  BY <1>2, CoprocessorAssumption DEF OnUnit, UnitInstruction

-------------------------------------------------------------------------------
(* What the interpreter writes: integers *)

-------------------------------------------------------------------------------
(* Coprocessor 1: numbers and integers *)

(* A division, of any integer *)
LEMMA QuotientBounds ==
    ASSUME NEW x \in Int, NEW d \in Nat \ {0}
    PROVE  /\ x \div d \in Int /\ x % d \in 0 .. d - 1
           /\ x = d * (x \div d) + (x % d)
OBVIOUS

(* A quotient and a remainder are known by what they make together. *)
LEMMA QuotientUnique ==
    ASSUME NEW x \in Int, NEW d \in Nat \ {0}, NEW q \in Int, NEW t \in 0 .. d - 1,
           x = d * q + t
    PROVE  x \div d = q /\ x % d = t
<1> DEFINE p == x \div d
           r == x % d
<1>1. p \in Int /\ r \in 0 .. d - 1 /\ x = d * p + r
  BY QuotientBounds
<1> HIDE DEF p, r
<1>2. d * (p - q) = t - r
  BY <1>1
<1>3. t - r < d /\ r - t < d
  BY <1>1
<1>4. p - q < 1
  <2>1. ASSUME p - q >= 1 PROVE FALSE
    <3>1. d * (p - q) >= d
      BY <1>1, <2>1
    <3> QED
      BY <1>1, <1>2, <1>3, <3>1
  <2> QED
    BY <1>1, <2>1
<1>5. q - p < 1
  <2>1. ASSUME q - p >= 1 PROVE FALSE
    <3>1. d * (q - p) >= d
      BY <1>1, <2>1
    <3>2. d * (q - p) = r - t
      BY <1>1, <1>2
    <3> QED
      BY <1>1, <1>3, <3>1, <3>2
  <2> QED
    BY <1>1, <2>1
<1>6. p = q
  BY <1>1, <1>4, <1>5
<1>7. r = t
  BY <1>1, <1>2, <1>6
<1> QED
  BY <1>6, <1>7 DEF p, r

(* Powers grow, and all but the first are even. *)
LEMMA PowersGrow ==
    ASSUME PowersOfTwo, NEW a \in Nat, NEW b \in Nat, a < b
    PROVE  /\ 2^a \in Nat \ {0} /\ 2^b \in Nat \ {0}
           /\ 2^(b - a) \in Nat \ {0} /\ 2^b = 2^a * 2^(b - a)
           /\ 2^(b - a) = 2 * 2^(b - a - 1) /\ 2^(b - a - 1) \in Nat \ {0}
           /\ 2^b >= 2 * 2^a /\ 2^b > 2^a
<1> DEFINE c == b - a - 1
           p == 2^a
           q == 2^b
           r == 2^(b - a)
           s == 2^c
<1>1. c \in Nat /\ b - a \in Nat /\ a + (b - a) = b /\ 1 + c = b - a
  BY DEF c
<1>2. p \in Nat \ {0} /\ q \in Nat \ {0} /\ r \in Nat \ {0} /\ s \in Nat \ {0}
  BY <1>1 DEF PowersOfTwo
<1>3. q = p * r
  BY <1>1 DEF PowersOfTwo
<1>4. r = 2^1 * s
  <2>1. c \in Nat /\ 1 \in Nat /\ 1 + c = b - a
    BY <1>1
  <2> HIDE DEF c
  <2>2. 2^(1 + c) = 2^1 * 2^c
    BY <2>1 DEF PowersOfTwo
  <2> QED
    BY <2>1, <2>2
<1>5. 2^1 = 2
  OBVIOUS
<1>6. r = 2 * s
  BY <1>4, <1>5
<1> HIDE DEF c, p, q, r, s
<1>7. q >= 2 * p /\ q > p
  <2>1. q = p * (2 * s)
    BY <1>3, <1>6
  <2>2. p * (2 * s) = 2 * p * s
    BY <1>2
  <2>3. p * s >= p
    BY <1>2
  <2> QED
    BY <1>2, <2>1, <2>2, <2>3
<1> QED
  BY <1>2, <1>3, <1>6, <1>7 DEF c, p, q, r, s

(* The parts of a number are those of the number of the other sign. *)
LEMMA NegatedIs ==
    ASSUME PowersOfTwo, NEW F \in Formats, NEW x \in 0 .. 2 * SignBit(F) - 1
    PROVE  /\ Negated(F, x) \in 0 .. 2 * SignBit(F) - 1
           /\ Negated(F, x) = (IF IsNegative(F, x) THEN x - SignBit(F) ELSE x + SignBit(F))
           /\ IsNegative(F, Negated(F, x)) <=> ~IsNegative(F, x)
           /\ IsNegative(F, x) => Negated(F, x) = Absolute(F, x)
           /\ Negated(F, Negated(F, x)) = x
           /\ Absolute(F, Negated(F, x)) = Absolute(F, x)
           /\ Fraction(F, Negated(F, x)) = Fraction(F, x)
           /\ Exponent(F, Negated(F, x)) = Exponent(F, x)
           /\ IsFinite(F, Negated(F, x)) <=> IsFinite(F, x)
<1> DEFINE S == SignBit(F)
           D == 2^FractionBits(F)
           N == 2^F.exponent
           y == Negated(F, x)
<1>1. S \in Nat \ {0} /\ D \in Nat \ {0} /\ N \in Nat \ {0} /\ S = D * N
  <2>1. /\ FractionBits(F) \in Nat /\ F.exponent \in Nat
        /\ F.width - 1 = FractionBits(F) + F.exponent
    BY FormatsAre
  <2> QED
    BY <2>1 DEF PowersOfTwo, SignBit
<1>2. x \in Int /\ (IsNegative(F, x) <=> x >= S) /\ x < 2 * S /\ x >= 0
  BY <1>1 DEF IsNegative
<1>3. y = IF IsNegative(F, x) THEN x - S ELSE x + S
  <2>1. ASSUME x >= S PROVE y = x - S
    <3>1. x + S = (2 * S) * 1 + (x - S) /\ x - S \in 0 .. 2 * S - 1
      BY <1>1, <1>2, <2>1
    <3>2. 2 * S \in Nat \ {0} /\ x + S \in Int
      BY <1>1, <1>2
    <3> HIDE DEF S
    <3>3. (x + S) % (2 * S) = x - S
      BY <3>1, <3>2, QuotientUnique
    <3> QED
      BY <3>3 DEF Negated, S
  <2>2. ASSUME x < S PROVE y = x + S
    <3>1. x + S = (2 * S) * 0 + (x + S) /\ x + S \in 0 .. 2 * S - 1
      BY <1>1, <1>2, <2>2
    <3>2. 2 * S \in Nat \ {0} /\ x + S \in Int
      BY <1>1, <1>2
    <3> HIDE DEF S
    <3>3. (x + S) % (2 * S) = x + S
      BY <3>1, <3>2, QuotientUnique
    <3> QED
      BY <3>3 DEF Negated, S
  <2> HIDE DEF S, y
  <2> QED
    BY <1>1, <1>2, <2>1, <2>2
<1> HIDE DEF y
<1>4. /\ y \in 0 .. 2 * S - 1 /\ (y >= S <=> ~(x >= S))
      /\ y = IF x >= S THEN x - S ELSE x + S
  <2> HIDE DEF S
  <2> QED
    BY <1>1, <1>2, <1>3
<1>5. IsNegative(F, y) <=> ~IsNegative(F, x)
  BY <1>4 DEF IsNegative
<1>6. Negated(F, y) = x
  <2>1. Negated(F, y) = (y + S) % (2 * S)
    BY DEF Negated
  <2> HIDE DEF S
  <2>2. CASE x >= S
    <3>1. y + S = (2 * S) * 0 + x /\ x \in 0 .. 2 * S - 1 /\ 2 * S \in Nat \ {0} /\ y + S \in Int
      BY <1>1, <1>2, <1>4, <2>2
    <3> QED
      BY <2>1, <3>1, QuotientUnique
  <2>3. CASE x < S
    <3>1. /\ y + S = (2 * S) * 1 + x /\ x \in 0 .. 2 * S - 1 /\ 2 * S \in Nat \ {0}
          /\ y + S \in Int
      BY <1>1, <1>2, <1>4, <2>3
    <3> QED
      BY <2>1, <3>1, QuotientUnique
  <2> QED
    BY <1>1, <1>2, <2>2, <2>3
<1>7. Absolute(F, y) = Absolute(F, x) /\ (IsNegative(F, x) => y = Absolute(F, x))
  <2>1. /\ Absolute(F, x) = (IF IsNegative(F, x) THEN x - S ELSE x)
        /\ Absolute(F, y) = (IF IsNegative(F, y) THEN y - S ELSE y)
    BY <1>4, NumbersAre
  <2> HIDE DEF S
  <2> QED
    BY <1>1, <1>2, <1>3, <1>5, <2>1
<1>8. Fraction(F, y) = Fraction(F, x)
  <2> DEFINE q == x \div D
             r == x % D
  <2>1. q \in Int /\ r \in 0 .. D - 1 /\ x = D * q + r
    BY <1>1, <1>2, QuotientBounds
  <2>2. Fraction(F, x) = r /\ Fraction(F, y) = y % D
    BY DEF Fraction
  <2> HIDE DEF q, r, D, N, S
  <2>3. /\ D * q + r + D * N = D * (q + N) + r
        /\ D * q + r - D * N = D * (q - N) + r
    BY <1>1, <2>1
  <2>4. \E p \in Int : y = D * p + r
    <3>1. CASE x >= S
      <4>1. y = D * (q - N) + r /\ q - N \in Int
        BY <1>1, <1>4, <2>1, <2>3, <3>1
      <4> QED
        BY <4>1
    <3>2. CASE ~(x >= S)
      <4>1. y = D * (q + N) + r /\ q + N \in Int
        BY <1>1, <1>4, <2>1, <2>3, <3>2
      <4> QED
        BY <4>1
    <3> QED
      BY <3>1, <3>2
  <2>5. PICK p \in Int : y = D * p + r
    BY <2>4
  <2>6. y \in Int
    BY <1>1, <1>4
  <2>7. y % D = r
    BY <1>1, <2>1, <2>5, <2>6, QuotientUnique
  <2> QED
    BY <2>2, <2>7
<1>9. Exponent(F, y) = Exponent(F, x)
  BY <1>7 DEF Exponent
<1>10. IsFinite(F, y) <=> IsFinite(F, x)
  BY <1>9 DEF IsFinite
<1> QED
  BY <1>3, <1>4, <1>5, <1>6, <1>7, <1>8, <1>9, <1>10 DEF y

(* The significand and the scale of a number *)
LEMMA SignificandsAre ==
    ASSUME PowersOfTwo, NEW F \in Formats, NEW x \in 0 .. 2 * SignBit(F) - 1
    PROVE  /\ Significand(F, x) \in Nat /\ Significand(F, x) < 2^(FractionBits(F) + 1)
           /\ Scale(F, x) \in Int
           /\ Significand(F, Negated(F, x)) = Significand(F, x)
           /\ Scale(F, Negated(F, x)) = Scale(F, x)
<1> DEFINE D == 2^FractionBits(F)
           g == Fraction(F, x)
           e == Exponent(F, x)
           b == 2^(F.exponent - 1)
<1>1. /\ FractionBits(F) \in Nat /\ F.exponent - 1 \in Nat
      /\ FractionBits(F) < FractionBits(F) + 1 /\ FractionBits(F) + 1 \in Nat
  BY FormatsAre
<1>2. D \in Nat \ {0} /\ b \in Nat \ {0} /\ 2^(FractionBits(F) + 1) >= 2 * D
  BY <1>1, PowersGrow DEF PowersOfTwo
<1>3. g \in 0 .. D - 1
  <2>1. x \in Int
    BY FormatsAre
  <2> HIDE DEF D
  <2>2. x % D \in 0 .. D - 1
    BY <1>2, <2>1, QuotientBounds
  <2> QED
    BY <2>2 DEF Fraction, D
<1>4. e \in Int
  <2>1. Absolute(F, x) \in Int
    BY NumbersAre
  <2> HIDE DEF D
  <2>2. Absolute(F, x) \div D \in Int
    BY <1>2, <2>1, QuotientBounds
  <2> QED
    BY <2>2 DEF Exponent, D
<1>5. 2^(FractionBits(F) + 1) \in Nat
  BY <1>1 DEF PowersOfTwo
<1>6. Significand(F, x) = g + (IF e = 0 THEN 0 ELSE D)
  BY DEF Significand
<1>7. Scale(F, x) = (IF e = 0 THEN 1 ELSE e) - (b - 1) - FractionBits(F) + 1
  BY DEF Scale
<1>8. /\ Significand(F, Negated(F, x)) = Significand(F, x)
      /\ Scale(F, Negated(F, x)) = Scale(F, x)
  BY NegatedIs DEF Significand, Scale
<1> HIDE DEF D, g, e, b
<1>9. Significand(F, x) \in Nat /\ Significand(F, x) < 2^(FractionBits(F) + 1)
  BY <1>2, <1>3, <1>5, <1>6
<1>10. Scale(F, x) \in Int
  BY <1>1, <1>2, <1>4, <1>7
<1> QED
  BY <1>8, <1>9, <1>10

(* A number of twice the size, rounded down *)
DownOf(n, k) == IF k >= 0 THEN n * 2^k ELSE n \div 2^(-k)

(* Twice a number rounded down, by its sign, significand and scale *)
LEMMA DownIs ==
    ASSUME PowersOfTwo, NEW F \in Formats, NEW x \in 0 .. 2 * SignBit(F) - 1
    PROVE  TwiceDown(F, x) = DownOf(IF IsNegative(F, x) THEN -Significand(F, x)
                                                        ELSE Significand(F, x), Scale(F, x))
<1>1. x \in 0 .. 2^F.width - 1
  BY FormatsAre
<1>2. TwiceDown(F, x) = DownOf(Significand(F, x) * (IF IsNegative(F, x) THEN -1 ELSE 1),
                               Scale(F, x))
  BY <1>1 DEF TwiceDown, TwiceDownOf, DownOf
<1>3. /\ Significand(F, x) * (-1) = -Significand(F, x)
      /\ Significand(F, x) * 1 = Significand(F, x)
  BY SignificandsAre
<1>4. CASE IsNegative(F, x)
  BY <1>2, <1>3, <1>4
<1>5. CASE ~IsNegative(F, x)
  BY <1>2, <1>3, <1>5
<1> QED
  BY <1>4, <1>5

(* Rounding down and up are a mirror of each other, one apart at most. *)
LEMMA DownOfIs ==
    ASSUME PowersOfTwo, NEW n \in Nat, NEW k \in Int
    PROVE  /\ DownOf(n, k) \in Nat /\ DownOf(-n, k) \in Int
           /\ DownOf(n, k) <= -DownOf(-n, k) /\ -DownOf(-n, k) <= DownOf(n, k) + 1
           /\ k >= 0 => DownOf(n, k) = n * 2^k /\ -DownOf(-n, k) = n * 2^k
           /\ k < 0 => DownOf(n, k) <= n
<1>1. CASE k >= 0
  <2> DEFINE p == 2^k
  <2>1. p \in Nat \ {0}
    BY <1>1 DEF PowersOfTwo
  <2>2. DownOf(n, k) = n * p /\ DownOf(-n, k) = (-n) * p
    BY <1>1 DEF DownOf
  <2> HIDE DEF p
  <2>3. n * p \in Nat /\ (-n) * p = -(n * p)
    BY <2>1
  <2> QED
    BY <1>1, <2>2, <2>3 DEF p
<1>2. CASE k < 0
  <2> DEFINE p == 2^(-k)
             a == n \div p
             b == (-n) \div p
  <2>1. p \in Nat \ {0}
    BY <1>2 DEF PowersOfTwo
  <2>2. DownOf(n, k) = a /\ DownOf(-n, k) = b
    BY <1>2 DEF DownOf
  <2> HIDE DEF p
  <2>3. a \in Nat /\ a <= n
    BY <2>1, Divisions
  <2>4. /\ b \in Int /\ n % p \in 0 .. p - 1 /\ (-n) % p \in 0 .. p - 1
        /\ n = p * a + (n % p) /\ -n = p * b + ((-n) % p)
    BY <2>1, QuotientBounds
  <2> DEFINE r == n % p
             t == (-n) % p
  <2> HIDE DEF a, b, r, t
  <2>5. p * (a + b) = -(r + t) /\ r \in 0 .. p - 1 /\ t \in 0 .. p - 1
    <3>1. n = p * a + r /\ -n = p * b + t /\ r \in 0 .. p - 1 /\ t \in 0 .. p - 1
      BY <2>4 DEF r, t
    <3>2. p * (a + b) = p * a + p * b /\ p * a \in Int /\ p * b \in Int
      BY <2>1, <2>3, <2>4
    <3> QED
      BY <2>1, <3>1, <3>2
  <2>6. a + b <= 0
    <3>1. ASSUME a + b >= 1 PROVE FALSE
      <4>1. p * (a + b) >= p
        BY <2>1, <2>3, <2>4, <3>1
      <4> QED
        BY <2>1, <2>5, <4>1
    <3> QED
      BY <2>3, <2>4, <3>1
  <2>7. a + b >= -1
    <3>1. ASSUME -(a + b) >= 2 PROVE FALSE
      <4>1. p * (-(a + b)) >= p * 2
        BY <2>1, <2>3, <2>4, <3>1
      <4>2. p * (-(a + b)) = -(p * (a + b))
        BY <2>1, <2>3, <2>4
      <4> QED
        BY <2>1, <2>5, <4>1, <4>2
    <3> QED
      BY <2>3, <2>4, <3>1
  <2> QED
    BY <1>2, <2>2, <2>3, <2>4, <2>6, <2>7
<1> QED
  BY <1>1, <1>2

(* What the tests and the roundings ask of the integers around a number *)
LEMMA TwicesAre ==
    ASSUME PowersOfTwo, NEW F \in Formats, NEW x \in 0 .. 2 * SignBit(F) - 1
    PROVE  /\ TwiceDown(F, x) \in Int /\ TwiceUp(F, x) \in Int
           /\ TwiceDown(F, x) <= TwiceUp(F, x) /\ TwiceUp(F, x) <= TwiceDown(F, x) + 1
           /\ IsNegative(F, x) => TwiceUp(F, x) <= 0
           /\ ~IsNegative(F, x) => TwiceDown(F, x) >= 0
           /\ TwiceDown(F, Negated(F, x)) = -TwiceUp(F, x)
           /\ TwiceUp(F, Negated(F, x)) = -TwiceDown(F, x)
           /\ TwiceDown(F, Absolute(F, x)) =
                (IF IsNegative(F, x) THEN -TwiceUp(F, x) ELSE TwiceDown(F, x))
           /\ ~IsNegative(F, x) /\ Scale(F, x) < 0 => TwiceDown(F, x) <= Significand(F, x)
           /\ ~IsNegative(F, x) /\ Scale(F, x) >= 0 =>
                /\ TwiceDown(F, x) = Significand(F, x) * 2^Scale(F, x)
                /\ TwiceUp(F, x) = Significand(F, x) * 2^Scale(F, x)
<1> DEFINE y == Negated(F, x)
           n == Significand(F, x)
           k == Scale(F, x)
<1>1. /\ y \in 0 .. 2 * SignBit(F) - 1 /\ Negated(F, y) = x
      /\ IsNegative(F, y) <=> ~IsNegative(F, x)
      /\ IsNegative(F, x) => y = Absolute(F, x)
  BY NegatedIs
<1>2. /\ n \in Nat /\ k \in Int /\ Significand(F, y) = n /\ Scale(F, y) = k
  BY SignificandsAre
<1>3. /\ TwiceDown(F, x) = (IF IsNegative(F, x) THEN DownOf(-n, k) ELSE DownOf(n, k))
      /\ TwiceDown(F, y) = (IF IsNegative(F, x) THEN DownOf(n, k) ELSE DownOf(-n, k))
  <2>1. TwiceDown(F, x) = DownOf(IF IsNegative(F, x) THEN -n ELSE n, k)
    BY DownIs
  <2>2. TwiceDown(F, y) = DownOf(IF IsNegative(F, y) THEN -n ELSE n, k)
    BY <1>1, <1>2, DownIs
  <2> QED
    BY <1>1, <2>1, <2>2
<1>4. TwiceUp(F, x) = -TwiceDown(F, y) /\ TwiceUp(F, y) = -TwiceDown(F, x)
  BY <1>1 DEF TwiceUp
<1>5. ~IsNegative(F, x) => Absolute(F, x) = x
  BY NumbersAre
<1>6. /\ DownOf(n, k) \in Nat /\ DownOf(-n, k) \in Int
      /\ DownOf(n, k) <= -DownOf(-n, k) /\ -DownOf(-n, k) <= DownOf(n, k) + 1
      /\ k >= 0 => DownOf(n, k) = n * 2^k /\ -DownOf(-n, k) = n * 2^k
      /\ k < 0 => DownOf(n, k) <= n
  BY <1>2, DownOfIs
<1> HIDE DEF y, n, k
<1>7. CASE IsNegative(F, x)
  <2> DEFINE a == DownOf(n, k)
             b == DownOf(-n, k)
  <2>1. /\ TwiceDown(F, x) = b /\ TwiceUp(F, x) = -a /\ TwiceDown(F, Absolute(F, x)) = a
        /\ TwiceDown(F, y) = a /\ TwiceUp(F, y) = -b
    BY <1>1, <1>3, <1>4, <1>7
  <2>2. a \in Nat /\ b \in Int /\ a <= -b /\ -b <= a + 1
    BY <1>6
  <2> HIDE DEF a, b
  <2> QED
    BY <1>7, <2>1, <2>2 DEF y
<1>8. CASE ~IsNegative(F, x)
  <2> DEFINE a == DownOf(n, k)
             b == DownOf(-n, k)
  <2>1. /\ TwiceDown(F, x) = a /\ TwiceUp(F, x) = -b /\ TwiceDown(F, Absolute(F, x)) = a
        /\ TwiceDown(F, y) = b /\ TwiceUp(F, y) = -a
    BY <1>1, <1>3, <1>4, <1>5, <1>8
  <2>2. a \in Nat /\ b \in Int /\ a <= -b /\ -b <= a + 1
    BY <1>6
  <2>3. /\ k >= 0 => a = n * 2^k /\ -b = n * 2^k
        /\ k < 0 => a <= n
    BY <1>6
  <2> HIDE DEF a, b
  <2> QED
    BY <1>2, <1>8, <2>1, <2>2, <2>3 DEF y, n, k
<1> QED
  BY <1>7, <1>8

(* The ways to round, and what each writes *)
Ways4 == {"nearest", "up", "down", "zero"}

(* A half is between two integers. *)
LEMMA HalvesAre ==
    ASSUME NEW n \in Int
    PROVE  n \div 2 \in Int /\ 2 * (n \div 2) <= n /\ n <= 2 * (n \div 2) + 1
<1>1. n \div 2 \in Int /\ n % 2 \in 0 .. 2 - 1 /\ n = 2 * (n \div 2) + (n % 2)
  BY QuotientBounds
<1> DEFINE q == n \div 2
           r == n % 2
<1> HIDE DEF q, r
<1>2. q \in Int /\ r \in 0 .. 1 /\ n = 2 * q + r
  BY <1>1 DEF q, r
<1>3. 2 * q <= n /\ n <= 2 * q + 1
  BY <1>2
<1> QED
  BY <1>2, <1>3 DEF q

(* What floor, ceiling and round have to do with twice the number *)
LEMMA ToIntegers ==
    ASSUME PowersOfTwo, NEW F \in Formats, NEW x \in 0 .. 2 * SignBit(F) - 1,
           NEW D, NEW U, D = TwiceDown(F, x), U = TwiceUp(F, x)
    PROVE  /\ Floor(F, x) \in Int /\ 2 * Floor(F, x) <= D /\ D <= 2 * Floor(F, x) + 1
           /\ Ceiling(F, x) \in Int /\ U <= 2 * Ceiling(F, x) /\ 2 * Ceiling(F, x) <= U + 1
           /\ Rounded(F, x) \in Int
           /\ IsNegative(F, x) => 2 * Rounded(F, x) <= U /\ U <= 2 * Rounded(F, x) + 1
           /\ ~IsNegative(F, x) => 2 * Rounded(F, x) - 1 <= D /\ D <= 2 * Rounded(F, x)
<1>1. D \in Int /\ U \in Int /\ TwiceDown(F, Negated(F, x)) = -U
  BY TwicesAre
<1>2. /\ Floor(F, x) = D \div 2 /\ Ceiling(F, x) = -((-U) \div 2)
      /\ IsNegative(F, x) => Rounded(F, x) = -((-U + 1) \div 2)
      /\ ~IsNegative(F, x) => Rounded(F, x) = (D + 1) \div 2
  BY <1>1 DEF Floor, Ceiling, Rounded
<1> DEFINE a == D \div 2
           b == (-U) \div 2
           c == (-U + 1) \div 2
           d == (D + 1) \div 2
<1>3. /\ a \in Int /\ 2 * a <= D /\ D <= 2 * a + 1
      /\ b \in Int /\ 2 * b <= -U /\ -U <= 2 * b + 1
      /\ c \in Int /\ 2 * c <= -U + 1 /\ -U + 1 <= 2 * c + 1
      /\ d \in Int /\ 2 * d <= D + 1 /\ D + 1 <= 2 * d + 1
  <2>1. -U \in Int /\ -U + 1 \in Int /\ D + 1 \in Int
    BY <1>1
  <2> QED
    BY <1>1, <2>1, HalvesAre
<1> HIDE DEF a, b, c, d
<1>4. /\ Floor(F, x) = a /\ Ceiling(F, x) = -b
      /\ IsNegative(F, x) => Rounded(F, x) = -c
      /\ ~IsNegative(F, x) => Rounded(F, x) = d
  BY <1>2 DEF a, b, c, d
<1>5. CASE IsNegative(F, x)
  BY <1>1, <1>3, <1>4, <1>5
<1>6. CASE ~IsNegative(F, x)
  BY <1>1, <1>3, <1>4, <1>6
<1> QED
  BY <1>5, <1>6

(* The integer of a way *)
IntegerOf(F, x, how) ==
    CASE how = "nearest" -> Rounded(F, x) [] how = "up" -> Ceiling(F, x)
      [] how = "down" -> Floor(F, x)      [] how = "zero" -> Truncated(F, x)

(* The integer of a way is the one that the way asks for. *)
LEMMA IntegersAre ==
    ASSUME PowersOfTwo, NEW F \in Formats, NEW x \in 0 .. 2 * SignBit(F) - 1,
           NEW how \in Ways4, NEW n, n = IntegerOf(F, x, how),
           NEW D, NEW U, D = TwiceDown(F, x), U = TwiceUp(F, x)
    PROVE  /\ n \in Int /\ IsRounded(F, x, n, how)
           /\ how = "down" => 2 * n <= D /\ D <= 2 * n + 1
           /\ how = "up" => U <= 2 * n /\ 2 * n <= U + 1
           /\ how = "zero" /\ IsNegative(F, x) => U <= 2 * n /\ 2 * n <= U + 1
           /\ how = "zero" /\ ~IsNegative(F, x) => 2 * n <= D /\ D <= 2 * n + 1
           /\ how = "nearest" /\ IsNegative(F, x) => 2 * n <= U /\ U <= 2 * n + 1
           /\ how = "nearest" /\ ~IsNegative(F, x) => 2 * n - 1 <= D /\ D <= 2 * n
<1>1. /\ D \in Int /\ U \in Int /\ D <= U /\ U <= D + 1
      /\ IsNegative(F, x) => U <= 0
      /\ ~IsNegative(F, x) => D >= 0
      /\ TwiceDown(F, Absolute(F, x)) = (IF IsNegative(F, x) THEN -U ELSE D)
  BY TwicesAre
<1>2. /\ Floor(F, x) \in Int /\ 2 * Floor(F, x) <= D /\ D <= 2 * Floor(F, x) + 1
      /\ Ceiling(F, x) \in Int /\ U <= 2 * Ceiling(F, x) /\ 2 * Ceiling(F, x) <= U + 1
      /\ Rounded(F, x) \in Int
      /\ IsNegative(F, x) => 2 * Rounded(F, x) <= U /\ U <= 2 * Rounded(F, x) + 1
      /\ ~IsNegative(F, x) => 2 * Rounded(F, x) - 1 <= D /\ D <= 2 * Rounded(F, x)
  BY ToIntegers
<1>3. CASE how = "nearest"
  <2>1. n = Rounded(F, x)
    BY <1>3 DEF IntegerOf
  <2>2. 2 * n - 1 <= D /\ U <= 2 * n + 1
    BY <1>1, <1>2, <2>1
  <2>3. IsRounded(F, x, n, how)
    BY <1>3, <2>2 DEF IsRounded
  <2> QED
    BY <1>2, <1>3, <2>1, <2>3
<1>4. CASE how = "up"
  <2>1. n = Ceiling(F, x)
    BY <1>4 DEF IntegerOf
  <2>2. IsRounded(F, x, n, how)
    BY <1>1, <1>2, <1>4, <2>1 DEF IsRounded
  <2> QED
    BY <1>2, <1>4, <2>1, <2>2
<1>5. CASE how = "down"
  <2>1. n = Floor(F, x)
    BY <1>5 DEF IntegerOf
  <2>2. IsRounded(F, x, n, how)
    BY <1>1, <1>2, <1>5, <2>1 DEF IsRounded
  <2> QED
    BY <1>2, <1>5, <2>1, <2>2
<1>6. CASE how = "zero" /\ IsNegative(F, x)
  <2>1. n = Ceiling(F, x)
    BY <1>6 DEF IntegerOf, Truncated
  <2>2. /\ n <= 0 /\ Magnitude(n) = -n /\ n \in Int
        /\ -(2 * n) <= -U /\ -U < -(2 * n) + 2
    BY <1>1, <1>2, <1>6, <2>1 DEF Magnitude
  <2>3. IsRounded(F, x, n, how)
    BY <1>1, <1>6, <2>2 DEF IsRounded
  <2> QED
    BY <1>2, <1>6, <2>1, <2>3
<1>7. CASE how = "zero" /\ ~IsNegative(F, x)
  <2>1. n = Floor(F, x)
    BY <1>7 DEF IntegerOf, Truncated
  <2>2. n >= 0 /\ Magnitude(n) = n /\ n \in Int /\ 2 * n <= D /\ D < 2 * n + 2
    BY <1>1, <1>2, <1>7, <2>1 DEF Magnitude
  <2>3. IsRounded(F, x, n, how)
    BY <1>1, <1>7, <2>2 DEF IsRounded
  <2> QED
    BY <1>2, <1>7, <2>1, <2>3
<1> QED
  BY <1>3, <1>4, <1>5, <1>6, <1>7 DEF Ways4

(* A large number of few bits is even, as an integer. *)
LEMMA LargeAreEven ==
    ASSUME PowersOfTwo, NEW F \in Formats, NEW x \in 0 .. 2 * SignBit(F) - 1,
           ~IsNegative(F, x), NEW w \in Nat, FractionBits(F) + 1 <= w - 1,
           TwiceDown(F, x) >= 2^(w - 1)
    PROVE  \E m \in Int : TwiceDown(F, x) = 2 * m /\ TwiceUp(F, x) = 2 * m
<1> DEFINE n == Significand(F, x)
           k == Scale(F, x)
           D == TwiceDown(F, x)
           b == 2^(FractionBits(F) + 1)
<1>1. n \in Nat /\ n < b /\ k \in Int
  BY SignificandsAre
<1>2. /\ k < 0 => D <= n
      /\ k >= 0 => D = n * 2^k /\ TwiceUp(F, x) = n * 2^k
      /\ D \in Int
  BY TwicesAre
<1>3. FractionBits(F) + 1 \in Nat /\ w - 1 \in Nat
  BY FormatsAre
<1>4. b \in Nat /\ b <= 2^(w - 1) /\ 2^(w - 1) \in Nat
  <2>1. CASE FractionBits(F) + 1 = w - 1
    BY <1>3, <2>1 DEF PowersOfTwo
  <2>2. CASE FractionBits(F) + 1 < w - 1
    BY <1>3, <2>2, PowersGrow
  <2> QED
    BY <1>3, <2>1, <2>2
<1>5. D >= b
  BY <1>2, <1>4
<1> HIDE DEF n, D, b
<1>6. k > 0
  <2>1. ASSUME k < 0 PROVE FALSE
    BY <1>1, <1>2, <1>4, <1>5, <2>1
  <2>2. ASSUME k = 0 PROVE FALSE
    <3>1. 2^0 = 1
      OBVIOUS
    <3>2. D = n * 1
      BY <1>2, <2>2, <3>1
    <3> QED
      BY <1>1, <1>4, <1>5, <3>2
  <2> QED
    BY <1>1, <2>1, <2>2
<1> DEFINE p == 2^k
           q == 2^(k - 1)
<1>7. p = 2 * q /\ q \in Nat
  <2>1. 0 \in Nat /\ k \in Nat /\ 0 < k /\ k - 0 = k
    BY <1>1, <1>6
  <2> HIDE DEF k
  <2>2. 2^(k - 0) = 2 * 2^(k - 0 - 1) /\ 2^(k - 0 - 1) \in Nat
    BY <2>1, PowersGrow
  <2> QED
    BY <2>1, <2>2
<1>8. D = n * p /\ TwiceUp(F, x) = n * p
  BY <1>1, <1>2, <1>6
<1> HIDE DEF p, q
<1>9. n * p = 2 * (n * q) /\ n * q \in Int
  BY <1>1, <1>7
<1> QED
  BY <1>8, <1>9 DEF D

(* Powers of two grow with their exponents. *)
LEMMA PowersOrdered ==
    ASSUME PowersOfTwo, NEW a \in Nat, NEW b \in Nat, a <= b
    PROVE  2^a \in Nat \ {0} /\ 2^b \in Nat \ {0} /\ 2^a <= 2^b
<1>1. 2^a \in Nat \ {0} /\ 2^b \in Nat \ {0}
  BY DEF PowersOfTwo
<1>2. CASE a < b
  BY <1>1, <1>2, PowersGrow
<1>3. CASE a = b
  BY <1>1, <1>3
<1> QED
  BY <1>2, <1>3

(* How far apart the numbers of a format are, next to an integer *)
LEMMA SpacingIs ==
    ASSUME PowersOfTwo, NEW F \in Formats, NEW j \in 0 .. 2 * Bits, NEW n \in Nat,
           2^j <= n, n < 2^(j + 1)
    PROVE  /\ j <= FractionBits(F) => SpacingOf(F, n) = 1
           /\ j > FractionBits(F) => SpacingOf(F, n) = 2^(j - FractionBits(F))
<1> DEFINE f == FractionBits(F)
           Fit(k) == n < 2^(k + f + 1) /\ (k = 0 \/ n >= 2^(k + f))
           best == IF j <= f THEN 0 ELSE j - f
<1>1. f \in Nat /\ 2 * Bits \in Nat /\ j \in Nat /\ j <= 2 * Bits
  BY FormatsAre, WordsAssumption
<1> HIDE DEF f
<1>2. best \in 0 .. 2 * Bits
  BY <1>1
<1>3. \A k \in Nat : 2^(k + f + 1) \in Nat /\ 2^(k + f) \in Nat
  <2>1. \A k \in Nat : k + f + 1 \in Nat /\ k + f \in Nat
    BY <1>1
  <2> QED
    BY <2>1 DEF PowersOfTwo
<1>4. 2^j \in Nat /\ 2^(j + 1) \in Nat
  BY <1>1 DEF PowersOfTwo
<1>5. Fit(best)
  <2>1. CASE j <= f
    <3>1. j + 1 \in Nat /\ 0 + f + 1 \in Nat /\ j + 1 <= 0 + f + 1
      BY <1>1, <2>1
    <3>2. 2^(j + 1) <= 2^(0 + f + 1)
      BY <3>1, PowersOrdered
    <3>3. 2^(0 + f + 1) \in Nat
      BY <1>3
    <3> QED
      BY <1>4, <2>1, <3>2, <3>3
  <2>2. CASE ~(j <= f)
    <3>1. best + f + 1 = j + 1 /\ best + f = j
      BY <1>1, <2>2
    <3> HIDE DEF best
    <3>2. n < 2^(best + f + 1) /\ n >= 2^(best + f)
      BY <3>1
    <3> QED
      BY <3>2
  <2> QED
    BY <2>1, <2>2
<1>6. ASSUME NEW k \in 0 .. 2 * Bits, Fit(k) PROVE k = best
  <2>1. ASSUME k < best PROVE FALSE
    <3>1. k + f + 1 \in Nat /\ k + f + 1 <= j
      BY <1>1, <2>1
    <3>2. 2^(k + f + 1) <= 2^j
      BY <1>1, <3>1, PowersOrdered
    <3>3. n < 2^(k + f + 1) /\ 2^(k + f + 1) \in Nat
      BY <1>3, <1>6
    <3> QED
      BY <1>4, <3>2, <3>3
  <2>2. ASSUME k > best PROVE FALSE
    <3>1. k + f \in Nat /\ j + 1 <= k + f /\ k # 0 /\ j + 1 \in Nat
      BY <1>1, <2>2
    <3>2. 2^(j + 1) <= 2^(k + f)
      BY <3>1, PowersOrdered
    <3>3. n >= 2^(k + f) /\ 2^(k + f) \in Nat
      BY <1>3, <1>6, <3>1
    <3> QED
      BY <1>4, <3>2, <3>3
  <2> QED
    BY <1>1, <1>2, <2>1, <2>2
<1>7. (CHOOSE k \in 0 .. 2 * Bits : Fit(k)) = best
  <2> HIDE DEF Fit, best
  <2> QED
    BY <1>2, <1>5, <1>6
<1>8. SpacingOf(F, n) = 2^best
  <2>1. SpacingOf(F, n) = 2^(CHOOSE k \in 0 .. 2 * Bits : Fit(k))
    BY DEF SpacingOf, f
  <2> HIDE DEF Fit, best
  <2> QED
    BY <1>7, <2>1
<1>9. 2^0 = 1
  OBVIOUS
<1> QED
  BY <1>1, <1>8, <1>9 DEF f

(* A multiple next to an integer *)
LEMMA MultipleIs ==
    ASSUME NEW n \in Nat, NEW d \in Nat \ {0}, NEW q \in Int, NEW r \in 0 .. 2 * d - 1,
           2 * n + d = (2 * d) * q + r
    PROVE  NearestMultiple(n, d) = d * (IF r = 0 THEN q - (q % 2) ELSE q)
<1>1. 2 * d \in Nat \ {0} /\ 2 * n + d \in Int
  OBVIOUS
<1>2. (2 * n + d) \div (2 * d) = q /\ (2 * n + d) % (2 * d) = r
  BY <1>1, QuotientUnique
<1> QED
  BY <1>2 DEF NearestMultiple

(* Every integer is a multiple of one. *)
LEMMA MultiplesOfOne ==
    ASSUME NEW n \in Nat
    PROVE  NearestMultiple(n, 1) = n
<1>1. 2 * n + 1 = (2 * 1) * n + 1 /\ 1 \in 0 .. 2 * 1 - 1 /\ 1 \in Nat \ {0} /\ n \in Int
  OBVIOUS
<1>2. NearestMultiple(n, 1) = 1 * (IF 1 = 0 THEN n - (n % 2) ELSE n)
  BY <1>1, MultipleIs
<1> QED
  BY <1>2

(* The multiple is the one below the middle, and a tie goes to an even one. *)
LEMMA MultipleBelow ==
    ASSUME NEW n \in Nat, NEW d \in Nat \ {0}, NEW q \in Int, NEW base \in Int, base = d * q,
           NEW r \in 1 .. 2 * d - 1, 2 * n + d = 2 * base + r
    PROVE  NearestMultiple(n, d) = base
<1>1. (2 * d) * q = 2 * base
  OBVIOUS
<1>2. r \in 0 .. 2 * d - 1 /\ r # 0
  OBVIOUS
<1>3. NearestMultiple(n, d) = d * (IF r = 0 THEN q - (q % 2) ELSE q)
  BY <1>1, <1>2, MultipleIs
<1> QED
  BY <1>2, <1>3

(* In the middle of two multiples, the even one is nearest. *)
LEMMA MultipleTied ==
    ASSUME NEW n \in Nat, NEW d \in Nat \ {0}, NEW q \in Int, NEW base \in Int, base = d * q,
           q % 2 = 0, NEW r \in {0, 2 * d}, 2 * n + d = 2 * base + r
    PROVE  NearestMultiple(n, d) = base
<1>1. 0 \in 0 .. 2 * d - 1 /\ q + 1 \in Int /\ (q + 1) % 2 = 1
  <2>1. PICK k \in Int : q = 2 * k
    OBVIOUS
  <2>2. q + 1 = 2 * k + 1
    BY <2>1
  <2> QED
    BY <2>2, QuotientUnique
<1>2. CASE r = 0
  <2>1. 2 * n + d = (2 * d) * q + 0
    BY <1>2
  <2>2. NearestMultiple(n, d) = d * (IF 0 = 0 THEN q - (q % 2) ELSE q)
    BY <1>1, <2>1, MultipleIs
  <2> QED
    BY <2>2
<1>3. CASE r = 2 * d
  <2>1. 2 * n + d = (2 * d) * (q + 1) + 0
    BY <1>3
  <2>2. NearestMultiple(n, d) = d * (IF 0 = 0 THEN (q + 1) - ((q + 1) % 2) ELSE q + 1)
    BY <1>1, <2>1, MultipleIs
  <2>3. (q + 1) - ((q + 1) % 2) = q
    BY <1>1
  <2> QED
    BY <2>2, <2>3
<1> QED
  BY <1>2, <1>3

(* The integers next to an even multiple of an even d become that multiple. *)
StandsOut(P, d) ==
    /\ NearestMultiple(P, d) = P
    /\ NearestMultiple(P + 1, d) = P
    /\ NearestMultiple(P + 2, d) = (IF d = 2 THEN P + 2 ELSE P)
    /\ NearestMultiple(P - 1, d) = P
    /\ NearestMultiple(P - 2, d) = (IF d = 2 THEN P - 2 ELSE P)

(* So do those next to a power of two, whose spacing is d. *)
LEMMA MultiplesAre ==
    ASSUME NEW s \in Nat \ {0}, NEW d, d = 2 * s, NEW h \in Nat \ {0}, NEW M, M = 2 * h,
           NEW P, P = d * M
    PROVE  StandsOut(P, d)
<1>1. d \in Nat \ {0} /\ (d = 2 \/ d = 4 \/ d > 4) /\ M \in Nat /\ M >= 2
  OBVIOUS
<1>2. P \in Nat /\ P >= 4
  <2>1. d * M \in Nat /\ d * M >= 4
    BY <1>1
  <2> QED
    BY <2>1
<1>3. M % 2 = 0 /\ (M + 1) % 2 = 1
  BY QuotientUnique
<1>4. P = d * M /\ P + d = d * (M + 1) /\ P - d = d * (M - 1) /\ (P + d) - d = P
  BY <1>1
<1>5. /\ M \in Int /\ M + 1 \in Int /\ M - 1 \in Int /\ P \in Int /\ P + d \in Int
      /\ P - d \in Int /\ P + 1 \in Nat /\ P + 2 \in Nat /\ P - 1 \in Nat /\ P - 2 \in Nat
  BY <1>1, <1>2
<1>6. \A base \in {P, P + d, P - d}, n \in Nat, r \in 1 .. 2 * d - 1 :
          2 * n + d = 2 * base + r => NearestMultiple(n, d) = base
  <2>1. ASSUME NEW base \in {P, P + d, P - d}, NEW n \in Nat, NEW r \in 1 .. 2 * d - 1,
               2 * n + d = 2 * base + r
        PROVE  NearestMultiple(n, d) = base
    <3>1. base \in Int /\ \E q \in Int : base = d * q
      BY <1>4, <1>5, Zenon
    <3>2. PICK q \in Int : base = d * q
      BY <3>1
    <3>3. d \in Nat \ {0} /\ base \in Int
      BY <1>1, <3>1
    <3> QED
      BY <2>1, <3>2, <3>3, MultipleBelow
  <2> QED
    BY <2>1
<1>7. \A n \in Nat :
          /\ 2 * n + d = 2 * P => NearestMultiple(n, d) = P
          /\ 2 * n + d = 2 * (P + d) => NearestMultiple(n, d) = P
  <2>1. ASSUME NEW n \in Nat, NEW r \in {0, 2 * d}, 2 * n + d = 2 * P + r
        PROVE  NearestMultiple(n, d) = P
    <3>1. PICK base \in Int : base = P
      BY <1>5
    <3>2. PICK q \in Int : q = M
      BY <1>5
    <3>3. base = d * q
      BY <1>4, <3>1, <3>2, Zenon
    <3>4. 2 * n + d = 2 * base + r
      BY <2>1, <3>1, Zenon
    <3>5. d \in Nat \ {0} /\ q % 2 = 0
      BY <1>1, <1>3, <3>2
    <3>6. NearestMultiple(n, d) = base
      BY <3>3, <3>4, <3>5, MultipleTied
    <3> QED
      BY <3>1, <3>6, Zenon
  <2>2. ASSUME NEW n \in Nat PROVE /\ 2 * n + d = 2 * P => 2 * n + d = 2 * P + 0
                                   /\ 2 * n + d = 2 * (P + d) => 2 * n + d = 2 * P + 2 * d
    BY <1>1, <1>2
  <2> QED
    BY <2>1, <2>2
<1>8. d \in Int /\ P \in Int /\ (d = 2 \/ d = 4 \/ d > 4) /\ (d > 4 => d >= 6) /\ P >= 4
  BY <1>1, <1>2
<1> HIDE DEF NearestMultiple
<1>9. NearestMultiple(P, d) = P
  <2>1. P \in Nat /\ d \in 1 .. 2 * d - 1 /\ 2 * P + d = 2 * P + d
    BY <1>1, <1>2
  <2> QED
    BY <1>6, <2>1
<1>10. NearestMultiple(P + 1, d) = P
  <2>1. CASE d = 2
    <3>1. P + 1 \in Nat /\ 2 * (P + 1) + d = 2 * (P + d)
      BY <1>5, <1>8, <2>1
    <3> QED
      BY <1>7, <3>1
  <2>2. CASE d >= 4
    <3>1. P + 1 \in Nat /\ d + 2 \in 1 .. 2 * d - 1 /\ 2 * (P + 1) + d = 2 * P + (d + 2)
      BY <1>5, <1>8, <2>2
    <3> QED
      BY <1>6, <3>1
  <2> QED
    BY <1>8, <2>1, <2>2
<1>11. NearestMultiple(P + 2, d) = (IF d = 2 THEN P + 2 ELSE P)
  <2>1. CASE d = 2
    <3>1. P + 2 \in Nat /\ 2 \in 1 .. 2 * d - 1 /\ 2 * (P + 2) + d = 2 * (P + d) + 2
      BY <1>5, <1>8, <2>1
    <3>2. NearestMultiple(P + 2, d) = P + d
      BY <1>6, <3>1
    <3> QED
      BY <2>1, <3>2
  <2>2. CASE d = 4
    <3>1. P + 2 \in Nat /\ 2 * (P + 2) + d = 2 * (P + d)
      BY <1>5, <1>8, <2>2
    <3>2. NearestMultiple(P + 2, d) = P
      BY <1>7, <3>1
    <3> QED
      BY <2>2, <3>2
  <2>3. CASE d > 4
    <3>1. P + 2 \in Nat /\ d + 4 \in 1 .. 2 * d - 1 /\ 2 * (P + 2) + d = 2 * P + (d + 4)
      BY <1>5, <1>8, <2>3
    <3>2. NearestMultiple(P + 2, d) = P
      BY <1>6, <3>1
    <3> QED
      BY <1>8, <2>3, <3>2
  <2> QED
    BY <1>8, <2>1, <2>2, <2>3
<1>12. NearestMultiple(P - 1, d) = P
  <2>1. CASE d = 2
    <3>1. P - 1 \in Nat /\ 2 * (P - 1) + d = 2 * P
      BY <1>5, <1>8, <2>1
    <3> QED
      BY <1>7, <3>1
  <2>2. CASE d >= 4
    <3>1. P - 1 \in Nat /\ d - 2 \in 1 .. 2 * d - 1 /\ 2 * (P - 1) + d = 2 * P + (d - 2)
      BY <1>5, <1>8, <2>2
    <3> QED
      BY <1>6, <3>1
  <2> QED
    BY <1>8, <2>1, <2>2
<1>13. NearestMultiple(P - 2, d) = (IF d = 2 THEN P - 2 ELSE P)
  <2>1. CASE d = 2
    <3>1. P - 2 \in Nat /\ 2 \in 1 .. 2 * d - 1 /\ 2 * (P - 2) + d = 2 * (P - d) + 2
      BY <1>5, <1>8, <2>1
    <3>2. NearestMultiple(P - 2, d) = P - d
      BY <1>6, <3>1
    <3> QED
      BY <2>1, <3>2
  <2>2. CASE d = 4
    <3>1. P - 2 \in Nat /\ 2 * (P - 2) + d = 2 * P
      BY <1>5, <1>8, <2>2
    <3>2. NearestMultiple(P - 2, d) = P
      BY <1>7, <3>1
    <3> QED
      BY <2>2, <3>2
  <2>3. CASE d > 4
    <3>1. P - 2 \in Nat /\ d - 4 \in 1 .. 2 * d - 1 /\ 2 * (P - 2) + d = 2 * P + (d - 4)
      BY <1>5, <1>8, <2>3
    <3>2. NearestMultiple(P - 2, d) = P
      BY <1>6, <3>1
    <3> QED
      BY <1>8, <2>3, <3>2
  <2> QED
    BY <1>8, <2>1, <2>2, <2>3
<1> QED
  BY <1>9, <1>10, <1>11, <1>12, <1>13 DEF StandsOut

(* A number that is not negative becomes a multiple of its spacing. *)
LEMMA NearestOf ==
    ASSUME NEW F, NEW n \in Nat
    PROVE  NearestTo(F, n) = NearestMultiple(n, SpacingOf(F, n))
<1>1. ~(n < 0)
  OBVIOUS
<1>2. Magnitude(n) = n
  BY <1>1 DEF Magnitude
<1> QED
  BY <1>1, <1>2 DEF NearestTo

(* Zero is the middle of the numbers. *)
LEMMA NearestNegated ==
    ASSUME NEW F, NEW n \in Nat \ {0}, NEW m \in Int, m = -n
    PROVE  NearestTo(F, m) = -NearestTo(F, n)
<1>1. m < 0 /\ ~(n < 0)
  OBVIOUS
<1>2. Magnitude(m) = n /\ Magnitude(n) = n
  BY <1>1 DEF Magnitude
<1> QED
  BY <1>1, <1>2 DEF NearestTo

(* A power of two, the next one and the one before *)
LEMMA PowerBetween ==
    ASSUME PowersOfTwo, NEW w \in Nat, w >= 4, NEW P, P = 2^w
    PROVE  /\ P \in Nat /\ P >= 16 /\ 2^(w + 1) = 2 * P /\ 2^((w - 1) + 1) = P
           /\ \E h \in Nat : h >= 8 /\ P = 2 * h /\ 2^(w - 1) = h
<1>1. 4 \in Nat /\ 2^4 = 16
  OBVIOUS
<1>2. 2^4 <= 2^w /\ 2^w \in Nat
  BY <1>1, PowersOrdered
<1>3. w - 1 \in Nat /\ 1 \in Nat /\ (w - 1) + 1 = w /\ 2^1 = 2
  OBVIOUS
<1>4. 2^(w + 1) = 2^w * 2^1 /\ 2^((w - 1) + 1) = 2^(w - 1) * 2^1 /\ 2^(w - 1) \in Nat
  BY <1>3 DEF PowersOfTwo
<1>5. 2^((w - 1) + 1) = P
  BY <1>3
<1> DEFINE h == 2^(w - 1)
           t == 2^(w + 1)
<1>6. P \in Nat /\ P >= 16 /\ t = P * 2 /\ P = h * 2 /\ h \in Nat
  BY <1>1, <1>2, <1>3, <1>4, <1>5
<1> HIDE DEF h, t
<1>7. t = 2 * P /\ P = 2 * h /\ h >= 8
  BY <1>6
<1> QED
  BY <1>5, <1>6, <1>7 DEF h, t

(* What becomes of a power of two and of the next two integers *)
LEMMA NearestAbove ==
    ASSUME PowersOfTwo, NEW F \in Formats, NEW w \in 4 .. 2 * Bits, NEW P, P = 2^w
    PROVE  /\ NearestTo(F, P) = P
           /\ NearestTo(F, P + 1) = IF FractionBits(F) < w THEN P ELSE P + 1
           /\ NearestTo(F, P + 2) = IF FractionBits(F) + 1 < w THEN P ELSE P + 2
<1> DEFINE f == FractionBits(F)
           d == 2^(w - f)
<1>1. f \in Nat /\ f >= 2 /\ w \in Nat /\ w >= 4 /\ w \in 0 .. 2 * Bits
  BY FormatsAre, WordsAssumption
<1>2. P \in Nat /\ P >= 16 /\ 2^(w + 1) = 2 * P
  BY <1>1, PowerBetween
<1>3. /\ P \in Nat /\ P + 1 \in Nat /\ P + 2 \in Nat
      /\ \A n \in {P, P + 1, P + 2} : 2^w <= n /\ n < 2^(w + 1)
  BY <1>2
<1> HIDE DEF f
<1>4. CASE f >= w
  <2>1. \A n \in {P, P + 1, P + 2} : SpacingOf(F, n) = 1
    <3>1. ASSUME NEW n \in {P, P + 1, P + 2} PROVE SpacingOf(F, n) = 1
      <4>1. n \in Nat /\ 2^w <= n /\ n < 2^(w + 1)
        BY <1>3
      <4>2. w <= FractionBits(F) => SpacingOf(F, n) = 1
        BY <1>1, <4>1, SpacingIs
      <4> QED
        BY <1>1, <1>4, <4>2 DEF f
    <3> QED
      BY <3>1
  <2>2. NearestTo(F, P) = P /\ NearestTo(F, P + 1) = P + 1 /\ NearestTo(F, P + 2) = P + 2
    BY <1>3, <2>1, NearestOf, MultiplesOfOne
  <2>3. ~(f < w) /\ ~(f + 1 < w)
    BY <1>1, <1>4
  <2> QED
    BY <2>2, <2>3 DEF f
<1>5. CASE f < w
  <2>1. f \in Nat /\ w \in Nat /\ f < w
    BY <1>1, <1>5
  <2>2. d = 2 * 2^(w - f - 1) /\ 2^(w - f - 1) \in Nat \ {0} /\ P = 2^f * d /\ d \in Nat
    BY <2>1, PowersGrow
  <2>3. 2^f = 2 * 2^(f - 1) /\ 2^(f - 1) \in Nat \ {0}
    <3>1. 0 \in Nat /\ 0 < f /\ f - 0 = f
      BY <1>1
    <3>2. 2^(f - 0) = 2 * 2^(f - 0 - 1) /\ 2^(f - 0 - 1) \in Nat \ {0}
      BY <2>1, <3>1, PowersGrow
    <3> QED
      BY <3>1, <3>2
  <2>4. \A n \in {P, P + 1, P + 2} : SpacingOf(F, n) = d
    <3>1. ASSUME NEW n \in {P, P + 1, P + 2} PROVE SpacingOf(F, n) = d
      <4>1. n \in Nat /\ 2^w <= n /\ n < 2^(w + 1)
        BY <1>3
      <4>2. w > FractionBits(F) => SpacingOf(F, n) = 2^(w - FractionBits(F))
        BY <1>1, <4>1, SpacingIs
      <4>3. w > FractionBits(F)
        BY <1>1, <1>5 DEF f
      <4> QED
        BY <4>2, <4>3 DEF f
    <3> QED
      BY <3>1
  <2>5. NearestTo(F, P) = NearestMultiple(P, d)
    BY <1>3, <2>4, NearestOf
  <2>6. NearestTo(F, P + 1) = NearestMultiple(P + 1, d)
    BY <1>3, <2>4, NearestOf
  <2>7. NearestTo(F, P + 2) = NearestMultiple(P + 2, d)
    BY <1>3, <2>4, NearestOf
  <2>8. f + 1 < w <=> d # 2
    <3>1. ASSUME f + 1 < w PROVE d # 2
      <4>1. 2 \in Nat /\ w - f \in Nat /\ 2 <= w - f /\ 2^2 = 4
        BY <1>1, <3>1
      <4>2. 2^2 <= 2^(w - f)
        BY <4>1, PowersOrdered
      <4> QED
        BY <2>2, <4>1, <4>2
    <3>2. ASSUME ~(f + 1 < w) PROVE d = 2
      <4>1. w - f = 1 /\ 2^1 = 2
        BY <2>1, <3>2
      <4> QED
        BY <4>1
    <3> QED
      BY <3>1, <3>2
  <2> DEFINE M == 2^f
             s == 2^(w - f - 1)
             h == 2^(f - 1)
  <2>9. d = 2 * s /\ s \in Nat \ {0} /\ M = 2 * h /\ h \in Nat \ {0} /\ P = d * M
    <3>1. M \in Nat /\ P = M * d /\ d \in Nat
      BY <2>1, <2>2 DEF PowersOfTwo
    <3> HIDE DEF d, M
    <3>2. P = d * M
      BY <3>1
    <3> QED
      BY <2>2, <2>3, <3>2, Zenon DEF d, M
  <2> HIDE DEF d, M, s, h
  <2>10. /\ NearestMultiple(P, d) = P /\ NearestMultiple(P + 1, d) = P
         /\ NearestMultiple(P + 2, d) = (IF d = 2 THEN P + 2 ELSE P)
    <3>1. StandsOut(P, d)
      BY <2>9, MultiplesAre
    <3> QED
      BY <3>1, Zenon DEF StandsOut
  <2> QED
    BY <1>5, <2>5, <2>6, <2>7, <2>8, <2>10, Zenon DEF f
<1> QED
  BY <1>1, <1>4, <1>5

(* What becomes of the two integers before a power of two *)
LEMMA NearestBelow ==
    ASSUME PowersOfTwo, NEW F \in Formats, NEW w \in 4 .. 2 * Bits, NEW P, P = 2^w
    PROVE  /\ NearestTo(F, P - 1) \in {P - 1, P}
           /\ NearestTo(F, P - 1) = P => FractionBits(F) + 1 < w
           /\ NearestTo(F, P - 2) \in {P - 2, P}
           /\ NearestTo(F, P - 2) = P => FractionBits(F) + 2 < w
<1> DEFINE f == FractionBits(F)
           j == w - 1
           d == 2^(j - f)
<1>1. /\ f \in Nat /\ f >= 2 /\ w \in Nat /\ w >= 4 /\ j \in 0 .. 2 * Bits /\ j \in Nat
      /\ w = j + 1
  BY FormatsAre, WordsAssumption
<1>2. P \in Nat /\ P >= 16 /\ 2^(j + 1) = P /\ \E h \in Nat : h >= 8 /\ P = 2 * h /\ 2^j = h
  BY <1>1, PowerBetween
<1> HIDE DEF f, j
<1>3. /\ P - 1 \in Nat /\ P - 2 \in Nat /\ P - 1 # P /\ P - 2 # P
      /\ \A n \in {P - 2, P - 1} : 2^j <= n /\ n < 2^(j + 1)
  BY <1>2
<1>4. CASE f >= j
  <2>1. \A n \in {P - 2, P - 1} : SpacingOf(F, n) = 1
    <3>1. ASSUME NEW n \in {P - 2, P - 1} PROVE SpacingOf(F, n) = 1
      <4>1. n \in Nat /\ 2^j <= n /\ n < 2^(j + 1)
        BY <1>3
      <4>2. j <= FractionBits(F) => SpacingOf(F, n) = 1
        BY <1>1, <4>1, SpacingIs
      <4> QED
        BY <1>1, <1>4, <4>2 DEF f
    <3> QED
      BY <3>1
  <2>2. NearestTo(F, P - 1) = P - 1 /\ NearestTo(F, P - 2) = P - 2
    BY <1>3, <2>1, NearestOf, MultiplesOfOne
  <2> QED
    BY <1>3, <2>2
<1>5. CASE f < j
  <2>1. f \in Nat /\ j \in Nat /\ f < j
    BY <1>1, <1>5
  <2>2. d = 2 * 2^(j - f - 1) /\ 2^(j - f - 1) \in Nat \ {0} /\ 2^j = 2^f * d /\ d \in Nat
    BY <2>1, PowersGrow
  <2>3. 2^(f + 1) = 2 * 2^f /\ 2^f \in Nat \ {0}
    <3>1. 0 \in Nat /\ f + 1 \in Nat /\ 0 < f + 1 /\ (f + 1) - 0 = f + 1 /\ (f + 1) - 0 - 1 = f
      BY <1>1
    <3>2. /\ 2^((f + 1) - 0) = 2 * 2^((f + 1) - 0 - 1)
          /\ 2^((f + 1) - 0 - 1) \in Nat \ {0}
      BY <3>1, PowersGrow
    <3> QED
      BY <3>1, <3>2
  <2>4. \A n \in {P - 2, P - 1} : SpacingOf(F, n) = d
    <3>1. ASSUME NEW n \in {P - 2, P - 1} PROVE SpacingOf(F, n) = d
      <4>1. n \in Nat /\ 2^j <= n /\ n < 2^(j + 1)
        BY <1>3
      <4>2. j > FractionBits(F) => SpacingOf(F, n) = 2^(j - FractionBits(F))
        BY <1>1, <4>1, SpacingIs
      <4>3. j > FractionBits(F)
        BY <1>1, <1>5 DEF f
      <4> QED
        BY <4>2, <4>3 DEF f
    <3> QED
      BY <3>1
  <2>5. NearestTo(F, P - 1) = NearestMultiple(P - 1, d)
    BY <1>3, <2>4, NearestOf
  <2>6. NearestTo(F, P - 2) = NearestMultiple(P - 2, d)
    BY <1>3, <2>4, NearestOf
  <2>7. d # 2 => f + 2 < w
    <3>1. CASE f + 1 = j
      <4>1. j - f = 1 /\ 2^1 = 2
        BY <1>1, <3>1
      <4> QED
        BY <4>1
    <3>2. CASE f + 1 # j
      BY <1>1, <1>5, <3>2
    <3> QED
      BY <3>1, <3>2
  <2>8. f + 1 < w
    BY <1>1, <1>5
  <2> DEFINE M == 2^(f + 1)
             s == 2^(j - f - 1)
             h == 2^f
             k == 2^j
  <2>9. d = 2 * s /\ s \in Nat \ {0} /\ M = 2 * h /\ h \in Nat \ {0} /\ P = d * M
    <3>1. k = h * d /\ P = 2 * k /\ M = 2 * h /\ h \in Nat /\ d \in Nat
      BY <1>2, <2>2, <2>3
    <3> HIDE DEF d, M, k, h
    <3>2. P = d * M
      BY <3>1
    <3> QED
      BY <2>2, <2>3, <3>2 DEF M, h
  <2> HIDE DEF d, M, s, h
  <2>10. /\ NearestMultiple(P - 1, d) = P
         /\ NearestMultiple(P - 2, d) = (IF d = 2 THEN P - 2 ELSE P)
    <3>1. StandsOut(P, d)
      BY <2>9, MultiplesAre
    <3> QED
      BY <3>1, Zenon DEF StandsOut
  <2> QED
    BY <1>3, <2>5, <2>6, <2>7, <2>8, <2>10, Zenon DEF f
<1> QED
  BY <1>1, <1>4, <1>5

(* The limits of the integers as the format of the number has them *)
BelowOf(F, W, d) == NearestTo(F, NearestTo(F, 2 * LowestInt(W)) - d)
AboveOf(F, W, d) == NearestTo(F, NearestTo(F, 2 * HighestInt(W)) + d)

(* Twice the limits, and the width that they come from *)
LEMMA RangeIs ==
    ASSUME PowersOfTwo, NEW W \in Formats
    PROVE  /\ W.width \in 4 .. 2 * Bits /\ W.width \in Nat
           /\ 2^W.width \in Nat /\ 2^W.width >= 16
           /\ 2^W.width = 2 * SignBit(W) /\ SignBit(W) \in Nat
           /\ LowestInt(W) \in Int /\ 2 * LowestInt(W) = -(2^W.width)
           /\ HighestInt(W) \in Int /\ 2 * HighestInt(W) = 2^W.width - 2
<1> DEFINE P == 2^W.width
           s == SignBit(W)
<1>1. s \in Nat /\ P = s + s
  BY FormatsAre
<1>2. W.width \in 4 .. 2 * Bits /\ W.width \in Nat /\ W.width >= 4
  BY WordsAssumption DEF Formats, Single, Double
<1>3. P \in Nat /\ P >= 16
  BY <1>2, PowerBetween
<1>4. LowestInt(W) = -s /\ HighestInt(W) = s - 1
  BY DEF LowestInt, HighestInt
<1> HIDE DEF P, s
<1>5. P = 2 * s
  BY <1>1
<1>6. 2 * LowestInt(W) = -P /\ 2 * HighestInt(W) = P - 2
  BY <1>1, <1>4
<1>7. LowestInt(W) \in Int /\ HighestInt(W) \in Int
  BY <1>1, <1>4
<1> QED
  BY <1>1, <1>2, <1>3, <1>5, <1>6, <1>7 DEF P, s

(* The bounds that a number is compared with, and when they are not exact *)
LEMMA LimitsAre ==
    ASSUME PowersOfTwo, NEW F \in Formats, NEW W \in Formats, NEW P, P = 2^W.width
    PROVE  /\ BelowOf(F, W, 0) = -P
           /\ BelowOf(F, W, 1) = IF FractionBits(F) < W.width THEN -P ELSE -P - 1
           /\ BelowOf(F, W, 2) = IF FractionBits(F) + 1 < W.width THEN -P ELSE -P - 2
           /\ AboveOf(F, W, 0) \in {P - 2, P}
           /\ AboveOf(F, W, 0) = P => FractionBits(F) + 2 < W.width
           /\ AboveOf(F, W, 1) \in {P - 1, P}
           /\ AboveOf(F, W, 1) = P => FractionBits(F) + 1 < W.width
           /\ AboveOf(F, W, 2) = P
<1> DEFINE w == W.width
           f == FractionBits(F)
           N(n) == NearestTo(F, n)
<1>1. /\ w \in 4 .. 2 * Bits /\ w \in Nat /\ P \in Nat /\ P >= 16 /\ f \in Nat
      /\ 2 * LowestInt(W) = -P /\ 2 * HighestInt(W) = P - 2
  BY RangeIs, FormatsAre
<1>2. P = 2^w
  OBVIOUS
<1> HIDE DEF w
<1>3. /\ N(P) = P /\ N(P + 1) = (IF f < w THEN P ELSE P + 1)
      /\ N(P + 2) = (IF f + 1 < w THEN P ELSE P + 2)
  BY <1>1, <1>2, NearestAbove
<1>4. /\ N(P - 1) \in {P - 1, P} /\ (N(P - 1) = P => f + 1 < w)
      /\ N(P - 2) \in {P - 2, P} /\ (N(P - 2) = P => f + 2 < w)
  BY <1>1, <1>2, NearestBelow
<1>5. N(-P) = -N(P) /\ N(-P - 1) = -N(P + 1) /\ N(-P - 2) = -N(P + 2)
  <2>1. /\ P \in Nat \ {0} /\ P + 1 \in Nat \ {0} /\ P + 2 \in Nat \ {0}
        /\ -P \in Int /\ -P - 1 \in Int /\ -P - 2 \in Int
        /\ -P - 1 = -(P + 1) /\ -P - 2 = -(P + 2)
    BY <1>1
  <2> QED
    BY <2>1, NearestNegated
<1> HIDE DEF N, f
<1>6. /\ BelowOf(F, W, 0) = N(N(-P) - 0) /\ BelowOf(F, W, 1) = N(N(-P) - 1)
      /\ BelowOf(F, W, 2) = N(N(-P) - 2) /\ AboveOf(F, W, 0) = N(N(P - 2) + 0)
      /\ AboveOf(F, W, 1) = N(N(P - 2) + 1) /\ AboveOf(F, W, 2) = N(N(P - 2) + 2)
  BY <1>1 DEF BelowOf, AboveOf, N
<1>7. /\ BelowOf(F, W, 0) = -P /\ BelowOf(F, W, 1) = (IF f < w THEN -P ELSE -P - 1)
      /\ BelowOf(F, W, 2) = (IF f + 1 < w THEN -P ELSE -P - 2)
  <2>1. N(-P) = -P /\ -P - 0 = -P
    BY <1>1, <1>3, <1>5
  <2>2. BelowOf(F, W, 0) = -P
    BY <1>6, <2>1
  <2>3. BelowOf(F, W, 1) = -N(P + 1) /\ BelowOf(F, W, 2) = -N(P + 2)
    BY <1>5, <1>6, <2>1
  <2>4. -(P + 1) = -P - 1 /\ -(P + 2) = -P - 2
    BY <1>1
  <2> QED
    BY <1>3, <2>2, <2>3, <2>4
<1>8. CASE N(P - 2) = P - 2
  <2>1. (P - 2) + 0 = P - 2 /\ (P - 2) + 1 = P - 1 /\ (P - 2) + 2 = P /\ P - 2 # P
    BY <1>1
  <2>2. /\ AboveOf(F, W, 0) = P - 2 /\ AboveOf(F, W, 1) = N(P - 1)
        /\ AboveOf(F, W, 2) = P
    BY <1>3, <1>6, <1>8, <2>1
  <2> QED
    BY <1>4, <1>7, <2>1, <2>2 DEF f, w
<1>9. CASE N(P - 2) = P
  <2>1. P + 0 = P /\ f < w /\ f + 1 < w /\ f + 2 < w
    BY <1>1, <1>4, <1>9
  <2>2. AboveOf(F, W, 0) = P /\ AboveOf(F, W, 1) = P /\ AboveOf(F, W, 2) = P
    BY <1>3, <1>6, <1>9, <2>1
  <2> QED
    BY <1>7, <2>1, <2>2 DEF f, w
<1> QED
  BY <1>4, <1>8, <1>9

(* The handlers compute with the same numbers. *)
LEMMA SharedTwices ==
    ASSUME NEW F, NEW x
    PROVE  /\ CI!TwiceDown(F, x) = TwiceDown(F, x) /\ CI!TwiceUp(F, x) = TwiceUp(F, x)
           /\ CI!Negated(F, x) = Negated(F, x)
<1>1. CI!TwiceDownOf = TwiceDownOf
  BY Zenon DEF CI!TwiceDownOf, TwiceDownOf, CI!Formats, Formats, CI!Single, Single, CI!Double,
     Double, CI!Significand, Significand, CI!Scale, Scale, CI!IsNegative, IsNegative,
     CI!SignBit, SignBit, CI!Fraction, Fraction, CI!Exponent, Exponent, CI!Absolute, Absolute,
     CI!FractionBits, FractionBits
<1>2. CI!Negated(F, x) = Negated(F, x)
  BY Zenon DEF CI!Negated, Negated, CI!SignBit, SignBit
<1>3. CI!TwiceDown(F, x) = TwiceDown(F, x)
  BY <1>1, Zenon DEF CI!TwiceDown, TwiceDown
<1>4. CI!TwiceDown(F, Negated(F, x)) = TwiceDown(F, Negated(F, x))
  BY <1>1, Zenon DEF CI!TwiceDown, TwiceDown
<1> QED
  BY <1>2, <1>3, <1>4, Zenon DEF CI!TwiceUp, TwiceUp

(* The handlers round as the properties do. *)
LEMMA SharedIntegers ==
    ASSUME NEW F, NEW x, NEW how
    PROVE  /\ CI!ToInteger(F, x, how) = IntegerOf(F, x, how)
           /\ CI!Floor(F, x) = Floor(F, x) /\ CI!Ceiling(F, x) = Ceiling(F, x)
           /\ CI!Truncated(F, x) = Truncated(F, x)
           /\ CI!IsInteger(F, x) <=> IsInteger(F, x)
<1>1. CI!Floor(F, x) = Floor(F, x)
  BY SharedTwices, Zenon DEF CI!Floor, Floor
<1>2. CI!Floor(F, Negated(F, x)) = Floor(F, Negated(F, x))
  BY SharedTwices, Zenon DEF CI!Floor, Floor
<1>3. CI!Ceiling(F, x) = Ceiling(F, x)
  BY <1>2, SharedTwices, Zenon DEF CI!Ceiling, Ceiling
<1>4. CI!IsNegative(F, x) <=> IsNegative(F, x)
  BY SharedSigns, Zenon
<1>5. CI!Truncated(F, x) = Truncated(F, x)
  BY <1>1, <1>3, <1>4, Zenon DEF CI!Truncated, Truncated
<1>6. CI!Rounded(F, x) = Rounded(F, x)
  BY <1>4, SharedTwices, Zenon DEF CI!Rounded, Rounded
<1>7. CI!IsInteger(F, x) <=> IsInteger(F, x)
  BY <1>1, <1>3, Zenon DEF CI!IsInteger, IsInteger
<1>8. CI!ToInteger(F, x, how) = IntegerOf(F, x, how)
  BY <1>1, <1>3, <1>5, <1>6, Zenon DEF CI!ToInteger, IntegerOf
<1> QED
  BY <1>1, <1>3, <1>5, <1>7, <1>8

(* The handlers compare a number with those bounds. *)
LEMMA SharedLimits ==
    ASSUME NEW F, NEW W, NEW x, NEW how
    PROVE  /\ CI!LowestInt(W) = LowestInt(W) /\ CI!HighestInt(W) = HighestInt(W)
           /\ CI!SignBit(W) = SignBit(W)
           /\ how = "nearest" =>
                (CI!OutOfRange(F, W, x, how) <=> \/ TwiceUp(F, x) <= BelowOf(F, W, 1)
                                                 \/ TwiceDown(F, x) >= AboveOf(F, W, 1))
           /\ how = "up" =>
                (CI!OutOfRange(F, W, x, how) <=> \/ TwiceUp(F, x) <= BelowOf(F, W, 2)
                                                 \/ TwiceUp(F, x) > AboveOf(F, W, 0))
           /\ how = "down" =>
                (CI!OutOfRange(F, W, x, how) <=> \/ TwiceDown(F, x) < BelowOf(F, W, 0)
                                                 \/ TwiceDown(F, x) >= AboveOf(F, W, 2))
           /\ how = "zero" =>
                (CI!OutOfRange(F, W, x, how) <=> \/ TwiceUp(F, x) <= BelowOf(F, W, 2)
                                                 \/ TwiceDown(F, x) >= AboveOf(F, W, 2))
<1>1. /\ CI!LowestInt(W) = LowestInt(W) /\ CI!HighestInt(W) = HighestInt(W)
      /\ CI!SignBit(W) = SignBit(W)
  BY Zenon DEF CI!LowestInt, LowestInt, CI!HighestInt, HighestInt, CI!SignBit, SignBit
<1>2. \A n : CI!NearestTo(F, n) = NearestTo(F, n)
  <2>1. \A n : CI!SpacingOf(F, n) = SpacingOf(F, n)
    <3>1. CI!FractionBits(F) = FractionBits(F)
      BY Zenon DEF CI!FractionBits, FractionBits
    <3> QED
      BY <3>1, Zenon DEF CI!SpacingOf, SpacingOf
  <2>2. \A n, d : CI!NearestMultiple(n, d) = NearestMultiple(n, d)
    BY Zenon DEF CI!NearestMultiple, NearestMultiple
  <2>3. \A n : CI!Magnitude(n) = Magnitude(n)
    BY Zenon DEF CI!Magnitude, Magnitude
  <2>4. ASSUME NEW n PROVE CI!NearestTo(F, n) = NearestTo(F, n)
    <3> DEFINE m == Magnitude(n)
               s == SpacingOf(F, m)
               nearest == NearestMultiple(m, s)
    <3>1. CI!Magnitude(n) = m /\ CI!SpacingOf(F, m) = s /\ CI!NearestMultiple(m, s) = nearest
      BY <2>1, <2>2, <2>3, Zenon
    <3>2. NearestTo(F, n) = IF n < 0 THEN -nearest ELSE nearest
      BY Zenon DEF NearestTo
    <3> HIDE DEF m, s, nearest
    <3>3. CI!NearestTo(F, n) = IF n < 0 THEN -nearest ELSE nearest
      BY <3>1, Zenon DEF CI!NearestTo
    <3> QED
      BY <3>2, <3>3, Zenon
  <2> QED
    BY <2>4
<1>3. CI!TwiceDown(F, x) = TwiceDown(F, x) /\ CI!TwiceUp(F, x) = TwiceUp(F, x)
  BY SharedTwices
<1>4. \A d : /\ CI!NearestTo(F, CI!NearestTo(F, 2 * CI!LowestInt(W)) - d) = BelowOf(F, W, d)
             /\ CI!NearestTo(F, CI!NearestTo(F, 2 * CI!HighestInt(W)) + d) = AboveOf(F, W, d)
  BY <1>1, <1>2, Zenon DEF BelowOf, AboveOf
<1>5. /\ "nearest" # "up" /\ "nearest" # "down" /\ "up" # "down" /\ "zero" # "nearest"
      /\ "zero" # "up" /\ "zero" # "down"
  OBVIOUS
<1>6. ASSUME how = "nearest"
      PROVE  CI!OutOfRange(F, W, x, how) <=>
                \/ TwiceUp(F, x) <= BelowOf(F, W, 1) \/ TwiceDown(F, x) >= AboveOf(F, W, 1)
  BY <1>3, <1>4, <1>5, <1>6, Zenon DEF CI!OutOfRange
<1>7. ASSUME how = "up"
      PROVE  CI!OutOfRange(F, W, x, how) <=>
                \/ TwiceUp(F, x) <= BelowOf(F, W, 2) \/ TwiceUp(F, x) > AboveOf(F, W, 0)
  BY <1>3, <1>4, <1>5, <1>7, Zenon DEF CI!OutOfRange
<1>8. ASSUME how = "down"
      PROVE  CI!OutOfRange(F, W, x, how) <=>
                \/ TwiceDown(F, x) < BelowOf(F, W, 0) \/ TwiceDown(F, x) >= AboveOf(F, W, 2)
  BY <1>3, <1>4, <1>5, <1>8, Zenon DEF CI!OutOfRange
<1>9. ASSUME how = "zero"
      PROVE  CI!OutOfRange(F, W, x, how) <=>
                \/ TwiceUp(F, x) <= BelowOf(F, W, 2) \/ TwiceDown(F, x) >= AboveOf(F, W, 2)
  BY <1>3, <1>4, <1>5, <1>9, Zenon DEF CI!OutOfRange
<1> QED
  BY <1>1, <1>6, <1>7, <1>8, <1>9

(* What lies outside, by modes *)
LEMMA OutsideHalves ==
    ASSUME NEW F, NEW W, NEW x, NEW how
    PROVE  LET out == IsOutside(F, W, x, how)
               U == TwiceUp(F, x)
               D == TwiceDown(F, x)
               low == 2 * LowestInt(W)
               high == 2 * HighestInt(W)
           IN  /\ how = "nearest" => (out <=> U <= low - 1 \/ D >= high + 1)
               /\ how = "up" => (out <=> U <= low - 2 \/ U > high)
               /\ how = "down" => (out <=> D < low \/ D >= high + 2)
               /\ how = "zero" => (out <=> U <= low - 2 \/ D >= high + 2)
<1>1. /\ "nearest" # "up" /\ "nearest" # "down" /\ "up" # "down" /\ "zero" # "nearest"
      /\ "zero" # "up" /\ "zero" # "down"
  OBVIOUS
<1>2. CASE how = "nearest"
  BY <1>1, <1>2, Zenon DEF IsOutside
<1>3. CASE how = "up"
  BY <1>1, <1>3, Zenon DEF IsOutside
<1>4. CASE how = "down"
  BY <1>1, <1>4, Zenon DEF IsOutside
<1>5. CASE how = "zero"
  BY <1>1, <1>5, Zenon DEF IsOutside
<1> QED
  BY <1>2, <1>3, <1>4, <1>5, Zenon

(* The test refuses what lies outside, but for the two named numbers. *)
LEMMA RangeTested ==
    ASSUME PowersOfTwo, NEW F \in Formats, NEW W \in Formats, NEW x \in 0 .. 2 * SignBit(F) - 1,
           NEW how \in Ways4, NEW h, ~h.traps, NEW out, out = CI!OutOfRange(F, W, x, how)
    PROVE  \/ out <=> IsOutside(F, W, x, how)
           \/ LowestRefused(F, W, x, h, how) /\ out /\ ~IsOutside(F, W, x, how)
           \/ HighestTaken(F, W, x, h, how) /\ ~out
<1> DEFINE w == W.width
           P == 2^w
           D == TwiceDown(F, x)
           U == TwiceUp(F, x)
           f == FractionBits(F)
           outside == IsOutside(F, W, x, how)
<1>1. /\ D \in Int /\ U \in Int /\ D <= U /\ U <= D + 1
      /\ IsNegative(F, x) => U <= 0
      /\ ~IsNegative(F, x) => D >= 0
      /\ TwiceDown(F, Negated(F, x)) = -U
  BY TwicesAre
<1>2. /\ P \in Nat /\ P >= 16 /\ 2 * LowestInt(W) = -P /\ 2 * HighestInt(W) = P - 2
      /\ P = 2 * SignBit(W) /\ w \in Nat /\ w >= 4
  BY RangeIs
<1>3. /\ BelowOf(F, W, 0) = -P /\ BelowOf(F, W, 1) = (IF f < w THEN -P ELSE -P - 1)
      /\ BelowOf(F, W, 2) = (IF f + 1 < w THEN -P ELSE -P - 2)
      /\ AboveOf(F, W, 0) \in {P - 2, P} /\ (AboveOf(F, W, 0) = P => f + 2 < w)
      /\ AboveOf(F, W, 1) \in {P - 1, P} /\ (AboveOf(F, W, 1) = P => f + 1 < w)
      /\ AboveOf(F, W, 2) = P
  BY LimitsAre
<1>4. /\ how = "nearest" => (out <=> U <= BelowOf(F, W, 1) \/ D >= AboveOf(F, W, 1))
      /\ how = "up" => (out <=> U <= BelowOf(F, W, 2) \/ U > AboveOf(F, W, 0))
      /\ how = "down" => (out <=> D < BelowOf(F, W, 0) \/ D >= AboveOf(F, W, 2))
      /\ how = "zero" => (out <=> U <= BelowOf(F, W, 2) \/ D >= AboveOf(F, W, 2))
  BY SharedLimits, Zenon
<1>5. /\ how = "nearest" => (outside <=> U <= -P - 1 \/ D >= P - 2 + 1)
      /\ how = "up" => (outside <=> U <= -P - 2 \/ U > P - 2)
      /\ how = "down" => (outside <=> D < -P \/ D >= P - 2 + 2)
      /\ how = "zero" => (outside <=> U <= -P - 2 \/ D >= P - 2 + 2)
  BY <1>2, OutsideHalves
<1>6. f \in Nat
  BY FormatsAre
<1>7. PICK g \in Nat : P = 2 * g /\ 2^(w - 1) = g
  BY <1>2, PowerBetween
<1>8. ASSUME f + 1 < w, D >= P - 2 PROVE \E m \in Int : D = 2 * m /\ U = 2 * m
  <2>1. D >= 2^(w - 1) /\ ~IsNegative(F, x)
    BY <1>1, <1>2, <1>7, <1>8
  <2>2. f + 1 <= w - 1
    BY <1>2, <1>6, <1>8
  <2> QED
    BY <1>2, <2>1, <2>2, LargeAreEven
<1>9. ASSUME f + 1 < w, U = -P - 1 PROVE FALSE
  <2> DEFINE y == Negated(F, x)
  <2>1. y \in 0 .. 2 * SignBit(F) - 1 /\ ~IsNegative(F, y)
    BY <1>1, <1>2, <1>9, NegatedIs
  <2>2. TwiceDown(F, y) = P + 1
    BY <1>1, <1>2, <1>9
  <2>3. TwiceDown(F, y) >= 2^(w - 1) /\ f + 1 <= w - 1
    BY <1>2, <1>6, <1>7, <1>9, <2>2
  <2> HIDE DEF y
  <2>4. PICK m \in Int : TwiceDown(F, y) = 2 * m
    BY <1>2, <2>1, <2>3, LargeAreEven
  <2> QED
    BY <1>7, <2>2, <2>4
<1>10. /\ LowestRefused(F, W, x, h, how) <=>
             /\ f < w /\ U = -P
             /\ how = "nearest" \/ (how \in {"up", "zero"} /\ f + 1 < w)
       /\ HighestTaken(F, W, x, h, how) <=> how = "up" /\ f + 2 < w /\ U = P
  BY <1>2, Zenon DEF LowestRefused, HighestTaken
<1> HIDE DEF w, P, D, U, f, outside
<1>11. CASE how = "nearest"
  <2>1. D = P - 1 => ~(f + 1 < w)
    <3>1. ASSUME D = P - 1, f + 1 < w PROVE FALSE
      <4>1. PICK m \in Int : D = 2 * m
        BY <1>2, <1>8, <3>1
      <4> QED
        BY <1>7, <3>1, <4>1
    <3> QED
      BY <3>1
  <2> QED
    BY <1>1, <1>2, <1>3, <1>4, <1>5, <1>10, <1>11, <2>1 DEF outside
<1>12. CASE how = "up"
  <2>1. U = P - 1 => ~(f + 2 < w)
    <3>1. ASSUME U = P - 1, f + 2 < w PROVE FALSE
      <4>1. D >= P - 2 /\ f + 1 < w
        BY <1>1, <1>2, <1>6, <3>1 DEF w
      <4>2. PICK m \in Int : U = 2 * m
        BY <1>8, <4>1
      <4> QED
        BY <1>7, <3>1, <4>2
    <3> QED
      BY <3>1
  <2> QED
    BY <1>1, <1>2, <1>3, <1>4, <1>5, <1>6, <1>9, <1>10, <1>12, <2>1 DEF outside
<1>13. CASE how = "down"
  BY <1>1, <1>2, <1>3, <1>4, <1>5, <1>13 DEF outside
<1>14. CASE how = "zero"
  BY <1>1, <1>2, <1>3, <1>4, <1>5, <1>6, <1>9, <1>10, <1>14 DEF outside
<1> QED
  BY <1>11, <1>12, <1>13, <1>14 DEF Ways4

(* A number lies outside when the integer that the mode makes of it does not *)
(* fit.                                                                      *)
LEMMA OutsideIs ==
    ASSUME PowersOfTwo, NEW F \in Formats, NEW W \in Formats, NEW x \in 0 .. 2 * SignBit(F) - 1,
           NEW how \in Ways4, NEW n, n = IntegerOf(F, x, how)
    PROVE  IsOutside(F, W, x, how) <=> ~(LowestInt(W) <= n /\ n <= HighestInt(W))
<1> DEFINE P == 2^W.width
           D == TwiceDown(F, x)
           U == TwiceUp(F, x)
           L == LowestInt(W)
           H == HighestInt(W)
           negative == IsNegative(F, x)
           outside == IsOutside(F, W, x, how)
<1>1. /\ D \in Int /\ U \in Int /\ D <= U /\ U <= D + 1
      /\ negative => U <= 0
      /\ ~negative => D >= 0
  BY TwicesAre
<1>2. P \in Nat /\ P >= 16 /\ L \in Int /\ 2 * L = -P /\ H \in Int /\ 2 * H = P - 2
  BY RangeIs
<1>3. /\ n \in Int
      /\ how = "down" => 2 * n <= D /\ D <= 2 * n + 1
      /\ how = "up" => U <= 2 * n /\ 2 * n <= U + 1
      /\ how = "zero" /\ negative => U <= 2 * n /\ 2 * n <= U + 1
      /\ how = "zero" /\ ~negative => 2 * n <= D /\ D <= 2 * n + 1
      /\ how = "nearest" /\ negative => 2 * n <= U /\ U <= 2 * n + 1
      /\ how = "nearest" /\ ~negative => 2 * n - 1 <= D /\ D <= 2 * n
  BY IntegersAre
<1>4. /\ how = "nearest" => (outside <=> U <= 2 * L - 1 \/ D >= 2 * H + 1)
      /\ how = "up" => (outside <=> U <= 2 * L - 2 \/ U > 2 * H)
      /\ how = "down" => (outside <=> D < 2 * L \/ D >= 2 * H + 2)
      /\ how = "zero" => (outside <=> U <= 2 * L - 2 \/ D >= 2 * H + 2)
  BY OutsideHalves
<1> HIDE DEF P, D, U, L, H, negative, outside
<1>5. CASE how = "nearest"
  BY <1>1, <1>2, <1>3, <1>4, <1>5 DEF outside, L, H
<1>6. CASE how = "up"
  BY <1>1, <1>2, <1>3, <1>4, <1>6 DEF outside, L, H
<1>7. CASE how = "down"
  BY <1>1, <1>2, <1>3, <1>4, <1>7 DEF outside, L, H
<1>8. CASE how = "zero"
  BY <1>1, <1>2, <1>3, <1>4, <1>8 DEF outside, L, H
<1> QED
  BY <1>5, <1>6, <1>7, <1>8 DEF Ways4

(* An integer that fits is what is read of the word written for it. *)
LEMMA IntegersReadBack ==
    ASSUME PowersOfTwo, NEW W \in Formats, NEW n \in Int,
           LowestInt(W) <= n, n <= HighestInt(W)
    PROVE  n % (2 * SignBit(W)) \in Int /\ AsInteger(W, n % (2 * SignBit(W))) = n
<1> DEFINE s == SignBit(W)
           d == 2 * s
<1>1. s \in Nat \ {0} /\ d \in Nat \ {0} /\ -s <= n /\ n <= s - 1
  BY FormatsAre DEF LowestInt, HighestInt
<1>2. CASE n >= 0
  <2>1. 0 \in Int /\ n \in 0 .. d - 1 /\ n = d * 0 + n
    BY <1>1, <1>2
  <2> HIDE DEF d
  <2>2. n % d = n
    BY <1>1, <2>1, QuotientUnique
  <2>3. ~(n >= SignBit(W))
    BY <1>1
  <2> QED
    BY <2>2, <2>3 DEF AsInteger, d
<1>3. CASE n < 0
  <2>1. -1 \in Int /\ n + d \in 0 .. d - 1 /\ n = d * (-1) + (n + d) /\ n + d >= s
    BY <1>1, <1>3
  <2>2. d = 2 * s
    OBVIOUS
  <2> HIDE DEF d
  <2>3. n % d = n + d
    BY <1>1, <2>1, QuotientUnique
  <2>4. AsInteger(W, n + d) = (n + d) - d
    BY <2>1, <2>2 DEF AsInteger
  <2>5. (n + d) - d = n
    BY <1>1
  <2> QED
    BY <1>1, <2>2, <2>3, <2>4, <2>5
<1> QED
  BY <1>1, <1>2, <1>3

(* What is read of an integer that is written *)
LEMMA IntegerWritten ==
    ASSUME PowersOfTwo, NEW W \in Formats, NEW f \in [FRegister -> Word \X Word],
           NEW mode, NEW flags, NEW enables, NEW cause, NEW raw, NEW clocks, NEW u,
           u = UnitWith(f, mode, flags, enables, cause, raw, clocks), NEW d \in FRegister,
           NEW n \in Int, LowestInt(W) <= n, n <= HighestInt(W),
           NEW e, e = CI!Done(CI!SetInt(u, W, d, n))
    PROVE  /\ e.out = <<"next">> /\ e.fpu.flags = flags
           /\ AsInteger(W, CI!Get(e.fpu, W, d)) = n
<1> DEFINE m == n % (2 * SignBit(W))
<1>1. m \in Int /\ AsInteger(W, m) = n
  BY IntegersReadBack
<1>2. CI!SetInt(u, W, d, n) = CI!Set(u, W, d, m)
  BY SharedLimits, Zenon DEF CI!SetInt
<1> HIDE DEF m
<1>3. e.out = <<"next">> /\ e.fpu = CI!Set(u, W, d, m)
  BY <1>2 DEF CI!Done
<1>4. CI!Get(e.fpu, W, d) = m /\ e.fpu.flags = u.flags
  BY <1>1, <1>3, GetsWhatIsSet
<1>5. u.flags = flags
  BY PartsAre
<1> QED
  BY <1>1, <1>3, <1>4, <1>5

(* The unit that a rounding writes to *)
LEMMA FlaggedIs ==
    ASSUME NEW f, NEW mode, NEW flags, NEW enables, NEW cause, NEW raw, NEW clocks, NEW u,
           u = UnitWith(f, mode, flags, enables, cause, raw, clocks)
    PROVE  /\ CI!ClearCause(u) = UnitWith(f, mode, flags, enables, {}, raw, clocks)
           /\ CI!SetFlag(CI!ClearCause(u), "InvalidOp")
                = UnitWith(f, mode, flags \cup {"InvalidOp"}, enables, {}, raw, clocks)
<1> DEFINE a == CI!ClearCause(u)
<1>1. a = UnitWith(f, mode, flags, enables, {}, raw, clocks)
  BY DEF CI!ClearCause, UnitWith
<1> HIDE DEF a
<1>2. CI!SetFlag(a, "InvalidOp")
          = UnitWith(f, mode, flags \cup {"InvalidOp"}, enables, {}, raw, clocks)
  BY <1>1 DEF CI!SetFlag, UnitWith
<1> QED
  BY <1>1, <1>2 DEF a

(* The limit of the side of the number, or the zero of a NaN, fits. *)
LEMMA SaturatedIs ==
    ASSUME PowersOfTwo, NEW F, NEW W \in Formats, NEW x
    PROVE  /\ CI!Saturated(F, W, x) = Limit(F, W, x)
           /\ Limit(F, W, x) \in Int
           /\ LowestInt(W) <= Limit(F, W, x) /\ Limit(F, W, x) <= HighestInt(W)
<1>1. CI!IsNaN(F, x) <=> IsNaN(F, x)
  BY SharedNumbers, Zenon
<1>2. CI!IsNegative(F, x) <=> IsNegative(F, x)
  BY SharedSigns, Zenon
<1>3. CI!LowestInt(W) = LowestInt(W) /\ CI!HighestInt(W) = HighestInt(W)
  BY SharedLimits, Zenon
<1>4. CI!Saturated(F, W, x) = Limit(F, W, x)
  BY <1>1, <1>2, <1>3, Zenon DEF CI!Saturated, Limit
<1>5. /\ LowestInt(W) \in Int /\ HighestInt(W) \in Int
      /\ LowestInt(W) <= 0 /\ 0 <= HighestInt(W)
  BY FormatsAre DEF LowestInt, HighestInt
<1>6. Limit(F, W, x) \in {0, LowestInt(W), HighestInt(W)}
  BY Zenon DEF Limit
<1> QED
  BY <1>4, <1>5, <1>6

(* Writing a register leaves the flags, and does not raise. *)
LEMMA SetKeepsFlags ==
    ASSUME NEW f, NEW mode, NEW flags, NEW enables, NEW cause, NEW raw, NEW clocks, NEW u,
           u = UnitWith(f, mode, flags, enables, cause, raw, clocks), NEW F, NEW d, NEW z
    PROVE  LET e == CI!Done(CI!Set(u, F, d, z)) IN e.fpu.flags = flags /\ e.out = <<"next">>
<1> DEFINE a == CI!Set(u, F, d, z)
<1>1. a.flags = flags
  <2>1. CASE F = CI!Single
    BY <2>1 DEF CI!Set, CI!SetLow, UnitWith
  <2>2. CASE F # CI!Single
    BY <2>2 DEF CI!Set, UnitWith
  <2> QED
    BY <2>1, <2>2
<1> HIDE DEF a
<1> QED
  BY <1>1 DEF CI!Done, a

(* An instruction that refuses, and one that writes an integer that fits *)
LEMMA AnswersMade ==
    ASSUME PowersOfTwo, NEW F, NEW W \in Formats, NEW x, NEW how,
           NEW f \in [FRegister -> Word \X Word],
           NEW mode, NEW flags, NEW enables, NEW cause, NEW raw, NEW clocks, NEW u,
           u = UnitWith(f, mode, flags, enables, cause, raw, clocks),
           NEW d \in FRegister, NEW m \in Int, IsRounded(F, x, m, how)
    PROVE  LET a == CI!ClearCause(u)
               b == CI!SetFlag(CI!ClearCause(u), "InvalidOp")
               Leads(e, refused) == Answers(F, W, x, AsInteger(W, CI!Get(e.fpu, W, d)), how,
                                            refused, u, e.fpu.flags, e.out)
           IN  /\ "InvalidOp" \in enables => Leads(CI!Throws(b, "FPE"), TRUE)
               /\ "InvalidOp" \notin enables =>
                     Leads(CI!Done(CI!SetInt(b, W, d, Limit(F, W, x))), TRUE)
               /\ LowestInt(W) <= m /\ m <= HighestInt(W) =>
                     Leads(CI!Done(CI!SetInt(a, W, d, m)), FALSE)
<1> DEFINE a == CI!ClearCause(u)
           b == CI!SetFlag(CI!ClearCause(u), "InvalidOp")
           n(e) == AsInteger(W, CI!Get(e.fpu, W, d))
           thrown == CI!Throws(b, "FPE")
           limited == CI!Done(CI!SetInt(b, W, d, Limit(F, W, x)))
           written == CI!Done(CI!SetInt(a, W, d, m))
<1>1. u.flags = flags /\ u.enables = enables
  BY PartsAre
<1>2. /\ a = UnitWith(f, mode, flags, enables, {}, raw, clocks)
      /\ b = UnitWith(f, mode, flags \cup {"InvalidOp"}, enables, {}, raw, clocks)
  BY FlaggedIs
<1> HIDE DEF a, b
<1>3. <<"raise", "FPE">> # <<"next">>
  OBVIOUS
<1>4. ASSUME "InvalidOp" \in enables
      PROVE  Answers(F, W, x, n(thrown), how, TRUE, u, thrown.fpu.flags, thrown.out)
  <2>1. b.flags = flags \cup {"InvalidOp"}
    BY <1>2, PartsAre
  <2>2. thrown.fpu.flags = flags \cup {"InvalidOp"} /\ thrown.out = <<"raise", "FPE">>
    BY <2>1 DEF CI!Throws
  <2> QED
    BY <1>1, <1>3, <1>4, <2>2, Zenon DEF Answers
<1>5. ASSUME "InvalidOp" \notin enables
      PROVE  Answers(F, W, x, n(limited), how, TRUE, u, limited.fpu.flags, limited.out)
  <2>1. /\ Limit(F, W, x) \in Int /\ LowestInt(W) <= Limit(F, W, x)
        /\ Limit(F, W, x) <= HighestInt(W)
    BY SaturatedIs
  <2>2. /\ limited.out = <<"next">> /\ limited.fpu.flags = flags \cup {"InvalidOp"}
        /\ n(limited) = Limit(F, W, x)
    BY <1>2, <2>1, IntegerWritten
  <2> QED
    BY <1>1, <1>5, <2>2, Zenon DEF Answers
<1>6. ASSUME LowestInt(W) <= m, m <= HighestInt(W)
      PROVE  Answers(F, W, x, n(written), how, FALSE, u, written.fpu.flags, written.out)
  <2>1. written.out = <<"next">> /\ written.fpu.flags = flags /\ n(written) = m
    BY <1>2, <1>6, IntegerWritten
  <2>2. flags = flags \cup {}
    OBVIOUS
  <2> QED
    BY <1>1, <2>1, <2>2, Zenon DEF Answers
<1> QED
  BY <1>4, <1>5, <1>6, Zenon DEF a, b

(* What is asked of the handler of roundings: e is how it ends from u. *)
RoundedWell(F, W, x, how, i, h, u, e) ==
    LET Answered(yes) == Answers(F, W, x, AsInteger(W, CI!Get(e.fpu, W, i.fd)), how,
                                 yes, u, e.fpu.flags, e.out)
    IN  \/ (~IsFinite(F, x) \/ IsOutside(F, W, x, how)) /\ Answered(TRUE)
        \/ ~(~IsFinite(F, x) \/ IsOutside(F, W, x, how)) /\ Answered(FALSE)
        \/ IsFinite(F, x) /\ LowestRefused(F, W, x, h, how) /\ Answered(TRUE)
        \/ /\ IsFinite(F, x) /\ HighestTaken(F, W, x, h, how)
           /\ e.fpu.flags = u.flags /\ e.out = <<"next">>

(* The handler of roundings answers as it should, but for two numbers. *)
LEMMA RoundedAsAsked ==
    ASSUME PowersOfTwo, NEW F \in Formats, NEW W \in Formats, NEW how \in Ways4,
           NEW f \in [FRegister -> Word \X Word],
           NEW mode, NEW flags, NEW enables, NEW cause, NEW raw, NEW clocks, NEW u,
           u = UnitWith(f, mode, flags, enables, cause, raw, clocks),
           NEW i, i.fs \in FRegister, i.fd \in FRegister, NEW x, x = CI!Get(u, F, i.fs),
           NEW h, NEW o
    PROVE  RoundedWell(F, W, x, how, i, h, u, CI!Round(u, F, W, how, i, h, o))
<1> DEFINE e == CI!Round(u, F, W, how, i, h, o)
           n == AsInteger(W, CI!Get(e.fpu, W, i.fd))
           right == Answers(F, W, x, n, how, TRUE, u, e.fpu.flags, e.out)
           asked == Answers(F, W, x, n, how, FALSE, u, e.fpu.flags, e.out)
           a == CI!ClearCause(u)
           b == CI!SetFlag(CI!ClearCause(u), "InvalidOp")
           m == IntegerOf(F, x, how)
           k == Limit(F, W, x)
           fits == IsFinite(F, x) /\ LowestInt(W) <= m /\ m <= HighestInt(W)
           out == CI!OutOfRange(F, W, x, how)
           refused == IF h.traps THEN ~fits ELSE ~IsFinite(F, x) \/ out
<1>1. u.f = f /\ u.enables = enables /\ u.flags = flags
  BY PartsAre
<1> SUFFICES \/ (~IsFinite(F, x) \/ IsOutside(F, W, x, how)) /\ right
             \/ ~(~IsFinite(F, x) \/ IsOutside(F, W, x, how)) /\ asked
             \/ IsFinite(F, x) /\ LowestRefused(F, W, x, h, how) /\ right
             \/ /\ IsFinite(F, x) /\ HighestTaken(F, W, x, h, how)
                /\ e.fpu.flags = flags /\ e.out = <<"next">>
  BY <1>1, Zenon DEF RoundedWell
<1>2. x \in 0 .. 2 * SignBit(F) - 1
  BY <1>1, RegistersAre
<1>3. m \in Int /\ IsRounded(F, x, m, how)
  BY <1>2, IntegersAre
<1>4. CI!Saturated(F, W, x) = k
  BY SaturatedIs
<1>5. /\ CI!IsFinite(F, x) <=> IsFinite(F, x)
      /\ CI!ToInteger(F, x, how) = m
      /\ CI!Fits(W, m) <=> LowestInt(W) <= m /\ m <= HighestInt(W)
  BY SharedSigns, SharedIntegers, SharedLimits, Zenon DEF CI!Fits
<1>6. /\ refused /\ "InvalidOp" \in u.enables => e = CI!Throws(b, "FPE")
      /\ refused /\ "InvalidOp" \notin u.enables => e = CI!Done(CI!SetInt(b, W, i.fd, k))
      /\ ~refused => e = CI!Done(CI!SetInt(a, W, i.fd, IF fits THEN m ELSE o.value))
  <2> HIDE DEF m, k, out
  <2>1. CI!OutOfRange(F, W, x, how) = out
    BY DEF out
  <2> DEFINE handled(yes, no) ==
                CASE yes /\ "InvalidOp" \in u.enables -> CI!Throws(b, "FPE")
                  [] yes /\ "InvalidOp" \notin u.enables -> CI!Done(CI!SetInt(b, W, i.fd, k))
                  [] OTHER -> CI!Done(CI!SetInt(a, W, i.fd, IF no THEN m ELSE o.value))
  <2>2. e = handled(refused, fits)
    BY <1>4, <1>5, <2>1, Zenon DEF CI!Round
  <2> HIDE DEF a, b, refused, fits
  <2> QED
    BY <2>2
<1>7. IsOutside(F, W, x, how) <=> ~(LowestInt(W) <= m /\ m <= HighestInt(W))
  BY <1>2, OutsideIs
<1>8. ~h.traps => \/ out <=> IsOutside(F, W, x, how)
                  \/ LowestRefused(F, W, x, h, how) /\ out /\ ~IsOutside(F, W, x, how)
                  \/ HighestTaken(F, W, x, h, how) /\ ~out
  BY <1>2, RangeTested
<1>9. /\ "InvalidOp" \in enables /\ e = CI!Throws(b, "FPE") => right
      /\ "InvalidOp" \notin enables /\ e = CI!Done(CI!SetInt(b, W, i.fd, k)) => right
      /\ fits /\ e = CI!Done(CI!SetInt(a, W, i.fd, m)) => asked
  <2>1. /\ "InvalidOp" \in enables /\ e = CI!Throws(b, "FPE") => right
        /\ "InvalidOp" \notin enables /\ e = CI!Done(CI!SetInt(b, W, i.fd, k)) => right
        /\ LowestInt(W) <= m /\ m <= HighestInt(W) /\ e = CI!Done(CI!SetInt(a, W, i.fd, m)) =>
              asked
    <3> HIDE DEF m, e
    <3> QED
      BY <1>3, AnswersMade
  <2> QED
    BY <2>1
<1>10. /\ fits => IsFinite(F, x)
       /\ fits <=> IsFinite(F, x) /\ ~IsOutside(F, W, x, how)
  BY <1>7
<1>11. LET z == CI!Done(CI!SetInt(a, W, i.fd, o.value))
       IN  z.out = <<"next">> /\ z.fpu.flags = flags
  <2>1. a = UnitWith(f, mode, flags, enables, {}, raw, clocks)
    BY DEF CI!ClearCause, UnitWith
  <2> HIDE DEF a
  <2> QED
    BY <2>1, SetKeepsFlags DEF CI!SetInt
<1> HIDE DEF a, b, m, k, out
<1>13. CASE refused
  <2>1. right
    BY <1>1, <1>6, <1>9, <1>13
  <2>2. CASE h.traps
    BY <1>10, <1>13, <2>1, <2>2
  <2>3. CASE ~h.traps
    BY <1>8, <1>13, <2>1, <2>3
  <2> QED
    BY <2>2, <2>3
<1>14. CASE ~refused
  <2>1. CASE fits
    <3>1. e = CI!Done(CI!SetInt(a, W, i.fd, m))
      BY <1>6, <1>14, <2>1
    <3> QED
      BY <1>9, <1>10, <2>1, <3>1
  <2>2. CASE ~fits
    <3>1. ~h.traps /\ IsFinite(F, x) /\ ~out
      BY <1>14, <2>2
    <3>2. HighestTaken(F, W, x, h, how)
      BY <1>8, <1>10, <2>2, <3>1
    <3>3. e = CI!Done(CI!SetInt(a, W, i.fd, o.value))
      BY <1>6, <1>14, <2>2
    <3> QED
      BY <1>11, <3>1, <3>2, <3>3
  <2> QED
    BY <2>1, <2>2
<1> QED
  BY <1>13, <1>14

(* Where an integer of W lies in the zero that is written for a NaN *)
LEMMA ZeroWritten ==
    ASSUME PowersOfTwo, NEW F \in Formats, NEW W \in Formats, ~(F = Single /\ W = Double),
           NEW f \in [FRegister -> Word \X Word],
           NEW mode, NEW flags, NEW enables, NEW cause, NEW raw, NEW clocks, NEW u,
           u = UnitWith(f, mode, flags, enables, cause, raw, clocks), NEW d \in FRegister
    PROVE  AsInteger(W, CI!Get(CI!Set(u, F, d, 0), W, d)) = 0
<1>1. CI!Get(CI!Set(u, F, d, 0), W, d) = 0
  <2>1. CASE F = W
    BY <2>1, GetsWhatIsSet
  <2>2. CASE F # W
    <3>1. W = CI!Single /\ F # CI!Single
      BY <2>2 DEF Formats, CI!Single, Single
    <3>2. u.f = f
      BY PartsAre
    <3>3. CI!Set(u, F, d, 0) = [u EXCEPT !.f[d] = <<CI!Wrap(0), 0 \div 2^Bits>>]
      BY <3>1 DEF CI!Set
    <3>4. CI!Set(u, F, d, 0).f[d][1] = CI!Wrap(0)
      BY <3>2, <3>3 DEF UnitWith
    <3>5. CI!Wrap(0) = 0
      BY Sizes DEF CI!Wrap, Size
    <3> QED
      BY <3>1, <3>4, <3>5 DEF CI!Get
  <2> QED
    BY <2>1, <2>2
<1>2. ~(0 >= SignBit(W))
  BY RangeIs
<1> QED
  BY <1>1, <1>2 DEF AsInteger

(* What is asked of the handler of conversions *)
ConvertedWell(F, W, x, i, h, u, e) ==
    LET n == AsInteger(W, CI!Get(e.fpu, W, i.fd))
        refused == ~IsFinite(F, x) \/ IsOutside(F, W, x, "zero")
        Answered(yes) == Answers(F, W, x, n, "zero", yes, u, e.fpu.flags, e.out)
    IN  \/ refused /\ Answered(TRUE)
        \/ ~refused /\ Answered(FALSE)
        \/ SignalSeen(F, x, h) /\ (e.out = <<"next">> => n = Limit(F, W, x))
        \/ /\ HalfZero(F, W, x, h) /\ "InvalidOp" \in e.fpu.flags
           /\ e.out = <<"next">> => CI!Get(e.fpu, F, i.fd) = 0
        \/ ~h.traps /\ refused /\ e.fpu.flags = u.flags /\ e.out = <<"next">>

(* The handler of conversions answers as it should, but for three cases. *)
LEMMA ConvertedAsAsked ==
    ASSUME PowersOfTwo, NEW F \in Formats, NEW W \in Formats,
           NEW f \in [FRegister -> Word \X Word],
           NEW mode, NEW flags, NEW enables, NEW cause, NEW raw, NEW clocks, NEW u,
           u = UnitWith(f, mode, flags, enables, cause, raw, clocks),
           NEW i, i.fs \in FRegister, i.fd \in FRegister, NEW x, x = CI!Get(u, F, i.fs),
           NEW h, NEW o
    PROVE  ConvertedWell(F, W, x, i, h, u, CI!Convert(u, F, W, i, h, o))
<1> DEFINE e == CI!Convert(u, F, W, i, h, o)
           n == AsInteger(W, CI!Get(e.fpu, W, i.fd))
           right == Answers(F, W, x, n, "zero", TRUE, u, e.fpu.flags, e.out)
           asked == Answers(F, W, x, n, "zero", FALSE, u, e.fpu.flags, e.out)
           a == CI!ClearCause(u)
           m == IntegerOf(F, x, "zero")
           k == Limit(F, W, x)
           fits == IsFinite(F, x) /\ ~IsOutside(F, W, x, "zero")
           whole == IsInteger(F, x)
           nan == IsNaN(F, x)
           raised == IF ~fits THEN {"InvalidOp"} ELSE IF whole THEN {} ELSE {"Inexact"}
           seen == (h.status \cup raised) \cap {"InvalidOp", "Inexact"}
           set == IF "InvalidOp" \in seen \cap enables THEN {"InvalidOp"} ELSE seen
           flagged == [a EXCEPT !.flags = @ \cup set]
           last == CI!Done(CI!SetInt(a, W, i.fd, IF fits THEN m ELSE o.value))
           written == CI!Done(IF nan THEN CI!Set(flagged, F, i.fd, 0)
                              ELSE CI!SetInt(flagged, W, i.fd, k))
           half == F = Single /\ W = Double /\ nan
<1>1. u.f = f /\ u.enables = enables /\ u.flags = flags
  BY PartsAre
<1> SUFFICES LET refused == ~IsFinite(F, x) \/ IsOutside(F, W, x, "zero")
             IN  \/ refused /\ right
                 \/ ~refused /\ asked
                 \/ SignalSeen(F, x, h) /\ (e.out = <<"next">> => n = k)
                 \/ /\ HalfZero(F, W, x, h) /\ "InvalidOp" \in e.fpu.flags
                    /\ e.out = <<"next">> => CI!Get(e.fpu, F, i.fd) = 0
                 \/ ~h.traps /\ refused /\ e.fpu.flags = flags /\ e.out = <<"next">>
  BY <1>1, Zenon DEF ConvertedWell
<1>2. x \in 0 .. 2 * SignBit(F) - 1 /\ "zero" \in Ways4
  BY <1>1, RegistersAre DEF Ways4
<1>3. m \in Int /\ IsRounded(F, x, m, "zero")
  BY <1>2, IntegersAre
<1>4. CI!Truncated(F, x) = m
  BY SharedIntegers, Zenon DEF CI!ToInteger
<1>5. IsOutside(F, W, x, "zero") <=> ~(LowestInt(W) <= m /\ m <= HighestInt(W))
  BY <1>2, OutsideIs
<1>6. /\ CI!IsFinite(F, x) /\ CI!Fits(W, m) <=> fits
      /\ CI!IsInteger(F, x) <=> whole
      /\ CI!IsNaN(F, x) <=> nan
      /\ CI!Saturated(F, W, x) = k
      /\ nan => ~IsFinite(F, x) /\ k = 0
  <2> HIDE DEF m
  <2> QED
    BY <1>5, SharedSigns, SharedNumbers, SharedIntegers, SharedLimits, SaturatedIs, Zenon
       DEF CI!Fits, IsNaN, Limit
<1>7. a = UnitWith(f, mode, flags, enables, {}, raw, clocks)
  BY DEF CI!ClearCause, UnitWith
<1>8. /\ h.traps /\ seen \cap enables # {} => e = CI!Throws(flagged, "FPE")
      /\ h.traps /\ seen # {} /\ seen \cap enables = {} => e = written
      /\ ~h.traps \/ seen = {} => e = last
  <2> HIDE DEF m, k, fits, whole, nan, a
  <2> DEFINE handled(s, yes, to) ==
                LET r == IF ~yes THEN {"InvalidOp"}
                         ELSE IF CI!IsInteger(F, x) THEN {} ELSE {"Inexact"}
                    t == (h.status \cup r) \cap {"InvalidOp", "Inexact"}
                    g == [a EXCEPT !.flags = @ \cup
                            IF "InvalidOp" \in t \cap enables THEN {"InvalidOp"} ELSE t]
                IN  CASE h.traps /\ t \cap enables # {} -> CI!Throws(g, "FPE")
                      [] h.traps /\ t # {} /\ t \cap enables = {} ->
                            CI!Done(IF CI!IsNaN(F, x) THEN CI!Set(g, F, i.fd, 0)
                                    ELSE CI!SetInt(g, W, i.fd, k))
                      [] OTHER -> CI!Done(CI!SetInt(a, W, i.fd, IF yes THEN m ELSE o.value))
  <2>1. e = handled(0, fits, 0)
    BY <1>1, <1>4, <1>6, Zenon DEF CI!Convert, a
  <2>2. raised = IF ~fits THEN {"InvalidOp"}
                 ELSE IF CI!IsInteger(F, x) THEN {} ELSE {"Inexact"}
    BY <1>6, Zenon
  <2>3. e = CASE h.traps /\ seen \cap enables # {} -> CI!Throws(flagged, "FPE")
              [] h.traps /\ seen # {} /\ seen \cap enables = {} -> written
              [] OTHER -> last
    BY <1>6, <2>1, <2>2, Zenon
  <2> HIDE DEF seen, flagged, written, last
  <2>4. seen = {} => seen \cap enables = {}
    OBVIOUS
  <2> QED
    BY <2>3, <2>4, Zenon
<1>9. flagged = UnitWith(f, mode, flags \cup set, enables, {}, raw, clocks)
  <2> HIDE DEF a, set
  <2> QED
    BY <1>7, FlagsAre
<1>10. /\ k \in Int /\ LowestInt(W) <= k /\ k <= HighestInt(W)
  BY SaturatedIs
<1> HIDE DEF a, m, k, fits, whole, nan, set, flagged
<1>11. ASSUME h.traps, seen # {}
       PROVE  /\ e.fpu.flags = flags \cup set
              /\ e.out = IF seen \cap enables # {} THEN <<"raise", "FPE">> ELSE <<"next">>
              /\ e.out = <<"next">> /\ ~half => n = k
              /\ e.out = <<"next">> /\ half => CI!Get(e.fpu, F, i.fd) = 0
  <2> HIDE DEF seen
  <2>1. <<"raise", "FPE">> # <<"next">>
    OBVIOUS
  <2>2. CASE seen \cap enables # {}
    <3>1. e = CI!Throws(flagged, "FPE") /\ flagged.flags = flags \cup set
      <4>1. flagged.flags = flags \cup set
        BY <1>9, PartsAre
      <4> QED
        BY <1>8, <1>11, <2>2, <4>1
    <3>2. e.fpu = flagged /\ e.out = <<"raise", "FPE">>
      BY <3>1 DEF CI!Throws
    <3> QED
      BY <2>1, <2>2, <3>1, <3>2
  <2>3. CASE seen \cap enables = {} /\ nan
    <3> DEFINE g == CI!Set(flagged, F, i.fd, 0)
    <3>1. e = CI!Done(g)
      BY <1>8, <1>11, <2>3
    <3>2. e.fpu = g
      BY <3>1 DEF CI!Done
    <3>3. e.fpu.flags = flags \cup set /\ e.out = <<"next">>
      BY <1>9, <3>1, SetKeepsFlags
    <3>4. CI!Get(g, F, i.fd) = 0
      BY <1>9, GetsWhatIsSet
    <3>5. ~half => n = 0
      BY <1>9, <2>3, <3>2, ZeroWritten
    <3> QED
      BY <1>6, <2>3, <3>2, <3>3, <3>4, <3>5
  <2>4. CASE seen \cap enables = {} /\ ~nan
    <3>1. e = CI!Done(CI!SetInt(flagged, W, i.fd, k)) /\ ~half
      BY <1>8, <1>11, <2>4
    <3>2. e.out = <<"next">> /\ e.fpu.flags = flags \cup set /\ n = k
      BY <1>9, <1>10, <3>1, IntegerWritten
    <3> QED
      BY <2>4, <3>1, <3>2
  <2> QED
    BY <2>2, <2>3, <2>4
<1> DEFINE stale == h.status \cap {"InvalidOp", "Inexact"} # {}
<1>12. /\ ~stale /\ ~fits => seen = {"InvalidOp"} /\ set = {"InvalidOp"}
       /\ ~stale /\ fits /\ whole => seen = {}
       /\ stale \/ ~whole \/ ~fits => seen # {}
       /\ ~fits => "InvalidOp" \in set
  BY DEF set
<1>13. SignalSeen(F, x, h) <=> h.traps /\ (stale \/ ~whole)
  BY Zenon DEF SignalSeen, whole
<1>14. HalfZero(F, W, x, h) <=> h.traps /\ half
  BY Zenon DEF HalfZero, nan
<1>15. fits <=> ~(~IsFinite(F, x) \/ IsOutside(F, W, x, "zero"))
  BY DEF fits
<1>16. nan => ~fits
  BY <1>6 DEF fits
<1>17. ASSUME fits, e = last PROVE asked
  <2>1. e = CI!Done(CI!SetInt(a, W, i.fd, m)) /\ LowestInt(W) <= m /\ m <= HighestInt(W)
    BY <1>5, <1>17 DEF fits
  <2> QED
    BY <1>3, <2>1, AnswersMade DEF a
<1>18. ASSUME ~fits, e = last PROVE e.fpu.flags = flags /\ e.out = <<"next">>
  BY <1>7, <1>18, SetKeepsFlags DEF CI!SetInt
<1>19. ASSUME h.traps, ~fits, ~half, seen = {"InvalidOp"}, set = {"InvalidOp"} PROVE right
  <2>1. seen # {} /\ (seen \cap enables # {} <=> "InvalidOp" \in enables)
    BY <1>19
  <2> HIDE DEF seen
  <2> QED
    BY <1>1, <1>11, <1>19, <2>1, Zenon DEF Answers, k
<1> HIDE DEF seen, last, written, half, stale
<1>20. CASE ~h.traps
  BY <1>8, <1>15, <1>17, <1>18, <1>20
<1>21. CASE h.traps /\ half
  BY <1>11, <1>12, <1>14, <1>16, <1>21 DEF half
<1>22. CASE h.traps /\ ~half /\ (stale \/ ~whole)
  BY <1>11, <1>12, <1>13, <1>22 DEF k
<1>23. CASE h.traps /\ ~half /\ ~stale /\ whole
  BY <1>8, <1>12, <1>15, <1>17, <1>19, <1>23
<1> QED
  BY <1>20, <1>21, <1>22, <1>23

(* Where a rounding or a conversion writes its integer *)
WideOf(op) == IF op \in Narrow \cup {"CVT_W"} THEN Single ELSE Double

(* The handler of each rounding *)
LEMMA RoundingHandler ==
    ASSUME NEW op \in Narrow \cup Wide, NEW u, NEW F, NEW i, NEW h, NEW o
    PROVE  /\ Handled(op, u, F, i, h, o) = CI!Round(u, F, WideOf(op), How(op), i, h, o)
           /\ WideOf(op) \in Formats /\ How(op) \in Ways4
           /\ WideOf(op) = IF op \in Narrow THEN Single ELSE Double
<1>1. CI!Single = Single /\ CI!Double = Double
  BY DEF CI!Single, Single, CI!Double, Double
<1>2. op \in Narrow => WideOf(op) = Single
  BY DEF WideOf
<1>3. op \in Wide => WideOf(op) = Double /\ op \notin Narrow
  BY DEF WideOf, Wide, Narrow
<1>4. WideOf(op) \in Formats
  BY <1>2, <1>3 DEF Formats
<1>5. WideOf(op) = IF op \in Narrow THEN Single ELSE Double
  BY <1>2, <1>3
<1>6. /\ op \in {"ROUND_W", "ROUND_L"} => How(op) = "nearest"
      /\ op \in {"CEIL_W", "CEIL_L"} => How(op) = "up"
      /\ op \in {"FLOOR_W", "FLOOR_L"} => How(op) = "down"
      /\ op \in {"TRUNC_W", "TRUNC_L"} => How(op) = "zero"
  BY DEF How
<1>7. How(op) \in Ways4
  BY <1>6 DEF Ways4, Narrow, Wide
<1>8. CASE op = "ROUND_W"
  BY <1>1, <1>2, <1>3, <1>4, <1>5, <1>6, <1>7, <1>8 DEF Handled, CI!ROUND_W, Narrow
<1>9. CASE op = "ROUND_L"
  BY <1>1, <1>2, <1>3, <1>4, <1>5, <1>6, <1>7, <1>9 DEF Handled, CI!ROUND_L, Wide
<1>10. CASE op = "CEIL_W"
  BY <1>1, <1>2, <1>3, <1>4, <1>5, <1>6, <1>7, <1>10 DEF Handled, CI!CEIL_W, Narrow
<1>11. CASE op = "CEIL_L"
  BY <1>1, <1>2, <1>3, <1>4, <1>5, <1>6, <1>7, <1>11 DEF Handled, CI!CEIL_L, Wide
<1>12. CASE op = "FLOOR_W"
  BY <1>1, <1>2, <1>3, <1>4, <1>5, <1>6, <1>7, <1>12 DEF Handled, CI!FLOOR_W, Narrow
<1>13. CASE op = "FLOOR_L"
  BY <1>1, <1>2, <1>3, <1>4, <1>5, <1>6, <1>7, <1>13 DEF Handled, CI!FLOOR_L, Wide
<1>14. CASE op = "TRUNC_W"
  BY <1>1, <1>2, <1>3, <1>4, <1>5, <1>6, <1>7, <1>14 DEF Handled, CI!TRUNC_W, Narrow
<1>15. CASE op = "TRUNC_L"
  BY <1>1, <1>2, <1>3, <1>4, <1>5, <1>6, <1>7, <1>15 DEF Handled, CI!TRUNC_L, Wide
<1> QED
  BY <1>8, <1>9, <1>10, <1>11, <1>12, <1>13, <1>14, <1>15 DEF Narrow, Wide

(* One instruction that rounds gives what the architecture has. *)
LEMMA RoundStep ==
    ASSUME PowersOfTwo, UnitsBegin, NEW entered, NEW op \in Narrow \cup Wide,
           NEW F \in Formats, NEW i, NEW h, NEW o, i.fs \in FRegister, i.fd \in FRegister,
           Operate(op, F, i, h, o, entered)
    PROVE  RoundsRight
<1> DEFINE u == fpu.guest
           v == ClockedIf(u, TRUE)
           W == WideOf(op)
           e == Handled(op, v, F, i, h, o)
           x == CI!Get(v, F, i.fs)
           n == AsInteger(W, CI!Get(e.fpu, W, i.fd))
<1>1. /\ e = CI!Round(v, F, W, How(op), i, h, o) /\ W \in Formats /\ How(op) \in Ways4
      /\ W = IF op \in Narrow THEN Single ELSE Double
  BY RoundingHandler
<1> HIDE DEF v, e, W
<1>2. /\ fpu'.guest = e.fpu /\ executed'[1] = op /\ executed'[2] = i
      /\ executed'[3] = e.out /\ executed'[6] = F /\ executed'[7] = h
      /\ u \in Unit /\ u.f \in [FRegister -> Word \X Word]
      /\ x = Source(i.fs) /\ CI!Get(e.fpu, W, i.fd) = Result(W)
  BY GuestStep DEF v, e
<1>3. \E raw : v = UnitWith(u.f, u.mode, u.flags, u.enables, u.cause, raw, u.clocks)
  BY <1>2, ClockedIs DEF v
<1>4. n = AsInteger(W, Result(W))
  BY <1>2
<1> HIDE DEF u, x, n
<1> DEFINE right == Answers(F, W, x, n, How(op), TRUE, v, e.fpu.flags, e.out)
           asked == Answers(F, W, x, n, How(op), FALSE, v, e.fpu.flags, e.out)
<1>5. \/ (~IsFinite(F, x) \/ IsOutside(F, W, x, How(op))) /\ right
      \/ ~(~IsFinite(F, x) \/ IsOutside(F, W, x, How(op))) /\ asked
      \/ IsFinite(F, x) /\ LowestRefused(F, W, x, h, How(op)) /\ right
      \/ /\ IsFinite(F, x) /\ HighestTaken(F, W, x, h, How(op))
         /\ e.fpu.flags = u.flags /\ e.out = <<"next">>
  <2>1. RoundedWell(F, W, CI!Get(v, F, i.fs), How(op), i, h, v, CI!Round(v, F, W, How(op), i, h, o))
    BY <1>1, <1>2, <1>3, RoundedAsAsked
  <2>2. v.flags = u.flags
    BY <1>3, PartsAre
  <2> QED
    BY <1>1, <2>1, <2>2, Zenon DEF x, n, RoundedWell
<1>6. v.flags = u.flags /\ v.enables = u.enables
  BY <1>3, PartsAre
<1>7. \A yes : Answers(F, W, x, n, How(op), yes, v, e.fpu.flags, e.out)
                <=> Answers(F, W, x, n, How(op), yes, u, e.fpu.flags, e.out)
  BY <1>6, Zenon DEF Answers
<1> DEFINE refused == ~IsFinite(F, x) \/ IsOutside(F, W, x, How(op))
           Answered(yes) == Answers(F, W, x, n, How(op), yes, u, e.fpu.flags, e.out)
<1>8. \/ Answered(refused)
      \/ IsFinite(F, x) /\ LowestRefused(F, W, x, h, How(op)) /\ Answered(TRUE)
      \/ /\ IsFinite(F, x) /\ HighestTaken(F, W, x, h, How(op))
         /\ e.fpu.flags = u.flags /\ e.out = <<"next">>
  <2>1. refused => refused = TRUE
    OBVIOUS
  <2>2. ~refused => refused = FALSE
    OBVIOUS
  <2> HIDE DEF refused
  <2> QED
    BY <1>5, <1>7, <2>1, <2>2, Zenon DEF refused
<1> QED
  BY <1>1, <1>2, <1>4, <1>8, Zenon DEF RoundsRight, Written, F0, u

(* One conversion *)
LEMMA ConvertStep ==
    ASSUME PowersOfTwo, UnitsBegin, NEW entered, NEW op \in Conversions,
           NEW F \in Formats, NEW i, NEW h, NEW o, i.fs \in FRegister, i.fd \in FRegister,
           Operate(op, F, i, h, o, entered)
    PROVE  ConvertsRight
<1> DEFINE u == fpu.guest
           v == ClockedIf(u, TRUE)
           W == WideOf(op)
           e == Handled(op, v, F, i, h, o)
           x == CI!Get(v, F, i.fs)
           n == AsInteger(W, CI!Get(e.fpu, W, i.fd))
<1>1. /\ e = CI!Convert(v, F, W, i, h, o) /\ W \in Formats
      /\ W = IF op = "CVT_W" THEN Single ELSE Double
  <2>1. CI!Single = Single /\ CI!Double = Double
    BY DEF CI!Single, Single, CI!Double, Double
  <2>2. CASE op = "CVT_W"
    <3>1. W = Single
      BY <2>2 DEF WideOf
    <3> QED
      BY <2>1, <2>2, <3>1 DEF Handled, CI!CVT_W, Formats
  <2>3. CASE op = "CVT_L"
    <3>1. W = Double
      BY <2>3 DEF WideOf, Narrow
    <3> QED
      BY <2>1, <2>3, <3>1 DEF Handled, CI!CVT_L, Formats
  <2> QED
    BY <2>2, <2>3 DEF Conversions
<1> HIDE DEF v, e, W
<1>2. /\ executed'[1] = op /\ executed'[2] = i
      /\ executed'[3] = e.out /\ executed'[6] = F /\ executed'[7] = h
      /\ u \in Unit /\ u.f \in [FRegister -> Word \X Word]
      /\ x = Source(i.fs) /\ CI!Get(e.fpu, W, i.fd) = Result(W) /\ fpu'.guest = e.fpu
      /\ CI!Get(e.fpu, F, i.fd) = Result(F)
  BY GuestStep DEF v, e
<1>3. \E raw : v = UnitWith(u.f, u.mode, u.flags, u.enables, u.cause, raw, u.clocks)
  BY <1>2, ClockedIs DEF v
<1>4. n = AsInteger(W, Result(W))
  BY <1>2
<1>5. v.flags = u.flags /\ v.enables = u.enables
  BY <1>3, PartsAre
<1> DEFINE refused == ~IsFinite(F, x) \/ IsOutside(F, W, x, "zero")
           Answered(yes) == Answers(F, W, x, n, "zero", yes, u, e.fpu.flags, e.out)
           right == Answers(F, W, x, n, "zero", TRUE, v, e.fpu.flags, e.out)
           asked == Answers(F, W, x, n, "zero", FALSE, v, e.fpu.flags, e.out)
           Rest == \/ SignalSeen(F, x, h) /\ (e.out = <<"next">> => n = Limit(F, W, x))
                   \/ /\ HalfZero(F, W, x, h) /\ "InvalidOp" \in e.fpu.flags
                      /\ e.out = <<"next">> => CI!Get(e.fpu, F, i.fd) = 0
                   \/ ~h.traps /\ refused /\ e.fpu.flags = u.flags /\ e.out = <<"next">>
<1>6. (refused /\ right) \/ (~refused /\ asked) \/ Rest
  <2> HIDE DEF u
  <2> QED
    <3>1. ConvertedWell(F, W, CI!Get(v, F, i.fs), i, h, v, CI!Convert(v, F, W, i, h, o))
      BY <1>1, <1>2, <1>3, ConvertedAsAsked
    <3> QED
      BY <1>1, <1>5, <3>1, Zenon DEF ConvertedWell
<1> HIDE DEF u, x, n
<1>7. (right <=> Answered(TRUE)) /\ (asked <=> Answered(FALSE))
  BY <1>5, Zenon DEF Answers
<1>8. (refused => refused = TRUE) /\ (~refused => refused = FALSE)
  OBVIOUS
<1> HIDE DEF right, asked
<1>9. Answered(refused) \/ Rest
  <2> HIDE DEF refused, Rest
  <2> QED
    BY <1>6, <1>7, <1>8, Zenon
<1> QED
  BY <1>1, <1>2, <1>4, <1>9, Zenon DEF ConvertsRight, Written, F0, u

(* The operands of a rounding or a conversion *)
LEMMA ConvertedOperands ==
    ASSUME NEW sort \in UnitSorts, NEW op \in Narrow \cup Wide \cup Conversions,
           op \in sort[1], NEW i \in sort[2]
    PROVE  i.fs \in FRegister /\ i.fd \in FRegister
<1>1. i \in OnUnit(One, FRegister, One, {0})
  <2>1. \/ sort = <<Conversions, OnUnit(One, FRegister, One, {0}), Status, Undefined>>
        \/ sort = <<Narrow \cup Wide, OnUnit(One, FRegister, One, {0}), NoStatus, Undefined>>
    BY DEF UnitSorts, Computations, Copies, Choices, Conversions, Narrow, Wide
  <2> QED
    BY <2>1
<1>2. One \subseteq FRegister
  BY CoprocessorAssumption DEF One
<1> QED
  BY <1>1, <1>2 DEF OnUnit, UnitInstruction

(* An instruction that rounds, converts, compares or chooses gives what the  *)
(* architecture has.                                                         *)
LEMMA ResultsNext ==
    ASSUME PowersOfTwo, UnitReady, UnitNext
    PROVE  RoundsRight /\ ConvertsRight /\ ComparesRight /\ ChoosesRight
<1> DEFINE Answered == Narrow \cup Wide \cup Conversions \cup {"CMP"} \cup Choices
           Right == RoundsRight /\ ConvertsRight /\ ComparesRight /\ ChoosesRight
<1>1. UnitsBegin
  BY DEF UnitReady, UnitNext
<1>2. CASE executed'[1] \notin Answered
  <2>1. /\ executed'[1] \notin Narrow \cup Wide /\ executed'[1] \notin Conversions
        /\ executed'[1] # "CMP" /\ executed'[1] \notin Choices
    BY <1>2
  <2> QED
    BY <2>1, Zenon DEF RoundsRight, ConvertsRight, ComparesRight, ChoosesRight
<1>3. CASE executed'[1] \in Answered
  <2>1. PICK entered \in Entering :
        \/ \E sort \in UnitSorts, F \in Formats, traps \in BOOLEAN :
           \E op \in sort[1], i \in sort[2], status \in sort[3], o \in sort[4] :
              Operate(op, F, i, [traps |-> traps, status |-> status], o, entered)
        \/ \E sort \in MoveSorts : \E op \in sort[1], i \in sort[2] :
              Move(op, i, entered)
        \/ \E op \in UnitLoads, i \in AccessSort[2], c \in Configurations :
              Load(op, i, c, entered)
        \/ \E op \in UnitStores, i \in AccessSort[2], c \in Configurations :
              Store(op, i, c, entered)
    BY DEF UnitNext
  <2>2. ASSUME NEW sort \in UnitSorts, NEW F \in Formats, NEW h, NEW op \in sort[1],
               NEW i \in sort[2], NEW o, Operate(op, F, i, h, o, entered)
        PROVE  Right
    <3>1. executed'[1] = op
      BY <2>2 DEF Operate
    <3>2. RoundsRight
      <4>1. CASE op \in Narrow \cup Wide
        BY <1>1, <2>2, <4>1, ConvertedOperands, RoundStep
      <4> QED
        BY <3>1, <4>1, Zenon DEF RoundsRight
    <3>3. ConvertsRight
      <4>1. CASE op \in Conversions
        BY <1>1, <2>2, <4>1, ConvertedOperands, ConvertStep
      <4> QED
        BY <3>1, <4>1, Zenon DEF ConvertsRight
    <3>4. ComparesRight
      <4>1. CASE op = "CMP"
        BY <1>1, <2>2, <4>1, ComparedOperands, CompareStep
      <4> QED
        BY <3>1, <4>1, Zenon DEF ComparesRight
    <3>5. ChoosesRight
      <4>1. CASE op \in Choices
        BY <1>1, <2>2, <4>1, ChosenOperands, ChooseStep
      <4> QED
        BY <3>1, <4>1, Zenon DEF ChoosesRight
    <3> QED
      BY <3>2, <3>3, <3>4, <3>5
  <2>3. ASSUME NEW sort \in MoveSorts, NEW op \in sort[1], NEW i \in sort[2],
               Move(op, i, entered)
        PROVE  FALSE
    <3>1. op \in Moves \cup ControlMoves \cup UnitBranches
      BY <2>3, UnitOperandsFit
    <3>2. op \in Answered
      BY <1>3, <2>3 DEF Move
    <3> QED
      BY <3>1, <3>2 DEF Moves, ControlMoves, UnitBranches, Narrow, Wide, Conversions, Choices
  <2>4. ASSUME NEW op \in UnitLoads, NEW i, NEW c, Load(op, i, c, entered) PROVE FALSE
    BY <1>3, <2>4 DEF Load, UnitLoads, Narrow, Wide, Conversions, Choices
  <2>5. ASSUME NEW op \in UnitStores, NEW i, NEW c, Store(op, i, c, entered) PROVE FALSE
    BY <1>3, <2>5 DEF Store, UnitStores, Narrow, Wide, Conversions, Choices
  <2> QED
    BY <2>1, <2>2, <2>3, <2>4, <2>5
<1> QED
  BY <1>2, <1>3

(* The interpreter answers for every number, infinity and NaN.  A rounding   *)
(* writes the integer that its mode asks for, either of two that are as      *)
(* near, and refuses a NaN and what does not fit: it flags or raises         *)
(* InvalidOp then and writes the limit on that side, or 0.  In a build       *)
(* without traps it does the opposite for two numbers, HighestTaken and      *)
(* LowestRefused.  A conversion does the same toward zero, but for a signal  *)
(* that is seen where there was none, half of a zero, and, without traps, a  *)
(* value that C leaves open.  A comparison answers by its predicate and      *)
(* raises or flags InvalidOp for the NaNs it should and no others.  MAX,     *)
(* MIN, MAXA and MINA, where they write, write the largest or smallest of    *)
(* two finite numbers, the finite one of a number and a NaN, and one of the  *)
(* two otherwise.  All this for formats of any widths, every condition, any  *)
(* state of the unit and both kinds of build.  That powers of two are        *)
(* positive and multiply by adding exponents has to be given.                *)
THEOREM ResultsAlwaysRight ==
    ASSUME PowersOfTwo
    PROVE  UnitSpec => ResultsRight
<1> DEFINE Step == Len(executed') = 7 =>
                      RoundsRight /\ ConvertsRight /\ ComparesRight /\ ChoosesRight
<1>1. UnitReady /\ [UnitNext]_unitVars => [Step]_unitVars
  BY ResultsNext
<1>2. ResultsRight <=> [][Step]_unitVars
  BY DEF ResultsRight
<1> HIDE DEF Step
<1> QED
  BY <1>1, <1>2, AlwaysUnitReady, PTL DEF UnitSpec
===============================================================================

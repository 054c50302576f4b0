-------------------------- MODULE InterpreterProofs --------------------------
(*****************************************************************************)
(* The interpreter orders instructions as the architecture does, for every   *)
(* program, every set of addresses and every quantum.  SlotInv is what the   *)
(* argument rests on: a branch in a delay slot is refused, because taking    *)
(* the first one has set no_cti.  Behind it are the theorems about the cache, *)
(* and the one that joins the two.                                           *)
(*****************************************************************************)
EXTENDS CachedInterpreter, TLAPS

LEMMA SuccIsAddress == \A a \in Address : Succ[a] \in Address
BY GuestAssumption

LEMMA NoneIsNoAddress == None \notin Address
BY GuestAssumption

LEMMA ProgramsHoldInstructions == Programs \subseteq [Address -> Instruction]
BY GuestAssumption

LEMMA QuantaArePositive == Quanta \subseteq Nat
BY InterpreterAssumption

LEMMA WaysAreAddresses ==
    ASSUME NEW i \in Instruction, NEW w \in Ways(i)
    PROVE  w \in Address \cup {None}
BY DEF Ways, Instruction

-------------------------------------------------------------------------------
IInv == TypeOK /\ SlotInv

LEMMA InitIInv == Init => IInv
BY NoneIsNoAddress DEF Init, IInv, TypeOK, SlotInv, InSlot

(* A target is known wherever the program is in a slot.                      *)
LEMMA OnwardIsAddress == IInv => Onward \in Address
BY SuccIsAddress, NoneIsNoAddress
DEF IInv, TypeOK, SlotInv, Onward, InSlot

(* Nothing the scope leaves behind is the slot it was entered with.          *)
LEMMA ScopeEndsSlot ==
    ASSUME NEW set
    PROVE  /\ "branch_delay" \in AfterScope(set) <=> "branch_delay" \in set
           /\ "no_cti" \in AfterScope(set)
                 <=> "no_cti" \in set /\ "no_cti" \notin flags
           /\ flags \subseteq {"branch_delay", "no_cti"}
              /\ set \subseteq {"branch_delay", "no_cti"}
                 => AfterScope(set) \subseteq {"branch_delay", "no_cti"}
BY DEF AfterScope

LEMMA RetireIInv ==
    ASSUME IInv, NEW w, Retire(w)
    PROVE  IInv'
<1> DEFINE taken == code[pc] = "branch" /\ w # None
           set == CASE code[pc] = "branch" /\ w # None
                          -> {"branch_delay", "no_cti"}
                    [] SetsNoCTI(code[pc]) /\ w = None -> {"no_cti"}
                    [] OTHER -> {}
<1>1. /\ code \in Programs /\ pc \in Address /\ left \in Nat
      /\ target \in Address \cup {None}
      /\ flags \subseteq {"branch_delay", "no_cti"}
      /\ where \in {"host", "running"}
  BY DEF IInv, TypeOK
<1>2. /\ w \in Address \cup {None}
      /\ code' = code /\ where' = where /\ left' = left - 1 /\ left > 0
      /\ flags' = AfterScope(set)
      /\ pc' = (IF code[pc] # "branch" /\ w # None THEN w ELSE Onward)
      /\ target' = (IF InSlot THEN None ELSE IF taken THEN w ELSE target)
      /\ ~Refused
  BY <1>1, WaysAreAddresses, ProgramsHoldInstructions DEF Retire, Iterate
<1>3. pc' \in Address /\ target' \in Address \cup {None} /\ left' \in Nat
  BY <1>1, <1>2, OnwardIsAddress
<1>4. /\ set \subseteq {"branch_delay", "no_cti"}
      /\ "branch_delay" \in set => taken /\ "no_cti" \in set
  BY DEF SetsNoCTI
<1>5. flags' \subseteq {"branch_delay", "no_cti"}
  <2> HIDE DEF set
  <2> QED BY <1>1, <1>2, <1>4, ScopeEndsSlot
<1>6. TypeOK'
  BY <1>1, <1>2, <1>3, <1>5 DEF TypeOK
<1>7. ASSUME "branch_delay" \in flags'
      PROVE  "no_cti" \in flags' /\ target' # None
  <2> HIDE DEF set
  <2>1. taken /\ "no_cti" \in set
    BY <1>2, <1>4, <1>7, ScopeEndsSlot
  <2>2. "no_cti" \notin flags
    BY <1>2, <2>1 DEF Refused, Control
  <2>3. ~InSlot
    BY <2>2 DEF IInv, SlotInv
  <2>4. QED
    BY <1>2, <2>1, <2>2, <2>3, ScopeEndsSlot
<1>8. QED
  BY <1>6, <1>7 DEF IInv, SlotInv, InSlot

LEMMA RaiseIInv ==
    ASSUME IInv, NEW handled \in BOOLEAN, Raise(handled)
    PROVE  IInv'
<1>1. /\ code \in Programs /\ pc \in Address /\ left \in Nat
      /\ target \in Address \cup {None}
      /\ flags \subseteq {"branch_delay", "no_cti"}
  BY DEF IInv, TypeOK
<1>2. /\ code' = code /\ left' = left - 1 /\ left > 0
      /\ flags' = AfterScope({})
      /\ where' \in {"host", "running"}
      /\ pc' \in Address /\ target' \in Address \cup {None}
  BY <1>1, OnwardIsAddress DEF Raise, Iterate
<1>3. /\ flags' \subseteq {"branch_delay", "no_cti"}
      /\ "branch_delay" \notin flags'
  BY <1>1, <1>2, ScopeEndsSlot
<1>4. left' \in Nat
  BY <1>1, <1>2
<1>5. TypeOK'
  BY <1>1, <1>2, <1>3, <1>4 DEF TypeOK
<1>6. QED
  BY <1>3, <1>5 DEF IInv, SlotInv, InSlot

LEMMA NextIInv == IInv /\ [Next]_vars => IInv'
<1> SUFFICES ASSUME IInv, [Next]_vars PROVE IInv'
  OBVIOUS
<1>1. ASSUME NEW n \in Quanta, Execute(n) PROVE IInv'
  BY <1>1, QuantaArePositive
  DEF IInv, TypeOK, SlotInv, InSlot, Execute
<1>2. CASE Leave
  BY <1>2 DEF IInv, TypeOK, SlotInv, InSlot, Leave
<1>3. CASE UNCHANGED vars
  BY <1>3 DEF IInv, TypeOK, SlotInv, InSlot, vars
<1>4. QED
  BY <1>1, <1>2, <1>3, RetireIInv, RaiseIInv DEF Next

THEOREM TypeCorrect == Spec => []TypeOK
<1>1. Init => IInv
  BY InitIInv
<1>2. IInv /\ [Next]_vars => IInv'
  BY NextIInv
<1>3. IInv => TypeOK
  BY DEF IInv
<1>4. QED
  BY <1>1, <1>2, <1>3, PTL DEF Spec

(* In every delay slot control instructions are forbidden and the target of  *)
(* the branch is known.                                                      *)
THEOREM SlotHolds == Spec => []SlotInv
<1>1. Init => IInv
  BY InitIInv
<1>2. IInv /\ [Next]_vars => IInv'
  BY NextIInv
<1>3. IInv => SlotInv
  BY DEF IInv
<1>4. QED
  BY <1>1, <1>2, <1>3, PTL DEF Spec

-------------------------------------------------------------------------------
(* Refinement.  An iteration that retires an instruction is Run or Transfer, *)
(* one that raises is Skip, or no step when the host may try it again.       *)
LEMMA InitRefines == Init => Arch!Init
BY DEF Init, Arch!Init, Slot, Forbidden, InSlot

LEMMA ArchReadsGuest ==
    /\ \A i : Arch!Control(i) <=> Control(i)
    /\ \A i : Arch!Throws(i) <=> Throws(i)
    /\ \A i : Arch!Ways(i) = Ways(i)
BY DEF Arch!Control, Control, Arch!Throws, Throws, Arch!Ways, Ways

LEMMA RetireRefines ==
    ASSUME IInv, NEW w, Retire(w)
    PROVE  Arch!Run \/ (\E v \in Address \cup {None} : Arch!Transfer(v))
<1> DEFINE i == code[pc]
           set == CASE i = "branch" /\ w # None -> {"branch_delay", "no_cti"}
                    [] SetsNoCTI(i) /\ w = None -> {"no_cti"}
                    [] OTHER -> {}
<1>1. /\ pc \in Address /\ i \in Instruction
      /\ w \in Ways(i) /\ w \in Address \cup {None}
      /\ code' = code /\ ~Refused
      /\ flags' = AfterScope(set)
      /\ pc' = (IF i # "branch" /\ w # None THEN w ELSE Onward)
      /\ target' = (IF InSlot THEN None
                    ELSE IF i = "branch" /\ w # None THEN w ELSE target)
  BY WaysAreAddresses, ProgramsHoldInstructions
  DEF IInv, TypeOK, Retire, Iterate
<1>2. CASE ~Control(i)
  <2>1. w = None /\ set = {}
    BY <1>1, <1>2 DEF Ways, Control, SetsNoCTI
  <2>2. pc' = (IF Slot = None THEN Succ[pc] ELSE Slot)
    BY <1>1, <2>1 DEF Onward, Slot, IInv, SlotInv
  <2>3. ~InSlot' /\ "no_cti" \notin flags'
    <3> HIDE DEF set
    <3> QED BY <1>1, <2>1, ScopeEndsSlot DEF InSlot
  <2>4. Slot' = None /\ Forbidden' = FALSE
    BY <2>3 DEF Slot, Forbidden
  <2>5. QED
    <3> HIDE DEF set
    <3> QED
      BY <1>1, <1>2, <2>2, <2>4
      DEF Arch!Run, Arch!Onward, Arch!Control, Control
<1>3. CASE Control(i)
  <2>1. "no_cti" \notin flags /\ ~InSlot
    BY <1>1, <1>3 DEF Refused, IInv, SlotInv
  <2>2. Slot = None /\ ~Forbidden
    BY <2>1 DEF Slot, Forbidden
  <2>3. Onward = Succ[pc]
    BY <2>1 DEF Onward
  <2>4. /\ InSlot' <=> i = "branch" /\ w # None
        /\ "no_cti" \in flags' <=> "no_cti" \in set
    <3>1. "branch_delay" \in set <=> i = "branch" /\ w # None
      OBVIOUS
    <3> HIDE DEF set
    <3> QED BY <1>1, <2>1, <3>1, ScopeEndsSlot DEF InSlot
  <2>5. Slot' = IF i = "branch" THEN w ELSE None
    BY <1>1, <2>1, <2>4 DEF Slot
  <2>6. CASE i # "branch" /\ w # None
    <3>1. pc' = w /\ "no_cti" \notin set
      BY <1>1, <2>6
    <3>2. Forbidden' = FALSE
      BY <2>4, <3>1 DEF Forbidden
    <3>3. QED
      <4> HIDE DEF set
      <4> QED
        BY <1>1, <1>3, <2>2, <2>5, <2>6, <3>1, <3>2, ArchReadsGuest
        DEF Arch!Transfer
  <2>7. CASE ~(i # "branch" /\ w # None)
    <3>1. i \in {"branch", "compact"}
      BY <1>1, <1>3, <2>7, NoneIsNoAddress DEF Control, Ways
    <3>2. "no_cti" \in set
      BY <2>7, <3>1 DEF SetsNoCTI
    <3>3. pc' = Succ[pc] /\ "no_cti" \in flags'
      <4> HIDE DEF set
      <4> QED BY <1>1, <2>3, <2>4, <2>7, <3>2
    <3>4. Forbidden' = Arch!Control(code[Succ[pc]])
      <4> HIDE DEF set
      <4> QED BY <1>1, <3>3 DEF Forbidden, Control, Arch!Control
    <3>5. QED
      <4> HIDE DEF set
      <4> QED
        BY <1>1, <1>3, <2>2, <2>5, <2>7, <3>3, <3>4, ArchReadsGuest
        DEF Arch!Transfer
  <2>8. QED
    BY <2>6, <2>7
<1>4. QED
  BY <1>2, <1>3

LEMMA RaiseRefines ==
    ASSUME IInv, ~ReentersRI, NEW handled \in BOOLEAN, Raise(handled)
    PROVE  Arch!Skip \/ UNCHANGED <<code, pc, Slot, Forbidden>>
<1>1. /\ code' = code
      /\ Throws(code[pc]) \/ Refused
      /\ handled \/ ~Refused
      /\ pc' = (IF handled \/ InSlot THEN Onward ELSE pc)
      /\ flags' = AfterScope({})
  BY DEF Raise, Iterate
<1>2. ~InSlot' /\ "no_cti" \notin flags'
  BY <1>1, ScopeEndsSlot DEF InSlot
<1>3. Slot' = None /\ Forbidden' = FALSE
  BY <1>2 DEF Slot, Forbidden
<1>4. Onward = (IF Slot = None THEN Succ[pc] ELSE Slot)
  BY DEF Onward, Slot, IInv, SlotInv
<1>5. CASE handled \/ InSlot
  <2>1. Arch!Throws(code[pc]) \/ Forbidden
    BY <1>1 DEF Forbidden, Refused, Throws, Arch!Throws
  <2>2. pc' = Arch!Onward
    BY <1>1, <1>4, <1>5 DEF Arch!Onward
  <2>3. Arch!Skip
    BY <1>1, <1>3, <2>1, <2>2 DEF Arch!Skip
  <2>4. QED
    BY <2>3
<1>6. CASE ~handled /\ ~InSlot
  <2>1. pc' = pc /\ Slot = None /\ ~Refused
    BY <1>1, <1>6 DEF Slot
  <2>2. Forbidden = FALSE
    BY <2>1 DEF Forbidden, Refused
  <2>3. QED
    BY <1>1, <1>3, <2>1, <2>2
<1>7. QED
  BY <1>5, <1>6

LEMMA NextRefines ==
    ~ReentersRI /\ IInv /\ [Next]_vars => [Arch!Next]_(Arch!vars)
<1> SUFFICES ASSUME ~ReentersRI, IInv, [Next]_vars
             PROVE  Arch!Next \/ UNCHANGED <<code, pc, Slot, Forbidden>>
  BY DEF Arch!vars
<1>1. ASSUME NEW n \in Quanta, Execute(n)
      PROVE  UNCHANGED <<code, pc, Slot, Forbidden>>
  BY <1>1 DEF Execute, Slot, Forbidden, InSlot
<1>2. ASSUME Leave \/ UNCHANGED vars
      PROVE  UNCHANGED <<code, pc, Slot, Forbidden>>
  BY <1>2 DEF Leave, vars, Slot, Forbidden, InSlot
<1>3. QED
  BY <1>1, <1>2, RetireRefines, RaiseRefines DEF Next, Arch!Next

(* Where no host re-enters the processor after a reserved instruction, the   *)
(* interpreter implements Architecture.                                      *)
THEOREM Implements ==
    ASSUME ~ReentersRI
    PROVE  Spec => Conforms
<1>1. Init => Arch!Init
  BY InitRefines
<1>2. Init => IInv
  BY InitIInv
<1>3. IInv /\ [Next]_vars => IInv'
  BY NextIInv
<1>4. IInv /\ [Next]_vars => [Arch!Next]_(Arch!vars)
  BY NextRefines
<1>5. QED
  BY <1>1, <1>2, <1>3, <1>4, PTL DEF Spec, Conforms, Arch!Spec

(* Under the same assumption, a host that is left by an exception finds the  *)
(* processor before the instruction that raised it or past it, slot done.    *)
THEOREM ExitsWhole ==
    ASSUME ~ReentersRI
    PROVE  Spec => ExitIsWhole
<1> DEFINE Whole == where = "running" /\ where' = "host" /\ left > 0 =>
                       \/ UNCHANGED <<pc, Slot, Forbidden>>
                       \/ pc' = Onward /\ ~InSlot' /\ ~Forbidden'
<1>1. IInv /\ [Next]_vars => Whole
  <2> SUFFICES ASSUME IInv, [Next]_vars, where = "running", where' = "host", left > 0
               PROVE  \/ UNCHANGED <<pc, Slot, Forbidden>>
                      \/ pc' = Onward /\ ~InSlot' /\ ~Forbidden'
    OBVIOUS
  <2>1. ASSUME NEW n \in Quanta, Execute(n) PROVE FALSE
    BY <2>1 DEF Execute
  <2>2. ASSUME Leave \/ UNCHANGED vars PROVE FALSE
    BY <2>2 DEF Leave, vars
  <2>3. ASSUME NEW w, Retire(w) PROVE FALSE
    BY <2>3 DEF Retire
  <2>4. PICK handled \in BOOLEAN : Raise(handled)
    BY <2>1, <2>2, <2>3 DEF Next
  <2>5. /\ ~handled /\ ~Refused
        /\ pc' = (IF InSlot THEN Onward ELSE pc)
        /\ flags' = AfterScope({}) /\ code' = code
    BY <2>4 DEF Raise, Iterate
  <2>6. ~InSlot' /\ "no_cti" \notin flags'
    BY <2>5, ScopeEndsSlot DEF InSlot
  <2>7. CASE InSlot
    BY <2>5, <2>6, <2>7 DEF Forbidden
  <2>8. CASE ~InSlot
    BY <2>5, <2>6, <2>8 DEF Slot, Forbidden, Refused
  <2>9. QED
    BY <2>7, <2>8
<1>2. Init => IInv
  BY InitIInv
<1>3. IInv /\ [Next]_vars => IInv'
  BY NextIInv
<1>4. QED
  BY <1>1, <1>2, <1>3, PTL DEF Spec, ExitIsWhole

-------------------------------------------------------------------------------
(* With its cache the interpreter does what it does without, and it uses the *)
(* cache as InstructionCache says: what is proved of each holds of both.     *)

LEMMA CachedNextRefines ==
    ASSUME IInv, [CachedNext]_cachedVars
    PROVE  [Next]_vars /\ [Cache!Next]_(Cache!vars)
<1>1. pc \in Address
  BY DEF IInv, TypeOK
<1>2. ASSUME NEW n \in Quanta, Execute(n), Cache!Enter(pc)
      PROVE  Next /\ Cache!Next
  BY <1>1, <1>2 DEF Next, Cache!Next
<1>3. ASSUME Leave, UNCHANGED cache
      PROVE  Next /\ UNCHANGED Cache!vars
  BY <1>3 DEF Next, Leave, cache, Cache!vars
<1>4. ASSUME NEW w \in Address \cup {None}, Retire(w), Cache!Execute(pc)
      PROVE  Next /\ Cache!Next
  BY <1>1, <1>4 DEF Next, Cache!Next
<1>5. ASSUME NEW handled \in BOOLEAN, Raise(handled), Cache!Execute(pc)
      PROVE  Next /\ Cache!Next
  BY <1>1, <1>5 DEF Next, Cache!Next
<1>6. ASSUME UNCHANGED cachedVars
      PROVE  UNCHANGED vars /\ UNCHANGED Cache!vars
  BY <1>6 DEF cachedVars, vars, cache, Cache!vars
<1> QED
  BY <1>2, <1>3, <1>4, <1>5, <1>6 DEF CachedNext

(* The composition implements the interpreter and its cache                  *)
(* (execute_internal and fetch_line).                                        *)
THEOREM CacheIsTransparent == CachedSpec => Spec /\ Cache!Spec
<1>1. CachedInit => Init /\ Cache!Init
  BY DEF CachedInit
<1>2. Init => IInv
  BY InitIInv
<1>3. IInv /\ [Next]_vars => IInv'
  BY NextIInv
<1>4. IInv /\ [CachedNext]_cachedVars => [Next]_vars /\ [Cache!Next]_(Cache!vars)
  BY CachedNextRefines
<1> QED
  BY <1>1, <1>2, <1>3, <1>4, PTL DEF CachedSpec, Spec, Cache!Spec

-------------------------------------------------------------------------------
(* The cache by itself, for every size and number of lines.  Two facts carry *)
(* the proof: a line holds all of what memory has from its base on, and the  *)
(* line that is held still has the base that execute_internal() remembers    *)
(* for it.  Another line may take the place of the one that is held only     *)
(* when the interpreter asks for it, and holds it from then on.              *)
LinesRight ==
    \A b \in Cache!Bucket, w \in Cache!Way :
        lines[b][w].base # None =>
            \A e \in Cache!Entry :
                lines[b][w].data[e] = code[lines[b][w].base + e]

HeldRight ==
    held_base # None => lines[held.bucket][held.way].base = held_base

CacheInv ==
    /\ Cache!TypeOK /\ LinesRight /\ Cache!NoBaseTwice /\ HeldRight
    /\ Cache!ServesMemory

-------------------------------------------------------------------------------
LEMMA SizesArePositive ==
    /\ LineSize \in Nat /\ LineSize > 0
    /\ NumBuckets \in Nat /\ NumBuckets > 0
    /\ Associativity \in Nat /\ Associativity > 0
    /\ Address \subseteq Nat /\ None \notin Address
BY GeometryAssumption, GuestAssumption

LEMMA MemoryHoldsInstructions ==
    ASSUME Cache!TypeOK
    PROVE  code \in [Address -> Cache!Instruction]
BY GuestAssumption DEF Cache!TypeOK, Instruction, Cache!Instruction

LEMMA Remainders ==
    ASSUME NEW x \in Nat, NEW n \in Nat, n > 0
    PROVE  /\ x % n \in 0 .. n - 1 /\ x % n <= x
           /\ x \div n \in Nat
BY Z3

(* The parts of an address.                                                  *)
LEMMA Parts ==
    ASSUME NEW a \in Address
    PROVE  /\ Cache!BaseOf(a) \in Address /\ Cache!EntryOf(a) \in Cache!Entry
           /\ Cache!BucketOf(a) \in Cache!Bucket
           /\ Cache!BaseOf(a) + Cache!EntryOf(a) = a
           /\ \A e \in Cache!Entry : Cache!BaseOf(a) + e \in Address
<1>1. a \in Nat /\ a % LineSize \in 0 .. LineSize - 1 /\ a % LineSize <= a
      /\ a \div LineSize \in Nat
  BY SizesArePositive, Remainders
<1>2. (a \div LineSize) % NumBuckets \in 0 .. NumBuckets - 1
  BY <1>1, SizesArePositive, Remainders
<1>3. \A e \in Cache!Entry : Cache!BaseOf(a) + e \in Cache!BaseOf(a) .. Cache!BaseOf(a) + LineSize - 1
  BY <1>1, SizesArePositive DEF Cache!BaseOf, Cache!Entry
<1>4. Cache!BaseOf(a) .. Cache!BaseOf(a) + LineSize - 1 \subseteq Address
  BY GeometryAssumption DEF Cache!BaseOf
<1>5. Cache!BaseOf(a) \in Cache!BaseOf(a) .. Cache!BaseOf(a) + LineSize - 1
  BY <1>1, SizesArePositive DEF Cache!BaseOf
<1> QED
  BY <1>1, <1>2, <1>3, <1>4, <1>5, SizesArePositive
  DEF Cache!BaseOf, Cache!EntryOf, Cache!BucketOf, Cache!Entry, Cache!Bucket

LEMMA WayIsWay ==
    ASSUME Cache!TypeOK, NEW a \in Address
    PROVE  /\ Cache!WayOf(a) \in Cache!Way
           /\ Cache!Hits(a) # {} => lines[Cache!BucketOf(a)][Cache!WayOf(a)].base = Cache!BaseOf(a)
<1>1. CASE Cache!Hits(a) # {}
  BY <1>1 DEF Cache!WayOf, Cache!Hits
<1>2. CASE Cache!Hits(a) = {}
  BY <1>2, Parts DEF Cache!WayOf, Cache!TypeOK
<1> QED
  BY <1>1, <1>2

LEMMA InitCacheInv == Cache!Init => CacheInv
<1> SUFFICES ASSUME Cache!Init PROVE CacheInv
  OBVIOUS
<1>1. 0 \in Cache!Way /\ 0 \in Cache!Bucket
  BY SizesArePositive DEF Cache!Way, Cache!Bucket
<1>2. Cache!InitialLine \in Cache!Line
  BY DEF Cache!InitialLine, Cache!Line
<1>3. Cache!TypeOK
  BY <1>1, <1>2 DEF Cache!Init, Cache!TypeOK
<1>4. \A b \in Cache!Bucket, w \in Cache!Way : lines[b][w].base = None
  BY DEF Cache!Init, Cache!InitialLine
<1> QED
  BY <1>3, <1>4
  DEF Cache!Init, CacheInv, LinesRight, Cache!NoBaseTwice, HeldRight, Cache!ServesMemory

-------------------------------------------------------------------------------
(* A line that is filled is one that memory has.                             *)
LEMMA PopulatedLine ==
    ASSUME Cache!TypeOK, NEW a \in Address
    PROVE  /\ Cache!Populated(Cache!BaseOf(a)) \in Cache!Line
           /\ Cache!Populated(Cache!BaseOf(a)).base = Cache!BaseOf(a)
           /\ \A e \in Cache!Entry :
                 Cache!Populated(Cache!BaseOf(a)).data[e] = code[Cache!BaseOf(a) + e]
<1>1. Cache!BaseOf(a) \in Address /\ \A e \in Cache!Entry : Cache!BaseOf(a) + e \in Address
  BY Parts
<1> QED
  BY <1>1, MemoryHoldsInstructions DEF Cache!Populated, Cache!Line

LEMMA NextOffset ==
    ASSUME Cache!TypeOK, NEW b \in Cache!Bucket
    PROVE  (write_offset[b] + 1) % Associativity \in Cache!Way
<1>1. write_offset[b] + 1 \in Nat
  BY SizesArePositive DEF Cache!TypeOK, Cache!Way
<1> QED
  BY <1>1, SizesArePositive, Remainders DEF Cache!Way

(* What a fetch leaves: the line of a, and it is held.                       *)
LEMMA Fetched ==
    ASSUME CacheInv, NEW a \in Address, Cache!FetchLine(a), UNCHANGED code
    PROVE  /\ lines' \in [Cache!Bucket -> [Cache!Way -> Cache!Line]]
           /\ write_offset' \in [Cache!Bucket -> Cache!Way]
           /\ held' \in [bucket : Cache!Bucket, way : Cache!Way]
           /\ held_base' = Cache!BaseOf(a) /\ held_base' \in Address
           /\ LinesRight' /\ Cache!NoBaseTwice' /\ HeldRight'
<1> DEFINE b == Cache!BucketOf(a)
<1> Cache!TypeOK /\ LinesRight /\ Cache!NoBaseTwice
  BY DEF CacheInv
<1>1. b \in Cache!Bucket /\ Cache!WayOf(a) \in Cache!Way /\ Cache!BaseOf(a) \in Address
  BY Parts, WayIsWay
<1>2. held' = [bucket |-> b, way |-> Cache!WayOf(a)] /\ held_base' = Cache!BaseOf(a)
  BY DEF Cache!FetchLine
<1>3. held' \in [bucket : Cache!Bucket, way : Cache!Way]
      /\ held'.bucket = b /\ held'.way = Cache!WayOf(a)
      /\ held_base' = Cache!BaseOf(a) /\ held_base' \in Address
  BY <1>1, <1>2
<1>4. CASE Cache!Hits(a) # {}
  <2>1. lines' = lines /\ write_offset' = write_offset
    BY <1>4 DEF Cache!FetchLine
  <2>2. lines[b][Cache!WayOf(a)].base = Cache!BaseOf(a)
    BY <1>4, WayIsWay
  <2>3. HeldRight'
    BY <1>3, <2>1, <2>2 DEF HeldRight
  <2> QED
    BY <1>3, <2>1, <2>3 DEF Cache!TypeOK, LinesRight, Cache!NoBaseTwice
<1>5. CASE Cache!Hits(a) = {}
  <2> DEFINE filled == Cache!Populated(Cache!BaseOf(a))
  <2>1. /\ lines' = [lines EXCEPT ![b][Cache!WayOf(a)] = filled]
        /\ write_offset' = [write_offset EXCEPT ![b] = (@ + 1) % Associativity]
    BY <1>5 DEF Cache!FetchLine
  <2>2. filled \in Cache!Line /\ filled.base = Cache!BaseOf(a)
        /\ \A e \in Cache!Entry : filled.data[e] = code[Cache!BaseOf(a) + e]
    BY PopulatedLine
  <2> HIDE DEF filled
  <2>3. lines' \in [Cache!Bucket -> [Cache!Way -> Cache!Line]]
    BY <1>1, <2>1, <2>2 DEF Cache!TypeOK
  <2>4. write_offset' \in [Cache!Bucket -> Cache!Way]
    BY <1>1, <2>1, NextOffset DEF Cache!TypeOK
  <2>5. lines'[b][Cache!WayOf(a)] = filled
    BY <1>1, <2>1 DEF Cache!TypeOK
  <2>6. \A c \in Cache!Bucket, w \in Cache!Way :
            (c = b /\ w = Cache!WayOf(a)) \/ lines'[c][w] = lines[c][w]
    BY <1>1, <2>1 DEF Cache!TypeOK
  <2>7. LinesRight'
    BY <2>2, <2>5, <2>6 DEF LinesRight
  <2>8. \A w \in Cache!Way : lines[b][w].base # Cache!BaseOf(a)
    BY <1>5 DEF Cache!Hits
  <2>9. Cache!NoBaseTwice'
    BY <1>1, <2>2, <2>5, <2>6, <2>8 DEF Cache!NoBaseTwice
  <2>10. HeldRight'
    BY <1>3, <2>2, <2>5 DEF HeldRight
  <2> QED
    BY <1>3, <2>3, <2>4, <2>7, <2>9, <2>10
<1> QED
  BY <1>4, <1>5

LEMMA EnterCacheInv ==
    ASSUME CacheInv, NEW a \in Address, Cache!Enter(a)
    PROVE  CacheInv'
<1>1. Cache!FetchLine(a) /\ UNCHANGED <<code, served>>
  BY DEF Cache!Enter
<1>2. Cache!TypeOK'
  BY <1>1, Fetched DEF CacheInv, Cache!TypeOK
<1> QED
  BY <1>1, <1>2, Fetched DEF CacheInv, Cache!ServesMemory

LEMMA ExecuteCacheInv ==
    ASSUME CacheInv, NEW a \in Address, Cache!Execute(a)
    PROVE  CacheInv'
<1> DEFINE line == lines'[held'.bucket][held'.way]
<1>1. code' = code /\ served' = <<a, line.data[Cache!EntryOf(a)]>>
  BY DEF Cache!Execute
<1>2. /\ lines' \in [Cache!Bucket -> [Cache!Way -> Cache!Line]]
      /\ write_offset' \in [Cache!Bucket -> Cache!Way]
      /\ held' \in [bucket : Cache!Bucket, way : Cache!Way]
      /\ held_base' = Cache!BaseOf(a) /\ held_base' \in Address
      /\ LinesRight' /\ Cache!NoBaseTwice' /\ HeldRight'
  <2>1. CASE Cache!Contains(held_base, a)
    <3>1. UNCHANGED <<code, lines, write_offset, held, held_base>>
      BY <2>1 DEF Cache!Execute
    <3>2. LinesRight' /\ Cache!NoBaseTwice' /\ HeldRight'
      BY <3>1 DEF CacheInv, LinesRight, Cache!NoBaseTwice, HeldRight
    <3> QED
      BY <2>1, <3>1, <3>2, Parts DEF CacheInv, Cache!TypeOK, Cache!Contains
  <2>2. CASE ~Cache!Contains(held_base, a)
    <3>1. Cache!FetchLine(a)
      BY <2>2 DEF Cache!Execute
    <3> QED
      BY <1>1, <3>1, Fetched
  <2> QED
    BY <2>1, <2>2
<1>3. line \in Cache!Line /\ line.base = Cache!BaseOf(a)
  BY <1>2, SizesArePositive DEF HeldRight
<1>4. Cache!EntryOf(a) \in Cache!Entry /\ Cache!BaseOf(a) \in Address
      /\ Cache!BaseOf(a) + Cache!EntryOf(a) = a
  BY Parts
<1>5. line.data[Cache!EntryOf(a)] = code'[a]
  <2>1. held'.bucket \in Cache!Bucket /\ held'.way \in Cache!Way
    BY <1>2
  <2>2. line.base # None
    BY <1>3, <1>4, SizesArePositive
  <2>3. \A e \in Cache!Entry : line.data[e] = code'[line.base + e]
    BY <1>2, <2>1, <2>2 DEF LinesRight
  <2> QED
    BY <1>3, <1>4, <2>3
<1>6. line.data[Cache!EntryOf(a)] \in Cache!Instruction \cup {None}
  BY <1>3, <1>4 DEF Cache!Line
<1>7. Cache!ServesMemory'
  BY <1>1, <1>5 DEF Cache!ServesMemory
<1>8. Cache!TypeOK'
  BY <1>1, <1>2, <1>6 DEF CacheInv, Cache!TypeOK
<1> QED
  BY <1>2, <1>7, <1>8 DEF CacheInv

THEOREM CacheInductive == Cache!Spec => []CacheInv
<1>1. CacheInv /\ [Cache!Next]_(Cache!vars) => CacheInv'
  <2> SUFFICES ASSUME CacheInv, [Cache!Next]_(Cache!vars) PROVE CacheInv'
    OBVIOUS
  <2>1. CASE UNCHANGED Cache!vars
    BY <2>1 DEF Cache!vars, CacheInv, Cache!TypeOK, LinesRight, Cache!NoBaseTwice, HeldRight,
                Cache!ServesMemory
  <2>2. ASSUME NEW a \in Address, Cache!Enter(a) PROVE CacheInv'
    BY <2>2, EnterCacheInv
  <2>3. ASSUME NEW a \in Address, Cache!Execute(a) PROVE CacheInv'
    BY <2>3, ExecuteCacheInv
  <2> QED
    BY <2>1, <2>2, <2>3 DEF Cache!Next
<1> QED
  BY <1>1, InitCacheInv, PTL DEF Cache!Spec

-------------------------------------------------------------------------------
(* The interpreter executes the instruction that guest memory holds at the   *)
(* program counter, whichever lines have taken the place of which            *)
(* (fetch_line, populate_line and execute_internal).                         *)
THEOREM CacheServesMemory == Cache!Spec => []Cache!ServesMemory
<1>1. CacheInv => Cache!ServesMemory
  BY DEF CacheInv
<1> QED
  BY <1>1, CacheInductive, PTL

(* A line is in its bucket once (fetch_line).                                *)
THEOREM LinesAreDistinct == Cache!Spec => []Cache!NoBaseTwice
<1>1. CacheInv => Cache!NoBaseTwice
  BY DEF CacheInv
<1> QED
  BY <1>1, CacheInductive, PTL

(* What the interpreter executes is what guest memory holds                  *)
(* (execute_internal, fetch_line and populate_line).                         *)
THEOREM ExecutesMemory == CachedSpec => []ServesMemory
<1>1. Cache!ServesMemory => ServesMemory
  BY DEF ServesMemory
<1> QED
  BY <1>1, CacheServesMemory, CacheIsTransparent, PTL
==============================================================================

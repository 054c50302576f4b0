------------------------- MODULE GeneratedCodeProofs -------------------------
(*****************************************************************************)
(* For programs that put no control instruction into a slot, and of which    *)
(* those that may raise run one instruction at a time, generated code orders *)
(* instructions as the architecture does, whatever the program and wherever  *)
(* quanta end.  What raises nothing is counted exactly.  Each assumption is  *)
(* needed: an exception after other instructions of a quantum is not whole   *)
(* (ExceptionHistory).                                                       *)
(*****************************************************************************)
EXTENDS GeneratedCode, TLAPS

(* What compilers emit.                                                      *)
Legal ==
    \A p \in Programs, a \in Address : SetsNoCTI(p[a]) => ~Control(p[Succ[a]])

(* The catch of execute_internal() restores what a chunk was entered with:   *)
(* that is right if nothing has run in it since.                             *)
Raising(p) == \E a \in Address : Throws(p[a])
Stepped == \A p \in Programs : Raising(p) => Quanta[p] \subseteq {1}

(* The flags and the branch target of an instruction that may run: whoever   *)
(* set them is right before it.  After an exception a forbidden slot may be  *)
(* remembered that is long past.                                             *)
Settled(a, f, t) == "branch_delay" \in f => t # None /\ AfterDelayBranch(a)

(* In a delay slot that raised, the target is still there to go on at.       *)
FlowInv ==
    /\ where = "chunk" => ~fromException /\ Settled(at, ebx, esi)
    /\ where # "chunk" => IF fromException
                           THEN "branch_delay" \in flags => target # None
                           ELSE Settled(pc, flags, target)

(* While a program that may raise has its instruction to run, a chunk is     *)
(* where it was entered.                                                     *)
CountInv ==
    IF Raising(code)
       THEN /\ left <= 1
            /\ where = "chunk" =>
                  /\ rdi <= 1
                  /\ rdi > 0 => entry = at /\ value = ebx
       ELSE ~fromException /\ left \in Nat /\ Balanced

IInv == TypeOK /\ FlowInv /\ CountInv

LEMMA SuccIsAddress == \A a \in Address : Succ[a] \in Address
BY GuestAssumption

LEMMA NoneIsNoAddress == None \notin Address
BY GuestAssumption

LEMMA ProgramsHoldInstructions == Programs \subseteq [Address -> Instruction]
BY GuestAssumption

LEMMA QuantaArePositive ==
    ASSUME NEW program \in Programs
    PROVE  Quanta[program] \subseteq Nat \ {0}
BY GeneratedCodeAssumption

LEMMA WaysOf ==
    ASSUME NEW i \in Instruction, NEW w \in Ways(i)
    PROVE  /\ w \in Address \cup {None}
           /\ ~Control(i) => w = None
           /\ i = "jump" => w # None
BY NoneIsNoAddress DEF Ways, Instruction, Control

(* A control instruction follows nothing that would forbid it.               *)
LEMMA ControlIsFree ==
    ASSUME Legal, code \in Programs, NEW a \in Address, Control(code[a])
    PROVE  ~AfterSetsNoCTI(a) /\ ~AfterDelayBranch(a)
BY DEF Legal, AfterSetsNoCTI, AfterDelayBranch, SetsNoCTI

LEMMA NeverRefused ==
    ASSUME Legal, IInv, where = "chunk"
    PROVE  ~Refused
BY ControlIsFree DEF Refused, IInv, TypeOK

LEMMA ControlHasNoSlot ==
    ASSUME Legal, IInv, where = "chunk", Control(code[at])
    PROVE  /\ "branch_delay" \notin ebx /\ ~AfterDelayBranch(at)
           /\ AfterPrefix = ebx
<1>1. at \in Address /\ code \in Programs
  BY DEF IInv, TypeOK
<1>2. ~AfterSetsNoCTI(at) /\ ~AfterDelayBranch(at)
  BY <1>1, ControlIsFree
<1>3. QED
  BY <1>2 DEF AfterPrefix, IInv, FlowInv, Settled

-------------------------------------------------------------------------------
(* What an instruction leaves in the registers of the chunk.                 *)
LEMMA RetireControl ==
    ASSUME Legal, IInv, NEW w, NEW land, Retire(w, land), Control(code[at])
    PROVE  /\ code[at] \in {"branch", "compact"}
           /\ code[at] = "compact" => w = None
           /\ w \in Address \cup {None} /\ w \in Ways(code[at])
           /\ at' = Succ[at]
           /\ "no_cti" \in ebx' /\ ebx' \subseteq Flags
           /\ "branch_delay" \in ebx' <=> w # None
           /\ esi' = (IF w # None THEN w ELSE esi)
<1>1. /\ where = "chunk" /\ code[at] \in Instruction
      /\ w \in Ways(code[at]) /\ ebx \subseteq Flags
      /\ code[at] = "branch" \/ w = None
  BY ProgramsHoldInstructions DEF Retire, Running, IInv, TypeOK
<1>2. /\ AfterPrefix = ebx /\ ~AfterDelayBranch(at)
      /\ "branch_delay" \notin ebx
  BY <1>1, ControlHasNoSlot
<1>3. w \in Address \cup {None} /\ code[at] \in {"branch", "compact"}
  BY <1>1, WaysOf DEF Control
<1>4. SetsNoCTI(code[at])
  BY <1>3 DEF SetsNoCTI
<1>5. EndSlot(ebx \cup (IF w # None THEN {"branch_delay"} ELSE {})
                  \cup {"no_cti"},
              IF w # None THEN w ELSE esi, land)
  BY <1>2, <1>4 DEF Retire
<1>6. /\ at' = Succ[at] /\ esi' = (IF w # None THEN w ELSE esi)
      /\ ebx' = ebx \cup (IF w # None THEN {"branch_delay"} ELSE {})
                    \cup {"no_cti"}
  BY <1>2, <1>5 DEF EndSlot
<1>7. QED
  BY <1>1, <1>2, <1>3, <1>6 DEF Flags

LEMMA RetireOther ==
    ASSUME IInv, NEW w, NEW land, Retire(w, land), ~Control(code[at])
    PROVE  /\ w = None
           /\ "branch_delay" \notin ebx' /\ ebx' \subseteq Flags
           /\ at' = (IF "branch_delay" \in ebx THEN esi ELSE Succ[at])
           /\ esi' = (IF "branch_delay" \in ebx THEN None ELSE esi)
<1>1. /\ where = "chunk" /\ code[at] \in Instruction
      /\ w \in Ways(code[at]) /\ ebx \subseteq Flags
  BY ProgramsHoldInstructions DEF Retire, Running, IInv, TypeOK
<1>2. w = None /\ ~SetsNoCTI(code[at])
  BY <1>1, WaysOf DEF Control, SetsNoCTI
<1>3. EndSlot(AfterPrefix, esi, land)
  BY <1>2 DEF Retire
<1>4. "branch_delay" \in ebx => AfterDelayBranch(at)
  BY <1>1 DEF IInv, FlowInv, Settled
<1>5. /\ AfterPrefix \subseteq ebx
      /\ "branch_delay" \in AfterPrefix <=> "branch_delay" \in ebx
  BY DEF AfterPrefix
<1>6. /\ ebx' \subseteq AfterPrefix /\ "branch_delay" \notin ebx'
      /\ at' = (IF "branch_delay" \in ebx THEN esi ELSE Succ[at])
      /\ esi' = (IF "branch_delay" \in ebx THEN None ELSE esi)
  BY <1>3, <1>4, <1>5 DEF EndSlot
<1>7. QED
  BY <1>1, <1>2, <1>5, <1>6

-------------------------------------------------------------------------------
(* The count.  No program changes while it runs.                             *)
LEMMA CountsOne ==
    ASSUME IInv, where = "chunk", rdi > 0, Counted, where' = "chunk",
           rdi' = rdi - 1,
           UNCHANGED <<code, left, fromException, quantum>>
    PROVE  ran' \in Nat /\ rdi' \in Nat /\ CountInv'
<1>1. ran \in Nat /\ rdi \in Nat /\ quantum \in Nat
  BY DEF IInv, TypeOK
<1>2. ran' \in Nat /\ rdi' \in Nat
  BY <1>1 DEF Counted
<1>3. CASE Raising(code)
  <2>1. left <= 1 /\ rdi <= 1
    BY <1>3 DEF IInv, CountInv
  <2>2. rdi' = 0
    BY <1>1, <2>1
  <2>3. Raising(code')
    BY <1>3
  <2>4. QED
    BY <1>2, <2>1, <2>2, <2>3 DEF CountInv
<1>4. CASE ~Raising(code)
  <2>1. ran + rdi = quantum
    BY <1>4 DEF IInv, CountInv, Balanced, InChunk
  <2>2. ran' = ran + 1
    BY <1>1, <2>1 DEF Counted
  <2>3. Balanced'
    BY <1>1, <2>1, <2>2 DEF Balanced, InChunk
  <2>4. QED
    BY <1>2, <1>4, <2>3 DEF IInv, CountInv
<1>5. QED
  BY <1>3, <1>4

-------------------------------------------------------------------------------
LEMMA InitIInv == Init => IInv
<1> SUFFICES ASSUME Init PROVE IInv
  OBVIOUS
<1>1. TypeOK
  <2>1. left \in Int /\ rdi \in Nat /\ quantum \in Nat /\ ran \in Nat
    BY DEF Init
  <2>2. /\ flags \subseteq Flags /\ value \subseteq Flags
        /\ ebx \subseteq Flags
    BY DEF Init
  <2>3. QED
    BY <2>1, <2>2 DEF Init, TypeOK
<1>2. FlowInv
  BY DEF Init, FlowInv, Settled
<1>3. CountInv
  BY DEF Init, CountInv, Balanced
<1>4. QED
  BY <1>1, <1>2, <1>3 DEF IInv

LEMMA ExecuteIInv ==
    ASSUME Stepped, IInv, NEW n \in Quanta[code], Execute(n)
    PROVE  IInv'
<1>1. n \in Nat /\ code \in Programs
  BY QuantaArePositive DEF IInv, TypeOK
<1>2. TypeOK'
  BY <1>1 DEF IInv, TypeOK, Execute, local
<1>3. FlowInv'
  BY DEF IInv, FlowInv, Settled, AfterDelayBranch, Execute, local
<1>4. /\ where' = "loop" /\ left' = n /\ quantum' = n /\ ran' = 0
      /\ UNCHANGED <<code, fromException>>
  BY DEF Execute
<1>5. ASSUME Raising(code) PROVE CountInv'
  <2>1. left' = 1
    BY <1>1, <1>4, <1>5 DEF Stepped
  <2>2. QED
    BY <1>4, <1>5, <2>1 DEF CountInv
<1>6. ASSUME ~Raising(code) PROVE CountInv'
  <2>1. Balanced'
    BY <1>1, <1>4 DEF Balanced, InChunk
  <2>2. QED
    BY <1>1, <1>4, <1>6, <2>1 DEF IInv, CountInv
<1>7. QED
  BY <1>2, <1>3, <1>5, <1>6 DEF IInv

LEMMA LeaveIInv ==
    ASSUME IInv, Leave
    PROVE  IInv'
<1>1. TypeOK' /\ FlowInv'
  BY DEF IInv, TypeOK, FlowInv, Settled, AfterDelayBranch, Leave, processor,
         local
<1>2. CountInv'
  BY DEF IInv, CountInv, Balanced, InChunk, Leave, processor, local
<1>3. QED
  BY <1>1, <1>2 DEF IInv

(* Where the loop goes on is an address, and in no slot after an exception.  *)
LEMMA ResumesWell ==
    ASSUME IInv, where # "chunk"
    PROVE  /\ Resumption \in Address
           /\ ~fromException => Settled(Resumption, flags, target)
BY SuccIsAddress
DEF IInv, TypeOK, FlowInv, Resumption

LEMMA EnterIInv ==
    ASSUME IInv, Enter
    PROVE  IInv'
<1> DEFINE f == IF fromException THEN flags \ {"branch_delay"} ELSE flags
<1>1. /\ where = "loop" /\ left > 0 /\ left \in Int
      /\ flags \subseteq Flags /\ target \in Address \cup {None}
      /\ code \in Programs /\ quantum \in Nat /\ ran \in Nat
      /\ fromException \in BOOLEAN
  BY DEF IInv, TypeOK, Enter
<1>2. /\ where' = "chunk" /\ fromException' = FALSE
      /\ pc' = Resumption /\ at' = Resumption /\ entry' = Resumption
      /\ flags' = f /\ ebx' = f /\ value' = f
      /\ target' = target /\ esi' = target /\ left' = left /\ rdi' = left
      /\ code' = code /\ quantum' = quantum /\ ran' = ran
  BY DEF Enter
<1>3. /\ Resumption \in Address
      /\ f \subseteq Flags /\ Settled(Resumption, f, target)
  BY <1>1, ResumesWell DEF Settled
<1> HIDE DEF f
<1>4. rdi' \in Nat
  BY <1>1, <1>2
<1>5. TypeOK'
  BY <1>1, <1>2, <1>3, <1>4 DEF TypeOK
<1>6. FlowInv'
  BY <1>2, <1>3 DEF FlowInv, Settled, AfterDelayBranch
<1>7. ASSUME Raising(code) PROVE CountInv'
  <2>1. left <= 1
    BY <1>7 DEF IInv, CountInv
  <2>2. QED
    BY <1>2, <1>7, <2>1 DEF CountInv
<1>8. ASSUME ~Raising(code) PROVE CountInv'
  <2>1. ran + left = quantum /\ left \in Nat
    BY <1>1, <1>8 DEF IInv, CountInv, Balanced, InChunk
  <2>2. Balanced'
    BY <1>2, <2>1 DEF Balanced, InChunk
  <2>3. QED
    BY <1>2, <1>8, <2>1, <2>2 DEF CountInv
<1>9. QED
  BY <1>5, <1>6, <1>7, <1>8 DEF IInv

LEMMA TickIInv ==
    ASSUME IInv, Tick
    PROVE  IInv'
<1>1. /\ where = "chunk" /\ rdi = 0 /\ fromException = FALSE
      /\ at \in Address /\ ebx \subseteq Flags
      /\ esi \in Address \cup {None} /\ code \in Programs
      /\ quantum \in Nat /\ ran \in Nat
  BY DEF IInv, TypeOK, FlowInv, Tick
<1>2. /\ where' = "loop" /\ ~fromException' /\ fromException' \in BOOLEAN
      /\ pc' = at /\ flags' = ebx /\ target' = esi /\ left' = 0
      /\ entry' = None /\ value' = {} /\ at' = None /\ ebx' = {}
      /\ esi' = None /\ rdi' = 0
      /\ code' = code /\ quantum' = quantum /\ ran' = ran
  BY <1>1 DEF Tick, Ends
<1>3. TypeOK'
  BY <1>1, <1>2 DEF TypeOK
<1>4. FlowInv'
  BY <1>1, <1>2 DEF IInv, FlowInv, Settled, AfterDelayBranch
<1>5. ASSUME Raising(code) PROVE CountInv'
  BY <1>2, <1>5 DEF CountInv
<1>6. ASSUME ~Raising(code) PROVE CountInv'
  <2>1. Balanced'
    BY <1>1, <1>2, <1>6 DEF IInv, CountInv, Balanced, InChunk
  <2>2. QED
    BY <1>2, <1>6, <2>1 DEF CountInv
<1>7. QED
  BY <1>3, <1>4, <1>5, <1>6 DEF IInv

(* A step of the chunk changes its registers and nothing else.               *)
LEMMA ChunkIInv ==
    ASSUME IInv, where = "chunk", rdi > 0, rdi' = rdi - 1, Counted,
           UNCHANGED <<code, target, flags, left, fromException, where,
                       entry, value, quantum>>,
           pc' \in Address, at' \in Address, ebx' \subseteq Flags,
           esi' \in Address \cup {None}, Settled(at, ebx, esi)'
    PROVE  IInv'
<1>1. ran' \in Nat /\ rdi' \in Nat /\ CountInv'
  BY CountsOne
<1>2. TypeOK'
  BY <1>1 DEF IInv, TypeOK
<1>3. FlowInv'
  BY DEF IInv, FlowInv
<1>4. QED
  BY <1>1, <1>2, <1>3 DEF IInv

LEMMA RetireIInv ==
    ASSUME Legal, IInv, NEW w, NEW land, Retire(w, land)
    PROVE  IInv'
<1>1. /\ where = "chunk" /\ rdi > 0 /\ rdi' = rdi - 1 /\ Counted
      /\ code' = code /\ pc' = pc
      /\ UNCHANGED <<code, target, flags, left, fromException, where,
                     entry, value, quantum>>
  BY DEF Retire, Running, processor
<1>2. /\ pc \in Address /\ at \in Address /\ Succ[at] \in Address
      /\ esi \in Address \cup {None}
  BY <1>1, SuccIsAddress DEF IInv, TypeOK
<1>3. CASE Control(code[at])
  <2>1. /\ w \in Address \cup {None} /\ at' = Succ[at]
        /\ w # None => code[at] = "branch"
        /\ code[at] \in {"branch", "compact"}
        /\ ebx' \subseteq Flags
        /\ "branch_delay" \in ebx' <=> w # None
        /\ esi' = (IF w # None THEN w ELSE esi)
    BY <1>3, RetireControl
  <2>2. w # None => AfterDelayBranch(Succ[at])
    BY <1>2, <2>1 DEF AfterDelayBranch
  <2>3. Settled(at, ebx, esi)'
    BY <1>1, <2>1, <2>2 DEF Settled, AfterDelayBranch
  <2>4. esi' \in Address \cup {None}
    BY <1>2, <2>1
  <2>5. QED
    BY <1>1, <1>2, <2>1, <2>3, <2>4, ChunkIInv
<1>4. CASE ~Control(code[at])
  <2>1. /\ "branch_delay" \notin ebx' /\ ebx' \subseteq Flags
        /\ at' = (IF "branch_delay" \in ebx THEN esi ELSE Succ[at])
        /\ esi' = (IF "branch_delay" \in ebx THEN None ELSE esi)
    BY <1>4, RetireOther
  <2>2. "branch_delay" \in ebx => esi # None
    BY <1>1 DEF IInv, FlowInv, Settled
  <2>3. Settled(at, ebx, esi)'
    BY <2>1 DEF Settled
  <2>4. at' \in Address /\ esi' \in Address \cup {None}
    BY <1>2, <2>1, <2>2
  <2>5. QED
    BY <1>1, <1>2, <2>1, <2>3, <2>4, ChunkIInv
<1>5. QED
  BY <1>3, <1>4

LEMMA JumpIInv ==
    ASSUME Legal, IInv, NEW w \in Address, Jump(w)
    PROVE  IInv'
<1>1. /\ where = "chunk" /\ rdi > 0 /\ rdi' = rdi - 1 /\ Counted
      /\ UNCHANGED <<code, target, flags, left, fromException, where,
                     entry, value, quantum>>
      /\ pc' = w /\ at' = w /\ ebx' = ebx /\ esi' = esi
      /\ Control(code[at])
  BY DEF Jump, Running, Control
<1>2. "branch_delay" \notin ebx'
  BY <1>1, ControlHasNoSlot
<1>3. Settled(at, ebx, esi)'
  BY <1>2 DEF Settled
<1>4. esi' \in Address \cup {None} /\ ebx' \subseteq Flags
  BY <1>1 DEF IInv, TypeOK
<1>5. QED
  BY <1>1, <1>3, <1>4, ChunkIInv

(* An exception finds the processor as the chunk was entered, and that is    *)
(* as the instruction that raised it was reached.                            *)
LEMMA RaiseIs ==
    ASSUME Legal, IInv, NEW handled \in BOOLEAN, Raise(handled)
    PROVE  /\ where = "chunk" /\ Throws(code[at]) /\ Raising(code)
           /\ rdi = 1
           /\ where' # "chunk" /\ where' \in {"host", "loop"}
           /\ pc' = at /\ flags' = ebx /\ target' = esi
           /\ fromException' = TRUE
           /\ left' \in Int /\ left' <= 1
           /\ code' = code /\ quantum' = quantum /\ Counted /\ Ends
<1>1. /\ where = "chunk" /\ rdi > 0 /\ rdi \in Nat /\ at \in Address
  BY DEF Raise, Running, IInv, TypeOK
<1>2. /\ Throws(code[at])
      /\ \E n \in {rdi, rdi - 1} : Caught(n, handled)
  BY <1>1, NeverRefused DEF Raise, Throws
<1>3. Raising(code)
  BY <1>1, <1>2 DEF Raising
<1>4. rdi = 1 /\ entry = at /\ value = ebx
  BY <1>1, <1>3 DEF IInv, CountInv
<1>5. PICK n \in {0, 1} : Caught(n, handled)
  BY <1>2, <1>4
<1>6. left' \in {n, n - 1} /\ where' \in {"host", "loop"}
  BY <1>5 DEF Caught
<1>7. QED
  BY <1>1, <1>2, <1>3, <1>4, <1>5, <1>6 DEF Caught, Raise

LEMMA RaiseIInv ==
    ASSUME Legal, IInv, NEW handled \in BOOLEAN, Raise(handled)
    PROVE  IInv'
<1>1. /\ where = "chunk" /\ Raising(code)
      /\ where' # "chunk" /\ where' \in {"host", "loop"}
      /\ pc' = at /\ flags' = ebx /\ target' = esi
      /\ fromException' = TRUE
      /\ left' \in Int /\ left' <= 1
      /\ code' = code /\ quantum' = quantum /\ Counted /\ Ends
  BY RaiseIs
<1>2. /\ at \in Address /\ ebx \subseteq Flags /\ code \in Programs
      /\ esi \in Address \cup {None} /\ quantum \in Nat /\ ran \in Nat
  BY <1>1 DEF IInv, TypeOK
<1>3. ran' \in Nat
  BY <1>1, <1>2 DEF Counted
<1>4. TypeOK'
  BY <1>1, <1>2, <1>3 DEF TypeOK, Ends
<1>5. FlowInv'
  BY <1>1 DEF IInv, FlowInv, Settled
<1>6. CountInv'
  BY <1>1 DEF CountInv
<1>7. QED
  BY <1>4, <1>5, <1>6 DEF IInv

LEMMA NextIInv ==
    ASSUME Legal, Stepped, IInv, [Next]_vars
    PROVE  IInv'
<1>1. CASE UNCHANGED vars
  <2>1. TypeOK' /\ FlowInv'
    BY <1>1
    DEF IInv, TypeOK, FlowInv, Settled, AfterDelayBranch, vars, processor,
        local
  <2>2. CountInv'
    BY <1>1 DEF IInv, CountInv, Balanced, InChunk, vars, processor, local
  <2>3. QED
    BY <2>1, <2>2 DEF IInv
<1>2. QED
  BY <1>1, ExecuteIInv, LeaveIInv, EnterIInv, TickIInv, RetireIInv,
     JumpIInv, RaiseIInv DEF Next

-------------------------------------------------------------------------------
(* Refinement.  Execute, Leave, Enter and Tick move state between the places *)
(* it is kept in and are no step of the architecture.                        *)
Seen == <<code, ArchPc, Slot, Forbidden>>

LEMMA ArchReadsGuest ==
    /\ \A i : Arch!Control(i) <=> Control(i)
    /\ \A i : Arch!Ways(i) = Ways(i)
    /\ \A i : Arch!Throws(i) <=> Throws(i)
BY DEF Arch!Control, Control, Arch!Ways, Ways, Arch!Throws, Throws

LEMMA InitRefines == Init => Arch!Init
BY DEF Init, Arch!Init, ArchPc, Slot, Forbidden, InChunk, Resumption

LEMMA ArchPcIsAddress ==
    ASSUME IInv
    PROVE  ArchPc \in Address
BY ResumesWell DEF IInv, TypeOK, ArchPc, InChunk

(* No legal program is ever at a forbidden instruction.                      *)
LEMMA NeverForbidden ==
    ASSUME Legal, IInv
    PROVE  Forbidden = FALSE
BY ArchPcIsAddress, ControlIsFree DEF Forbidden, IInv, TypeOK

LEMMA NeverForbiddenNext ==
    ASSUME Legal, IInv'
    PROVE  Forbidden' = FALSE
<1>1. (ArchPc \in Address)'
  <2>1. Resumption' \in Address \/ InChunk'
    BY SuccIsAddress DEF IInv, TypeOK, FlowInv, Resumption, InChunk
  <2>2. QED
    BY <2>1 DEF IInv, TypeOK, ArchPc, InChunk
<1>2. (AfterSetsNoCTI(ArchPc))' <=> \E p \in Address :
          Succ[p] = ArchPc' /\ SetsNoCTI(code'[p])
  BY DEF AfterSetsNoCTI
<1>3. ~((AfterSetsNoCTI(ArchPc))' /\ Control(code'[ArchPc']))
  BY <1>1, <1>2 DEF Legal, IInv, TypeOK
<1>4. QED
  BY <1>3 DEF Forbidden

LEMMA ExecuteRefines ==
    ASSUME NEW n \in Quanta[code], Execute(n)
    PROVE  code' = code /\ ArchPc' = ArchPc /\ Slot' = Slot
BY DEF Execute, ArchPc, Slot, InChunk, Resumption

LEMMA LeaveRefines ==
    ASSUME Leave \/ UNCHANGED vars
    PROVE  code' = code /\ ArchPc' = ArchPc /\ Slot' = Slot
BY DEF Leave, vars, processor, local, ArchPc, Slot, InChunk, Resumption

LEMMA EnterRefines ==
    ASSUME IInv, Enter
    PROVE  code' = code /\ ArchPc' = ArchPc /\ Slot' = Slot
<1>1. /\ where = "loop" /\ where' = "chunk" /\ code' = code
      /\ at' = Resumption /\ esi' = target
      /\ ebx' = IF fromException THEN flags \ {"branch_delay"} ELSE flags
  BY DEF Enter
<1>2. QED
  BY <1>1 DEF ArchPc, Slot, InChunk

LEMMA TickRefines ==
    ASSUME IInv, Tick
    PROVE  code' = code /\ ArchPc' = ArchPc /\ Slot' = Slot
<1>1. /\ where = "chunk" /\ where' = "loop" /\ ~fromException'
      /\ pc' = at /\ flags' = ebx /\ target' = esi /\ code' = code
  BY DEF Tick, IInv, FlowInv
<1>2. QED
  BY <1>1 DEF ArchPc, Slot, InChunk, Resumption

LEMMA InsideChunk ==
    ASSUME where = "chunk"
    PROVE  /\ ArchPc = at
           /\ Slot = (IF "branch_delay" \in ebx THEN esi ELSE None)
BY DEF ArchPc, Slot, InChunk


LEMMA RetireRefines ==
    ASSUME Legal, IInv, IInv', NEW w, NEW land, Retire(w, land)
    PROVE  Arch!Next
<1>1. /\ where = "chunk" /\ where' = "chunk" /\ code' = code
      /\ at \in Address
  BY DEF Retire, Running, processor, IInv, TypeOK
<1>2. /\ ArchPc = at /\ ArchPc' = at'
      /\ Slot' = (IF "branch_delay" \in ebx' THEN esi' ELSE None)
  BY <1>1 DEF ArchPc, Slot, InChunk
<1>3. Forbidden = FALSE /\ Forbidden' = FALSE
  BY NeverForbidden, NeverForbiddenNext
<1>4. CASE Control(code[at])
  <2>1. /\ code[at] \in {"branch", "compact"}
        /\ code[at] = "compact" => w = None
        /\ w \in Address \cup {None} /\ w \in Ways(code[at])
        /\ at' = Succ[at]
        /\ "branch_delay" \in ebx' <=> w # None
        /\ esi' = (IF w # None THEN w ELSE esi)
    BY <1>4, RetireControl
  <2>2. Slot = None
    BY <1>1, <1>4, ControlHasNoSlot, InsideChunk
  <2>3. Slot' = IF code[at] = "branch" THEN w ELSE None
    BY <1>2, <2>1
  <2>4. ~Control(code[Succ[at]])
    BY <1>1, <2>1 DEF Legal, IInv, TypeOK, SetsNoCTI
  <2>5. Arch!Control(code[Succ[at]]) = FALSE
    BY <2>4 DEF Control, Arch!Control
  <2>6. Arch!Transfer(w)
    BY <1>1, <1>2, <1>3, <1>4, <2>1, <2>2, <2>3, <2>5, ArchReadsGuest
    DEF Arch!Transfer
  <2>7. QED
    BY <2>1, <2>6 DEF Arch!Next
<1>5. CASE ~Control(code[at])
  <2>1. /\ "branch_delay" \notin ebx'
        /\ at' = (IF "branch_delay" \in ebx THEN esi ELSE Succ[at])
    BY <1>5, RetireOther
  <2>2. "branch_delay" \in ebx => esi # None
    BY <1>1 DEF IInv, FlowInv, Settled
  <2>3. ArchPc' = Arch!Onward
    BY <1>1, <1>2, <2>1, <2>2, InsideChunk DEF Arch!Onward
  <2>4. Slot' = None
    BY <1>2, <2>1
  <2>5. ~Arch!Control(code[ArchPc])
    BY <1>2, <1>5, ArchReadsGuest
  <2>6. Arch!Run
    BY <1>1, <1>3, <2>3, <2>4, <2>5 DEF Arch!Run
  <2>7. QED
    BY <2>6 DEF Arch!Next
<1>6. QED
  BY <1>4, <1>5

LEMMA JumpRefines ==
    ASSUME Legal, IInv, IInv', NEW w \in Address, Jump(w)
    PROVE  Arch!Next
<1>1. /\ where = "chunk" /\ where' = "chunk" /\ code' = code
      /\ at' = w /\ ebx' = ebx /\ code[at] \in {"compact", "jump"}
  BY DEF Jump, Running
<1>2. Control(code[at]) /\ w \in Ways(code[at]) /\ w # None
  BY <1>1, NoneIsNoAddress DEF Control, Ways
<1>3. "branch_delay" \notin ebx /\ "branch_delay" \notin ebx'
  BY <1>1, <1>2, ControlHasNoSlot
<1>4. ArchPc = at /\ ArchPc' = w
  BY <1>1 DEF ArchPc, InChunk
<1>5. Slot = None /\ Slot' = None /\ Forbidden = FALSE /\ Forbidden' = FALSE
  BY <1>1, <1>3, NeverForbidden, NeverForbiddenNext DEF Slot, InChunk
<1>6. Arch!Transfer(w)
  BY <1>1, <1>2, <1>4, <1>5, ArchReadsGuest DEF Arch!Transfer
<1>7. QED
  BY <1>6 DEF Arch!Next

(* After an exception the processor is past the instruction that raised it.  *)
LEMMA RaiseLands ==
    ASSUME Legal, IInv, NEW handled \in BOOLEAN, Raise(handled)
    PROVE  /\ ArchPc = at /\ Throws(code[at])
           /\ ArchPc' = (IF Slot = None THEN Succ[at] ELSE Slot)
           /\ Slot' = None /\ code' = code
<1>1. /\ where = "chunk" /\ Throws(code[at]) /\ where' # "chunk"
      /\ pc' = at /\ flags' = ebx /\ target' = esi
      /\ fromException' = TRUE /\ code' = code
  BY RaiseIs
<1>2. "branch_delay" \in ebx => esi # None
  BY <1>1 DEF IInv, FlowInv, Settled
<1>3. /\ ArchPc = at
      /\ Slot = (IF "branch_delay" \in ebx THEN esi ELSE None)
  BY <1>1, InsideChunk
<1>4. /\ ArchPc' = (IF "branch_delay" \in ebx THEN esi ELSE Succ[at])
      /\ Slot' = None
  BY <1>1 DEF ArchPc, Slot, InChunk, Resumption
<1>5. QED
  BY <1>1, <1>2, <1>3, <1>4

LEMMA RaiseRefines ==
    ASSUME Legal, IInv, IInv', NEW handled \in BOOLEAN, Raise(handled)
    PROVE  Arch!Next
<1>1. /\ ArchPc = at /\ Throws(code[at])
      /\ ArchPc' = (IF Slot = None THEN Succ[at] ELSE Slot)
      /\ Slot' = None /\ code' = code
  BY RaiseLands
<1>2. Forbidden' = FALSE
  BY NeverForbiddenNext
<1>3. Arch!Skip
  BY <1>1, <1>2, ArchReadsGuest DEF Arch!Skip, Arch!Onward
<1>4. QED
  BY <1>3 DEF Arch!Next

LEMMA StepRefines ==
    ASSUME Legal, IInv, IInv', [Next]_vars
    PROVE  Arch!Next \/ UNCHANGED Seen
<1>1. CASE code' = code /\ ArchPc' = ArchPc /\ Slot' = Slot
  BY <1>1, NeverForbidden, NeverForbiddenNext DEF Seen
<1>2. QED
  BY <1>1, ExecuteRefines, LeaveRefines, EnterRefines, TickRefines,
     RetireRefines, JumpRefines, RaiseRefines DEF Next

LEMMA NextRefines ==
    ASSUME Legal, Stepped, IInv, [Next]_vars
    PROVE  [Arch!Next]_(Arch!vars)
<1>1. Arch!Next \/ UNCHANGED Seen
  BY NextIInv, StepRefines
<1>2. QED
  BY <1>1 DEF Seen, Arch!vars

(* Legal programs never leave emitted code with a count below zero, a flag   *)
(* it does not know or a target that is no address.                          *)
THEOREM TypeCorrect ==
    ASSUME Legal, Stepped
    PROVE  Spec => []TypeOK
<1>1. Init => IInv
  BY InitIInv
<1>2. IInv /\ [Next]_vars => IInv'
  BY NextIInv
<1>3. IInv => TypeOK
  BY DEF IInv
<1>4. QED
  BY <1>1, <1>2, <1>3, PTL DEF Spec

(* Legal programs run in the architecture's order, exceptions included.      *)
THEOREM LegalConforms ==
    ASSUME Legal, Stepped
    PROVE  Spec => Conforms
<1>1. Init => IInv /\ Arch!Init
  BY InitIInv, InitRefines
<1>2. IInv /\ [Next]_vars => IInv'
  BY NextIInv
<1>3. IInv /\ [Next]_vars => [Arch!Next]_(Arch!vars)
  BY NextRefines
<1>4. QED
  BY <1>1, <1>2, <1>3, PTL DEF Spec, Conforms, Arch!Spec

(* And whatever a host asks for is what is run, unless it may raise: every   *)
(* path through emitted code counts an instruction once, and every path      *)
(* tests the count.                                                          *)
THEOREM LegalCounts ==
    ASSUME Legal, Stepped
    PROVE  Spec => []QuantumIsExact
<1>1. Init => IInv
  BY InitIInv
<1>2. IInv /\ [Next]_vars => IInv'
  BY NextIInv
<1>3. IInv => QuantumIsExact
  BY DEF IInv, CountInv, Raising, QuantumIsExact
<1>4. QED
  BY <1>1, <1>2, <1>3, PTL DEF Spec
==============================================================================

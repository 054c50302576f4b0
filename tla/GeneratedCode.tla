---------------------------- MODULE GeneratedCode ----------------------------
(*****************************************************************************)
(* processor::execute_internal with JIT1, and the code write_chunk() emits   *)
(* around every instruction.  While emitted code runs, the flags, the branch *)
(* target and the instruction count are in host registers; they are written  *)
(* back when it is left.  An action of the chunk is the code of one guest    *)
(* instruction, from its label to the next one or to the jump out of it.     *)
(* Chunks are joined by jumps that change no state, so a chunk is not told   *)
(* from the next; option disable_cti is off.                                 *)
(*****************************************************************************)
EXTENDS Guest, Integers

CONSTANT Quanta     \* by program: the numbers of instructions a host asks
                    \* clock() for

ASSUME GeneratedCodeAssumption ==
    \A program \in Programs : Quanta[program] \subseteq Nat \ {0}

VARIABLES
    code,           \* guest memory, as instructions
    pc,             \* program_counter_
    target,         \* branch_target_, None for 0
    flags,          \* flags_
    left,           \* target_instructions_ - instruction_count_
    fromException,  \* from_exception_
    where,          \* "host", "loop": execute_internal(), or "chunk"
    entry,          \* its local program_counter
    value,          \* its scoped_flag: the flags when the chunk was entered
    at,             \* the guest instruction whose code runs
    ebx,            \* flags, in emitted code
    esi,            \* branch target, in emitted code
    rdi,            \* like left, in emitted code
    quantum,        \* history: what execute() was asked for
    ran             \* history: instructions run or raised since, counted up
                    \* to one more than the quantum

processor == <<pc, target, flags, left, fromException>>
local == <<entry, value, at, ebx, esi, rdi>>
vars == <<code, processor, where, local, quantum, ran>>

Flags == {"branch_delay", "no_cti"}

TypeOK ==
    /\ code \in Programs
    /\ pc \in Address
    /\ target \in Address \cup {None} /\ esi \in Address \cup {None}
    /\ entry \in Address \cup {None} /\ at \in Address \cup {None}
    /\ flags \subseteq Flags /\ value \subseteq Flags /\ ebx \subseteq Flags
    /\ left \in Int /\ rdi \in Nat
    /\ fromException \in BOOLEAN
    /\ where \in {"host", "loop", "chunk"}
    /\ where = "chunk" => {at, entry} \subseteq Address
    /\ quantum \in Nat /\ ran \in Nat

(* Locals and host registers mean nothing outside an iteration.              *)
Ends ==
    /\ entry' = None /\ value' = {}
    /\ at' = None /\ ebx' = {} /\ esi' = None /\ rdi' = 0

Init ==
    /\ code \in Programs
    /\ pc \in Address /\ target = None /\ flags = {} /\ left = 0
    /\ fromException = FALSE
    /\ where = "host" /\ entry = None /\ value = {}
    /\ at = None /\ ebx = {} /\ esi = None /\ rdi = 0
    /\ quantum = 0 /\ ran = 0

Execute(n) ==
    /\ where = "host"
    /\ left' = n /\ where' = "loop"
    /\ quantum' = n /\ ran' = 0
    /\ UNCHANGED <<code, pc, target, flags, fromException, local>>

Leave ==
    /\ where = "loop" /\ left <= 0
    /\ where' = "host"
    /\ UNCHANGED <<code, processor, local, quantum, ran>>

(* Where the loop goes on when an exception may be behind it.                *)
Resumption ==
    IF ~fromException THEN pc
    ELSE IF "branch_delay" \in flags THEN target ELSE Succ[pc]

(* The head of the loop and jit1::execute_instruction, up to the springboard *)
Enter ==
    /\ where = "loop" /\ left > 0
    /\ where' = "chunk"
    /\ pc' = Resumption /\ entry' = Resumption /\ at' = Resumption
    /\ fromException' = FALSE
    /\ flags' = IF fromException THEN flags \ {"branch_delay"} ELSE flags
    /\ value' = flags' /\ ebx' = flags' /\ esi' = target /\ rdi' = left
    /\ UNCHANGED <<code, target, left, quantum, ran>>

-------------------------------------------------------------------------------
(* What write_chunk() asks of the instruction before: this is decided when   *)
(* the code is emitted, and does not depend on how the instruction is        *)
(* reached.                                                                  *)
AfterSetsNoCTI(a) == \E p \in Address : Succ[p] = a /\ SetsNoCTI(code[p])
AfterDelayBranch(a) == \E p \in Address : Succ[p] = a /\ code[p] = "branch"

Running == where = "chunk" /\ rdi > 0

Counted == ran' = IF ran > quantum THEN ran ELSE ran + 1

(* Mutant: the flags stay in the host register.                              *)
TickKeeps ==
    /\ where = "chunk" /\ rdi = 0
    /\ pc' = at /\ target' = esi /\ left' = rdi
    /\ where' = "loop" /\ Ends
    /\ UNCHANGED <<code, flags, fromException, quantum, ran>>

(* cmp rdi, r14: the quantum is used up.  `save' writes the registers back   *)
(* and the loop reloads its flags.                                           *)
Tick ==
    /\ where = "chunk" /\ rdi = 0
    /\ pc' = at /\ flags' = ebx /\ target' = esi /\ left' = rdi
    /\ where' = "loop" /\ Ends
    /\ UNCHANGED <<code, fromException, quantum, ran>>

Refused ==
    AfterSetsNoCTI(at) /\ Control(code[at]) /\ "no_cti" \in ebx

(* The flags after the prefix of an instruction that may sit in a slot.      *)
AfterPrefix ==
    IF AfterSetsNoCTI(at) /\ ~Control(code[at]) THEN ebx \ {"no_cti"} ELSE ebx

(* handle_delay_branch(), emitted behind every instruction that follows a    *)
(* delay branch.  A branch to a known target does not ask esi.               *)
EndSlot(f, t, land) ==
    IF AfterDelayBranch(at) /\ "branch_delay" \in f
       THEN /\ "branch_delay" \in ebx => land = t
            /\ at' = land /\ ebx' = f \ {"branch_delay"} /\ esi' = None
       ELSE /\ land = Succ[at]
            /\ at' = land /\ ebx' = f /\ esi' = t

(* An instruction that is not a taken compact branch.                        *)
Retire(w, land) ==
    /\ Running /\ ~Refused
    /\ w \in Ways(code[at]) /\ (code[at] = "branch" \/ w = None)
    /\ rdi' = rdi - 1 /\ Counted
    /\ EndSlot(AfterPrefix
                  \cup (IF w # None THEN {"branch_delay"} ELSE {})
                  \cup (IF SetsNoCTI(code[at]) THEN {"no_cti"} ELSE {}),
               IF w # None THEN w ELSE esi,
               land)
    /\ UNCHANGED <<code, processor, where, entry, value, quantum>>

(* Mutant: the jump leaves before the instruction is counted.                *)
JumpUncounted(w) ==
    /\ Running /\ ~Refused
    /\ code[at] \in {"compact", "jump"} /\ w \in Address
    /\ pc' = w /\ at' = w
    /\ Counted
    /\ UNCHANGED <<code, target, flags, left, fromException, where, entry,
                   value, ebx, esi, rdi, quantum>>

(* select_jmp(): the jump is taken before the end of the instruction.        *)
Jump(w) ==
    /\ Running /\ ~Refused
    /\ code[at] \in {"compact", "jump"} /\ w \in Address
    /\ pc' = w /\ at' = w
    /\ rdi' = rdi - 1 /\ Counted
    /\ UNCHANGED <<code, target, flags, left, fromException, where, entry,
                   value, ebx, esi, quantum>>

(* The catch of execute_internal() and the scope it leaves: the program      *)
(* counter and the flags are those the chunk was entered with.               *)
Caught(n, handled) ==
    /\ pc' = entry /\ fromException' = TRUE
    /\ flags' = value /\ target' = esi
    /\ left' = IF handled THEN n ELSE n - 1
    /\ where' = IF handled THEN "loop" ELSE "host"
    /\ Ends

(* An exception, raised by a jump to an intrinsic before the instruction is  *)
(* counted, or found behind the call of a handler when it has been.          *)
Raise(handled) ==
    /\ Running
    /\ \/ (code[at] = "emitted" \/ Refused) /\ Caught(rdi, handled)
       \/ code[at] = "called" /\ Caught(rdi - 1, handled)
    /\ Counted
    /\ UNCHANGED <<code, quantum>>

Next ==
    \/ \E n \in Quanta[code] : Execute(n)
    \/ Leave \/ Enter \/ Tick
    \/ \E w \in Address \cup {None}, land \in Address : Retire(w, land)
    \/ \E w \in Address : Jump(w)
    \/ \E handled \in BOOLEAN : Raise(handled)

Spec == Init /\ [][Next]_vars

-------------------------------------------------------------------------------
InChunk == where = "chunk"
ArchPc == IF InChunk THEN at ELSE Resumption
Slot ==
    CASE InChunk -> IF "branch_delay" \in ebx THEN esi ELSE None
      [] ~InChunk /\ ~fromException /\ "branch_delay" \in flags -> target
      [] OTHER -> None
Forbidden ==
    /\ "no_cti" \in IF InChunk THEN ebx ELSE flags
    /\ AfterSetsNoCTI(ArchPc) /\ Control(code[ArchPc])

(* Generated code orders instructions as the architecture does, wherever a   *)
(* quantum ends.                                                             *)
Arch == INSTANCE Architecture
            WITH pc <- ArchPc, slot <- Slot, forbidden <- Forbidden
Conforms == Arch!Spec

Balanced == where # "host" => ran + (IF InChunk THEN rdi ELSE left) = quantum

(* README.md: "The ability to execute a specified number of instructions and *)
(* then return".  An exception that emitted code raises by itself is not     *)
(* counted: this is about programs that raise none.                          *)
QuantumIsExact == (\A a \in Address : ~Throws(code[a])) => Balanced
==============================================================================

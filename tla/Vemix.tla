------------------------------- MODULE Vemix ---------------------------------
(*****************************************************************************)
(* The system calls of VeMIX and the side-by-side mode around them           *)
(* (src/emulator/system_vemix.cpp, main_sxs_impl of src/emulator/main.cpp).  *)
(* Two systems execute one program, the interpreter and generated code, one  *)
(* instruction each per round, and are compared after every round.  What a   *)
(* call changes is the same function of the system; how it comes back to the *)
(* host is not: the interpreter throws out of the handler, generated code    *)
(* notes a trapped exception, leaves the chunk, and execute_instruction()    *)
(* throws.                                                                   *)
(*                                                                           *)
(* The program is arbitrary: before a round it sets the registers a call     *)
(* takes, with its program counter "at" the instruction and its count of     *)
(* instructions at zero.  The values of other instructions are in SideBySide, *)
(* slots and the rest of the flags in Interpreter and GeneratedCode.         *)
(*****************************************************************************)
EXTENDS Words, Sequences, FiniteSetsExt

CONSTANTS
    DataLimit,      \* options_.total_memory - options_.stack_memory
    BreakBase,      \* system_break_base_
    Readable,       \* the addresses the guest may read
    Vectors,        \* iovec records in memory: address -> [base, len]
    Requests        \* what the program may ask: [call, flagged, a, b, c, sp]

(* Registers are words, and a word holds the numbers of errors.              *)
ASSUME VemixAssumption ==
    /\ Bits >= 8
    /\ BreakBase \in Nat /\ DataLimit \in Nat
    /\ BreakBase <= DataLimit /\ DataLimit <= Highest
    /\ BreakBase % 4 = 0
    /\ Readable \subseteq Word \ {0}
    /\ \A p \in DOMAIN Vectors : Vectors[p].base \in Word /\ Vectors[p].len \in Word
    /\ Requests \subseteq [call : STRING, flagged : BOOLEAN,
                          a : Word, b : Word, c : Word, sp : Word]

VARIABLES
    guest,          \* engine -> the state of its system
    request,        \* the call in registers 2 and 4 to 6 of both systems
    turn,           \* what main_sxs_impl() does next
    executing,      \* executing[i]
    error, mismatch \* the two flags that decide the result of the process

vars == <<guest, request, turn, executing, error, mismatch>>

Engine == {"interpreter", "jit"}

ENOMEM == 12
EBADF == 9
EFAULT == 14
ENOSYS == 89

(* Calls that report success and calls that report ENOSYS, without effect    *)
Ignored == {"debug", "ioctl", "tkill"}
Missing == {"futex", "mmap2", "rt_sigaction", "rt_sigprocmask", "_llseek",
            "truncate", "poll"}
Exceptions == {"AdEL", "AdES", "RI", "CpU", "Ov", "Tr", "Bp", "FPE"}

------------------------------------------------------------------------------
(* The results of a call, in registers 2 and 7                               *)
SetResult(s, success, result) ==
    [s EXCEPT !.r2 = result, !.r7 = IF success THEN 0 ELSE 1]

SetResultVemips(s, success, result0, result1) ==
    [s EXCEPT !.r2 = result0, !.r7 = Wrap(IF success THEN result1 ELSE -result1)]

(* Mutant: the address is taken as it is.                                    *)
AlignNothing(x) == x

(* mips::align<4>: a negative number is moved away from zero, also when it   *)
(* is a multiple of four                                                     *)
AlignUnsigned(x) == LET up == Wrap(x + 3) IN up - (up % 4)
AlignSigned(n) == (IF n >= 0 THEN (n + 3) \div 4 ELSE (n - 3) \div 4) * 4

(* Mutant: the stack is forgotten.                                           *)
CheckData(s, address) == address <= DataLimit

CheckBreak(s, address) == address <= DataLimit /\ address <= s.sp

(* Every outcome of brk and sbrk: what is stored, and what is reported       *)
Break(s, req) ==
    LET end == AlignUnsigned(req.a) IN
    IF req.a = 0
        THEN [store |-> s.brk, success |-> TRUE, result0 |-> s.brk, result1 |-> 0]
    ELSE IF CheckBreak(s, end)
        THEN [store |-> end, success |-> TRUE, result0 |-> end, result1 |-> 0]
    ELSE [store |-> s.brk, success |-> FALSE, result0 |-> s.brk, result1 |-> ENOMEM]

SmallBreak(s, req) ==
    LET increment == AlignSigned(Signed(req.a))
        end == s.brk + increment       \* uint64: below zero it is above Highest
    IN
    IF req.a = 0
        THEN [store |-> s.brk, success |-> TRUE, result0 |-> s.brk, result1 |-> 0]
    ELSE IF end \in BreakBase .. Highest /\ CheckBreak(s, end)
        THEN [store |-> end, success |-> TRUE, result0 |-> s.brk, result1 |-> increment]
    ELSE [store |-> s.brk, success |-> FALSE, result0 |-> s.brk, result1 |-> ENOMEM]

Moved(s, req) == IF req.call = "brk" THEN Break(s, req) ELSE SmallBreak(s, req)

MoveBreak(s, req) ==
    LET moved == Moved(s, req)
        stored == [s EXCEPT !.brk = moved.store]
    IN  IF req.flagged
        THEN SetResultVemips(stored, moved.success, moved.result0, moved.result1)
        ELSE SetResult(stored, moved.success,
                       IF moved.success THEN moved.result0 ELSE moved.result1)

------------------------------------------------------------------------------
(* writev: eight bytes at a time, then one at a time.  An address that cannot *)
(* be read ends the loop it is met in; the second loop still runs.  Both     *)
(* test silent_ around their fwrite() and nowhere else, and the side-by-side *)
(* mode makes the system with JIT1 silent (main.cpp:114).  That is left out: *)
(* out is what a system writes that is not silent, and what the silent one   *)
(* fetches and drops.                                                        *)
Fetches(address, size) == \A i \in 0 .. size - 1 : Wrap(address + i) \in Readable
Bytes(address, size) == [i \in 1 .. size |-> Wrap(address + i - 1)]

(* Mutant: the first loop does not look at what it fetched.                  *)
ChunksUntested(vector) == vector.len \div 8

Chunks(vector) ==           \* how many of eight bytes the first loop writes
    LET all == vector.len \div 8
        bad == {i \in 0 .. all - 1 : ~Fetches(vector.base + 8 * i, 8)}
    IN  IF bad = {} THEN all ELSE Min(bad)

Extent(vector) ==             \* how many bytes both loops write
    LET from == 8 * Chunks(vector)
        bad == {i \in from .. vector.len - 1 : ~Fetches(vector.base + i, 1)}
    IN  IF bad = {} THEN vector.len ELSE Min(bad)

VectorFaults(vector) ==
    Chunks(vector) < vector.len \div 8 \/ Extent(vector) < vector.len

Pointers(req) == [i \in 1 .. req.c |-> Wrap(req.b + 8 * (i - 1))]

(* One record: nothing is written after a fault.                             *)
WriteVector(so_far, p) ==
    IF so_far.faulted THEN so_far
    ELSE IF p \notin DOMAIN Vectors
        THEN [so_far EXCEPT !.faulted = TRUE]
    ELSE [faulted |-> VectorFaults(Vectors[p]),
          written |-> Wrap(so_far.written + Vectors[p].len),
          out |-> so_far.out \o Bytes(Vectors[p].base, Extent(Vectors[p]))]

(* What is written after each of the records                                 *)
Written(req) ==
    LET after[i \in 0 .. req.c] ==
            IF i = 0 THEN [faulted |-> FALSE, written |-> 0, out |-> <<>>]
            ELSE WriteVector(after[i - 1], Pointers(req)[i])
    IN  after

Writev(s, req) ==
    LET done == Written(req)[req.c]
    IN  IF req.a \notin {0, 1, 2} THEN SetResult(s, FALSE, EBADF)
        ELSE IF done.faulted
            THEN SetResult([s EXCEPT !.out = done.out], FALSE, EFAULT)
        ELSE SetResult([s EXCEPT !.out = done.out], TRUE, done.written)

------------------------------------------------------------------------------
(* The handler of a call: the system after it, and how it ends               *)
(*   "return": with a value for $4    "throw": an ended execution            *)
(*   "fault":  a CPU_Exception of the handler's own store                    *)
Answer(s, req, end, value) == [state |-> s, end |-> end, value |-> value]

Exit(s, req, engine) ==
    Answer([s EXCEPT !.code = req.a, !.run = "complete_success"], req,
           IF engine = "jit" THEN "return" ELSE "throw", 1)

(* Mutant: an unknown call ends the execution like exit.                     *)
UnknownIsExit(s, req, engine) == Exit(s, req, engine)

Unknown(s, req, engine) ==
    Answer([SetResult(s, FALSE, ENOSYS) EXCEPT !.code = Top - 1, !.run = "complete_fail"],
           req, IF engine = "jit" THEN "return" ELSE "throw", 1)

SetTidAddress(s, req) ==
    IF Fetches(req.a, 4)
    THEN Answer(SetResult([s EXCEPT !.tid = @ \cup {req.a}], TRUE, 0), req, "return", 0)
    ELSE Answer(s, req, "fault", 0)

Handle(s, req, engine) ==
    LET Plain(state) == Answer(state, req, "return", 0) IN
    CASE req.call \in {"brk", "sbrk"} -> Plain(MoveBreak(s, req))
      [] req.call = "writev" -> Plain(Writev(s, req))
      [] req.call \in Missing -> Plain(SetResult(s, FALSE, ENOSYS))
      [] req.call \in Ignored -> Plain(SetResult(s, TRUE, 0))
      [] req.call = "set_thread_area" ->
            Plain(SetResult([s EXCEPT !.user = req.a], TRUE, 0))
      [] req.call = "gettid" -> Plain(SetResult(s, TRUE, 1))
      [] req.call = "set_tid_address" -> SetTidAddress(s, req)
      [] req.call \in {"exit", "exit_group"} -> Exit(s, req, engine)
      [] OTHER -> Unknown(s, req, engine)

(* handle_sys_exception, called with in_jit cleared: it always throws        *)
HandleException(s, type) ==
    IF type \in {"AdEL", "AdES"} THEN s
    ELSE [s EXCEPT !.code = Top - 2, !.run = "complete_fail"]

------------------------------------------------------------------------------
Booted ==
    [r2 |-> 0, r4 |-> 0, r7 |-> 0, sp |-> DataLimit, brk |-> BreakBase,
     user |-> 0, tid |-> {}, out |-> <<>>, run |-> "running", code |-> 0,
     trapped |-> "no", pc |-> "at", count |-> 0]

Init ==
    /\ guest = [e \in Engine |-> Booted]
    /\ request \in Requests
    /\ turn = "program"
    /\ executing = [e \in Engine |-> TRUE]
    /\ error = FALSE
    /\ mismatch = FALSE

(* The program comes to its next call, or to an instruction that raises.     *)
Program ==
    /\ turn = "program"
    /\ \E e \in Engine : executing[e]
    /\ \E req \in Requests :
        /\ request' = req
        /\ guest' = [e \in Engine |->
                        IF executing[e]
                        THEN [guest[e] EXCEPT !.sp = req.sp, !.r4 = req.a, !.out = <<>>,
                                              !.pc = "at", !.count = 0]
                        ELSE guest[e]]
    /\ turn' = "interpreter"
    /\ UNCHANGED <<executing, error, mismatch>>

(* catch of main_sxs_impl: an ExecutionCompleteException, or anything else   *)
Stops(e, how) ==
    /\ executing' = [executing EXCEPT ![e] = FALSE]
    /\ error' = (error \/ how # "complete")

(* What ends the execution says how                                          *)
Told(s) == IF s.run = "complete_success" THEN "complete" ELSE "fail"

(* SYSCALL of the interpreter.  The updaters of execute_internal() count and *)
(* step also when the handler throws; the handler of exceptions, which always *)
(* throws, resets the step.                                                  *)
Interpret ==
    /\ turn = "interpreter"
    /\ executing["interpreter"]
    /\ LET s == guest["interpreter"]
           answer == Handle(s, request, "interpreter")
           Becomes(state) ==
                guest' = [guest EXCEPT !["interpreter"] = [state EXCEPT !.count = 1]]
           Stands(state, how) == Becomes(state) /\ Stops("interpreter", how)
           past == [answer.state EXCEPT !.pc = "past", !.r4 = answer.value]
       IN  \/ /\ request.call \in Exceptions
              /\ Stands(HandleException(s, request.call), "fail")
           \/ /\ request.call \notin Exceptions /\ answer.end = "fault"
              /\ Stands(HandleException(answer.state, "AdES"), "fail")
           \/ /\ request.call \notin Exceptions /\ answer.end = "throw"
              /\ Stands(past, Told(past))
           \/ /\ request.call \notin Exceptions /\ answer.end = "return"
              /\ Becomes(past)
              /\ UNCHANGED <<executing, error>>
    /\ turn' = "jit"
    /\ UNCHANGED <<request, mismatch>>

(* Mutant: do_syscall() does not look at the state of the system.            *)
EmittedBlind ==
    /\ turn = "jit"
    /\ executing["jit"]
    /\ LET s == guest["jit"]
           answer == Handle(s, request, "jit")
           done == [answer.state EXCEPT !.count = 1]
       IN  guest' = [guest EXCEPT !["jit"] =
            IF request.call \in Exceptions THEN [s EXCEPT !.trapped = request.call]
            ELSE IF answer.end = "fault" THEN [done EXCEPT !.trapped = "AdES"]
            ELSE [done EXCEPT !.r4 = answer.value]]
    /\ turn' = "leave"
    /\ UNCHANGED <<request, executing, error, mismatch>>

(* do_syscall() and the end of the instruction behind it, or an emitted      *)
(* instruction that jumps to an intrinsic before it is counted               *)
Emitted ==
    /\ turn = "jit"
    /\ executing["jit"]
    /\ LET s == guest["jit"]
           answer == Handle(s, request, "jit")
           done == [answer.state EXCEPT !.count = 1]
       IN  guest' = [guest EXCEPT !["jit"] =
            IF request.call \in Exceptions THEN [s EXCEPT !.trapped = request.call]
            ELSE IF answer.end = "fault" THEN [done EXCEPT !.trapped = "AdES"]
            ELSE [done EXCEPT
                    !.r4 = answer.value,
                    !.trapped = IF answer.state.run # "running" THEN "InternalFlow" ELSE @]]
    /\ turn' = "leave"
    /\ UNCHANGED <<request, executing, error, mismatch>>

(* A trapped exception leaves the chunk where it is.  execute_instruction()  *)
(* looks at the state of the system first and at what is trapped second; the *)
(* handler of an exception throws, and the instruction is counted (again).   *)
LeaveChunk ==
    /\ turn = "leave"
    /\ LET s == guest["jit"]
           kept == [s EXCEPT !.trapped = "no"]
           Becomes(state) == guest' = [guest EXCEPT !["jit"] = state]
       IN  \/ /\ s.trapped = "no"
              /\ Becomes([s EXCEPT !.pc = "past"])
              /\ UNCHANGED <<executing, error>>
           \/ /\ s.trapped # "no" /\ s.run # "running"
              /\ Becomes(kept)
              /\ Stops("jit", Told(s))
           \/ /\ s.trapped \in Exceptions /\ s.run = "running"
              /\ Becomes([HandleException(kept, s.trapped) EXCEPT !.count = @ + 1])
              /\ Stops("jit", "fail")
    /\ turn' = "compare"
    /\ UNCHANGED <<request, mismatch>>

(* No round is skipped for one system (if (!executing[i]) continue;): both   *)
(* stop in the same round, which EnginesAgree tests.                         *)
(* What the two systems are compared by, of what a call may change.  The     *)
(* system break and the state of the execution are not compared.             *)
Compared(s) == <<s.r2, s.r4, s.r7, s.pc, s.count, s.user, s.tid>>

Compare ==
    /\ turn = "compare"
    /\ LET different == Compared(guest["interpreter"]) # Compared(guest["jit"])
       IN  /\ mismatch' = (\/ mismatch \/ different
                           \/ executing["interpreter"] # executing["jit"])
           /\ turn' = IF different \/ \A e \in Engine : ~executing[e]
                      THEN "over" ELSE "program"
    /\ UNCHANGED <<guest, request, executing, error>>

Over == turn = "over" /\ UNCHANGED vars     \* the process has its result

Next == Program \/ Interpret \/ Emitted \/ LeaveChunk \/ Compare \/ Over

Spec == Init /\ [][Next]_vars

------------------------------------------------------------------------------
(* TypeOK: what a call leaves in the system fits its words, and the break is *)
(* a word boundary the memory of the guest has (system_vemix.cpp:150-196).   *)
TypeOK ==
    /\ \A e \in Engine :
        /\ {guest[e].r2, guest[e].r4, guest[e].r7, guest[e].user} \subseteq Word
        /\ guest[e].brk \in 0 .. DataLimit /\ guest[e].brk % 4 = 0
        /\ guest[e].tid \subseteq Readable
        /\ guest[e].run \in {"running", "complete_success", "complete_fail"}
        /\ guest[e].code \in Word
        /\ guest[e].trapped \in Exceptions \cup {"no", "InternalFlow"}
        /\ guest[e].pc \in {"at", "past"} /\ guest[e].count \in 0 .. 2
    /\ request \in Requests
    /\ turn \in Engine \cup {"program", "leave", "compare", "over"}
    /\ executing \in [Engine -> BOOLEAN]
    /\ error \in BOOLEAN /\ mismatch \in BOOLEAN

(* EnginesAgree: whichever way a call comes back, at the end of a round both *)
(* systems show the program the same registers and have the same break, user *)
(* value, memory, exit state and exit code, and both run or neither does; so *)
(* the mode reports no mismatch while the program runs (system_vemix.cpp:441,*)
(* :489, jit1_traps.cpp:350, jit1.cpp:1281).                                 *)
Seen(s) == <<s.r2, s.r4, s.r7, s.user, s.tid, s.brk, s.run, s.code>>
EnginesAgree ==
    turn \in {"program", "compare", "over"} =>
        /\ Seen(guest["interpreter"]) = Seen(guest["jit"])
        /\ executing["interpreter"] = executing["jit"]
        /\ mismatch => \A e \in Engine : ~executing[e]

(* EndIsTold: a system stops exactly when its program asked for it or raised *)
(* what nobody handles; the process reports an error unless every system     *)
(* stopped by exit, and then with the code of the program                    *)
(* (system_vemix.cpp:441-452, :476-577, main.cpp:145-156).                   *)
EndIsTold ==
    turn \in {"program", "compare", "over"} =>
        \A e \in Engine :
            LET exits == request.call \in {"exit", "exit_group"} IN
            /\ executing[e] => guest[e].run = "running" /\ ~error
            /\ ~executing[e] =>
                /\ exits <=> ~error
                /\ exits => /\ guest[e].run = "complete_success"
                            /\ guest[e].code = request.a
                /\ guest[e].run = "running" =>
                      request.call \in {"AdEL", "AdES", "set_tid_address"}

(* BreakIsTold: the break moves only to a place below the stack and the end  *)
(* of data, sbrk never moves it below the data of the program, a call that   *)
(* moves it less or not at all says so, and what the program is told is what *)
(* is stored (system_vemix.cpp:124-196).                                     *)
BreakIsTold ==
    [][\A e \in Engine :
        LET old == guest[e] new == guest'[e] moves == new.brk # old.brk IN
        /\ moves => /\ new.brk <= old.sp
                    /\ request.call \in {"brk", "sbrk"}
                    /\ request.call = "sbrk" => new.brk >= BreakBase
                    /\ request.flagged \/ new.r7 = 0
        /\ turn = e /\ executing[e] /\ request.call = "brk" =>
              \/ request.a = 0
              \/ new.brk >= request.a /\ new.r2 = new.brk
              \/ request.a > Highest - 3 /\ new.brk = 0
              \/ ~moves /\ new.r7 # 0
        /\ turn = e /\ executing[e] /\ request.call = "sbrk" =>
              \/ new.r2 = old.brk
                 /\ Magnitude(new.brk - old.brk) >= Magnitude(Signed(request.a))
              \/ ~moves /\ new.r7 # 0]_vars

(* WritesThePrefix: writev writes what it is asked for up to the first byte  *)
(* that cannot be read, however its two loops cut it, and reports success    *)
(* only if there is none (system_vemix.cpp:312-395): in either engine, when  *)
(* its system is not silent.                                                 *)
Known(req) ==               \* the records before the first not in memory
    LET lost == {i \in 1 .. req.c : Pointers(req)[i] \notin DOMAIN Vectors}
    IN  IF lost = {} THEN req.c ELSE Min(lost) - 1

AskVector(so_far, p) == so_far \o Bytes(Vectors[p].base, Vectors[p].len)

Asked(req) ==               \* the bytes of so many of them
    LET asked[i \in 0 .. Known(req)] ==
            IF i = 0 THEN <<>> ELSE AskVector(asked[i - 1], Pointers(req)[i])
    IN  asked

WritesThePrefix ==
    turn \in {"compare", "over"} /\ request.call = "writev" /\ request.a \in 0 .. 2 =>
        \A e \in Engine :
            LET bytes == Asked(request)[Known(request)]
                bad == {i \in 1 .. Len(bytes) : bytes[i] \notin Readable}
            IN  /\ guest[e].out =
                      SubSeq(bytes, 1, IF bad = {} THEN Len(bytes) ELSE Min(bad) - 1)
                /\ (guest[e].r7 = 0) <=> (bad = {} /\ Known(request) = request.c)
                /\ guest[e].r7 # 0 => guest[e].r2 = EFAULT
==============================================================================

----------------------------- MODULE VemixProofs ------------------------------
(*****************************************************************************)
(* What holds of the two systems for every width of a word, every memory and *)
(* every program.  The argument follows the round: the systems enter it      *)
(* alike, what the interpreter did is a function of the system it found, and *)
(* what generated code notes before it leaves a chunk says how the           *)
(* interpreter ended.                                                        *)
(*****************************************************************************)
EXTENDS Vemix, TLAPS, WellFoundedInduction, SequenceTheorems

(* A system is a record with these fields and no others.                     *)
Fields == {"r2", "r4", "r7", "sp", "brk", "user", "tid", "out", "run", "code",
           "trapped", "pc", "count"}
IsSystem(s) == s = [f \in Fields |-> s[f]]

Systems ==
    /\ \A e \in Engine : IsSystem(guest[e])
    /\ DOMAIN guest = Engine

I == guest["interpreter"]
J == guest["jit"]

Exits == request.call \in {"exit", "exit_group"}

(* A system that the program still runs on.                                  *)
Ready(s) == s.run = "running" /\ s.trapped = "no"

(* Between two rounds, and while the round is under way.                     *)
Between ==
    turn \in {"program", "interpreter"} =>
        /\ \A e \in Engine : executing[e] /\ Ready(guest[e])
        /\ Seen(I) = Seen(J)
        /\ ~error /\ ~mismatch

Entered(s) == s.pc = "at" /\ s.count = 0

AtCall == turn = "interpreter" => I = J /\ Entered(J)

(* What the interpreter makes of a system, and how that ends                 *)
Answered == Handle(J, request, "interpreter")

Interpreted ==
    IF request.call \in Exceptions THEN HandleException(J, request.call)
    ELSE IF Answered.end = "fault" THEN HandleException(Answered.state, "AdES")
    ELSE [Answered.state EXCEPT !.pc = "past", !.r4 = Answered.value]

Faults == request.call \in Exceptions \/ Answered.end = "fault"
Throws == request.call \notin Exceptions /\ Answered.end = "throw"

AtJit ==
    turn = "jit" =>
        /\ executing["jit"] /\ Ready(J) /\ Entered(J) /\ ~mismatch
        /\ I = [Interpreted EXCEPT !.count = 1]
        /\ executing["interpreter"] <=> ~Faults /\ ~Throws
        /\ error <=> Faults \/ (Throws /\ Interpreted.run # "complete_success")

(* What generated code noted is how the interpreter ended.                   *)
AtLeave ==
    turn = "leave" =>
        /\ executing["jit"] /\ ~mismatch
        /\ <<I.r2, I.r7, I.user, I.tid, I.brk>> = <<J.r2, J.r7, J.user, J.tid, J.brk>>
        /\ I.trapped = "no" /\ J.pc = "at" /\ J.count \in 0 .. 1
        /\ I.r4 = J.r4
        /\ \/ /\ J.trapped = "no" /\ J.run = "running" /\ executing["interpreter"]
              /\ I.run = J.run /\ I.code = J.code /\ ~error
              /\ J.count = 1 /\ I.count = 1 /\ I.pc = "past"
           \/ /\ J.trapped = "InternalFlow" /\ J.run # "running"
              /\ ~executing["interpreter"]
              /\ I.run = J.run /\ I.code = J.code
              /\ error <=> J.run # "complete_success"
              /\ Exits <=> J.run = "complete_success"
              /\ Exits => J.code = request.a
           \/ /\ J.trapped \in Exceptions /\ J.run = "running"
              /\ ~executing["interpreter"] /\ error /\ ~Exits
              /\ I.run = HandleException(J, J.trapped).run
              /\ I.code = HandleException(J, J.trapped).code
              /\ J.trapped \in {"AdEL", "AdES"} =>
                    request.call \in {"AdEL", "AdES", "set_tid_address"}

(* Both ended alike, or neither did, and then nothing is left of the round.  *)
Ended ==
    turn \in {"compare", "over"} =>
        /\ Seen(I) = Seen(J)
        /\ I.trapped = "no" /\ J.trapped = "no"
        /\ executing["interpreter"] = executing["jit"]
        /\ executing["jit"] =>
              /\ turn = "compare" /\ Compared(I) = Compared(J) /\ ~error
              /\ I.run = "running" /\ J.run = "running"
        /\ mismatch => turn = "over"
        /\ ~executing["jit"] =>
              /\ Exits <=> ~error
              /\ Exits => J.run = "complete_success" /\ J.code = request.a
              /\ J.run = "running" =>
                    request.call \in {"AdEL", "AdES", "set_tid_address"}

RoundInv == Systems /\ Between /\ AtCall /\ AtJit /\ AtLeave /\ Ended

-------------------------------------------------------------------------------
LEMMA WordSize ==
    /\ 2^Bits \in Nat /\ 2^Bits >= 256
    /\ Top \in Nat /\ 2^Bits = Top + Top /\ Top >= 128
<1>1. CASE Bits = 8
  <2>1. 2^Bits = 256 /\ Top = 128
    BY <1>1 DEF Top
  <2> QED
    BY <2>1
<1>2. CASE Bits = 16
  <2>1. 2^Bits = 65536 /\ Top = 32768
    BY <1>2 DEF Top
  <2> QED
    BY <2>1
<1>3. CASE Bits = 32
  <2>1. 2^Bits = 4294967296 /\ Top = 2147483648
    BY <1>3 DEF Top
  <2> QED
    BY <2>1
<1>4. Bits >= 8
  BY VemixAssumption
<1>5. Bits \in {8, 16, 32}
  BY <1>4, WordsAssumption
<1> QED
  BY <1>1, <1>2, <1>3, <1>5

LEMMA WrapIsWord == ASSUME NEW n \in Int PROVE Wrap(n) \in Word
BY WordSize DEF Wrap, Word

(* What the assumption says of a request and of the memory                   *)
LEMMA RequestIsWords ==
    ASSUME NEW req \in Requests
    PROVE  /\ req.flagged \in BOOLEAN
           /\ req.a \in Word /\ req.b \in Word /\ req.c \in Word /\ req.sp \in Word
BY VemixAssumption

LEMMA DataIsWords ==
    /\ BreakBase \in Nat /\ DataLimit \in Nat /\ BreakBase <= DataLimit
    /\ BreakBase % 4 = 0 /\ DataLimit <= 2^Bits - 1
    /\ Readable \subseteq Word
BY VemixAssumption DEF Highest

-------------------------------------------------------------------------------
LEMMA SameSystem ==
    ASSUME NEW s, NEW t, IsSystem(s), IsSystem(t), \A f \in Fields : s[f] = t[f]
    PROVE  s = t
BY DEF IsSystem

LEMMA BreakIsSystem ==
    ASSUME NEW s, IsSystem(s), NEW req
    PROVE  /\ IsSystem(MoveBreak(s, req))
           /\ MoveBreak(s, req).brk = Moved(s, req).store
           /\ \A f \in Fields \ {"r2", "r7", "brk"} : MoveBreak(s, req)[f] = s[f]
           /\ MoveBreak(s, req).r2 = IF Moved(s, req).success \/ req.flagged
                     THEN Moved(s, req).result0 ELSE Moved(s, req).result1
           /\ MoveBreak(s, req).r7 =
                 IF req.flagged
                  THEN Wrap(IF Moved(s, req).success THEN Moved(s, req).result1
                           ELSE -Moved(s, req).result1)
                 ELSE IF Moved(s, req).success THEN 0 ELSE 1
<1> DEFINE moved == Moved(s, req)
           stored == [s EXCEPT !.brk = moved.store]
<1>1. IsSystem(stored) /\ stored.brk = moved.store
      /\ \A f \in Fields \ {"brk"} : stored[f] = s[f]
  BY DEF IsSystem, Fields
<1>2. MoveBreak(s, req) =
          IF req.flagged
          THEN SetResultVemips(stored, moved.success, moved.result0, moved.result1)
          ELSE SetResult(stored, moved.success,
                         IF moved.success THEN moved.result0 ELSE moved.result1)
  BY DEF MoveBreak
<1> HIDE DEF moved, stored
<1>3. CASE req.flagged
  <2>1. MoveBreak(s, req) =
            [stored EXCEPT
                !.r2 = moved.result0,
                !.r7 = Wrap(IF moved.success THEN moved.result1 ELSE -moved.result1)]
    BY <1>2, <1>3 DEF SetResultVemips
  <2>2. /\ IsSystem(MoveBreak(s, req))
        /\ MoveBreak(s, req).r2 = moved.result0
        /\ MoveBreak(s, req).r7
              = Wrap(IF moved.success THEN moved.result1 ELSE -moved.result1)
        /\ \A f \in Fields \ {"r2", "r7"} : MoveBreak(s, req)[f] = stored[f]
    BY <1>1, <2>1 DEF IsSystem, Fields
  <2> QED
    BY <1>1, <1>3, <2>2 DEF moved, Fields
<1>4. CASE ~req.flagged
  <2>1. MoveBreak(s, req) =
            [stored EXCEPT
                !.r2 = IF moved.success THEN moved.result0 ELSE moved.result1,
                !.r7 = IF moved.success THEN 0 ELSE 1]
    BY <1>2, <1>4 DEF SetResult
  <2>2. /\ IsSystem(MoveBreak(s, req))
        /\ MoveBreak(s, req).r2
              = (IF moved.success THEN moved.result0 ELSE moved.result1)
        /\ MoveBreak(s, req).r7 = (IF moved.success THEN 0 ELSE 1)
        /\ \A f \in Fields \ {"r2", "r7"} : MoveBreak(s, req)[f] = stored[f]
    BY <1>1, <2>1 DEF IsSystem, Fields
  <2> QED
    BY <1>1, <1>4, <2>2 DEF moved, Fields
<1> QED
  BY <1>3, <1>4

LEMMA WritevIsSystem ==
    ASSUME NEW s, IsSystem(s), NEW req
    PROVE  /\ IsSystem(Writev(s, req))
           /\ \A f \in Fields \ {"r2", "r7", "out"} : Writev(s, req)[f] = s[f]
           /\ req.a \notin {0, 1, 2} =>
                 Writev(s, req).r2 = EBADF /\ Writev(s, req).r7 = 1
           /\ req.a \in {0, 1, 2} =>
                 /\ Writev(s, req).out = Written(req)[req.c].out
                 /\ Writev(s, req).r2 = IF Written(req)[req.c].faulted THEN EFAULT
                                        ELSE Written(req)[req.c].written
                 /\ Writev(s, req).r7 = IF Written(req)[req.c].faulted THEN 1 ELSE 0
<1> DEFINE done == Written(req)[req.c]
           shown == [s EXCEPT !.out = done.out]
<1>1. IsSystem(shown) /\ shown.out = done.out
      /\ \A f \in Fields \ {"out"} : shown[f] = s[f]
  BY DEF IsSystem, Fields
<1>2. Writev(s, req) =
          IF req.a \notin {0, 1, 2} THEN SetResult(s, FALSE, EBADF)
          ELSE IF done.faulted THEN SetResult(shown, FALSE, EFAULT)
          ELSE SetResult(shown, TRUE, done.written)
  BY DEF Writev
<1> HIDE DEF done, shown
<1>3. CASE req.a \notin {0, 1, 2}
  <2>1. Writev(s, req) = [s EXCEPT !.r2 = EBADF, !.r7 = 1]
    BY <1>2, <1>3 DEF SetResult
  <2>2. /\ IsSystem(Writev(s, req))
        /\ Writev(s, req).r2 = EBADF
        /\ Writev(s, req).r7 = 1
        /\ \A f \in Fields \ {"r2", "r7"} : Writev(s, req)[f] = s[f]
    BY <2>1 DEF IsSystem, Fields
  <2> QED
    BY <1>3, <2>2 DEF Fields
<1>4. CASE req.a \in {0, 1, 2} /\ done.faulted
  <2>1. Writev(s, req) = [shown EXCEPT !.r2 = EFAULT, !.r7 = 1]
    BY <1>2, <1>4 DEF SetResult
  <2>2. /\ IsSystem(Writev(s, req))
        /\ Writev(s, req).r2 = EFAULT
        /\ Writev(s, req).r7 = 1
        /\ \A f \in Fields \ {"r2", "r7"} : Writev(s, req)[f] = shown[f]
    BY <1>1, <2>1 DEF IsSystem, Fields
  <2> QED
    BY <1>1, <1>4, <2>2 DEF done, Fields
<1>5. CASE req.a \in {0, 1, 2} /\ ~done.faulted
  <2>1. Writev(s, req) = [shown EXCEPT !.r2 = done.written, !.r7 = 0]
    BY <1>2, <1>5 DEF SetResult
  <2>2. /\ IsSystem(Writev(s, req))
        /\ Writev(s, req).r2 = done.written
        /\ Writev(s, req).r7 = 0
        /\ \A f \in Fields \ {"r2", "r7"} : Writev(s, req)[f] = shown[f]
    BY <1>1, <2>1 DEF IsSystem, Fields
  <2> QED
    BY <1>1, <1>5, <2>2 DEF done, Fields
<1> QED
  BY <1>3, <1>4, <1>5

(* The calls that report a result and do nothing about the execution         *)
PlainCalls ==
    {"brk", "sbrk", "writev", "set_thread_area", "gettid"} \cup Missing \cup Ignored

(* The system after such a call                                              *)
Reported(s, req) ==
    IF req.call \in {"brk", "sbrk"} THEN MoveBreak(s, req)
    ELSE IF req.call = "writev" THEN Writev(s, req)
    ELSE IF req.call \in Missing THEN SetResult(s, FALSE, ENOSYS)
    ELSE IF req.call \in Ignored THEN SetResult(s, TRUE, 0)
    ELSE IF req.call = "gettid" THEN SetResult(s, TRUE, 1)
    ELSE SetResult([s EXCEPT !.user = req.a], TRUE, 0)

LEMMA PlainHandled ==
    ASSUME NEW req, req.call \in PlainCalls, NEW s, NEW e
    PROVE  Handle(s, req, e) = Answer(Reported(s, req), req, "return", 0)
BY DEF Handle, Reported, PlainCalls, Missing, Ignored

LEMMA OtherHandled ==
    ASSUME NEW req, req.call \notin PlainCalls, NEW s, NEW e
    PROVE  Handle(s, req, e) =
              IF req.call = "set_tid_address" THEN SetTidAddress(s, req)
              ELSE IF req.call \in {"exit", "exit_group"} THEN Exit(s, req, e)
              ELSE Unknown(s, req, e)
BY DEF Handle, PlainCalls

LEMMA ReportedIsSystem ==
    ASSUME NEW s, IsSystem(s), NEW req, req.call \in PlainCalls
    PROVE  /\ IsSystem(Reported(s, req))
           /\ \A f \in {"r4", "sp", "tid", "trapped", "pc", "count", "run", "code"} :
                 Reported(s, req)[f] = s[f]
<1>1. CASE req.call \in {"brk", "sbrk"}
  <2>1. Reported(s, req) = MoveBreak(s, req)
    BY <1>1 DEF Reported
  <2>2. /\ IsSystem(MoveBreak(s, req))
        /\ \A f \in Fields \ {"r2", "r7", "brk"} : MoveBreak(s, req)[f] = s[f]
    BY BreakIsSystem, Zenon
  <2> QED
    BY <2>1, <2>2 DEF Fields
<1>2. CASE req.call = "writev"
  <2>1. Reported(s, req) = Writev(s, req)
    BY <1>2 DEF Reported
  <2>2. /\ IsSystem(Writev(s, req))
        /\ \A f \in Fields \ {"r2", "r7", "out"} : Writev(s, req)[f] = s[f]
    BY WritevIsSystem, Zenon
  <2> QED
    BY <2>1, <2>2 DEF Fields
<1>3. CASE req.call \notin {"brk", "sbrk", "writev"}
  <2>1. CASE req.call \in Missing
    <3>1. Reported(s, req) = [s EXCEPT !.r2 = ENOSYS, !.r7 = 1]
      BY <1>3, <2>1 DEF Reported, SetResult
    <3> QED
      BY <3>1 DEF IsSystem, Fields
  <2>2. CASE req.call \in Ignored \ Missing
    <3>1. Reported(s, req) = [s EXCEPT !.r2 = 0, !.r7 = 0]
      BY <1>3, <2>2 DEF Reported, SetResult
    <3> QED
      BY <3>1 DEF IsSystem, Fields
  <2>3. CASE req.call \notin Missing \cup Ignored
    <3>1. \/ Reported(s, req) = [s EXCEPT !.r2 = 1, !.r7 = 0]
          \/ Reported(s, req) = [[s EXCEPT !.user = req.a] EXCEPT !.r2 = 0, !.r7 = 0]
      BY <1>3, <2>3 DEF Reported, SetResult
    <3> QED
      BY <3>1 DEF IsSystem, Fields
  <2> QED
    BY <2>1, <2>2, <2>3
<1> QED
  BY <1>1, <1>2, <1>3

(* A call does the same to both systems; it is the way back that differs.    *)
Alike(s, req, i, j) ==
    /\ IsSystem(i.state) /\ i.state = j.state /\ i.value = j.value
    /\ i.end \in {"return", "throw", "fault"}
    /\ j.end = IF i.end = "throw" THEN "return" ELSE i.end
    /\ \A f \in {"r4", "sp", "trapped", "pc", "count"} : i.state[f] = s[f]
    /\ i.end # "throw" =>
          /\ i.state.run = s.run /\ i.state.code = s.code
          /\ req.call \notin {"exit", "exit_group"}
    /\ i.end = "throw" =>
          /\ i.state.run # "running"
          /\ i.state.run = "complete_success" <=> req.call \in {"exit", "exit_group"}
          /\ req.call \in {"exit", "exit_group"} => i.state.code = req.a
    /\ i.end = "fault" => req.call = "set_tid_address" /\ i.state = s

LEMMA HandledAlike ==
    ASSUME NEW s, IsSystem(s), NEW req
    PROVE  Alike(s, req, Handle(s, req, "interpreter"), Handle(s, req, "jit"))
<1> DEFINE i == Handle(s, req, "interpreter")
           j == Handle(s, req, "jit")
<1>1. CASE req.call \in PlainCalls
  <2>1. i = Answer(Reported(s, req), req, "return", 0) /\ j = i
    BY <1>1, PlainHandled
  <2>2. req.call \notin {"exit", "exit_group"}
    BY <1>1 DEF PlainCalls, Missing, Ignored
  <2> QED
    BY <1>1, <2>1, <2>2, ReportedIsSystem DEF Answer, Alike
<1>2. CASE req.call = "set_tid_address"
  <2>1. i = SetTidAddress(s, req) /\ j = i
    BY <1>2, OtherHandled DEF PlainCalls, Missing, Ignored
  <2>2. CASE Fetches(req.a, 4)
    <3>1. i.state = [[s EXCEPT !.tid = @ \cup {req.a}] EXCEPT !.r2 = 0, !.r7 = 0]
          /\ i.end = "return"
      BY <2>1, <2>2 DEF SetTidAddress, Answer, SetResult
    <3>2. IsSystem(i.state) /\ \A f \in Fields \ {"tid", "r2", "r7"} : i.state[f] = s[f]
      BY <3>1 DEF IsSystem, Fields
    <3> QED
      BY <1>2, <2>1, <3>1, <3>2 DEF Alike, Fields
  <2>3. CASE ~Fetches(req.a, 4)
    BY <1>2, <2>1, <2>3 DEF SetTidAddress, Answer, Alike
  <2> QED
    BY <2>2, <2>3
<1>3. CASE req.call \in {"exit", "exit_group"}
  <2>1. i = Exit(s, req, "interpreter") /\ j = Exit(s, req, "jit")
    BY <1>3, OtherHandled DEF PlainCalls, Missing, Ignored
  <2>2. /\ i.state = [s EXCEPT !.code = req.a, !.run = "complete_success"]
        /\ j.state = i.state /\ i.value = j.value
        /\ i.end = "throw" /\ j.end = "return"
    BY <2>1 DEF Exit, Answer
  <2>3. /\ IsSystem(i.state) /\ i.state.code = req.a
        /\ i.state.run = "complete_success"
        /\ \A f \in Fields \ {"code", "run"} : i.state[f] = s[f]
    BY <2>2 DEF IsSystem, Fields
  <2> QED
    BY <1>3, <2>2, <2>3 DEF Alike, Fields
<1>4. CASE req.call \notin PlainCalls \cup {"set_tid_address", "exit", "exit_group"}
  <2>1. i = Unknown(s, req, "interpreter") /\ j = Unknown(s, req, "jit")
    BY <1>4, OtherHandled
  <2>2. /\ i.state = [[s EXCEPT !.r2 = ENOSYS, !.r7 = 1]
                          EXCEPT !.code = Top - 1, !.run = "complete_fail"]
        /\ j.state = i.state /\ i.value = j.value
        /\ i.end = "throw" /\ j.end = "return"
    BY <2>1 DEF Unknown, Answer, SetResult
  <2>3. /\ IsSystem(i.state) /\ i.state.run = "complete_fail"
        /\ \A f \in Fields \ {"r2", "r7", "code", "run"} : i.state[f] = s[f]
    BY <2>2 DEF IsSystem, Fields
  <2> QED
    BY <1>4, <2>2, <2>3 DEF Alike, Fields
<1> QED
  BY <1>1, <1>2, <1>3, <1>4

-------------------------------------------------------------------------------
(* The round                                                                 *)
LEMMA InitRound == Init => RoundInv
<1> SUFFICES ASSUME Init PROVE RoundInv
  OBVIOUS
<1>1. guest = [e \in Engine |-> Booted] /\ turn = "program"
      /\ executing = [e \in Engine |-> TRUE] /\ ~error /\ ~mismatch
  BY DEF Init
<1>2. I = Booted /\ J = Booted
  BY <1>1 DEF Engine, I, J
<1>3. IsSystem(Booted)
  BY DEF IsSystem, Fields, Booted
<1>4. Ready(Booted)
  BY DEF Ready, Booted
<1> HIDE DEF Booted
<1>5. Systems
  BY <1>1, <1>3 DEF Systems
<1>6. Between
  BY <1>1, <1>2, <1>4 DEF Between, Engine
<1> QED
  BY <1>1, <1>5, <1>6 DEF RoundInv, AtCall, AtJit, AtLeave, Ended

(* The program resets what the comparison does not look at.                  *)
LEMMA ProgramRound ==
    ASSUME TypeOK, RoundInv, Program
    PROVE  RoundInv'
<1> DEFINE Set(s, req) == [s EXCEPT !.sp = req.sp, !.r4 = req.a, !.out = <<>>,
                                    !.pc = "at", !.count = 0]
<1>1. /\ turn = "program" /\ turn' = "interpreter"
      /\ executing' = executing /\ error' = error /\ mismatch' = mismatch
  BY DEF Program
<1>2. /\ \A e \in Engine : executing[e] /\ Ready(guest[e]) /\ IsSystem(guest[e])
      /\ Seen(I) = Seen(J) /\ ~error /\ ~mismatch
  BY <1>1 DEF RoundInv, Between, Systems
<1>3. PICK req \in Requests : guest' = [e \in Engine |-> Set(guest[e], req)]
  BY <1>2 DEF Program
<1>4. I' = Set(I, req) /\ J' = Set(J, req) /\ DOMAIN guest' = Engine
  BY <1>3 DEF I, J, Engine
<1>5. ASSUME NEW s, IsSystem(s)
      PROVE  /\ IsSystem(Set(s, req)) /\ Set(s, req).sp = req.sp
             /\ Set(s, req).r4 = req.a /\ Set(s, req).out = <<>>
             /\ Set(s, req).pc = "at" /\ Set(s, req).count = 0
             /\ \A f \in Fields \ {"sp", "r4", "out", "pc", "count"} :
                   Set(s, req)[f] = s[f]
  BY <1>5 DEF IsSystem, Fields
<1>6. IsSystem(I) /\ IsSystem(J) /\ Ready(I) /\ Ready(J)
  BY <1>2 DEF I, J, Engine
<1> HIDE DEF Set
<1>7. IsSystem(I') /\ IsSystem(J') /\ Ready(I') /\ Ready(J') /\ Entered(J')
  BY <1>4, <1>5, <1>6 DEF Ready, Entered, Fields
<1>8. \A f \in Fields : I'[f] = J'[f]
  BY <1>2, <1>4, <1>5, <1>6 DEF Seen, Ready, Fields
<1>9. I' = J'
  BY <1>7, <1>8, SameSystem
<1>10. Systems' /\ \A e \in Engine : Ready(guest'[e])
  BY <1>4, <1>7 DEF Systems, I, J, Engine
<1>11. Between' /\ AtCall'
  BY <1>1, <1>2, <1>7, <1>9, <1>10 DEF Between, AtCall
<1> QED
  BY <1>1, <1>10, <1>11 DEF RoundInv, AtJit, AtLeave, Ended

LEMMA ExceptionKeeps ==
    ASSUME NEW s, IsSystem(s), NEW type
    PROVE  /\ IsSystem(HandleException(s, type))
           /\ \A f \in Fields \ {"code", "run"} : HandleException(s, type)[f] = s[f]
           /\ HandleException(s, type).run =
                 IF type \in {"AdEL", "AdES"} THEN s.run ELSE "complete_fail"
           /\ HandleException(s, type).code =
                 IF type \in {"AdEL", "AdES"} THEN s.code ELSE Top - 2
BY DEF HandleException, IsSystem, Fields

(* What the interpreter makes of a system is a system that stands or runs.   *)
LEMMA InterpretedIsSystem ==
    ASSUME IsSystem(J)
    PROVE  /\ IsSystem(Interpreted)
           /\ IsSystem([Interpreted EXCEPT !.count = 1])
           /\ \A f \in Fields \ {"count"} : [Interpreted EXCEPT !.count = 1][f] = Interpreted[f]
           /\ [Interpreted EXCEPT !.count = 1].count = 1
<1>1. IsSystem(Answered.state)
  BY HandledAlike DEF Alike, Answered
<1>2. IsSystem(Interpreted)
  <2>1. CASE request.call \in Exceptions
    BY <2>1, ExceptionKeeps DEF Interpreted
  <2>2. CASE request.call \notin Exceptions /\ Answered.end = "fault"
    BY <1>1, <2>2, ExceptionKeeps DEF Interpreted
  <2>3. CASE request.call \notin Exceptions /\ Answered.end # "fault"
    <3>1. Interpreted = [Answered.state EXCEPT !.pc = "past", !.r4 = Answered.value]
      BY <2>3 DEF Interpreted
    <3> QED
      BY <1>1, <3>1 DEF IsSystem, Fields
  <2> QED
    BY <2>1, <2>2, <2>3
<1> QED
  BY <1>2 DEF IsSystem, Fields

(* The interpreter moves; generated code waits with the system both had.     *)
LEMMA InterpretRound ==
    ASSUME TypeOK, RoundInv, Interpret
    PROVE  RoundInv'
<1>1. /\ turn = "interpreter" /\ turn' = "jit" /\ request' = request
      /\ mismatch' = mismatch
  BY DEF Interpret
<1>2. /\ I = J /\ Entered(J) /\ Ready(J) /\ IsSystem(J) /\ DOMAIN guest = Engine
      /\ executing["interpreter"] /\ executing["jit"] /\ ~error /\ ~mismatch
  BY <1>1 DEF RoundInv, AtCall, Between, Systems, J, Engine
<1>3. executing \in [Engine -> BOOLEAN]
  BY DEF TypeOK
<1> DEFINE after == [Interpreted EXCEPT !.count = 1]
           past == [Answered.state EXCEPT !.pc = "past", !.r4 = Answered.value]
<1>4. guest' = [guest EXCEPT !["interpreter"] = after]
      /\ \/ /\ Faults /\ Stops("interpreter", "fail")
         \/ /\ ~Faults /\ Throws /\ Stops("interpreter", Told(Interpreted))
         \/ /\ ~Faults /\ ~Throws /\ UNCHANGED <<executing, error>>
  <2>1. CASE /\ request.call \in Exceptions
             /\ guest' = [guest EXCEPT !["interpreter"] =
                            [HandleException(I, request.call) EXCEPT !.count = 1]]
             /\ Stops("interpreter", "fail")
    BY <1>2, <2>1 DEF Interpreted, Faults
  <2>2. CASE /\ request.call \notin Exceptions
             /\ Handle(I, request, "interpreter").end = "fault"
             /\ guest' = [guest EXCEPT !["interpreter"] =
                            [HandleException(Handle(I, request, "interpreter").state, "AdES")
                                EXCEPT !.count = 1]]
             /\ Stops("interpreter", "fail")
    BY <1>2, <2>2 DEF Interpreted, Faults, Answered
  <2>3. CASE /\ request.call \notin Exceptions
             /\ Handle(I, request, "interpreter").end = "throw"
             /\ guest' = [guest EXCEPT !["interpreter"] = [past EXCEPT !.count = 1]]
             /\ Stops("interpreter", Told(past))
    <3>1. Answered.end = "throw" /\ Interpreted = past
      BY <1>2, <2>3 DEF Interpreted, Answered
    <3> HIDE DEF past
    <3> QED
      BY <2>3, <3>1 DEF Faults, Throws
  <2>4. CASE /\ request.call \notin Exceptions
             /\ Handle(I, request, "interpreter").end = "return"
             /\ guest' = [guest EXCEPT !["interpreter"] = [past EXCEPT !.count = 1]]
             /\ UNCHANGED <<executing, error>>
    <3>1. Answered.end = "return" /\ Interpreted = past
      BY <1>2, <2>4 DEF Interpreted, Answered
    <3> HIDE DEF past
    <3> QED
      BY <2>4, <3>1 DEF Faults, Throws
  <2> QED
    BY <1>2, <2>1, <2>2, <2>3, <2>4 DEF Interpret, I, Answered
<1>5. J' = J /\ I' = after
  BY <1>2, <1>4 DEF I, J, Engine
<1>6. Interpreted' = Interpreted /\ Faults' = Faults /\ Throws' = Throws
  BY <1>1, <1>5 DEF Interpreted, Faults, Throws, Answered
<1>7. IsSystem(after)
  BY <1>2, InterpretedIsSystem
<1> HIDE DEF after
<1>8. Systems'
  BY <1>2, <1>4, <1>5, <1>7 DEF Systems, I, J, Engine
<1>9. /\ executing'["jit"]
      /\ executing'["interpreter"] <=> ~Faults /\ ~Throws
      /\ error' <=> Faults \/ (Throws /\ Interpreted.run # "complete_success")
  <2>1. CASE Faults /\ Stops("interpreter", "fail")
    BY <1>2, <1>3, <2>1 DEF Stops, Engine
  <2>2. CASE ~Faults /\ Throws /\ Stops("interpreter", Told(Interpreted))
    BY <1>2, <1>3, <2>2 DEF Stops, Told, Engine
  <2>3. CASE ~Faults /\ ~Throws /\ UNCHANGED <<executing, error>>
    BY <1>2, <2>3
  <2> QED
    BY <1>4, <2>1, <2>2, <2>3
<1>10. AtJit'
  <2>1. I' = [Interpreted' EXCEPT !.count = 1]
    BY <1>5, <1>6 DEF after
  <2>2. Ready(J') /\ Entered(J') /\ ~mismatch'
    BY <1>1, <1>2, <1>5
  <2> QED
    BY <1>6, <1>9, <2>1, <2>2 DEF AtJit
<1> QED
  BY <1>1, <1>8, <1>10 DEF RoundInv, Between, AtCall, AtLeave, Ended

(* Generated code moves: what it notes tells how the interpreter ended.      *)
LEMMA EmittedRound ==
    ASSUME TypeOK, RoundInv, Emitted
    PROVE  RoundInv'
<1> DEFINE B == Handle(J, request, "jit")
           done == [B.state EXCEPT !.count = 1]
           out == IF request.call \in Exceptions THEN [J EXCEPT !.trapped = request.call]
                  ELSE IF B.end = "fault" THEN [done EXCEPT !.trapped = "AdES"]
                  ELSE [done EXCEPT
                          !.r4 = B.value,
                          !.trapped = IF B.state.run # "running" THEN "InternalFlow" ELSE @]
<1>1. /\ turn = "jit" /\ turn' = "leave" /\ request' = request
      /\ UNCHANGED <<executing, error, mismatch>>
      /\ guest' = [guest EXCEPT !["jit"] = out]
  BY DEF Emitted, J
<1>2. /\ executing["jit"] /\ Ready(J) /\ Entered(J) /\ ~mismatch
      /\ I = [Interpreted EXCEPT !.count = 1]
      /\ executing["interpreter"] <=> ~Faults /\ ~Throws
      /\ error <=> Faults \/ (Throws /\ Interpreted.run # "complete_success")
      /\ IsSystem(I) /\ IsSystem(J) /\ DOMAIN guest = Engine
  BY <1>1 DEF RoundInv, AtJit, Systems, I, J, Engine
<1>3. executing \in [Engine -> BOOLEAN]
  BY DEF TypeOK
<1>4. I' = I /\ J' = out /\ DOMAIN guest' = Engine
  BY <1>1, <1>2 DEF I, J, Engine
<1>5. Alike(J, request, Answered, B)
  BY <1>2, HandledAlike DEF Answered
<1>6. /\ \A f \in Fields \ {"count"} : I[f] = Interpreted[f]
      /\ I.count = 1
  BY <1>2, InterpretedIsSystem
<1> HIDE DEF out, B
<1>7. ASSUME request.call \in Exceptions PROVE IsSystem(J') /\ AtLeave'
  <2>1. J' = [J EXCEPT !.trapped = request.call]
    BY <1>4, <1>7 DEF out
  <2>2. /\ IsSystem(J') /\ J'.trapped = request.call
        /\ \A f \in Fields \ {"trapped"} : J'[f] = J[f]
    BY <1>2, <2>1 DEF IsSystem, Fields
  <2>3. Interpreted = HandleException(J, request.call)
    BY <1>7 DEF Interpreted
  <2>4. /\ \A f \in Fields \ {"code", "run"} : Interpreted[f] = J[f]
        /\ Interpreted.run = HandleException(J', J'.trapped).run
        /\ Interpreted.code = HandleException(J', J'.trapped).code
    BY <1>2, <2>2, <2>3, ExceptionKeeps DEF Fields
  <2>5. ~executing["interpreter"] /\ error /\ ~Exits
    BY <1>2, <1>7 DEF Faults, Exits, Exceptions
  <2>6. J'.run = "running" /\ J'.pc = "at" /\ J'.count = 0 /\ I.trapped = "no"
    BY <1>2, <1>6, <2>2, <2>4 DEF Ready, Entered, Fields
  <2>7. <<I.r2, I.r7, I.user, I.tid, I.brk, I.r4>>
            = <<J'.r2, J'.r7, J'.user, J'.tid, J'.brk, J'.r4>>
    BY <1>6, <2>2, <2>4 DEF Fields
  <2>8. J'.trapped \in {"AdEL", "AdES"} => request.call \in {"AdEL", "AdES", "set_tid_address"}
    BY <2>2
  <2>9. I.run = HandleException(J', J'.trapped).run /\ I.code = HandleException(J', J'.trapped).code
    BY <1>6, <2>4 DEF Fields
  <2> QED
    BY <1>1, <1>2, <1>4, <1>7, <2>2, <2>5, <2>6, <2>7, <2>8, <2>9 DEF AtLeave, Exits
<1>8. ASSUME request.call \notin Exceptions, Answered.end = "fault"
      PROVE  IsSystem(J') /\ AtLeave'
  <2>1. B.end = "fault" /\ B.state = J /\ Answered.state = J
        /\ request.call = "set_tid_address"
    BY <1>5, <1>8 DEF Alike
  <2>2. J' = [[J EXCEPT !.count = 1] EXCEPT !.trapped = "AdES"]
    BY <1>4, <1>8, <2>1 DEF out
  <2>3. /\ IsSystem(J') /\ J'.trapped = "AdES" /\ J'.count = 1
        /\ \A f \in Fields \ {"trapped", "count"} : J'[f] = J[f]
    BY <1>2, <2>2 DEF IsSystem, Fields
  <2>4. Interpreted = J
    BY <1>8, <2>1 DEF Interpreted, HandleException
  <2>5. ~executing["interpreter"] /\ error /\ ~Exits
    BY <1>2, <1>8, <2>1 DEF Faults, Exits
  <2>6. J'.run = "running" /\ J'.pc = "at" /\ I.trapped = "no"
    BY <1>2, <1>6, <2>3, <2>4 DEF Ready, Entered, Fields
  <2>7. <<I.r2, I.r7, I.user, I.tid, I.brk, I.r4>>
            = <<J'.r2, J'.r7, J'.user, J'.tid, J'.brk, J'.r4>>
    BY <1>6, <2>3, <2>4 DEF Fields
  <2>8. I.run = J'.run /\ I.code = J'.code
    BY <1>6, <2>3, <2>4 DEF Fields
  <2>9. I.run = HandleException(J', J'.trapped).run /\ I.code = HandleException(J', J'.trapped).code
    BY <2>3, <2>8 DEF HandleException
  <2> QED
    BY <1>1, <1>2, <1>4, <2>1, <2>3, <2>5, <2>6, <2>7, <2>9 DEF AtLeave, Exits, Exceptions
<1>9. ASSUME request.call \notin Exceptions, Answered.end # "fault"
      PROVE  IsSystem(J') /\ AtLeave'
  <2> DEFINE t == Answered.state
             v == Answered.value
             trap == IF t.run # "running" THEN "InternalFlow" ELSE t.trapped
  <2>1. /\ IsSystem(t) /\ B.state = t /\ B.value = v /\ B.end = "return"
        /\ \A f \in {"r4", "sp", "trapped", "pc", "count"} : t[f] = J[f]
        /\ Answered.end \in {"return", "throw"}
    BY <1>5, <1>9 DEF Alike
  <2>2. J' = [[t EXCEPT !.count = 1] EXCEPT !.r4 = v,
                !.trapped = IF t.run # "running" THEN "InternalFlow" ELSE @]
    BY <1>4, <1>9, <2>1 DEF out
  <2>3. Interpreted = [t EXCEPT !.pc = "past", !.r4 = v]
    BY <1>9 DEF Interpreted
  <2> HIDE DEF t, v
  <2>4. /\ IsSystem(J') /\ J'.trapped = trap /\ J'.count = 1 /\ J'.r4 = v
        /\ \A f \in Fields \ {"trapped", "count", "r4"} : J'[f] = t[f]
    BY <2>1, <2>2 DEF IsSystem, Fields
  <2>5. /\ Interpreted.pc = "past" /\ Interpreted.r4 = v
        /\ \A f \in Fields \ {"pc", "r4"} : Interpreted[f] = t[f]
    BY <2>1, <2>3 DEF IsSystem, Fields
  <2>6. /\ <<I.r2, I.r7, I.user, I.tid, I.brk, I.r4>>
              = <<J'.r2, J'.r7, J'.user, J'.tid, J'.brk, J'.r4>>
        /\ I.run = J'.run /\ I.code = J'.code /\ I.pc = "past" /\ I.trapped = "no"
        /\ J'.pc = "at" /\ Interpreted.run = t.run /\ J'.run = t.run /\ J'.code = t.code
    BY <1>2, <1>6, <2>1, <2>4, <2>5 DEF Fields, Ready, Entered
  <2>7. ~Faults /\ (Throws <=> Answered.end = "throw")
    BY <1>9 DEF Faults, Throws
  <2>8. CASE Answered.end = "return"
    <3>1. t.run = "running"
      BY <1>2, <1>5, <2>8 DEF Alike, Ready, t
    <3>2. J'.trapped = "no"
      BY <1>2, <2>1, <2>4, <3>1 DEF Ready
    <3>3. executing["interpreter"] /\ ~error
      BY <1>2, <2>7, <2>8
    <3> QED
      BY <1>1, <1>2, <1>4, <1>6, <2>4, <2>6, <3>1, <3>2, <3>3 DEF AtLeave
  <2>9. CASE Answered.end = "throw"
    <3>1. /\ t.run # "running"
          /\ t.run = "complete_success" <=> Exits
          /\ Exits => t.code = request.a
      BY <1>5, <2>9 DEF Alike, Exits, t
    <3>2. J'.trapped = "InternalFlow"
      BY <2>4, <3>1
    <3>3. ~executing["interpreter"] /\ (error <=> t.run # "complete_success")
      BY <1>2, <2>6, <2>7, <2>9
    <3> QED
      BY <1>1, <1>2, <1>4, <1>6, <2>4, <2>6, <3>1, <3>2, <3>3 DEF AtLeave, Exits
  <2> QED
    BY <2>1, <2>8, <2>9
<1>10. IsSystem(J') /\ AtLeave'
  BY <1>7, <1>8, <1>9
<1>11. Systems'
  BY <1>2, <1>4, <1>10 DEF Systems, I, J, Engine
<1> QED
  BY <1>1, <1>10, <1>11 DEF RoundInv, Between, AtCall, AtJit, Ended

(* Generated code returns to execute_instruction(), and both ended alike.    *)
LEMMA LeaveRound ==
    ASSUME TypeOK, RoundInv, LeaveChunk
    PROVE  RoundInv'
<1>1. /\ turn = "leave" /\ turn' = "compare" /\ request' = request
      /\ mismatch' = mismatch
  BY DEF LeaveChunk
<1>2. AtLeave /\ IsSystem(I) /\ IsSystem(J) /\ DOMAIN guest = Engine
      /\ executing \in [Engine -> BOOLEAN]
  BY DEF RoundInv, Systems, I, J, Engine, TypeOK
<1>3. \A e \in Engine : IsSystem(guest[e])
  BY DEF RoundInv, Systems
<1>4. CASE J.trapped = "no"
  <2> DEFINE t == [J EXCEPT !.pc = "past"]
  <2>1. guest' = [guest EXCEPT !["jit"] = t]
        /\ UNCHANGED <<executing, error>>
    BY <1>4 DEF LeaveChunk, J, Exceptions
  <2>2. IsSystem(t) /\ t.pc = "past"
        /\ \A f \in Fields \ {"pc"} : t[f] = J[f]
    BY <1>2 DEF IsSystem, Fields
  <2> HIDE DEF t
  <2>3. /\ I' = I /\ IsSystem(J') /\ J'.pc = "past" /\ Systems'
        /\ \A f \in Fields \ {"pc"} : J'[f] = J[f]
    <3>1. I' = I /\ J' = t /\ DOMAIN guest' = Engine
      BY <1>2, <2>1 DEF I, J, Engine
    <3>2. Systems'
      BY <1>3, <2>1, <2>2, <3>1 DEF Systems, I, J, Engine
    <3> QED
      BY <2>2, <3>1, <3>2
  <2>4. Seen(I') = Seen(J') /\ Compared(I') = Compared(J')
        /\ executing["interpreter"] /\ executing["jit"] /\ ~error /\ ~mismatch
        /\ I'.trapped = "no" /\ J'.trapped = "no"
        /\ I'.run = "running" /\ J'.run = "running"
    BY <1>1, <1>2, <1>4, <2>3 DEF AtLeave, Seen, Compared, Fields, Exceptions
  <2>5. Ended'
    BY <1>1, <2>1, <2>4 DEF Ended
  <2> QED
    BY <1>1, <2>3, <2>5 DEF RoundInv, Between, AtCall, AtJit, AtLeave
<1>5. CASE J.trapped = "InternalFlow"
  <2> DEFINE t == [J EXCEPT !.trapped = "no"]
  <2>0. J.run # "running"
    BY <1>1, <1>2, <1>5 DEF AtLeave, Exceptions
  <2>1. guest' = [guest EXCEPT !["jit"] = t]
        /\ Stops("jit", Told(J))
    BY <1>5, <2>0 DEF LeaveChunk, J
  <2>2. IsSystem(t) /\ t.trapped = "no"
        /\ \A f \in Fields \ {"trapped"} : t[f] = J[f]
    BY <1>2 DEF IsSystem, Fields
  <2> HIDE DEF t
  <2>3. /\ I' = I /\ IsSystem(J') /\ J'.trapped = "no" /\ Systems'
        /\ \A f \in Fields \ {"trapped"} : J'[f] = J[f]
    <3>1. I' = I /\ J' = t /\ DOMAIN guest' = Engine
      BY <1>2, <2>1 DEF I, J, Engine
    <3>2. Systems'
      BY <1>3, <2>1, <2>2, <3>1 DEF Systems, I, J, Engine
    <3> QED
      BY <2>2, <3>1, <3>2
  <2>4. /\ ~executing["interpreter"] /\ ~mismatch
        /\ error <=> J.run # "complete_success"
        /\ Exits <=> J.run = "complete_success"
        /\ Exits => J.code = request.a
        /\ I.trapped = "no" /\ Seen(I) = Seen(J)
    BY <1>1, <1>2, <1>5 DEF AtLeave, Exceptions, Seen
  <2>5. /\ executing'["interpreter"] = FALSE /\ executing'["jit"] = FALSE
        /\ error' <=> J.run # "complete_success"
    BY <1>2, <2>1, <2>4 DEF Stops, Told, Engine
  <2>6. Seen(J') = Seen(J) /\ J'.run = J.run /\ J'.code = J.code
    BY <2>3 DEF Seen, Fields
  <2>7. Ended'
    BY <1>1, <2>0, <2>3, <2>4, <2>5, <2>6 DEF Ended, Exits
  <2> QED
    BY <1>1, <2>3, <2>7 DEF RoundInv, Between, AtCall, AtJit, AtLeave
<1>6. CASE J.trapped \in Exceptions
  <2> DEFINE kept == [J EXCEPT !.trapped = "no"]
             handled == HandleException(kept, J.trapped)
             t == [handled EXCEPT !.count = @ + 1]
  <2>0. J.run = "running" /\ J.trapped # "no"
    BY <1>1, <1>2, <1>6 DEF AtLeave, Exceptions
  <2>1. guest' = [guest EXCEPT !["jit"] = t]
        /\ Stops("jit", "fail")
    BY <1>6, <2>0 DEF LeaveChunk, J
  <2>2. IsSystem(kept) /\ kept.trapped = "no"
        /\ \A f \in Fields \ {"trapped"} : kept[f] = J[f]
    BY <1>2 DEF IsSystem, Fields
  <2> HIDE DEF kept
  <2>3. /\ IsSystem(handled)
        /\ \A f \in Fields \ {"code", "run"} : handled[f] = kept[f]
        /\ handled.run = HandleException(J, J.trapped).run
        /\ handled.code = HandleException(J, J.trapped).code
    BY <1>2, <2>2, ExceptionKeeps DEF Fields
  <2> HIDE DEF handled
  <2>4. IsSystem(t) /\ \A f \in Fields \ {"count"} : t[f] = handled[f]
    BY <2>3 DEF IsSystem, Fields
  <2> HIDE DEF t
  <2>5. /\ I' = I /\ IsSystem(J') /\ Systems'
        /\ \A f \in Fields \ {"count"} : J'[f] = handled[f]
    <3>1. I' = I /\ J' = t /\ DOMAIN guest' = Engine
      BY <1>2, <2>1 DEF I, J, Engine
    <3>2. Systems'
      BY <1>3, <2>1, <2>4, <3>1 DEF Systems, I, J, Engine
    <3> QED
      BY <2>4, <3>1, <3>2
  <2>6. /\ ~executing["interpreter"] /\ ~mismatch /\ error /\ ~Exits
        /\ I.run = handled.run /\ I.code = handled.code /\ I.trapped = "no"
        /\ <<I.r2, I.r4, I.r7, I.user, I.tid, I.brk>>
              = <<J.r2, J.r4, J.r7, J.user, J.tid, J.brk>>
        /\ J.trapped \in {"AdEL", "AdES"} =>
              request.call \in {"AdEL", "AdES", "set_tid_address"}
    BY <1>1, <1>2, <1>6, <2>0, <2>3 DEF AtLeave, Exceptions
  <2>7. <<J'.r2, J'.r4, J'.r7, J'.user, J'.tid, J'.brk, J'.trapped, J'.run, J'.code>>
          = <<J.r2, J.r4, J.r7, J.user, J.tid, J.brk, "no", handled.run, handled.code>>
    BY <2>2, <2>3, <2>5 DEF Fields
  <2>8. Seen(I') = Seen(J')
    BY <2>5, <2>6, <2>7 DEF Seen
  <2>9. executing'["interpreter"] = FALSE /\ executing'["jit"] = FALSE /\ error'
    BY <1>2, <2>1, <2>6 DEF Stops, Engine
  <2>10. handled.run = "running" => J.trapped \in {"AdEL", "AdES"}
    <3>1. HandleException(J, J.trapped).run =
              IF J.trapped \in {"AdEL", "AdES"} THEN J.run ELSE "complete_fail"
      BY <1>2, ExceptionKeeps
    <3> QED
      BY <2>3, <3>1
  <2>11. J'.trapped = "no" /\ J'.run = handled.run /\ I'.trapped = "no"
    BY <2>5, <2>6, <2>7
  <2>12. Ended'
    BY <1>1, <2>6, <2>8, <2>9, <2>10, <2>11 DEF Ended, Exits
  <2> QED
    BY <1>1, <2>5, <2>12 DEF RoundInv, Between, AtCall, AtJit, AtLeave
<1> QED
  BY <1>1, <1>2, <1>4, <1>5, <1>6 DEF AtLeave

LEMMA CompareRound ==
    ASSUME TypeOK, RoundInv, Compare
    PROVE  RoundInv'
<1>1. /\ turn = "compare" /\ UNCHANGED <<guest, request, executing, error>>
      /\ I' = I /\ J' = J
      /\ Ended /\ Systems /\ executing \in [Engine -> BOOLEAN]
  BY DEF Compare, I, J, RoundInv, TypeOK
<1>2. Systems'
  BY <1>1 DEF Systems
<1>3. CASE executing["jit"]
  <2>1. /\ Seen(I) = Seen(J) /\ Compared(I) = Compared(J) /\ ~error /\ ~mismatch
        /\ \A e \in Engine : executing[e] /\ Ready(guest[e])
    BY <1>1, <1>3 DEF Ended, Engine, Ready, I, J
  <2>2. turn' = "program" /\ ~mismatch'
    BY <1>1, <1>3, <2>1 DEF Compare, I, J, Engine
  <2>3. Between'
    BY <1>1, <2>1, <2>2 DEF Between
  <2> QED
    BY <1>1, <1>2, <2>2, <2>3 DEF RoundInv, AtCall, AtJit, AtLeave, Ended
<1>4. CASE ~executing["jit"]
  <2>1. turn' = "over"
    BY <1>1, <1>4 DEF Compare, Ended, Engine
  <2>2. Ended'
    BY <1>1, <1>4, <2>1 DEF Ended, Exits
  <2> QED
    BY <1>1, <1>2, <2>1, <2>2 DEF RoundInv, Between, AtCall, AtJit, AtLeave
<1> QED
  BY <1>3, <1>4

-------------------------------------------------------------------------------
(* Induction over a set of numbers, and what it says of recursive functions  *)
LEMMA LeastNumber ==
    ASSUME NEW S \in SUBSET Nat, S # {}
    PROVE  \E m \in S : \A k \in S : m <= k
<1> DEFINE R == OpToRel(<, Nat)
<1>1. IsWellFoundedOn(R, Nat)
  BY NatLessThanWellFounded
<1>2. \A x, y \in Nat : x < y => <<x, y>> \in R
  BY DEF OpToRel
<1> HIDE DEF R
<1>3. PICK m \in S : \A y \in S : <<y, m>> \notin R
  BY <1>1, WFMin
<1>4. ASSUME NEW k \in S PROVE m <= k
  <2>1. k \in Nat /\ m \in Nat /\ ~(k < m)
    BY <1>2, <1>3
  <2> QED
    BY <2>1
<1> QED
  BY <1>4

LEMMA SetInduction ==
    ASSUME NEW T, 0 \in T, \A n \in Nat : n \in T => n + 1 \in T
    PROVE  Nat \subseteq T
<1> SUFFICES ASSUME Nat \ T # {} PROVE FALSE
  OBVIOUS
<1>1. PICK m \in Nat \ T : \A k \in Nat \ T : m <= k
  BY LeastNumber
<1>2. m # 0 /\ m - 1 \in Nat
  BY <1>1
<1>3. m - 1 \in T
  BY <1>1, <1>2
<1>4. (m - 1) + 1 \in T
  BY <1>2, <1>3
<1> QED
  BY <1>1, <1>4

Recursive(f, n, base, step) ==
    f = [i \in 0 .. n |-> IF i = 0 THEN base ELSE step[i][f[i - 1]]]

LEMMA FiniteRecursion ==
    ASSUME NEW c \in Nat, NEW V, NEW base \in V, NEW step \in [1 .. c -> [V -> V]]
    PROVE  \E f \in [0 .. c -> V] : Recursive(f, c, base, step)
<1> USE DEF Recursive
<1> DEFINE Upto(n, f) == Recursive(f, n, base, step)
           T == {n \in Nat : n <= c => \E f \in [0 .. n -> V] : Upto(n, f)}
<1>1. 0 \in T
  <2> DEFINE f == [i \in 0 .. 0 |-> base]
  <2>1. f \in [0 .. 0 -> V]
    OBVIOUS
  <2>2. Upto(0, f)
    OBVIOUS
  <2> QED
    BY <2>1, <2>2
<1>2. ASSUME NEW n \in Nat, n \in T PROVE n + 1 \in T
  <2> SUFFICES ASSUME n + 1 <= c PROVE \E f \in [0 .. n + 1 -> V] : Upto(n + 1, f)
    OBVIOUS
  <2>1. PICK f \in [0 .. n -> V] : Upto(n, f)
    BY <1>2
  <2> DEFINE g == [i \in 0 .. n + 1 |-> IF i = n + 1 THEN step[n + 1][f[n]] ELSE f[i]]
  <2>2. n + 1 \in 1 .. c /\ f[n] \in V
    OBVIOUS
  <2>3. step[n + 1][f[n]] \in V
    BY <2>2
  <2>4. g \in [0 .. n + 1 -> V]
    BY <2>3
  <2>5. \A i \in 0 .. n : f[i] = IF i = 0 THEN base ELSE step[i][f[i - 1]]
    BY <2>1
  <2>6. \A i \in 0 .. n + 1 : g[i] = IF i = 0 THEN base ELSE step[i][g[i - 1]]
    BY <2>5
  <2>7. Upto(n + 1, g)
    <3> HIDE DEF g
    <3> QED
      BY <2>4, <2>6
  <2> QED
    BY <2>4, <2>7
<1> HIDE DEF T
<1>3. c \in T
  BY <1>1, <1>2, SetInduction
<1> QED
  BY <1>3 DEF T

-------------------------------------------------------------------------------
(* writev                                                                    *)
LEMMA MinIsLeast ==
    ASSUME NEW S \in SUBSET Nat, S # {}
    PROVE  Min(S) \in S /\ \A k \in S : Min(S) <= k
<1>1. PICK m \in S : \A k \in S : m <= k
  BY LeastNumber
<1> QED
  BY <1>1 DEF Min

(* However the two loops cut a span, they write it up to the first byte that *)
(* cannot be read, and the call faults if there is one.                      *)
Reads(vector, i) == Wrap(vector.base + i) \in Readable

LEMMA ExtentIsPrefix ==
    ASSUME NEW vector, vector.base \in Word, vector.len \in Word
    PROVE  /\ Extent(vector) \in 0 .. vector.len
           /\ \A i \in 0 .. Extent(vector) - 1 : Reads(vector, i)
           /\ Extent(vector) < vector.len => ~Reads(vector, Extent(vector))
           /\ VectorFaults(vector) <=> Extent(vector) < vector.len
<1> DEFINE base == vector.base
           len == vector.len
           all == len \div 8
           cut == {i \in 0 .. all - 1 : ~Fetches(base + 8 * i, 8)}
           k == Chunks(vector)
           bad == {i \in 8 * k .. len - 1 : ~Fetches(base + i, 1)}
<1>1. base \in Nat /\ len \in Nat /\ all \in Nat /\ 8 * all <= len /\ len - 8 * all < 8
  BY WordSize DEF Word
<1>2. /\ k \in 0 .. all
      /\ \A i \in 0 .. k - 1 : Fetches(base + 8 * i, 8)
      /\ k < all => ~Fetches(base + 8 * k, 8)
  <2>1. k = IF cut = {} THEN all ELSE Min(cut)
    BY DEF Chunks
  <2>2. cut \in SUBSET Nat
    BY <1>1
  <2>3. CASE cut = {}
    BY <1>1, <2>1, <2>3
  <2>4. CASE cut # {}
    <3>1. k \in cut /\ \A i \in cut : k <= i
      BY <2>1, <2>2, <2>4, MinIsLeast
    <3> QED
      BY <1>1, <3>1
  <2> QED
    BY <2>3, <2>4
<1>3. \A i \in Nat : Fetches(base + i, 1) <=> Reads(vector, i)
  BY <1>1 DEF Fetches, Reads
<1>4. \A i \in Nat : Fetches(base + 8 * i, 8) <=>
                        \A j \in 0 .. 7 : Reads(vector, 8 * i + j)
  BY <1>1 DEF Fetches, Reads
<1> HIDE DEF base, len, all, cut, k
<1>5. \A i \in 0 .. 8 * k - 1 : Reads(vector, i)
  <2> SUFFICES ASSUME NEW i \in 0 .. 8 * k - 1 PROVE Reads(vector, i)
    OBVIOUS
  <2>1. /\ i \in Nat /\ i \div 8 \in 0 .. k - 1 /\ i % 8 \in 0 .. 7
        /\ i = 8 * (i \div 8) + (i % 8)
    BY <1>1, <1>2
  <2> QED
    BY <1>2, <1>4, <2>1
<1>6. Extent(vector) = IF bad = {} THEN len ELSE Min(bad)
  BY DEF Extent, k, len, base
<1>7. bad = {i \in 8 * k .. len - 1 : ~Reads(vector, i)} /\ bad \in SUBSET Nat
  BY <1>1, <1>2, <1>3
<1>8. VectorFaults(vector) <=> k < all \/ Extent(vector) < len
  BY DEF VectorFaults, k, all, len
<1>9. k < all => bad # {}
  <2> SUFFICES ASSUME k < all PROVE bad # {}
    OBVIOUS
  <2>1. PICK j \in 0 .. 7 : ~Reads(vector, 8 * k + j)
    BY <1>1, <1>2, <1>4
  <2>2. 8 * k + j \in 8 * k .. len - 1
    BY <1>1, <1>2
  <2> QED
    BY <1>7, <2>1, <2>2
<1>10. CASE bad = {}
  <2>1. Extent(vector) = len /\ ~(k < all)
    BY <1>6, <1>9, <1>10
  <2>2. \A i \in 0 .. len - 1 : Reads(vector, i)
    BY <1>1, <1>2, <1>5, <1>7, <1>10
  <2> QED
    BY <1>1, <1>8, <2>1, <2>2 DEF len
<1>11. CASE bad # {}
  <2>1. Extent(vector) \in bad /\ \A i \in bad : Extent(vector) <= i
    BY <1>6, <1>7, <1>11, MinIsLeast
  <2>2. /\ Extent(vector) \in 8 * k .. len - 1 /\ ~Reads(vector, Extent(vector))
        /\ Extent(vector) \in 0 .. len /\ Extent(vector) < len
    BY <1>1, <1>2, <1>7, <2>1
  <2>3. \A i \in 0 .. Extent(vector) - 1 : Reads(vector, i)
    BY <1>1, <1>2, <1>5, <1>7, <2>1, <2>2
  <2> QED
    BY <1>8, <2>2, <2>3 DEF len
<1> QED
  BY <1>10, <1>11

(* What is known after each record                                           *)
Progress == [faulted : BOOLEAN, written : Word, out : Seq(Word)]

LEMMA BytesAreWords ==
    ASSUME NEW base \in Word, NEW size \in Nat
    PROVE  Bytes(base, size) \in Seq(Word) /\ Len(Bytes(base, size)) = size
<1>1. \A i \in 1 .. size : Wrap(base + i - 1) \in Word
  BY WrapIsWord, WordSize DEF Word
<1> QED
  BY <1>1 DEF Bytes

LEMMA VectorProgress ==
    ASSUME NEW v \in Progress, NEW p
    PROVE  WriteVector(v, p) \in Progress
<1>1. CASE v.faulted \/ p \notin DOMAIN Vectors
  BY <1>1 DEF WriteVector, Progress
<1>2. CASE ~v.faulted /\ p \in DOMAIN Vectors
  <2> DEFINE vector == Vectors[p]
  <2>1. vector.base \in Word /\ vector.len \in Word
    BY <1>2, VemixAssumption
  <2>2. Extent(vector) \in Nat
    BY <2>1, ExtentIsPrefix, WordSize DEF Word
  <2>3. VectorFaults(vector) \in BOOLEAN
    BY DEF VectorFaults
  <2>4. Bytes(vector.base, Extent(vector)) \in Seq(Word)
    BY <2>1, <2>2, BytesAreWords
  <2>5. v.out \o Bytes(vector.base, Extent(vector)) \in Seq(Word)
    BY <2>4 DEF Progress
  <2>6. Wrap(v.written + vector.len) \in Word
    <3>1. v.written \in Int /\ vector.len \in Int
      BY <2>1, WordSize DEF Progress, Word
    <3> QED
      BY <3>1, WrapIsWord
  <2>7. WriteVector(v, p) =
          [faulted |-> VectorFaults(vector), written |-> Wrap(v.written + vector.len),
           out |-> v.out \o Bytes(vector.base, Extent(vector))]
    BY <1>2 DEF WriteVector
  <2> QED
    BY <2>3, <2>5, <2>6, <2>7 DEF Progress
<1> QED
  BY <1>1, <1>2

LEMMA WrittenIs ==
    ASSUME NEW req \in Requests
    PROVE  /\ Written(req)[0] = [faulted |-> FALSE, written |-> 0, out |-> <<>>]
           /\ \A i \in 1 .. req.c : Written(req)[i]
                 = WriteVector(Written(req)[i - 1], Pointers(req)[i])
           /\ \A i \in 0 .. req.c : Written(req)[i] \in Progress
<1> DEFINE base == [faulted |-> FALSE, written |-> 0, out |-> <<>>]
           step == [i \in 1 .. req.c |-> [v \in Progress |-> WriteVector(v, Pointers(req)[i])]]
           run == Written(req)
<1>1. req.c \in Nat
  BY RequestIsWords, WordSize DEF Word
<1>2. base \in Progress
  BY WordSize DEF Progress, Word
<1>3. step \in [1 .. req.c -> [Progress -> Progress]]
  BY VectorProgress
<1> HIDE DEF base
<1>4. PICK f \in [0 .. req.c -> Progress] : Recursive(f, req.c, base, step)
  <2> HIDE DEF step
  <2> QED
    BY <1>1, <1>2, <1>3, FiniteRecursion
<1>5. \A i \in 1 .. req.c : step[i][f[i - 1]] = WriteVector(f[i - 1], Pointers(req)[i])
  BY <1>1
<1>6. f = [i \in 0 .. req.c |-> IF i = 0 THEN base
                                ELSE WriteVector(f[i - 1], Pointers(req)[i])]
  <2> HIDE DEF step
  <2> QED
    BY <1>1, <1>4, <1>5 DEF Recursive
<1>7. run = [i \in 0 .. req.c |-> IF i = 0 THEN base
                                  ELSE WriteVector(run[i - 1], Pointers(req)[i])]
  BY <1>6 DEF Written, base
<1> HIDE DEF run, step
<1>8. run[0] = base
      /\ \A i \in 1 .. req.c : run[i] = WriteVector(run[i - 1], Pointers(req)[i])
  BY <1>1, <1>7
<1> DEFINE T == {n \in Nat : n <= req.c => run[n] \in Progress}
<1>9. 0 \in T
  BY <1>2, <1>8
<1>10. ASSUME NEW n \in Nat, n \in T PROVE n + 1 \in T
  <2> SUFFICES ASSUME n + 1 <= req.c PROVE run[n + 1] \in Progress
    OBVIOUS
  <2>1. run[n] \in Progress /\ n + 1 \in 1 .. req.c /\ (n + 1) - 1 = n
    BY <1>1, <1>10
  <2>2. run[n + 1] = WriteVector(run[n], Pointers(req)[n + 1])
    BY <1>8, <2>1
  <2> QED
    BY <2>1, <2>2, VectorProgress
<1>11. Nat \subseteq T
  <2> HIDE DEF T
  <2> QED
    BY <1>9, <1>10, SetInduction
<1>12. \A i \in 0 .. req.c : run[i] \in Progress
  BY <1>1, <1>11
<1> QED
  BY <1>8, <1>12 DEF run, base

-------------------------------------------------------------------------------
(* What a call leaves fits its words.                                        *)
Typed(s) ==
    /\ {s.r2, s.r4, s.r7, s.user} \subseteq Word
    /\ s.brk \in 0 .. DataLimit /\ s.brk % 4 = 0
    /\ s.tid \subseteq Readable
    /\ s.run \in {"running", "complete_success", "complete_fail"}
    /\ s.code \in Word

LEMMA SmallNumbersAreWords == 0 .. 128 \subseteq Word
BY WordSize DEF Word

(* Where the break goes is a word boundary of the data, and what the program *)
(* is told of it are words.                                                  *)
LEMMA MovedFits ==
    ASSUME NEW s, Typed(s), NEW req \in Requests
    PROVE  /\ Moved(s, req).store \in 0 .. DataLimit /\ Moved(s, req).store % 4 = 0
           /\ Moved(s, req).result0 \in Word
           /\ Moved(s, req).result1 \in Int
           /\ ~Moved(s, req).success => Moved(s, req).result1 = ENOMEM
<1>1. /\ s.brk \in Nat /\ s.brk <= DataLimit /\ s.brk % 4 = 0 /\ s.brk \in Word
      /\ req.a \in Word /\ req.a \in Int
  BY DataIsWords, RequestIsWords, WordSize DEF Typed, Word
<1>2. CASE req.call = "brk"
  <2> DEFINE up == Wrap(req.a + 3)
             end == AlignUnsigned(req.a)
  <2>1. up \in Word /\ end = up - (up % 4)
    BY <1>1, WrapIsWord DEF AlignUnsigned
  <2> HIDE DEF up
  <2>2. end \in Nat /\ end % 4 = 0 /\ end \in Word
    <3> HIDE DEF end
    <3> QED
      BY <2>1, WordSize DEF Word
  <2> HIDE DEF end
  <2>3. CheckBreak(s, end) => end \in 0 .. DataLimit
    BY <2>2, DataIsWords DEF CheckBreak
  <2>4. Moved(s, req) = Break(s, req)
    BY <1>2 DEF Moved
  <2> QED
    BY <1>1, <2>2, <2>3, <2>4 DEF Break, end, ENOMEM
<1>3. CASE req.call # "brk"
  <2> DEFINE increment == AlignSigned(Signed(req.a))
             end == s.brk + increment
  <2>1. Signed(req.a) \in Int
    BY <1>1, WordSize DEF Signed
  <2>2. PICK n \in Int : increment = 4 * n
    <3> DEFINE size == Signed(req.a)
               n == IF size >= 0 THEN (size + 3) \div 4 ELSE (size - 3) \div 4
    <3>1. increment = n * 4
      BY DEF AlignSigned
    <3> HIDE DEF size, increment
    <3>2. n \in Int
      BY <2>1 DEF size
    <3> HIDE DEF n
    <3> QED
      BY <3>1, <3>2
  <2> HIDE DEF increment
  <2>3. increment \in Int /\ end \in Int /\ end % 4 = 0
    <3>1. PICK m \in Nat : s.brk = 4 * m
      BY <1>1
    <3>2. end = 4 * (m + n) /\ m + n \in Int
      BY <2>2, <3>1
    <3> HIDE DEF end
    <3> QED
      BY <2>2, <3>2
  <2>4. end \in BreakBase .. Highest /\ CheckBreak(s, end) => end \in 0 .. DataLimit
    BY <2>3, DataIsWords DEF CheckBreak
  <2>5. 0 .. DataLimit \subseteq Word
    BY DataIsWords, WordSize DEF Word
  <2>6. Moved(s, req) = SmallBreak(s, req)
    BY <1>3 DEF Moved
  <2> HIDE DEF end
  <2> QED
    BY <1>1, <2>2, <2>3, <2>4, <2>5, <2>6 DEF SmallBreak, end, increment, ENOMEM
<1> QED
  BY <1>2, <1>3

LEMMA HandledFits ==
    ASSUME NEW s, IsSystem(s), Typed(s), NEW req \in Requests, NEW e
    PROVE  /\ Typed(Handle(s, req, e).state)
           /\ Handle(s, req, e).value \in 0 .. 1
<1>0. {0, 1, ENOSYS, EBADF, EFAULT, ENOMEM} \subseteq Word
  BY SmallNumbersAreWords DEF ENOSYS, EBADF, EFAULT, ENOMEM
<1>1. CASE req.call \in {"brk", "sbrk"}
  <2> DEFINE t == MoveBreak(s, req)
  <2>1. Handle(s, req, e) = Answer(t, req, "return", 0)
    <3>1. req.call \in PlainCalls
      BY <1>1 DEF PlainCalls
    <3>2. Handle(s, req, e) = Answer(Reported(s, req), req, "return", 0)
      BY <3>1, PlainHandled
    <3> QED
      BY <1>1, <3>2 DEF Reported
  <2>2. /\ t.r4 = s.r4 /\ t.user = s.user /\ t.tid = s.tid /\ t.run = s.run
        /\ t.code = s.code /\ t.brk = Moved(s, req).store
    <3>1. \A f \in Fields \ {"r2", "r7", "brk"} : t[f] = s[f]
      BY BreakIsSystem, Zenon
    <3>2. t.brk = Moved(s, req).store
      BY BreakIsSystem, Zenon
    <3> HIDE DEF t
    <3> QED
      BY <3>1, <3>2 DEF Fields
  <2>3. t.r2 \in Word
    <3>1. t.r2 = IF Moved(s, req).success \/ req.flagged
                 THEN Moved(s, req).result0 ELSE Moved(s, req).result1
      BY BreakIsSystem, Zenon
    <3> HIDE DEF t
    <3> QED
      BY <1>0, <3>1, MovedFits
  <2>4. t.r7 \in Word
    <3>1. t.r7 = IF req.flagged
                 THEN Wrap(IF Moved(s, req).success THEN Moved(s, req).result1
                           ELSE -Moved(s, req).result1)
                 ELSE IF Moved(s, req).success THEN 0 ELSE 1
      BY BreakIsSystem, Zenon
    <3>2. (IF Moved(s, req).success THEN Moved(s, req).result1
           ELSE -Moved(s, req).result1) \in Int
      BY MovedFits
    <3> HIDE DEF t
    <3> QED
      BY <1>0, <3>1, <3>2, WrapIsWord
  <2> HIDE DEF t
  <2> QED
    BY <2>1, <2>2, <2>3, <2>4, MovedFits DEF Answer, Typed
<1>2. CASE req.call = "writev"
  <2> DEFINE t == Writev(s, req)
             done == Written(req)[req.c]
  <2>1. Handle(s, req, e) = Answer(t, req, "return", 0)
    <3>1. req.call \in PlainCalls
      BY <1>2 DEF PlainCalls
    <3>2. Handle(s, req, e) = Answer(Reported(s, req), req, "return", 0)
      BY <3>1, PlainHandled
    <3> QED
      BY <1>2, <3>2 DEF Reported
  <2>2. /\ t.r4 = s.r4 /\ t.user = s.user /\ t.tid = s.tid /\ t.run = s.run
        /\ t.code = s.code /\ t.brk = s.brk
    <3>1. \A f \in Fields \ {"r2", "r7", "out"} : t[f] = s[f]
      BY WritevIsSystem, Zenon
    <3> HIDE DEF t
    <3> QED
      BY <3>1 DEF Fields
  <2>3. done.written \in Word
    <3>1. req.c \in 0 .. req.c
      BY RequestIsWords, WordSize DEF Word
    <3> QED
      BY <3>1, WrittenIs DEF Progress
  <2>4. t.r2 \in {EBADF, EFAULT, done.written} /\ t.r7 \in {0, 1}
    <3> HIDE DEF t
    <3> QED
      BY WritevIsSystem DEF t
  <2> HIDE DEF t
  <2> QED
    BY <1>0, <2>1, <2>2, <2>3, <2>4 DEF Answer, Typed
<1>3. CASE req.call \in PlainCalls \ {"brk", "sbrk", "writev"}
  <2> DEFINE t == Reported(s, req)
  <2>1. Handle(s, req, e) = Answer(t, req, "return", 0)
    <3>1. req.call \in PlainCalls
      BY <1>3
    <3> QED
      BY <3>1, PlainHandled
  <2>2. \/ t = [s EXCEPT !.r2 = ENOSYS, !.r7 = 1]
        \/ t = [s EXCEPT !.r2 = 0, !.r7 = 0]
        \/ t = [s EXCEPT !.r2 = 1, !.r7 = 0]
        \/ t = [[s EXCEPT !.user = req.a] EXCEPT !.r2 = 0, !.r7 = 0]
    BY <1>3 DEF Reported, SetResult
  <2>3. /\ t.r4 = s.r4 /\ t.tid = s.tid /\ t.run = s.run /\ t.code = s.code
        /\ t.brk = s.brk
        /\ t.r2 \in {0, 1, ENOSYS} /\ t.r7 \in {0, 1} /\ t.user \in {s.user, req.a}
    <3> HIDE DEF t
    <3> QED
      BY <2>2 DEF IsSystem, Fields
  <2> HIDE DEF t
  <2> QED
    BY <1>0, <2>1, <2>3, RequestIsWords DEF Answer, Typed
<1>4. CASE req.call = "set_tid_address"
  <2>1. Handle(s, req, e) = SetTidAddress(s, req)
    BY <1>4, OtherHandled DEF PlainCalls, Missing, Ignored
  <2>2. CASE Fetches(req.a, 4)
    <3> DEFINE t == [[s EXCEPT !.tid = @ \cup {req.a}] EXCEPT !.r2 = 0, !.r7 = 0]
    <3>1. Handle(s, req, e) = Answer(t, req, "return", 0)
      BY <2>1, <2>2 DEF SetTidAddress, SetResult
    <3>2. /\ t.r2 = 0 /\ t.r7 = 0 /\ t.tid = s.tid \cup {req.a} /\ t.r4 = s.r4
          /\ t.user = s.user /\ t.run = s.run /\ t.code = s.code /\ t.brk = s.brk
      BY DEF IsSystem, Fields
    <3>3. req.a \in Readable
      <4>1. req.a \in 0 .. 2^Bits - 1 /\ Wrap(req.a + 0) \in Readable
        BY <2>2, RequestIsWords DEF Fetches, Word
      <4> QED
        BY <4>1, WordSize DEF Wrap
    <3> HIDE DEF t
    <3> QED
      BY <1>0, <3>1, <3>2, <3>3 DEF Answer, Typed
  <2>3. CASE ~Fetches(req.a, 4)
    BY <2>1, <2>3 DEF SetTidAddress, Answer
  <2> QED
    BY <2>2, <2>3
<1>5. CASE req.call \in {"exit", "exit_group"}
  <2> DEFINE t == [s EXCEPT !.code = req.a, !.run = "complete_success"]
  <2>1. Handle(s, req, e).state = t /\ Handle(s, req, e).value = 1
    <3>1. Handle(s, req, e) = Exit(s, req, e)
      BY <1>5, OtherHandled DEF PlainCalls, Missing, Ignored
    <3> QED
      BY <3>1 DEF Exit, Answer
  <2>2. /\ t.code = req.a /\ t.run = "complete_success" /\ t.brk = s.brk
        /\ <<t.r2, t.r4, t.r7, t.user, t.tid>> = <<s.r2, s.r4, s.r7, s.user, s.tid>>
    BY DEF IsSystem, Fields
  <2> HIDE DEF t
  <2> QED
    BY <2>1, <2>2, RequestIsWords DEF Typed
<1>6. CASE req.call \notin PlainCalls \cup {"set_tid_address", "exit", "exit_group"}
  <2> DEFINE t == [[s EXCEPT !.r2 = ENOSYS, !.r7 = 1]
                          EXCEPT !.code = Top - 1, !.run = "complete_fail"]
  <2>1. Handle(s, req, e).state = t /\ Handle(s, req, e).value = 1
    <3>1. Handle(s, req, e) = Unknown(s, req, e)
      BY <1>6, OtherHandled
    <3> QED
      BY <3>1 DEF Unknown, SetResult, Answer
  <2>2. /\ t.code = Top - 1 /\ t.run = "complete_fail" /\ t.brk = s.brk
        /\ t.r2 = ENOSYS /\ t.r7 = 1
        /\ <<t.r4, t.user, t.tid>> = <<s.r4, s.user, s.tid>>
    BY DEF IsSystem, Fields
  <2>3. Top - 1 \in Word
    BY WordSize DEF Word
  <2> HIDE DEF t
  <2> QED
    BY <1>0, <2>1, <2>2, <2>3 DEF Typed
<1> QED
  BY <1>1, <1>2, <1>3, <1>4, <1>5, <1>6

-------------------------------------------------------------------------------
(* The types                                                                 *)
Shaped(s) ==
    /\ s.trapped \in Exceptions \cup {"no", "InternalFlow"}
    /\ s.pc \in {"at", "past"} /\ s.count \in 0 .. 2

(* TypeOK, one system at a time.                                             *)
LEMMA TypesOfBoth ==
    TypeOK <=> /\ Typed(I) /\ Typed(J) /\ Shaped(I) /\ Shaped(J)
               /\ request \in Requests
               /\ turn \in Engine \cup {"program", "leave", "compare", "over"}
               /\ executing \in [Engine -> BOOLEAN]
               /\ error \in BOOLEAN /\ mismatch \in BOOLEAN
BY DEF TypeOK, Typed, Shaped, Engine, I, J

LEMMA ExceptionFits ==
    ASSUME NEW s, IsSystem(s), Typed(s), NEW type
    PROVE  Typed(HandleException(s, type))
<1>1. Top - 2 \in Word
  BY WordSize DEF Word
<1>2. \A f \in {"r2", "r4", "r7", "user", "brk", "tid"} : HandleException(s, type)[f] = s[f]
  BY ExceptionKeeps DEF Fields
<1>3. HandleException(s, type).run \in {s.run, "complete_fail"}
      /\ HandleException(s, type).code \in {s.code, Top - 2}
  BY ExceptionKeeps
<1> QED
  BY <1>1, <1>2, <1>3 DEF Typed

LEMMA InitTypes == Init => TypeOK
<1> SUFFICES ASSUME Init PROVE TypeOK
  OBVIOUS
<1>1. I = Booted /\ J = Booted
  BY DEF Init, I, J, Engine
<1>2. 0 \in Word /\ BreakBase \in 0 .. DataLimit /\ BreakBase % 4 = 0
  BY WordSize, DataIsWords DEF Word
<1>3. Typed(Booted) /\ Shaped(Booted)
  BY <1>2 DEF Booted, Typed, Shaped
<1> HIDE DEF Booted
<1> QED
  BY <1>1, <1>3, TypesOfBoth DEF Init

LEMMA ProgramTypes ==
    ASSUME TypeOK, RoundInv, Program
    PROVE  TypeOK'
<1> DEFINE Set(s, req) == [s EXCEPT !.sp = req.sp, !.r4 = req.a, !.out = <<>>,
                                    !.pc = "at", !.count = 0]
<1>1. PICK req \in Requests :
        /\ request' = req
        /\ guest' = [e \in Engine |-> IF executing[e] THEN Set(guest[e], req) ELSE guest[e]]
  BY DEF Program
<1>2. ASSUME NEW s, IsSystem(s), Typed(s), Shaped(s)
      PROVE  Typed(Set(s, req)) /\ Shaped(Set(s, req))
  <2> DEFINE t == Set(s, req)
  <2>1. /\ t.r4 = req.a /\ t.pc = "at" /\ t.count = 0 /\ t.trapped = s.trapped
        /\ t.brk = s.brk /\ t.run = s.run /\ t.code = s.code /\ t.tid = s.tid
        /\ t.r2 = s.r2 /\ t.r7 = s.r7 /\ t.user = s.user
    BY <1>2 DEF IsSystem, Fields
  <2> HIDE DEF t
  <2>2. Typed(t) /\ Shaped(t)
    BY <1>2, <2>1, RequestIsWords DEF Typed, Shaped
  <2> QED
    BY <2>2 DEF t
<1>3. /\ I' \in {I, Set(I, req)} /\ J' \in {J, Set(J, req)}
  BY <1>1 DEF I, J, Engine
<1>4. IsSystem(I) /\ IsSystem(J)
  BY DEF RoundInv, Systems, I, J, Engine
<1> HIDE DEF Set
<1>5. Typed(I') /\ Shaped(I') /\ Typed(J') /\ Shaped(J')
  BY <1>2, <1>3, <1>4, TypesOfBoth
<1>6. turn' \in Engine \cup {"program", "leave", "compare", "over"}
      /\ executing' \in [Engine -> BOOLEAN] /\ error' \in BOOLEAN /\ mismatch' \in BOOLEAN
      /\ request' \in Requests
  BY <1>1, TypesOfBoth DEF Program, Engine
<1> QED
  BY <1>5, <1>6 DEF TypeOK, Typed, Shaped, Engine, I, J
(* What the interpreter leaves, seen from the system it found                *)
LEMMA InterpretMoves ==
    ASSUME TypeOK, RoundInv, Interpret
    PROVE  /\ IsSystem(I) /\ IsSystem(J) /\ I = J /\ J' = J /\ Ready(J) /\ Entered(J)
           /\ request' = request /\ turn = "interpreter"
           /\ I' = [Interpreted EXCEPT !.count = 1]
           /\ \A f \in Fields \ {"count"} : I'[f] = Interpreted[f]
           /\ I'.count = 1
<1>1. /\ turn = "interpreter" /\ turn' = "jit" /\ request' = request
      /\ I = J /\ IsSystem(I) /\ IsSystem(J) /\ Ready(J) /\ Entered(J)
      /\ DOMAIN guest = Engine
  BY DEF Interpret, RoundInv, AtCall, Systems, Between, I, J, Engine
<1>2. J' = J
  BY <1>1 DEF Interpret, J, Engine
<1>3. I' = [Interpreted' EXCEPT !.count = 1]
  BY <1>1, InterpretRound DEF RoundInv, AtJit
<1>4. Interpreted' = Interpreted
  BY <1>1, <1>2 DEF Interpreted, Answered
<1>5. I' = [Interpreted EXCEPT !.count = 1]
  BY <1>3, <1>4
<1>6. /\ \A f \in Fields \ {"count"} : [Interpreted EXCEPT !.count = 1][f] = Interpreted[f]
      /\ [Interpreted EXCEPT !.count = 1].count = 1
  BY <1>1, InterpretedIsSystem
<1> QED
  BY <1>1, <1>2, <1>5, <1>6

LEMMA InterpretTypes ==
    ASSUME TypeOK, RoundInv, Interpret
    PROVE  TypeOK'
<1> DEFINE t == Answered.state
<1>1. /\ IsSystem(J) /\ I = J /\ J' = J /\ Ready(J) /\ Entered(J)
      /\ request' = request /\ I'.count = 1
      /\ \A f \in Fields \ {"count"} : I'[f] = Interpreted[f]
  BY InterpretMoves
<1>2. Typed(J) /\ Shaped(J) /\ request \in Requests
  BY TypesOfBoth
<1>3. Typed(t) /\ Answered.value \in 0 .. 1
  BY <1>1, <1>2, HandledFits DEF Answered
<1>4. IsSystem(t) /\ \A f \in {"r4", "sp", "trapped", "pc", "count"} : t[f] = J[f]
  <2>1. Alike(J, request, Answered, Handle(J, request, "jit"))
    BY <1>1, HandledAlike DEF Answered
  <2> QED
    BY <2>1 DEF Alike
<1> HIDE DEF t
<1>5. /\ \A f \in {"r2", "r7", "user", "brk", "tid", "trapped"} : Interpreted[f] \in {J[f], t[f]}
      /\ Typed(Interpreted) /\ Interpreted.trapped = J.trapped
      /\ Interpreted.pc \in {"past", J.pc}
  <2>1. CASE request.call \in Exceptions
    <3>1. Interpreted = HandleException(J, request.call)
      BY <2>1 DEF Interpreted
    <3>2. \A f \in Fields \ {"code", "run"} : Interpreted[f] = J[f]
      BY <1>1, <3>1, ExceptionKeeps
    <3> QED
      BY <1>1, <1>2, <3>1, <3>2, ExceptionFits DEF Fields
  <2>2. CASE request.call \notin Exceptions /\ Answered.end = "fault"
    <3>1. Interpreted = HandleException(t, "AdES")
      BY <2>2 DEF Interpreted, t
    <3>2. \A f \in Fields \ {"code", "run"} : Interpreted[f] = t[f]
      BY <1>4, <3>1, ExceptionKeeps
    <3> QED
      BY <1>3, <1>4, <3>1, <3>2, ExceptionFits DEF Fields
  <2>3. CASE request.call \notin Exceptions /\ Answered.end # "fault"
    <3>1. Interpreted = [t EXCEPT !.pc = "past", !.r4 = Answered.value]
      BY <2>3 DEF Interpreted, t
    <3>2. /\ Interpreted.pc = "past" /\ Interpreted.r4 = Answered.value
          /\ \A f \in Fields \ {"pc", "r4"} : Interpreted[f] = t[f]
      BY <1>4, <3>1 DEF IsSystem, Fields
    <3>3. 0 .. 1 \subseteq Word
      BY SmallNumbersAreWords
    <3> QED
      BY <1>3, <1>4, <3>2, <3>3 DEF Typed, Fields
  <2> QED
    BY <2>1, <2>2, <2>3
<1>6. Typed(I') /\ Shaped(I')
  BY <1>1, <1>2, <1>5 DEF Typed, Shaped, Fields, Entered
<1>7. executing' \in [Engine -> BOOLEAN] /\ error' \in BOOLEAN
  BY TypesOfBoth DEF Interpret, Stops
<1>8. turn' \in Engine \cup {"program", "leave", "compare", "over"}
      /\ mismatch' \in BOOLEAN
  BY TypesOfBoth DEF Interpret, Engine
<1> QED
  BY <1>1, <1>2, <1>6, <1>7, <1>8 DEF TypeOK, Typed, Shaped, Engine, I, J

(* What generated code leaves before it is back in execute_instruction()     *)
LEMMA EmittedMoves ==
    ASSUME TypeOK, RoundInv, Emitted
    PROVE  LET B == Handle(J, request, "jit").state IN
           /\ IsSystem(J) /\ IsSystem(B) /\ I' = I /\ request' = request
           /\ \A f \in {"r2", "r7", "brk", "user", "tid", "out", "run", "code"} :
                 J'[f] = IF request.call \in Exceptions THEN J[f] ELSE B[f]
           /\ J'.r4 \in {J.r4, B.r4, Handle(J, request, "jit").value}
           /\ J'.trapped \in Exceptions \cup {"no", "InternalFlow"}
           /\ J'.pc = "at" /\ J'.count \in 0 .. 1
<1> DEFINE A == Handle(J, request, "jit")
           B == A.state
           done == [B EXCEPT !.count = 1]
           out == IF request.call \in Exceptions THEN [J EXCEPT !.trapped = request.call]
                  ELSE IF A.end = "fault" THEN [done EXCEPT !.trapped = "AdES"]
                  ELSE [done EXCEPT
                          !.r4 = A.value,
                          !.trapped = IF B.run # "running" THEN "InternalFlow" ELSE @]
<1>1. /\ IsSystem(J) /\ DOMAIN guest = Engine /\ Ready(J) /\ Entered(J)
      /\ request' = request
  BY DEF RoundInv, Systems, AtJit, J, Engine, Emitted
<1>2. I' = I /\ J' = out
  BY <1>1 DEF Emitted, I, J, Engine
<1>3. IsSystem(B) /\ \A f \in {"r4", "sp", "trapped", "pc", "count"} : B[f] = J[f]
  <2>1. Alike(J, request, Answered, A)
    BY <1>1, HandledAlike DEF Answered
  <2>2. Answered.state = B
    BY <2>1 DEF Alike
  <2> QED
    BY <2>1, <2>2 DEF Alike
<1> HIDE DEF A, B
<1>4. /\ \A f \in {"r2", "r7", "brk", "user", "tid", "out", "run", "code"} :
            out[f] = IF request.call \in Exceptions THEN J[f] ELSE B[f]
      /\ out.r4 \in {J.r4, B.r4, A.value}
      /\ out.trapped \in Exceptions \cup {"no", "InternalFlow"}
      /\ out.pc = "at" /\ out.count \in 0 .. 1
  <2>1. CASE request.call \in Exceptions
    <3>1. out = [J EXCEPT !.trapped = request.call]
      BY <2>1
    <3> HIDE DEF out
    <3> QED
      BY <1>1, <2>1, <3>1 DEF IsSystem, Fields, Entered
  <2>2. CASE request.call \notin Exceptions /\ A.end = "fault"
    <3>1. out = [[B EXCEPT !.count = 1] EXCEPT !.trapped = "AdES"]
      BY <2>2
    <3> HIDE DEF out
    <3> QED
      BY <1>1, <1>3, <2>2, <3>1 DEF IsSystem, Fields, Entered, Exceptions
  <2>3. CASE request.call \notin Exceptions /\ A.end # "fault"
    <3>1. out = [[B EXCEPT !.count = 1] EXCEPT !.r4 = A.value,
                     !.trapped = IF B.run # "running" THEN "InternalFlow" ELSE @]
      BY <2>3
    <3> HIDE DEF out
    <3> QED
      BY <1>1, <1>3, <2>3, <3>1 DEF IsSystem, Fields, Entered, Ready
  <2> QED
    BY <2>1, <2>2, <2>3
<1> HIDE DEF out
<1> QED
  BY <1>1, <1>2, <1>3, <1>4 DEF A, B

LEMMA EmittedTypes ==
    ASSUME TypeOK, RoundInv, Emitted
    PROVE  TypeOK'
<1> DEFINE B == Handle(J, request, "jit").state
<1>1. /\ IsSystem(J) /\ IsSystem(B) /\ I' = I /\ request' = request
      /\ \A f \in {"r2", "r7", "brk", "user", "tid", "run", "code"} :
            J'[f] = IF request.call \in Exceptions THEN J[f] ELSE B[f]
      /\ J'.r4 \in {J.r4, B.r4, Handle(J, request, "jit").value}
      /\ J'.trapped \in Exceptions \cup {"no", "InternalFlow"}
      /\ J'.pc = "at" /\ J'.count \in 0 .. 1
  BY EmittedMoves
<1>2. Typed(I) /\ Shaped(I) /\ Typed(J) /\ request \in Requests
  BY TypesOfBoth
<1>3. Typed(B) /\ Handle(J, request, "jit").value \in Word
  BY <1>1, <1>2, HandledFits, SmallNumbersAreWords
<1> HIDE DEF B
<1>4. Typed(J') /\ Shaped(J')
  BY <1>1, <1>2, <1>3 DEF Typed, Shaped
<1>5. /\ turn' \in Engine \cup {"program", "leave", "compare", "over"}
      /\ executing' \in [Engine -> BOOLEAN] /\ error' \in BOOLEAN /\ mismatch' \in BOOLEAN
  BY TypesOfBoth DEF Emitted
<1> QED
  BY <1>1, <1>2, <1>4, <1>5 DEF TypeOK, Typed, Shaped, Engine, I, J
(* What execute_instruction() leaves when the chunk has returned             *)
LEMMA LeaveMoves ==
    ASSUME TypeOK, RoundInv, LeaveChunk
    PROVE  /\ I' = I /\ request' = request /\ IsSystem(J) /\ turn = "leave"
           /\ \A f \in Fields \ {"pc", "trapped", "count", "run", "code"} : J'[f] = J[f]
           /\ J'.run \in {J.run, "complete_fail"} /\ J'.code \in {J.code, Top - 2}
           /\ J'.trapped = "no" /\ J'.pc \in {"at", "past"}
           /\ J'.count \in {J.count, J.count + 1}
<1>1. /\ turn = "leave" /\ request' = request /\ DOMAIN guest = Engine
      /\ IsSystem(J) /\ J.pc = "at"
  BY DEF LeaveChunk, RoundInv, AtLeave, Systems, J, Engine
<1>2. CASE J.trapped = "no"
  <2> DEFINE t == [J EXCEPT !.pc = "past"]
  <2>1. guest' = [guest EXCEPT !["jit"] = t]
    BY <1>2 DEF LeaveChunk, J, Exceptions
  <2>2. t.pc = "past" /\ \A f \in Fields \ {"pc"} : t[f] = J[f]
    BY <1>1 DEF IsSystem, Fields
  <2> HIDE DEF t
  <2>3. I' = I /\ J' = t
    BY <1>1, <2>1 DEF I, J, Engine
  <2> QED
    BY <1>1, <1>2, <2>2, <2>3 DEF Fields
<1>3. CASE J.trapped # "no" /\ J.run # "running"
  <2> DEFINE t == [J EXCEPT !.trapped = "no"]
  <2>1. guest' = [guest EXCEPT !["jit"] = t]
    BY <1>3 DEF LeaveChunk, J
  <2>2. t.trapped = "no" /\ \A f \in Fields \ {"trapped"} : t[f] = J[f]
    BY <1>1 DEF IsSystem, Fields
  <2> HIDE DEF t
  <2>3. I' = I /\ J' = t
    BY <1>1, <2>1 DEF I, J, Engine
  <2> QED
    BY <1>1, <2>2, <2>3 DEF Fields
<1>4. CASE J.trapped # "no" /\ J.run = "running"
  <2> DEFINE kept == [J EXCEPT !.trapped = "no"]
             handled == HandleException(kept, J.trapped)
             t == [handled EXCEPT !.count = @ + 1]
  <2>1. guest' = [guest EXCEPT !["jit"] = t]
    BY <1>4 DEF LeaveChunk, J
  <2>2. IsSystem(kept) /\ kept.trapped = "no"
        /\ \A f \in Fields \ {"trapped"} : kept[f] = J[f]
    BY <1>1 DEF IsSystem, Fields
  <2> HIDE DEF kept
  <2>3. /\ IsSystem(handled)
        /\ \A f \in Fields \ {"code", "run"} : handled[f] = kept[f]
        /\ handled.run \in {kept.run, "complete_fail"}
        /\ handled.code \in {kept.code, Top - 2}
    BY <2>2, ExceptionKeeps
  <2> HIDE DEF handled
  <2>4. t.count = handled.count + 1 /\ \A f \in Fields \ {"count"} : t[f] = handled[f]
    BY <2>3 DEF IsSystem, Fields
  <2> HIDE DEF t
  <2>5. I' = I /\ J' = t
    BY <1>1, <2>1 DEF I, J, Engine
  <2> QED
    BY <1>1, <2>2, <2>3, <2>4, <2>5 DEF Fields
<1> QED
  BY <1>2, <1>3, <1>4

LEMMA LeaveTypes ==
    ASSUME TypeOK, RoundInv, LeaveChunk
    PROVE  TypeOK'
<1>1. /\ I' = I /\ request' = request
      /\ \A f \in Fields \ {"pc", "trapped", "count", "run", "code"} : J'[f] = J[f]
      /\ J'.run \in {J.run, "complete_fail"} /\ J'.code \in {J.code, Top - 2}
      /\ J'.trapped = "no" /\ J'.pc \in {"at", "past"}
      /\ J'.count \in {J.count, J.count + 1}
  BY LeaveMoves
<1>2. J.count \in 0 .. 1 /\ Top - 2 \in Word
  BY WordSize DEF LeaveChunk, RoundInv, AtLeave, Word
<1>3. Typed(I) /\ Shaped(I) /\ Typed(J) /\ request \in Requests
  BY TypesOfBoth
<1>4. Typed(J') /\ Shaped(J')
  BY <1>1, <1>2, <1>3 DEF Typed, Shaped, Fields
<1>5. executing' \in [Engine -> BOOLEAN] /\ error' \in BOOLEAN
  BY TypesOfBoth DEF LeaveChunk, Stops
<1>6. turn' \in Engine \cup {"program", "leave", "compare", "over"}
      /\ mismatch' \in BOOLEAN
  BY TypesOfBoth DEF LeaveChunk
<1> QED
  BY <1>1, <1>3, <1>4, <1>5, <1>6 DEF TypeOK, Typed, Shaped, Engine, I, J

LEMMA CompareTypes ==
    ASSUME TypeOK, Compare
    PROVE  TypeOK'
<1>1. UNCHANGED <<guest, request, executing, error>> /\ turn' \in {"over", "program"}
      /\ mismatch' \in BOOLEAN
  BY DEF Compare, TypeOK
<1> QED
  BY <1>1 DEF TypeOK

-------------------------------------------------------------------------------
(* The inductive invariant, and what follows from it                         *)
IInv == TypeOK /\ RoundInv

LEMMA InitIInv == Init => IInv
BY InitTypes, InitRound DEF IInv

LEMMA NextIInv == IInv /\ [Next]_vars => IInv'
<1> SUFFICES ASSUME TypeOK, RoundInv, [Next]_vars PROVE TypeOK' /\ RoundInv'
  BY DEF IInv
<1>1. CASE Program
  BY <1>1, ProgramTypes, ProgramRound
<1>2. CASE Interpret
  BY <1>2, InterpretTypes, InterpretRound
<1>3. CASE Emitted
  BY <1>3, EmittedTypes, EmittedRound
<1>4. CASE LeaveChunk
  BY <1>4, LeaveTypes, LeaveRound
<1>5. CASE Compare
  BY <1>5, CompareTypes, CompareRound
<1>6. CASE UNCHANGED vars
  BY <1>6 DEF vars, TypeOK, RoundInv, Systems, Between, AtCall, AtJit, AtLeave, Ended,
              I, J, Interpreted, Answered, Faults, Throws, Exits
<1> QED
  BY <1>1, <1>2, <1>3, <1>4, <1>5, <1>6 DEF Next, Over

THEOREM Inductive == Spec => []IInv
BY InitIInv, NextIInv, PTL DEF Spec

(* TypeOK for every width of a word and every program: what calls leave fits *)
(* the registers and the memory of the guest.                                *)
THEOREM TypeCorrect == Spec => []TypeOK
<1>1. IInv => TypeOK
  BY DEF IInv
<1> QED
  BY <1>1, Inductive, PTL

(* EnginesAgree: at the end of every round both systems are what the other   *)
(* is, although they come back from a call in different ways.                *)
THEOREM SystemsAgree == Spec => []EnginesAgree
<1>1. IInv => EnginesAgree
  <2> SUFFICES ASSUME IInv, turn \in {"program", "compare", "over"}
               PROVE  /\ Seen(I) = Seen(J)
                      /\ executing["interpreter"] = executing["jit"]
                      /\ mismatch => \A e \in Engine : ~executing[e]
    BY DEF EnginesAgree, I, J
  <2>1. executing \in [Engine -> BOOLEAN]
    BY DEF IInv, TypeOK
  <2> QED
    BY <2>1 DEF IInv, RoundInv, Between, Ended, Engine
<1> QED
  BY <1>1, Inductive, PTL

(* EndIsTold: who stops stopped for the reason the process reports.          *)
THEOREM EndsAreTold == Spec => []EndIsTold
<1>1. IInv => EndIsTold
  <2> SUFFICES ASSUME IInv, turn \in {"program", "compare", "over"}, NEW e \in Engine
               PROVE  /\ executing[e] => guest[e].run = "running" /\ ~error
                      /\ ~executing[e] =>
                            /\ Exits <=> ~error
                            /\ Exits => /\ guest[e].run = "complete_success"
                                        /\ guest[e].code = request.a
                            /\ guest[e].run = "running" =>
                                  request.call \in {"AdEL", "AdES", "set_tid_address"}
    BY DEF EndIsTold, Exits
  <2>1. executing \in [Engine -> BOOLEAN] /\ (guest[e] = I \/ guest[e] = J)
        /\ e \in {"interpreter", "jit"}
    BY DEF IInv, TypeOK, Engine, I, J
  <2>2. CASE turn = "program"
    BY <2>2 DEF IInv, RoundInv, Between, Ready
  <2>3. CASE turn \in {"compare", "over"}
    <3>1. Ended
      BY DEF IInv, RoundInv
    <3>2. I.run = J.run /\ I.code = J.code /\ executing[e] = executing["jit"]
      BY <2>1, <2>3, <3>1 DEF Ended, Seen
    <3> QED
      BY <2>1, <2>3, <3>1, <3>2 DEF Ended
  <2> QED
    BY <2>2, <2>3
<1> QED
  BY <1>1, Inductive, PTL
-------------------------------------------------------------------------------
(* The break                                                                 *)

(* An address is moved up to a word boundary, unless it is so high that it   *)
(* comes out at zero; an increment is never moved towards zero.              *)
LEMMA AlignedUp ==
    ASSUME NEW x \in Word
    PROVE  AlignUnsigned(x) >= x \/ (x > Highest - 3 /\ AlignUnsigned(x) = 0)
<1> DEFINE up == Wrap(x + 3)
<1>1. x \in Nat /\ x < 2^Bits /\ AlignUnsigned(x) = up - (up % 4)
  BY WordSize DEF Word, AlignUnsigned
<1>2. CASE x + 3 < 2^Bits
  <2>1. up = x + 3
    BY <1>1, <1>2, WordSize DEF Wrap
  <2> QED
    BY <1>1, <2>1
<1>3. CASE x + 3 >= 2^Bits
  <2>1. up = x + 3 - 2^Bits
    BY <1>1, <1>3, WordSize DEF Wrap
  <2>2. up \in 0 .. 2
    BY <1>1, <1>3, <2>1, WordSize
  <2>3. up - (up % 4) = 0
    BY <2>2
  <2> QED
    BY <1>1, <1>3, <2>3, WordSize DEF Highest
<1> QED
  BY <1>1, <1>2, <1>3, WordSize

LEMMA AlignedAway ==
    ASSUME NEW n \in Int
    PROVE  AlignSigned(n) \in Int /\ Magnitude(AlignSigned(n)) >= Magnitude(n)
<1>1. CASE n >= 0
  <2>1. AlignSigned(n) = ((n + 3) \div 4) * 4
    BY <1>1 DEF AlignSigned
  <2> QED
    BY <1>1, <2>1 DEF Magnitude
<1>2. CASE n < 0
  <2>1. AlignSigned(n) = ((n - 3) \div 4) * 4
    BY <1>2 DEF AlignSigned
  <2> QED
    BY <1>2, <2>1 DEF Magnitude
<1> QED
  BY <1>1, <1>2

(* What a system is told of its break, by the calls that move it             *)
MoveIsTold(s, t, req) ==
    /\ t.brk # s.brk => /\ t.brk <= s.sp
                        /\ req.call = "sbrk" => t.brk >= BreakBase
                        /\ req.flagged \/ t.r7 = 0
    /\ req.call = "brk" =>
          \/ req.a = 0
          \/ t.brk >= req.a /\ t.r2 = t.brk
          \/ req.a > Highest - 3 /\ t.brk = 0
          \/ t.brk = s.brk /\ t.r7 # 0
    /\ req.call = "sbrk" =>
          \/ t.r2 = s.brk /\ Magnitude(t.brk - s.brk) >= Magnitude(Signed(req.a))
          \/ t.brk = s.brk /\ t.r7 # 0

LEMMA MoveBreakIsTold ==
    ASSUME NEW s, IsSystem(s), Typed(s),
           NEW req \in Requests, req.call \in {"brk", "sbrk"}
    PROVE  MoveIsTold(s, MoveBreak(s, req), req)
<1> DEFINE t == MoveBreak(s, req)
           moved == Moved(s, req)
<1>1. /\ t.brk = moved.store
      /\ t.r2 = IF moved.success \/ req.flagged THEN moved.result0 ELSE moved.result1
      /\ t.r7 = IF req.flagged
                THEN Wrap(IF moved.success THEN moved.result1 ELSE -moved.result1)
                ELSE IF moved.success THEN 0 ELSE 1
  <2>1. t.brk = moved.store
    BY BreakIsSystem, Zenon
  <2>2. t.r2 = IF moved.success \/ req.flagged THEN moved.result0 ELSE moved.result1
    BY BreakIsSystem, Zenon
  <2>3. t.r7 = IF req.flagged
               THEN Wrap(IF moved.success THEN moved.result1 ELSE -moved.result1)
               ELSE IF moved.success THEN 0 ELSE 1
    BY BreakIsSystem, Zenon
  <2> QED
    BY <2>1, <2>2, <2>3
<1> HIDE DEF t
<1>2. s.brk \in Int /\ req.a \in Word /\ req.flagged \in BOOLEAN /\ req.a \in Int
  BY RequestIsWords, WordSize DEF Typed, Word
<1>3. Wrap(-ENOMEM) # 0
  <2>1. Wrap(-12) = 2^Bits - 12
    BY WordSize DEF Wrap
  <2> QED
    BY <2>1, WordSize DEF ENOMEM
<1>4. CASE req.a = 0
  <2>1. moved = [store |-> s.brk, success |-> TRUE, result0 |-> s.brk, result1 |-> 0]
    BY <1>4 DEF Moved, Break, SmallBreak
  <2>2. t.brk = s.brk /\ t.r2 = s.brk
    BY <1>1, <2>1
  <2>3. Magnitude(Signed(req.a)) = 0 /\ Magnitude(t.brk - s.brk) = 0
    BY <1>2, <1>4, <2>2, WordSize DEF Magnitude, Signed
  <2> QED
    BY <1>4, <2>2, <2>3 DEF MoveIsTold, t
<1>5. CASE req.a # 0 /\ ~moved.success
  <2>1. moved = [store |-> s.brk, success |-> FALSE, result0 |-> s.brk, result1 |-> ENOMEM]
    BY <1>5 DEF Moved, Break, SmallBreak
  <2>2. t.brk = s.brk /\ t.r7 # 0
    BY <1>1, <1>3, <2>1
  <2> QED
    BY <2>2 DEF MoveIsTold, t
<1>6. CASE req.a # 0 /\ moved.success /\ req.call = "brk"
  <2> DEFINE end == AlignUnsigned(req.a)
  <2> HIDE DEF end
  <2>1. /\ CheckBreak(s, end)
        /\ moved = [store |-> end, success |-> TRUE, result0 |-> end, result1 |-> 0]
    BY <1>6 DEF Moved, Break, end
  <2>2. t.brk = end /\ t.r2 = end /\ end <= s.sp /\ (req.flagged \/ t.r7 = 0)
    BY <1>1, <2>1 DEF CheckBreak
  <2>3. end >= req.a \/ (req.a > Highest - 3 /\ end = 0)
    BY <1>2, AlignedUp DEF end
  <2> QED
    BY <1>6, <2>2, <2>3 DEF MoveIsTold, t
<1>7. CASE req.a # 0 /\ moved.success /\ req.call = "sbrk"
  <2> DEFINE increment == AlignSigned(Signed(req.a))
             end == s.brk + increment
  <2>0. Signed(req.a) \in Int
    BY <1>2, WordSize DEF Signed
  <2>1. increment \in Int /\ Magnitude(increment) >= Magnitude(Signed(req.a))
    BY <2>0, AlignedAway
  <2> HIDE DEF increment
  <2>2. /\ end \in BreakBase .. Highest /\ CheckBreak(s, end)
        /\ moved = [store |-> end, success |-> TRUE,
                    result0 |-> s.brk, result1 |-> increment]
    BY <1>7 DEF Moved, SmallBreak, increment
  <2>3. end - s.brk = increment
    BY <1>2, <2>1
  <2>4. end <= s.sp /\ end >= BreakBase
    BY <2>2, DataIsWords, WordSize DEF CheckBreak, Highest
  <2> HIDE DEF end
  <2>5. t.brk = end /\ t.r2 = s.brk /\ (req.flagged \/ t.r7 = 0)
    BY <1>1, <2>2
  <2> QED
    BY <1>7, <2>1, <2>3, <2>4, <2>5 DEF MoveIsTold, t
<1> QED
  BY <1>4, <1>5, <1>6, <1>7
LEMMA OthersKeepBreak ==
    ASSUME NEW s, IsSystem(s), NEW req, req.call \notin {"brk", "sbrk"}, NEW e
    PROVE  Handle(s, req, e).state.brk = s.brk
<1>1. CASE req.call = "writev"
  <2>1. Handle(s, req, e).state = Writev(s, req)
    <3>1. req.call \in PlainCalls
      BY <1>1 DEF PlainCalls
    <3>2. Handle(s, req, e) = Answer(Reported(s, req), req, "return", 0)
      BY <3>1, PlainHandled
    <3> QED
      BY <1>1, <3>2 DEF Reported, Answer
  <2>2. \A f \in Fields \ {"r2", "r7", "out"} : Writev(s, req)[f] = s[f]
    BY WritevIsSystem, Zenon
  <2> QED
    BY <2>1, <2>2 DEF Fields
<1>2. CASE req.call \in PlainCalls \ {"writev"}
  <2> DEFINE t == Reported(s, req)
  <2>1. Handle(s, req, e).state = t
    <3>1. Handle(s, req, e) = Answer(t, req, "return", 0)
      BY <1>2, PlainHandled, Zenon
    <3> QED
      BY <3>1 DEF Answer
  <2>2. \/ t = [s EXCEPT !.r2 = ENOSYS, !.r7 = 1]
        \/ t = [s EXCEPT !.r2 = 0, !.r7 = 0]
        \/ t = [s EXCEPT !.r2 = 1, !.r7 = 0]
        \/ t = [[s EXCEPT !.user = req.a] EXCEPT !.r2 = 0, !.r7 = 0]
    BY <1>2 DEF Reported, SetResult
  <2> HIDE DEF t
  <2> QED
    BY <2>1, <2>2 DEF IsSystem, Fields
<1>3. CASE req.call \notin PlainCalls
  <2> DEFINE t == Handle(s, req, e).state
  <2>1. \/ t = s
        \/ t = [[s EXCEPT !.tid = @ \cup {req.a}] EXCEPT !.r2 = 0, !.r7 = 0]
        \/ t = [s EXCEPT !.code = req.a, !.run = "complete_success"]
        \/ t = [[s EXCEPT !.r2 = ENOSYS, !.r7 = 1]
                    EXCEPT !.code = Top - 1, !.run = "complete_fail"]
    <3>1. Handle(s, req, e) \in {SetTidAddress(s, req), Exit(s, req, e), Unknown(s, req, e)}
      BY <1>3, OtherHandled
    <3> QED
      BY <3>1 DEF SetTidAddress, Exit, Unknown, SetResult, Answer
  <2> HIDE DEF t
  <2>2. t.brk = s.brk
    BY <2>1 DEF IsSystem, Fields
  <2> QED
    BY <2>2 DEF t
<1> QED
  BY <1>1, <1>2, <1>3

(* What one call does to the break of the system it is made of               *)
CallIsTold(s, t, req) ==
    /\ t.brk # s.brk => req.call \in {"brk", "sbrk"}
    /\ MoveIsTold(s, t, req)

LEMMA CalledIsTold ==
    ASSUME NEW s, IsSystem(s), Typed(s), NEW req \in Requests, NEW e \in Engine, NEW t,
           \A f \in {"r2", "r7", "brk"} :
                t[f] = IF req.call \in Exceptions THEN s[f]
                       ELSE Handle(s, req, e).state[f]
    PROVE  CallIsTold(s, t, req)
<1>1. CASE req.call \in {"brk", "sbrk"}
  <2> DEFINE u == MoveBreak(s, req)
  <2>1. req.call \in PlainCalls /\ req.call \notin Exceptions
    BY <1>1 DEF PlainCalls, Exceptions
  <2>2. Handle(s, req, e) = Answer(Reported(s, req), req, "return", 0)
    BY <2>1, PlainHandled
  <2>3. Handle(s, req, e).state = u
    BY <1>1, <2>2 DEF Reported, Answer
  <2>4. MoveIsTold(s, u, req)
    BY <1>1, MoveBreakIsTold
  <2> HIDE DEF u
  <2>5. t.r2 = u.r2 /\ t.r7 = u.r7 /\ t.brk = u.brk
    BY <2>1, <2>3
  <2> QED
    BY <1>1, <2>4, <2>5 DEF CallIsTold, MoveIsTold
<1>2. CASE req.call \notin {"brk", "sbrk"}
  <2>1. t.brk = s.brk
    BY <1>2, OthersKeepBreak
  <2> QED
    BY <1>2, <2>1 DEF CallIsTold, MoveIsTold
<1> QED
  BY <1>1, <1>2

(* What a step does to a system whose turn it is or is not                   *)
StepTold(e) ==
    \/ turn = e /\ CallIsTold(guest[e], guest'[e], request)
    \/ turn # e /\ guest'[e].brk = guest[e].brk

LEMMA StepIsTold ==
    ASSUME TypeOK, RoundInv, Next, NEW e \in Engine
    PROVE  StepTold(e) \/ UNCHANGED vars
<1>0. e \in {"interpreter", "jit"} /\ IsSystem(guest[e]) /\ request \in Requests
  BY DEF Engine, RoundInv, Systems, TypeOK
<1>1. CASE Program
  <2>1. PICK req \in Requests :
          guest'[e] \in {guest[e], [guest[e] EXCEPT !.sp = req.sp, !.r4 = req.a,
                                          !.out = <<>>, !.pc = "at", !.count = 0]}
    BY <1>1 DEF Program
  <2>2. guest'[e].brk = guest[e].brk
    BY <1>0, <2>1 DEF IsSystem, Fields
  <2> QED
    BY <1>0, <1>1, <2>2 DEF StepTold, Program
<1>2. CASE Interpret
  <2>1. /\ IsSystem(I) /\ IsSystem(J) /\ I = J /\ J' = J /\ turn = "interpreter"
        /\ \A f \in Fields \ {"count"} : I'[f] = Interpreted[f]
    BY <1>2, InterpretMoves
  <2>2. Typed(I)
    BY TypesOfBoth
  <2>3. CASE e = "jit"
    BY <2>1, <2>3 DEF StepTold, J
  <2>4. CASE e = "interpreter"
    <3> DEFINE t == Answered.state
    <3>1. IsSystem(t)
      BY <2>1, HandledAlike DEF Alike, Answered
    <3> HIDE DEF t
    <3>2. \A f \in {"r2", "r7", "brk"} :
            Interpreted[f] = IF request.call \in Exceptions THEN J[f] ELSE t[f]
      <4>1. CASE request.call \in Exceptions
        BY <2>1, <4>1, ExceptionKeeps DEF Interpreted, Fields
      <4>2. CASE request.call \notin Exceptions /\ Answered.end = "fault"
        BY <3>1, <4>2, ExceptionKeeps DEF Interpreted, Fields, t
      <4>3. CASE request.call \notin Exceptions /\ Answered.end # "fault"
        <5>1. Interpreted = [t EXCEPT !.pc = "past", !.r4 = Answered.value]
          BY <4>3 DEF Interpreted, t
        <5> QED
          BY <3>1, <4>3, <5>1 DEF IsSystem, Fields
      <4> QED
        BY <4>1, <4>2, <4>3
    <3>3. \A f \in {"r2", "r7", "brk"} :
            I'[f] = IF request.call \in Exceptions THEN I[f]
                    ELSE Handle(I, request, "interpreter").state[f]
      BY <2>1, <3>2 DEF t, Answered, Fields
    <3>4. CallIsTold(I, I', request)
      BY <1>0, <2>1, <2>2, <3>3, CalledIsTold DEF Engine
    <3> QED
      BY <2>1, <2>4, <3>4 DEF StepTold, I
  <2> QED
    BY <1>0, <2>3, <2>4
<1>3. CASE Emitted
  <2>1. /\ IsSystem(J) /\ I' = I /\ turn = "jit"
        /\ \A f \in {"r2", "r7", "brk"} :
              J'[f] = IF request.call \in Exceptions THEN J[f]
                      ELSE Handle(J, request, "jit").state[f]
    BY <1>3, EmittedMoves DEF Emitted
  <2>2. Typed(J)
    BY TypesOfBoth
  <2>3. CASE e = "jit"
    <3>1. CallIsTold(J, J', request)
      BY <1>0, <2>1, <2>2, CalledIsTold DEF Engine
    <3> QED
      BY <2>1, <2>3, <3>1 DEF StepTold, J
  <2>4. CASE e = "interpreter"
    BY <2>1, <2>4 DEF StepTold, I
  <2> QED
    BY <1>0, <2>3, <2>4
<1>4. CASE LeaveChunk
  <2>1. I'.brk = I.brk /\ J'.brk = J.brk /\ turn = "leave"
    BY <1>4, LeaveMoves DEF Fields
  <2> QED
    BY <1>0, <2>1 DEF StepTold, I, J
<1>5. CASE Compare
  BY <1>0, <1>5 DEF StepTold, Compare
<1>6. CASE Over
  BY <1>6 DEF Over
<1> QED
  BY <1>1, <1>2, <1>3, <1>4, <1>5, <1>6 DEF Next

(* BreakIsTold: a program that is told of a place in memory has it, whatever *)
(* it asked for and whichever engine runs it.                                *)
THEOREM BreakMoves == Spec => BreakIsTold
<1>1. IInv /\ [Next]_vars =>
        [\A e \in Engine :
            LET old == guest[e] new == guest'[e] moves == new.brk # old.brk IN
            /\ moves => /\ new.brk <= old.sp
                        /\ request.call \in {"brk", "sbrk"}
                        /\ request.call = "sbrk" => new.brk >= BreakBase
                        /\ request.flagged \/ new.r7 = 0
            /\ turn = e /\ executing[e] /\ request.call = "brk" =>
                  \/ request.a = 0
                  \/ new.brk >= request.a /\ new.r2 = new.brk
                  \/ request.a > Highest - 3 /\ new.brk = 0
                  \/ ~moves /\ new.r7 # 0
            /\ turn = e /\ executing[e] /\ request.call = "sbrk" =>
                  \/ new.r2 = old.brk
                     /\ Magnitude(new.brk - old.brk) >= Magnitude(Signed(request.a))
                  \/ ~moves /\ new.r7 # 0]_vars
  <2> SUFFICES ASSUME TypeOK, RoundInv, Next, ~UNCHANGED vars, NEW e \in Engine
               PROVE  StepTold(e)
    BY DEF IInv, StepTold, CallIsTold, MoveIsTold
  <2> QED
    BY StepIsTold
<1> QED
  BY <1>1, Inductive, PTL DEF Spec, BreakIsTold
-------------------------------------------------------------------------------
(* What writev writes                                                        *)

(* What a system has written is what it was asked for, up to the first byte  *)
(* that cannot be read.                                                      *)
IsCut(bytes, out) ==
    /\ bytes \in Seq(Word) /\ out \in Seq(Word) /\ Len(out) <= Len(bytes)
    /\ \A k \in 1 .. Len(out) : out[k] = bytes[k] /\ bytes[k] \in Readable
    /\ Len(out) < Len(bytes) => bytes[Len(out) + 1] \notin Readable

LEMMA CutGrows ==
    ASSUME NEW bytes, NEW out, IsCut(bytes, out), Len(out) = Len(bytes),
           NEW more, NEW end, IsCut(more, end)
    PROVE  /\ IsCut(bytes \o more, out \o end)
           /\ Len(out \o end) < Len(bytes \o more) <=> Len(end) < Len(more)
<1> DEFINE a == bytes \o more
           b == out \o end
           m == Len(bytes)
<1>1. /\ bytes \in Seq(Word) /\ out \in Seq(Word) /\ more \in Seq(Word) /\ end \in Seq(Word)
      /\ m \in Nat /\ Len(more) \in Nat /\ Len(end) \in Nat /\ Len(end) <= Len(more)
      /\ Len(out) = m
  BY DEF IsCut
<1>2. /\ a \in Seq(Word) /\ Len(a) = m + Len(more)
      /\ \A i \in 1 .. m + Len(more) : a[i] = IF i <= m THEN bytes[i] ELSE more[i - m]
  BY <1>1, ConcatProperties
<1>3. /\ b \in Seq(Word) /\ Len(b) = m + Len(end)
      /\ \A i \in 1 .. m + Len(end) : b[i] = IF i <= m THEN out[i] ELSE end[i - m]
  <2>1. /\ b \in Seq(Word) /\ Len(b) = Len(out) + Len(end)
        /\ \A i \in 1 .. Len(out) + Len(end) :
              b[i] = IF i <= Len(out) THEN out[i] ELSE end[i - Len(out)]
    BY <1>1, ConcatProperties
  <2> HIDE DEF b, m
  <2> QED
    BY <1>1, <2>1
<1> HIDE DEF a, b, m
<1>4. ASSUME NEW k \in 1 .. Len(b) PROVE b[k] = a[k] /\ a[k] \in Readable
  <2>1. CASE k <= m
    <3>1. k \in 1 .. Len(out) /\ k \in 1 .. m + Len(more) /\ k \in 1 .. m + Len(end)
      BY <1>1, <1>3, <2>1
    <3>2. a[k] = bytes[k] /\ b[k] = out[k]
      BY <1>2, <1>3, <2>1, <3>1
    <3> QED
      BY <3>1, <3>2 DEF IsCut
  <2>2. CASE k > m
    <3>1. k - m \in 1 .. Len(end) /\ k \in 1 .. m + Len(more) /\ k \in 1 .. m + Len(end)
      BY <1>1, <1>3, <2>2
    <3>2. end[k - m] = more[k - m] /\ more[k - m] \in Readable
      BY <3>1 DEF IsCut
    <3>3. ~(k <= m) /\ k \in Int /\ m \in Int
      BY <1>1, <1>3, <2>2
    <3>4. a[k] = more[k - m] /\ b[k] = end[k - m]
      BY <1>2, <1>3, <3>1, <3>3
    <3> QED
      BY <3>2, <3>4
  <2> QED
    BY <1>1, <1>3, <2>1, <2>2
<1>5. Len(b) < Len(a) => a[Len(b) + 1] \notin Readable
  <2> SUFFICES ASSUME Len(end) < Len(more) PROVE a[Len(b) + 1] \notin Readable
    BY <1>1, <1>2, <1>3
  <2>1. /\ Len(b) + 1 \in 1 .. m + Len(more) /\ ~(Len(b) + 1 <= m)
        /\ (Len(b) + 1) - m = Len(end) + 1
    BY <1>1, <1>3
  <2>2. a[Len(b) + 1] = more[Len(end) + 1]
    BY <1>2, <2>1
  <2> QED
    BY <2>2 DEF IsCut
<1>6. Len(b) <= Len(a) /\ (Len(b) < Len(a) <=> Len(end) < Len(more))
  BY <1>1, <1>2, <1>3
<1>7. IsCut(a, b)
  BY <1>2, <1>3, <1>4, <1>5, <1>6 DEF IsCut
<1> QED
  BY <1>6, <1>7 DEF a, b

LEMMA CutStays ==
    ASSUME NEW bytes, NEW out, IsCut(bytes, out), Len(out) < Len(bytes),
           NEW more \in Seq(Word)
    PROVE  IsCut(bytes \o more, out) /\ Len(out) < Len(bytes \o more)
<1> DEFINE a == bytes \o more
<1>1. /\ bytes \in Seq(Word) /\ out \in Seq(Word) /\ Len(bytes) \in Nat
      /\ Len(out) \in Nat /\ Len(more) \in Nat
  BY DEF IsCut
<1>2. /\ a \in Seq(Word) /\ Len(a) = Len(bytes) + Len(more)
      /\ \A i \in 1 .. Len(bytes) + Len(more) :
            a[i] = IF i <= Len(bytes) THEN bytes[i] ELSE more[i - Len(bytes)]
  BY <1>1, ConcatProperties
<1> HIDE DEF a
<1>3. Len(out) + 1 \in 1 .. Len(bytes) /\ \A k \in 1 .. Len(bytes) : a[k] = bytes[k]
  <2>1. ASSUME NEW k \in 1 .. Len(bytes) PROVE a[k] = bytes[k]
    <3>1. k \in 1 .. Len(bytes) + Len(more) /\ k <= Len(bytes)
      BY <1>1
    <3> QED
      BY <1>2, <3>1
  <2> QED
    BY <1>1, <2>1
<1>4. IsCut(a, out) /\ Len(out) < Len(a)
  BY <1>1, <1>2, <1>3 DEF IsCut
<1> QED
  BY <1>4 DEF a

(* One record                                                                *)
LEMMA RecordIsCut ==
    ASSUME NEW vector, vector.base \in Word, vector.len \in Word
    PROVE  /\ IsCut(Bytes(vector.base, vector.len), Bytes(vector.base, Extent(vector)))
           /\ Len(Bytes(vector.base, vector.len)) = vector.len
           /\ Len(Bytes(vector.base, Extent(vector))) = Extent(vector)
<1> DEFINE n == Extent(vector)
           all == Bytes(vector.base, vector.len)
           out == Bytes(vector.base, n)
<1>1. /\ n \in 0 .. vector.len /\ vector.len \in Nat /\ n \in Nat /\ vector.base \in Int
      /\ \A i \in 0 .. n - 1 : Reads(vector, i)
      /\ n < vector.len => ~Reads(vector, n)
  BY ExtentIsPrefix, WordSize DEF Word
<1> HIDE DEF n
<1>2. /\ all \in Seq(Word) /\ Len(all) = vector.len
      /\ out \in Seq(Word) /\ Len(out) = n
  BY <1>1, BytesAreWords
<1>3. /\ \A k \in 1 .. vector.len : all[k] = Wrap(vector.base + k - 1)
      /\ \A k \in 1 .. n : out[k] = Wrap(vector.base + k - 1)
  BY <1>1 DEF Bytes
<1> HIDE DEF all, out
<1>4. ASSUME NEW k \in 1 .. n PROVE out[k] = all[k] /\ all[k] \in Readable
  <2>1. k \in 1 .. vector.len /\ k - 1 \in 0 .. n - 1
        /\ vector.base + (k - 1) = vector.base + k - 1
    BY <1>1
  <2>2. Wrap(vector.base + (k - 1)) \in Readable
    BY <1>1, <2>1 DEF Reads
  <2> QED
    BY <1>3, <2>1, <2>2
<1>5. n < vector.len => all[n + 1] \notin Readable
  <2> SUFFICES ASSUME n < vector.len PROVE all[n + 1] \notin Readable
    OBVIOUS
  <2>1. n + 1 \in 1 .. vector.len /\ vector.base + (n + 1) - 1 = vector.base + n
    BY <1>1
  <2>2. Wrap(vector.base + n) \notin Readable
    BY <1>1 DEF Reads
  <2>3. all[n + 1] = Wrap(vector.base + (n + 1) - 1)
    BY <1>3, <2>1
  <2> QED
    BY <2>1, <2>2, <2>3
<1>6. IsCut(all, out)
  BY <1>1, <1>2, <1>4, <1>5 DEF IsCut
<1> QED
  BY <1>2, <1>6 DEF all, out, n
(* The records of a call, up to the first that is not in memory              *)
LEMMA KnownIs ==
    ASSUME NEW req \in Requests
    PROVE  /\ req.c \in Nat /\ Known(req) \in 0 .. req.c
           /\ \A i \in 1 .. Known(req) : Pointers(req)[i] \in DOMAIN Vectors
           /\ Known(req) < req.c => Pointers(req)[Known(req) + 1] \notin DOMAIN Vectors
<1> DEFINE lost == {i \in 1 .. req.c : Pointers(req)[i] \notin DOMAIN Vectors}
<1>1. req.c \in Nat
  BY RequestIsWords, WordSize DEF Word
<1>2. Known(req) = IF lost = {} THEN req.c ELSE Min(lost) - 1
  BY DEF Known
<1>3. CASE lost = {}
  BY <1>1, <1>2, <1>3
<1>4. CASE lost # {}
  <2>1. lost \in SUBSET Nat
    OBVIOUS
  <2> DEFINE least == Min(lost)
  <2>2. least \in lost /\ \A i \in lost : least <= i
    BY <1>4, <2>1, MinIsLeast
  <2>3. Known(req) = least - 1
    BY <1>2, <1>4
  <2> HIDE DEF least
  <2>4. least \in 1 .. req.c /\ least = Known(req) + 1 /\ Known(req) \in 0 .. req.c
    BY <1>1, <2>2, <2>3
  <2>5. ASSUME NEW i \in 1 .. Known(req) PROVE Pointers(req)[i] \in DOMAIN Vectors
    <3>1. i \in 1 .. req.c /\ ~(least <= i)
      BY <1>1, <2>4
    <3> QED
      BY <2>2, <3>1
  <2>6. Pointers(req)[Known(req) + 1] \notin DOMAIN Vectors
    BY <2>2, <2>4
  <2> QED
    BY <1>1, <2>4, <2>5, <2>6
<1> QED
  BY <1>3, <1>4

LEMMA AskedIs ==
    ASSUME NEW req \in Requests
    PROVE  /\ Asked(req)[0] = <<>>
           /\ \A i \in 1 .. Known(req) :
                 Asked(req)[i] = AskVector(Asked(req)[i - 1], Pointers(req)[i])
<1> DEFINE n == Known(req)
           step == [i \in 1 .. n |->
                        [v \in Seq(Word) |-> AskVector(v, Pointers(req)[i])]]
           run == Asked(req)
           empty == <<>>
<1>1. n \in Nat /\ \A i \in 1 .. n : Pointers(req)[i] \in DOMAIN Vectors
  BY KnownIs
<1> HIDE DEF n
<1>2. ASSUME NEW i \in 1 .. n, NEW v \in Seq(Word)
      PROVE  AskVector(v, Pointers(req)[i]) \in Seq(Word)
  <2> DEFINE vector == Vectors[Pointers(req)[i]]
  <2>1. vector.base \in Word /\ vector.len \in Word
    BY <1>1, VemixAssumption
  <2>2. Bytes(vector.base, vector.len) \in Seq(Word)
    <3>1. vector.len \in Nat
      BY <2>1, WordSize DEF Word
    <3> QED
      BY <2>1, <3>1, BytesAreWords
  <2> QED
    BY <2>2 DEF AskVector
<1>3. step \in [1 .. n -> [Seq(Word) -> Seq(Word)]]
  BY <1>2
<1>4. empty \in Seq(Word)
  OBVIOUS
<1> HIDE DEF empty
<1>5. PICK f \in [0 .. n -> Seq(Word)] : Recursive(f, n, empty, step)
  <2> HIDE DEF step
  <2> QED
    BY <1>1, <1>3, <1>4, FiniteRecursion
<1>6. \A i \in 1 .. n : step[i][f[i - 1]] = AskVector(f[i - 1], Pointers(req)[i])
  BY <1>1
<1>7. f = [i \in 0 .. n |-> IF i = 0 THEN empty ELSE AskVector(f[i - 1], Pointers(req)[i])]
  <2> HIDE DEF step
  <2> QED
    BY <1>1, <1>5, <1>6 DEF Recursive
<1>8. run = [i \in 0 .. n |-> IF i = 0 THEN empty
                             ELSE AskVector(run[i - 1], Pointers(req)[i])]
  BY <1>7 DEF Asked, empty, n
<1> HIDE DEF run, step
<1>9. run[0] = empty
      /\ \A i \in 1 .. n : run[i] = AskVector(run[i - 1], Pointers(req)[i])
  BY <1>1, <1>8
<1> QED
  BY <1>9 DEF run, empty, n

(* After each record the output is cut where the first fault was.            *)
LEMMA WrittenIsCut ==
    ASSUME NEW req \in Requests
    PROVE  \A i \in 0 .. Known(req) :
              /\ IsCut(Asked(req)[i], Written(req)[i].out)
              /\ Written(req)[i].faulted
                    <=> Len(Written(req)[i].out) < Len(Asked(req)[i])
<1> DEFINE n == Known(req)
           Cut(asked, written) ==
                /\ IsCut(asked, written.out)
                /\ written.faulted <=> Len(written.out) < Len(asked)
           T == {i \in Nat : i <= n => Cut(Asked(req)[i], Written(req)[i])}
<1>1. /\ req.c \in Nat /\ n \in 0 .. req.c
      /\ \A i \in 1 .. n : Pointers(req)[i] \in DOMAIN Vectors
  BY KnownIs
<1> HIDE DEF n
<1>2. 0 \in T
  <2>1. Asked(req)[0] = <<>>
    BY AskedIs
  <2>2. Written(req)[0] = [faulted |-> FALSE, written |-> 0, out |-> <<>>]
    BY WrittenIs
  <2>3. Cut(<<>>, [faulted |-> FALSE, written |-> 0, out |-> <<>>])
    BY DEF IsCut
  <2> QED
    BY <2>1, <2>2, <2>3
<1>3. ASSUME NEW i \in Nat, i \in T PROVE i + 1 \in T
  <2> SUFFICES ASSUME i + 1 <= n PROVE Cut(Asked(req)[i + 1], Written(req)[i + 1])
    OBVIOUS
  <2> DEFINE a == Asked(req)[i]
             w == Written(req)[i]
             p == Pointers(req)[i + 1]
             vector == Vectors[p]
             more == Bytes(vector.base, vector.len)
             end == Bytes(vector.base, Extent(vector))
  <2>1. i \in 0 .. req.c /\ i + 1 \in 1 .. req.c /\ i + 1 \in 1 .. n /\ (i + 1) - 1 = i
    BY <1>1
  <2>2. Cut(a, w) /\ w \in Progress
    BY <1>1, <1>3, <2>1, WrittenIs
  <2>3. Asked(req)[i + 1] = a \o more
    BY <2>1, AskedIs DEF n, AskVector
  <2>4. Written(req)[i + 1] = WriteVector(w, p)
    BY <2>1, WrittenIs
  <2>5. p \in DOMAIN Vectors
    BY <1>1, <2>1
  <2>6. vector.base \in Word /\ vector.len \in Word /\ vector.len \in Nat
    BY <2>5, VemixAssumption, WordSize DEF Word
  <2>7. /\ IsCut(more, end)
        /\ VectorFaults(vector) <=> Len(end) < Len(more)
    BY <2>6, RecordIsCut, ExtentIsPrefix
  <2>8. more \in Seq(Word)
    BY <2>7 DEF IsCut
  <2> HIDE DEF a, w, p, more, end
  <2>9. CASE w.faulted
    <3>1. WriteVector(w, p) = w
      BY <2>9 DEF WriteVector
    <3>2. IsCut(a \o more, w.out) /\ Len(w.out) < Len(a \o more)
      BY <2>2, <2>8, <2>9, CutStays
    <3> QED
      BY <2>3, <2>4, <2>9, <3>1, <3>2
  <2>10. CASE ~w.faulted
    <3>1. WriteVector(w, p) =
            [faulted |-> VectorFaults(vector), written |-> Wrap(w.written + vector.len),
             out |-> w.out \o end]
      BY <2>5, <2>10 DEF WriteVector, end
    <3>2. Len(w.out) = Len(a)
      BY <2>2, <2>10 DEF IsCut
    <3>3. /\ IsCut(a \o more, w.out \o end)
          /\ Len(w.out \o end) < Len(a \o more) <=> Len(end) < Len(more)
      BY <2>2, <2>7, <3>2, CutGrows
    <3>4. /\ WriteVector(w, p).out = w.out \o end
          /\ WriteVector(w, p).faulted = VectorFaults(vector)
      BY <3>1
    <3> QED
      BY <2>3, <2>4, <2>7, <3>3, <3>4
  <2> QED
    BY <2>9, <2>10
<1> HIDE DEF T
<1>4. Nat \subseteq T
  BY <1>2, <1>3, SetInduction
<1> QED
  BY <1>1, <1>4 DEF T, n
(* No record is written after one that is not in memory.                     *)
LEMMA WrittenIsWhole ==
    ASSUME NEW req \in Requests
    PROVE  /\ IsCut(Asked(req)[Known(req)], Written(req)[req.c].out)
           /\ Written(req)[req.c].faulted <=>
                 \/ Len(Written(req)[req.c].out) < Len(Asked(req)[Known(req)])
                 \/ Known(req) < req.c
<1> DEFINE n == Known(req)
           w == Written(req)
           T == {j \in Nat : n + 1 + j <= req.c =>
                                w[n + 1 + j].faulted /\ w[n + 1 + j].out = w[n].out}
<1>1. /\ req.c \in Nat /\ n \in 0 .. req.c /\ n \in Nat
      /\ n < req.c => Pointers(req)[n + 1] \notin DOMAIN Vectors
  BY KnownIs
<1>2. /\ IsCut(Asked(req)[n], w[n].out)
      /\ w[n].faulted <=> Len(w[n].out) < Len(Asked(req)[n])
  <2>1. n \in 0 .. n
    BY <1>1
  <2> QED
    BY <2>1, WrittenIsCut
<1>3. /\ \A i \in 1 .. req.c : w[i] = WriteVector(w[i - 1], Pointers(req)[i])
      /\ \A i \in 0 .. req.c : w[i] \in Progress
  BY WrittenIs
<1> HIDE DEF n, w
<1>4. 0 \in T
  <2> SUFFICES ASSUME n + 1 <= req.c PROVE w[n + 1].faulted /\ w[n + 1].out = w[n].out
    BY <1>1
  <2>1. w[n + 1] = WriteVector(w[n], Pointers(req)[n + 1]) /\ w[n] \in Progress
    BY <1>1, <1>3
  <2>2. Pointers(req)[n + 1] \notin DOMAIN Vectors
    BY <1>1
  <2> QED
    BY <2>1, <2>2 DEF WriteVector, Progress
<1>5. ASSUME NEW j \in Nat, j \in T PROVE j + 1 \in T
  <2> SUFFICES ASSUME n + 1 + (j + 1) <= req.c
               PROVE  w[n + 1 + (j + 1)].faulted /\ w[n + 1 + (j + 1)].out = w[n].out
    OBVIOUS
  <2> DEFINE k == n + 1 + (j + 1)
  <2>1. k \in 1 .. req.c /\ k - 1 = n + 1 + j /\ n + 1 + j <= req.c
    BY <1>1
  <2> HIDE DEF k
  <2>2. w[k] = WriteVector(w[n + 1 + j], Pointers(req)[k])
    <3>1. w[k] = WriteVector(w[k - 1], Pointers(req)[k])
      BY <1>3, <2>1
    <3> QED
      BY <2>1, <3>1
  <2>3. w[n + 1 + j].faulted /\ w[n + 1 + j].out = w[n].out
    BY <1>5, <2>1
  <2> QED
    BY <2>2, <2>3 DEF WriteVector, k
<1> HIDE DEF T
<1>6. Nat \subseteq T
  BY <1>4, <1>5, SetInduction
<1>7. CASE n = req.c
  BY <1>1, <1>2, <1>7 DEF n, w
<1>8. CASE n < req.c
  <2>1. req.c - n - 1 \in Nat /\ n + 1 + (req.c - n - 1) = req.c
    BY <1>1, <1>8
  <2>2. w[req.c].faulted /\ w[req.c].out = w[n].out
    <3> DEFINE j == req.c - n - 1
    <3>1. j \in T /\ n + 1 + j = req.c
      BY <1>6, <2>1
    <3> HIDE DEF j
    <3> QED
      BY <1>1, <3>1 DEF T
  <2> QED
    BY <1>2, <1>8, <2>2 DEF n, w
<1> QED
  BY <1>1, <1>7, <1>8

LEMMA CutIsPrefix ==
    ASSUME NEW bytes, NEW out, IsCut(bytes, out),
           NEW bad, bad = {i \in 1 .. Len(bytes) : bytes[i] \notin Readable}
    PROVE  /\ bad = {} <=> ~(Len(out) < Len(bytes))
           /\ out = SubSeq(bytes, 1, IF bad = {} THEN Len(bytes) ELSE Min(bad) - 1)
<1> DEFINE n == IF bad = {} THEN Len(bytes) ELSE Min(bad) - 1
<1>1. /\ bytes \in Seq(Word) /\ out \in Seq(Word) /\ Len(bytes) \in Nat /\ Len(out) \in Nat
      /\ Len(out) <= Len(bytes) /\ bad \in SUBSET Nat
  BY DEF IsCut
<1>2. \A k \in 1 .. Len(out) : k \notin bad
  BY DEF IsCut
<1>3. Len(out) < Len(bytes) => Len(out) + 1 \in bad
  BY <1>1 DEF IsCut
<1>4. n = Len(out) /\ (bad = {} <=> ~(Len(out) < Len(bytes)))
  <2>1. CASE bad = {}
    BY <1>1, <1>3, <2>1
  <2>2. CASE bad # {}
    <3> DEFINE least == Min(bad)
    <3>1. least \in bad /\ \A k \in bad : least <= k
      BY <1>1, <2>2, MinIsLeast
    <3> HIDE DEF least
    <3>2. least \in 1 .. Len(bytes) /\ ~(least <= Len(out))
      BY <1>1, <1>2, <3>1
    <3>3. least = Len(out) + 1 /\ Len(out) < Len(bytes)
      BY <1>1, <1>3, <3>1, <3>2
    <3>4. n = least - 1
      BY <2>2 DEF least
    <3> QED
      BY <1>1, <2>2, <3>3, <3>4
  <2> QED
    BY <2>1, <2>2
<1> HIDE DEF n
<1>5. out = SubSeq(bytes, 1, Len(out))
  <2> DEFINE sub == SubSeq(bytes, 1, Len(out))
  <2>1. /\ \A i \in 1 .. Len(out) : bytes[i] \in Word
        /\ \A i \in 1 .. Len(out) : out[i] = bytes[i]
    BY <1>1, ElementOfSeq DEF IsCut
  <2>2. /\ sub \in Seq(Word)
        /\ Len(sub) = IF 1 <= Len(out) THEN Len(out) - 1 + 1 ELSE 0
        /\ \A i \in 1 .. Len(out) - 1 + 1 : sub[i] = bytes[1 + i - 1]
    BY <1>1, <2>1, SubSeqProperties
  <2> HIDE DEF sub
  <2>3. Len(sub) = Len(out) /\ \A i \in 1 .. Len(out) : sub[i] = out[i]
    BY <1>1, <2>1, <2>2
  <2>4. sub = out
    BY <1>1, <2>2, <2>3, SeqEqual
  <2> QED
    BY <2>4 DEF sub
<1> QED
  BY <1>4, <1>5 DEF n
Writes == request.call = "writev" /\ request.a \in {0, 1, 2}

(* A system that writev was handled in                                       *)
Wrote(s, req) ==
    /\ s.out = Written(req)[req.c].out
    /\ s.r7 = IF Written(req)[req.c].faulted THEN 1 ELSE 0
    /\ s.r7 # 0 => s.r2 = EFAULT

WriteInv ==
    Writes => /\ turn \in {"jit", "leave", "compare", "over"} => Wrote(I, request)
              /\ turn \in {"leave", "compare", "over"} => Wrote(J, request)

LEMMA WritevWrote ==
    ASSUME NEW s, IsSystem(s), NEW e,
           NEW req \in Requests, req.call = "writev", req.a \in {0, 1, 2}
    PROVE  /\ Handle(s, req, e).end = "return"
           /\ Wrote(Handle(s, req, e).state, req)
<1> DEFINE t == Writev(s, req)
<1>1. Handle(s, req, e) = Answer(t, req, "return", 0)
  <2>1. req.call \in PlainCalls
    BY DEF PlainCalls
  <2>2. Handle(s, req, e) = Answer(Reported(s, req), req, "return", 0)
    BY <2>1, PlainHandled
  <2> QED
    BY <2>2 DEF Reported
<1>2. /\ t.out = Written(req)[req.c].out
      /\ t.r2 = IF Written(req)[req.c].faulted THEN EFAULT ELSE Written(req)[req.c].written
      /\ t.r7 = IF Written(req)[req.c].faulted THEN 1 ELSE 0
  <2>1. t.out = Written(req)[req.c].out
    BY WritevIsSystem, Zenon
  <2>2. t.r2 = IF Written(req)[req.c].faulted THEN EFAULT ELSE Written(req)[req.c].written
    BY WritevIsSystem, Zenon
  <2>3. t.r7 = IF Written(req)[req.c].faulted THEN 1 ELSE 0
    BY WritevIsSystem, Zenon
  <2> QED
    BY <2>1, <2>2, <2>3
<1> HIDE DEF t
<1>3. Wrote(t, req)
  BY <1>2 DEF Wrote
<1> QED
  BY <1>1, <1>3 DEF Answer

LEMMA NextWrites ==
    ASSUME TypeOK, RoundInv, WriteInv, [Next]_vars
    PROVE  WriteInv'
<1>1. CASE Program
  BY <1>1 DEF Program, WriteInv
<1>2. CASE Interpret
  <2>1. /\ IsSystem(J) /\ request' = request
        /\ \A f \in Fields \ {"count"} : I'[f] = Interpreted[f]
    BY <1>2, InterpretMoves
  <2>2. turn' = "jit"
    BY <1>2 DEF Interpret
  <2>3. ASSUME Writes PROVE Wrote(I', request)
    <3> DEFINE t == Answered.state
    <3>1. Answered.end = "return" /\ Wrote(t, request) /\ IsSystem(t)
      <4>1. request \in Requests /\ request.call = "writev" /\ request.a \in {0, 1, 2}
        BY <2>3 DEF Writes, TypeOK
      <4>2. IsSystem(t)
        BY <2>1, HandledAlike DEF Alike, Answered
      <4> QED
        BY <2>1, <4>1, <4>2, WritevWrote DEF Answered
    <3>2. Interpreted = [t EXCEPT !.pc = "past", !.r4 = Answered.value]
      BY <2>3, <3>1 DEF Interpreted, Writes, Exceptions
    <3> HIDE DEF t
    <3>3. I'.out = t.out /\ I'.r7 = t.r7 /\ I'.r2 = t.r2
      BY <2>1, <3>1, <3>2 DEF IsSystem, Fields
    <3> QED
      BY <3>1, <3>3 DEF Wrote
  <2>4. Writes' = Writes
    BY <2>1 DEF Writes
  <2> QED
    BY <2>1, <2>2, <2>3, <2>4 DEF WriteInv
<1>3. CASE Emitted
  <2> DEFINE B == Handle(J, request, "jit").state
  <2>1. /\ IsSystem(J) /\ I' = I /\ request' = request
        /\ \A f \in {"r2", "r7", "out"} :
              J'[f] = IF request.call \in Exceptions THEN J[f] ELSE B[f]
    BY <1>3, EmittedMoves
  <2>2. turn = "jit" /\ turn' = "leave"
    BY <1>3 DEF Emitted
  <2>3. ASSUME Writes PROVE Wrote(J', request)
    <3>1. request \in Requests /\ request.call = "writev" /\ request.a \in {0, 1, 2}
      BY <2>3 DEF Writes, TypeOK
    <3>2. Wrote(B, request)
      BY <2>1, <3>1, WritevWrote
    <3> HIDE DEF B
    <3>3. J'.out = B.out /\ J'.r7 = B.r7 /\ J'.r2 = B.r2
      BY <2>1, <3>1 DEF Exceptions
    <3> QED
      BY <3>2, <3>3 DEF Wrote
  <2>4. Writes' = Writes
    BY <2>1 DEF Writes
  <2> QED
    BY <2>1, <2>2, <2>3, <2>4 DEF WriteInv
<1>4. CASE LeaveChunk
  <2>1. /\ I' = I /\ request' = request /\ turn = "leave"
        /\ J'.out = J.out /\ J'.r7 = J.r7 /\ J'.r2 = J.r2
    BY <1>4, LeaveMoves DEF Fields
  <2>2. Writes' = Writes /\ (Wrote(J, request) => Wrote(J', request))
    BY <2>1 DEF Writes, Wrote
  <2> QED
    BY <2>1, <2>2 DEF WriteInv
<1>5. CASE Compare
  BY <1>5 DEF Compare, WriteInv, Writes, I, J
<1>6. CASE UNCHANGED vars
  BY <1>6 DEF vars, WriteInv, Writes, I, J
<1> QED
  BY <1>1, <1>2, <1>3, <1>4, <1>5, <1>6 DEF Next, Over

(* WritesThePrefix: for every memory, whatever the two loops cut it into,    *)
(* what both systems wrote is what the records say up to the first byte that *)
(* cannot be read.                                                           *)
THEOREM WritesPrefix == Spec => []WritesThePrefix
<1>1. Init => WriteInv
  BY DEF Init, WriteInv
<1>2. IInv /\ WriteInv /\ [Next]_vars => WriteInv'
  BY NextWrites DEF IInv
<1>3. IInv /\ WriteInv => WritesThePrefix
  <2> SUFFICES ASSUME IInv, WriteInv, turn \in {"compare", "over"},
                      request.call = "writev", request.a \in 0 .. 2, NEW e \in Engine,
                      NEW bytes, bytes = Asked(request)[Known(request)],
                      NEW bad, bad = {i \in 1 .. Len(bytes) : bytes[i] \notin Readable}
               PROVE  /\ guest[e].out =
                            SubSeq(bytes, 1, IF bad = {} THEN Len(bytes) ELSE Min(bad) - 1)
                      /\ (guest[e].r7 = 0) <=> (bad = {} /\ Known(request) = request.c)
                      /\ guest[e].r7 # 0 => guest[e].r2 = EFAULT
    BY DEF WritesThePrefix
  <2> DEFINE done == Written(request)[request.c]
  <2>1. request \in Requests /\ Wrote(guest[e], request)
    BY DEF IInv, TypeOK, WriteInv, Writes, Engine, I, J
  <2>2. /\ IsCut(bytes, done.out)
        /\ done.faulted <=> Len(done.out) < Len(bytes) \/ Known(request) < request.c
    BY <2>1, WrittenIsWhole
  <2> HIDE DEF done
  <2>3. /\ bad = {} <=> ~(Len(done.out) < Len(bytes))
        /\ done.out = SubSeq(bytes, 1, IF bad = {} THEN Len(bytes) ELSE Min(bad) - 1)
    BY <2>2, CutIsPrefix
  <2>4. Known(request) \in 0 .. request.c /\ request.c \in Nat
    BY <2>1, KnownIs
  <2>5. (guest[e].r7 = 0) <=> ~done.faulted
    BY <2>1 DEF Wrote, done
  <2>6. guest[e].out = done.out /\ (guest[e].r7 # 0 => guest[e].r2 = EFAULT)
    BY <2>1 DEF Wrote, done
  <2>7. Known(request) < request.c <=> Known(request) # request.c
    BY <2>4
  <2>8. (guest[e].r7 = 0) <=> (bad = {} /\ Known(request) = request.c)
    BY <2>2, <2>3, <2>5, <2>7
  <2> QED
    BY <2>3, <2>6, <2>8
<1> QED
  BY <1>1, <1>2, <1>3, Inductive, PTL DEF Spec
===============================================================================

---------------------------- MODULE DebuggerProofs ----------------------------
(*****************************************************************************)
(* What holds of the stub for every program, every modulus and every bound.  *)
(*****************************************************************************)
EXTENDS Debugger, TLAPS

(* The parts of the assumption, for the leaves that need only one.           *)
LEMMA EntryIsCode == Entry \in Code
BY CodeAssumption

LEMMA SuccIsCode == ASSUME NEW a \in Code PROVE Succ[a] \in SUBSET Code
BY CodeAssumption

LEMMA ModulusIsPositive == Modulus \in Nat /\ Modulus > 2
BY CodeAssumption

(* The counter m_threads_to_pause stays a Modulus-wide word.                 *)
LEMMA CountDown ==
    ASSUME NEW n \in 0 .. Modulus - 1
    PROVE  (n + (Modulus - 1)) % Modulus \in 0 .. Modulus - 1
BY ModulusIsPositive

(* Popping the newest pending report leaves a sequence of reports.           *)
LEMMA PopType ==
    ASSUME NEW S, NEW q \in Seq(S), q # <<>>
    PROVE  SubSeq(q, 1, Len(q) - 1) \in Seq(S)
<1>1. Len(q) \in Nat /\ Len(q) > 0
  OBVIOUS
<1>2. \A i \in 1 .. Len(q) - 1 : q[i] \in S
  BY <1>1
<1>3. QED
  BY <1>1, <1>2

LEMMA AppendType ==
    ASSUME NEW S, NEW q \in Seq(S), NEW e \in S
    PROVE  Append(q, e) \in Seq(S)
OBVIOUS

(* "Z" and "z" keep a count per address.                                     *)
LEMMA CountType ==
    ASSUME NEW b \in [Code -> Nat], NEW a \in Code
    PROVE  /\ [b EXCEPT ![a] = @ + 1] \in [Code -> Nat]
           /\ [b EXCEPT ![a] = IF @ > 0 THEN @ - 1 ELSE 0] \in [Code -> Nat]
<1>1. b[a] \in Nat /\ b[a] + 1 \in Nat
  OBVIOUS
<1>2. (IF b[a] > 0 THEN b[a] - 1 ELSE 0) \in Nat
  BY <1>1
<1>3. QED
  BY <1>1, <1>2

(* Every packet names an instruction.                                        *)
LEMMA AddressIsCode == TypeOK => inbox.at \in Code
BY EntryIsCode DEF TypeOK, Packet, NoPacket

(* Every variable keeps its type, whatever the two threads and the client do. *)
THEOREM TypeCorrect == Safety => []TypeOK
<1>1. Init => TypeOK
  <2>1. 1 \in 0 .. Modulus - 1 /\ 0 \in 0 .. 2 /\ 0 \in Nat
    BY ModulusIsPositive
  <2>2. <<>> \in Seq(StopReport) /\ <<>> \in Seq(Reply)
    OBVIOUS
  <2>3. "enter" \in Places
    BY DEF Places, Waiting
  <2>4. QED
    BY <2>1, <2>2, <2>3, EntryIsCode DEF Init, TypeOK
<1>2. TypeOK /\ [Next]_vars => TypeOK'
  <2> SUFFICES ASSUME TypeOK, [Next]_vars PROVE TypeOK'
    OBVIOUS
  <2>a. 1 \in 0 .. Modulus - 1 /\ {0, 1, 2} \subseteq 0 .. 2
    BY ModulusIsPositive
  <2>b. Start \in Places /\ "clock" \in Places /\ "resumed" \in Places
        /\ Waiting \subseteq Places /\ Running \subseteq Places
        /\ Stopped \subseteq Places
    BY DEF Start, Places, Waiting, Running, Stopped
  <2>c. \A n \in 0 .. 2 : Bump(n) \in 0 .. 2
    BY DEF Bump
  <2>d. "T 05" \in Reply /\ "S 05" \in Reply /\ "S 11" \in Reply
    BY DEF Reply
  <2> USE DEF TypeOK, sharedVars, emuVars, srvVars, clientVars, history
  <2>1. CASE WaitEnter
    <3>1. threadsToPause' \in 0 .. Modulus - 1
      BY <2>1, CountDown DEF WaitEnter
    <3>2. emu' \in Places
      BY <2>1, <2>b DEF WaitEnter, Waiting
    <3>3. QED
      BY <2>1, <3>1, <3>2 DEF WaitEnter
  <2>2. CASE WaitReport
    <3>1. pending' \in Seq(StopReport)
      BY <2>2, PopType DEF WaitReport
    <3>2. outbox' \in Seq(Reply)
      BY <2>2, AppendType, <2>d DEF WaitReport
    <3>3. emu' \in Places
      BY <2>2, <2>b DEF WaitReport, Waiting
    <3>4. UNCHANGED <<paused, threadsToPause, shouldKill, step, breakpoints,
                      booting, spent, pc, srvVars, clientVars, history>>
      BY <2>2 DEF WaitReport
    <3>5. QED
      BY <3>1, <3>2, <3>3, <3>4
  <2>3. CASE WaitLeave
    BY <2>3, <2>b DEF WaitLeave
  <2>4. CASE KillCheck
    BY <2>4, <2>b DEF KillCheck, Stopped
  <2>5. CASE ClockHead
    BY <2>5, <2>b DEF ClockHead, Waiting
  <2>6. CASE Poll
    BY <2>6, <2>b DEF Poll, Running
  <2>7. CASE Match
    <3>1. pending' \in Seq(StopReport)
      <4>1. \A kind \in {"break", "step"} : [kind |-> kind, at |-> pc] \in StopReport
        BY DEF StopReport
      <4>2. QED
        BY <2>7, <4>1, AppendType DEF Match, Trap
    <3>2. emu' \in Places
      BY <2>7, <2>b DEF Match, Trap, Running
    <3>3. step' \in 0 .. 2 /\ late' \in 0 .. 2
      BY <2>7, <2>a DEF Match, Trap
    <3>4. paused' \in BOOLEAN
      BY <2>7 DEF Match, Trap
    <3>5. QED
      BY <2>7, <3>1, <3>2, <3>3, <3>4 DEF Match
  <2>8. CASE Execute
    <3>1. pc' \in Code
      BY <2>8, SuccIsCode DEF Execute
    <3>2. emu' \in Places /\ spent' \in BOOLEAN
      BY <2>8, <2>b DEF Execute, Running
    <3>3. late' \in 0 .. 2 /\ ran' \in 0 .. 2
      BY <2>8, <2>c DEF Execute
    <3>4. QED
      BY <2>8, <3>1, <3>2, <3>3 DEF Execute
  <2>9. CASE Return
    BY <2>9, <2>b DEF Return
  <2>10. CASE GuestExit
    BY <2>10, <2>b DEF GuestExit, Stopped
  <2>11. CASE RecvCtrlC
    BY <2>11, <2>a DEF RecvCtrlC, Take
  <2>12. CASE StopPause
    BY <2>12, <2>a DEF StopPause
  <2>13. CASE StopDone
    <3>1. outbox' \in Seq(Reply)
      BY <2>13, AppendType, <2>d DEF StopDone
    <3>2. QED
      BY <2>13, <3>1 DEF StopDone
  <2>14. CASE RecvContinue
    BY <2>14, <2>a DEF RecvContinue, Take, Resume
  <2>15. CASE RecvContinueAt
    <3>1. pc' \in Code
      BY <2>15, AddressIsCode DEF RecvContinueAt
    <3>2. QED
      BY <2>15, <2>a, <3>1 DEF RecvContinueAt, Take, Resume
  <2>16. CASE RecvStep
    BY <2>16, <2>a DEF RecvStep, Take, Resume
  <2>17. CASE RecvSetBreak
    <3>1. breakpoints' \in [Code -> Nat]
      BY <2>17, AddressIsCode, CountType DEF RecvSetBreak
    <3>2. QED
      BY <2>17, <3>1 DEF RecvSetBreak, Take
  <2>18. CASE RecvClearBreak
    <3>1. breakpoints' \in [Code -> Nat]
      BY <2>18, AddressIsCode, CountType DEF RecvClearBreak
    <3>2. QED
      BY <2>18, <3>1 DEF RecvClearBreak, Take
  <2>19. CASE RecvKill
    BY <2>19 DEF RecvKill, Take
  <2>20. CASE KillTest
    BY <2>20, <2>a DEF KillTest
  <2>21. CASE KillResume
    BY <2>21 DEF KillResume
  <2>22. CASE Accept
    BY <2>22 DEF Accept
  <2>23. CASE RecvClosed
    <3>1. reconnects' \in Nat /\ outbox' \in Seq(Reply)
      BY <2>23 DEF RecvClosed
    <3>2. QED
      BY <2>23, <3>1 DEF RecvClosed
  <2>24. CASE ReadReply
    <3>1. outbox' \in Seq(Reply)
      BY <2>24 DEF ReadReply
    <3>2. QED
      BY <2>24, <3>1 DEF ReadReply
  <2>25. CASE SendResume \/ SendBreak \/ SendCtrlC \/ SendKill
    <3>1. inbox' \in Packet
      <4>1. \E op \in {"ctrlC", "c", "cAt", "step", "Z", "z", "k"}, a \in Code :
                inbox' = [op |-> op, at |-> a]
        BY <2>25, EntryIsCode
           DEF SendResume, SendBreak, SendCtrlC, SendKill, Send
      <4>2. QED
        BY <4>1 DEF Packet
    <3>2. view' \in {"halted", "running", "stopping", "killed", "gone"}
          /\ interrupts' \in Nat
      BY <2>25 DEF SendResume, SendBreak, SendCtrlC, SendKill
    <3>3. UNCHANGED <<sharedVars, emuVars, srvVars, outbox, reconnects, history>>
      BY <2>25 DEF SendResume, SendBreak, SendCtrlC, SendKill, Send
    <3>4. QED
      BY <3>1, <3>2, <3>3
  <2>26. CASE UNCHANGED vars
    BY <2>26 DEF vars
  <2>27. QED
    BY <2>1, <2>2, <2>3, <2>4, <2>5, <2>6, <2>7, <2>8, <2>9, <2>10, <2>11,
       <2>12, <2>13, <2>14, <2>15, <2>16, <2>17, <2>18, <2>19, <2>20, <2>21,
       <2>22, <2>23, <2>24, <2>25, <2>26 DEF Next, Emulator, Server, Client
<1>3. QED
  BY <1>1, <1>2, PTL DEF Safety

(* m_paused bounds what the guest still runs: LateInv is inductive, because  *)
(* every place from which an instruction can run without a new check of the  *)
(* flag was reached while the flag was clear.                                *)
THEOREM PauseIsPrompt == Safety => []PauseLatency
<1>1. Init => LateInv
  BY DEF Init, LateInv
<1>2. TypeOK /\ LateInv /\ [Next]_vars => LateInv'
  <2> SUFFICES ASSUME TypeOK, LateInv, [Next]_vars PROVE LateInv'
    OBVIOUS
  <2>t. late \in 0 .. 2 /\ paused \in BOOLEAN
    BY DEF TypeOK
  <2> USE DEF LateInv, sharedVars, emuVars, srvVars, clientVars, history
  <2>1. CASE WaitEnter \/ WaitReport \/ WaitLeave
    BY <2>1 DEF WaitEnter, WaitReport, WaitLeave
  <2>2. CASE KillCheck \/ ClockHead \/ Poll \/ Return \/ GuestExit
    BY <2>2 DEF KillCheck, ClockHead, Poll, Return, GuestExit, Start
  <2>3. CASE Match
    <3>1. \/ late' = (IF paused THEN late ELSE 0) /\ emu' = "drop"
          \/ paused' = paused /\ late' = late /\ emu = "match"
      BY <2>3 DEF Match, Trap
    <3>2. CASE emu' = "drop" /\ late' = 0
      BY <3>2
    <3>3. CASE emu' = "drop" /\ paused /\ late' = late
      BY <3>3, <2>t
    <3>4. CASE paused' = paused /\ late' = late /\ emu = "match"
      BY <3>4, <2>t
    <3>5. QED
      BY <3>1, <3>2, <3>3, <3>4
  <2>4. CASE Execute
    BY <2>4, <2>t DEF Execute, Bump
  <2>5. CASE StopPause
    BY <2>5, <2>t DEF StopPause
  <2>6. CASE RecvContinue \/ RecvContinueAt \/ RecvStep \/ KillResume
    BY <2>6 DEF RecvContinue, RecvContinueAt, RecvStep, KillResume, Resume
  <2>7. CASE RecvCtrlC \/ StopDone \/ RecvSetBreak \/ RecvClearBreak
             \/ RecvKill \/ KillTest \/ Accept \/ RecvClosed
    BY <2>7 DEF RecvCtrlC, StopDone, RecvSetBreak, RecvClearBreak, RecvKill,
                KillTest, Accept, RecvClosed
  <2>8. CASE Client
    BY <2>8 DEF Client, SendResume, SendBreak, SendCtrlC, SendKill, ReadReply,
                Send
  <2>9. CASE UNCHANGED vars
    BY <2>9 DEF vars
  <2>10. QED
    BY <2>1, <2>2, <2>3, <2>4, <2>5, <2>6, <2>7, <2>8, <2>9
       DEF Next, Emulator, Server
<1>3. TypeOK /\ LateInv => PauseLatency
  BY DEF LateInv, PauseLatency
<1>4. QED
  BY <1>1, <1>2, <1>3, TypeCorrect, PTL DEF Safety

-------------------------------------------------------------------------------
(* A client that waits while m_paused is set has something coming: its own   *)
(* packet, a reply, or a stop the emulator thread is about to report.  A     *)
(* client that has sent a breakpoint or a kill does not wait.                *)
NewsInv ==
    /\ inbox.op \in {"Z", "z", "k"} => view \notin {"running", "stopping"}
    /\ paused /\ srv = "recv" /\ view \in {"running", "stopping"} =>
         \/ inbox # NoPacket
         \/ outbox # <<>>
         \/ pending # <<>> /\ emu \in {"drop", "clock", "enter", "report"}

LEMMA AppendIsNews ==
    ASSUME NEW S, NEW q \in Seq(S), NEW e \in S
    PROVE  Append(q, e) # <<>>
<1>1. Len(Append(q, e)) = Len(q) + 1 /\ Len(q) \in Nat
  OBVIOUS
<1>2. Len(<<>>) = 0
  OBVIOUS
<1>3. QED
  BY <1>1, <1>2

(* The emulator thread.                                                      *)
LEMMA EmulatorKeepsNews ==
    ASSUME TypeOK, NewsInv, Emulator
    PROVE  NewsInv'
<1> USE DEF NewsInv, sharedVars, emuVars, srvVars, clientVars, history
<1>t. pending \in Seq(StopReport) /\ outbox \in Seq(Reply) /\ pc \in Code
  BY DEF TypeOK
<1>1. CASE WaitEnter
  <2>1. UNCHANGED <<paused, srv, view, inbox, outbox, pending>>
    BY <1>1 DEF WaitEnter
  <2>2. emu = "enter" /\ emu' = "report"
    BY <1>1 DEF WaitEnter
  <2>3. QED
    BY <2>1, <2>2
<1>2. CASE WaitReport
  <2>1. CASE pending = <<>>
    BY <1>2, <2>1 DEF WaitReport
  <2>2. CASE pending # <<>> /\ srv = "recv"
    <3>1. \E r \in Reply : outbox' = Append(outbox, r)
      BY <1>2, <2>2 DEF WaitReport, Connected, Reply
    <3>2. outbox' # <<>>
      BY <1>t, <3>1, AppendIsNews
    <3>3. inbox' = inbox /\ view' = view
      BY <1>2 DEF WaitReport
    <3>4. QED
      BY <3>2, <3>3
  <2>3. CASE srv # "recv"
    BY <1>2, <2>3 DEF WaitReport
  <2>4. QED
    BY <2>1, <2>2, <2>3
<1>3. CASE Match
  <2>1. CASE breakpoints[pc] > 0 \/ step = 1
    <3>1. \E kind \in {"break", "step"} :
             pending' = Append(pending, [kind |-> kind, at |-> pc])
      BY <1>3, <2>1 DEF Match, Trap
    <3>2. pending' # <<>>
      BY <1>t, <3>1, AppendIsNews DEF StopReport
    <3>3. emu' = "drop"
      BY <1>3, <2>1 DEF Match, Trap
    <3>4. inbox' = inbox /\ view' = view
      BY <1>3 DEF Match
    <3>5. QED
      BY <3>2, <3>3, <3>4
  <2>2. CASE ~(breakpoints[pc] > 0) /\ step # 1
    BY <1>3, <2>2 DEF Match, Trap
  <2>3. QED
    BY <2>1, <2>2
<1>4. CASE WaitLeave \/ KillCheck \/ Poll
  BY <1>4 DEF WaitLeave, KillCheck, Poll
<1>5. CASE ClockHead
  BY <1>5 DEF ClockHead
<1>6. CASE Return
  BY <1>6 DEF Return
<1>7. CASE Execute \/ GuestExit
  <2>1. UNCHANGED <<paused, srv, view, inbox, outbox, pending>> /\ emu = "exec"
    BY <1>7 DEF Execute, GuestExit
  <2>2. QED
    BY <2>1
<1>8. QED
  BY <1>1, <1>2, <1>3, <1>4, <1>5, <1>6, <1>7 DEF Emulator

(* The server thread.                                                        *)
LEMMA ServerKeepsNews ==
    ASSUME TypeOK, NewsInv, Server \/ RecvClosed
    PROVE  NewsInv'
<1> USE DEF NewsInv, NoPacket, sharedVars, emuVars, srvVars, clientVars, history
<1>1. CASE StopDone
  <2>1. CASE stopFor = "reply"
    <3>1. outbox' = Append(outbox, "S 11") /\ outbox \in Seq(Reply)
      BY <1>1, <2>1 DEF StopDone, TypeOK
    <3>2. outbox' # <<>>
      BY <3>1, AppendIsNews DEF Reply
    <3>3. QED
      BY <1>1, <3>2 DEF StopDone
  <2>2. CASE stopFor # "reply"
    BY <1>1, <2>2 DEF StopDone
  <2>3. QED
    BY <2>1, <2>2
<1>2. CASE RecvCtrlC \/ StopPause \/ RecvKill \/ KillTest \/ KillResume
  BY <1>2 DEF RecvCtrlC, StopPause, RecvKill, KillTest, KillResume, Take
<1>3. CASE RecvContinue \/ RecvContinueAt \/ RecvStep
  BY <1>3 DEF RecvContinue, RecvContinueAt, RecvStep, Take, Resume
<1>4. CASE RecvSetBreak \/ RecvClearBreak
  BY <1>4 DEF RecvSetBreak, RecvClearBreak, Take
<1>5. CASE Accept \/ RecvClosed
  BY <1>5 DEF Accept, RecvClosed
<1>6. QED
  BY <1>1, <1>2, <1>3, <1>4, <1>5 DEF Server

LEMMA ClientKeepsNews ==
    ASSUME TypeOK, NewsInv, Client
    PROVE  NewsInv'
<1> USE DEF NewsInv, NoPacket, sharedVars, emuVars, srvVars, clientVars, history
<1>1. CASE SendResume
  <2>1. inbox'.op \in {"c", "step", "cAt"}
    <3>1. CASE Send("c", Entry)
      BY <3>1, Zenon DEF Send
    <3>2. CASE Send("step", Entry)
      BY <3>2, Zenon DEF Send
    <3>3. CASE \E a \in Code : Send("cAt", a)
      <4>1. PICK a \in Code : Send("cAt", a)
        BY <3>3
      <4>2. QED
        BY <4>1, Zenon DEF Send
    <3>4. QED
      BY <1>1, <3>1, <3>2, <3>3 DEF SendResume
  <2>2. NoPacket.op = "none"
    BY DEF NoPacket
  <2>3. inbox' # NoPacket /\ inbox'.op \notin {"Z", "z", "k"}
    BY <2>1, <2>2
  <2>4. QED
    BY <2>3
<1>2. CASE SendBreak
  BY <1>2 DEF SendBreak, Send
<1>3. CASE SendCtrlC \/ SendKill
  BY <1>3 DEF SendCtrlC, SendKill, Send
<1>4. CASE ReadReply
  BY <1>4 DEF ReadReply
<1>5. QED
  BY <1>1, <1>2, <1>3, <1>4 DEF Client

(* Whatever the client sends and wherever the two threads meet, the guest    *)
(* never comes to rest in wait() without the client being told.              *)
THEOREM StopsAreTold == Safety => []NoSilentStop
<1>1. Init => NewsInv
  BY DEF Init, NewsInv, NoPacket
<1>2. TypeOK /\ NewsInv /\ [Next]_vars => NewsInv'
  <2> SUFFICES ASSUME TypeOK, NewsInv, [Next]_vars PROVE NewsInv'
    OBVIOUS
  <2>1. CASE UNCHANGED vars
    BY <2>1 DEF vars, sharedVars, emuVars, srvVars, clientVars, history, NewsInv
  <2>2. QED
    BY <2>1, EmulatorKeepsNews, ServerKeepsNews, ClientKeepsNews DEF Next
<1>3. NewsInv => NoSilentStop
  BY DEF NewsInv, NoSilentStop
<1>4. QED
  BY <1>1, <1>2, <1>3, TypeCorrect, PTL DEF Safety

-------------------------------------------------------------------------------
(* A session of the stub in generated code, with a client that lifts its     *)
(* breakpoints before it resumes and does not interrupt, keeps the promise   *)
(* of StopResume.                                                            *)

(* Generated code starts with a poll.                                        *)
LEMMA StartPolls == ASSUME Session PROVE Start = "poll"
BY DEF Session, Start

(* The emulator thread moves: what the server and the client know stays.     *)
LEMMA EmulatorKeepsSession ==
    ASSUME Session, TypeOK, SessionInv, Emulator
    PROVE  SessionInv'
<1> USE DEF sharedVars, emuVars, srvVars, clientVars, history
<1>t. /\ paused \in BOOLEAN /\ stepping \in BOOLEAN /\ step \in 0 .. 2
      /\ ran \in 0 .. 2
  BY DEF TypeOK
<1>q. Quiet /\ Phase /\ StepPhase
  BY DEF SessionInv
<1>1. CASE WaitEnter
  <2>1. Quiet'
    BY <1>q, <1>1 DEF Quiet, WaitEnter
  <2>2. Phase'
    BY <1>q, <1>1 DEF Phase, WaitEnter, Waiting
  <2>3. StepPhase'
    BY <1>q, <1>1 DEF StepPhase, WaitEnter, Waiting
  <2>4. QED
    BY <2>1, <2>2, <2>3 DEF SessionInv
<1>2. CASE WaitReport
  <2>1. Quiet'
    BY <1>q, <1>2 DEF Quiet, WaitReport
  <2>2. Phase'
    <3>1. CASE pending = <<>>
      BY <1>q, <1>2, <3>1 DEF Phase, WaitReport, Waiting
    <3>2. CASE pending # <<>>
      <4>1. /\ view = "running" /\ inbox = NoPacket /\ paused
            /\ Len(pending) = 1 /\ outbox = <<>> /\ Connected
        BY <1>q, <3>2 DEF Phase, Quiet, Connected
      <4>2. pending \in Seq(StopReport)
        BY DEF TypeOK
      <4>3. pending' = SubSeq(pending, 1, 0)
        <5>1. pending' = SubSeq(pending, 1, Len(pending) - 1)
          BY <1>2, <3>2, Zenon DEF WaitReport
        <5>2. Len(pending) - 1 = 0
          BY <4>1
        <5>3. QED
          BY <5>1, <5>2, Zenon
      <4>4. pending' = <<>>
        BY <4>2, <4>3
      <4>5. \E r \in Reply : outbox' = Append(<<>>, r)
        BY <1>2, <3>2, <4>1 DEF WaitReport, Reply
      <4>6. Len(outbox') = 1
        BY <4>5
      <4>7. QED
        BY <1>2, <4>1, <4>4, <4>6 DEF Phase, WaitReport
    <3>3. QED
      BY <3>1, <3>2
  <2>3. StepPhase'
    BY <1>q, <1>2 DEF StepPhase, WaitReport, Waiting
  <2>4. QED
    BY <2>1, <2>2, <2>3 DEF SessionInv
<1>3. CASE WaitLeave
  <2>1. Quiet'
    BY <1>q, <1>3 DEF Quiet, WaitLeave
  <2>2. Phase'
    BY <1>q, <1>3 DEF Phase, WaitLeave, Waiting
  <2>3. StepPhase'
    BY <1>q, <1>3 DEF StepPhase, WaitLeave, Waiting
  <2>4. QED
    BY <2>1, <2>2, <2>3 DEF SessionInv
<1>4. CASE KillCheck
  <2>1. Quiet'
    BY <1>q, <1>4, StartPolls DEF Quiet, KillCheck
  <2>2. Phase'
    BY <1>q, <1>4, StartPolls DEF Phase, Quiet, KillCheck, Waiting
  <2>3. StepPhase'
    BY <1>q, <1>4, StartPolls DEF StepPhase, Quiet, KillCheck, Waiting
  <2>4. QED
    BY <2>1, <2>2, <2>3 DEF SessionInv
<1>5. CASE ClockHead
  <2>1. Quiet'
    BY <1>q, <1>5, StartPolls DEF Quiet, ClockHead
  <2>2. Phase'
    BY <1>q, <1>5, StartPolls DEF Phase, ClockHead, Waiting
  <2>3. StepPhase'
    BY <1>q, <1>5, StartPolls DEF StepPhase, ClockHead, Waiting
  <2>4. QED
    BY <2>1, <2>2, <2>3 DEF SessionInv
<1>6. CASE Poll
  <2>0. ~paused /\ ~shouldKill
    BY <1>q, <1>6 DEF Phase, Quiet, Poll, Waiting
  <2>1. Quiet'
    BY <1>q, <1>6 DEF Quiet, Poll
  <2>2. Phase'
    BY <1>q, <1>6, <2>0 DEF Phase, Poll, Waiting
  <2>3. StepPhase'
    BY <1>q, <1>6, <2>0 DEF StepPhase, Poll, Waiting
  <2>4. QED
    BY <2>1, <2>2, <2>3 DEF SessionInv
<1>7. CASE Match
  <2>0. ~paused /\ view = "running" /\ inbox = NoPacket /\ pending = <<>>
        /\ outbox = <<>> /\ emu = "match"
    BY <1>q, <1>7 DEF Phase, Match, Waiting
  <2>1. CASE breakpoints[pc] > 0 /\ Trap("break") /\ UNCHANGED step
    <3>1. ~stepping /\ step = 0
      <4>1. pc \in Code
        BY DEF TypeOK
      <4>2. QED
        BY <1>q, <2>0, <2>1, <4>1 DEF StepPhase
    <3>2. Len(pending') = 1 /\ pending'[1] = [kind |-> "break", at |-> pc]
      BY <2>0, <2>1 DEF Trap
    <3>3. Quiet'
      BY <1>q, <1>7, <2>1 DEF Quiet, Match, Trap
    <3>4. Phase'
      BY <2>0, <3>2, <1>7, <2>1 DEF Phase, Match, Trap
    <3>5. StepPhase'
      BY <3>1, <1>7, <2>1 DEF StepPhase, Match, Trap
    <3>6. QED
      BY <3>3, <3>4, <3>5 DEF SessionInv
  <2>2. CASE step = 1 /\ Trap("step") /\ step' = 0
    <3>1. stepping /\ ran = 1
      BY <1>q, <1>t, <2>0, <2>2 DEF StepPhase, Waiting
    <3>2. Len(pending') = 1 /\ pending'[1] = [kind |-> "step", at |-> pc]
      BY <2>0, <2>2 DEF Trap
    <3>3. Quiet'
      BY <1>q, <1>7, <2>2 DEF Quiet, Match, Trap
    <3>4. Phase'
      BY <2>0, <3>1, <3>2, <1>7, <2>2 DEF Phase, Match, Trap
    <3>5. StepPhase'
      BY <1>7, <2>2 DEF StepPhase, Match, Trap
    <3>6. QED
      BY <3>3, <3>4, <3>5 DEF SessionInv
  <2>3. CASE /\ breakpoints[pc] = 0 /\ step # 1
             /\ step' = IF step = 2 THEN 1 ELSE 0
             /\ emu' = IF spent THEN "ret" ELSE "exec"
             /\ UNCHANGED <<pending, paused, late>>
    <3>1. Quiet'
      BY <1>q, <1>7, <2>3 DEF Quiet, Match
    <3>2. Phase'
      BY <2>0, <1>7, <2>3 DEF Phase, Match
    <3>3. StepPhase'
      BY <1>q, <1>t, <2>0, <1>7, <2>3 DEF StepPhase, Match, Waiting
    <3>4. QED
      BY <3>1, <3>2, <3>3 DEF SessionInv
  <2>4. QED
    BY <1>7, <2>1, <2>2, <2>3 DEF Match
<1>8. CASE Execute
  <2>0. ~paused
    BY <1>q, <1>8 DEF Phase, Execute, Waiting
  <2>1. Quiet'
    BY <1>q, <1>8 DEF Quiet, Execute
  <2>2. Phase'
    BY <1>q, <1>8, <2>0 DEF Phase, Execute, Waiting
  <2>3. StepPhase'
    BY <1>q, <1>8, <2>0 DEF StepPhase, Execute, Waiting, Bump
  <2>4. QED
    BY <2>1, <2>2, <2>3 DEF SessionInv
<1>9. CASE Return
  <2>1. Quiet'
    BY <1>q, <1>9, StartPolls DEF Quiet, Return
  <2>2. Phase'
    BY <1>q, <1>9, StartPolls DEF Phase, Return, Waiting
  <2>3. StepPhase'
    BY <1>q, <1>9, StartPolls DEF StepPhase, Phase, Return, Waiting
  <2>4. QED
    BY <2>1, <2>2, <2>3 DEF SessionInv
<1>10. CASE GuestExit
  <2>1. Quiet'
    BY <1>q, <1>10 DEF Quiet, GuestExit
  <2>2. Phase'
    BY <1>q, <1>10 DEF Phase, GuestExit, Waiting
  <2>3. StepPhase'
    BY <1>q, <1>10 DEF StepPhase, GuestExit, Waiting
  <2>4. QED
    BY <2>1, <2>2, <2>3 DEF SessionInv
<1>11. QED
  BY <1>1, <1>2, <1>3, <1>4, <1>5, <1>6, <1>7, <1>8, <1>9, <1>10 DEF Emulator

(* The server handles one of the packets a session knows, or nothing.        *)
LEMMA ServerKeepsSession ==
    ASSUME Session, TypeOK, SessionInv, Server \/ RecvClosed
    PROVE  SessionInv'
<1> USE DEF sharedVars, emuVars, srvVars, clientVars, history
<1>q. Quiet /\ Phase /\ StepPhase
  BY DEF SessionInv
<1>t. /\ paused \in BOOLEAN /\ stepping \in BOOLEAN /\ step \in 0 .. 2
      /\ emu \in Places
  BY DEF TypeOK
<1>1. CASE RecvContinue \/ RecvContinueAt \/ RecvStep
  <2>0. /\ inbox.op \in {"c", "cAt", "step"} /\ inbox' = NoPacket
        /\ inbox.op = "step" <=> RecvStep
        /\ paused' = FALSE /\ ran' = 0 /\ stepping' = (inbox.op = "step")
        /\ step' = (IF inbox.op = "step" THEN 2 ELSE step)
        /\ UNCHANGED <<emu, spent, srv, shouldKill, breakpoints, pending,
                       outbox, view, interrupts, reconnects>>
    BY <1>1 DEF RecvContinue, RecvContinueAt, RecvStep, Take, Resume
  <2>1. /\ view = "running" /\ paused /\ emu \in Waiting
        /\ pending = <<>> /\ outbox = <<>>
    BY <1>q, <2>0 DEF Quiet, Phase, NoPacket
  <2>2. Quiet'
    BY <1>q, <2>0, <2>1 DEF Quiet, NoPacket, Waiting
  <2>3. Phase'
    BY <2>0, <2>1 DEF Phase, Waiting
  <2>4. StepPhase'
    BY <1>q, <2>0, <2>1 DEF StepPhase, Quiet, Waiting
  <2>5. QED
    BY <2>2, <2>3, <2>4 DEF SessionInv
<1>2. CASE RecvSetBreak \/ RecvClearBreak
  <2>0. /\ inbox.op \in {"Z", "z"} /\ inbox' = NoPacket
        /\ UNCHANGED <<paused, pending, emu, spent, pc, srv, shouldKill, step,
                       outbox, view, interrupts, reconnects, ran, stepping>>
    BY <1>2 DEF RecvSetBreak, RecvClearBreak, Take
  <2>1. view = "halted" /\ emu \in Waiting /\ paused
    BY <1>q, <2>0 DEF Quiet, Phase
  <2>2. Quiet'
    BY <1>q, <2>0, <2>1 DEF Quiet, NoPacket, Waiting
  <2>3. Phase'
    BY <1>q, <2>0, <2>1 DEF Phase
  <2>4. StepPhase'
    BY <1>q, <2>0, <2>1 DEF StepPhase
  <2>5. QED
    BY <2>2, <2>3, <2>4 DEF SessionInv
<1>3. CASE RecvCtrlC \/ RecvKill
  BY <1>q, <1>3 DEF Quiet, RecvCtrlC, RecvKill, Take
<1>4. CASE StopPause \/ StopDone \/ KillTest \/ KillResume \/ Accept
  BY <1>q, <1>4 DEF Quiet, StopPause, StopDone, KillTest, KillResume, Accept
<1>5. CASE RecvClosed
  BY <1>q, <1>5 DEF Quiet, RecvClosed, Session
<1>6. QED
  BY <1>1, <1>2, <1>3, <1>4, <1>5 DEF Server

(* The client speaks only when it believes that the guest is halted, which   *)
(* it then is.                                                               *)
LEMMA ClientKeepsSession ==
    ASSUME Session, TypeOK, SessionInv, Client
    PROVE  SessionInv'
<1> USE DEF sharedVars, emuVars, srvVars, clientVars, history
<1>q. Quiet /\ Phase /\ StepPhase
  BY DEF SessionInv
<1>1. CASE SendResume
  <2>0. /\ view = "halted" /\ inbox = NoPacket /\ view' = "running"
        /\ inbox'.op \in {"c", "cAt", "step"}
        /\ inbox'.op = "step" => \A a \in Code : breakpoints[a] = 0
        /\ UNCHANGED <<sharedVars, emuVars, srvVars, outbox, interrupts,
                       reconnects, history>>
    BY <1>1 DEF SendResume, Send, Lifted, Session
  <2>1. Quiet'
    BY <1>q, <2>0 DEF Quiet
  <2>2. Phase'
    BY <1>q, <2>0 DEF Phase, NoPacket
  <2>3. StepPhase'
    BY <1>q, <2>0 DEF StepPhase
  <2>4. QED
    BY <2>1, <2>2, <2>3 DEF SessionInv
<1>2. CASE SendBreak
  <2>0. /\ view = "halted" /\ inbox = NoPacket /\ inbox'.op \in {"Z", "z"}
        /\ UNCHANGED <<sharedVars, emuVars, srvVars, outbox, view, interrupts,
                       reconnects, history>>
    BY <1>2 DEF SendBreak, Send
  <2>1. Quiet'
    BY <1>q, <2>0 DEF Quiet
  <2>2. Phase'
    BY <1>q, <2>0 DEF Phase, NoPacket
  <2>3. StepPhase'
    BY <1>q, <2>0 DEF StepPhase
  <2>4. QED
    BY <2>1, <2>2, <2>3 DEF SessionInv
<1>3. CASE SendCtrlC \/ SendKill
  BY <1>q, <1>3 DEF Quiet, SendCtrlC, SendKill, Session
<1>4. CASE ReadReply
  <2>0. /\ outbox # <<>> /\ outbox' = Tail(outbox)
        /\ view' = IF view \in {"running", "stopping"} THEN "halted" ELSE view
        /\ UNCHANGED <<sharedVars, emuVars, srvVars, inbox, interrupts,
                       reconnects, history>>
    BY <1>4 DEF ReadReply
  <2>1. /\ view = "running" /\ inbox = NoPacket /\ paused /\ emu = "spin"
        /\ pending = <<>> /\ Len(outbox) = 1
    BY <1>q, <2>0 DEF Phase
  <2>2. outbox' = <<>>
    <3>1. outbox \in Seq(Reply)
      BY DEF TypeOK
    <3>2. QED
      BY <2>0, <2>1, <3>1
  <2>3. Quiet'
    BY <1>q, <2>0, <2>1 DEF Quiet, NoPacket
  <2>4. Phase'
    BY <2>0, <2>1, <2>2 DEF Phase, Waiting
  <2>5. StepPhase'
    BY <1>q, <2>0 DEF StepPhase
  <2>6. QED
    BY <2>3, <2>4, <2>5 DEF SessionInv
<1>5. QED
  BY <1>1, <1>2, <1>3, <1>4 DEF Client

(* The two threads and the client agree on the phase of the session.         *)
THEOREM SessionHolds == ASSUME Session PROVE Safety => []SessionInv
<1>1. Init => SessionInv
  <2> SUFFICES ASSUME Init PROVE SessionInv
    OBVIOUS
  <2>1. Quiet
    BY DEF Init, Quiet, NoPacket
  <2>2. Phase
    BY DEF Init, Phase, Waiting
  <2>3. StepPhase
    BY DEF Init, StepPhase
  <2>4. QED
    BY <2>1, <2>2, <2>3 DEF SessionInv
<1>2. TypeOK /\ SessionInv /\ [Next]_vars => SessionInv'
  <2> SUFFICES ASSUME TypeOK, SessionInv, [Next]_vars PROVE SessionInv'
    OBVIOUS
  <2>1. CASE UNCHANGED vars
    BY <2>1 DEF vars, sharedVars, emuVars, srvVars, clientVars, history,
                SessionInv, Quiet, Phase, StepPhase
  <2>2. QED
    BY <2>1, EmulatorKeepsSession, ServerKeepsSession, ClientKeepsSession
       DEF Next
<1>3. QED
  BY <1>1, <1>2, TypeCorrect, PTL DEF Safety

(* What the server tells the client about a stop is true: a breakpoint is    *)
(* reported where the guest stands.                                          *)
THEOREM ReportsAreTrue ==
    ASSUME Session PROVE Safety => []ReportsWhereItStands
<1>1. SessionInv => ReportsWhereItStands
  BY DEF SessionInv, Phase, ReportsWhereItStands
<1>2. QED
  BY <1>1, SessionHolds, PTL

(* A step the client is told of has run exactly one instruction.             *)
THEOREM StepsAreSingle ==
    ASSUME Session PROVE Safety => []StepIsOneInstruction
<1>1. SessionInv => StepIsOneInstruction
  BY DEF SessionInv, Phase, StepIsOneInstruction
<1>2. QED
  BY <1>1, SessionHolds, PTL

(* A guest the client believes to be halted does not run.                    *)
THEOREM HaltsHold ==
    ASSUME Session PROVE Safety => []HaltedGuestStands
<1>1. SessionInv => HaltedGuestStands
  BY DEF SessionInv, Phase, Quiet, HaltedGuestStands, NoPacket, Waiting
<1>2. QED
  BY <1>1, SessionHolds, PTL

(* The detailed stub implements StopResume: every step of the two threads    *)
(* and of the client is a step of the abstract debugger or invisible to it.  *)
THEOREM StubKeepsPromise == ASSUME Session PROVE Safety => KeepsPromise
<1> USE DEF sharedVars, emuVars, srvVars, clientVars, history
<1> DEFINE Left == IF ~stepping THEN 2 ELSE IF ran = 0 THEN 1 ELSE 0
<1>1. Init => Promise!Init
  BY DEF Init, Promise!Init, Promise!Free
<1>2. TypeOK /\ SessionInv /\ [Next]_vars => [Promise!Next]_(Promise!vars)
  <2> SUFFICES ASSUME TypeOK, SessionInv, [Next]_vars,
                      ~ UNCHANGED <<paused, pc, breakpoints, Left>>
               PROVE  Promise!Next
    BY DEF Promise!vars
  <2>q. Quiet /\ Phase /\ StepPhase
    BY DEF SessionInv
  <2>t. /\ paused \in BOOLEAN /\ pc \in Code /\ stepping \in BOOLEAN
        /\ ran \in 0 .. 2 /\ step \in 0 .. 2 /\ breakpoints \in [Code -> Nat]
        /\ inbox.at \in Code
    BY AddressIsCode DEF TypeOK
  <2>1. CASE RecvContinue \/ RecvContinueAt \/ RecvStep
    <3>0. inbox.op \in {"c", "cAt", "step"}
      BY <2>1 DEF RecvContinue, RecvContinueAt, RecvStep, Take
    <3>1. paused
      BY <2>q, <3>0 DEF Quiet, Phase, NoPacket
    <3>2. paused' = FALSE /\ ran' = 0 /\ stepping' \in BOOLEAN
          /\ breakpoints' = breakpoints
      BY <2>1 DEF RecvContinue, RecvContinueAt, RecvStep, Resume
    <3>3. pc' \in Code
      BY <2>1, <2>t DEF RecvContinue, RecvContinueAt, RecvStep
    <3>4. Promise!Resume
      BY <3>1, <3>2, <3>3 DEF Promise!Resume, Promise!Free
    <3>5. QED
      BY <3>4 DEF Promise!Next
  <2>2. CASE Execute
    <3>1. ~paused /\ breakpoints[pc] = 0
      BY <2>q, <2>2 DEF Quiet, Phase, Execute, Waiting
    <3>2. stepping => ran = 0
      BY <2>q, <2>2, <3>1 DEF StepPhase, Execute, Waiting
    <3>3. /\ pc' \in Succ[pc] /\ ran' = Bump(ran)
          /\ UNCHANGED <<paused, breakpoints, stepping>>
      BY <2>2 DEF Execute
    <3>4. Promise!Run
      BY <3>1, <3>2, <3>3, <2>t DEF Promise!Run, Promise!Free, Bump
    <3>5. QED
      BY <3>4 DEF Promise!Next
  <2>3. CASE Match
    <3>1. ~paused /\ emu = "match"
      BY <2>q, <2>3 DEF Phase, Match, Waiting
    <3>2. UNCHANGED <<pc, breakpoints, stepping, ran>>
      BY <2>3 DEF Match
    <3>3. CASE paused' = paused
      BY <3>2, <3>3
    <3>4. CASE paused' # paused
      <4>1. paused' = TRUE /\ (breakpoints[pc] > 0 \/ step = 1)
        BY <2>3, <3>4 DEF Match, Trap
      <4>2. step = 1 => stepping /\ ran = 1
        BY <2>q, <2>t, <3>1 DEF StepPhase, Waiting
      <4>3. Promise!Halt
        BY <3>1, <3>2, <4>1, <4>2 DEF Promise!Halt
      <4>4. QED
        BY <4>3 DEF Promise!Next
    <3>5. QED
      BY <3>3, <3>4
  <2>4. CASE RecvSetBreak
    <3>1. paused
      BY <2>q, <2>4 DEF Quiet, Phase, RecvSetBreak, Take
    <3>2. Promise!SetBreak
      BY <2>4, <2>t, <3>1 DEF Promise!SetBreak, RecvSetBreak
    <3>3. QED
      BY <3>2 DEF Promise!Next
  <2>5. CASE RecvClearBreak
    <3>1. paused
      BY <2>q, <2>5 DEF Quiet, Phase, RecvClearBreak, Take
    <3>2. UNCHANGED <<paused, pc, stepping, ran>>
      BY <2>5 DEF RecvClearBreak
    <3>3. CASE breakpoints[inbox.at] > 0
      <4>1. breakpoints' = [breakpoints EXCEPT ![inbox.at] = @ - 1]
        BY <2>5, <2>t, <3>3 DEF RecvClearBreak
      <4>2. Promise!SetBreak
        BY <2>t, <3>1, <3>2, <3>3, <4>1 DEF Promise!SetBreak
      <4>3. QED
        BY <4>2 DEF Promise!Next
    <3>4. CASE ~(breakpoints[inbox.at] > 0)
      <4>1. breakpoints' = breakpoints
        BY <2>5, <2>t, <3>4 DEF RecvClearBreak
      <4>2. QED
        BY <3>2, <4>1
    <3>5. QED
      BY <3>3, <3>4
  <2>6. CASE WaitEnter \/ WaitReport \/ WaitLeave \/ KillCheck \/ ClockHead
             \/ Poll \/ Return \/ GuestExit
    <3>1. UNCHANGED <<paused, pc, breakpoints, stepping, ran>>
      BY <2>6 DEF WaitEnter, WaitReport, WaitLeave, KillCheck, ClockHead, Poll,
                  Return, GuestExit
    <3>2. QED
      BY <3>1
  <2>7. CASE RecvCtrlC \/ RecvKill \/ StopPause \/ StopDone \/ KillTest
             \/ KillResume \/ Accept \/ RecvClosed
    <3>1. /\ srv = "recv" /\ inbox.op \notin {"ctrlC", "k"}
      BY <2>q DEF Quiet
    <3>2. RecvClosed
      BY <2>7, <3>1 DEF RecvCtrlC, RecvKill, StopPause, StopDone, KillTest,
                        KillResume, Accept, Take
    <3>3. QED
      BY <3>2 DEF RecvClosed
  <2>8. CASE Client
    <3>1. UNCHANGED <<paused, pc, breakpoints, stepping, ran>>
      BY <2>8 DEF Client, SendResume, SendBreak, SendCtrlC, SendKill, ReadReply,
                  Send
    <3>2. QED
      BY <3>1
  <2>9. CASE UNCHANGED vars
    BY <2>9 DEF vars
  <2>10. QED
    BY <2>1, <2>2, <2>3, <2>4, <2>5, <2>6, <2>7, <2>8, <2>9
       DEF Next, Emulator, Server
<1>3. QED
  BY <1>1, <1>2, TypeCorrect, SessionHolds, PTL
     DEF Safety, KeepsPromise, Promise!Spec
===============================================================================

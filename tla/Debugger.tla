------------------------------- MODULE Debugger -------------------------------
(*****************************************************************************)
(* The GDB stub: the emulator thread (system::clock, processor::execute and  *)
(* the code jit1 emits before every instruction) and the server thread of    *)
(* debugger.cpp, which share the atomics m_paused, m_threads_to_pause and    *)
(* m_should_kill, the breakpoint list and the pending stop reports.          *)
(* A client that follows the all-stop protocol drives the server: it sends   *)
(* resume packets when it has been told that the guest stopped, and Ctrl-C   *)
(* when it believes that the guest runs.                                     *)
(*                                                                           *)
(* Every atomic access of the two threads that the other one can observe is  *)
(* a step of its own; a section under m_breakpoint_lock is one step.         *)
(*****************************************************************************)
EXTENDS Integers, Sequences

CONSTANTS
    Code,           \* guest instruction addresses
    Entry,          \* the address the guest starts at
    Succ,           \* Succ[a]: the addresses that can follow a
    UseJit,         \* jit_type: only generated code polls breakpoints
    Ticked,         \* options.ticked: execute() returns after a quantum
    DebugOwned,     \* options.debug_owned
    Modulus,        \* 2^32 in the code: m_threads_to_pause is a uint32
    MaxInterrupts,  \* bound: Ctrl-C packets the client may send
    MaxReconnects,  \* bound: times the client may drop the connection
    MaxDuplicates,  \* bound: how often one address may be in m_breakpoints
    Kills,          \* may the client send "k"
    Careful         \* does the client lift breakpoints before it resumes: all
                    \* of them for a step, the one it stands on to continue

ASSUME CodeAssumption ==
    /\ Entry \in Code
    /\ Succ \in [Code -> SUBSET Code]
    /\ UseJit \in BOOLEAN /\ Ticked \in BOOLEAN /\ DebugOwned \in BOOLEAN
    /\ Kills \in BOOLEAN /\ Careful \in BOOLEAN
    /\ Modulus \in Nat /\ Modulus > 2
    /\ MaxInterrupts \in Nat /\ MaxReconnects \in Nat
    /\ MaxDuplicates \in Nat

VARIABLES
    paused,         \* m_paused
    threadsToPause, \* m_threads_to_pause
    shouldKill,     \* m_should_kill
    step,           \* m_step[1]
    breakpoints,    \* m_breakpoints, as the number of entries per address
    pending,        \* m_pending_breakpoints
    emu,            \* where the emulator thread is
    booting,        \* is the thread still in the constructor of system
    spent,          \* instruction_count_ has reached target_instructions_
    pc,             \* program_counter_
    srv,            \* where the server thread is
    stopFor,        \* who called handle_stop: the Ctrl-C path or handle_kill
    inbox,          \* the packet on its way to the server
    outbox,         \* the stop replies on their way to the client
    view,           \* what the client believes
    interrupts,     \* Ctrl-C packets sent
    reconnects,     \* connections dropped
    late,           \* history: instructions run since m_paused was last set
    ran,            \* history: instructions run since the last resume (0,1,2+)
    stepping        \* history: the last resume was a step

emuVars == <<emu, booting, spent, pc>>
srvVars == <<srv, stopFor>>
clientVars == <<inbox, view, interrupts, reconnects>>
sharedVars == <<paused, threadsToPause, shouldKill, step, breakpoints, pending>>
history == <<late, ran, stepping>>
vars == <<sharedVars, emuVars, srvVars, clientVars, outbox, history>>

NoPacket == [op |-> "none", at |-> Entry]
Packet == [op : {"ctrlC", "c", "cAt", "step", "Z", "z", "k"}, at : Code]

StopReport == [kind : {"break", "step"}, at : Code]
Reply == {"T 05", "S 05", "S 11"}

(* Inside debugger::wait(); before and after it in system::clock.           *)
Waiting == {"enter", "report", "spin"}
Running == {"poll", "match", "exec", "ret", "drop"}
Stopped == {"finished", "exited"}
Places == Waiting \cup Running \cup Stopped \cup {"clock", "resumed"}

(* Where processor::execute starts: generated code polls first.              *)
Start == IF UseJit THEN "poll" ELSE "exec"

Connected == srv # "accept"

Bump(n) == IF n = 2 THEN 2 ELSE n + 1

Init ==
    /\ paused = TRUE /\ threadsToPause = 1 /\ shouldKill = FALSE
    /\ step = 0 /\ breakpoints = [a \in Code |-> 0] /\ pending = <<>>
    /\ emu = "enter" /\ booting = TRUE /\ spent = FALSE /\ pc = Entry
    /\ srv = "recv" /\ stopFor = "reply"
    /\ inbox = NoPacket /\ outbox = <<>>
    /\ view = "halted" /\ interrupts = 0 /\ reconnects = 0
    /\ late = 0 /\ ran = 0 /\ stepping = FALSE

-------------------------------------------------------------------------------
(* The emulator thread.                                                      *)

(* Mutant: the counter is taken for one that cannot underflow. *)
WaitEnterUnwrapped ==
    /\ emu = "enter"
    /\ threadsToPause' = threadsToPause - 1
    /\ emu' = "report"
    /\ UNCHANGED <<paused, shouldKill, step, breakpoints, pending, booting,
                   spent, pc, srvVars, clientVars, outbox, history>>

(* wait(): --m_threads_to_pause. *)
WaitEnter ==
    /\ emu = "enter"
    /\ threadsToPause' = (threadsToPause + (Modulus - 1)) % Modulus
    /\ emu' = "report"
    /\ UNCHANGED <<paused, shouldKill, step, breakpoints, pending, booting,
                   spent, pc, srvVars, clientVars, outbox, history>>

(* Mutants: every wait is reported; the report is sent and not popped. *)
WaitReportAlways ==
    /\ emu = "report"
    /\ emu' = "spin"
    /\ pending' = <<>>
    /\ outbox' = IF Connected THEN Append(outbox, "S 05") ELSE outbox
    /\ UNCHANGED <<paused, threadsToPause, shouldKill, step, breakpoints,
                   booting, spent, pc, srvVars, clientVars, history>>

(* wait(): the newest pending stop is popped and sent; without a client the  *)
(* send fails and nobody notices.                                            *)
WaitReport ==
    /\ emu = "report"
    /\ emu' = "spin"
    /\ IF pending = <<>>
       THEN UNCHANGED <<pending, outbox>>
       ELSE /\ pending' = SubSeq(pending, 1, Len(pending) - 1)
            /\ outbox' = IF ~Connected THEN outbox
                         ELSE Append(outbox,
                                IF pending[Len(pending)].kind = "step"
                                THEN "S 05" ELSE "T 05")
    /\ UNCHANGED <<paused, threadsToPause, shouldKill, step, breakpoints,
                   booting, spent, pc, srvVars, clientVars, history>>

(* wait(): while (m_paused) is left; the constructor has no kill check.      *)
WaitLeave ==
    /\ emu = "spin" /\ ~paused
    /\ emu' = IF booting THEN "clock" ELSE "resumed"
    /\ booting' = FALSE
    /\ UNCHANGED <<sharedVars, spent, pc, srvVars, clientVars, outbox, history>>

(* Mutant: the first instruction after a resume is not polled. *)
KillCheckSkipsPoll ==
    /\ emu = "resumed"
    /\ emu' = IF shouldKill THEN "exited" ELSE "exec"
    /\ spent' = FALSE
    /\ UNCHANGED <<sharedVars, booting, pc, srvVars, clientVars, outbox, history>>

(* clock(): should_kill() after wait(), then execute() with a new quantum.   *)
KillCheck ==
    /\ emu = "resumed"
    /\ emu' = IF shouldKill THEN "exited" ELSE Start
    /\ spent' = FALSE
    /\ UNCHANGED <<sharedVars, booting, pc, srvVars, clientVars, outbox, history>>

(* clock(): should_pause() at the head of the loop.                          *)
ClockHead ==
    /\ emu = "clock"
    /\ emu' = IF paused THEN "enter" ELSE Start
    /\ spent' = IF paused THEN spent ELSE FALSE
    /\ UNCHANGED <<sharedVars, booting, pc, srvVars, clientVars, outbox, history>>

(* Mutant: generated code looks at the kill flag only. *)
PollBlind ==
    /\ emu = "poll"
    /\ emu' = IF shouldKill THEN "drop" ELSE "match"
    /\ UNCHANGED <<sharedVars, booting, spent, pc, srvVars, clientVars, outbox,
                   history>>

(* should_interrupt_execution(): the two flags. Kill is never reset, so the  *)
(* two loads are as good as one.                                             *)
Poll ==
    /\ emu = "poll"
    /\ emu' = IF paused \/ shouldKill THEN "drop" ELSE "match"
    /\ UNCHANGED <<sharedVars, booting, spent, pc, srvVars, clientVars, outbox,
                   history>>

(* Mutant: the stop is recorded and the instruction runs all the same. *)
TrapRunsOn(kind) ==
    /\ pending' = Append(pending, [kind |-> kind, at |-> pc])
    /\ paused' = TRUE
    /\ late' = IF paused THEN late ELSE 0
    /\ emu' = "exec"

(* should_interrupt_execution() stops the guest: what both branches do.      *)
Trap(kind) ==
    /\ pending' = Append(pending, [kind |-> kind, at |-> pc])
    /\ paused' = TRUE
    /\ late' = IF paused THEN late ELSE 0
    /\ emu' = "drop"

(* should_interrupt_execution() under m_breakpoint_lock, and the tick test   *)
(* that the generated code makes after it.                                   *)
Match ==
    /\ emu = "match"
    /\ \/ /\ breakpoints[pc] > 0
          /\ Trap("break")
          /\ UNCHANGED step
       \/ /\ breakpoints[pc] = 0 /\ step = 1
          /\ Trap("step")
          /\ step' = 0
       \/ /\ breakpoints[pc] = 0 /\ step # 1
          /\ step' = IF step = 2 THEN 1 ELSE 0
          /\ emu' = IF spent THEN "ret" ELSE "exec"
          /\ UNCHANGED <<pending, paused, late>>
    /\ UNCHANGED <<threadsToPause, shouldKill, breakpoints, booting, spent, pc,
                   srvVars, clientVars, outbox, ran, stepping>>

(* One guest instruction. Generated code goes on to the next poll, or leaves *)
(* for an exception the system handles; the interpreter always returns to    *)
(* the loop of execute_internal.                                             *)
Execute ==
    /\ emu = "exec"
    /\ pc' \in Succ[pc]
    /\ emu' \in IF UseJit THEN {"poll", "ret"} ELSE {"ret"}
    /\ spent' \in IF Ticked THEN BOOLEAN ELSE {FALSE}
    /\ late' = IF paused THEN Bump(late) ELSE late
    /\ ran' = Bump(ran)
    /\ UNCHANGED <<sharedVars, booting, srvVars, clientVars, outbox, stepping>>

(* Mutant: execute_internal does not drop to the caller when it is paused. *)
ReturnBlind ==
    /\ emu \in {"ret", "drop"}
    /\ emu' = IF spent THEN "clock" ELSE Start
    /\ UNCHANGED <<sharedVars, booting, spent, pc, srvVars, clientVars, outbox,
                   history>>

(* execute_internal after the instruction: should_pause() drops to the       *)
(* caller, else the quantum decides.                                         *)
Return ==
    /\ emu \in {"ret", "drop"}
    /\ emu' = IF paused \/ spent THEN "clock" ELSE Start
    /\ UNCHANGED <<sharedVars, booting, spent, pc, srvVars, clientVars, outbox,
                   history>>

(* The guest ends: the exception leaves system::clock, and ~debugger joins a *)
(* server thread that never returns.                                         *)
GuestExit ==
    /\ emu = "exec"
    /\ emu' = "finished"
    /\ UNCHANGED <<sharedVars, booting, spent, pc, srvVars, clientVars, outbox,
                   history>>

Emulator ==
    \/ WaitEnter \/ WaitReport \/ WaitLeave \/ KillCheck \/ ClockHead
    \/ Poll \/ Match \/ Execute \/ Return \/ GuestExit

-------------------------------------------------------------------------------
(* The server thread. Nothing of it runs once std::exit was called.          *)

Alive == emu # "exited"

Take(op) ==
    /\ Alive /\ srv = "recv" /\ inbox.op = op
    /\ inbox' = NoPacket

(* Ctrl-C: handle_stop() asks for one thread ... *)
RecvCtrlC ==
    /\ Take("ctrlC")
    /\ threadsToPause' = 1
    /\ stopFor' = "reply" /\ srv' = "stopPause"
    /\ UNCHANGED <<paused, shouldKill, step, breakpoints, pending, emuVars,
                   outbox, view, interrupts, reconnects, history>>

(* ... sets m_paused ... *)
StopPause ==
    /\ Alive /\ srv = "stopPause"
    /\ paused' = TRUE
    /\ late' = IF paused THEN late ELSE 0
    /\ srv' = "stopSpin"
    /\ UNCHANGED <<threadsToPause, shouldKill, step, breakpoints, pending,
                   emuVars, stopFor, clientVars, outbox, ran, stepping>>

(* Mutant: handle_stop() returns and nobody tells the client. *)
StopDoneSilent ==
    /\ Alive /\ srv = "stopSpin" /\ threadsToPause = 0
    /\ srv' = IF stopFor = "reply" THEN "recv" ELSE "killResume"
    /\ UNCHANGED <<sharedVars, emuVars, stopFor, clientVars, outbox, history>>

(* ... and waits for the count to reach zero. The Ctrl-C path then answers.  *)
StopDone ==
    /\ Alive /\ srv = "stopSpin" /\ threadsToPause = 0
    /\ IF stopFor = "reply"
       THEN srv' = "recv" /\ outbox' = Append(outbox, "S 11")
       ELSE srv' = "killResume" /\ UNCHANGED outbox
    /\ UNCHANGED <<sharedVars, emuVars, stopFor, clientVars, history>>

Resume(isStep) ==
    /\ paused' = FALSE
    /\ ran' = 0
    /\ stepping' = isStep

(* Mutant: the packet is accepted and m_paused stays set. *)
RecvContinueForgets ==
    /\ Take("c")
    /\ UNCHANGED <<sharedVars, emuVars, srvVars, outbox, view, interrupts,
                   reconnects, history>>

(* "c", "vCont;c" and "s" *)
RecvContinue ==
    /\ Take("c")
    /\ Resume(FALSE)
    /\ UNCHANGED <<threadsToPause, shouldKill, step, breakpoints, pending,
                   emuVars, srvVars, outbox, view, interrupts, reconnects, late>>

(* "c <address>": set_program_counter from the server thread, which races    *)
(* with the emulator's own writes unless the emulator waits.                 *)
RecvContinueAt ==
    /\ Take("cAt")
    /\ Resume(FALSE)
    /\ pc' \in IF emu \in Waiting THEN {inbox.at} ELSE {inbox.at, pc}
    /\ UNCHANGED <<threadsToPause, shouldKill, step, breakpoints, pending, emu,
                   booting, spent, srvVars, outbox, view, interrupts,
                   reconnects, late>>

(* Mutant: the step counter starts one too low. *)
RecvStepShort ==
    /\ Take("step")
    /\ step' = 1
    /\ Resume(TRUE)
    /\ UNCHANGED <<threadsToPause, shouldKill, breakpoints, pending, emuVars,
                   srvVars, outbox, view, interrupts, reconnects, late>>

(* "vCont;s:1" *)
RecvStep ==
    /\ Take("step")
    /\ step' = 2
    /\ Resume(TRUE)
    /\ UNCHANGED <<threadsToPause, shouldKill, breakpoints, pending, emuVars,
                   srvVars, outbox, view, interrupts, reconnects, late>>

(* "Z": emplace_back, duplicates included. "z": the first match is erased.   *)
RecvSetBreak ==
    /\ Take("Z")
    /\ breakpoints' = [breakpoints EXCEPT ![inbox.at] = @ + 1]
    /\ UNCHANGED <<paused, threadsToPause, shouldKill, step, pending, emuVars,
                   srvVars, outbox, view, interrupts, reconnects, history>>

RecvClearBreak ==
    /\ Take("z")
    /\ breakpoints' = [breakpoints EXCEPT ![inbox.at] = IF @ > 0 THEN @ - 1 ELSE 0]
    /\ UNCHANGED <<paused, threadsToPause, shouldKill, step, pending, emuVars,
                   srvVars, outbox, view, interrupts, reconnects, history>>

(* "k": handle_kill() sets m_should_kill, ... *)
RecvKill ==
    /\ Take("k")
    /\ shouldKill' = TRUE
    /\ srv' = "killTest"
    /\ UNCHANGED <<paused, threadsToPause, step, breakpoints, pending, emuVars,
                   stopFor, outbox, view, interrupts, reconnects, history>>

(* ... stops a running guest first if the debugger owns it, ... *)
KillTest ==
    /\ Alive /\ srv = "killTest"
    /\ \/ /\ paused
          /\ srv' = "killResume"
          /\ UNCHANGED <<threadsToPause, stopFor>>
       \/ /\ ~paused /\ DebugOwned
          /\ threadsToPause' = 1
          /\ stopFor' = "kill" /\ srv' = "stopPause"
       \/ /\ ~paused /\ ~DebugOwned
          /\ srv' = "recv"
          /\ UNCHANGED <<threadsToPause, stopFor>>
    /\ UNCHANGED <<paused, shouldKill, step, breakpoints, pending, emuVars,
                   clientVars, outbox, history>>

(* ... and releases it, so that clock() sees should_kill().                  *)
KillResume ==
    /\ Alive /\ srv = "killResume"
    /\ paused' = FALSE
    /\ srv' = "recv"
    /\ UNCHANGED <<threadsToPause, shouldKill, step, breakpoints, pending,
                   emuVars, stopFor, clientVars, outbox, history>>

(* recv() fails: the socket is closed, every flag stays as it is. The next   *)
(* client asks "?" and is told "S 36", whatever the guest does.              *)
RecvClosed ==
    /\ Alive /\ srv = "recv" /\ reconnects < MaxReconnects
    /\ srv' = "accept"
    /\ inbox' = NoPacket /\ outbox' = <<>>
    /\ view' = "gone" /\ reconnects' = reconnects + 1
    /\ UNCHANGED <<sharedVars, emuVars, stopFor, interrupts, history>>

Accept ==
    /\ Alive /\ srv = "accept"
    /\ srv' = "recv" /\ view' = "halted"
    /\ UNCHANGED <<sharedVars, emuVars, stopFor, inbox, outbox, interrupts,
                   reconnects, history>>

Server ==
    \/ RecvCtrlC \/ StopPause \/ StopDone
    \/ RecvContinue \/ RecvContinueAt \/ RecvStep
    \/ RecvSetBreak \/ RecvClearBreak
    \/ RecvKill \/ KillTest \/ KillResume \/ Accept

-------------------------------------------------------------------------------
(* The client.                                                               *)

Send(op, at) ==
    /\ Alive /\ Connected
    /\ inbox = NoPacket
    /\ inbox' = [op |-> op, at |-> at]
    /\ UNCHANGED <<sharedVars, emuVars, srvVars, outbox, reconnects, history>>

Lifted(A) == Careful => \A a \in A : breakpoints[a] = 0

SendResume ==
    /\ view = "halted"
    /\ \/ Lifted({pc}) /\ Send("c", Entry)
       \/ Lifted(Code) /\ Send("step", Entry)
       \/ \E a \in Code : Lifted({a}) /\ Send("cAt", a)
    /\ view' = "running"
    /\ UNCHANGED interrupts

SendBreak ==
    /\ view = "halted"
    /\ \E a \in Code :
         \/ breakpoints[a] < MaxDuplicates /\ Send("Z", a)
         \/ breakpoints[a] > 0 /\ Send("z", a)
    /\ UNCHANGED <<view, interrupts>>

SendCtrlC ==
    /\ view = "running" /\ interrupts < MaxInterrupts
    /\ Send("ctrlC", Entry)
    /\ view' = "stopping" /\ interrupts' = interrupts + 1

SendKill ==
    /\ Kills /\ view \in {"halted", "running"}
    /\ Send("k", Entry)
    /\ view' = "killed"
    /\ UNCHANGED interrupts

(* Any stop reply makes the client believe that the guest stopped.           *)
ReadReply ==
    /\ outbox # <<>>
    /\ outbox' = Tail(outbox)
    /\ view' = IF view \in {"running", "stopping"} THEN "halted" ELSE view
    /\ UNCHANGED <<sharedVars, emuVars, srvVars, inbox, interrupts, reconnects,
                   history>>

Client == SendResume \/ SendBreak \/ SendCtrlC \/ SendKill \/ ReadReply

Next == Emulator \/ Server \/ Client \/ RecvClosed

(* Both threads are OS threads that are always scheduled again (the server's *)
(* even above normal priority), and the client reads what it is sent.        *)
Fairness == WF_vars(Emulator) /\ WF_vars(Server) /\ WF_vars(ReadReply)

Safety == Init /\ [][Next]_vars
Spec == Safety /\ Fairness
-------------------------------------------------------------------------------
(* Properties.                                                               *)

(* Every variable keeps its type.                                            *)
TypeOK ==
    /\ paused \in BOOLEAN /\ shouldKill \in BOOLEAN
    /\ threadsToPause \in 0 .. Modulus - 1
    /\ step \in 0 .. 2
    /\ breakpoints \in [Code -> Nat]
    /\ pending \in Seq(StopReport)
    /\ emu \in Places
    /\ booting \in BOOLEAN /\ spent \in BOOLEAN /\ pc \in Code
    /\ srv \in {"accept", "recv", "stopPause", "stopSpin", "killTest",
                "killResume"}
    /\ stopFor \in {"reply", "kill"}
    /\ inbox \in Packet \cup {NoPacket}
    /\ outbox \in Seq(Reply)
    /\ view \in {"halted", "running", "stopping", "killed", "gone"}
    /\ interrupts \in Nat /\ reconnects \in Nat
    /\ late \in 0 .. 2 /\ ran \in 0 .. 2 /\ stepping \in BOOLEAN

(* Once m_paused is set, and for as long as it stays set, the guest runs at  *)
(* most the one instruction that was already past its check, whatever the    *)
(* client sends and wherever the quantum of the clock ends.                  *)
PauseLatency == paused => late <= 1

(* The instruction is counted at the places that lie behind a check of       *)
(* m_paused: there, none has run yet since the flag was set.                 *)
LateInv ==
    paused => late <= 1 /\ (emu \in {"resumed", "match", "exec"} => late = 0)

(* A stop reply the emulator sends describes the stop that caused it: the    *)
(* guest still stands where should_interrupt_execution() saw it.             *)
ReportsWhereItStands ==
    emu = "report" /\ pending # <<>> => pending[Len(pending)].at = pc

(* "S 05" answers a step, and one instruction has run since the step packet. *)
StepIsOneInstruction ==
    emu = "report" /\ pending # <<>> /\ pending[Len(pending)].kind = "step"
        => stepping /\ ran = 1

(* The guest does not stop for good behind the back of a client that waits   *)
(* for news: with both threads at rest, nothing in flight and m_paused set,  *)
(* the client knows about the stop.                                          *)
NoSilentStop ==
    emu = "spin" /\ paused /\ srv = "recv" /\ inbox = NoPacket /\ outbox = <<>>
        => view \notin {"running", "stopping"}

(* While the client believes that the guest is stopped and has not asked for *)
(* anything, the guest runs no instruction: what the client reads of its     *)
(* registers and memory is one state.                                        *)
HaltedGuestStands ==
    view = "halted" /\ inbox = NoPacket /\ srv = "recv" => emu # "exec"

(* m_paused, unless it is cleared again, brings the emulator thread into     *)
(* wait(), from generated code, from the interpreter and from the clock.     *)
PauseTakesHold == paused ~> (~paused \/ emu \in Waiting \cup Stopped)

(* A breakpoint or a step that stopped the guest is reported to the client.  *)
StopIsReported == pending # <<>> ~> view = "halted"

(* A resume packet is not lost: the emulator thread leaves wait().           *)
ResumeTakesHold == inbox.op \in {"c", "cAt", "step"} ~> emu \notin Waiting

(* A session without Ctrl-C, kill and reconnects, run in generated code by a *)
(* client that lifts breakpoints before it resumes.                          *)
Session ==
    /\ UseJit /\ Careful /\ ~Kills
    /\ MaxInterrupts = 0 /\ MaxReconnects = 0

(* What the flags, the queues and the client's view have to do with one      *)
(* another in a session. The four disjuncts are the phases of one resume:    *)
(* the client decides, the guest runs, a stop is on its way, it is reported. *)
Phase ==
    \/ /\ view = "halted" \/ inbox.op \in {"c", "cAt", "step"}
       /\ paused /\ emu \in Waiting /\ pending = <<>> /\ outbox = <<>>
    \/ /\ view = "running" /\ inbox = NoPacket
       /\ ~paused /\ emu # "drop" /\ pending = <<>> /\ outbox = <<>>
    \/ /\ view = "running" /\ inbox = NoPacket
       /\ paused /\ emu \in {"drop", "clock", "enter", "report"}
       /\ Len(pending) = 1 /\ pending[1].at = pc /\ outbox = <<>>
       /\ pending[1].kind = "step" => stepping /\ ran = 1
    \/ /\ view = "running" /\ inbox = NoPacket
       /\ paused /\ emu = "spin" /\ pending = <<>> /\ Len(outbox) = 1

StepPhase ==
    /\ paused \/ ~stepping => step = 0
    /\ stepping /\ ~paused =>
         /\ \A a \in Code : breakpoints[a] = 0
         /\ \/ /\ step = 2 /\ ran = 0
               /\ emu \in Waiting \cup {"resumed", "clock", "poll", "match"}
               /\ emu \in {"poll", "match"} => ~spent
            \/ step = 1 /\ ran = 0 /\ emu \in {"exec", "finished"}
            \/ step = 1 /\ ran = 1 /\ emu \in {"poll", "match", "ret", "clock"}

(* What is on its way to the server, and when: nothing is sent to a guest    *)
(* that runs.                                                                *)
Quiet ==
    /\ interrupts = 0 /\ reconnects = 0 /\ srv = "recv" /\ ~shouldKill
    /\ view \in {"halted", "running"}
    /\ inbox.op \in {"none", "c", "cAt", "step", "Z", "z"}
    /\ inbox.op = "none" => inbox = NoPacket
    /\ inbox.op \in {"Z", "z"} => view = "halted"
    /\ inbox.op \in {"c", "cAt", "step"} => view = "running"
    /\ inbox.op = "step" => \A a \in Code : breakpoints[a] = 0
    /\ emu = "exec" => breakpoints[pc] = 0

SessionInv == Quiet /\ Phase /\ StepPhase

(* handle_stop() returns: the thread it waits for pauses, or the guest ends. *)
StopCompletes == srv = "stopSpin" ~> (srv # "stopSpin" \/ emu \in Stopped)

(* What StopResume promises.                                                 *)
Promise == INSTANCE StopResume WITH
    halted <- paused,
    at <- pc,
    breaks <- breakpoints,
    left <- IF ~stepping THEN 2 ELSE IF ran = 0 THEN 1 ELSE 0

(* The stub keeps it: from a resume to the next stop, no instruction under a *)
(* breakpoint, one instruction per step, no stop without a reason.           *)
KeepsPromise == Promise!Spec
===============================================================================

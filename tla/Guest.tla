-------------------------------- MODULE Guest --------------------------------
(*****************************************************************************)
(* What the interpreter and the emitted code know about an instruction as    *)
(* far as control flow goes: its OpFlags, and the ways it may go on.  The    *)
(* values a branch compares are left out: a conditional branch may go either *)
(* way, and where to is up to the program and its registers.                 *)
(*****************************************************************************)
CONSTANTS
    Address,        \* the addresses of instructions
    Succ,           \* Succ[a]: a + 4 at 32 bits
    Programs,       \* the programs that may be loaded
    None            \* no address: a branch that is not taken, a target of 0

Instruction == {
    "plain",        \* neither raises nor changes control
    "emitted",      \* may raise; emitted code tests and raises by itself
    "called",       \* may raise; emitted code calls its handler
    "branch",       \* OpFlags::DelayBranch
    "compact",      \* OpFlags::CompactBranch | SetNoCTI, and NAL
    "jump" }        \* OpFlags::CompactBranch without a forbidden slot

ASSUME GuestAssumption ==
    /\ Succ \in [Address -> Address]
    /\ Programs \subseteq [Address -> Instruction]
    /\ None \notin Address

(* OpFlags::ControlInstruction, OpFlags::SetNoCTI and OpFlags::Throws        *)
Control(i) == i \in {"branch", "compact", "jump"}
SetsNoCTI(i) == i \in {"branch", "compact"}
Throws(i) == i \in {"emitted", "called"}

(* Where a control instruction may send the program; None is "not taken".    *)
Ways(i) ==
    CASE i \in {"branch", "compact"} -> Address \cup {None}
      [] i = "jump"                  -> Address
      [] OTHER                       -> {None}
==============================================================================

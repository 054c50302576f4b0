-------------------------------- MODULE Slots --------------------------------
(*****************************************************************************)
(* Where emitted code keeps the registers.  The frame pointer $30 is in the  *)
(* host register r15d, every other guest register, $0 as well, in its slot   *)
(* of processor::registers_.  $30 has a slot too, which emitted code leaves  *)
(* alone: `save' brings it up to date when emitted code is left.  m is the   *)
(* machine, [slot, r15d].                                                    *)
(*****************************************************************************)
EXTENDS InstructionSet

IsREG(r) == r = fp
At(m, r) == IF IsREG(r) THEN m.r15d ELSE m.slot[r]
Put(m, r, value) ==
    IF IsREG(r) THEN [m EXCEPT !.r15d = value]
                ELSE [m EXCEPT !.slot = [@ EXCEPT ![r] = value]]
==============================================================================

----------------------------- MODULE MCJitLookup -----------------------------
(* Three pages of two instructions.  Page 0 jumps from its first instruction *)
(* into the middle of page 2 and from its second to its first; page 1 jumps  *)
(* back into page 0.                                                         *)
EXTENDS JitLookup

MCTarget ==
    [i \in Page \X Place |->
        CASE i = <<0, 0>> -> <<2, 4>>
          [] i = <<0, 1>> -> <<0, 0>>
          [] i = <<1, 0>> -> <<0, 4>>
          [] OTHER -> None]
MCEntries == {<<0, 0>>, <<1, 4>>, <<0, 4>>}
===============================================================================

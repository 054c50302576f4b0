------------------------------ MODULE MCVemix --------------------------------
(* Words of eight bits: addresses 32 to 107 may be read, and the records of  *)
(* writev lie at 48 to 79, the last of them beyond what a program may ask.   *)
EXTENDS Vemix, TLC

Places == 32 .. 107

Spans ==
    (48 :> [base |-> 80, len |-> 19]) @@      \* all readable, with a tail
    (56 :> [base |-> 88, len |-> 27]) @@      \* the third chunk faults
    (64 :> [base |-> 100, len |-> 9]) @@      \* the last byte alone faults
    (72 :> [base |-> 0, len |-> 0])           \* nothing at all

Plain(name, a) == [call |-> name, flagged |-> FALSE, a |-> a, b |-> 0, c |-> 0, sp |-> 100]
Stacks == {60, 100}

Asks ==
    {[Plain("brk", a) EXCEPT !.flagged = f, !.sp = s] :
        a \in {0, 38, 61, 101, 254}, f \in BOOLEAN, s \in Stacks} \cup
    {[Plain("sbrk", Wrap(a)) EXCEPT !.flagged = f, !.sp = s] :
        a \in {0, 4, 21, -1, -9}, f \in BOOLEAN, s \in Stacks} \cup
    {[Plain("writev", fd) EXCEPT !.b = b, !.c = c] :
        fd \in {1, 3}, b \in {48, 56, 64, 72}, c \in {0, 1, 2, 3}} \cup
    {Plain("set_tid_address", a) : a \in {48, 105}} \cup
    {Plain("set_thread_area", 200)} \cup
    {Plain(name, a) : name \in {"exit", "exit_group"}, a \in {0, 1, 200}} \cup
    {Plain(name, 0) :
        name \in Missing \cup Ignored \cup Exceptions \cup {"gettid", "fork"}}
==============================================================================

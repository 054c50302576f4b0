--------------------------- MODULE MCPacketStream ----------------------------
(* Commands with a "+" and a "-" in them, one that resumes, one longer than  *)
(* the buffer takes in pieces, and one of each way to answer.  The bodies    *)
(* are shortened; their checksums are those of what is sent.                 *)
EXTENDS PacketStream

MCBody ==
    [c \in {[op |-> "qSupported", arg |-> <<>>], [op |-> "c", arg |-> <<>>],
            [op |-> "Z", arg |-> <<1>>], [op |-> "Hg", arg |-> <<-1>>],
            [op |-> "QStartNoAckMode", arg |-> <<>>], [op |-> "p", arg |-> <<65>>],
            [op |-> "m", arg |-> <<2, 3>>], [op |-> "k", arg |-> <<>>],
            [op |-> "x", arg |-> <<>>]} |->
        CASE c.op = "qSupported" -> <<113, 43>>
          [] c.op = "c" -> <<99>>
          [] c.op = "Z" -> <<90, 49>>
          [] c.op = "Hg" -> <<72, 45, 49>>
          [] c.op = "QStartNoAckMode" -> <<81>>
          [] c.op = "p" -> <<112, 52, 49>>
          [] c.op = "m" -> <<109, 50, 44, 51>>
          [] c.op = "k" -> <<107>>
          [] c.op = "x" -> <<120, 50, 44, 51, 48, 48, 48, 48, 48, 48, 48>>]
MCCommand == DOMAIN MCBody

(* The bodies of this run are of the kind the theorems are about.            *)
ASSUME BodiesArePlain == PlainBodies
==============================================================================

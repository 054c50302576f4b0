---------------------------- MODULE PacketStream -----------------------------
(*****************************************************************************)
(* The byte stream between a client and the server thread of debugger.cpp:   *)
(* what recv() makes of it, framing, checksums, acknowledgements, and what   *)
(* handle_packet() does with a packet.  TCP hands the bytes over in order    *)
(* and cut anywhere.  The client sends a packet again when it is told to,    *)
(* and one packet at a time; the emulator thread reports stops on the same   *)
(* socket.  How the two threads stop each other is in Debugger.              *)
(*****************************************************************************)
EXTENDS Integers, SequencesExt

CONSTANTS
    Command,        \* what the client may ask: [op, arg], arg a sequence
    Body,           \* Body[c]: its characters
    Readable,       \* the guest addresses mem_fetch_debugger() finds
    ChunkSize,      \* the size of temp_buffer, 512
    MaxBufferSize,  \* max_buffer_size, 8192
    MaxCommands,    \* bound: commands the client asks
    MaxResends,     \* bound: how often it sends one of them again
    MaxInterrupts,  \* bound: Ctrl-C it sends
    MaxStops        \* bound: stops the emulator thread reports

ASSUME PacketStreamAssumption ==
    /\ ChunkSize \in Nat \ {0} /\ MaxBufferSize \in Nat

VARIABLES
    session,        \* the fields of debugger that packets set
    wire,           \* bytes on their way to the server
    chunk,          \* those of the last recv() not looked at yet
    buffer,         \* the bytes since the last packet
    inPacket,       \* in_packet
    remaining,      \* remaining_checksum
    response,       \* of handle_packet(), until it is sent
    server,         \* where the server thread is, "accept" when closed
    outbox,         \* what was sent to the client
    client,         \* what the client waits for
    acks,           \* does the client acknowledge
    halted,         \* does the client take the guest to stand
    resends, interrupts, stops,
    issued,         \* history: the commands the client asked, in order
    handled,        \* history: those handle_packet() carried out
    answered        \* history: those the client has an answer to

framing == <<chunk, buffer, inPacket, remaining>>
bounds == <<resends, interrupts, stops>>
history == <<issued, handled, answered>>
vars == <<session, wire, framing, response, server, outbox, client, acks, halted,
          bounds, history>>

Dollar == 36  Hash == 35  Plus == 43  Minus == 45  CtrlC == 3

(* What the bytes add up to, counted modulo 256.                             *)
Sum(s) ==
    LET sum[i \in 0 .. Len(s)] ==
            IF i = 0 THEN 0 ELSE (sum[i - 1] + s[i]) % 256
    IN  sum[Len(s)]
NibbleToChar(n) == IF n < 10 THEN 48 + n ELSE 97 + (n - 10)
ChecksumToChars(sum) == <<NibbleToChar(sum \div 16), NibbleToChar(sum % 16)>>
AssemblePacket(payload) ==
    <<Dollar>> \o payload \o <<Hash>> \o ChecksumToChars(Sum(payload))

(* Mutant: whatever arrives is taken.                                        *)
TestNothing(packet) == TRUE

(* The last two bytes are the checksum of all others but the first and "#".  *)
TestChecksum(packet) ==
    LET n == Len(packet)
    IN  SubSeq(packet, n - 1, n) = ChecksumToChars(Sum(SubSeq(packet, 2, n - 3)))

(* What a client sends are bytes.                                            *)
ASSUME BodyAssumption == \A c \in Command : Body[c] \in Seq(0 .. 255)

(* Where in the first k bytes of a body c stands.                            *)
Places(body, k, c) == {i \in 1 .. k : body[i] = c}

(* So few signs that dropping some of them never makes up for noise, or for  *)
(* a multiple of 256: recv() drops signs also inside of a packet.            *)
FewSigns(body) ==
    /\ Cardinality(Places(body, Len(body), Plus)) <= 20
    /\ Cardinality(Places(body, Len(body), Minus)) <= 12

(* Bodies as the commands have them: none contains a "#" or many signs, and  *)
(* no two commands are written the same.                                     *)
PlainBodies ==
    /\ \A c \in Command :
            /\ FewSigns(Body[c])
            /\ \A i \in 1 .. Len(Body[c]) : Body[c][i] # Hash
    /\ \A c, d \in Command : Body[c] = Body[d] => c = d

Payload(packet) ==
    LET hash == SelectInSeq(packet, LAMBDA c : c = Hash)
    IN  SubSeq(packet, 2, hash - 1)

-------------------------------------------------------------------------------
(* handle_packet(), command by command                                       *)

Unset == -1         \* uint32(-1)

(* Constant strings.  "VCont?" is not "vCont?", and both are answered.       *)
Capabilities == {"qHostInfo", "qSupported", "VCont?", "vCont?", "qProcessInfo"}

Queried(s, c) ==
    CASE c.op \in Capabilities -> <<s, <<c.op>>>>
      [] c.op = "QStartNoAckMode" -> <<[s EXCEPT !.ackMode = FALSE], <<"OK">>>>
      [] c.op = "qC" ->
            LET active == IF s.active = Unset THEN 1 ELSE s.active
            IN  <<[s EXCEPT !.active = active], <<"QC", active>>>>
      [] c.op = "qfThreadInfo" -> <<s, <<"m", 1>>>>
      [] c.op = "qsThreadInfo" -> <<s, <<"l">>>>
      [] c.op = "?" -> <<s, <<"S 36">>>>
      [] c.op = "k" -> <<[s EXCEPT !.killed = TRUE, !.paused = FALSE], <<"OK">>>>

(* The set, the bits and the offset of a register.                           *)
RegisterInfo(number) ==
    CASE number \in 0 .. 31 -> <<"general", 32, number * 4>>
      [] number \in 32 .. 63 -> <<"float", 64, 32 * 4 + number * 8>>
      [] number = 64 -> <<"pc", 32>>
      [] OTHER -> <<"E45">>

(* Register 0 to 31, f0 to f31, pc; the buffer is sent unset behind them.    *)
Values(number) == IF number <= 64 THEN {<<"value", number>>}
                  ELSE {<<>>, <<"unset">>}

(* How much of a memory request lies before the first unreadable address.    *)
Read(address, length) ==
    LET n == CHOOSE k \in 0 .. length :
                /\ \A i \in 0 .. k - 1 : address + i \in Readable
                /\ k < length => address + k \notin Readable
    IN  IF n = 0 THEN <<"E 00">> ELSE <<"bytes", n>>

Controlled(s, c) ==
    CASE c.op \in {"c", "s", "vCont;c"} -> [s EXCEPT !.paused = FALSE]
      [] c.op = "vCont;s" -> [s EXCEPT !.paused = FALSE, !.step = 2]
      [] c.op = "Z" -> [s EXCEPT !.breakpoints = Append(@, c.arg)]
      [] c.op = "z" -> [s EXCEPT !.breakpoints = RemoveFirst(@, c.arg)]
      [] c.op = "Hc" -> [s EXCEPT !.nextSc = c.arg[1]]
      [] c.op = "H" -> [s EXCEPT !.nextG = c.arg[1]]
      [] c.op \in {"qSymbol", "vCont;t"} -> s

Queries == Capabilities \cup
    {"QStartNoAckMode", "qC", "qfThreadInfo", "qsThreadInfo", "?", "k"}
Controls == {"c", "s", "vCont;c", "vCont;s", "vCont;t", "Z", "z", "Hc", "H",
             "qSymbol"}

(* What a packet makes of the session, and its answer; none to any other.    *)
Answers(s, c) ==
    CASE c.op \in Queries -> {Queried(s, c)}
      [] c.op = "qRegisterInfo" -> {<<s, RegisterInfo(c.arg[1])>>}
      [] c.op = "Hg" -> {<<[s EXCEPT !.active = c.arg[1]], <<"OK">>>>}
      [] c.op = "p" -> {<<s, v>> : v \in Values(c.arg[1])}
      [] c.op = "m" -> {<<s, Read(c.arg[1], c.arg[2])>>}
      [] c.op \in Controls -> {<<Controlled(s, c), <<"OK">>>>}
      [] OTHER -> {<<s, <<>>>>}

(* What the bytes of a packet say.                                           *)
Asked(packet) ==
    LET said == {c \in Command : Body[c] = Payload(packet)}
    IN  IF said = {} THEN [op |-> "unknown", arg |-> <<>>] ELSE CHOOSE c \in said : TRUE

-------------------------------------------------------------------------------
Message(kind, of, text) == [kind |-> kind, of |-> of, text |-> text]
Nothing == [op |-> "nothing", arg |-> <<>>]
Sends(kind) == outbox' = Append(outbox, Message(kind, Nothing, <<>>))

Idle(at) ==
    /\ chunk' = <<>> /\ buffer' = <<>> /\ inPacket' = FALSE /\ remaining' = 0
    /\ response' = <<>> /\ server' = at

(* debugger::debugger(): accept() and the locals of a connection.            *)
Init ==
    /\ session = [ackMode |-> TRUE, active |-> Unset, nextSc |-> Unset,
                  nextG |-> Unset, breakpoints |-> <<>>, step |-> 0,
                  paused |-> TRUE, killed |-> FALSE]
    /\ wire = <<>> /\ chunk = <<>> /\ buffer = <<>>
    /\ inPacket = FALSE /\ remaining = 0 /\ response = <<>>
    /\ server = "recv" /\ outbox = <<>>
    /\ client = "idle" /\ acks = TRUE /\ halted = TRUE
    /\ resends = 0 /\ interrupts = 0 /\ stops = 0
    /\ issued = <<>> /\ handled = <<>> /\ answered = <<>>

(* The acknowledgement in front of what came is taken off, wherever in a     *)
(* packet that begins.                                                       *)
StripAck(s) == IF s[1] \in {Plus, Minus} THEN Tail(s) ELSE s

(* Mutant: nobody looks at the size of the buffer.                           *)
FullNever == FALSE

Full == Len(buffer) >= MaxBufferSize

(* recv(), with any number of the bytes under way.                           *)
Recv(n) ==
    /\ server = "recv" /\ n <= Len(wire)
    /\ wire' = SubSeq(wire, n + 1, Len(wire))
    /\ LET got == StripAck(SubSeq(wire, 1, n))
           interrupt == got # <<>> /\ ~inPacket /\ got[1] = CtrlC
           junk == got # <<>> /\ ~inPacket /\ got[1] \notin {CtrlC, Dollar}
       IN  \/ /\ got = <<>>
              /\ UNCHANGED <<framing, response, server>>
           \/ /\ interrupt
              /\ server' = "stop" /\ chunk' = Tail(got)
              /\ UNCHANGED <<buffer, inPacket, remaining, response>>
           \/ /\ got # <<>> /\ ~interrupt
              /\ junk \/ Full
              /\ Idle("closed")
           \/ /\ got # <<>> /\ ~interrupt /\ ~junk /\ ~Full
              /\ server' = "bytes" /\ chunk' = got
              /\ UNCHANGED <<buffer, inPacket, remaining, response>>
    /\ UNCHANGED <<session, outbox, client, acks, halted, bounds, history>>

After(rest) == IF rest = <<>> THEN "recv" ELSE "bytes"

(* handle_stop() is back: the guest stands.  The rest of the chunk follows.  *)
Stop ==
    /\ server = "stop"
    /\ session' = [session EXCEPT !.paused = TRUE]
    /\ Sends("stop")
    /\ IF Full
       THEN Idle("closed")
       ELSE server' = After(chunk) /\ UNCHANGED <<framing, response>>
    /\ UNCHANGED <<wire, client, acks, halted, bounds, history>>

(* Mutant: a packet that is not what its checksum says is dropped.           *)
RefusedSilently ==
    /\ server' = After(chunk')
    /\ UNCHANGED <<session, response, handled, outbox>>

(* Mutant: a refused packet is answered as well.                             *)
RefusedAndAnswered ==
    /\ server' = "answer" /\ response' = <<Nothing, <<>>>>
    /\ IF session.ackMode THEN Sends("nak") ELSE UNCHANGED outbox
    /\ UNCHANGED <<session, handled>>

Refused ==
    /\ server' = After(chunk')
    /\ IF session.ackMode THEN Sends("nak") ELSE UNCHANGED outbox
    /\ UNCHANGED <<session, response, handled>>

(* The packet is complete: handle_packet(), and how its answer is sent is    *)
(* known before.                                                             *)
Accepted(packet) ==
    \E a \in Answers(session, Asked(packet)) :
        /\ session' = a[1]
        /\ response' = <<Asked(packet), a[2]>>
        /\ handled' = Append(handled, Asked(packet))
        /\ server' = IF session.ackMode THEN "plus" ELSE "answer"
        /\ UNCHANGED outbox

(* Mutant: the bytes of a packet that was refused stay in the buffer.        *)
Keeps(packet) == IF TestChecksum(packet) THEN <<>> ELSE packet

Cleared(packet) == <<>>

(* One round of the loop over the bytes of a chunk.                          *)
Byte ==
    /\ server = "bytes"
    /\ chunk' = Tail(chunk)
    /\ LET c == Head(chunk)
           opens == c = Dollar /\ ~inPacket
           closes == c = Hash /\ inPacket
           counts == ~opens /\ ~closes /\ ~inPacket /\ remaining > 0
           packet == Append(buffer, c)
       IN  /\ inPacket' = (opens \/ (inPacket /\ ~closes))
           /\ remaining' =
                 IF closes THEN 2 ELSE IF counts THEN remaining - 1 ELSE remaining
           /\ IF counts /\ remaining' = 0
              THEN /\ buffer' = Cleared(packet)
                   /\ IF TestChecksum(packet) THEN Accepted(packet) ELSE Refused
              ELSE /\ buffer' = packet
                   /\ server' = After(chunk')
                   /\ UNCHANGED <<session, response, handled, outbox>>
    /\ UNCHANGED <<wire, client, acks, halted, bounds, issued, answered>>

(* The acknowledgement and the answer are two calls of send().               *)
SendPlus ==
    /\ server = "plus"
    /\ server' = "answer"
    /\ Sends("ack")
    /\ UNCHANGED <<session, wire, framing, response, client, acks, halted, bounds,
                   history>>

SendAnswer ==
    /\ server = "answer"
    /\ server' = After(chunk)
    /\ outbox' = Append(outbox, Message("answer", response[1], response[2]))
    /\ response' = <<>>
    /\ UNCHANGED <<session, wire, framing, client, acks, halted, bounds, history>>

(* recv() <= 0 *)
Disconnected ==
    /\ server = "recv" /\ client = "gone"
    /\ Idle("closed")
    /\ UNCHANGED <<session, wire, outbox, client, acks, halted, bounds, history>>

Server ==
    \/ \E n \in 1 .. ChunkSize : Recv(n)
    \/ Stop \/ Byte \/ SendPlus \/ SendAnswer \/ Disconnected

(* wait() reports a stop of the emulator thread, which a kill ends.          *)
Report ==
    /\ ~session.paused /\ ~session.killed /\ server \notin {"closed", "stop"}
    /\ stops < MaxStops
    /\ session' = [session EXCEPT !.paused = TRUE]
    /\ stops' = stops + 1
    /\ Sends("stop")
    /\ UNCHANGED <<wire, framing, response, server, client, acks, halted, resends,
                   interrupts, history>>

Exit ==
    /\ session.killed /\ server # "closed"
    /\ Idle("closed")
    /\ UNCHANGED <<session, wire, outbox, client, acks, halted, bounds, history>>

-------------------------------------------------------------------------------
(* The client                                                                *)

Resumes(c) == c.op \in {"c", "s", "vCont;c", "vCont;s"}

Ask(c) ==
    /\ client = "idle" /\ server # "closed" /\ Len(issued) < MaxCommands
    /\ wire' = wire \o AssemblePacket(Body[c])
    /\ issued' = Append(issued, c)
    /\ client' = IF acks THEN "ack" ELSE "answer"
    /\ halted' = ~Resumes(c)
    /\ resends' = 0
    /\ UNCHANGED <<session, framing, response, server, outbox, acks, interrupts,
                   stops, handled, answered>>

Interrupt ==
    /\ client = "idle" /\ ~halted /\ server # "closed"
    /\ interrupts < MaxInterrupts
    /\ wire' = Append(wire, CtrlC)
    /\ client' = "stopping"
    /\ interrupts' = interrupts + 1
    /\ UNCHANGED <<session, framing, response, server, outbox, acks, halted,
                   resends, stops, history>>

(* Every answer and every report is acknowledged, that to QStartNoAckMode    *)
(* for the last time.                                                        *)
Acknowledges == wire' = IF acks THEN Append(wire, Plus) ELSE wire

ReadAck ==
    /\ outbox # <<>> /\ Head(outbox).kind = "ack"
    /\ client' = IF client = "ack" THEN "answer" ELSE client
    /\ UNCHANGED <<wire, acks, halted, resends, answered>>

ReadNak ==
    /\ outbox # <<>> /\ Head(outbox).kind = "nak"
    /\ IF client # "ack" THEN UNCHANGED <<client, wire, resends>>
       ELSE IF resends = MaxResends
            THEN client' = "gone" /\ UNCHANGED <<wire, resends>>
       ELSE /\ wire' = wire \o AssemblePacket(Body[Last(issued)])
            /\ resends' = resends + 1
            /\ UNCHANGED client
    /\ UNCHANGED <<acks, halted, answered>>

ReadAnswer ==
    /\ outbox # <<>> /\ Head(outbox).kind = "answer"
    /\ Acknowledges
    /\ client' = IF client = "answer" THEN "idle" ELSE client
    /\ acks' = (acks /\ Head(outbox).of.op # "QStartNoAckMode")
    /\ answered' = Append(answered, Head(outbox).of)
    /\ UNCHANGED <<halted, resends>>

ReadStop ==
    /\ outbox # <<>> /\ Head(outbox).kind = "stop"
    /\ Acknowledges
    /\ client' = IF client = "stopping" THEN "idle" ELSE client
    /\ halted' = TRUE
    /\ UNCHANGED <<acks, resends, answered>>

Receive ==
    /\ ReadAck \/ ReadNak \/ ReadAnswer \/ ReadStop
    /\ outbox' = Tail(outbox)
    /\ UNCHANGED <<session, framing, response, server, interrupts, stops, issued,
                   handled>>

SeesClosed ==
    /\ server = "closed" /\ outbox = <<>> /\ client # "gone"
    /\ client' = "gone"
    /\ UNCHANGED <<session, wire, framing, response, server, outbox, acks, halted,
                   bounds, history>>

Next ==
    \/ Server \/ Report \/ Exit
    \/ \E c \in Command : Ask(c)
    \/ Interrupt \/ Receive \/ SeesClosed

(* The server thread and the network always go on, and a client reads what   *)
(* it is sent.                                                               *)
Spec == Init /\ [][Next]_vars /\ WF_vars(Server) /\ WF_vars(Receive) /\ WF_vars(SeesClosed)

-------------------------------------------------------------------------------
(* The buffer never grows past its limit and one recv().                     *)
TypeOK ==
    /\ session.ackMode \in BOOLEAN /\ session.paused \in BOOLEAN
    /\ chunk \in Seq(0 .. 255) /\ Len(chunk) <= ChunkSize
    /\ buffer \in Seq(0 .. 255) /\ Len(buffer) < MaxBufferSize + ChunkSize
    /\ inPacket \in BOOLEAN /\ remaining \in 0 .. 2
    /\ server \in {"recv", "bytes", "stop", "plus", "answer", "closed"}
    /\ client \in {"idle", "ack", "answer", "stopping", "gone"}

(* All of it in order, or all but the last.                                  *)
KeepsUpWith(done, asked) == done = asked \/ (asked # <<>> /\ done = Front(asked))

(* However TCP cuts the stream, and however often a packet is refused and    *)
(* sent again, the stub carries out each command of the client once, in      *)
(* order, and nothing the client did not ask.                                *)
ExactlyOnce == KeepsUpWith(handled, issued)

(* The answer a client waits for is that to its last command.                *)
AnswersFit == KeepsUpWith(answered, issued)

(* handle_packet() is given nothing but whole packets: between two of them   *)
(* no opened packet is left in the buffer, to be taken for part of the next. *)
FramingRecovers ==
    server = "recv" /\ ~inPacket /\ remaining = 0 => ~Contains(buffer, Dollar)

(* A client that acknowledges is never left without an answer to a packet:   *)
(* it is taken, refused, or the connection ends.                             *)
NeverSilent == client = "ack" ~> client # "ack"
==============================================================================

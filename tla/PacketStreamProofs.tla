-------------------------- MODULE PacketStreamProofs --------------------------
(*****************************************************************************)
(* What the connection keeps, for every size of the two buffers, every       *)
(* command and every way to cut the stream.  IInv is what the loop over      *)
(* recv() keeps: the buffer is bounded, and no opened packet is left in it   *)
(* between two packets.  TurnInv says whose turn it is, and with it that     *)
(* every command is carried out once and every answer is the right one.      *)
(*****************************************************************************)
EXTENDS PacketStream, FiniteSetTheorems, WellFoundedInduction, TLAPS

Octet == 0 .. 255

(* The fields of the session that the loop reads are there and keep their    *)
(* types, whatever a packet does to the others.                              *)
Typed(s) ==
    /\ {"ackMode", "active", "nextSc", "nextG", "breakpoints", "step", "paused",
        "killed"} = DOMAIN s
    /\ s.ackMode \in BOOLEAN /\ s.paused \in BOOLEAN

(* The client has asked for what it waits for.                               *)
ClientInv ==
    /\ wire \in Seq(Octet) /\ issued \in Seq(Command)
    /\ client = "ack" => issued # <<>>

(* The bytes that are still to come fit, since the buffer was below its      *)
(* limit when they were read.                                                *)
SpaceInv ==
    /\ server \in {"bytes", "plus", "answer"} =>
         Len(buffer) + Len(chunk) < MaxBufferSize + ChunkSize
    /\ server = "bytes" => chunk # <<>>

(* Outside of a packet and its checksum no "$" is in the buffer.             *)
FrameInv == ~inPacket /\ remaining = 0 => ~Contains(buffer, Dollar)

IInv == TypeOK /\ Typed(session) /\ ClientInv /\ SpaceInv /\ FrameInv

LEMMA Sizes == ChunkSize \in Nat /\ ChunkSize > 0 /\ MaxBufferSize \in Nat
BY PacketStreamAssumption

-------------------------------------------------------------------------------
(* Sequences                                                                 *)

LEMMA AppendFacts ==
    ASSUME NEW S, NEW s \in Seq(S), NEW e \in S
    PROVE  Append(s, e) \in Seq(S) /\ Len(Append(s, e)) = Len(s) + 1
OBVIOUS

LEMMA TailFacts ==
    ASSUME NEW S, NEW s \in Seq(S), s # <<>>
    PROVE  /\ Tail(s) \in Seq(S) /\ Len(Tail(s)) = Len(s) - 1
           /\ Head(s) \in S /\ Len(s) > 0
OBVIOUS

LEMMA EmptyFacts ==
    ASSUME NEW S
    PROVE  <<>> \in Seq(S) /\ Len(<<>>) = 0
OBVIOUS

LEMMA PrefixFacts ==
    ASSUME NEW S, NEW s \in Seq(S), NEW n \in Nat, n <= Len(s)
    PROVE  SubSeq(s, 1, n) \in Seq(S) /\ Len(SubSeq(s, 1, n)) = n
<1>1. \A i \in 1 .. n : s[i] \in S
  OBVIOUS
<1>2. QED
  BY <1>1

LEMMA RestFacts ==
    ASSUME NEW S, NEW s \in Seq(S), NEW n \in Nat, n <= Len(s)
    PROVE  SubSeq(s, n + 1, Len(s)) \in Seq(S)
<1>1. \A i \in n + 1 .. Len(s) : s[i] \in S
  OBVIOUS
<1>2. QED
  BY <1>1

LEMMA NothingContains == ASSUME NEW d PROVE ~Contains(<<>>, d)
BY DEF Contains

LEMMA AppendContains ==
    ASSUME NEW S, NEW s \in Seq(S), NEW d, ~Contains(s, d), NEW e \in S, e # d
    PROVE  ~Contains(Append(s, e), d)
BY DEF Contains

(* What is left of a chunk once its acknowledgement is taken off.            *)
LEMMA StripFacts ==
    ASSUME NEW s \in Seq(Octet), s # <<>>
    PROVE  StripAck(s) \in Seq(Octet) /\ Len(StripAck(s)) <= Len(s)
<1>1. /\ Tail(s) \in Seq(Octet) /\ Len(Tail(s)) = Len(s) - 1
      /\ Len(s) \in Nat
  BY TailFacts
<1>2. QED
  BY <1>1 DEF StripAck

-------------------------------------------------------------------------------
(* Sums                                                                      *)

(* Induction over the numbers of a set, without an operator as a parameter.  *)
LEMMA LeastNumber ==
    ASSUME NEW S \in SUBSET Nat, S # {}
    PROVE  \E m \in S : \A k \in S : m <= k
<1> DEFINE R == OpToRel(<, Nat)
<1>1. IsWellFoundedOn(R, Nat)
  BY NatLessThanWellFounded
<1>2. \A x, y \in Nat : x < y => <<x, y>> \in R
  BY DEF OpToRel
<1> HIDE DEF R
<1>3. PICK m \in S : \A y \in S : <<y, m>> \notin R
  BY <1>1, WFMin
<1>4. ASSUME NEW k \in S PROVE m <= k
  <2>1. k \in Nat /\ m \in Nat /\ ~(k < m)
    BY <1>2, <1>3
  <2> QED
    BY <2>1
<1> QED
  BY <1>4

LEMMA SetInduction ==
    ASSUME NEW T, 0 \in T, \A n \in Nat : n \in T => n + 1 \in T
    PROVE  Nat \subseteq T
<1> SUFFICES ASSUME Nat \ T # {} PROVE FALSE
  OBVIOUS
<1>1. PICK m \in Nat \ T : \A k \in Nat \ T : m <= k
  BY LeastNumber
<1>2. m # 0 /\ m - 1 \in Nat
  BY <1>1
<1>3. m - 1 \in T
  BY <1>1, <1>2
<1>4. (m - 1) + 1 \in T
  BY <1>2, <1>3
<1> QED
  BY <1>1, <1>4

(* The sums of the first bytes, up to the last of which Sum(s) counts.       *)
Sums(s) == CHOOSE sum : sum = [i \in 0 .. Len(s) |->
                IF i = 0 THEN 0 ELSE (sum[i - 1] + s[i]) % 256]

(* Sums stay in a byte.                                                      *)
LEMMA Wraps ==
    ASSUME NEW x \in Octet, NEW y \in Octet
    PROVE  (x + y) % 256 \in Octet
<1>1. x \in Int /\ y \in Int
  BY DEF Octet
<1>2. \A z \in Int : z % 256 \in 0 .. 255
  OBVIOUS
<1> QED
  BY <1>1, <1>2 DEF Octet

LEMMA SumIsLast == ASSUME NEW s PROVE Sum(s) = Sums(s)[Len(s)]
BY DEF Sum, Sums

(* The function that Sum defines exists, and each sum follows from the last. *)
LEMMA SumsAre ==
    ASSUME NEW s \in Seq(Octet)
    PROVE  /\ Sums(s)[0] = 0
           /\ \A i \in 1 .. Len(s) : Sums(s)[i] = (Sums(s)[i - 1] + s[i]) % 256
           /\ \A i \in 0 .. Len(s) : Sums(s)[i] \in Octet
<1> DEFINE is(f, n) == \A i \in 0 .. n : f[i] = IF i = 0 THEN 0 ELSE (f[i - 1] + s[i]) % 256
           T == {n \in Nat : n <= Len(s) => \E f \in [0 .. n -> Octet] : is(f, n)}
<1>0. Len(s) \in Nat /\ \A i \in 1 .. Len(s) : s[i] \in Octet
  OBVIOUS
<1>1. 0 \in T
  <2> DEFINE f == [i \in 0 .. 0 |-> 0]
  <2>1. f \in [0 .. 0 -> Octet] /\ is(f, 0)
    BY DEF Octet
  <2> QED
    BY <2>1
<1>2. ASSUME NEW n \in Nat, n \in T PROVE n + 1 \in T
  <2> SUFFICES ASSUME n + 1 <= Len(s) PROVE \E f \in [0 .. n + 1 -> Octet] : is(f, n + 1)
    OBVIOUS
  <2>1. PICK f \in [0 .. n -> Octet] : is(f, n)
    BY <1>0, <1>2
  <2> DEFINE next == (f[n] + s[n + 1]) % 256
             g == [i \in 0 .. n + 1 |-> IF i = n + 1 THEN next ELSE f[i]]
  <2>2. f[n] \in Octet /\ s[n + 1] \in Octet
    BY <1>0
  <2>3. next \in Octet
    BY <2>2, Wraps
  <2>4. g \in [0 .. n + 1 -> Octet]
    BY <2>3
  <2>5. g[n + 1] = (g[n] + s[n + 1]) % 256
    OBVIOUS
  <2>6. \A i \in 0 .. n : g[i] = IF i = 0 THEN 0 ELSE (g[i - 1] + s[i]) % 256
    BY <2>1
  <2>7. is(g, n + 1)
    <3> HIDE DEF g, next
    <3> QED
      BY <2>5, <2>6
  <2> QED
    BY <2>4, <2>7
<1>3. PICK f \in [0 .. Len(s) -> Octet] : is(f, Len(s))
  <2> HIDE DEF T
  <2>1. Len(s) \in T
    BY <1>0, <1>1, <1>2, SetInduction
  <2> QED
    BY <1>0, <2>1 DEF T
<1>4. f = [i \in 0 .. Len(s) |-> IF i = 0 THEN 0 ELSE (f[i - 1] + s[i]) % 256]
  BY <1>3
<1> DEFINE h == Sums(s)
<1>5. h = [i \in 0 .. Len(s) |-> IF i = 0 THEN 0 ELSE (h[i - 1] + s[i]) % 256]
  BY <1>4 DEF Sums
<1> HIDE DEF h
<1>6. h[0] = 0 /\ \A i \in 1 .. Len(s) : h[i] = (h[i - 1] + s[i]) % 256
  BY <1>0, <1>5
<1> DEFINE E == {n \in Nat : n <= Len(s) => h[n] \in Octet}
<1>7. 0 \in E
  BY <1>6 DEF Octet
<1>8. ASSUME NEW n \in Nat, n \in E PROVE n + 1 \in E
  <2> SUFFICES ASSUME n + 1 <= Len(s) PROVE h[n + 1] \in Octet
    OBVIOUS
  <2>1. h[n] \in Octet /\ s[n + 1] \in Octet /\ h[n + 1] = (h[n] + s[n + 1]) % 256
    BY <1>0, <1>6, <1>8
  <2> QED
    BY <2>1, Wraps
<1>9. \A i \in 0 .. Len(s) : h[i] \in Octet
  <2> HIDE DEF E
  <2>1. Nat \subseteq E
    BY <1>7, <1>8, SetInduction
  <2> QED
    BY <1>0, <2>1 DEF E
<1> QED
  BY <1>6, <1>9 DEF h

(* Sequences that begin alike add up alike.                                  *)
LEMMA SumsOfPrefix ==
    ASSUME NEW s \in Seq(Octet), NEW t \in Seq(Octet), NEW k \in Nat,
           k <= Len(s), k <= Len(t), \A i \in 1 .. k : s[i] = t[i]
    PROVE  Sums(s)[k] = Sums(t)[k]
<1> DEFINE T == {n \in Nat : n <= k => Sums(s)[n] = Sums(t)[n]}
<1>1. 0 \in T
  BY SumsAre
<1>2. ASSUME NEW n \in Nat, n \in T PROVE n + 1 \in T
  <2> SUFFICES ASSUME n + 1 <= k PROVE Sums(s)[n + 1] = Sums(t)[n + 1]
    OBVIOUS
  <2>1. n + 1 \in 1 .. Len(s) /\ n + 1 \in 1 .. Len(t) /\ s[n + 1] = t[n + 1]
    OBVIOUS
  <2>2. Sums(s)[n] = Sums(t)[n]
    BY <1>2
  <2>3. /\ Sums(s)[n + 1] = (Sums(s)[n] + s[n + 1]) % 256
        /\ Sums(t)[n + 1] = (Sums(t)[n] + t[n + 1]) % 256
    BY <2>1, SumsAre
  <2> QED
    BY <2>1, <2>2, <2>3
<1> HIDE DEF T
<1>3. k \in T
  BY <1>1, <1>2, SetInduction
<1> QED
  BY <1>3 DEF T

(* A byte is added to the sum of those before it.                            *)
LEMMA SumFacts ==
    ASSUME NEW s \in Seq(Octet)
    PROVE  /\ Sum(s) \in Octet
           /\ s = <<>> => Sum(s) = 0
           /\ \A c \in Octet : Sum(Append(s, c)) = (Sum(s) + c) % 256
<1>1. Len(s) \in Nat /\ Sum(s) = Sums(s)[Len(s)]
  BY SumIsLast
<1>2. Sum(s) \in Octet /\ (s = <<>> => Sum(s) = 0)
  BY <1>1, SumsAre
<1>3. ASSUME NEW c \in Octet PROVE Sum(Append(s, c)) = (Sum(s) + c) % 256
  <2> DEFINE t == Append(s, c)
  <2>1. /\ t \in Seq(Octet) /\ Len(t) = Len(s) + 1 /\ t[Len(s) + 1] = c
        /\ \A i \in 1 .. Len(s) : s[i] = t[i]
    OBVIOUS
  <2> HIDE DEF t
  <2>2. Sums(s)[Len(s)] = Sums(t)[Len(s)]
    BY <1>1, <2>1, SumsOfPrefix
  <2>3. Sums(t)[Len(s) + 1] = (Sums(t)[(Len(s) + 1) - 1] + t[Len(s) + 1]) % 256
    BY <1>1, <2>1, SumsAre
  <2>4. Sum(t) = Sums(t)[Len(s) + 1]
    BY <2>1, SumIsLast
  <2>5. (Len(s) + 1) - 1 = Len(s)
    BY <1>1
  <2> QED
    BY <1>1, <2>1, <2>2, <2>3, <2>4, <2>5 DEF t
<1> QED
  BY <1>2, <1>3

-------------------------------------------------------------------------------
(* Packets                                                                   *)

(* The characters of a checksum.                                             *)
HexDigits == (48 .. 57) \cup (97 .. 102)

(* Two digits that are written the same are the same.                        *)
LEMMA NibbleIs ==
    ASSUME NEW n \in 0 .. 15
    PROVE  /\ NibbleToChar(n) \in HexDigits
           /\ \A m \in 0 .. 15 : NibbleToChar(m) = NibbleToChar(n) => m = n
BY DEF NibbleToChar, HexDigits

LEMMA DigitsAre ==
    ASSUME NEW x \in Octet
    PROVE  x \div 16 \in 0 .. 15 /\ x % 16 \in 0 .. 15 /\ x = 16 * (x \div 16) + (x % 16)
BY DEF Octet

(* Two checksums that are written the same are the same.                     *)
LEMMA ChecksumTells ==
    ASSUME NEW x \in Octet, NEW y \in Octet, ChecksumToChars(x) = ChecksumToChars(y)
    PROVE  x = y
<1>1. /\ NibbleToChar(x \div 16) = NibbleToChar(y \div 16)
      /\ NibbleToChar(x % 16) = NibbleToChar(y % 16)
  BY DEF ChecksumToChars
<1>2. x \div 16 = y \div 16 /\ x % 16 = y % 16
  BY <1>1, DigitsAre, NibbleIs
<1> QED
  BY <1>2, DigitsAre

(* What a packet consists of.                                                *)
LEMMA PacketIs ==
    ASSUME NEW body \in Seq(Octet)
    PROVE  LET packet == AssemblePacket(body)
               n == Len(body)
           IN  /\ packet \in Seq(Octet) /\ Len(packet) = n + 4 /\ n \in Nat
               /\ packet[1] = Dollar /\ packet[n + 2] = Hash
               /\ \A i \in 1 .. n : packet[i + 1] = body[i] /\ body[i] \in Octet
               /\ packet[n + 3] \in HexDigits /\ packet[n + 4] \in HexDigits
               /\ ChecksumToChars(Sum(body)) = <<packet[n + 3], packet[n + 4]>>
<1> DEFINE n == Len(body)
           x == NibbleToChar(Sum(body) \div 16)
           y == NibbleToChar(Sum(body) % 16)
           packet == <<Dollar>> \o body \o <<Hash>> \o <<x, y>>
<1>1. x \in HexDigits /\ y \in HexDigits
  <2>1. Sum(body) \in Octet
    BY SumFacts
  <2> QED
    BY <2>1, DigitsAre, NibbleIs
<1>2. HexDigits \subseteq Octet
  BY DEF HexDigits, Octet
<1>3. Dollar \in Octet /\ Hash \in Octet
  BY DEF Dollar, Hash, Octet
<1> HIDE DEF x, y
<1>4. x \in Octet /\ y \in Octet
  BY <1>1, <1>2
<1>5. /\ packet \in Seq(Octet) /\ Len(packet) = n + 4 /\ n \in Nat
      /\ packet[1] = Dollar /\ packet[n + 2] = Hash /\ packet[n + 3] = x /\ packet[n + 4] = y
  BY <1>3, <1>4
<1>6. \A i \in 1 .. n : packet[i + 1] = body[i] /\ body[i] \in Octet
  BY <1>3, <1>4
<1>7. AssemblePacket(body) = packet /\ ChecksumToChars(Sum(body)) = <<x, y>>
  BY DEF AssemblePacket, ChecksumToChars, x, y
<1> HIDE DEF packet
<1> QED
  BY <1>1, <1>5, <1>6, <1>7

-------------------------------------------------------------------------------
(* The session                                                               *)

(* Acknowledgements are switched off by one command and on by none.          *)
ModeAfter(s, c) == IF c.op = "QStartNoAckMode" THEN FALSE ELSE s.ackMode

(* handle_packet() leaves the fields of the session in place.                *)
LEMMA SessionStays ==
    ASSUME NEW s, Typed(s), NEW f \in DOMAIN s, NEW v,
           f \in {"ackMode", "paused"} => v \in BOOLEAN
    PROVE  /\ Typed([s EXCEPT ![f] = v])
           /\ [s EXCEPT ![f] = v].ackMode = IF f = "ackMode" THEN v ELSE s.ackMode
BY DEF Typed

LEMMA ControlsStay ==
    ASSUME NEW s, Typed(s), NEW c, c.op \in Controls
    PROVE  Typed(Controlled(s, c)) /\ Controlled(s, c).ackMode = s.ackMode
<1>1. CASE c.op \in {"c", "s", "vCont;c"}
  <2> DEFINE t == [s EXCEPT !["paused"] = FALSE]
  <2>1. Controlled(s, c) = t
    BY <1>1, Zenon DEF Controlled
  <2>2. Typed(t) /\ t.ackMode = s.ackMode
    BY SessionStays DEF Typed
  <2> HIDE DEF t
  <2>3. QED
    BY <2>1, <2>2
<1>2. CASE c.op = "vCont;s"
  <2> DEFINE t == [s EXCEPT !["paused"] = FALSE]
  <2> DEFINE u == [t EXCEPT !["step"] = 2]
  <2>1. Controlled(s, c) = u
    BY <1>2 DEF Controlled
  <2>2. Typed(t) /\ t.ackMode = s.ackMode
    BY SessionStays DEF Typed
  <2> HIDE DEF t
  <2>3. "step" \in DOMAIN t
    BY <2>2 DEF Typed
  <2>4. Typed(u) /\ u.ackMode = t.ackMode
    BY <2>2, <2>3, SessionStays
  <2> HIDE DEF u
  <2>5. QED
    BY <2>1, <2>2, <2>4
<1>3. CASE c.op = "Z"
  <2>1. Controlled(s, c) = [s EXCEPT !["breakpoints"] = Append(s["breakpoints"], c.arg)]
    BY <1>3, Zenon DEF Controlled
  <2>2. QED
    BY <2>1, SessionStays DEF Typed
<1>4. CASE c.op = "z"
  <2>1. Controlled(s, c) =
            [s EXCEPT !["breakpoints"] = RemoveFirst(s["breakpoints"], c.arg)]
    BY <1>4, Zenon DEF Controlled
  <2>2. QED
    BY <2>1, SessionStays DEF Typed
<1>5. CASE c.op = "Hc"
  <2>1. Controlled(s, c) = [s EXCEPT !["nextSc"] = c.arg[1]]
    BY <1>5, Zenon DEF Controlled
  <2>2. QED
    BY <2>1, SessionStays DEF Typed
<1>6. CASE c.op = "H"
  <2>1. Controlled(s, c) = [s EXCEPT !["nextG"] = c.arg[1]]
    BY <1>6, Zenon DEF Controlled
  <2>2. QED
    BY <2>1, SessionStays DEF Typed
<1>7. CASE c.op \in {"qSymbol", "vCont;t"}
  <2>1. Controlled(s, c) = s
    BY <1>7, Zenon DEF Controlled
  <2>2. QED
    BY <2>1
<1>8. QED
  BY <1>1, <1>2, <1>3, <1>4, <1>5, <1>6, <1>7 DEF Controls

LEMMA QueriesStay ==
    ASSUME NEW s, Typed(s), NEW c, c.op \in Queries
    PROVE  /\ Typed(Queried(s, c)[1])
           /\ Queried(s, c)[1].ackMode = ModeAfter(s, c)
<1>1. CASE c.op = "QStartNoAckMode"
  <2> DEFINE t == [s EXCEPT !["ackMode"] = FALSE]
  <2>1. Queried(s, c) = <<t, <<"OK">>>>
    BY <1>1, Zenon DEF Queried, Capabilities
  <2>2. Typed(t) /\ t.ackMode = FALSE
    BY SessionStays DEF Typed
  <2>3. ModeAfter(s, c) = FALSE
    BY <1>1 DEF ModeAfter
  <2> HIDE DEF t
  <2>4. Queried(s, c)[1] = t
    BY <2>1
  <2>5. QED
    BY <2>2, <2>3, <2>4
<1>2. CASE c.op = "qC"
  <2> DEFINE active == IF s.active = Unset THEN 1 ELSE s.active
  <2>1. Queried(s, c) = <<[s EXCEPT !["active"] = active], <<"QC", active>>>>
    BY <1>2, Zenon DEF Queried, Capabilities
  <2> HIDE DEF active
  <2>2. /\ Typed([s EXCEPT !["active"] = active])
        /\ [s EXCEPT !["active"] = active].ackMode = s.ackMode
    BY SessionStays DEF Typed
  <2>3. QED
    BY <1>2, <2>1, <2>2 DEF ModeAfter
<1>3. CASE c.op = "k"
  <2> DEFINE t == [s EXCEPT !["killed"] = TRUE]
  <2>1. Queried(s, c) = <<[t EXCEPT !["paused"] = FALSE], <<"OK">>>>
    BY <1>3, Zenon DEF Queried, Capabilities
  <2>2. Typed(t) /\ t.ackMode = s.ackMode
    BY SessionStays DEF Typed
  <2> HIDE DEF t
  <2>3. /\ Typed([t EXCEPT !["paused"] = FALSE])
        /\ [t EXCEPT !["paused"] = FALSE].ackMode = s.ackMode
    BY <2>2, SessionStays DEF Typed
  <2>4. QED
    BY <1>3, <2>1, <2>3 DEF ModeAfter
<1>4. CASE c.op \in Capabilities \cup {"qfThreadInfo", "qsThreadInfo", "?"}
  <2>1. Queried(s, c)[1] = s
    <3>1. CASE c.op \in Capabilities
      <4>1. Queried(s, c) = <<s, <<c.op>>>>
        BY <3>1, Zenon DEF Queried, Capabilities
      <4>2. PICK said : Queried(s, c) = <<s, said>>
        BY <4>1, Zenon
      <4>3. QED
        BY <4>2
    <3>2. CASE c.op = "qfThreadInfo"
      <4>1. Queried(s, c) = <<s, <<"m", 1>>>>
        BY <3>2, Zenon DEF Queried, Capabilities
      <4>2. QED
        BY <4>1
    <3>3. CASE c.op = "qsThreadInfo"
      <4>1. Queried(s, c) = <<s, <<"l">>>>
        BY <3>3, Zenon DEF Queried, Capabilities
      <4>2. QED
        BY <4>1
    <3>4. CASE c.op = "?"
      <4>1. Queried(s, c) = <<s, <<"S 36">>>>
        BY <3>4, Zenon DEF Queried, Capabilities
      <4>2. PICK said : Queried(s, c) = <<s, said>>
        BY <4>1, Zenon
      <4>3. QED
        BY <4>2
    <3>5. QED
      BY <1>4, <3>1, <3>2, <3>3, <3>4
  <2>2. QED
    BY <1>4, <2>1 DEF ModeAfter, Capabilities
<1>5. QED
  BY <1>1, <1>2, <1>3, <1>4 DEF Queries

LEMMA AnswersStay ==
    ASSUME NEW s, Typed(s), NEW c, NEW a \in Answers(s, c)
    PROVE  Typed(a[1]) /\ a[1].ackMode = ModeAfter(s, c)
<1>1. CASE c.op \in Queries
  <2>1. Answers(s, c) = {Queried(s, c)}
    <3>1. /\ c.op \notin {"qRegisterInfo", "Hg", "p", "m"}
          /\ c.op \notin Controls
      BY <1>1 DEF Queries, Capabilities, Controls
    <3>2. QED
      BY <1>1, <3>1, Zenon DEF Answers
  <2>2. QED
    BY <1>1, <2>1, QueriesStay
<1>2. CASE c.op = "Hg"
  <2>1. Answers(s, c) = {<<[s EXCEPT !["active"] = c.arg[1]], <<"OK">>>>}
    <3>1. c.op \notin Queries \cup Controls
      BY <1>2 DEF Queries, Capabilities, Controls
    <3>2. QED
      BY <1>2, <3>1, Zenon DEF Answers
  <2> DEFINE t == [s EXCEPT !["active"] = c.arg[1]]
  <2>2. a[1] = t
    BY <2>1
  <2>3. Typed(t) /\ t.ackMode = s.ackMode
    BY SessionStays DEF Typed
  <2> HIDE DEF t
  <2>4. ModeAfter(s, c) = s.ackMode
    BY <1>2 DEF ModeAfter
  <2>5. QED
    BY <2>2, <2>3, <2>4
<1>3. CASE c.op \in Controls
  <2>1. Answers(s, c) = {<<Controlled(s, c), <<"OK">>>>}
    BY <1>3, Zenon DEF Answers, Queries, Capabilities, Controls
  <2>2. a[1] = Controlled(s, c)
    BY <2>1
  <2>3. ModeAfter(s, c) = s.ackMode
    BY <1>3 DEF ModeAfter, Controls
  <2>4. QED
    BY <1>3, <2>2, <2>3, ControlsStay
<1>4. CASE c.op \notin Queries \cup {"Hg"} \cup Controls
  <2>1. a[1] = s
    <3>1. CASE c.op = "qRegisterInfo"
      <4>1. Answers(s, c) = {<<s, RegisterInfo(c.arg[1])>>}
        BY <1>4, <3>1, Zenon DEF Answers
      <4>2. QED
        BY <4>1
    <3>2. CASE c.op = "p"
      <4>1. Answers(s, c) = {<<s, v>> : v \in Values(c.arg[1])}
        BY <1>4, <3>2, Zenon DEF Answers
      <4>2. QED
        BY <4>1
    <3>3. CASE c.op = "m"
      <4>1. Answers(s, c) = {<<s, Read(c.arg[1], c.arg[2])>>}
        BY <1>4, <3>3, Zenon DEF Answers
      <4>2. QED
        BY <4>1
    <3>4. CASE c.op \notin {"qRegisterInfo", "p", "m"}
      <4>1. Answers(s, c) = {<<s, <<>>>>}
        BY <1>4, <3>4, Zenon DEF Answers
      <4>2. QED
        BY <4>1
    <3>5. QED
      BY <3>1, <3>2, <3>3, <3>4
  <2>2. QED
    BY <1>4, <2>1 DEF ModeAfter, Queries
<1>5. QED
  BY <1>1, <1>2, <1>3, <1>4

-------------------------------------------------------------------------------
(* The steps                                                                 *)

(* What an action of the client keeps of the loop, and the other way round.  *)
LEMMA LoopUntouched ==
    ASSUME TypeOK, SpaceInv, FrameInv, UNCHANGED <<framing, server>>
    PROVE  /\ chunk' \in Seq(Octet) /\ Len(chunk') <= ChunkSize
           /\ buffer' \in Seq(Octet) /\ Len(buffer') < MaxBufferSize + ChunkSize
           /\ inPacket' \in BOOLEAN /\ remaining' \in 0 .. 2
           /\ server' \in {"recv", "bytes", "stop", "plus", "answer", "closed"}
           /\ SpaceInv' /\ FrameInv'
BY DEF TypeOK, SpaceInv, FrameInv, framing, Octet

LEMMA ClientUntouched ==
    ASSUME TypeOK, ClientInv, UNCHANGED <<wire, client, issued>>
    PROVE  /\ client' \in {"idle", "ack", "answer", "stopping", "gone"}
           /\ ClientInv'
BY DEF TypeOK, ClientInv

LEMMA IdleKeeps ==
    ASSUME Idle("closed")
    PROVE  /\ chunk' \in Seq(Octet) /\ Len(chunk') <= ChunkSize
           /\ buffer' \in Seq(Octet) /\ Len(buffer') < MaxBufferSize + ChunkSize
           /\ inPacket' \in BOOLEAN /\ remaining' \in 0 .. 2
           /\ server' \in {"recv", "bytes", "stop", "plus", "answer", "closed"}
           /\ SpaceInv' /\ FrameInv'
<1>1. chunk' = <<>> /\ buffer' = <<>> /\ inPacket' = FALSE /\ remaining' = 0
      /\ server' = "closed"
  BY DEF Idle
<1>2. SpaceInv'
  BY <1>1 DEF SpaceInv
<1>3. FrameInv'
  BY <1>1, NothingContains DEF FrameInv
<1>4. Len(<<>>) <= ChunkSize /\ Len(<<>>) < MaxBufferSize + ChunkSize
  BY Sizes
<1>5. chunk' \in Seq(Octet) /\ buffer' \in Seq(Octet)
  BY <1>1, EmptyFacts
<1>6. Len(chunk') <= ChunkSize /\ Len(buffer') < MaxBufferSize + ChunkSize
  BY <1>1, <1>4
<1>7. inPacket' \in BOOLEAN
  BY <1>1, Zenon
<1>8. remaining' \in 0 .. 2
  BY <1>1
<1>9. QED
  BY <1>1, <1>2, <1>3, <1>5, <1>6, <1>7, <1>8

LEMMA RecvKeeps ==
    ASSUME IInv, NEW n \in 1 .. ChunkSize, Recv(n)
    PROVE  IInv'
<1> DEFINE taken == SubSeq(wire, 1, n)
           got == StripAck(taken)
<1>1. /\ wire \in Seq(Octet) /\ n \in Nat /\ n <= Len(wire) /\ n <= ChunkSize
      /\ n > 0
  BY Sizes DEF IInv, ClientInv, Recv
<1>2. taken \in Seq(Octet) /\ Len(taken) = n
  BY <1>1, PrefixFacts
<1>3. taken # <<>>
  BY <1>1, <1>2
<1>4. got \in Seq(Octet) /\ Len(got) <= ChunkSize
  <2> HIDE DEF taken
  <2>1. StripAck(taken) \in Seq(Octet) /\ Len(StripAck(taken)) <= Len(taken)
    BY <1>2, <1>3, StripFacts
  <2>2. Len(StripAck(taken)) \in Nat
    BY <2>1
  <2>3. QED
    BY <1>1, <1>2, <2>1, <2>2, Sizes
<1>5. wire' \in Seq(Octet)
  BY <1>1, RestFacts DEF Recv
<1>6. ClientInv' /\ Typed(session)' /\ client' = client /\ session' = session
  BY <1>5 DEF IInv, ClientInv, Recv, history
<1>7. \/ UNCHANGED <<framing, server>>
      \/ /\ server' = "stop" /\ chunk' = Tail(got) /\ got # <<>>
         /\ UNCHANGED <<buffer, inPacket, remaining>>
      \/ Idle("closed")
      \/ /\ server' = "bytes" /\ chunk' = got /\ got # <<>> /\ ~Full
         /\ UNCHANGED <<buffer, inPacket, remaining>>
  BY DEF Recv, framing
<1> HIDE DEF got, taken
<1>8. CASE UNCHANGED <<framing, server>>
  BY <1>6, <1>8, LoopUntouched DEF IInv, TypeOK, Octet
<1>9. CASE Idle("closed")
  BY <1>6, <1>9, IdleKeeps DEF IInv, TypeOK, Octet
<1>10. CASE /\ server' = "stop" /\ chunk' = Tail(got) /\ got # <<>>
            /\ UNCHANGED <<buffer, inPacket, remaining>>
  <2>1. Tail(got) \in Seq(Octet) /\ Len(Tail(got)) = Len(got) - 1
    BY <1>4, <1>10, TailFacts
  <2>2. chunk' \in Seq(Octet) /\ Len(chunk') <= ChunkSize
    BY <1>4, <1>10, <2>1, Sizes
  <2>3. SpaceInv' /\ FrameInv'
    BY <1>10 DEF IInv, SpaceInv, FrameInv
  <2>4. QED
    BY <1>6, <1>10, <2>2, <2>3 DEF IInv, TypeOK, Octet
<1>11. CASE /\ server' = "bytes" /\ chunk' = got /\ got # <<>> /\ ~Full
            /\ UNCHANGED <<buffer, inPacket, remaining>>
  <2>1. Len(buffer) < MaxBufferSize /\ Len(buffer) \in Nat /\ Len(got) \in Nat
    BY <1>4, <1>11, Sizes DEF Full, IInv, TypeOK
  <2>2. SpaceInv'
    BY <1>4, <1>11, <2>1, Sizes DEF SpaceInv
  <2>3. FrameInv'
    BY <1>11 DEF IInv, FrameInv
  <2>4. QED
    BY <1>4, <1>6, <1>11, <2>2, <2>3 DEF IInv, TypeOK, Octet
<1>12. QED
  BY <1>7, <1>8, <1>9, <1>10, <1>11

LEMMA StopKeeps ==
    ASSUME IInv, Stop
    PROVE  IInv'
<1>1. ClientInv' /\ client' \in {"idle", "ack", "answer", "stopping", "gone"}
  BY ClientUntouched DEF IInv, Stop, history
<1>2. Typed(session)'
  <2>1. session' = [session EXCEPT !["paused"] = TRUE]
    BY DEF Stop
  <2>2. QED
    BY <2>1, SessionStays DEF IInv, Typed
<1>3. CASE Full
  BY <1>1, <1>2, <1>3, IdleKeeps DEF IInv, TypeOK, Typed, Octet, Stop
<1>4. CASE ~Full
  <2>1. /\ Len(buffer) < MaxBufferSize /\ Len(buffer) \in Nat /\ Len(chunk) \in Nat
        /\ Len(chunk) <= ChunkSize
    BY <1>4, Sizes DEF Full, IInv, TypeOK
  <2>2. /\ server' = After(chunk)
        /\ UNCHANGED <<chunk, buffer, inPacket, remaining>>
    BY <1>4 DEF Stop, framing
  <2>3. SpaceInv'
    BY <2>1, <2>2, Sizes DEF SpaceInv, After
  <2>4. FrameInv'
    BY <2>2 DEF IInv, FrameInv
  <2>5. QED
    BY <1>1, <1>2, <2>2, <2>3, <2>4 DEF IInv, TypeOK, Typed, After, Octet
<1>5. QED
  BY <1>3, <1>4

(* The packet is whole: it is taken or refused, and the buffer is empty.     *)
LEMMA AcceptedKeeps ==
    ASSUME Typed(session), NEW packet, Accepted(packet)
    PROVE  Typed(session)' /\ server' \in {"plus", "answer"}
<1>1. PICK a \in Answers(session, Asked(packet)) : session' = a[1]
  BY DEF Accepted
<1>2. Typed(a[1])
  BY <1>1, AnswersStay
<1>3. QED
  BY <1>1, <1>2 DEF Accepted, Typed

LEMMA ByteKeeps ==
    ASSUME IInv, Byte
    PROVE  IInv'
<1> DEFINE c == Head(chunk)
           opens == c = Dollar /\ ~inPacket
           closes == c = Hash /\ inPacket
           counts == ~opens /\ ~closes /\ ~inPacket /\ remaining > 0
           packet == Append(buffer, c)
<1>1. /\ chunk \in Seq(Octet) /\ buffer \in Seq(Octet) /\ chunk # <<>>
      /\ Len(buffer) + Len(chunk) < MaxBufferSize + ChunkSize
      /\ Len(chunk) \in Nat /\ Len(buffer) \in Nat /\ Len(chunk) <= ChunkSize
      /\ inPacket \in BOOLEAN /\ remaining \in 0 .. 2
  BY DEF IInv, TypeOK, SpaceInv, Octet, Byte
<1>2. /\ Tail(chunk) \in Seq(Octet) /\ Len(Tail(chunk)) = Len(chunk) - 1
      /\ c \in Octet /\ Len(chunk) > 0
  BY <1>1, TailFacts
<1>3. packet \in Seq(Octet) /\ Len(packet) = Len(buffer) + 1
  BY <1>1, <1>2, AppendFacts
<1>4. ClientInv' /\ client' \in {"idle", "ack", "answer", "stopping", "gone"}
  BY ClientUntouched DEF IInv, Byte
<1>5. /\ chunk' = Tail(chunk)
      /\ inPacket' = (opens \/ (inPacket /\ ~closes))
      /\ remaining' = IF closes THEN 2 ELSE IF counts THEN remaining - 1 ELSE remaining
      /\ \/ /\ counts /\ remaining' = 0 /\ buffer' = <<>>
            /\ Accepted(packet) \/ Refused
         \/ /\ ~(counts /\ remaining' = 0)
            /\ buffer' = packet /\ server' = After(chunk') /\ session' = session
  BY DEF Byte, Cleared
<1>6. inPacket' \in BOOLEAN /\ remaining' \in 0 .. 2
  BY <1>1, <1>5
<1>7. chunk' \in Seq(Octet) /\ Len(chunk') = Len(chunk) - 1 /\ Len(chunk') <= ChunkSize
  BY <1>1, <1>2, <1>5, Sizes
<1>8. CASE counts /\ remaining' = 0 /\ buffer' = <<>> /\ (Accepted(packet) \/ Refused)
  <2>1. /\ Typed(session)'
        /\ server' \in {"plus", "answer"} \/ server' = After(chunk')
    <3>1. CASE Accepted(packet)
      BY <3>1, AcceptedKeeps DEF IInv
    <3>2. CASE Refused
      BY <3>2 DEF Refused, IInv, Typed
    <3>3. QED
      BY <1>8, <3>1, <3>2
  <2>2. Len(buffer') = 0 /\ buffer' \in Seq(Octet)
    BY <1>8, EmptyFacts
  <2>3. SpaceInv'
    <3>1. Len(buffer') + Len(chunk') < MaxBufferSize + ChunkSize
      BY <1>1, <1>2, <1>7, <2>2, Sizes
    <3>2. server' = "bytes" => chunk' # <<>>
      BY <2>1 DEF After
    <3>3. QED
      BY <3>1, <3>2 DEF SpaceInv
  <2>4. FrameInv'
    BY <1>8, NothingContains DEF FrameInv
  <2>5. Len(buffer') < MaxBufferSize + ChunkSize
    BY <2>2, Sizes
  <2>6. server' \in {"recv", "bytes", "stop", "plus", "answer", "closed"}
    BY <2>1 DEF After
  <2>7. QED
    BY <1>4, <1>6, <1>7, <2>1, <2>2, <2>3, <2>4, <2>5, <2>6 DEF IInv, TypeOK, Typed, Octet
<1>9. CASE /\ ~(counts /\ remaining' = 0)
           /\ buffer' = packet /\ server' = After(chunk') /\ session' = session
  <2>1. buffer' \in Seq(Octet) /\ Len(buffer') = Len(buffer) + 1
    BY <1>3, <1>9
  <2>2. Len(buffer') + Len(chunk') < MaxBufferSize + ChunkSize
    BY <1>1, <1>2, <1>7, <2>1, Sizes
  <2>3. SpaceInv'
    BY <1>9, <2>2 DEF SpaceInv, After
  <2>4. Len(buffer') < MaxBufferSize + ChunkSize
    BY <1>1, <1>2, <1>7, <2>1, <2>2, Sizes
  <2>5. FrameInv'
    <3>1. SUFFICES ASSUME ~inPacket', remaining' = 0
                   PROVE  ~Contains(buffer', Dollar)
      BY DEF FrameInv
    <3>2. ~opens /\ ~closes /\ ~inPacket /\ ~counts
      <4>1. remaining' = IF closes THEN 2 ELSE IF counts THEN remaining - 1 ELSE remaining
        BY <1>5
      <4>2. ~closes
        BY <3>1, <4>1
      <4>3. ~opens /\ ~inPacket
        BY <1>5, <3>1, <4>2
      <4>4. ~counts
        BY <1>9, <3>1
      <4>5. QED
        BY <4>2, <4>3, <4>4
    <3>3. remaining = 0
      BY <1>5, <3>1, <3>2
    <3>4. c # Dollar /\ ~Contains(buffer, Dollar)
      BY <3>2, <3>3 DEF IInv, FrameInv
    <3>5. QED
      BY <1>1, <1>2, <1>9, <3>4, AppendContains
  <2>6. server' \in {"recv", "bytes", "stop", "plus", "answer", "closed"}
    BY <1>9 DEF After
  <2>7. QED
    BY <1>4, <1>6, <1>7, <1>9, <2>1, <2>3, <2>4, <2>5, <2>6 DEF IInv, TypeOK, Typed, Octet
<1>10. QED
  BY <1>5, <1>8, <1>9

LEMMA SendPlusKeeps ==
    ASSUME IInv, SendPlus
    PROVE  IInv'
<1>1. ClientInv' /\ client' \in {"idle", "ack", "answer", "stopping", "gone"}
  BY ClientUntouched DEF IInv, SendPlus, history
<1>2. SpaceInv' /\ FrameInv'
  BY DEF IInv, SpaceInv, FrameInv, SendPlus, framing
<1>3. QED
  BY <1>1, <1>2 DEF IInv, TypeOK, Typed, SendPlus, framing

LEMMA SendAnswerKeeps ==
    ASSUME IInv, SendAnswer
    PROVE  IInv'
<1>1. ClientInv' /\ client' \in {"idle", "ack", "answer", "stopping", "gone"}
  BY ClientUntouched DEF IInv, SendAnswer, history
<1>2. SpaceInv' /\ FrameInv'
  BY DEF IInv, SpaceInv, FrameInv, SendAnswer, framing, After
<1>3. QED
  BY <1>1, <1>2 DEF IInv, TypeOK, Typed, SendAnswer, framing, After

LEMMA DisconnectedKeeps ==
    ASSUME IInv, Disconnected
    PROVE  IInv'
<1>1. Idle("closed") /\ UNCHANGED <<session, wire, client, issued>>
  BY DEF Disconnected, history
<1>2. QED
  BY <1>1, IdleKeeps, ClientUntouched DEF IInv, TypeOK, Typed, Octet

LEMMA ExitKeeps ==
    ASSUME IInv, Exit
    PROVE  IInv'
<1>1. Idle("closed") /\ UNCHANGED <<session, wire, client, issued>>
  BY DEF Exit, history
<1>2. QED
  BY <1>1, IdleKeeps, ClientUntouched DEF IInv, TypeOK, Typed, Octet

LEMMA ReportKeeps ==
    ASSUME IInv, Report
    PROVE  IInv'
<1>1. Typed(session)'
  <2>1. session' = [session EXCEPT !["paused"] = TRUE]
    BY DEF Report
  <2>2. QED
    BY <2>1, SessionStays DEF IInv, Typed
<1>2. UNCHANGED <<framing, server>> /\ UNCHANGED <<wire, client, issued>>
  BY DEF Report, framing, history
<1>3. QED
  BY <1>1, <1>2, LoopUntouched, ClientUntouched DEF IInv, TypeOK, Typed, Octet

LEMMA AskKeeps ==
    ASSUME IInv, NEW c \in Command, Ask(c)
    PROVE  IInv'
<1>1. wire' \in Seq(Octet)
  <2>1. wire \in Seq(Octet) /\ AssemblePacket(Body[c]) \in Seq(Octet)
    BY BodyAssumption, PacketIs DEF IInv, ClientInv, Octet
  <2>2. wire' = wire \o AssemblePacket(Body[c])
    BY DEF Ask
  <2>3. QED
    BY <2>1, <2>2
<1>2. issued' \in Seq(Command) /\ issued' # <<>>
  <2>1. issued \in Seq(Command) /\ issued' = Append(issued, c)
    BY DEF IInv, ClientInv, Ask
  <2>2. QED
    BY <2>1
<1>3. client' \in {"ack", "answer"}
  BY DEF Ask
<1>4. UNCHANGED <<framing, server>> /\ session' = session
  BY DEF Ask
<1>5. ClientInv'
  BY <1>1, <1>2 DEF ClientInv
<1>6. QED
  BY <1>3, <1>4, <1>5, LoopUntouched DEF IInv, TypeOK, Typed, Octet

LEMMA InterruptKeeps ==
    ASSUME IInv, Interrupt
    PROVE  IInv'
<1>1. wire' \in Seq(Octet)
  <2>1. wire \in Seq(Octet) /\ wire' = Append(wire, CtrlC) /\ CtrlC \in Octet
    BY DEF IInv, ClientInv, Octet, CtrlC, Interrupt
  <2>2. QED
    BY <2>1, AppendFacts
<1>2. client' = "stopping" /\ issued' = issued
  BY DEF Interrupt, history
<1>3. UNCHANGED <<framing, server>> /\ session' = session
  BY DEF Interrupt
<1>4. ClientInv'
  BY <1>1, <1>2 DEF IInv, ClientInv
<1>5. QED
  BY <1>2, <1>3, <1>4, LoopUntouched DEF IInv, TypeOK, Typed, Octet

LEMMA ReceiveKeeps ==
    ASSUME IInv, Receive
    PROVE  IInv'
<1>1. /\ wire \in Seq(Octet) /\ issued \in Seq(Command)
      /\ client = "ack" => issued # <<>>
      /\ client \in {"idle", "ack", "answer", "stopping", "gone"}
      /\ Plus \in Octet
  BY DEF IInv, ClientInv, TypeOK, Octet, Plus
<1>2. Append(wire, Plus) \in Seq(Octet)
  BY <1>1, AppendFacts
<1>3. UNCHANGED <<framing, server>> /\ session' = session /\ issued' = issued
  BY DEF Receive
<1>4. /\ wire' \in Seq(Octet)
      /\ client' = client \/ client' \in {"idle", "answer", "gone"}
  <2>1. CASE ReadAck
    BY <1>1, <2>1 DEF ReadAck
  <2>2. CASE ReadNak
    <3>1. CASE client = "ack" /\ resends # MaxResends
      <4>1. issued # <<>> /\ issued[Len(issued)] \in Command
        BY <1>1, <3>1
      <4>2. AssemblePacket(Body[Last(issued)]) \in Seq(Octet)
        BY <4>1, BodyAssumption, PacketIs DEF Last, Octet
      <4>3. wire' = wire \o AssemblePacket(Body[Last(issued)]) /\ client' = client
        BY <2>2, <3>1 DEF ReadNak
      <4>4. QED
        BY <1>1, <4>2, <4>3
    <3>2. CASE ~(client = "ack" /\ resends # MaxResends)
      BY <1>1, <2>2, <3>2 DEF ReadNak
    <3>3. QED
      BY <3>1, <3>2
  <2>3. CASE ReadAnswer
    BY <1>1, <1>2, <2>3 DEF ReadAnswer, Acknowledges
  <2>4. CASE ReadStop
    BY <1>1, <1>2, <2>4 DEF ReadStop, Acknowledges
  <2>5. QED
    BY <2>1, <2>2, <2>3, <2>4 DEF Receive
<1>5. ClientInv' /\ client' \in {"idle", "ack", "answer", "stopping", "gone"}
  BY <1>1, <1>3, <1>4 DEF ClientInv
<1>6. QED
  BY <1>3, <1>5, LoopUntouched DEF IInv, TypeOK, Typed, Octet

LEMMA SeesClosedKeeps ==
    ASSUME IInv, SeesClosed
    PROVE  IInv'
<1>1. UNCHANGED <<framing, server, session, wire, issued>> /\ client' = "gone"
  BY DEF SeesClosed, history
<1>2. ClientInv'
  BY <1>1 DEF IInv, ClientInv
<1>3. QED
  BY <1>1, <1>2, LoopUntouched DEF IInv, TypeOK, Typed, Octet

-------------------------------------------------------------------------------
(* The theorems                                                              *)

LEMMA InitHolds == ASSUME Init PROVE IInv
<1>1. Typed(session)
  BY DEF Init, Typed
<1>2. ClientInv
  BY EmptyFacts DEF Init, ClientInv
<1>3. SpaceInv /\ FrameInv
  BY NothingContains DEF Init, SpaceInv, FrameInv
<1>4. chunk \in Seq(Octet) /\ buffer \in Seq(Octet)
  BY EmptyFacts DEF Init
<1>5. Len(chunk) <= ChunkSize /\ Len(buffer) < MaxBufferSize + ChunkSize
  BY Sizes, EmptyFacts DEF Init
<1>6. inPacket \in BOOLEAN
  BY Zenon DEF Init
<1>7. /\ remaining \in 0 .. 2 /\ server = "recv" /\ client = "idle"
  BY DEF Init
<1>8. QED
  BY <1>1, <1>2, <1>3, <1>4, <1>5, <1>6, <1>7 DEF IInv, TypeOK, Typed, Octet

LEMMA StepKeeps == ASSUME IInv, [Next]_vars PROVE IInv'
<1>1. CASE Server
  <2>1. CASE \E n \in 1 .. ChunkSize : Recv(n)
    BY <2>1, RecvKeeps
  <2>2. QED
    BY <1>1, <2>1, StopKeeps, ByteKeeps, SendPlusKeeps, SendAnswerKeeps,
       DisconnectedKeeps DEF Server
<1>2. CASE UNCHANGED vars
  <2>1. /\ UNCHANGED <<framing, server>> /\ session' = session
        /\ UNCHANGED <<wire, client, issued>>
    BY <1>2 DEF vars, history
  <2>2. QED
    BY <2>1, LoopUntouched, ClientUntouched DEF IInv, TypeOK, Typed, Octet
<1>3. CASE \E c \in Command : Ask(c)
  BY <1>3, AskKeeps
<1>4. QED
  BY <1>1, <1>2, <1>3, ReportKeeps, ExitKeeps, InterruptKeeps, ReceiveKeeps,
     SeesClosedKeeps DEF Next

LEMMA AlwaysIInv == Spec => []IInv
<1>1. Init => IInv
  BY InitHolds
<1>2. IInv /\ [Next]_vars => IInv'
  BY StepKeeps
<1>3. QED
  BY <1>1, <1>2, PTL DEF Spec

(* The buffer is bounded: max_buffer_size is tested before the bytes of a    *)
(* recv() are looked at, so it may be passed by less than one recv(), and    *)
(* never by more, whatever is sent and however it is cut.                    *)
THEOREM BufferIsBounded == Spec => []TypeOK
<1>1. IInv => TypeOK
  BY DEF IInv
<1>2. QED
  BY <1>1, AlwaysIInv, PTL

(* handle_packet() never starts in the middle of what was refused before.    *)
THEOREM FramingHolds == Spec => []FramingRecovers
<1>1. IInv => FramingRecovers
  BY DEF IInv, FrameInv, FramingRecovers
<1>2. QED
  BY <1>1, AlwaysIInv, PTL

-------------------------------------------------------------------------------
(* Damaged packets                                                           *)

(* What may stand between two packets. In front of a packet the client has   *)
(* sent at most Limit bytes of it that the loop kept.                        *)
Noise == {Plus, CtrlC}
Limit == 7

AllNoise(s, n) == \A i \in 1 .. n : s[i] \in Noise
NoCall(s, n) == \A i \in 1 .. n : s[i] # CtrlC
OneCall(s, n) == \A i, j \in 1 .. n : s[i] = CtrlC /\ s[j] = CtrlC => i = j

(* By how much the bytes before a "#" miss the sum of the body, when the     *)
(* buffer began with noise (z, with a acknowledgements and b Ctrl-C behind   *)
(* its first byte and the "$") and recv() took p "+" and m "-" away.         *)
Amiss(z, a, b, p, m) == z * Dollar + a * Plus + b * CtrlC - p * Plus - m * Minus

(* The first k bytes of a body came with the sum x, and what they came with  *)
(* is no packet: something is in front of it, or a sign is missing.          *)
Damage(body, x, k) ==
    \E z \in 0 .. 1, a \in 0 .. Limit, b \in 0 .. 1,
       P \in SUBSET Places(body, k, Plus), M \in SUBSET Places(body, k, Minus) :
        /\ a + b < Limit
        /\ z = 0 => a = 0 /\ b = 0 /\ (P # {} \/ M # {})
        /\ x = (Amiss(z, a, b, Cardinality(P), Cardinality(M)) + Sums(body)[k]) % 256

(* Remainders of sums.                                                       *)
LEMMA Residues ==
    ASSUME NEW x \in Int, NEW y \in Int
    PROVE  /\ ((x % 256) + y) % 256 = (x + y) % 256
           /\ (x + (y % 256)) % 256 = (x + y) % 256
OBVIOUS

LEMMA SumsNext ==
    ASSUME NEW s \in Seq(Octet), NEW i \in Nat, i < Len(s)
    PROVE  /\ Sums(s)[i + 1] = (Sums(s)[i] + s[i + 1]) % 256
           /\ Sums(s)[i] \in 0 .. 255 /\ s[i + 1] \in 0 .. 255
<1>1. i + 1 \in 1 .. Len(s) /\ (i + 1) - 1 = i /\ i \in 0 .. Len(s) /\ s[i + 1] \in Octet
  OBVIOUS
<1>2. Sums(s)[i] \in Octet /\ Sums(s)[i + 1] = (Sums(s)[i] + s[i + 1]) % 256
  BY <1>1, SumsAre
<1> QED
  BY <1>1, <1>2 DEF Octet

(* Sets of places.                                                           *)
LEMMA Cards ==
    ASSUME NEW body, NEW k \in Nat, NEW c, NEW P \in SUBSET Places(body, k, c)
    PROVE  /\ IsFiniteSet(P) /\ Cardinality(P) \in Nat /\ (Cardinality(P) = 0 <=> P = {})
           /\ P \in SUBSET Places(body, k + 1, c)
           /\ Cardinality(P \cup {k + 1}) = Cardinality(P) + 1
<1>1. IsFiniteSet(1 .. k)
  BY FS_Interval
<1>2. P \in SUBSET (1 .. k)
  BY DEF Places
<1>3. IsFiniteSet(P)
  BY <1>1, <1>2, FS_Subset
<1>4. Cardinality(P) \in Nat /\ (Cardinality(P) = 0 <=> P = {})
  BY <1>3, FS_CardinalityType, FS_EmptySet
<1>5. k + 1 \notin P
  BY <1>2
<1>6. Cardinality(P \cup {k + 1}) = Cardinality(P) + 1
  BY <1>3, <1>5, FS_AddElement
<1> QED
  BY <1>3, <1>4, <1>6 DEF Places

LEMMA PlaceAdded ==
    ASSUME NEW body, NEW k \in Nat, NEW c, NEW P \in SUBSET Places(body, k, c),
           body[k + 1] = c
    PROVE  P \cup {k + 1} \in SUBSET Places(body, k + 1, c)
BY DEF Places

LEMMA CardsBound ==
    ASSUME NEW body, NEW k \in Nat, NEW c, NEW P \in SUBSET Places(body, k, c), NEW m \in Nat,
           Cardinality(Places(body, k, c)) <= m
    PROVE  Cardinality(P) \in Nat /\ Cardinality(P) <= m
<1>1. Places(body, k, c) \in SUBSET Places(body, k, c)
  OBVIOUS
<1>2. IsFiniteSet(Places(body, k, c)) /\ Cardinality(Places(body, k, c)) \in Nat
  BY <1>1, Cards
<1>3. Cardinality(P) <= Cardinality(Places(body, k, c))
  BY <1>2, FS_Subset
<1>4. Cardinality(P) \in Nat
  BY Cards
<1> QED
  BY <1>2, <1>3, <1>4

(* The checksum of a damaged packet is never right.                          *)
LEMMA DamageShows ==
    ASSUME NEW body \in Seq(Octet), FewSigns(body)
    PROVE  ~Damage(body, Sum(body), Len(body))
<1> SUFFICES ASSUME Damage(body, Sum(body), Len(body)) PROVE FALSE
  OBVIOUS
<1> DEFINE n == Len(body)
<1>1. n \in Nat /\ Sum(body) = Sums(body)[n] /\ Sum(body) \in Octet
  BY SumIsLast, SumFacts
<1> HIDE DEF n
<1>2. PICK z \in 0 .. 1, a \in 0 .. Limit, b \in 0 .. 1,
           P \in SUBSET Places(body, n, Plus), M \in SUBSET Places(body, n, Minus) :
        /\ a + b < Limit
        /\ z = 0 => a = 0 /\ b = 0 /\ (P # {} \/ M # {})
        /\ Sum(body) = (Amiss(z, a, b, Cardinality(P), Cardinality(M)) + Sum(body)) % 256
  BY <1>1 DEF Damage, n
<1> DEFINE p == Cardinality(P)
           m == Cardinality(M)
           s == Sum(body)
<1>3. p \in Nat /\ p <= 20 /\ m \in Nat /\ m <= 12
  BY <1>1, CardsBound DEF FewSigns, n
<1>4. z = 0 => a = 0 /\ b = 0 /\ (p # 0 \/ m # 0)
  BY <1>1, <1>2, Cards
<1>5. s \in 0 .. 255 /\ z \in 0 .. 1 /\ a \in 0 .. 7 /\ b \in 0 .. 1 /\ a + b < 7
  BY <1>1, <1>2 DEF Octet, Limit
<1>6. s = (z * 36 + a * 43 + b * 3 - p * 43 - m * 45 + s) % 256
  BY <1>2 DEF Amiss, Dollar, Plus, Minus, CtrlC
<1> HIDE DEF p, m, s
<1>7. \E q \in Int : z * 36 + a * 43 + b * 3 - p * 43 - m * 45 = 256 * q
  <2> DEFINE y == z * 36 + a * 43 + b * 3 - p * 43 - m * 45 + s
  <2>1. y \in Int
    BY <1>3, <1>5
  <2>2. y = 256 * (y \div 256) + (y % 256) /\ y \div 256 \in Int
    <3> HIDE DEF y
    <3> QED
      BY <2>1
  <2>3. z * 36 + a * 43 + b * 3 - p * 43 - m * 45 = 256 * (y \div 256)
    BY <1>3, <1>5, <1>6, <2>2
  <2> HIDE DEF y
  <2> QED
    BY <2>2, <2>3
<1> QED
  BY <1>3, <1>4, <1>5, <1>7

LEMMA DamageIs ==
    ASSUME NEW body, NEW k, NEW x, NEW z \in 0 .. 1, NEW a \in 0 .. Limit, NEW b \in 0 .. 1,
           NEW P \in SUBSET Places(body, k, Plus), NEW M \in SUBSET Places(body, k, Minus),
           a + b < Limit, z = 0 => a = 0 /\ b = 0 /\ (P # {} \/ M # {}),
           x = (Amiss(z, a, b, Cardinality(P), Cardinality(M)) + Sums(body)[k]) % 256
    PROVE  Damage(body, x, k)
<1> USE DEF Damage
<1> WITNESS z \in 0 .. 1, a \in 0 .. Limit, b \in 0 .. 1,
            P \in SUBSET Places(body, k, Plus), M \in SUBSET Places(body, k, Minus)
<1> QED
  OBVIOUS

(* A damaged packet stays damaged, whether its next byte comes or is         *)
(* dropped.                                                                  *)
LEMMA DamageStays ==
    ASSUME NEW body \in Seq(Octet), NEW k \in Nat, k < Len(body), NEW x, Damage(body, x, k)
    PROVE  /\ Damage(body, (x + body[k + 1]) % 256, k + 1)
           /\ body[k + 1] \in {Plus, Minus} => Damage(body, x, k + 1)
<1>1. PICK z \in 0 .. 1, a \in 0 .. Limit, b \in 0 .. 1,
           P \in SUBSET Places(body, k, Plus), M \in SUBSET Places(body, k, Minus) :
        /\ a + b < Limit
        /\ z = 0 => a = 0 /\ b = 0 /\ (P # {} \/ M # {})
        /\ x = (Amiss(z, a, b, Cardinality(P), Cardinality(M)) + Sums(body)[k]) % 256
  BY DEF Damage
<1> DEFINE e == body[k + 1]
           s == Sums(body)[k]
           t == Sums(body)[k + 1]
           p == Cardinality(P)
           m == Cardinality(M)
           y == Amiss(z, a, b, p, m)
<1>2. t = (s + e) % 256 /\ s \in 0 .. 255 /\ e \in 0 .. 255
  BY SumsNext
<1>11. p \in Nat /\ P \in SUBSET Places(body, k + 1, Plus)
  BY Cards
<1>12. m \in Nat /\ M \in SUBSET Places(body, k + 1, Minus)
  BY Cards
<1>3. /\ p \in Int /\ m \in Int
      /\ P \in SUBSET Places(body, k + 1, Plus) /\ M \in SUBSET Places(body, k + 1, Minus)
  BY <1>11, <1>12
<1>4. z \in Int /\ a \in Int /\ b \in Int
  BY DEF Limit
<1>6. x = (y + s) % 256
  BY <1>1
<1>13. Cardinality(P \cup {k + 1}) = p + 1
  <2> HIDE DEF e, s, t, p, m, y
  <2>1. IsFiniteSet(P)
    BY Cards
  <2>2. k + 1 \notin P
    BY DEF Places
  <2>3. Cardinality(P \cup {k + 1}) = Cardinality(P) + 1
    BY <2>1, <2>2, FS_AddElement
  <2> QED
    BY <2>3 DEF p
<1>14. Cardinality(M \cup {k + 1}) = m + 1
  <2> HIDE DEF e, s, t, p, m, y
  <2>1. IsFiniteSet(M)
    BY Cards
  <2>2. k + 1 \notin M
    BY DEF Places
  <2>3. Cardinality(M \cup {k + 1}) = Cardinality(M) + 1
    BY <2>1, <2>2, FS_AddElement
  <2> QED
    BY <2>3 DEF m
<1>15. e = Plus => P \cup {k + 1} \in SUBSET Places(body, k + 1, Plus)
  BY PlaceAdded
<1>16. e = Minus => M \cup {k + 1} \in SUBSET Places(body, k + 1, Minus)
  BY PlaceAdded
<1> HIDE DEF p, m
<1>17. p \in Int /\ m \in Int
  BY <1>3
<1>5. /\ Amiss(z, a, b, p, m) \in Int
      /\ Amiss(z, a, b, p + 1, m) = Amiss(z, a, b, p, m) - Plus
      /\ Amiss(z, a, b, p, m + 1) = Amiss(z, a, b, p, m) - Minus
  BY <1>17, <1>4 DEF Amiss, Dollar, Plus, Minus, CtrlC
<1> HIDE DEF e, s, t, y
<1>8. Damage(body, (x + e) % 256, k + 1)
  <2>1. (x + e) % 256 = (y + t) % 256
    BY <1>2, <1>5, <1>6 DEF y
  <2>2. (x + e) % 256 = (Amiss(z, a, b, Cardinality(P), Cardinality(M)) + Sums(body)[k + 1]) % 256
    BY <2>1 DEF y, t, p, m
  <2> QED
    BY <1>1, <1>3, <2>2, DamageIs
<1>9. ASSUME e = Plus PROVE Damage(body, x, k + 1)
  <2> DEFINE P1 == P \cup {k + 1}
  <2>1. x = ((y - Plus) + t) % 256
    BY <1>2, <1>5, <1>6, <1>9 DEF Plus, y
  <2>2. P1 # {} /\ P1 \in SUBSET Places(body, k + 1, Plus)
    BY <1>15, <1>9
  <2>4. Amiss(z, a, b, Cardinality(P1), Cardinality(M)) = y - Plus
    BY <1>5, <1>13 DEF m, y
  <2>3. x = (Amiss(z, a, b, Cardinality(P1), Cardinality(M)) + Sums(body)[k + 1]) % 256
    BY <2>1, <2>4 DEF t
  <2> HIDE DEF P1
  <2> QED
    BY <1>1, <1>3, <2>2, <2>3, DamageIs
<1>10. ASSUME e = Minus PROVE Damage(body, x, k + 1)
  <2> DEFINE M1 == M \cup {k + 1}
  <2>1. x = ((y - Minus) + t) % 256
    BY <1>2, <1>5, <1>6, <1>10 DEF Minus, y
  <2>2. M1 # {} /\ M1 \in SUBSET Places(body, k + 1, Minus)
    BY <1>16, <1>10
  <2>4. Amiss(z, a, b, Cardinality(P), Cardinality(M1)) = y - Minus
    BY <1>5, <1>14 DEF p, y
  <2>3. x = (Amiss(z, a, b, Cardinality(P), Cardinality(M1)) + Sums(body)[k + 1]) % 256
    BY <2>1, <2>4 DEF t
  <2> HIDE DEF M1
  <2> QED
    BY <1>1, <1>3, <2>2, <2>3, DamageIs
<1> QED
  BY <1>8, <1>9, <1>10 DEF e

(* A byte that is dropped from a packet that was whole until then.           *)
LEMMA FirstDamage ==
    ASSUME NEW body \in Seq(Octet), NEW k \in Nat, k < Len(body),
           body[k + 1] \in {Plus, Minus}
    PROVE  Damage(body, Sums(body)[k], k + 1)
<1> DEFINE e == body[k + 1]
           s == Sums(body)[k]
           t == Sums(body)[k + 1]
           one == {} \cup {k + 1}
<1>1. t = (s + e) % 256 /\ s \in 0 .. 255
  BY SumsNext
<1>2. /\ {} \in SUBSET Places(body, k, e) /\ Cardinality({}) = 0
      /\ {} \in SUBSET Places(body, k + 1, Plus) /\ {} \in SUBSET Places(body, k + 1, Minus)
  BY FS_EmptySet
<1>3. /\ one \in SUBSET Places(body, k + 1, e)
      /\ Cardinality(one) = Cardinality({}) + 1
  BY <1>2, Cards, PlaceAdded
<1>4. Cardinality(one) = 1 /\ one # {}
  BY <1>2, <1>3
<1>5. /\ Amiss(0, 0, 0, 1, 0) = 0 - Plus
      /\ Amiss(0, 0, 0, 0, 1) = 0 - Minus
  BY DEF Amiss, Dollar, Plus, Minus, CtrlC
<1>6. 0 \in 0 .. 1 /\ 0 \in 0 .. Limit /\ 0 + 0 < Limit
  BY DEF Limit
<1> HIDE DEF s, e, t, one
<1>7. CASE e = Plus
  <2>1. s = ((0 - Plus) + t) % 256
    BY <1>1, <1>7 DEF Plus
  <2>2. s = (Amiss(0, 0, 0, Cardinality(one), Cardinality({})) + Sums(body)[k + 1]) % 256
    BY <1>2, <1>4, <1>5, <2>1 DEF t
  <2> QED
    BY <1>2, <1>3, <1>4, <1>6, <1>7, <2>2, DamageIs DEF s
<1>8. CASE e = Minus
  <2>1. s = ((0 - Minus) + t) % 256
    BY <1>1, <1>8 DEF Minus
  <2>2. s = (Amiss(0, 0, 0, Cardinality({}), Cardinality(one)) + Sums(body)[k + 1]) % 256
    BY <1>2, <1>4, <1>5, <2>1 DEF t
  <2> QED
    BY <1>2, <1>3, <1>4, <1>6, <1>8, <2>2, DamageIs DEF s
<1> QED
  BY <1>7, <1>8 DEF e

(* What noise adds up to.                                                    *)
LEMMA NoiseSum ==
    ASSUME NEW s \in Seq(Octet), AllNoise(s, Len(s)), OneCall(s, Len(s))
    PROVE  \E b \in 0 .. 1 : /\ b <= Len(s)
                             /\ Sum(s) = ((Len(s) - b) * Plus + b * CtrlC) % 256
<1> DEFINE calls(i) == IF NoCall(s, i) THEN 0 ELSE 1
           T == {i \in Nat : i <= Len(s) =>
                    /\ calls(i) <= i
                    /\ Sums(s)[i] = ((i - calls(i)) * Plus + calls(i) * CtrlC) % 256}
<1>1. Len(s) \in Nat
  OBVIOUS
<1>2. 0 \in T
  <2>1. calls(0) = 0
    BY DEF NoCall
  <2>2. Sums(s)[0] = 0
    BY SumsAre
  <2> QED
    BY <2>1, <2>2 DEF Plus, CtrlC
<1>3. ASSUME NEW i \in Nat, i \in T PROVE i + 1 \in T
  <2> SUFFICES ASSUME i + 1 <= Len(s)
               PROVE  /\ calls(i + 1) <= i + 1
                      /\ Sums(s)[i + 1] = ((i + 1 - calls(i + 1)) * Plus + calls(i + 1) * CtrlC) % 256
    OBVIOUS
  <2>1. /\ calls(i) <= i
        /\ Sums(s)[i] = ((i - calls(i)) * Plus + calls(i) * CtrlC) % 256
    BY <1>1, <1>3
  <2>2. i + 1 \in 1 .. Len(s) /\ (i + 1) - 1 = i
    BY <1>1
  <2>3. Sums(s)[i + 1] = (Sums(s)[i] + s[i + 1]) % 256
    BY <2>2, SumsAre
  <2>4. s[i + 1] \in {Plus, CtrlC}
    BY <2>2 DEF AllNoise, Noise
  <2>5. CASE s[i + 1] = Plus
    <3>1. calls(i + 1) = calls(i)
      <4>1. NoCall(s, i + 1) <=> NoCall(s, i)
        BY <2>5 DEF NoCall, Plus, CtrlC
      <4> QED
        BY <4>1
    <3> DEFINE d == calls(i)
    <3>2. d \in 0 .. 1
      OBVIOUS
    <3> HIDE DEF d
    <3>3. Sums(s)[i + 1] = ((i + 1 - d) * Plus + d * CtrlC) % 256 /\ d <= i + 1
      BY <2>1, <2>3, <2>5, <3>2 DEF Plus, CtrlC, d
    <3> QED
      BY <3>1, <3>3 DEF d
  <2>6. CASE s[i + 1] = CtrlC
    <3>1. NoCall(s, i)
      BY <2>2, <2>6 DEF NoCall, OneCall
    <3>2. ~NoCall(s, i + 1)
      BY <2>2, <2>6 DEF NoCall
    <3>3. Sums(s)[i] = ((i - 0) * Plus + 0 * CtrlC) % 256
      BY <2>1, <3>1
    <3>4. Sums(s)[i + 1] = ((i + 1 - 1) * Plus + 1 * CtrlC) % 256
      BY <2>3, <2>6, <3>3 DEF Plus, CtrlC
    <3> QED
      BY <3>2, <3>4
  <2> QED
    BY <2>4, <2>5, <2>6
<1>4. Len(s) \in T
  <2> HIDE DEF T
  <2> QED
    BY <1>1, <1>2, <1>3, SetInduction
<1>5. calls(Len(s)) \in 0 .. 1
  OBVIOUS
<1> QED
  BY <1>1, <1>4, <1>5, SumIsLast

(* A packet that begins behind noise.                                        *)
LEMMA DamageBegins ==
    ASSUME NEW body \in Seq(Octet), NEW s \in Seq(Octet), Len(s) < Limit,
           AllNoise(s, Len(s)), OneCall(s, Len(s))
    PROVE  Damage(body, (Sum(s) + Dollar) % 256, 0)
<1>1. PICK b \in 0 .. 1 : /\ b <= Len(s)
                          /\ Sum(s) = ((Len(s) - b) * Plus + b * CtrlC) % 256
  BY NoiseSum
<1> DEFINE a == Len(s) - b
<1>2. a \in 0 .. Limit /\ a + b < Limit /\ Sum(s) = (a * Plus + b * CtrlC) % 256
  BY <1>1 DEF Limit
<1>3. /\ {} \in SUBSET Places(body, 0, Plus) /\ {} \in SUBSET Places(body, 0, Minus)
      /\ Cardinality({}) = 0 /\ Sums(body)[0] = 0
  BY FS_EmptySet, SumsAre
<1> HIDE DEF a
<1>4. Amiss(1, a, b, 0, 0) + 0 = (a * Plus + b * CtrlC) + Dollar
  BY <1>1, <1>2 DEF Amiss, Plus, CtrlC, Dollar, Minus, Limit
<1>5. (a * Plus + b * CtrlC) \in Int /\ Dollar \in Int
  BY <1>1, <1>2 DEF Plus, CtrlC, Dollar, Limit
<1>6. (Sum(s) + Dollar) % 256 = (Amiss(1, a, b, 0, 0) + 0) % 256
  BY <1>2, <1>4, <1>5, Residues
<1>7. (Sum(s) + Dollar) % 256
        = (Amiss(1, a, b, Cardinality({}), Cardinality({})) + Sums(body)[0]) % 256
  BY <1>3, <1>6
<1> QED
  BY <1>2, <1>3, <1>7, DamageIs

-------------------------------------------------------------------------------
(* Acknowledgements and Ctrl-C between the packets                           *)

(* Bytes on their way to the loop: those of the last recv() first.           *)
Stream == chunk \o wire

(* Nothing but acknowledgements and one Ctrl-C, wherever it is by now.       *)
Calm(b, s, f, stopping) ==
    /\ AllNoise(b, Len(b)) /\ AllNoise(s, f)
    /\ OneCall(b, Len(b)) /\ OneCall(s, f)
    /\ NoCall(b, Len(b)) \/ NoCall(s, f)
    /\ stopping => NoCall(b, Len(b)) /\ NoCall(s, f)
    /\ Len(b) + f <= Limit

(* A stream of which d bytes are gone, and one that has grown by c.          *)
Shifted(s, t, d) ==
    d <= Len(s) /\ Len(t) = Len(s) - d /\ \A i \in 1 .. Len(t) : t[i] = s[i + d]
Extended(s, t, c) ==
    Len(t) = Len(s) + 1 /\ t[Len(t)] = c /\ \A i \in 1 .. Len(s) : t[i] = s[i]

(* Noise of which something is gone.                                         *)
LEMMA OneCallShifts ==
    ASSUME NEW s, NEW t, NEW f \in Nat, NEW d \in 0 .. f,
           \A i \in 1 .. f - d : t[i] = s[i + d]
    PROVE  /\ OneCall(s, f) => OneCall(t, f - d)
           /\ NoCall(s, f) => NoCall(t, f - d)
           /\ AllNoise(s, f) => AllNoise(t, f - d)
<1>1. \A i \in 1 .. f - d : i + d \in 1 .. f /\ t[i] = s[i + d]
  OBVIOUS
<1>2. ASSUME OneCall(s, f), NEW i \in 1 .. f - d, NEW j \in 1 .. f - d,
             t[i] = CtrlC, t[j] = CtrlC
      PROVE  i = j
  <2>1. s[i + d] = CtrlC /\ s[j + d] = CtrlC /\ i + d \in 1 .. f /\ j + d \in 1 .. f
    BY <1>1, <1>2
  <2>2. i + d = j + d
    BY <1>2, <2>1 DEF OneCall
  <2> QED
    BY <2>2
<1> QED
  BY <1>1, <1>2 DEF OneCall, NoCall, AllNoise

(* recv() takes noise away.                                                  *)
LEMMA CalmShifts ==
    ASSUME NEW b \in Seq(Octet), NEW s \in Seq(Octet), NEW t \in Seq(Octet), NEW f \in Nat, f <= Len(s),
           NEW d \in 0 .. f, Shifted(s, t, d), Calm(b, s, f, FALSE)
    PROVE  /\ Calm(b, t, f - d, FALSE)
           /\ NoCall(s, f) => NoCall(t, f - d)
           /\ d > 0 /\ s[d] = CtrlC => ~NoCall(s, f) /\ Calm(b, t, f - d, TRUE) /\ NoCall(t, f - d)
<1> DEFINE g == f - d
<1>1. /\ g \in Nat /\ g <= f /\ Len(b) \in Nat
      /\ \A i \in 1 .. g : i + d \in 1 .. f /\ t[i] = s[i + d]
  BY DEF Shifted
<1> HIDE DEF g
<1>2. AllNoise(t, g) /\ OneCall(t, g) /\ (NoCall(s, f) => NoCall(t, g))
  <2>1. \A i \in 1 .. f - d : t[i] = s[i + d]
    BY <1>1 DEF g
  <2> QED
    BY <2>1, OneCallShifts DEF Calm, g
<1>3. Len(b) + g <= Limit
  BY <1>1 DEF Calm, Limit
<1>4. Calm(b, t, g, FALSE)
  BY <1>2, <1>3 DEF Calm
<1>5. ASSUME d > 0, s[d] = CtrlC PROVE ~NoCall(s, f) /\ Calm(b, t, g, TRUE) /\ NoCall(t, g)
  <2>1. d \in 1 .. f /\ ~NoCall(s, f)
    BY <1>5 DEF NoCall
  <2>2. NoCall(b, Len(b))
    BY <2>1 DEF Calm
  <2>3. NoCall(t, g)
    BY <1>1, <1>5, <2>1 DEF Calm, OneCall, NoCall
  <2> QED
    BY <1>4, <2>1, <2>2, <2>3 DEF Calm
<1> QED
  BY <1>2, <1>4, <1>5 DEF g

(* The loop looks at a byte of noise, and keeps it.                          *)
LEMMA CalmMoves ==
    ASSUME NEW b \in Seq(Octet), NEW s \in Seq(Octet), NEW t \in Seq(Octet), NEW f \in Nat \ {0}, f <= Len(s),
           Shifted(s, t, 1), Calm(b, s, f, FALSE)
    PROVE  /\ Calm(Append(b, s[1]), t, f - 1, FALSE)
           /\ NoCall(s, f) => NoCall(t, f - 1)
           /\ NoCall(s, f) /\ NoCall(b, Len(b)) => NoCall(Append(b, s[1]), Len(b) + 1)
<1> DEFINE c == Append(b, s[1])
           g == f - 1
<1>1. /\ g \in Nat /\ g + 1 = f /\ Len(b) \in Nat
      /\ \A i \in 1 .. g : i + 1 \in 1 .. f /\ i + 1 # 1 /\ t[i] = s[i + 1]
  BY DEF Shifted
<1>2. /\ Len(c) = Len(b) + 1 /\ c[Len(b) + 1] = s[1] /\ 1 \in 1 .. f
      /\ \A i \in 1 .. Len(c) : i = Len(b) + 1 \/ (i \in 1 .. Len(b) /\ c[i] = b[i])
  OBVIOUS
<1> HIDE DEF c, g
<1>3. AllNoise(c, Len(c)) /\ AllNoise(t, g)
  BY <1>1, <1>2 DEF Calm, AllNoise
<1>4. OneCall(t, g) /\ (NoCall(s, f) => NoCall(t, g))
  <2>1. 1 \in 0 .. f /\ \A i \in 1 .. f - 1 : t[i] = s[i + 1]
    BY <1>1 DEF g
  <2> QED
    BY <2>1, OneCallShifts DEF Calm, g
<1>5. NoCall(s, f) /\ NoCall(b, Len(b)) => NoCall(c, Len(c))
  BY <1>2 DEF NoCall
<1>6. OneCall(c, Len(c)) /\ (NoCall(c, Len(c)) \/ NoCall(t, g))
  <2>1. CASE s[1] = CtrlC
    <3>1. NoCall(t, g)
      BY <1>1, <1>2, <2>1 DEF Calm, OneCall, NoCall
    <3>2. NoCall(b, Len(b))
      BY <1>2, <2>1 DEF Calm, NoCall
    <3>3. OneCall(c, Len(c))
      BY <1>2, <3>2 DEF NoCall, OneCall
    <3> QED
      BY <3>1, <3>3
  <2>2. CASE s[1] # CtrlC
    <3>1. OneCall(c, Len(c))
      BY <1>2, <2>2 DEF Calm, OneCall
    <3>2. NoCall(b, Len(b)) => NoCall(c, Len(c))
      BY <1>2, <2>2 DEF NoCall
    <3> QED
      BY <1>4, <3>1, <3>2 DEF Calm
  <2> QED
    BY <2>1, <2>2
<1>7. Len(c) + g <= Limit
  BY <1>1, <1>2 DEF Calm, Limit
<1> QED
  BY <1>2, <1>3, <1>4, <1>5, <1>6, <1>7 DEF Calm, c, g

(* A client acknowledges, or interrupts.                                     *)
LEMMA CalmGrows ==
    ASSUME NEW b \in Seq(Octet), NEW s \in Seq(Octet), NEW t \in Seq(Octet), NEW stopping \in BOOLEAN,
           Calm(b, s, Len(s), stopping), Len(b) + Len(s) < Limit
    PROVE  /\ Extended(s, t, Plus) => /\ Calm(b, t, Len(t), stopping)
                                      /\ NoCall(s, Len(s)) <=> NoCall(t, Len(t))
           /\ Extended(s, t, CtrlC) /\ ~stopping /\ NoCall(s, Len(s)) /\ NoCall(b, Len(b)) =>
                /\ Calm(b, t, Len(t), stopping)
<1>1. Len(s) \in Nat /\ Len(b) \in Nat
  OBVIOUS
<1>2. ASSUME Extended(s, t, Plus)
      PROVE  Calm(b, t, Len(t), stopping) /\ (NoCall(s, Len(s)) <=> NoCall(t, Len(t)))
  <2>1. /\ Len(t) = Len(s) + 1 /\ t[Len(t)] = Plus
        /\ \A i \in 1 .. Len(t) : i = Len(t) \/ (i \in 1 .. Len(s) /\ t[i] = s[i])
        /\ \A i \in 1 .. Len(s) : i \in 1 .. Len(t) /\ t[i] = s[i]
    BY <1>1, <1>2 DEF Extended
  <2>2. NoCall(s, Len(s)) <=> NoCall(t, Len(t))
    BY <2>1 DEF NoCall, Plus, CtrlC
  <2>3. AllNoise(t, Len(t)) /\ OneCall(t, Len(t))
    <3>1. AllNoise(s, Len(s)) /\ OneCall(s, Len(s))
      BY DEF Calm
    <3>2. AllNoise(t, Len(t))
      BY <2>1, <3>1 DEF AllNoise, Noise
    <3>3. \A i \in 1 .. Len(t) : t[i] = CtrlC => i \in 1 .. Len(s) /\ s[i] = CtrlC
      BY <2>1 DEF Plus, CtrlC
    <3> QED
      BY <3>1, <3>2, <3>3 DEF OneCall
  <2>4. Len(b) + Len(t) <= Limit
    BY <1>1, <2>1 DEF Limit
  <2> QED
    BY <2>2, <2>3, <2>4 DEF Calm
<1>3. ASSUME Extended(s, t, CtrlC), ~stopping, NoCall(s, Len(s)), NoCall(b, Len(b))
      PROVE  Calm(b, t, Len(t), stopping)
  <2>1. /\ Len(t) = Len(s) + 1 /\ t[Len(t)] = CtrlC
        /\ \A i \in 1 .. Len(t) : i = Len(t) \/ (i \in 1 .. Len(s) /\ t[i] = s[i])
    BY <1>1, <1>3 DEF Extended
  <2>2. AllNoise(t, Len(t)) /\ OneCall(t, Len(t))
    BY <1>3, <2>1 DEF Calm, AllNoise, OneCall, NoCall, Noise
  <2>3. Len(b) + Len(t) <= Limit
    BY <1>1, <2>1 DEF Limit
  <2> QED
    BY <1>3, <2>2, <2>3 DEF Calm
<1> QED
  BY <1>2, <1>3

(* What is behind the noise does not matter to it.                           *)
LEMMA CalmAlike ==
    ASSUME NEW b, NEW s, NEW t, NEW f \in Nat, NEW stopping,
           \A i \in 1 .. f : t[i] = s[i], Calm(b, s, f, stopping)
    PROVE  Calm(b, t, f, stopping) /\ (NoCall(s, f) <=> NoCall(t, f))
BY DEF Calm, AllNoise, OneCall, NoCall

-------------------------------------------------------------------------------
(* Messages to the client                                                    *)

(* What is under way to a client: sequences of messages, of which all are    *)
(* stops but one.                                                            *)
Listed(s) == s \in Seq({s[i] : i \in DOMAIN s})
StopsIn(s, a, b) == \A i \in a .. b : s[i].kind = "stop"
OneIn(s, b, k) ==
    \E i \in 1 .. b : s[i].kind = k /\ StopsIn(s, 1, i - 1) /\ StopsIn(s, i + 1, b)
OnlyStops(s) == StopsIn(s, 1, Len(s))
OneReply(s, k) == OneIn(s, Len(s), k)

LEMMA ListedLength == ASSUME NEW s, Listed(s) PROVE Len(s) \in Nat
BY DEF Listed

(* A message is sent.                                                        *)
LEMMA ListedAppend ==
    ASSUME NEW s, Listed(s), NEW m
    PROVE  /\ Listed(Append(s, m)) /\ Len(Append(s, m)) = Len(s) + 1 /\ Len(s) \in Nat
           /\ Append(s, m)[Len(s) + 1] = m
           /\ \A i \in 1 .. Len(s) : Append(s, m)[i] = s[i]
<1> DEFINE R == {s[i] : i \in DOMAIN s}
           S == R \cup {m}
           t == Append(s, m)
<1>1. s \in Seq(R)
  BY DEF Listed
<1> HIDE DEF R
<1>2. s \in Seq(S) /\ m \in S
  BY <1>1
<1>3. /\ t \in Seq(S) /\ Len(t) = Len(s) + 1 /\ Len(s) \in Nat /\ t[Len(s) + 1] = m
      /\ \A i \in 1 .. Len(s) : t[i] = s[i]
  BY <1>2
<1> HIDE DEF t, S
<1>4. t = [i \in 1 .. Len(t) |-> t[i]] /\ DOMAIN t = 1 .. Len(t) /\ Len(t) \in Nat
  BY <1>3
<1>5. Listed(t)
  BY <1>4 DEF Listed
<1> QED
  BY <1>3, <1>5 DEF t

(* A message is read.                                                        *)
LEMMA ListedTail ==
    ASSUME NEW s, Listed(s), s # <<>>
    PROVE  /\ Listed(Tail(s)) /\ Len(s) \in Nat \ {0} /\ Len(Tail(s)) = Len(s) - 1
           /\ Head(s) = s[1]
           /\ \A i \in 1 .. Len(s) - 1 : Tail(s)[i] = s[i + 1]
<1> DEFINE R == {s[i] : i \in DOMAIN s}
           t == Tail(s)
<1>1. s \in Seq(R)
  BY DEF Listed
<1> HIDE DEF R
<1>2. /\ t \in Seq(R) /\ Len(s) \in Nat \ {0} /\ Len(t) = Len(s) - 1 /\ Head(s) = s[1]
      /\ \A i \in 1 .. Len(s) - 1 : t[i] = s[i + 1]
  BY <1>1
<1> HIDE DEF t
<1>4. t = [i \in 1 .. Len(t) |-> t[i]] /\ DOMAIN t = 1 .. Len(t) /\ Len(t) \in Nat
  BY <1>2
<1>5. Listed(t)
  BY <1>4 DEF Listed
<1> QED
  BY <1>2, <1>5 DEF t

(* A stop is told behind what was sent before.                               *)
LEMMA StopTold ==
    ASSUME NEW s, Listed(s), NEW m, m.kind = "stop"
    PROVE  /\ OnlyStops(s) => OnlyStops(Append(s, m))
           /\ \A k : OneReply(s, k) => OneReply(Append(s, m), k)
<1> DEFINE t == Append(s, m)
<1>1. /\ Len(t) = Len(s) + 1 /\ Len(s) \in Nat /\ t[Len(s) + 1] = m
      /\ \A i \in 1 .. Len(s) : t[i] = s[i]
  BY ListedAppend
<1> HIDE DEF t
<1>2. OnlyStops(s) => OnlyStops(t)
  BY <1>1 DEF OnlyStops, StopsIn
<1>3. ASSUME NEW k, OneReply(s, k) PROVE OneReply(t, k)
  <2>1. PICK i \in 1 .. Len(s) :
            s[i].kind = k /\ StopsIn(s, 1, i - 1) /\ StopsIn(s, i + 1, Len(s))
    BY <1>3 DEF OneReply, OneIn
  <2>2. t[i].kind = k /\ StopsIn(t, 1, i - 1) /\ StopsIn(t, i + 1, Len(t))
    BY <1>1, <2>1 DEF StopsIn
  <2>3. i \in 1 .. Len(t)
    BY <1>1
  <2> QED
    BY <2>2, <2>3 DEF OneReply, OneIn
<1> QED
  BY <1>2, <1>3 DEF t

(* A reply is sent.                                                          *)
LEMMA ReplyAppended ==
    ASSUME NEW s, Listed(s), OnlyStops(s), NEW m
    PROVE  OneReply(Append(s, m), m.kind)
<1> DEFINE t == Append(s, m)
<1>1. /\ Len(t) = Len(s) + 1 /\ Len(s) \in Nat /\ t[Len(s) + 1] = m
      /\ \A i \in 1 .. Len(s) : t[i] = s[i]
  BY ListedAppend
<1> HIDE DEF t
<1>2. t[Len(t)].kind = m.kind /\ StopsIn(t, 1, Len(t) - 1) /\ StopsIn(t, Len(t) + 1, Len(t))
  BY <1>1 DEF OnlyStops, StopsIn
<1>3. Len(t) \in 1 .. Len(t)
  BY <1>1
<1> QED
  BY <1>2, <1>3 DEF OneReply, OneIn, t

(* What reading the first message leaves.                                    *)
LEMMA PrefixRead ==
    ASSUME NEW s, Listed(s), s # <<>>, NEW b \in 1 .. Len(s)
    PROVE  /\ StopsIn(s, 1, b) => s[1].kind = "stop" /\ StopsIn(Tail(s), 1, b - 1)
           /\ \A k : OneIn(s, b, k) =>
                \/ s[1].kind = k /\ StopsIn(Tail(s), 1, b - 1)
                \/ s[1].kind = "stop" /\ OneIn(Tail(s), b - 1, k)
<1> DEFINE t == Tail(s)
<1>1. /\ Len(s) \in Nat \ {0} /\ \A i \in 1 .. Len(s) - 1 : t[i] = s[i + 1]
  BY ListedTail
<1> HIDE DEF t
<1>2. StopsIn(s, 1, b) => s[1].kind = "stop" /\ StopsIn(t, 1, b - 1)
  BY <1>1 DEF StopsIn
<1>3. ASSUME NEW k, OneIn(s, b, k)
      PROVE  \/ s[1].kind = k /\ StopsIn(t, 1, b - 1)
             \/ s[1].kind = "stop" /\ OneIn(t, b - 1, k)
  <2>1. PICK i \in 1 .. b : s[i].kind = k /\ StopsIn(s, 1, i - 1) /\ StopsIn(s, i + 1, b)
    BY <1>3 DEF OneIn
  <2>2. CASE i = 1
    BY <1>1, <2>1, <2>2 DEF StopsIn
  <2>3. CASE i # 1
    <3>1. s[1].kind = "stop"
      BY <2>1, <2>3 DEF StopsIn
    <3>2. i - 1 \in 1 .. b - 1 /\ t[i - 1].kind = k
      BY <1>1, <2>1, <2>3
    <3>3. StopsIn(t, 1, (i - 1) - 1)
      BY <1>1, <2>1, <2>3 DEF StopsIn
    <3>4. StopsIn(t, (i - 1) + 1, b - 1)
      <4> SUFFICES ASSUME NEW j \in (i - 1) + 1 .. b - 1 PROVE t[j].kind = "stop"
        BY DEF StopsIn
      <4>1. j + 1 \in i + 1 .. b /\ j \in 1 .. Len(s) - 1
        BY <1>1, <2>3
      <4> QED
        BY <1>1, <2>1, <4>1 DEF StopsIn
    <3> QED
      BY <3>1, <3>2, <3>3, <3>4 DEF OneIn
  <2> QED
    BY <2>2, <2>3
<1> QED
  BY <1>2, <1>3 DEF t

LEMMA ReplyRead ==
    ASSUME NEW s, Listed(s), s # <<>>
    PROVE  /\ OnlyStops(s) => Head(s).kind = "stop" /\ OnlyStops(Tail(s))
           /\ \A k : OneReply(s, k) =>
                \/ Head(s).kind = k /\ OnlyStops(Tail(s))
                \/ Head(s).kind = "stop" /\ OneReply(Tail(s), k)
<1>1. Len(s) \in 1 .. Len(s) /\ Head(s) = s[1] /\ Len(Tail(s)) = Len(s) - 1
  BY ListedTail
<1> QED
  BY <1>1, PrefixRead DEF OnlyStops, OneReply

-------------------------------------------------------------------------------
(* The turn invariant                                                        *)

(* The command that is asked, and the bytes that ask it.                     *)
Cur == issued[Len(issued)]
Asks == Body[Cur]
Copy == AssemblePacket(Asks)

(* Each stop that may still be told will be acknowledged: that of a guest    *)
(* that runs, that of a Ctrl-C among the next f bytes, and that of one the   *)
(* client may still send.                                                    *)
Running == IF session.paused THEN 0 ELSE 1
Called(f) == IF server = "stop" \/ ~NoCall(Stream, f) THEN 1 ELSE 0
MayCall == IF client = "idle" /\ ~halted THEN 1 ELSE 0

(* Nothing of a packet was looked at yet.                                    *)
Open == server # "closed"
Between == ~inPacket /\ remaining = 0

(* In front of a packet is noise, and between two of them nothing but noise. *)
Lull(f) == Between /\ Calm(buffer, Stream, f, server = "stop")
Hush == server # "stop" /\ NoCall(buffer, Len(buffer)) /\ NoCall(Stream, Len(Stream))

(* How far the last command is.                                              *)
Undone == issued # <<>> /\ handled = Front(issued) /\ answered = Front(issued)
Done ==
    /\ issued # <<>> /\ handled = issued /\ answered = Front(issued)
    /\ session.ackMode = (acks /\ Cur.op # "QStartNoAckMode")

(* The server thread is at its loop, and owes nothing.                       *)
AtLoop == server \in {"recv", "bytes", "stop", "closed"}

(* The client has an answer to all it asked, and may interrupt the guest or  *)
(* ask for more. What it was told it acknowledges, and the buffer takes all  *)
(* of that as noise.                                                         *)
Rest ==
    /\ client \in {"idle", "stopping"} /\ handled = issued /\ answered = issued
    /\ OnlyStops(outbox) /\ AtLoop /\ session.ackMode = acks
    /\ Open => /\ Lull(Len(Stream))
               /\ Len(outbox) + Running + Called(Len(Stream)) + MayCall <= 2
               /\ Len(buffer) + Len(Stream) + Len(outbox) + Running
                    + Called(Len(Stream)) + 2 * MayCall <= Limit
               /\ MayCall = 1 => Hush

(* The copy of the packet from its byte pos + 1 on, behind f others.         *)
Coming(f, pos) ==
    LET size == Len(Asks) + 4
    IN  /\ f + (size - pos) <= Len(Stream)
        /\ \A i \in 1 .. size - pos : Stream[f + i] = Copy[pos + i]
        /\ \A i \in f + (size - pos) + 1 .. Len(Stream) : Stream[i] = Plus
        /\ Len(Stream) - f - (size - pos) + Len(outbox) + Running + Called(f) <= 2

(* The packet is behind the noise.                                           *)
Before == \E f \in 0 .. Len(Stream) : Lull(f) /\ Coming(f, 0)

(* The loop is at byte pos of the packet: it holds its bytes so far, or      *)
(* something that its checksum will tell from them.                          *)
Trailer(pos) == IF pos <= Len(Asks) + 1 THEN 0 ELSE pos - (Len(Asks) + 1)
Gone(pos) == IF pos <= Len(Asks) + 1 THEN pos - 1 ELSE Len(Asks)
Clean(pos) == Len(buffer) = pos /\ \A i \in 1 .. pos : buffer[i] = Copy[i]
Dirty(pos) ==
    /\ Len(buffer) > Trailer(pos)
    /\ Damage(Asks, Sum(SubSeq(buffer, 2, Len(buffer) - Trailer(pos))), Gone(pos))
    /\ Trailer(pos) = 2 => buffer[Len(buffer)] = Copy[Len(Asks) + 3]
Frame(pos) ==
    /\ inPacket <=> pos <= Len(Asks) + 1
    /\ remaining = IF pos = Len(Asks) + 2 THEN 2 ELSE IF pos = Len(Asks) + 3 THEN 1 ELSE 0
Within ==
    /\ server # "stop"
    /\ \E pos \in 1 .. Len(Asks) + 3 :
            Coming(0, pos) /\ Frame(pos) /\ (Clean(pos) \/ Dirty(pos))

(* The client waits for a packet to be taken that is under way.              *)
Sent ==
    /\ client = (IF acks THEN "ack" ELSE "answer") /\ Undone
    /\ OnlyStops(outbox) /\ AtLoop /\ session.ackMode = acks
    /\ Open => Before \/ Within

(* Nothing but acknowledgements is under way to the server.                  *)
Calmed(more) ==
    /\ Lull(Len(Stream)) /\ Hush
    /\ Len(buffer) + Len(Stream) + Len(outbox) + Running + more <= Limit

(* A packet was refused, and the client is to be told.                       *)
Refusal ==
    /\ client = "ack" /\ Undone /\ acks /\ session.ackMode
    /\ OneReply(outbox, "nak") /\ AtLoop
    /\ Open => Calmed(4)

(* The command is carried out, and its acknowledgement or its answer not     *)
(* sent.                                                                     *)
Taken ==
    /\ Done
    /\ \/ client = "ack" /\ acks /\ server \in {"plus", "closed"} /\ OnlyStops(outbox)
       \/ client = "ack" /\ acks /\ server \in {"answer", "closed"} /\ OneReply(outbox, "ack")
       \/ client = "answer" /\ server \in {"answer", "closed"} /\ OnlyStops(outbox)
    /\ Open => /\ response # <<>> /\ response[1] = Cur
               /\ Calmed(IF server = "plus" THEN 4 ELSE 3)

(* The answer is sent, and the client has not read it.                       *)
Answering(j) ==
    /\ outbox[j].kind = "answer" /\ outbox[j].of = Cur
    /\ StopsIn(outbox, j + 1, Len(outbox))
    /\ \/ client = "ack" /\ acks /\ OneIn(outbox, j - 1, "ack")
       \/ client = "answer" /\ StopsIn(outbox, 1, j - 1)

Told ==
    /\ Done /\ AtLoop
    /\ \E j \in 1 .. Len(outbox) :
            Answering(j) /\ (Open => Len(outbox) - j + Running <= 1)
    /\ Open => Calmed(2)

(* The client has given up, or waits for ever since it is told of nothing.   *)
Over ==
    /\ client = "gone" \/ (client = "answer" /\ ~acks /\ ~session.ackMode)
    /\ KeepsUpWith(handled, issued) /\ KeepsUpWith(answered, issued)
    /\ OnlyStops(outbox) /\ AtLoop
    /\ Open => Between /\ AllNoise(Stream, Len(Stream))

(* Whose turn it is.                                                         *)
Turn == Rest \/ Sent \/ Refusal \/ Taken \/ Told \/ Over

(* What the loop and the messages look like.                                 *)
Struct ==
    /\ server \in {"recv", "closed"} => chunk = <<>>
    /\ server = "bytes" => chunk # <<>>
    /\ Listed(outbox)

TurnInv == Struct /\ Turn

-------------------------------------------------------------------------------
(* What the packets of the commands are                                      *)

(* What lies between the first byte and the checksum.                        *)
LEMMA MiddleFacts ==
    ASSUME NEW s \in Seq(Octet), NEW h \in Nat, h <= Len(s), h >= 1
    PROVE  /\ SubSeq(s, 2, h) \in Seq(Octet) /\ Len(SubSeq(s, 2, h)) = h - 1
           /\ \A i \in 1 .. h - 1 : SubSeq(s, 2, h)[i] = s[i + 1]
<1>1. \A i \in 2 .. h : s[i] \in Octet
  OBVIOUS
<1> QED
  BY <1>1

(* Sequences that are alike are the same.                                    *)
LEMMA SameSequence ==
    ASSUME NEW s \in Seq(Octet), NEW t \in Seq(Octet), Len(s) = Len(t),
           \A i \in 1 .. Len(s) : s[i] = t[i]
    PROVE  s = t
OBVIOUS

(* A byte behind the middle does not change it.                              *)
LEMMA MiddleAppended ==
    ASSUME NEW s \in Seq(Octet), NEW c \in Octet, NEW h \in Nat, h >= 1, h <= Len(s)
    PROVE  /\ SubSeq(Append(s, c), 2, h) = SubSeq(s, 2, h)
           /\ SubSeq(Append(s, c), 2, Len(s) + 1) = Append(SubSeq(s, 2, Len(s)), c)
<1> DEFINE t == Append(s, c)
<1>1. /\ t \in Seq(Octet) /\ Len(t) = Len(s) + 1 /\ Len(s) \in Nat /\ t[Len(s) + 1] = c
      /\ \A i \in 1 .. Len(s) : t[i] = s[i]
  OBVIOUS
<1> HIDE DEF t
<1>2. /\ SubSeq(t, 2, h) \in Seq(Octet) /\ Len(SubSeq(t, 2, h)) = h - 1
      /\ \A i \in 1 .. h - 1 : SubSeq(t, 2, h)[i] = t[i + 1]
  BY <1>1, MiddleFacts
<1>3. /\ SubSeq(s, 2, h) \in Seq(Octet) /\ Len(SubSeq(s, 2, h)) = h - 1
      /\ \A i \in 1 .. h - 1 : SubSeq(s, 2, h)[i] = s[i + 1]
  BY MiddleFacts
<1>4. SubSeq(t, 2, h) = SubSeq(s, 2, h)
  BY <1>1, <1>2, <1>3, SameSequence
<1> DEFINE l == Len(s)
           u == SubSeq(t, 2, l + 1)
           v == SubSeq(s, 2, l)
<1>5. /\ u \in Seq(Octet) /\ Len(u) = (l + 1) - 1
      /\ \A i \in 1 .. (l + 1) - 1 : u[i] = t[i + 1]
  BY <1>1, MiddleFacts
<1>9. l \in Nat /\ l >= 1 /\ l <= Len(s)
  BY <1>1
<1>6. v \in Seq(Octet) /\ Len(v) = l - 1 /\ \A i \in 1 .. l - 1 : v[i] = s[i + 1]
  <2> HIDE DEF l
  <2> QED
    BY <1>9, MiddleFacts
<1> HIDE DEF u, v
<1>7. /\ Append(v, c) \in Seq(Octet) /\ Len(Append(v, c)) = l /\ Append(v, c)[l] = c
      /\ \A i \in 1 .. l - 1 : Append(v, c)[i] = v[i]
  BY <1>1, <1>6
<1>8. u = Append(v, c)
  <2>2. Len(u) = l /\ \A i \in 1 .. l : u[i] = t[i + 1]
    BY <1>5, <1>9
  <2>3. ASSUME NEW i \in 1 .. l PROVE u[i] = Append(v, c)[i]
    <3>1. CASE i = l
      BY <1>1, <1>7, <2>2, <3>1
    <3>2. CASE i # l
      <4>1. i \in 1 .. l - 1 /\ i + 1 \in 1 .. l
        BY <1>9, <3>2
      <4> QED
        BY <1>1, <1>6, <1>7, <2>2, <4>1
    <3> QED
      BY <3>1, <3>2
  <2>1. Len(u) = l /\ \A i \in 1 .. l : u[i] = Append(v, c)[i]
    BY <2>2, <2>3
  <2> QED
    BY <1>5, <1>7, <2>1, SameSequence
<1> QED
  BY <1>4, <1>8 DEF t, u, v

(* What was last and what is new.                                            *)
LEMMA FrontAppend ==
    ASSUME NEW S, NEW s \in Seq(S), NEW c \in S
    PROVE  /\ Front(Append(s, c)) = s
           /\ s # <<>> => Append(Front(s), s[Len(s)]) = s /\ s[Len(s)] \in S
BY DEF Front

(* handle_packet() finds the "#" where AssemblePacket() put it.              *)
LEMMA PayloadIs ==
    ASSUME NEW body \in Seq(Octet), \A i \in 1 .. Len(body) : body[i] # Hash
    PROVE  Payload(AssemblePacket(body)) = body
<1> DEFINE packet == AssemblePacket(body)
           n == Len(body)
           I == {i \in 1 .. Len(packet) : packet[i] = Hash}
<1>1. /\ packet \in Seq(Octet) /\ Len(packet) = n + 4 /\ n \in Nat
      /\ packet[1] = Dollar /\ packet[n + 2] = Hash
      /\ \A i \in 1 .. n : packet[i + 1] = body[i]
  BY PacketIs
<1>2. Payload(packet) = SubSeq(packet, 2, (IF I # {} THEN Min(I) ELSE 0) - 1)
  BY DEF Payload, SelectInSeq
<1> HIDE DEF packet
<1>3. n + 2 \in I /\ \A i \in I : n + 2 <= i
  <2>1. ASSUME NEW i \in I, i < n + 2 PROVE FALSE
    <3>1. i = 1 \/ (i - 1 \in 1 .. n /\ packet[(i - 1) + 1] = body[i - 1])
      BY <1>1, <2>1
    <3>2. packet[i] = Hash /\ i \in Nat
      BY <1>1
    <3>3. Dollar # Hash
      BY DEF Dollar, Hash
    <3> QED
      BY <1>1, <3>1, <3>2, <3>3
  <2> QED
    BY <1>1, <2>1
<1>4. Min(I) = n + 2 /\ I # {}
  <2>1. I \subseteq Nat
    BY <1>1
  <2>2. n + 2 \in Nat
    BY <1>1
  <2> HIDE DEF I, n
  <2>3. \A i \in I : (\A j \in I : i <= j) => i = n + 2
    BY <1>3, <2>1, <2>2
  <2> QED
    BY <1>3, <2>3 DEF Min
<1>5. Payload(packet) = SubSeq(packet, 2, n + 1)
  <2>1. (n + 2) - 1 = n + 1
    BY <1>1
  <2> HIDE DEF I, n
  <2> QED
    BY <1>2, <1>4, <2>1
<1>6. /\ SubSeq(packet, 2, n + 1) \in Seq(Octet) /\ Len(SubSeq(packet, 2, n + 1)) = (n + 1) - 1
      /\ \A i \in 1 .. (n + 1) - 1 : SubSeq(packet, 2, n + 1)[i] = packet[i + 1]
  BY <1>1, MiddleFacts
<1>7. Len(SubSeq(packet, 2, n + 1)) = n /\ \A i \in 1 .. n : SubSeq(packet, 2, n + 1)[i] = body[i]
  BY <1>1, <1>6
<1>8. SubSeq(packet, 2, n + 1) = body
  BY <1>6, <1>7, SameSequence
<1> QED
  BY <1>5, <1>8 DEF packet

(* It finds the command that was asked.                                      *)
LEMMA AskedIs ==
    ASSUME PlainBodies, NEW c \in Command
    PROVE  Body[c] \in Seq(Octet) /\ Asked(AssemblePacket(Body[c])) = c
<1>1. Body[c] \in Seq(Octet)
  BY BodyAssumption DEF Octet
<1>2. Payload(AssemblePacket(Body[c])) = Body[c]
  BY <1>1, PayloadIs DEF PlainBodies
<1>3. {d \in Command : Body[d] = Body[c]} = {c}
  BY DEF PlainBodies
<1> QED
  BY <1>1, <1>2, <1>3 DEF Asked

-------------------------------------------------------------------------------
(* Noise that moves                                                          *)

(* What IInv says of the bytes under way.                                    *)
LEMMA Types ==
    ASSUME IInv
    PROVE  /\ chunk \in Seq(Octet) /\ wire \in Seq(Octet) /\ buffer \in Seq(Octet)
           /\ Stream \in Seq(Octet) /\ Len(Stream) = Len(chunk) + Len(wire)
           /\ Len(Stream) \in Nat /\ Len(chunk) \in Nat /\ Len(wire) \in Nat
           /\ Len(buffer) \in Nat
           /\ inPacket \in BOOLEAN /\ remaining \in 0 .. 2
           /\ issued \in Seq(Command)
           /\ \A i \in 1 .. Len(chunk) : Stream[i] = chunk[i]
           /\ \A i \in 1 .. Len(wire) : Stream[Len(chunk) + i] = wire[i]
<1>1. /\ chunk \in Seq(Octet) /\ wire \in Seq(Octet) /\ buffer \in Seq(Octet)
      /\ inPacket \in BOOLEAN /\ remaining \in 0 .. 2
      /\ issued \in Seq(Command)
  BY DEF IInv, TypeOK, ClientInv, Octet
<1>2. /\ Stream \in Seq(Octet) /\ Len(Stream) = Len(chunk) + Len(wire)
      /\ \A i \in 1 .. Len(chunk) : Stream[i] = chunk[i]
      /\ \A i \in 1 .. Len(wire) : Stream[Len(chunk) + i] = wire[i]
  BY <1>1 DEF Stream
<1> QED
  BY <1>1, <1>2

(* At most one stop is told.                                                 *)
Tells ==
    \/ outbox' = outbox
    \/ \E m : m.kind = "stop" /\ outbox' = Append(outbox, m)

(* What the client has and knows stays.                                      *)
Same == UNCHANGED <<client, acks, issued, handled, answered>> /\ session.ackMode' = session.ackMode

(* Noise comes nearer, or is looked at.                                      *)
Moved(f, d) ==
    /\ Shifted(Stream, Stream', d) /\ Lull(f - d)' /\ (Hush => Hush')
    /\ (Len(outbox) + Running + Called(f - d))' <= Len(outbox) + Running + Called(f)
    /\ Len(buffer') + Len(Stream') <= Len(buffer) + Len(Stream)
    /\ Tells /\ Same /\ halted' = halted /\ Open'

(* The connection ends.                                                      *)
Closing == server' = "closed" /\ chunk' = <<>> /\ Tells /\ Same

(* What is sent behind a stop.                                               *)
LEMMA TellsFacts ==
    ASSUME Listed(outbox), Tells
    PROVE  /\ Listed(outbox)'
           /\ OnlyStops(outbox) => OnlyStops(outbox)'
           /\ \A k : OneReply(outbox, k) => OneReply(outbox', k)
           /\ Len(outbox) \in Nat /\ Len(outbox') \in Nat
<1>1. CASE outbox' = outbox
  BY <1>1, ListedLength
<1>2. CASE \E m : m.kind = "stop" /\ outbox' = Append(outbox, m)
  <2>1. PICK m : m.kind = "stop" /\ outbox' = Append(outbox, m)
    BY <1>2
  <2> QED
    BY <2>1, ListedAppend, StopTold
<1> QED
  BY <1>1, <1>2 DEF Tells

LEMMA AnswerStays ==
    ASSUME Listed(outbox), Tells, Same, NEW j \in 1 .. Len(outbox), Answering(j)
    PROVE  /\ j \in 1 .. Len(outbox') /\ Answering(j)'
           /\ Len(outbox') - j >= 0
<1>1. /\ Len(outbox) \in Nat /\ Len(outbox') \in Nat /\ Len(outbox') >= Len(outbox)
      /\ \A i \in 1 .. Len(outbox) : outbox'[i] = outbox[i]
      /\ \A i \in Len(outbox) + 1 .. Len(outbox') : outbox'[i].kind = "stop"
  <2>1. CASE outbox' = outbox
    BY <2>1, ListedLength
  <2>2. CASE \E m : m.kind = "stop" /\ outbox' = Append(outbox, m)
    <3>1. PICK m : m.kind = "stop" /\ outbox' = Append(outbox, m)
      BY <2>2
    <3> QED
      BY <3>1, ListedAppend
  <2> QED
    BY <2>1, <2>2 DEF Tells
<1>2. j \in 1 .. Len(outbox') /\ Len(outbox') - j >= 0
  BY <1>1
<1>3. outbox'[j].kind = "answer" /\ outbox'[j].of = Cur'
  BY <1>1 DEF Answering, Same, Cur
<1>4. StopsIn(outbox', j + 1, Len(outbox'))
  <2>1. \A i \in j + 1 .. Len(outbox') :
            i \in j + 1 .. Len(outbox) \/ i \in Len(outbox) + 1 .. Len(outbox')
    BY <1>1
  <2> QED
    BY <1>1, <2>1 DEF StopsIn, Answering
<1>5. StopsIn(outbox, 1, j - 1) => StopsIn(outbox', 1, j - 1)
  BY <1>1 DEF StopsIn
<1>6. OneIn(outbox, j - 1, "ack") => OneIn(outbox', j - 1, "ack")
  <2> SUFFICES ASSUME OneIn(outbox, j - 1, "ack") PROVE OneIn(outbox', j - 1, "ack")
    OBVIOUS
  <2>1. PICK i \in 1 .. j - 1 :
            outbox[i].kind = "ack" /\ StopsIn(outbox, 1, i - 1) /\ StopsIn(outbox, i + 1, j - 1)
    BY DEF OneIn
  <2>2. outbox'[i].kind = "ack" /\ StopsIn(outbox', 1, i - 1) /\ StopsIn(outbox', i + 1, j - 1)
    BY <1>1, <2>1 DEF StopsIn
  <2> QED
    BY <2>2 DEF OneIn
<1> QED
  BY <1>2, <1>3, <1>4, <1>5, <1>6 DEF Answering, Same

(* Each phase stands noise that moves.                                       *)
LEMMA RestMoves ==
    ASSUME IInv, IInv', Listed(outbox), Rest, Open, AtLoop',
           NEW f \in Nat, f = Len(Stream), NEW d \in 0 .. f, Moved(f, d)
    PROVE  Rest'
<1>1. /\ Len(Stream') \in Nat /\ Len(Stream) \in Nat /\ Len(buffer) \in Nat /\ Len(buffer') \in Nat
      /\ Len(outbox) \in Nat /\ Len(outbox') \in Nat
  BY Types, TellsFacts DEF Moved
<1>2. Len(Stream') = f - d
  BY DEF Moved, Shifted
<1>3. Lull(Len(Stream))' /\ Called(f - d)' = Called(Len(Stream))'
  BY <1>2 DEF Moved, Lull, Called
<1> DEFINE c == Called(f)
           r == Running
           m == MayCall
           c1 == Called(Len(Stream))'
           r1 == Running'
           m1 == MayCall'
<1>4. r \in 0 .. 1 /\ m \in 0 .. 1 /\ c \in 0 .. 1 /\ r1 \in 0 .. 1 /\ c1 \in 0 .. 1
  BY DEF Running, MayCall, Called
<1>5. m1 = m
  BY DEF Moved, Same, MayCall
<1>6. Len(outbox') + r1 + c1 <= Len(outbox) + r + c
  BY <1>3 DEF Moved
<1>8. /\ Len(outbox) + r + c + m <= 2
      /\ Len(buffer) + Len(Stream) + Len(outbox) + r + c + 2 * m <= 7
      /\ m = 1 => Hush
  BY DEF Rest, Limit
<1>9. Len(buffer') + Len(Stream') <= Len(buffer) + Len(Stream)
  BY DEF Moved
<1> HIDE DEF c, r, m, c1, r1, m1
<1>10. /\ Len(outbox') + r1 + c1 + m1 <= 2
       /\ Len(buffer') + Len(Stream') + Len(outbox') + r1 + c1 + 2 * m1 <= Limit
  BY <1>1, <1>4, <1>5, <1>6, <1>8, <1>9 DEF Limit
<1>12. m1 = 1 => Hush'
  BY <1>5, <1>8 DEF Moved
<1>13. OnlyStops(outbox')
  BY TellsFacts DEF Moved, Rest
<1>14. /\ client' \in {"idle", "stopping"} /\ handled' = issued' /\ answered' = issued'
       /\ AtLoop' /\ session.ackMode' = acks'
  BY DEF Rest, Moved, Same
<1> QED
  BY <1>3, <1>10, <1>12, <1>13, <1>14 DEF Rest, c1, r1, m1

(* What is asked is one of the commands.                                     *)
LEMMA AsksTyped ==
    ASSUME IInv, issued # <<>>
    PROVE  Cur \in Command /\ Asks \in Seq(Octet) /\ Len(Asks) \in Nat
<1>1. issued \in Seq(Command)
  BY DEF IInv, ClientInv
<1>2. Cur \in Command
  BY <1>1 DEF Cur
<1>3. Asks \in Seq(Octet)
  BY <1>2, BodyAssumption DEF Asks, Octet
<1> QED
  BY <1>2, <1>3

LEMMA ComingMoves ==
    ASSUME IInv, IInv', Listed(outbox), issued # <<>>,
           NEW f \in 0 .. Len(Stream), Coming(f, 0), NEW d \in 0 .. f, Moved(f, d)
    PROVE  f - d \in 0 .. Len(Stream') /\ Coming(f - d, 0)'
<1> DEFINE size == Len(Asks) + 4
           g == f - d
<1>1. /\ Len(Stream') \in Nat /\ Len(Stream) \in Nat /\ size \in Nat /\ f \in Nat /\ d \in Nat
      /\ g \in Nat /\ g + d = f
  BY Types, AsksTyped
<1>2. /\ Len(Stream') = Len(Stream) - d
      /\ \A i \in 1 .. Len(Stream') : Stream'[i] = Stream[i + d]
  BY DEF Moved, Shifted
<1>3. /\ f + (size - 0) <= Len(Stream)
      /\ \A i \in 1 .. size - 0 : Stream[f + i] = Copy[0 + i]
      /\ \A i \in f + (size - 0) + 1 .. Len(Stream) : Stream[i] = Plus
      /\ Len(Stream) - f - (size - 0) + Len(outbox) + Running + Called(f) <= 2
  BY DEF Coming
<1>4. Asks' = Asks /\ Copy' = Copy
  BY DEF Moved, Same, Cur, Asks, Copy
<1>5. Len(outbox') + Running' + Called(g)' <= Len(outbox) + Running + Called(f)
  BY DEF Moved
<1>6. Len(outbox) \in Nat /\ Len(outbox') \in Nat
  BY TellsFacts DEF Moved
<1> DEFINE r == Running
           c == Called(f)
           r1 == Running'
           c1 == Called(g)'
<1>7. r \in Int /\ c \in Int /\ r1 \in Int /\ c1 \in Int
  BY DEF Running, Called
<1> HIDE DEF size, g, r, c, r1, c1
<1>8. g \in 0 .. Len(Stream') /\ g + (size - 0) <= Len(Stream')
  BY <1>1, <1>2, <1>3
<1>9. \A i \in 1 .. size - 0 : Stream'[g + i] = Copy[0 + i]
  <2> SUFFICES ASSUME NEW i \in 1 .. size - 0 PROVE Stream'[g + i] = Copy[0 + i]
    OBVIOUS
  <2>1. g + i \in 1 .. Len(Stream') /\ (g + i) + d = f + i
    BY <1>1, <1>8
  <2> QED
    BY <1>2, <1>3, <2>1
<1>10. \A i \in g + (size - 0) + 1 .. Len(Stream') : Stream'[i] = Plus
  <2> SUFFICES ASSUME NEW i \in g + (size - 0) + 1 .. Len(Stream') PROVE Stream'[i] = Plus
    OBVIOUS
  <2>1. i \in 1 .. Len(Stream') /\ i + d \in f + (size - 0) + 1 .. Len(Stream)
    BY <1>1, <1>2
  <2> QED
    BY <1>2, <1>3, <2>1
<1>11. Len(Stream') - g - (size - 0) + Len(outbox') + r1 + c1 <= 2
  <2>1. Len(outbox') + r1 + c1 <= Len(outbox) + r + c
    BY <1>5 DEF r, c, r1, c1
  <2>2. Len(Stream) - f - (size - 0) + Len(outbox) + r + c <= 2
    BY <1>3 DEF r, c
  <2> QED
    BY <1>1, <1>2, <1>6, <1>7, <2>1, <2>2
<1> QED
  BY <1>4, <1>8, <1>9, <1>10, <1>11 DEF Coming, size, g, r1, c1

LEMMA SentMoves ==
    ASSUME IInv, IInv', Listed(outbox), Sent, AtLoop', NEW f \in 0 .. Len(Stream), Lull(f), Coming(f, 0),
           NEW d \in 0 .. f, Moved(f, d)
    PROVE  Sent'
<1>1. issued # <<>>
  BY DEF Sent, Undone
<1>2. f - d \in 0 .. Len(Stream') /\ Coming(f - d, 0)' /\ Lull(f - d)'
  BY <1>1, ComingMoves DEF Moved
<1>3. Before'
  BY <1>2 DEF Before
<1>4. Undone'
  BY DEF Sent, Undone, Moved, Same
<1>5. OnlyStops(outbox')
  BY TellsFacts DEF Moved, Sent
<1>6. /\ client' = (IF acks' THEN "ack" ELSE "answer") /\ AtLoop' /\ session.ackMode' = acks'
  BY DEF Sent, Moved, Same
<1> QED
  BY <1>3, <1>4, <1>5, <1>6 DEF Sent

LEMMA CalmedMoves ==
    ASSUME IInv, IInv', Listed(outbox), NEW more \in Nat, Calmed(more),
           NEW f \in Nat, f = Len(Stream), NEW d \in 0 .. f, Moved(f, d)
    PROVE  Calmed(more)' /\ Len(outbox') + Running' <= Len(outbox) + Running
<1>1. /\ Len(Stream') \in Nat /\ Len(Stream) \in Nat /\ Len(buffer) \in Nat /\ Len(buffer') \in Nat
      /\ Len(outbox) \in Nat /\ Len(outbox') \in Nat
  BY Types, TellsFacts DEF Moved
<1>2. Len(Stream') = f - d
  BY DEF Moved, Shifted
<1>3. Lull(Len(Stream))' /\ Called(f - d)' = Called(Len(Stream))'
  BY <1>2 DEF Moved, Lull, Called
<1>4. Hush /\ Hush'
  BY DEF Calmed, Moved
<1>5. Called(f) = 0
  BY <1>4 DEF Hush, Called
<1>6. Called(f - d)' = 0
  BY <1>3, <1>4 DEF Hush, Called
<1> DEFINE r == Running
           r1 == Running'
<1>7. r \in 0 .. 1 /\ r1 \in 0 .. 1
  BY DEF Running
<1>8. Len(outbox') + r1 + 0 <= Len(outbox) + r + 0
  BY <1>5, <1>6 DEF Moved
<1>9. /\ Len(buffer') + Len(Stream') <= Len(buffer) + Len(Stream)
      /\ Len(buffer) + Len(Stream) + Len(outbox) + r + more <= 7
  BY DEF Moved, Calmed, Limit
<1> HIDE DEF r, r1
<1>10. /\ Len(buffer') + Len(Stream') + Len(outbox') + r1 + more <= Limit
       /\ Len(outbox') + r1 <= Len(outbox) + r
  BY <1>1, <1>7, <1>8, <1>9 DEF Limit
<1> QED
  BY <1>3, <1>4, <1>10 DEF Calmed, r, r1

LEMMA RefusalMoves ==
    ASSUME IInv, IInv', Listed(outbox), Refusal, Open, AtLoop',
           NEW f \in Nat, f = Len(Stream), NEW d \in 0 .. f, Moved(f, d)
    PROVE  Refusal'
<1>1. Calmed(4)'
  BY CalmedMoves DEF Refusal
<1>2. Undone' /\ client' = "ack" /\ acks' /\ session.ackMode' /\ AtLoop'
  BY DEF Refusal, Undone, Moved, Same
<1>3. OneReply(outbox', "nak")
  BY TellsFacts DEF Moved, Refusal
<1> QED
  BY <1>1, <1>2, <1>3 DEF Refusal

LEMMA ToldMoves ==
    ASSUME IInv, IInv', Listed(outbox), Told, Open, AtLoop',
           NEW f \in Nat, f = Len(Stream), NEW d \in 0 .. f, Moved(f, d)
    PROVE  Told'
<1>1. Calmed(2)' /\ Len(outbox') + Running' <= Len(outbox) + Running
  BY CalmedMoves DEF Told
<1>2. Done' /\ AtLoop'
  BY DEF Told, Done, Moved, Same, Cur
<1>3. PICK j \in 1 .. Len(outbox) : Answering(j) /\ Len(outbox) - j + Running <= 1
  BY DEF Told
<1>4. j \in 1 .. Len(outbox') /\ Answering(j)'
  BY <1>3, AnswerStays DEF Moved
<1>5. Len(outbox') - j + Running' <= 1
  <2> DEFINE r == Running
             r1 == Running'
  <2>1. r \in 0 .. 1 /\ r1 \in 0 .. 1
    BY DEF Running
  <2>2. Len(outbox) \in Nat /\ Len(outbox') \in Nat
    BY TellsFacts DEF Moved
  <2>3. Len(outbox') + r1 <= Len(outbox) + r /\ Len(outbox) - j + r <= 1
    BY <1>1, <1>3
  <2> HIDE DEF r, r1
  <2>4. Len(outbox') - j + r1 <= 1
    BY <2>1, <2>2, <2>3
  <2> QED
    BY <2>4 DEF r1
<1> QED
  BY <1>1, <1>2, <1>4, <1>5 DEF Told

(* The connection ends: what is owed to the client stays owed.               *)
LEMMA ClosingKeeps ==
    ASSUME TurnInv, Closing
    PROVE  TurnInv'
<1>1. Listed(outbox) /\ Tells /\ Same /\ server' = "closed" /\ chunk' = <<>>
  BY DEF TurnInv, Struct, Closing
<1>2. /\ Listed(outbox)' /\ (OnlyStops(outbox) => OnlyStops(outbox'))
      /\ \A k : OneReply(outbox, k) => OneReply(outbox', k)
  BY <1>1, TellsFacts
<1>3. Struct'
  BY <1>1, <1>2 DEF Struct
<1>4. ~Open' /\ AtLoop'
  BY <1>1 DEF Open, AtLoop
<1>5. /\ client' = client /\ acks' = acks /\ issued' = issued /\ handled' = handled
      /\ answered' = answered /\ session.ackMode' = session.ackMode
  BY <1>1 DEF Same
<1>6. CASE Rest
  <2>1. Rest'
    BY <1>2, <1>4, <1>5, <1>6 DEF Rest
  <2> QED
    BY <1>3, <2>1 DEF TurnInv, Turn
<1>7. CASE Sent
  <2>1. Sent'
    BY <1>2, <1>4, <1>5, <1>7 DEF Sent, Undone
  <2> QED
    BY <1>3, <2>1 DEF TurnInv, Turn
<1>8. CASE Refusal
  <2>1. Refusal'
    BY <1>2, <1>4, <1>5, <1>8 DEF Refusal, Undone
  <2> QED
    BY <1>3, <2>1 DEF TurnInv, Turn
<1>9. CASE Taken
  <2>1. Done'
    BY <1>5, <1>9 DEF Taken, Done, Cur
  <2>2. Taken'
    BY <1>1, <1>2, <1>4, <1>5, <1>9, <2>1 DEF Taken
  <2> QED
    BY <1>3, <2>2 DEF TurnInv, Turn
<1>10. CASE Told
  <2>1. Done'
    BY <1>5, <1>10 DEF Told, Done, Cur
  <2>2. PICK j \in 1 .. Len(outbox) : Answering(j)
    BY <1>10 DEF Told
  <2>3. j \in 1 .. Len(outbox') /\ Answering(j)'
    BY <1>1, <2>2, AnswerStays
  <2>4. Told'
    BY <1>4, <2>1, <2>3 DEF Told
  <2> QED
    BY <1>3, <2>4 DEF TurnInv, Turn
<1>11. CASE Over
  <2>1. Over'
    BY <1>2, <1>4, <1>5, <1>11 DEF Over
  <2> QED
    BY <1>3, <2>1 DEF TurnInv, Turn
<1> QED
  BY <1>6, <1>7, <1>8, <1>9, <1>10, <1>11 DEF TurnInv, Turn

(* The ways in which a connection ends.                                      *)
LEMMA IdleCloses ==
    ASSUME Idle("closed"), Tells, Same
    PROVE  Closing
BY DEF Idle, Closing

LEMMA ExitTurns == ASSUME TurnInv, Exit PROVE TurnInv'
<1>1. Closing
  BY DEF Exit, Idle, Closing, Tells, Same, history
<1> QED
  BY <1>1, ClosingKeeps

LEMMA DisconnectedTurns == ASSUME TurnInv, Disconnected PROVE TurnInv'
<1>1. Closing
  BY DEF Disconnected, Idle, Closing, Tells, Same, history
<1> QED
  BY <1>1, ClosingKeeps

(* A packet stays where it is while the guest stops.                         *)
LEMMA ShiftedNot == ASSUME NEW s \in Seq(Octet) PROVE Shifted(s, s, 0)
BY DEF Shifted

LEMMA ComingStays ==
    ASSUME NEW f \in Nat, NEW pos \in Nat, Coming(f, pos), Stream' = Stream, issued' = issued,
           Len(outbox') + Running' + Called(f)' <= Len(outbox) + Running + Called(f),
           Len(outbox) \in Nat, Len(outbox') \in Nat, IInv, issued # <<>>
    PROVE  Coming(f, pos)'
<1> DEFINE load == Len(outbox) + Running + Called(f)
           load1 == Len(outbox') + Running' + Called(f)'
           ahead == Len(Stream) - f - (Len(Asks) + 4 - pos)
<1>1. load \in Int /\ load1 \in Int /\ ahead \in Int
  BY Types, AsksTyped DEF Running, Called
<1>2. ahead + load <= 2
  <2>1. ahead + Len(outbox) + Running + Called(f) <= 2
    BY DEF Coming
  <2>2. ahead \in Int /\ Len(outbox) \in Int /\ Running \in Int /\ Called(f) \in Int
    BY <1>1 DEF Running, Called
  <2> HIDE DEF ahead
  <2> QED
    BY <2>1, <2>2
<1>3. ahead + load1 <= 2
  <2> HIDE DEF load, load1, ahead
  <2>1. load1 <= load
    BY DEF load, load1
  <2> QED
    BY <1>1, <1>2, <2>1
<1>4. ahead + Len(outbox') + Running' + Called(f)' <= 2
  <2>1. Running' \in Int /\ Called(f)' \in Int
    BY DEF Running, Called
  <2>2. ahead \in Int
    BY <1>1
  <2> HIDE DEF ahead
  <2> QED
    BY <1>3, <2>1, <2>2
<1>5. Asks' = Asks /\ Copy' = Copy
  BY DEF Cur, Asks, Copy
<1> QED
  BY <1>4, <1>5 DEF Coming

LEMMA WithinStays ==
    ASSUME Within, IInv, issued # <<>>, UNCHANGED <<framing, wire, server, issued>>,
           Len(outbox') + Running' + Called(0)' <= Len(outbox) + Running + Called(0),
           Len(outbox) \in Nat, Len(outbox') \in Nat
    PROVE  Within'
<1>1. PICK pos \in 1 .. Len(Asks) + 3 :
            Coming(0, pos) /\ Frame(pos) /\ (Clean(pos) \/ Dirty(pos))
  BY DEF Within
<1>2. UNCHANGED <<chunk, buffer, inPacket, remaining>>
  BY DEF framing
<1>3. Stream' = Stream /\ Asks' = Asks /\ Copy' = Copy
  BY <1>2 DEF Stream, Asks, Cur, Copy
<1>4. pos \in Nat /\ 0 \in Nat
  BY AsksTyped
<1>5. Coming(0, pos)'
  BY <1>1, <1>3, <1>4, ComingStays
<1>6. Frame(pos)'
  BY <1>1, <1>2, <1>3 DEF Frame
<1>7. Clean(pos) => Clean(pos)'
  BY <1>2, <1>3 DEF Clean
<1>8. Dirty(pos) => Dirty(pos)'
  BY <1>2, <1>3 DEF Dirty, Trailer, Gone
<1> QED
  BY <1>1, <1>3, <1>5, <1>6, <1>7, <1>8 DEF Within

(* A stop that was expected is told.                                         *)
LEMMA ReportMoves ==
    ASSUME IInv, Listed(outbox), Report, NEW f \in Nat
    PROVE  /\ Tells /\ Same /\ Stream' = Stream /\ server' = server /\ Open' /\ Open
           /\ Len(outbox') + Running' + Called(f)' <= Len(outbox) + Running + Called(f)
           /\ Lull(f) => Moved(f, 0)
           /\ UNCHANGED <<framing, wire, server, issued, response>>
<1>1. /\ UNCHANGED <<wire, framing, response, server, client, acks, halted, history>>
      /\ outbox' = Append(outbox, Message("stop", Nothing, <<>>)) /\ ~session.paused
      /\ session' = [session EXCEPT !.paused = TRUE] /\ server # "closed" /\ server # "stop"
  BY DEF Report, Sends
<1>2. session'.paused /\ session'.ackMode = session.ackMode
  BY <1>1 DEF IInv, Typed
<1>3. Tells /\ Same /\ Open /\ Open'
  BY <1>1, <1>2 DEF Tells, Message, Same, history, Open
<1>4. UNCHANGED <<chunk, buffer, inPacket, remaining>> /\ Stream' = Stream /\ halted' = halted
  BY <1>1 DEF framing, Stream
<1>5. Len(outbox') = Len(outbox) + 1 /\ Len(outbox) \in Nat
  BY <1>1, ListedAppend
<1>6. Running = 1 /\ Running' = 0
  BY <1>1, <1>2 DEF Running
<1>7. Called(f)' = Called(f) /\ Called(f) \in 0 .. 1
  BY <1>1, <1>4 DEF Called
<1>8. Len(outbox') + Running' + Called(f)' <= Len(outbox) + Running + Called(f)
  <2> DEFINE c == Called(f)
  <2> HIDE DEF c
  <2>1. (Len(outbox) + 1) + 0 + c <= Len(outbox) + 1 + c
    BY <1>5, <1>7 DEF c
  <2> QED
    BY <1>5, <1>6, <1>7, <2>1 DEF c
<1>9. ASSUME Lull(f) PROVE Moved(f, 0)
  <2>1. f - 0 = f
    OBVIOUS
  <2>2. Lull(f)' /\ (Hush => Hush')
    BY <1>1, <1>4, <1>9 DEF Lull, Between, Hush
  <2>3. Shifted(Stream, Stream', 0)
    BY <1>4, Types, ShiftedNot
  <2>4. Len(buffer') + Len(Stream') <= Len(buffer) + Len(Stream)
    BY <1>4, Types
  <2> QED
    BY <1>3, <1>4, <1>8, <2>1, <2>2, <2>3, <2>4 DEF Moved
<1> QED
  BY <1>1, <1>3, <1>4, <1>8, <1>9 DEF history

(* A phase that has nothing of a packet before the loop.                     *)
LEMMA MovedKeeps ==
    ASSUME IInv, IInv', Struct, Struct', Rest \/ Refusal \/ Told, Open, AtLoop',
           NEW f \in Nat, f = Len(Stream), NEW d \in 0 .. f, Moved(f, d)
    PROVE  TurnInv'
BY RestMoves, RefusalMoves, ToldMoves DEF Struct, TurnInv, Turn

(* Phases at the loop.                                                       *)
LEMMA LullAtLoop ==
    ASSUME Rest \/ Refusal \/ Told, Open, NEW f, f = Len(Stream)
    PROVE  Lull(f) /\ AtLoop
BY DEF Rest, Refusal, Told, Calmed, Lull

(* The emulator thread reports a stop.                                       *)
LEMMA ReportTurns ==
    ASSUME IInv, IInv', TurnInv, Report
    PROVE  TurnInv'
<1>1. Listed(outbox) /\ Struct /\ Turn
  BY DEF TurnInv, Struct
<1>2. /\ Tells /\ Same /\ Stream' = Stream /\ server' = server /\ Open' /\ Open
      /\ UNCHANGED <<framing, wire, issued, response>>
  BY <1>1, ReportMoves
<1>3. Listed(outbox)' /\ Len(outbox) \in Nat /\ Len(outbox') \in Nat
  BY <1>1, <1>2, TellsFacts
<1>4. Struct'
  BY <1>1, <1>2, <1>3 DEF Struct, framing
<1>5. PICK f \in Nat : f = Len(Stream)
  BY Types
<1>6. CASE Rest \/ Refusal \/ Told
  <2>1. Lull(f) /\ AtLoop /\ AtLoop'
    BY <1>2, <1>5, <1>6, LullAtLoop DEF AtLoop
  <2>2. Moved(f, 0)
    BY <1>1, <2>1, ReportMoves
  <2> QED
    BY <1>1, <1>2, <1>4, <1>5, <1>6, <2>1, <2>2, MovedKeeps
<1>7. CASE Sent
  <2>1. AtLoop'
    BY <1>2, <1>7 DEF Sent, AtLoop
  <2>2. CASE Before
    <3>1. PICK g \in 0 .. Len(Stream) : Lull(g) /\ Coming(g, 0)
      BY <2>2 DEF Before
    <3>2. g \in Nat /\ 0 \in 0 .. g
      BY Types
    <3>3. Moved(g, 0)
      BY <1>1, <3>1, <3>2, ReportMoves
    <3>4. Sent'
      BY <1>1, <1>7, <2>1, <3>1, <3>2, <3>3, SentMoves
    <3> QED
      BY <1>4, <3>4 DEF TurnInv, Turn
  <2>3. CASE Within
    <3>1. Len(outbox') + Running' + Called(0)' <= Len(outbox) + Running + Called(0)
      BY <1>1, ReportMoves
    <3>2. Within'
      BY <1>2, <1>3, <1>7, <2>3, <3>1, WithinStays DEF Sent, Undone
    <3>3. Undone' /\ OnlyStops(outbox') /\ session.ackMode' = acks'
          /\ client' = (IF acks' THEN "ack" ELSE "answer")
      BY <1>1, <1>2, <1>7, TellsFacts DEF Sent, Undone, Same
    <3>4. Sent'
      BY <2>1, <3>2, <3>3 DEF Sent
    <3> QED
      BY <1>4, <3>4 DEF TurnInv, Turn
  <2> QED
    BY <1>2, <1>7, <2>2, <2>3 DEF Sent
<1>8. CASE Taken
  <2> DEFINE more == IF server = "plus" THEN 4 ELSE 3
  <2>1. Calmed(more) /\ more \in Nat
    BY <1>2, <1>8 DEF Taken
  <2>2. Lull(f) /\ 0 \in 0 .. f
    BY <1>5, <2>1 DEF Calmed, Lull
  <2>3. Moved(f, 0)
    BY <1>1, <2>2, ReportMoves
  <2>4. Calmed(more)'
    <3>1. PICK n \in Nat : n = more
      BY <2>1
    <3>2. Calmed(n)
      BY <2>1, <3>1
    <3>3. Calmed(n)'
      BY <1>1, <1>5, <2>2, <2>3, <3>2, CalmedMoves
    <3>4. more' = n
      BY <1>2, <3>1
    <3> QED
      BY <3>3, <3>4 DEF Calmed
  <2>5. Done'
    BY <1>2, <1>8 DEF Taken, Done, Same, Cur
  <2>6. /\ OnlyStops(outbox) => OnlyStops(outbox')
        /\ OneReply(outbox, "ack") => OneReply(outbox', "ack")
    BY <1>1, <1>2, TellsFacts
  <2>7. response' = response /\ Cur' = Cur /\ client' = client /\ acks' = acks
    BY <1>2 DEF Same, Cur
  <2>8. Taken'
    BY <1>2, <1>8, <2>4, <2>5, <2>6, <2>7 DEF Taken
  <2> QED
    BY <1>4, <2>8 DEF TurnInv, Turn
<1>9. CASE Over
  <2>1. OnlyStops(outbox')
    BY <1>1, <1>2, <1>9, TellsFacts DEF Over
  <2>2. Between' /\ AllNoise(Stream, Len(Stream))'
    BY <1>2, <1>9 DEF Over, Between, framing
  <2>3. Over'
    BY <1>2, <1>9, <2>1, <2>2 DEF Over, Same, AtLoop
  <2> QED
    BY <1>4, <2>3 DEF TurnInv, Turn
<1> QED
  BY <1>1, <1>6, <1>7, <1>8, <1>9 DEF Turn

(* handle_stop() is back.                                                    *)
LEMMA StopMoves ==
    ASSUME IInv, Struct, Stop, ~Full, NEW f \in Nat, Lull(f)
    PROVE  Moved(f, 0)
<1>1. /\ UNCHANGED <<wire, framing, client, acks, halted, history>>
      /\ outbox' = Append(outbox, Message("stop", Nothing, <<>>))
      /\ session' = [session EXCEPT !.paused = TRUE] /\ server = "stop"
      /\ server' = After(chunk)
  BY DEF Stop, Sends
<1>2. session'.paused /\ session'.ackMode = session.ackMode
  BY <1>1 DEF IInv, Typed
<1>3. Tells /\ Same /\ Open'
  BY <1>1, <1>2 DEF Tells, Message, Same, history, Open, After
<1>4. UNCHANGED <<chunk, buffer, inPacket, remaining>> /\ Stream' = Stream /\ halted' = halted
  BY <1>1 DEF framing, Stream
<1>5. Len(outbox') = Len(outbox) + 1 /\ Len(outbox) \in Nat
  BY <1>1, ListedAppend DEF Struct
<1>6. Running' = 0 /\ Running \in 0 .. 1
  BY <1>2 DEF Running
<1>7. Between /\ Calm(buffer, Stream, f, TRUE)
  BY <1>1 DEF Lull
<1>8. server' # "stop"
  BY <1>1 DEF After
<1>9. Called(f) = 1 /\ Called(f)' = 0
  BY <1>1, <1>4, <1>7, <1>8 DEF Called, Calm
<1>10. Lull(f)' /\ ~Hush
  BY <1>1, <1>4, <1>7, <1>8 DEF Lull, Calm, Between, Hush
<1>11. f - 0 = f
  OBVIOUS
<1>12. Shifted(Stream, Stream', 0)
  BY <1>4, Types, ShiftedNot
<1>13. Len(buffer') + Len(Stream') <= Len(buffer) + Len(Stream)
  BY <1>4, Types
<1>14. Len(outbox') + Running' + Called(f)' <= Len(outbox) + Running + Called(f)
  <2> DEFINE r == Running
  <2> HIDE DEF r
  <2>1. (Len(outbox) + 1) + 0 + 0 <= Len(outbox) + r + 1
    BY <1>5, <1>6 DEF r
  <2> QED
    BY <1>5, <1>6, <1>9, <2>1 DEF r
<1> QED
  BY <1>3, <1>4, <1>10, <1>11, <1>12, <1>13, <1>14 DEF Moved

LEMMA StopTurns ==
    ASSUME IInv, IInv', TurnInv, Stop
    PROVE  TurnInv'
<1>1. Listed(outbox) /\ Struct /\ Turn
  BY DEF TurnInv, Struct
<1>2. /\ UNCHANGED <<wire, client, acks, halted, history>>
      /\ outbox' = Append(outbox, Message("stop", Nothing, <<>>))
      /\ session' = [session EXCEPT !.paused = TRUE] /\ server = "stop"
  BY DEF Stop, Sends
<1>3. session'.ackMode = session.ackMode
  BY <1>2 DEF IInv, Typed
<1>4. Tells /\ Same
  BY <1>2, <1>3 DEF Tells, Message, Same, history
<1>5. CASE Full
  <2>1. Idle("closed")
    BY <1>5 DEF Stop
  <2> QED
    BY <1>4, <2>1, IdleCloses, ClosingKeeps
<1>6. CASE ~Full
  <2>1. server' = After(chunk) /\ UNCHANGED framing
    BY <1>6 DEF Stop
  <2>2. /\ UNCHANGED <<chunk, buffer, inPacket, remaining>> /\ Stream' = Stream
        /\ AtLoop' /\ Open /\ Open'
    BY <1>2, <2>1 DEF framing, Stream, AtLoop, After, Open
  <2>3. Listed(outbox)' /\ (OnlyStops(outbox) => OnlyStops(outbox'))
    BY <1>1, <1>4, TellsFacts
  <2>4. Struct'
    BY <2>1, <2>2, <2>3 DEF Struct, After
  <2>5. ~Within /\ ~Refusal /\ ~Told /\ ~Taken
    BY <1>2, <2>2 DEF Within, Refusal, Told, Taken, Calmed, Hush
  <2>6. PICK f \in Nat : f = Len(Stream)
    BY Types
  <2>7. CASE Rest
    <3>1. Lull(f) /\ 0 \in 0 .. f
      BY <2>2, <2>6, <2>7, LullAtLoop
    <3>2. Moved(f, 0)
      BY <1>1, <1>6, <3>1, StopMoves
    <3> QED
      BY <1>1, <2>2, <2>4, <2>6, <2>7, <3>1, <3>2, MovedKeeps
  <2>8. CASE Sent
    <3>1. PICK g \in 0 .. Len(Stream) : Lull(g) /\ Coming(g, 0)
      BY <2>2, <2>5, <2>8 DEF Sent, Before
    <3>2. g \in Nat /\ 0 \in 0 .. g
      BY Types
    <3>3. Moved(g, 0)
      BY <1>1, <1>6, <3>1, <3>2, StopMoves
    <3>4. Sent'
      BY <1>1, <2>2, <2>8, <3>1, <3>2, <3>3, SentMoves
    <3> QED
      BY <2>4, <3>4 DEF TurnInv, Turn
  <2>9. CASE Over
    <3>1. Between' /\ AllNoise(Stream, Len(Stream))'
      BY <2>2, <2>9 DEF Over, Between
    <3>2. Over'
      BY <1>4, <2>2, <2>3, <2>9, <3>1 DEF Over, Same
    <3> QED
      BY <2>4, <3>2 DEF TurnInv, Turn
  <2> QED
    BY <1>1, <2>5, <2>7, <2>8, <2>9 DEF Turn
<1> QED
  BY <1>5, <1>6

(* The acknowledgement and the answer are sent.                              *)
LEMMA SendPlusTurns ==
    ASSUME IInv, TurnInv, SendPlus
    PROVE  TurnInv'
<1>1. Listed(outbox) /\ Struct /\ Turn
  BY DEF TurnInv, Struct
<1>2. /\ UNCHANGED <<session, wire, framing, response, client, acks, history>>
      /\ server = "plus" /\ server' = "answer"
      /\ outbox' = Append(outbox, Message("ack", Nothing, <<>>))
  BY DEF SendPlus, Sends
<1>3. UNCHANGED <<chunk, buffer, inPacket, remaining, issued, handled, answered>>
      /\ Stream' = Stream
  BY <1>2 DEF framing, Stream, history
<1>4. Taken
  BY <1>1, <1>2 DEF Turn, Rest, Sent, Refusal, Told, Over, AtLoop
<1>5. Done' /\ client' = "ack" /\ acks' /\ OnlyStops(outbox)
  BY <1>2, <1>3, <1>4 DEF Taken, Done, Cur
<1>6. OneReply(outbox', "ack")
  BY <1>1, <1>2, <1>5, ReplyAppended DEF Message
<1>7. Listed(outbox)' /\ Len(outbox') = Len(outbox) + 1 /\ Len(outbox) \in Nat
  BY <1>1, <1>2, ListedAppend
<1>8. Calmed(4) /\ response # <<>> /\ response[1] = Cur
  BY <1>2, <1>4 DEF Taken, Open
<1>9. Calmed(3)'
  <2>1. Lull(Len(Stream))' /\ Hush'
    BY <1>2, <1>3, <1>8 DEF Calmed, Lull, Hush, Between
  <2>2. Running' = Running /\ Running \in 0 .. 1
    BY <1>2 DEF Running
  <2>3. Len(buffer) + Len(Stream) + Len(outbox) + Running + 4 <= 7
    BY <1>8 DEF Calmed, Limit
  <2>4. Len(buffer') + Len(Stream') + Len(outbox') + Running' + 3 <= Limit
    <3> DEFINE r == Running
    <3> HIDE DEF r
    <3>1. Len(buffer) + Len(Stream) + (Len(outbox) + 1) + r + 3 <= Limit
      BY <1>7, <2>2, <2>3, Types DEF r, Limit
    <3> QED
      BY <1>3, <1>7, <2>2, <3>1 DEF r
  <2> QED
    BY <2>1, <2>4 DEF Calmed
<1>10. Taken'
  BY <1>2, <1>3, <1>5, <1>6, <1>8, <1>9 DEF Taken, Cur
<1>11. Struct'
  BY <1>2, <1>7 DEF Struct
<1> QED
  BY <1>10, <1>11 DEF TurnInv, Turn

LEMMA SendAnswerTurns ==
    ASSUME IInv, TurnInv, SendAnswer
    PROVE  TurnInv'
<1> DEFINE m == Message("answer", response[1], response[2])
           j == Len(outbox) + 1
<1>1. Listed(outbox) /\ Struct /\ Turn
  BY DEF TurnInv, Struct
<1>2. /\ UNCHANGED <<session, wire, framing, client, acks, history>>
      /\ server = "answer" /\ server' = After(chunk) /\ outbox' = Append(outbox, m)
  BY DEF SendAnswer
<1>3. /\ UNCHANGED <<chunk, buffer, inPacket, remaining, issued, handled, answered>>
      /\ Stream' = Stream
  BY <1>2 DEF framing, Stream, history
<1>4. Taken
  BY <1>1, <1>2 DEF Turn, Rest, Sent, Refusal, Told, Over, AtLoop
<1>5. Done' /\ AtLoop'
  BY <1>2, <1>3, <1>4 DEF Taken, Done, Cur, AtLoop, After
<1>6. Calmed(3) /\ m.of = Cur /\ m.kind = "answer"
  BY <1>2, <1>4 DEF Taken, Open, Message
<1> HIDE DEF m
<1>7. /\ Listed(outbox)' /\ Len(outbox') = j /\ Len(outbox) \in Nat /\ outbox'[j] = m
      /\ \A i \in 1 .. Len(outbox) : outbox'[i] = outbox[i]
  BY <1>1, <1>2, ListedAppend
<1>8. j \in 1 .. Len(outbox') /\ j - 1 = Len(outbox)
  BY <1>7
<1>9. OnlyStops(outbox) => StopsIn(outbox', 1, j - 1)
  BY <1>7, <1>8 DEF OnlyStops, StopsIn
<1>10. OneReply(outbox, "ack") => OneIn(outbox', j - 1, "ack")
  <2> SUFFICES ASSUME OneReply(outbox, "ack") PROVE OneIn(outbox', j - 1, "ack")
    OBVIOUS
  <2>1. PICK i \in 1 .. Len(outbox) :
            /\ outbox[i].kind = "ack" /\ StopsIn(outbox, 1, i - 1)
            /\ StopsIn(outbox, i + 1, Len(outbox))
    BY DEF OneReply, OneIn
  <2>2. /\ outbox'[i].kind = "ack" /\ StopsIn(outbox', 1, i - 1)
        /\ StopsIn(outbox', i + 1, Len(outbox))
    BY <1>7, <2>1 DEF StopsIn
  <2> QED
    BY <1>8, <2>2 DEF OneIn
<1>11. StopsIn(outbox', j + 1, Len(outbox'))
  BY <1>7 DEF StopsIn
<1>12. \/ client' = "ack" /\ acks' /\ OneIn(outbox', j - 1, "ack")
       \/ client' = "answer" /\ StopsIn(outbox', 1, j - 1)
  BY <1>2, <1>4, <1>9, <1>10 DEF Taken
<1>13. outbox'[j].kind = "answer" /\ outbox'[j].of = Cur'
  BY <1>3, <1>6, <1>7 DEF Cur
<1>14. Running' = Running /\ Running \in 0 .. 1
  BY <1>2 DEF Running
<1>15. Len(outbox') - j + Running' <= 1
  BY <1>7, <1>14
<1>16. Calmed(2)'
  <2>1. Lull(Len(Stream))' /\ Hush'
    BY <1>2, <1>3, <1>6 DEF Calmed, Lull, Hush, Between, After
  <2>2. Len(buffer) + Len(Stream) + Len(outbox) + Running + 3 <= 7
    BY <1>6 DEF Calmed, Limit
  <2>3. Len(buffer') + Len(Stream') + Len(outbox') + Running' + 2 <= Limit
    <3> DEFINE r == Running
    <3> HIDE DEF r
    <3>1. Len(buffer) + Len(Stream) + (Len(outbox) + 1) + r + 2 <= Limit
      BY <1>7, <1>14, <2>2, Types DEF r, Limit
    <3> QED
      BY <1>3, <1>7, <1>14, <3>1 DEF r
  <2> QED
    BY <2>1, <2>3 DEF Calmed
<1>17. \E k \in 1 .. Len(outbox') : Answering(k)' /\ Len(outbox') - k + Running' <= 1
  <2>1. PICK k : k = j
    OBVIOUS
  <2>2. Answering(k)'
    BY <1>11, <1>12, <1>13, <2>1 DEF Answering
  <2> QED
    BY <1>8, <1>15, <2>1, <2>2
<1>18. Told'
  BY <1>5, <1>16, <1>17 DEF Told
<1>19. Struct'
  BY <1>2, <1>3, <1>7 DEF Struct, After
<1> QED
  BY <1>18, <1>19 DEF TurnInv, Turn

(* Whosever turn it is, the stub and the client are one command behind at    *)
(* most.                                                                     *)
LEMMA TurnKeepsUp ==
    ASSUME Turn
    PROVE  KeepsUpWith(handled, issued) /\ KeepsUpWith(answered, issued)
BY DEF Turn, Rest, Sent, Refusal, Taken, Told, Over, Undone, Done, KeepsUpWith

(* The client sees the end of the connection.                                *)
LEMMA SeesClosedTurns ==
    ASSUME TurnInv, SeesClosed
    PROVE  TurnInv'
<1>1. Struct /\ Turn
  BY DEF TurnInv
<1>2. /\ UNCHANGED <<chunk, server, outbox, issued, handled, answered>> /\ client' = "gone"
      /\ server = "closed" /\ outbox = <<>>
  BY DEF SeesClosed, framing, history
<1>3. Over'
  BY <1>1, <1>2, TurnKeepsUp DEF Over, OnlyStops, StopsIn, AtLoop, Open
<1>4. Struct'
  BY <1>1, <1>2 DEF Struct
<1> QED
  BY <1>3, <1>4 DEF TurnInv, Turn

-------------------------------------------------------------------------------
(* recv()                                                                    *)

(* Sequences put behind one another.                                         *)
LEMMA JoinIs ==
    ASSUME NEW c \in Seq(Octet), NEW v \in Seq(Octet)
    PROVE  /\ c \o v \in Seq(Octet) /\ Len(c \o v) = Len(c) + Len(v)
           /\ \A i \in 1 .. Len(c) : (c \o v)[i] = c[i]
           /\ \A i \in 1 .. Len(v) : (c \o v)[Len(c) + i] = v[i]
OBVIOUS

(* What is left of a stream when a part of it was received.                  *)
LEMMA JoinShifts ==
    ASSUME NEW w \in Seq(Octet), NEW v \in Seq(Octet), NEW c \in Seq(Octet),
           NEW n \in Nat, NEW d \in 0 .. n, n <= Len(w),
           Len(c) = n - d, \A i \in 1 .. n - d : c[i] = w[i + d],
           Len(v) = Len(w) - n, \A i \in 1 .. Len(w) - n : v[i] = w[n + i]
    PROVE  Shifted(w, c \o v, d)
<1> DEFINE t == c \o v
<1>4. /\ Len(t) = Len(c) + Len(v) /\ \A i \in 1 .. Len(c) : t[i] = c[i]
      /\ \A i \in 1 .. Len(v) : t[Len(c) + i] = v[i]
  BY JoinIs
<1>1. /\ Len(t) = Len(c) + Len(v) /\ Len(c) \in Nat /\ Len(v) \in Nat
      /\ \A i \in 1 .. Len(c) : t[i] = c[i]
      /\ \A i \in Len(c) + 1 .. Len(c) + Len(v) : t[i] = v[i - Len(c)]
  <2> HIDE DEF t
  <2>1. Len(c) \in Nat /\ Len(v) \in Nat
    OBVIOUS
  <2>2. ASSUME NEW i \in Len(c) + 1 .. Len(c) + Len(v) PROVE t[i] = v[i - Len(c)]
    <3>1. i - Len(c) \in 1 .. Len(v) /\ Len(c) + (i - Len(c)) = i
      BY <2>1
    <3> QED
      BY <1>4, <3>1
  <2> QED
    BY <1>4, <2>1, <2>2
<1> HIDE DEF t
<1>2. Len(t) = Len(w) - d /\ d <= Len(w) /\ Len(w) \in Nat
  BY <1>1
<1>3. ASSUME NEW i \in 1 .. Len(t) PROVE t[i] = w[i + d]
  <2>1. CASE i <= n - d
    BY <1>1, <1>2, <2>1
  <2>2. CASE i > n - d
    <3>1. i \in Len(c) + 1 .. Len(c) + Len(v) /\ i - Len(c) \in 1 .. Len(w) - n
          /\ n + (i - Len(c)) = i + d
      BY <1>1, <1>2, <2>2
    <3> QED
      BY <1>1, <3>1
  <2> QED
    BY <2>1, <2>2
<1> QED
  BY <1>2, <1>3 DEF Shifted, t

LEMMA RestIs ==
    ASSUME NEW s \in Seq(Octet), NEW n \in Nat, n <= Len(s)
    PROVE  /\ SubSeq(s, n + 1, Len(s)) \in Seq(Octet)
           /\ Len(SubSeq(s, n + 1, Len(s))) = Len(s) - n
           /\ \A i \in 1 .. Len(s) - n : SubSeq(s, n + 1, Len(s))[i] = s[n + i]
<1>1. \A i \in n + 1 .. Len(s) : s[i] \in Octet
  OBVIOUS
<1> QED
  BY <1>1

(* At most one byte is taken off the front.                                  *)
LEMMA StripIs ==
    ASSUME NEW s \in Seq(Octet), NEW n \in Nat, 1 <= n, n <= Len(s)
    PROVE  \E k \in 0 .. 1 :
              LET got == StripAck(SubSeq(s, 1, n))
              IN  /\ got \in Seq(Octet) /\ Len(got) = n - k
                  /\ \A i \in 1 .. n - k : got[i] = s[i + k]
                  /\ k = 1 => s[1] \in {Plus, Minus}
<1> DEFINE t == SubSeq(s, 1, n)
<1>1. \A i \in 1 .. n : s[i] \in Octet
  OBVIOUS
<1>2. t \in Seq(Octet) /\ Len(t) = n /\ \A i \in 1 .. n : t[i] = s[i]
  BY <1>1
<1> HIDE DEF t
<1>3. Tail(t) \in Seq(Octet) /\ Len(Tail(t)) = n - 1 /\ \A i \in 1 .. n - 1 : Tail(t)[i] = s[i + 1]
  BY <1>2
<1>4. CASE t[1] \in {Plus, Minus}
  <2>1. StripAck(t) = Tail(t) /\ s[1] \in {Plus, Minus}
    BY <1>2, <1>4 DEF StripAck
  <2>2. 1 \in 0 .. 1
    OBVIOUS
  <2> QED
    BY <1>3, <2>1, <2>2 DEF t
<1>5. CASE t[1] \notin {Plus, Minus}
  <2>1. StripAck(t) = t
    BY <1>5 DEF StripAck
  <2>2. n - 0 = n /\ \A i \in 1 .. n : i + 0 = i
    OBVIOUS
  <2>3. 0 \in 0 .. 1 /\ 0 # 1
    OBVIOUS
  <2> QED
    BY <1>2, <2>1, <2>2, <2>3 DEF t
<1> QED
  BY <1>4, <1>5

(* recv() looks at no more than an acknowledgement and a Ctrl-C.             *)
Takes(d) ==
    /\ Shifted(Stream, Stream', d)
    /\ UNCHANGED <<buffer, inPacket, remaining, outbox, session, halted>> /\ Same
    /\ Open' /\ AtLoop' /\ Struct'
    /\ d > 0 /\ server' # "stop" => d = 1 /\ Stream[1] \in {Plus, Minus}
    /\ d = 2 => Stream[1] \in {Plus, Minus}
    /\ server' = "stop" => d \in 1 .. 2 /\ Stream[d] = CtrlC /\ ~inPacket

(* recv() ends the connection or takes at most two bytes away.               *)
LEMMA RecvTakes ==
    ASSUME IInv, Struct, NEW n \in 1 .. ChunkSize, Recv(n)
    PROVE  Closing \/ \E d \in 0 .. 2 : Takes(d)
<1> DEFINE got == StripAck(SubSeq(wire, 1, n))
           d == n - Len(chunk')
<1>1. /\ wire \in Seq(Octet) /\ chunk = <<>> /\ n \in Nat /\ n >= 1 /\ n <= Len(wire)
      /\ wire' = SubSeq(wire, n + 1, Len(wire)) /\ server = "recv"
  BY Sizes DEF Recv, IInv, ClientInv, Struct
<1>2. /\ wire' \in Seq(Octet) /\ Len(wire') = Len(wire) - n
      /\ \A i \in 1 .. Len(wire) - n : wire'[i] = wire[n + i]
  BY <1>1, RestIs
<1>3. PICK k \in 0 .. 1 :
        /\ got \in Seq(Octet) /\ Len(got) = n - k
        /\ \A i \in 1 .. n - k : got[i] = wire[i + k]
        /\ k = 1 => wire[1] \in {Plus, Minus}
  BY <1>1, StripIs
<1>4. Stream = wire
  BY <1>1 DEF Stream
<1>5. /\ UNCHANGED <<session, outbox, client, acks, halted, history>> /\ Same /\ Tells
  BY DEF Recv, Same, Tells, history
<1>6. \/ got = <<>> /\ UNCHANGED <<framing, server>>
      \/ /\ got # <<>> /\ ~inPacket /\ got[1] = CtrlC /\ server' = "stop" /\ chunk' = Tail(got)
         /\ UNCHANGED <<buffer, inPacket, remaining>>
      \/ Idle("closed")
      \/ /\ got # <<>> /\ server' = "bytes" /\ chunk' = got
         /\ UNCHANGED <<buffer, inPacket, remaining>>
  BY DEF Recv
<1> HIDE DEF got
<1>7. Listed(outbox)'
  BY <1>5 DEF Struct
<1>8. CASE Idle("closed")
  BY <1>5, <1>8, IdleCloses
<1>9. CASE got = <<>> /\ UNCHANGED <<framing, server>>
  <2>1. chunk' = <<>> /\ UNCHANGED <<buffer, inPacket, remaining, server>>
    BY <1>1, <1>9 DEF framing
  <2>2. n = 1 /\ k = 1 /\ Len(chunk') = 1 - 1 /\ chunk' \in Seq(Octet)
    BY <1>1, <1>3, <1>9, <2>1
  <2>3. Shifted(wire, chunk' \o wire', 1)
    <3>1. 1 \in 0 .. n /\ \A i \in 1 .. n - 1 : chunk'[i] = wire[i + 1]
      BY <2>2
    <3>2. Len(chunk') = n - 1
      BY <2>2
    <3> QED
      BY <1>1, <1>2, <2>2, <3>1, <3>2, JoinShifts
  <2>4. Takes(1)
    <3>1. Shifted(Stream, Stream', 1)
      BY <1>4, <2>3 DEF Stream
    <3> QED
      BY <1>1, <1>3, <1>4, <1>5, <1>7, <2>1, <2>2, <3>1 DEF Takes, Open, AtLoop, Struct
  <2> QED
    BY <2>4
<1>10. CASE /\ got # <<>> /\ ~inPacket /\ got[1] = CtrlC /\ server' = "stop" /\ chunk' = Tail(got)
            /\ UNCHANGED <<buffer, inPacket, remaining>>
  <2>1. /\ n - k >= 1 /\ chunk' \in Seq(Octet) /\ Len(chunk') = n - (k + 1)
        /\ \A i \in 1 .. n - (k + 1) : chunk'[i] = wire[i + (k + 1)]
    <3>1. Len(got) >= 1 /\ Tail(got) \in Seq(Octet) /\ Len(Tail(got)) = Len(got) - 1
          /\ \A i \in 1 .. Len(got) - 1 : Tail(got)[i] = got[i + 1]
      BY <1>3, <1>10
    <3>2. \A i \in 1 .. n - (k + 1) : i + 1 \in 1 .. n - k /\ (i + 1) + k = i + (k + 1)
      BY <1>1
    <3>3. n - (k + 1) = Len(got) - 1
      BY <1>1, <1>3
    <3> QED
      BY <1>1, <1>3, <1>10, <3>1, <3>2, <3>3
  <2>2. k + 1 \in 0 .. n
    BY <1>1, <2>1
  <2>3. Shifted(wire, chunk' \o wire', k + 1)
    BY <1>1, <1>2, <2>1, <2>2, JoinShifts
  <2>4. Shifted(Stream, Stream', k + 1)
    BY <1>4, <2>3 DEF Stream
  <2>5. wire[k + 1] = CtrlC
    BY <1>1, <1>3, <1>10, <2>1
  <2>6. k + 1 \in 1 .. 2 /\ (k + 1 = 2 => k = 1)
    OBVIOUS
  <2>7. Takes(k + 1)
    BY <1>3, <1>4, <1>5, <1>7, <1>10, <2>4, <2>5, <2>6 DEF Takes, Open, AtLoop, Struct
  <2>8. k + 1 \in 0 .. 2
    OBVIOUS
  <2> QED
    BY <2>7, <2>8
<1>11. CASE /\ got # <<>> /\ server' = "bytes" /\ chunk' = got
            /\ UNCHANGED <<buffer, inPacket, remaining>>
  <2>1. k \in 0 .. n
    BY <1>1
  <2>2. Shifted(wire, chunk' \o wire', k)
    BY <1>1, <1>2, <1>3, <1>11, <2>1, JoinShifts
  <2>3. Shifted(Stream, Stream', k)
    BY <1>4, <2>2 DEF Stream
  <2>4. Takes(k)
    BY <1>3, <1>4, <1>5, <1>7, <1>11, <2>3 DEF Takes, Open, AtLoop, Struct
  <2>5. k \in 0 .. 2
    OBVIOUS
  <2> QED
    BY <2>4, <2>5
<1> QED
  BY <1>6, <1>8, <1>9, <1>10, <1>11

(* The same of the next state.                                               *)
LEMMA NextTypes ==
    ASSUME IInv'
    PROVE  /\ chunk' \in Seq(Octet) /\ wire' \in Seq(Octet) /\ buffer' \in Seq(Octet)
           /\ Stream' \in Seq(Octet) /\ Len(Stream') \in Nat /\ Len(buffer') \in Nat
<1>1. chunk' \in Seq(Octet) /\ wire' \in Seq(Octet) /\ buffer' \in Seq(Octet)
  BY DEF IInv, TypeOK, ClientInv, Octet
<1>2. Stream' \in Seq(Octet)
  BY <1>1 DEF Stream
<1> QED
  BY <1>1, <1>2

(* What recv() takes from noise leaves noise.                                *)
LEMMA TakesMoves ==
    ASSUME IInv, IInv', NEW d \in 0 .. 2, Takes(d), server # "stop",
           NEW f \in Nat, d <= f, f <= Len(Stream), Lull(f), Struct
    PROVE  Moved(f, d)
<1>1. /\ buffer \in Seq(Octet) /\ Stream \in Seq(Octet) /\ Stream' \in Seq(Octet)
      /\ Len(Stream) \in Nat /\ Len(Stream') \in Nat /\ Len(buffer) \in Nat
      /\ Len(outbox) \in Nat
  <2>1. Len(outbox) \in Nat
    BY ListedLength DEF Struct
  <2> QED
    BY <2>1, Types, NextTypes
<1>2. d \in 0 .. f /\ Shifted(Stream, Stream', d) /\ Calm(buffer, Stream, f, FALSE)
  BY DEF Takes, Lull, Calm
<1>3. /\ Calm(buffer, Stream', f - d, FALSE)
      /\ NoCall(Stream, f) => NoCall(Stream', f - d)
      /\ d > 0 /\ Stream[d] = CtrlC =>
            ~NoCall(Stream, f) /\ Calm(buffer, Stream', f - d, TRUE) /\ NoCall(Stream', f - d)
  BY <1>1, <1>2, CalmShifts
<1>4. UNCHANGED <<buffer, inPacket, remaining, outbox, session, halted>> /\ Same /\ Open' /\ Tells
  BY DEF Takes, Tells
<1>5. server' = "stop" => d > 0 /\ Stream[d] = CtrlC
  BY DEF Takes
<1>6. Calm(buffer, Stream', f - d, server' = "stop")
  <2>1. CASE server' = "stop"
    BY <1>3, <1>5, <2>1 DEF Calm
  <2>2. CASE server' # "stop"
    BY <1>3, <2>2 DEF Calm
  <2> QED
    BY <2>1, <2>2
<1>7. Lull(f - d)'
  BY <1>4, <1>6 DEF Lull, Between
<1>8. Called(f - d)' <= Called(f)
  <2>1. CASE server' = "stop"
    <3>1. ~NoCall(Stream, f)
      BY <1>3, <1>5, <2>1
    <3>2. Called(f) = 1 /\ Called(f - d)' = 1
      BY <2>1, <3>1 DEF Called
    <3> QED
      BY <3>2
  <2>2. CASE server' # "stop"
    <3>1. Called(f - d)' = (IF NoCall(Stream', f - d) THEN 0 ELSE 1)
      BY <2>2 DEF Called
    <3>2. Called(f) = (IF NoCall(Stream, f) THEN 0 ELSE 1)
      BY DEF Called
    <3> QED
      BY <1>3, <3>1, <3>2
  <2> QED
    BY <2>1, <2>2
<1>9. Len(Stream') = Len(Stream) - d /\ \A i \in 1 .. Len(Stream') : Stream'[i] = Stream[i + d]
  BY <1>2 DEF Shifted
<1>10. Hush => Hush'
  <2> SUFFICES ASSUME Hush PROVE Hush'
    OBVIOUS
  <2>1. d > 0 => d \in 1 .. Len(Stream)
    BY <1>1
  <2>2. server' # "stop"
    BY <1>5, <2>1 DEF Hush, NoCall
  <2>3. NoCall(Stream', Len(Stream'))
    <3>1. \A i \in 1 .. Len(Stream') : i + d \in 1 .. Len(Stream)
      BY <1>1, <1>9
    <3> QED
      BY <1>9, <3>1 DEF Hush, NoCall
  <2> QED
    BY <1>4, <2>2, <2>3 DEF Hush
<1>11. Len(buffer') + Len(Stream') <= Len(buffer) + Len(Stream)
  BY <1>1, <1>4, <1>9
<1>12. (Len(outbox) + Running + Called(f - d))' <= Len(outbox) + Running + Called(f)
  <2> DEFINE r == Running
             c == Called(f)
             c1 == Called(f - d)'
  <2>1. r \in Int /\ c \in Int /\ c1 \in Int /\ c1 <= c
    BY <1>8 DEF Running, Called
  <2>2. Running' = Running /\ Len(outbox') = Len(outbox)
    BY <1>4 DEF Running
  <2> HIDE DEF r, c, c1
  <2>3. Len(outbox) + r + c1 <= Len(outbox) + r + c
    BY <1>1, <2>1
  <2> QED
    BY <2>2, <2>3 DEF r, c, c1
<1> QED
  BY <1>2, <1>4, <1>7, <1>10, <1>11, <1>12 DEF Moved

(* The copy of the packet, one byte further.                                 *)
LEMMA ComingSteps ==
    ASSUME IInv, IInv', issued # <<>>, issued' = issued,
           NEW pos \in Nat, pos < Len(Asks) + 4, Coming(0, pos),
           Shifted(Stream, Stream', 1), Len(outbox) \in Nat, outbox' = outbox,
           session'.paused = session.paused, server # "stop", server' # "stop"
    PROVE  Coming(0, pos + 1)'
<1> DEFINE size == Len(Asks) + 4
<1>1. size \in Nat /\ Len(Stream) \in Nat /\ Len(Stream') \in Nat /\ pos < size
  BY Types, AsksTyped
<1>2. Asks' = Asks /\ Copy' = Copy
  BY DEF Cur, Asks, Copy
<1>3. Called(0) = 0 /\ Called(0)' = 0 /\ Running' = Running /\ Running \in Int
  BY DEF Called, NoCall, Running
<1>4. /\ 0 + (size - pos) <= Len(Stream)
      /\ \A i \in 1 .. size - pos : Stream[0 + i] = Copy[pos + i]
      /\ \A i \in 0 + (size - pos) + 1 .. Len(Stream) : Stream[i] = Plus
      /\ Len(Stream) - 0 - (size - pos) + Len(outbox) + Running + Called(0) <= 2
  BY DEF Coming
<1>5. Len(Stream') = Len(Stream) - 1 /\ \A i \in 1 .. Len(Stream') : Stream'[i] = Stream[i + 1]
  BY DEF Shifted
<1> HIDE DEF size
<1>6. 0 + (size - (pos + 1)) <= Len(Stream')
  BY <1>1, <1>4, <1>5
<1>7. \A i \in 1 .. size - (pos + 1) : Stream'[0 + i] = Copy[(pos + 1) + i]
  <2> SUFFICES ASSUME NEW i \in 1 .. size - (pos + 1) PROVE Stream'[0 + i] = Copy[(pos + 1) + i]
    OBVIOUS
  <2>1. /\ i \in 1 .. Len(Stream') /\ i + 1 \in 1 .. size - pos /\ pos + (i + 1) = (pos + 1) + i
        /\ 0 + i = i /\ 0 + (i + 1) = i + 1
    BY <1>1, <1>6
  <2> QED
    BY <1>4, <1>5, <2>1
<1>8. \A i \in 0 + (size - (pos + 1)) + 1 .. Len(Stream') : Stream'[i] = Plus
  <2> SUFFICES ASSUME NEW i \in 0 + (size - (pos + 1)) + 1 .. Len(Stream') PROVE Stream'[i] = Plus
    OBVIOUS
  <2>1. i \in 1 .. Len(Stream') /\ i + 1 \in 0 + (size - pos) + 1 .. Len(Stream)
    BY <1>1, <1>5
  <2> QED
    BY <1>4, <1>5, <2>1
<1>9. Len(Stream') - 0 - (size - (pos + 1)) + Len(outbox') + Running' + Called(0)' <= 2
  <2> DEFINE r == Running
  <2> HIDE DEF r
  <2>1. r \in Int /\ Len(Stream) - 0 - (size - pos) + Len(outbox) + r + 0 <= 2
    BY <1>3, <1>4 DEF r
  <2>2. Len(Stream') - 0 - (size - (pos + 1)) + Len(outbox) + r + 0 <= 2
    BY <1>1, <1>5, <2>1
  <2> QED
    BY <1>3, <2>2 DEF r
<1> QED
  BY <1>2, <1>6, <1>7, <1>8, <1>9 DEF Coming, size

(* The packet that asks the command.                                         *)
LEMMA CopyIs ==
    ASSUME IInv, issued # <<>>
    PROVE  /\ Asks \in Seq(Octet) /\ Len(Asks) \in Nat
           /\ Copy \in Seq(Octet) /\ Len(Copy) = Len(Asks) + 4
           /\ Copy[1] = Dollar /\ Copy[Len(Asks) + 2] = Hash
           /\ \A i \in 1 .. Len(Asks) : Copy[i + 1] = Asks[i] /\ Asks[i] \in Octet
           /\ Copy[Len(Asks) + 3] \in HexDigits /\ Copy[Len(Asks) + 4] \in HexDigits
           /\ ChecksumToChars(Sum(Asks)) = <<Copy[Len(Asks) + 3], Copy[Len(Asks) + 4]>>
<1>1. Asks \in Seq(Octet) /\ Len(Asks) \in Nat
  BY AsksTyped
<1> QED
  BY <1>1, PacketIs DEF Copy

(* The sum of what came undamaged.                                           *)
LEMMA CleanSum ==
    ASSUME IInv, issued # <<>>, NEW pos \in 1 .. Len(Asks) + 1, Clean(pos)
    PROVE  Sum(SubSeq(buffer, 2, pos)) = Sums(Asks)[pos - 1]
<1> DEFINE s == SubSeq(buffer, 2, pos)
           t == Asks
<1>1. buffer \in Seq(Octet) /\ Len(buffer) = pos /\ pos \in Nat /\ pos >= 1
  BY Types, AsksTyped DEF Clean
<1>2. s \in Seq(Octet) /\ Len(s) = pos - 1 /\ \A i \in 1 .. pos - 1 : s[i] = buffer[i + 1]
  BY <1>1, MiddleFacts
<1>3. t \in Seq(Octet) /\ Len(t) \in Nat /\ \A i \in 1 .. Len(t) : Copy[i + 1] = t[i]
  BY CopyIs
<1>4. \A i \in 1 .. pos : buffer[i] = Copy[i]
  BY DEF Clean
<1> HIDE DEF s, t
<1>5. pos - 1 \in Nat /\ pos - 1 <= Len(t)
  BY <1>1, <1>3 DEF t
<1>6. ASSUME NEW i \in 1 .. pos - 1 PROVE s[i] = t[i]
  <2>1. i + 1 \in 1 .. pos /\ i \in 1 .. Len(t)
    BY <1>1, <1>3, <1>5
  <2> QED
    BY <1>2, <1>3, <1>4, <2>1
<1>7. Sums(s)[pos - 1] = Sums(t)[pos - 1]
  BY <1>2, <1>3, <1>5, <1>6, SumsOfPrefix
<1> QED
  BY <1>2, <1>7, SumIsLast DEF s, t

(* recv() drops a sign of the packet: what is left of it is damaged.         *)
LEMMA SignLost ==
    ASSUME IInv, issued # <<>>, NEW pos \in 1 .. Len(Asks), Clean(pos) \/ Dirty(pos),
           Asks[pos] \in {Plus, Minus}, buffer' = buffer, issued' = issued
    PROVE  Dirty(pos + 1)'
<1> DEFINE k == pos - 1
           t == Asks
           n == Len(Asks)
<1>1. /\ t \in Seq(Octet) /\ n \in Nat /\ pos \in Nat /\ pos >= 1 /\ pos <= n
      /\ k \in Nat /\ k < n /\ k + 1 = pos
  BY CopyIs
<1>2. Asks' = t /\ Copy' = Copy /\ Len(buffer) \in Nat
  BY Types DEF Cur, Asks, Copy
<1>3. Trailer(pos) = 0 /\ Gone(pos) = k
  BY <1>1 DEF Trailer, Gone
<1>4. Trailer(pos + 1)' = 0 /\ Gone(pos + 1)' = pos
  BY <1>1, <1>2 DEF Trailer, Gone
<1> DEFINE x == Sum(SubSeq(buffer, 2, Len(buffer) - 0))
<1>5. Len(buffer) > 0 /\ Damage(t, x, k + 1)
  <2>1. CASE Clean(pos)
    <3>1. Len(buffer) = pos
      BY <2>1 DEF Clean
    <3>2. x = Sums(t)[k]
      <4>1. Len(buffer) - 0 = pos /\ pos \in 1 .. n + 1
        BY <1>1, <3>1
      <4> QED
        BY <2>1, <4>1, CleanSum
    <3>3. t[k + 1] \in {Plus, Minus}
      BY <1>1
    <3> HIDE DEF k, t, n, x
    <3>4. k < Len(t)
      BY <1>1 DEF n, t
    <3>5. Damage(t, Sums(t)[k], k + 1)
      BY <1>1, <3>3, <3>4, FirstDamage
    <3> QED
      BY <1>1, <3>1, <3>2, <3>5
  <2>2. CASE Dirty(pos)
    <3>1. Len(buffer) > 0 /\ Damage(t, x, k)
      BY <1>3, <2>2 DEF Dirty
    <3>2. t[k + 1] \in {Plus, Minus}
      BY <1>1
    <3> HIDE DEF k, t, n, x
    <3>3. k < Len(t)
      BY <1>1 DEF n, t
    <3>4. Damage(t, x, k + 1)
      BY <1>1, <3>1, <3>2, <3>3, DamageStays
    <3> QED
      BY <3>1, <3>4
  <2> QED
    BY <2>1, <2>2
<1>6. Len(buffer') > 0 /\ Damage(Asks', Sum(SubSeq(buffer', 2, Len(buffer') - 0)), pos)
  BY <1>1, <1>2, <1>5
<1> QED
  BY <1>4, <1>6 DEF Dirty

(* A checksum is no delimiter and no sign.                                   *)
LEMMA DigitsApart == \A c \in HexDigits : c \notin {Dollar, Hash, Plus, Minus, CtrlC}
BY DEF HexDigits, Dollar, Hash, Plus, Minus, CtrlC

(* What recv() takes from a packet damages it.                               *)
LEMMA TakesWithin ==
    ASSUME IInv, IInv', issued # <<>>, Listed(outbox), Within, NEW d \in 0 .. 2, Takes(d)
    PROVE  Within'
<1> DEFINE n == Len(Asks)
<1>1. PICK pos \in 1 .. n + 3 :
        Coming(0, pos) /\ Frame(pos) /\ (Clean(pos) \/ Dirty(pos))
  BY DEF Within
<1>2. /\ n \in Nat /\ pos \in Nat /\ pos >= 1 /\ pos < n + 4
      /\ Len(Stream) \in Nat /\ Len(outbox) \in Nat
  <2>1. Len(outbox) \in Nat
    BY ListedLength
  <2> QED
    BY <2>1, Types, AsksTyped
<1>3. UNCHANGED <<buffer, inPacket, remaining, outbox, session, issued>>
  BY DEF Takes, Same
<1>4. Asks' = Asks /\ Copy' = Copy
  BY <1>3 DEF Asks, Copy, Cur
<1>5. server # "stop" /\ Shifted(Stream, Stream', d)
  BY DEF Within, Takes
<1>6. 1 <= n + 4 - pos /\ Stream[1] = Copy[pos + 1]
  <2>1. \A i \in 1 .. (n + 4) - pos : Stream[0 + i] = Copy[pos + i]
    BY <1>1 DEF Coming
  <2>2. 1 \in 1 .. (n + 4) - pos /\ 0 + 1 = 1
    BY <1>2
  <2>3. Stream[0 + 1] = Copy[pos + 1]
    BY <2>1, <2>2
  <2> QED
    BY <2>2, <2>3
<1>7. Stream[1] \in {Plus, Minus, CtrlC} => pos \in 1 .. n /\ Asks[pos] = Stream[1]
  <2>1. CASE pos \in 1 .. n
    BY <1>6, <2>1, CopyIs
  <2>2. CASE pos = n + 1
    <3>1. Stream[1] = Hash
      <4>1. pos + 1 = n + 2
        BY <1>2, <2>2
      <4> QED
        BY <1>6, <4>1, CopyIs
    <3> QED
      BY <3>1 DEF Hash, Plus, Minus, CtrlC
  <2>3. CASE pos = n + 2 \/ pos = n + 3
    <3>1. Stream[1] \in HexDigits
      <4>1. pos + 1 = n + 3 \/ pos + 1 = n + 4
        BY <1>2, <2>3
      <4> QED
        BY <1>6, <4>1, CopyIs
    <3> QED
      BY <3>1, DigitsApart
  <2> QED
    BY <1>2, <2>1, <2>2, <2>3
<1>8. pos \in 1 .. n => inPacket
  <2>1. inPacket <=> pos <= n + 1
    BY <1>1 DEF Frame
  <2>2. pos \in 1 .. n => pos <= n + 1
    BY <1>2
  <2> HIDE DEF n
  <2> QED
    BY <2>1, <2>2
<1>9. server' # "stop"
  <2> SUFFICES ASSUME server' = "stop" PROVE FALSE
    OBVIOUS
  <2>1. d \in 1 .. 2 /\ Stream[d] = CtrlC /\ ~inPacket /\ (d = 2 => Stream[1] \in {Plus, Minus})
    BY DEF Takes
  <2>2. Stream[1] \in {Plus, Minus, CtrlC}
    BY <2>1
  <2> QED
    BY <1>7, <1>8, <2>1, <2>2
<1>10. CASE d = 0
  <2>1. Stream' = Stream
    <3>1. Stream \in Seq(Octet) /\ Stream' \in Seq(Octet)
      BY Types, NextTypes
    <3>2. Len(Stream') = Len(Stream) /\ \A i \in 1 .. Len(Stream') : Stream'[i] = Stream[i]
      BY <1>2, <1>5, <1>10 DEF Shifted
    <3> HIDE DEF n
    <3> QED
      BY <3>1, <3>2, SameSequence
  <2>2. Len(outbox') + Running' + Called(0)' <= Len(outbox) + Running + Called(0)
    <3>1. Running' = Running /\ Called(0)' = Called(0) /\ Running \in Int /\ Called(0) \in Int
      BY <1>3, <1>5, <1>9, <2>1 DEF Running, Called
    <3> QED
      BY <1>2, <1>3, <3>1
  <2>3. Coming(0, pos)'
    BY <1>1, <1>2, <1>3, <2>1, <2>2, ComingStays
  <2>4. Frame(pos)' /\ (Clean(pos) => Clean(pos)') /\ (Dirty(pos) => Dirty(pos)')
    BY <1>1, <1>3, <1>4 DEF Frame, Clean, Dirty, Trailer, Gone
  <2> QED
    BY <1>1, <1>4, <1>9, <2>3, <2>4 DEF Within
<1>11. CASE d > 0
  <2>1. d = 1 /\ Stream[1] \in {Plus, Minus}
    BY <1>9, <1>11 DEF Takes
  <2>2. pos \in 1 .. n /\ Asks[pos] \in {Plus, Minus}
    BY <1>7, <2>1
  <2>3. Dirty(pos + 1)'
    BY <1>1, <1>3, <2>2, SignLost
  <2>4. Coming(0, pos + 1)'
    BY <1>1, <1>2, <1>3, <1>5, <1>9, <2>1, ComingSteps
  <2>5. Frame(pos + 1)'
    BY <1>1, <1>2, <1>3, <1>4, <2>2 DEF Frame
  <2>6. pos + 1 \in 1 .. Len(Asks') + 3
    BY <1>2, <1>4, <2>2
  <2> QED
    BY <1>9, <2>3, <2>4, <2>5, <2>6 DEF Within
<1> QED
  BY <1>10, <1>11

(* recv() keeps whose turn it is.                                            *)
LEMMA RecvTurns ==
    ASSUME IInv, IInv', TurnInv, NEW n \in 1 .. ChunkSize, Recv(n)
    PROVE  TurnInv'
<1>1. Struct /\ Turn /\ Listed(outbox) /\ server = "recv" /\ Open
  BY DEF TurnInv, Struct, Recv, Open
<1>2. CASE Closing
  BY <1>2, ClosingKeeps
<1>3. ASSUME NEW d \in 0 .. 2, Takes(d) PROVE TurnInv'
  <2>1. /\ Struct' /\ AtLoop' /\ Same /\ Open' /\ Shifted(Stream, Stream', d)
        /\ UNCHANGED <<buffer, inPacket, remaining, outbox, session>>
    BY <1>3 DEF Takes
  <2>2. PICK f \in Nat : f = Len(Stream)
    BY Types
  <2>3. d <= f /\ f <= Len(Stream) /\ d \in 0 .. f
    BY <2>1, <2>2 DEF Shifted
  <2>4. CASE Rest \/ Refusal \/ Told
    <3>1. Lull(f)
      BY <1>1, <2>2, <2>4, LullAtLoop
    <3>2. Moved(f, d)
      BY <1>1, <1>3, <2>3, <3>1, TakesMoves
    <3> QED
      BY <1>1, <2>1, <2>2, <2>3, <2>4, <3>2, MovedKeeps
  <2>5. CASE Sent
    <3>1. issued # <<>>
      BY <2>5 DEF Sent, Undone
    <3>2. CASE Before
      <4>1. PICK g \in 0 .. Len(Stream) : Lull(g) /\ Coming(g, 0)
        BY <3>2 DEF Before
      <4>2. g \in Nat /\ g <= Len(Stream)
        BY Types
      <4>3. Stream[g + 1] = Dollar
        <5>1. \A i \in 1 .. Len(Asks) + 4 - 0 : Stream[g + i] = Copy[0 + i]
          BY <4>1 DEF Coming
        <5>2. 1 \in 1 .. Len(Asks) + 4 - 0 /\ 0 + 1 = 1
          BY <3>1, AsksTyped
        <5>3. Stream[g + 1] = Copy[0 + 1]
          BY <5>1, <5>2
        <5> QED
          BY <3>1, <5>2, <5>3, CopyIs
      <4>4. d <= g
        <5> SUFFICES ASSUME d > g PROVE FALSE
          BY <4>2
        <5>1. g + 1 \in 1 .. d
          BY <4>2
        <5>2. \A i \in 1 .. d : Stream[i] \in {Plus, Minus, CtrlC}
          BY <1>3 DEF Takes
        <5> QED
          BY <4>3, <5>1, <5>2 DEF Dollar, Plus, Minus, CtrlC
      <4>5. Moved(g, d)
        BY <1>1, <1>3, <4>1, <4>2, <4>4, TakesMoves
      <4>6. d \in 0 .. g
        BY <4>2, <4>4
      <4>7. Sent'
        BY <1>1, <2>1, <2>5, <4>1, <4>5, <4>6, SentMoves
      <4> QED
        BY <2>1, <4>7 DEF TurnInv, Turn
    <3>3. CASE Within
      <4>1. Within'
        BY <1>1, <1>3, <3>1, <3>3, TakesWithin
      <4>2. Sent'
        BY <2>1, <2>5, <4>1 DEF Sent, Undone, Same
      <4> QED
        BY <2>1, <4>2 DEF TurnInv, Turn
    <3> QED
      BY <1>1, <2>5, <3>2, <3>3 DEF Sent
  <2>6. CASE Over
    <3>1. Between'
      BY <1>1, <2>1, <2>6 DEF Over, Between
    <3>2. AllNoise(Stream', Len(Stream'))
      <4>1. /\ Len(Stream') = Len(Stream) - d
            /\ \A i \in 1 .. Len(Stream') : Stream'[i] = Stream[i + d]
        BY <2>1 DEF Shifted
      <4>2. AllNoise(Stream, Len(Stream)) /\ Len(Stream) \in Nat
        BY <1>1, <2>6, Types DEF Over
      <4>3. \A i \in 1 .. Len(Stream') : i + d \in 1 .. Len(Stream)
        BY <4>1, <4>2
      <4> QED
        BY <4>1, <4>2, <4>3 DEF AllNoise
    <3>3. Over'
      BY <2>1, <2>6, <3>1, <3>2 DEF Over, Same
    <3> QED
      BY <2>1, <3>3 DEF TurnInv, Turn
  <2>7. ~Taken
    BY <1>1 DEF Taken
  <2> QED
    BY <1>1, <2>4, <2>5, <2>6, <2>7 DEF Turn
<1> QED
  BY <1>1, <1>2, <1>3, RecvTakes

-------------------------------------------------------------------------------
(* The loop over the bytes                                                   *)

(* One round of the loop over the bytes of a chunk, by what the byte is.     *)
Opens(c) == c = Dollar /\ ~inPacket
Closes(c) == c = Hash /\ inPacket
Counting(c) == ~Opens(c) /\ ~Closes(c) /\ ~inPacket /\ remaining > 0

(* The byte is kept and nothing else happens.                                *)
Plain == 
    /\ buffer' = Append(buffer, Stream[1]) /\ server' = After(chunk')
    /\ UNCHANGED <<session, handled, outbox>>

LEMMA ByteIs ==
    ASSUME IInv, Struct, Byte
    PROVE  /\ server = "bytes" /\ Len(Stream) >= 1 /\ Shifted(Stream, Stream', 1)
           /\ Stream[1] \in Octet
           /\ UNCHANGED <<client, acks, halted, issued, answered>>
           /\ inPacket' = (Opens(Stream[1]) \/ (inPacket /\ ~Closes(Stream[1])))
           /\ remaining' = IF Closes(Stream[1]) THEN 2
                           ELSE IF Counting(Stream[1]) THEN remaining - 1 ELSE remaining
           /\ \/ ~(Counting(Stream[1]) /\ remaining' = 0) /\ Plain
              \/ /\ Counting(Stream[1]) /\ remaining' = 0 /\ buffer' = <<>>
                 /\ \/ /\ TestChecksum(Append(buffer, Stream[1]))
                       /\ Accepted(Append(buffer, Stream[1]))
                    \/ ~TestChecksum(Append(buffer, Stream[1])) /\ Refused
<1> DEFINE c == Head(chunk)
<1>1. /\ server = "bytes" /\ chunk' = Tail(chunk) /\ wire' = wire
      /\ UNCHANGED <<client, acks, halted, issued, answered>>
      /\ inPacket' = (Opens(c) \/ (inPacket /\ ~Closes(c)))
      /\ remaining' = IF Closes(c) THEN 2
                      ELSE IF Counting(c) THEN remaining - 1 ELSE remaining
      /\ \/ ~(Counting(c) /\ remaining' = 0) /\ buffer' = Append(buffer, c)
            /\ server' = After(chunk') /\ UNCHANGED <<session, handled, outbox>>
         \/ /\ Counting(c) /\ remaining' = 0 /\ buffer' = <<>>
            /\ \/ TestChecksum(Append(buffer, c)) /\ Accepted(Append(buffer, c))
               \/ ~TestChecksum(Append(buffer, c)) /\ Refused
  BY DEF Byte, Opens, Closes, Counting, Cleared
<1>2. chunk \in Seq(Octet) /\ wire \in Seq(Octet) /\ chunk # <<>>
  BY <1>1, Types DEF Struct
<1>3. /\ Tail(chunk) \in Seq(Octet) /\ Len(Tail(chunk)) = Len(chunk) - 1 /\ Len(chunk) \in Nat
      /\ Len(chunk) >= 1 /\ c = chunk[1] /\ c \in Octet
      /\ \A i \in 1 .. Len(chunk) - 1 : Tail(chunk)[i] = chunk[i + 1]
  BY <1>2
<1>4. /\ Len(Stream) = Len(chunk) + Len(wire) /\ Len(wire) \in Nat
      /\ \A i \in 1 .. Len(chunk) : Stream[i] = chunk[i]
      /\ \A i \in 1 .. Len(wire) : Stream[Len(chunk) + i] = wire[i]
  BY Types
<1>5. Stream[1] = c /\ Len(Stream) >= 1
  BY <1>3, <1>4
<1>6. Stream' = Tail(chunk) \o wire
  BY <1>1 DEF Stream
<1>7. Shifted(Stream, Stream', 1)
  <2> DEFINE t == Tail(chunk)
             w == t \o wire
  <2>1. /\ Len(w) = Len(t) + Len(wire)
        /\ \A i \in 1 .. Len(t) : w[i] = t[i]
        /\ \A i \in 1 .. Len(wire) : w[Len(t) + i] = wire[i]
    BY <1>2, <1>3, JoinIs
  <2> HIDE DEF w
  <2>2. Len(w) = Len(Stream) - 1
    BY <1>3, <1>4, <2>1
  <2>3. ASSUME NEW i \in 1 .. Len(w) PROVE w[i] = Stream[i + 1]
    <3>1. CASE i <= Len(t)
      <4>1. i \in 1 .. Len(t) /\ i \in 1 .. Len(chunk) - 1 /\ i + 1 \in 1 .. Len(chunk)
        BY <1>3, <3>1
      <4>2. t[i] = chunk[i + 1]
        BY <1>3, <4>1
      <4> QED
        BY <1>4, <2>1, <4>1, <4>2
    <3>2. CASE i > Len(t)
      <4>1. PICK k \in 1 .. Len(wire) : Len(t) + k = i /\ Len(chunk) + k = i + 1
        <5> DEFINE k == i - Len(t)
        <5>1. k \in 1 .. Len(wire) /\ Len(t) + k = i /\ Len(chunk) + k = i + 1
          BY <1>3, <1>4, <2>1, <3>2
        <5> QED
          BY <5>1
      <4>2. w[Len(t) + k] = wire[k] /\ Stream[Len(chunk) + k] = wire[k]
        BY <1>4, <2>1
      <4> QED
        BY <4>1, <4>2
    <3> QED
      BY <1>3, <3>1, <3>2
  <2> QED
    BY <1>5, <1>6, <2>2, <2>3 DEF Shifted, w
<1> HIDE DEF c
<1> QED
  BY <1>1, <1>3, <1>5, <1>7 DEF Plain

(* The loop goes on.                                                         *)
LEMMA PlainStruct ==
    ASSUME Struct, Plain
    PROVE  Struct' /\ AtLoop' /\ Open' /\ server' # "stop"
BY DEF Struct, Plain, After, AtLoop, Open

(* A byte of noise is kept.                                                  *)
LEMMA ByteMoves ==
    ASSUME IInv, IInv', Struct, Byte, NEW f \in Nat, f >= 1, f <= Len(Stream), Lull(f)
    PROVE  Moved(f, 1) /\ Plain
<1> DEFINE c == Stream[1]
<1>1. /\ server = "bytes" /\ Len(Stream) >= 1 /\ Shifted(Stream, Stream', 1) /\ c \in Octet
      /\ UNCHANGED <<client, acks, halted, issued, answered>>
      /\ inPacket' = (Opens(c) \/ (inPacket /\ ~Closes(c)))
      /\ remaining' = IF Closes(c) THEN 2 ELSE IF Counting(c) THEN remaining - 1 ELSE remaining
      /\ Counting(c) \/ Plain
  BY ByteIs
<1>2. Between /\ Calm(buffer, Stream, f, FALSE)
  BY <1>1 DEF Lull, Calm
<1>3. c \in {Plus, CtrlC}
  BY <1>2 DEF Calm, AllNoise, Noise
<1>4. ~Opens(c) /\ ~Closes(c) /\ ~Counting(c)
  BY <1>2, <1>3 DEF Opens, Closes, Counting, Between, Dollar, Hash, Plus, CtrlC
<1>5. Plain /\ Between'
  BY <1>1, <1>2, <1>4 DEF Between
<1>6. /\ buffer \in Seq(Octet) /\ Stream \in Seq(Octet) /\ Stream' \in Seq(Octet)
      /\ Len(Stream) \in Nat /\ Len(Stream') \in Nat /\ Len(buffer) \in Nat
  BY Types, NextTypes
<1>7. /\ Calm(Append(buffer, c), Stream', f - 1, FALSE)
      /\ NoCall(Stream, f) => NoCall(Stream', f - 1)
      /\ NoCall(Stream, f) /\ NoCall(buffer, Len(buffer)) =>
            NoCall(Append(buffer, c), Len(buffer) + 1)
  <2>1. f \in Nat \ {0}
    OBVIOUS
  <2> QED
    BY <1>1, <1>2, <1>6, <2>1, CalmMoves
<1>8. buffer' = Append(buffer, c) /\ Len(buffer') = Len(buffer) + 1
  BY <1>1, <1>5, <1>6 DEF Plain
<1>9. /\ Open' /\ server' # "stop" /\ outbox' = outbox /\ session' = session /\ Same /\ Tells
      /\ server # "stop"
  BY <1>1, <1>5, PlainStruct DEF Plain, Same, Tells
<1>10. Lull(f - 1)'
  <2>1. Calm(buffer', Stream', f - 1, server' = "stop")
    BY <1>7, <1>8, <1>9 DEF Calm
  <2> QED
    BY <1>5, <2>1 DEF Lull
<1>11. Len(Stream') = Len(Stream) - 1 /\ \A i \in 1 .. Len(Stream') : Stream'[i] = Stream[i + 1]
  BY <1>1 DEF Shifted
<1>12. Hush => Hush'
  <2> SUFFICES ASSUME Hush PROVE Hush'
    OBVIOUS
  <2>1. NoCall(Stream, f)
    BY <1>6 DEF Hush, NoCall
  <2>2. NoCall(buffer', Len(buffer'))
    BY <1>7, <1>8, <2>1 DEF Hush
  <2>3. NoCall(Stream', Len(Stream'))
    <3>1. \A i \in 1 .. Len(Stream') : i + 1 \in 1 .. Len(Stream)
      BY <1>6, <1>11
    <3> QED
      BY <1>11, <3>1 DEF Hush, NoCall
  <2> QED
    BY <1>9, <2>2, <2>3 DEF Hush
<1>13. Called(f - 1)' <= Called(f)
  <2>1. Called(f - 1)' = (IF NoCall(Stream', f - 1) THEN 0 ELSE 1)
    BY <1>9 DEF Called
  <2>2. Called(f) = (IF NoCall(Stream, f) THEN 0 ELSE 1)
    BY <1>9 DEF Called
  <2> QED
    BY <1>7, <2>1, <2>2
<1>14. Len(buffer') + Len(Stream') <= Len(buffer) + Len(Stream)
  BY <1>6, <1>8, <1>11
<1>15. (Len(outbox) + Running + Called(f - 1))' <= Len(outbox) + Running + Called(f)
  <2> DEFINE r == Running
             k == Called(f)
             k1 == Called(f - 1)'
  <2>1. r \in Int /\ k \in Int /\ k1 \in Int /\ k1 <= k /\ Len(outbox) \in Nat
    BY <1>13, ListedLength DEF Running, Called, Struct
  <2>2. Running' = Running /\ Len(outbox') = Len(outbox)
    BY <1>9 DEF Running
  <2> HIDE DEF r, k, k1
  <2>3. Len(outbox) + r + k1 <= Len(outbox) + r + k
    BY <2>1
  <2> QED
    BY <2>2, <2>3 DEF r, k, k1
<1> QED
  BY <1>1, <1>5, <1>9, <1>10, <1>12, <1>14, <1>15 DEF Moved

(* The "$" of the packet, behind noise or in an empty buffer.                *)
LEMMA ByteBegins ==
    ASSUME IInv, IInv', Struct, Byte, issued # <<>>, Lull(0), Coming(0, 0)
    PROVE  Within' /\ Plain
<1> DEFINE n == Len(Asks)
           c == Stream[1]
<1>1. /\ n \in Nat /\ Asks \in Seq(Octet) /\ Copy[1] = Dollar
      /\ buffer \in Seq(Octet) /\ Len(buffer) \in Nat /\ Dollar \in Octet
  BY CopyIs, Types DEF Dollar, Octet
<1>2. c = Dollar
  <2>1. \A i \in 1 .. (n + 4) - 0 : Stream[0 + i] = Copy[0 + i]
    BY DEF Coming
  <2>2. 1 \in 1 .. (n + 4) - 0 /\ 0 + 1 = 1
    BY <1>1
  <2>3. Stream[0 + 1] = Copy[0 + 1]
    BY <2>1, <2>2
  <2> QED
    BY <1>1, <2>2, <2>3
<1>3. /\ server = "bytes" /\ Shifted(Stream, Stream', 1) /\ issued' = issued
      /\ inPacket' = (Opens(c) \/ (inPacket /\ ~Closes(c)))
      /\ remaining' = IF Closes(c) THEN 2 ELSE IF Counting(c) THEN remaining - 1 ELSE remaining
      /\ Counting(c) \/ Plain
  BY ByteIs
<1>4. Between /\ Calm(buffer, Stream, 0, FALSE)
  BY <1>3 DEF Lull, Calm
<1>5. Opens(c) /\ ~Closes(c) /\ ~Counting(c)
  BY <1>2, <1>4 DEF Opens, Closes, Counting, Between
<1>6. inPacket' = TRUE /\ remaining' = 0 /\ Plain
  BY <1>3, <1>4, <1>5 DEF Between
<1>7. server' # "stop" /\ buffer' = Append(buffer, Dollar) /\ outbox' = outbox /\ session' = session
  BY <1>2, <1>6, PlainStruct DEF Plain
<1>8. Asks' = Asks /\ Copy' = Copy
  BY <1>3 DEF Cur, Asks, Copy
<1>9. Len(outbox) \in Nat
  BY ListedLength DEF Struct
<1>10. Coming(0, 1)'
  <2>1. 0 \in Nat /\ 0 < Len(Asks) + 4 /\ 0 + 1 = 1 /\ server # "stop"
    BY <1>1, <1>3
  <2>2. Coming(0, 0 + 1)'
    BY <1>3, <1>7, <1>9, <2>1, ComingSteps
  <2> QED
    BY <2>2
<1>11. Frame(1)'
  <2>1. 1 <= n + 1 /\ 1 # n + 2 /\ 1 # n + 3
    BY <1>1
  <2> QED
    BY <1>6, <1>8, <2>1 DEF Frame
<1>12. Len(buffer') = Len(buffer) + 1 /\ buffer'[Len(buffer) + 1] = Dollar
  BY <1>1, <1>7
<1>13. CASE Len(buffer) = 0
  <2>1. Clean(1)'
    BY <1>1, <1>8, <1>12, <1>13 DEF Clean
  <2>2. 1 \in 1 .. Len(Asks') + 3
    BY <1>1, <1>8
  <2> QED
    BY <1>6, <1>7, <1>10, <1>11, <2>1, <2>2 DEF Within
<1>14. CASE Len(buffer) # 0
  <2> DEFINE v == SubSeq(buffer, 2, Len(buffer))
             l == Len(buffer)
  <2>1. l \in Nat /\ l >= 1 /\ l <= Len(buffer)
    BY <1>1, <1>14
  <2>2. v \in Seq(Octet) /\ Len(v) = l - 1 /\ \A i \in 1 .. l - 1 : v[i] = buffer[i + 1]
    <3> HIDE DEF l
    <3>1. SubSeq(buffer, 2, l) \in Seq(Octet) /\ Len(SubSeq(buffer, 2, l)) = l - 1
          /\ \A i \in 1 .. l - 1 : SubSeq(buffer, 2, l)[i] = buffer[i + 1]
      BY <1>1, <2>1, MiddleFacts
    <3> QED
      BY <3>1 DEF l
  <2>3. SubSeq(buffer', 2, Len(buffer')) = Append(v, Dollar)
    <3>1. SubSeq(Append(buffer, Dollar), 2, Len(buffer) + 1) = Append(v, Dollar)
      BY <1>1, <2>1, MiddleAppended
    <3> QED
      BY <1>7, <1>12, <3>1
  <2> HIDE DEF v, n
  <2>4. l + 0 <= 7 /\ AllNoise(buffer, l) /\ OneCall(buffer, l)
    BY <1>4 DEF Calm, Limit
  <2>5. Len(v) < Limit
    BY <2>1, <2>2, <2>4 DEF Limit
  <2>6. AllNoise(v, Len(v)) /\ OneCall(v, Len(v))
    <3>1. 1 \in 0 .. l /\ \A i \in 1 .. l - 1 : v[i] = buffer[i + 1]
      BY <2>1, <2>2
    <3>2. (OneCall(buffer, l) => OneCall(v, l - 1)) /\ (AllNoise(buffer, l) => AllNoise(v, l - 1))
      <4> HIDE DEF l
      <4> QED
        BY <2>1, <3>1, OneCallShifts
    <3> QED
      BY <2>2, <2>4, <3>2
  <2>7. Damage(Asks, (Sum(v) + Dollar) % 256, 0)
    BY <1>1, <2>2, <2>5, <2>6, DamageBegins
  <2>8. Sum(Append(v, Dollar)) = (Sum(v) + Dollar) % 256
    BY <1>1, <2>2, SumFacts
  <2>9. Damage(Asks, Sum(SubSeq(buffer', 2, Len(buffer'))), 0)
    BY <2>3, <2>7, <2>8
  <2>10. Trailer(1)' = 0 /\ Gone(1)' = 0
    <3>1. 1 <= Len(Asks) + 1 /\ 1 - 1 = 0
      BY <1>1 DEF n
    <3> QED
      BY <1>8, <3>1 DEF Trailer, Gone
  <2>11. Len(buffer') > 0 /\ Len(buffer') - 0 = Len(buffer')
    BY <1>1, <1>12
  <2>12. Dirty(1)'
    BY <1>8, <2>9, <2>10, <2>11 DEF Dirty
  <2>13. 1 \in 1 .. Len(Asks') + 3
    BY <1>1, <1>8 DEF n
  <2> QED
    BY <1>6, <1>7, <1>10, <1>11, <2>12, <2>13 DEF Within
<1> QED
  BY <1>13, <1>14

(* How much of the body is through, and how much of the checksum.            *)
LEMMA GoneIs ==
    ASSUME IInv, issued # <<>>
    PROVE  /\ \A pos \in 1 .. Len(Asks) + 1 : Trailer(pos) = 0 /\ Gone(pos) = pos - 1
           /\ Trailer(Len(Asks) + 2) = 1 /\ Gone(Len(Asks) + 2) = Len(Asks)
           /\ Trailer(Len(Asks) + 3) = 2 /\ Gone(Len(Asks) + 3) = Len(Asks)
           /\ Gone(Len(Asks) + 1) = Len(Asks)
<1> DEFINE n == Len(Asks)
<1>1. n \in Nat
  BY CopyIs
<1> HIDE DEF n
<1>2. /\ \A pos \in 1 .. n + 1 : pos <= n + 1
      /\ ~(n + 2 <= n + 1) /\ ~(n + 3 <= n + 1) /\ n + 1 <= n + 1 /\ n + 1 - 1 = n
      /\ n + 2 - (n + 1) = 1 /\ n + 3 - (n + 1) = 2
  BY <1>1
<1> QED
  BY <1>2 DEF Trailer, Gone, n

(* What the loop makes of a byte of the packet but the last.                 *)
LEMMA WithinCounts ==
    ASSUME PlainBodies, IInv, Struct, Byte, issued # <<>>,
           NEW pos \in 1 .. Len(Asks) + 2, Coming(0, pos), Frame(pos)
    PROVE  /\ Stream[1] = Copy[pos + 1] /\ Plain /\ Frame(pos + 1)'
           /\ Asks' = Asks /\ Copy' = Copy
<1> DEFINE n == Len(Asks)
           c == Stream[1]
<1>1. /\ n \in Nat /\ Copy[n + 2] = Hash
      /\ \A i \in 1 .. n : Copy[i + 1] = Asks[i]
      /\ Copy[n + 3] \in HexDigits
  BY CopyIs
<1>2. c = Copy[pos + 1]
  <2>1. \A i \in 1 .. (n + 4) - pos : Stream[0 + i] = Copy[pos + i]
    BY DEF Coming
  <2>2. 1 \in 1 .. (n + 4) - pos /\ 0 + 1 = 1
    BY <1>1
  <2>3. Stream[0 + 1] = Copy[pos + 1]
    BY <2>1, <2>2
  <2> QED
    BY <2>2, <2>3
<1>3. /\ issued' = issued
      /\ inPacket' = (Opens(c) \/ (inPacket /\ ~Closes(c)))
      /\ remaining' = IF Closes(c) THEN 2 ELSE IF Counting(c) THEN remaining - 1 ELSE remaining
      /\ (Counting(c) /\ remaining' = 0) \/ Plain
  BY ByteIs
<1>4. Asks' = Asks /\ Copy' = Copy
  BY <1>3 DEF Cur, Asks, Copy
<1>5. /\ inPacket <=> pos <= n + 1
      /\ remaining = IF pos = n + 2 THEN 2 ELSE IF pos = n + 3 THEN 1 ELSE 0
  BY DEF Frame
<1> HIDE DEF n, c
<1>6. /\ Plain /\ (inPacket' <=> pos + 1 <= n + 1)
      /\ remaining' = IF pos + 1 = n + 2 THEN 2 ELSE IF pos + 1 = n + 3 THEN 1 ELSE 0
  <2>1. CASE pos \in 1 .. n
    <3>1. c # Hash
      BY <1>1, <1>2, <2>1, AsksTyped DEF PlainBodies, Asks, n
    <3>2. inPacket /\ remaining = 0
      <4>1. pos <= n + 1 /\ pos # n + 2 /\ pos # n + 3
        BY <1>1, <2>1
      <4> QED
        BY <1>5, <4>1
    <3>3. inPacket' /\ remaining' = 0 /\ Plain
      BY <1>3, <3>1, <3>2 DEF Opens, Closes, Counting
    <3>4. pos + 1 <= n + 1 /\ pos + 1 # n + 2 /\ pos + 1 # n + 3
      BY <1>1, <2>1
    <3> QED
      BY <3>3, <3>4
  <2>2. CASE pos = n + 1
    <3>1. c = Hash
      BY <1>1, <1>2, <2>2
    <3>2. inPacket /\ remaining = 0
      <4>1. pos <= n + 1 /\ pos # n + 2 /\ pos # n + 3
        BY <1>1, <2>2
      <4> QED
        BY <1>5, <4>1
    <3>3. ~inPacket' /\ remaining' = 2 /\ Plain
      BY <1>3, <3>1, <3>2 DEF Opens, Closes, Counting, Hash, Dollar
    <3>4. ~(pos + 1 <= n + 1) /\ pos + 1 = n + 2
      BY <1>1, <2>2
    <3> QED
      BY <3>3, <3>4
  <2>3. CASE pos = n + 2
    <3>1. c # Dollar /\ c # Hash
      <4>1. c = Copy[n + 3]
        BY <1>1, <1>2, <2>3
      <4> QED
        BY <1>1, <4>1, DigitsApart
    <3>2. ~inPacket /\ remaining = 2
      <4>1. ~(pos <= n + 1) /\ pos = n + 2
        BY <1>1, <2>3
      <4> QED
        BY <1>5, <2>3, <4>1
    <3>3. ~inPacket' /\ remaining' = 1 /\ Plain
      <4>1. ~Opens(c) /\ ~Closes(c) /\ Counting(c)
        BY <3>1, <3>2 DEF Opens, Closes, Counting
      <4>2. remaining' = 2 - 1 /\ ~inPacket'
        BY <1>3, <3>2, <4>1
      <4> QED
        BY <1>3, <4>2
    <3>4. ~(pos + 1 <= n + 1) /\ pos + 1 # n + 2 /\ pos + 1 = n + 3
      BY <1>1, <2>3
    <3> QED
      BY <3>3, <3>4
  <2> QED
    BY <1>1, <2>1, <2>2, <2>3 DEF n
<1> QED
  BY <1>2, <1>4, <1>6 DEF Frame, n, c

(* The next byte of an undamaged packet, and of a damaged one.               *)
LEMMA CleanSteps ==
    ASSUME IInv, NEW pos \in Nat, Clean(pos), buffer' = Append(buffer, Copy[pos + 1]), Copy' = Copy,
           Copy[pos + 1] \in Octet
    PROVE  Clean(pos + 1)'
<1>1. buffer \in Seq(Octet) /\ Len(buffer) = pos /\ \A i \in 1 .. pos : buffer[i] = Copy[i]
  BY Types DEF Clean
<1>2. Len(buffer') = pos + 1 /\ buffer'[pos + 1] = Copy[pos + 1]
      /\ \A i \in 1 .. pos : buffer'[i] = buffer[i]
  BY <1>1
<1>3. \A i \in 1 .. pos + 1 : i \in 1 .. pos \/ i = pos + 1
  OBVIOUS
<1>4. \A i \in 1 .. pos + 1 : buffer'[i] = Copy[i]
  BY <1>1, <1>2, <1>3
<1> QED
  BY <1>2, <1>4 DEF Clean

LEMMA DirtySteps ==
    ASSUME IInv, issued # <<>>, NEW pos \in 1 .. Len(Asks) + 2, Dirty(pos),
           buffer' = Append(buffer, Copy[pos + 1]), Copy' = Copy, Asks' = Asks
    PROVE  Dirty(pos + 1)'
<1> DEFINE n == Len(Asks)
           c == Copy[pos + 1]
           l == Len(buffer)
<1>1. /\ n \in Nat /\ Asks \in Seq(Octet) /\ buffer \in Seq(Octet) /\ l \in Nat
      /\ Copy \in Seq(Octet) /\ Len(Copy) = n + 4
      /\ \A i \in 1 .. n : Copy[i + 1] = Asks[i]
  BY CopyIs, Types
<1>2. c \in Octet
  BY <1>1
<1>3. Len(buffer') = l + 1 /\ buffer'[l + 1] = c
  BY <1>1, <1>2
<1> DEFINE tr == Trailer(pos)
           h == l - tr
           v == SubSeq(buffer, 2, h)
<1>4. /\ l > tr /\ Damage(Asks, Sum(v), Gone(pos))
  BY DEF Dirty
<1>5. /\ \A i \in 1 .. n + 1 : Trailer(i) = 0 /\ Gone(i) = i - 1
      /\ Trailer(n + 2) = 1 /\ Gone(n + 2) = n
      /\ Trailer(n + 3) = 2 /\ Gone(n + 3) = n
  BY GoneIs
<1>6. Trailer(pos + 1)' = Trailer(pos + 1) /\ Gone(pos + 1)' = Gone(pos + 1)
  BY DEF Trailer, Gone
<1> DEFINE t1 == Trailer(pos + 1)
           g1 == Gone(pos + 1)
<1>7. SUFFICES /\ l + 1 > t1
               /\ Damage(Asks, Sum(SubSeq(buffer', 2, (l + 1) - t1)), g1)
               /\ t1 = 2 => c = Copy[n + 3]
  <2>1. Trailer(pos + 1)' = t1 /\ Gone(pos + 1)' = g1
    BY <1>6
  <2> HIDE DEF t1, g1
  <2>2. Len(buffer') > t1
    BY <1>3, <1>7 DEF l
  <2>3. Damage(Asks, Sum(SubSeq(buffer', 2, Len(buffer') - t1)), g1)
    <3> HIDE DEF l, c
    <3> DEFINE m == Len(buffer')
    <3>2. m = l + 1
      BY <1>3
    <3> HIDE DEF m
    <3>1. m - t1 = (l + 1) - t1
      BY <3>2
    <3> USE DEF m
    <3> QED
      BY <1>7, <3>1
  <2>4. t1 = 2 => buffer'[Len(buffer')] = Copy[Len(Asks) + 3]
    BY <1>3, <1>7 DEF l, c, n
  <2> QED
    BY <2>1, <2>2, <2>3, <2>4 DEF Dirty
<1>8. CASE pos \in 1 .. n
  <2>1. tr = 0 /\ Gone(pos) = pos - 1 /\ Trailer(pos + 1) = 0 /\ Gone(pos + 1) = pos
    <3>1. pos \in 1 .. n + 1 /\ pos + 1 \in 1 .. n + 1 /\ (pos + 1) - 1 = pos
      BY <1>1, <1>8
    <3> QED
      BY <1>5, <3>1
  <2>2. l >= 1 /\ l - 0 = l /\ (l + 1) - 0 = l + 1
    BY <1>1, <1>4, <2>1
  <2> DEFINE w == SubSeq(buffer, 2, l)
  <2>3. Damage(Asks, Sum(w), pos - 1)
    BY <1>4, <2>1, <2>2
  <2>4. SubSeq(buffer', 2, l + 1) = Append(w, c)
    BY <1>1, <1>2, <2>2, MiddleAppended
  <2>5. w \in Seq(Octet)
    <3> HIDE DEF l
    <3>1. l <= Len(buffer)
      BY <1>1 DEF l
    <3> QED
      BY <1>1, <2>2, <3>1, MiddleFacts
  <2> HIDE DEF w, l, c, tr, h, v
  <2>6. Sum(Append(w, c)) = (Sum(w) + c) % 256
    BY <1>2, <2>5, SumFacts
  <2>7. c = Asks[pos]
    BY <1>1, <1>8 DEF c
  <2>8. Damage(Asks, (Sum(w) + Asks[pos]) % 256, pos)
    <3>1. pos - 1 \in Nat /\ pos - 1 < Len(Asks) /\ (pos - 1) + 1 = pos
      BY <1>1, <1>8
    <3>2. Damage(Asks, (Sum(w) + Asks[(pos - 1) + 1]) % 256, (pos - 1) + 1)
      BY <1>1, <2>3, <3>1, DamageStays
    <3> QED
      BY <3>1, <3>2
  <2>9. Damage(Asks, Sum(SubSeq(buffer', 2, l + 1)), pos)
    BY <2>4, <2>6, <2>7, <2>8
  <2>10. l + 1 > 0
    BY <1>1
  <2> QED
    BY <2>1, <2>2, <2>9, <2>10
<1>9. CASE pos \in n + 1 .. n + 2
  <2>1. /\ tr \in Nat /\ Trailer(pos + 1) = tr + 1 /\ Gone(pos) = n /\ Gone(pos + 1) = n
        /\ Trailer(pos + 1) = 2 => pos + 1 = n + 3
    <3>1. CASE pos = n + 1
      <4>1. pos \in 1 .. n + 1 /\ (n + 1) - 1 = n /\ pos + 1 = n + 2
        BY <1>1, <3>1
      <4>2. tr = 0 /\ Gone(pos) = n /\ Trailer(pos + 1) = 1 /\ Gone(pos + 1) = n
        BY <1>5, <3>1, <4>1
      <4> QED
        BY <4>2
    <3>2. CASE pos = n + 2
      <4>1. pos + 1 = n + 3
        BY <1>1, <3>2
      <4>2. tr = 1 /\ Gone(pos) = n /\ Trailer(pos + 1) = 2 /\ Gone(pos + 1) = n
        BY <1>5, <3>2, <4>1
      <4> QED
        BY <4>1, <4>2
    <3> QED
      BY <1>1, <1>9, <3>1, <3>2
  <2>2. h \in Nat /\ h >= 1 /\ h <= l /\ (l + 1) - (tr + 1) = h /\ l + 1 > tr + 1
    <3>1. l \in Nat /\ tr \in Nat /\ l > tr /\ h = l - tr
      BY <1>1, <1>4, <2>1
    <3> HIDE DEF l, tr, h, v, c, n, t1, g1
    <3> QED
      BY <3>1
  <2>3. SubSeq(buffer', 2, h) = v
    <3> HIDE DEF h, c
    <3> QED
      BY <1>1, <1>2, <2>2, MiddleAppended DEF c
  <2> QED
    BY <1>4, <2>1, <2>2, <2>3
<1> QED
  BY <1>1, <1>8, <1>9

(* The loop goes on within the packet.                                       *)
LEMMA ByteWithin ==
    ASSUME PlainBodies, IInv, IInv', Struct, Byte, issued # <<>>,
           NEW pos \in 1 .. Len(Asks) + 2, Coming(0, pos), Frame(pos), Clean(pos) \/ Dirty(pos)
    PROVE  Within' /\ Plain
<1>1. /\ Stream[1] = Copy[pos + 1] /\ Plain /\ Frame(pos + 1)' /\ Asks' = Asks /\ Copy' = Copy
  BY WithinCounts
<1>2. /\ server = "bytes" /\ Shifted(Stream, Stream', 1) /\ issued' = issued
      /\ Stream[1] \in Octet
  BY ByteIs
<1>3. server' # "stop" /\ buffer' = Append(buffer, Copy[pos + 1]) /\ outbox' = outbox /\ session' = session
  BY <1>1, PlainStruct DEF Plain
<1>4. Len(Asks) \in Nat /\ Len(outbox) \in Nat
  BY CopyIs, ListedLength DEF Struct
<1>5. pos \in Nat /\ pos < Len(Asks) + 4 /\ pos + 1 \in 1 .. Len(Asks) + 3 /\ server # "stop"
  BY <1>2, <1>4
<1>6. Coming(0, pos + 1)'
  BY <1>2, <1>3, <1>4, <1>5, ComingSteps
<1>7. Clean(pos + 1)' \/ Dirty(pos + 1)'
  BY <1>1, <1>2, <1>3, <1>5, CleanSteps, DirtySteps
<1> QED
  BY <1>1, <1>3, <1>5, <1>6, <1>7 DEF Within

(* Nothing is under way but acknowledgements.                                *)
PlusesComing == \A i \in 1 .. Len(Stream) : Stream[i] = Plus

(* The last byte of the packet is looked at: only acknowledgements follow.   *)
LEMMA PacketEnds ==
    ASSUME IInv, IInv', Struct, Byte, issued # <<>>, Coming(0, Len(Asks) + 3), Frame(Len(Asks) + 3)
    PROVE  /\ server = "bytes" /\ Stream[1] = Copy[Len(Asks) + 4]
           /\ UNCHANGED <<client, acks, halted, issued, answered>>
           /\ Between' /\ buffer' = <<>> /\ PlusesComing'
           /\ Len(Stream') + Len(outbox) + Running <= 2
           /\ Len(Stream') \in Nat /\ Len(outbox) \in Nat
           /\ \/ TestChecksum(Append(buffer, Stream[1])) /\ Accepted(Append(buffer, Stream[1]))
              \/ ~TestChecksum(Append(buffer, Stream[1])) /\ Refused
<1> DEFINE n == Len(Asks)
           c == Stream[1]
<1>1. n \in Nat /\ Copy[n + 4] \in HexDigits
  BY CopyIs
<1>2. /\ \A i \in 1 .. (n + 4) - (n + 3) : Stream[0 + i] = Copy[(n + 3) + i]
      /\ \A i \in 0 + ((n + 4) - (n + 3)) + 1 .. Len(Stream) : Stream[i] = Plus
      /\ Len(Stream) - 0 - ((n + 4) - (n + 3)) + Len(outbox) + Running + Called(0) <= 2
  BY DEF Coming
<1>3. c = Copy[n + 4]
  <2>1. 1 \in 1 .. (n + 4) - (n + 3) /\ 0 + 1 = 1 /\ (n + 3) + 1 = n + 4
    BY <1>1
  <2>2. Stream[0 + 1] = Copy[(n + 3) + 1]
    BY <1>2, <2>1
  <2> QED
    BY <2>1, <2>2
<1>4. /\ server = "bytes" /\ Shifted(Stream, Stream', 1)
      /\ UNCHANGED <<client, acks, halted, issued, answered>>
      /\ inPacket' = (Opens(c) \/ (inPacket /\ ~Closes(c)))
      /\ remaining' = IF Closes(c) THEN 2 ELSE IF Counting(c) THEN remaining - 1 ELSE remaining
      /\ \/ ~(Counting(c) /\ remaining' = 0) /\ Plain
         \/ /\ buffer' = <<>>
            /\ \/ TestChecksum(Append(buffer, c)) /\ Accepted(Append(buffer, c))
               \/ ~TestChecksum(Append(buffer, c)) /\ Refused
  BY ByteIs
<1>5. /\ Len(Stream') \in Nat /\ Len(Stream) \in Nat /\ Len(outbox) \in Nat
      /\ Running \in Int /\ Called(0) = 0
  <2>1. Called(0) = 0
    BY <1>4 DEF Called, NoCall
  <2> QED
    BY <2>1, Types, NextTypes, ListedLength DEF Struct, Running
<1>6. ~inPacket /\ remaining = 1
  <2>1. ~(n + 3 <= n + 1) /\ n + 3 # n + 2 /\ n + 3 = n + 3
    BY <1>1
  <2> QED
    BY <2>1 DEF Frame
<1>7. c # Dollar /\ c # Hash
  BY <1>1, <1>3, DigitsApart
<1> HIDE DEF n, c
<1>8. ~Opens(c) /\ ~Closes(c) /\ Counting(c)
  BY <1>6, <1>7 DEF Opens, Closes, Counting
<1>9. ~inPacket' /\ remaining' = 1 - 1
  BY <1>4, <1>6, <1>8
<1>10. Len(Stream') = Len(Stream) - 1 /\ \A i \in 1 .. Len(Stream') : Stream'[i] = Stream[i + 1]
  BY <1>4 DEF Shifted
<1>11. PlusesComing'
  <2>1. \A i \in 1 .. Len(Stream') : i + 1 \in 0 + ((n + 4) - (n + 3)) + 1 .. Len(Stream)
    BY <1>1, <1>5, <1>10
  <2> QED
    BY <1>2, <1>10, <2>1 DEF PlusesComing
<1>12. Len(Stream') + Len(outbox) + Running <= 2
  <2> DEFINE r == Running
             k == Called(0)
  <2>1. r \in Int /\ k = 0 /\ Len(Stream) - 0 - ((n + 4) - (n + 3)) + Len(outbox) + r + k <= 2
    BY <1>2, <1>5
  <2> HIDE DEF r, k
  <2>2. Len(Stream') + Len(outbox) + r <= 2
    BY <1>1, <1>5, <1>10, <2>1
  <2> QED
    BY <2>2 DEF r
<1>13. /\ buffer' = <<>>
       /\ \/ TestChecksum(Append(buffer, c)) /\ Accepted(Append(buffer, c))
          \/ ~TestChecksum(Append(buffer, c)) /\ Refused
  <2>1. Counting(c) /\ remaining' = 0
    BY <1>8, <1>9
  <2> QED
    BY <1>4, <2>1, Zenon
<1>14. Between'
  BY <1>9 DEF Between
<1> QED
  BY <1>3, <1>4, <1>5, <1>11, <1>12, <1>13, <1>14 DEF n, c

(* They are noise to an empty buffer.                                        *)
LEMMA PlusesCalm ==
    ASSUME IInv', Between', buffer' = <<>>, PlusesComing', server' # "stop", NEW more \in Nat,
           Len(outbox') \in Nat, Len(Stream') + Len(outbox') + Running' + more <= Limit
    PROVE  Calmed(more)' /\ AllNoise(Stream', Len(Stream'))
<1>1. Len(buffer') = 0 /\ Len(Stream') \in Nat
  BY NextTypes
<1>2. \A i \in 1 .. Len(Stream') : Stream'[i] = Plus
  BY DEF PlusesComing
<1>3. AllNoise(Stream', Len(Stream')) /\ NoCall(Stream', Len(Stream')) /\ OneCall(Stream', Len(Stream'))
  BY <1>2 DEF AllNoise, NoCall, OneCall, Noise, Plus, CtrlC
<1>4. AllNoise(buffer', Len(buffer')) /\ NoCall(buffer', Len(buffer')) /\ OneCall(buffer', Len(buffer'))
  BY <1>1 DEF AllNoise, NoCall, OneCall
<1> DEFINE r == Running'
           l == Len(Stream')
           o == Len(outbox')
<1>5. r \in 0 .. 1 /\ l \in Nat /\ o \in Nat /\ l + o + r + more <= 7 /\ Len(buffer') = 0
  BY <1>1 DEF Running, Limit
<1> HIDE DEF r, l, o
<1>6. 0 + l <= 7 /\ 0 + l + o + r + more <= 7
  BY <1>5
<1>7. Len(buffer') + l <= 7 /\ Len(buffer') + l + o + r + more <= 7
  BY <1>5, <1>6
<1>8. Hush'
  BY <1>3, <1>4 DEF Hush
<1>9. Lull(Len(Stream))'
  BY <1>3, <1>4, <1>7 DEF Lull, Calm, Limit, l
<1> QED
  BY <1>3, <1>7, <1>8, <1>9 DEF Calmed, Limit, r, l, o

(* Only the packet the client sent passes for it.                            *)
LEMMA ChecksumShows ==
    ASSUME PlainBodies, IInv, issued # <<>>, Clean(Len(Asks) + 3) \/ Dirty(Len(Asks) + 3),
           NEW packet, packet = Append(buffer, Copy[Len(Asks) + 4]), TestChecksum(packet)
    PROVE  packet = Copy
<1> DEFINE n == Len(Asks)
           c == Copy[n + 4]
           l == Len(buffer)
<1>1. /\ n \in Nat /\ Asks \in Seq(Octet) /\ buffer \in Seq(Octet) /\ l \in Nat
      /\ Copy \in Seq(Octet) /\ Len(Copy) = n + 4
      /\ ChecksumToChars(Sum(Asks)) = <<Copy[n + 3], Copy[n + 4]>>
  BY CopyIs, Types
<1>2. c \in Octet
  BY <1>1
<1>3. /\ packet \in Seq(Octet) /\ Len(packet) = l + 1 /\ packet[l + 1] = c
      /\ \A i \in 1 .. l : packet[i] = buffer[i]
  BY <1>1, <1>2
<1>4. CASE Clean(n + 3)
  <2>1. l = n + 3 /\ \A i \in 1 .. n + 3 : buffer[i] = Copy[i]
    BY <1>4 DEF Clean
  <2>2. \A i \in 1 .. n + 4 : i \in 1 .. n + 3 \/ i = n + 4
    BY <1>1
  <2>3. Len(packet) = Len(Copy) /\ \A i \in 1 .. n + 4 : packet[i] = Copy[i]
    <3> HIDE DEF n
    <3>1. l + 1 = n + 4
      BY <1>1, <2>1
    <3>2. Len(packet) = Len(Copy)
      BY <1>1, <1>3, <3>1
    <3>3. packet[n + 4] = Copy[n + 4]
      BY <1>3, <3>1
    <3>4. \A i \in 1 .. n + 3 : packet[i] = Copy[i]
      BY <1>3, <2>1
    <3> QED
      BY <2>2, <3>2, <3>3, <3>4
  <2> QED
    BY <1>1, <1>3, <2>3, SameSequence
<1>5. CASE Dirty(n + 3)
  <2> DEFINE h == l - 2
             v == SubSeq(buffer, 2, h)
  <2>1. Trailer(n + 3) = 2 /\ Gone(n + 3) = n
    BY GoneIs
  <2>2. l > 2 /\ Damage(Asks, Sum(v), n) /\ buffer[l] = Copy[n + 3]
    BY <1>5, <2>1 DEF Dirty
  <2>3. h \in Nat /\ h >= 1 /\ h <= Len(buffer) /\ (l + 1) - 3 = h /\ (l + 1) - 1 = l
    BY <1>1, <2>2
  <2>4. v \in Seq(Octet) /\ SubSeq(packet, 2, h) = v
    <3> HIDE DEF h
    <3> QED
      BY <1>1, <1>2, <2>3, MiddleFacts, MiddleAppended
  <2>5. SubSeq(packet, l, l + 1)[1] = packet[l] /\ SubSeq(packet, l, l + 1)[2] = packet[l + 1]
    <3> HIDE DEF l
    <3>1. l \in Nat /\ l >= 1 /\ packet \in Seq(Octet) /\ l + 1 = Len(packet)
      BY <1>1, <1>3, <2>2
    <3> QED
      BY <3>1
  <2>6. ChecksumToChars(Sum(v)) = SubSeq(packet, l, l + 1)
    <3>1. SubSeq(packet, Len(packet) - 1, Len(packet))
            = ChecksumToChars(Sum(SubSeq(packet, 2, Len(packet) - 3)))
      BY DEF TestChecksum
    <3>2. Len(packet) - 1 = l /\ Len(packet) - 3 = h
      BY <1>3, <2>3
    <3> HIDE DEF h, l, v
    <3> QED
      BY <1>3, <2>4, <3>1, <3>2
  <2>7. packet[l] = Copy[n + 3] /\ packet[l + 1] = Copy[n + 4]
    BY <1>1, <1>3, <2>2
  <2>8. ChecksumToChars(Sum(v)) = ChecksumToChars(Sum(Asks))
    <3> DEFINE y == NibbleToChar(Sum(v) \div 16)
               z == NibbleToChar(Sum(v) % 16)
               w == SubSeq(packet, l, l + 1)
    <3>1. w = <<y, z>> /\ ChecksumToChars(Sum(v)) = <<y, z>>
      BY <2>6 DEF ChecksumToChars
    <3> HIDE DEF w, y, z
    <3>2. w[1] = y /\ w[2] = z
      BY <3>1
    <3>3. y = Copy[n + 3] /\ z = Copy[n + 4]
      BY <2>5, <2>7, <3>2 DEF w
    <3> QED
      BY <1>1, <3>1, <3>3
  <2>9. Sum(v) \in Octet /\ Sum(Asks) \in Octet
    BY <1>1, <2>4, SumFacts
  <2> HIDE DEF v
  <2>10. Sum(v) = Sum(Asks)
    BY <2>8, <2>9, ChecksumTells
  <2>11. FewSigns(Asks)
    BY AsksTyped DEF PlainBodies, Asks
  <2> QED
    BY <1>1, <2>2, <2>10, <2>11, DamageShows
<1> QED
  BY <1>4, <1>5

(* Carrying out the last command leaves none.                                *)
LEMMA UndoneDone ==
    ASSUME IInv, Undone
    PROVE  /\ Append(handled, Cur) = issued /\ Cur \in Command
           /\ KeepsUpWith(handled, issued) /\ KeepsUpWith(answered, issued)
<1>1. issued \in Seq(Command) /\ issued # <<>> /\ handled = Front(issued) /\ answered = Front(issued)
  BY Types DEF Undone
<1> QED
  BY <1>1, FrontAppend DEF Cur, KeepsUpWith

(* The packet is carried out, once.                                          *)
LEMMA ByteAccepts ==
    ASSUME PlainBodies, IInv, IInv', Listed(outbox), Sent, Accepted(Copy),
           UNCHANGED <<client, acks, halted, issued, answered>>,
           Between', buffer' = <<>>, PlusesComing', Len(Stream') \in Nat,
           Len(Stream') + Len(outbox) + Running <= 2
    PROVE  TurnInv'
<1>1. /\ client = (IF acks THEN "ack" ELSE "answer") /\ Undone /\ issued # <<>>
      /\ OnlyStops(outbox) /\ session.ackMode = acks
  BY DEF Sent, Undone
<1>2. Cur \in Command /\ Append(handled, Cur) = issued /\ Asked(Copy) = Cur
  BY <1>1, UndoneDone, AskedIs DEF Copy, Asks
<1>3. PICK a \in Answers(session, Cur) :
        /\ session' = a[1] /\ response' = <<Cur, a[2]>> /\ handled' = Append(handled, Cur)
        /\ server' = (IF session.ackMode THEN "plus" ELSE "answer") /\ outbox' = outbox
  BY <1>2 DEF Accepted
<1>4. Typed(session) /\ acks \in BOOLEAN
  BY <1>1 DEF IInv, Typed
<1>5. session'.ackMode = ModeAfter(session, Cur)
  BY <1>3, <1>4, AnswersStay
<1>6. session'.ackMode = (acks /\ Cur.op # "QStartNoAckMode")
  <2>1. CASE Cur.op = "QStartNoAckMode"
    <3>1. session'.ackMode = FALSE
      BY <1>5, <2>1 DEF ModeAfter
    <3> QED
      BY <2>1, <3>1
  <2>2. CASE Cur.op # "QStartNoAckMode"
    <3>1. session'.ackMode = acks
      BY <1>1, <1>5, <2>2 DEF ModeAfter
    <3>2. (acks /\ Cur.op # "QStartNoAckMode") = acks
      BY <1>4, <2>2
    <3> QED
      BY <3>1, <3>2
  <2> QED
    BY <2>1, <2>2
<1>7. Cur' = Cur
  BY DEF Cur
<1>8. Done'
  <2>1. handled' = issued'
    BY <1>2, <1>3
  <2>2. issued' # <<>> /\ answered' = Front(issued')
    BY <1>1 DEF Undone
  <2>3. session'.ackMode = (acks' /\ Cur'.op # "QStartNoAckMode")
    BY <1>6, <1>7
  <2> QED
    BY <2>1, <2>2, <2>3 DEF Done
<1>9. OnlyStops(outbox)' /\ Listed(outbox)'
  BY <1>1, <1>3
<1>10. \/ client' = "ack" /\ acks' /\ server' = "plus"
       \/ client' = "answer" /\ server' = "answer"
  <2>1. CASE acks
    <3>1. session.ackMode
      BY <1>1, <2>1
    <3> QED
      BY <1>1, <1>3, <2>1, <3>1
  <2>2. CASE ~acks
    <3>1. ~session.ackMode
      BY <1>1, <2>2
    <3> QED
      BY <1>1, <1>3, <2>2, <3>1
  <2> QED
    BY <2>1, <2>2
<1>11. response' # <<>> /\ response'[1] = Cur'
  <2>1. Len(<<Cur, a[2]>>) = 2 /\ Len(<<>>) = 0 /\ <<Cur, a[2]>>[1] = Cur
    OBVIOUS
  <2> QED
    BY <1>3, <1>7, <2>1
<1>12. ASSUME NEW more \in 3 .. 4 PROVE Calmed(more)'
  <2>1. more \in Nat /\ Len(outbox') \in Nat /\ server' # "stop"
    BY <1>3, <1>10, ListedLength
  <2>2. Len(Stream') + Len(outbox') + Running' + more <= Limit
    <3> DEFINE r == Running
               r1 == Running'
               l == Len(Stream')
               o == Len(outbox)
    <3>1. r \in 0 .. 1 /\ r1 \in 0 .. 1 /\ l \in Nat /\ o \in Nat /\ l + o + r <= 2
      BY <2>1, <1>3 DEF Running
    <3> HIDE DEF r, r1, l, o
    <3>2. l + o + r1 + more <= 7
      BY <3>1
    <3> QED
      BY <1>3, <3>2 DEF Limit, r1, l, o
  <2> QED
    BY <2>1, <2>2, PlusesCalm
<1>13. Calmed(IF server = "plus" THEN 4 ELSE 3)'
  <2>1. CASE server' = "plus"
    <3>1. Calmed(4)'
      BY <1>12
    <3> QED
      BY <2>1, <3>1 DEF Calmed
  <2>2. CASE server' # "plus"
    <3>1. Calmed(3)'
      BY <1>12
    <3> QED
      BY <2>2, <3>1 DEF Calmed
  <2> QED
    BY <2>1, <2>2
<1>14. Taken'
  BY <1>8, <1>9, <1>10, <1>11, <1>13 DEF Taken
<1>15. Struct'
  BY <1>9, <1>10 DEF Struct
<1> QED
  BY <1>14, <1>15 DEF TurnInv, Turn

(* The packet is refused, and the client told if it listens.                 *)
LEMMA ByteRefuses ==
    ASSUME IInv, IInv', Listed(outbox), Sent, Refused,
           UNCHANGED <<client, acks, halted, issued, answered>>,
           Between', buffer' = <<>>, PlusesComing', Len(Stream') \in Nat,
           Len(Stream') + Len(outbox) + Running <= 2
    PROVE  TurnInv'
<1>1. /\ client = (IF acks THEN "ack" ELSE "answer") /\ Undone
      /\ OnlyStops(outbox) /\ session.ackMode = acks /\ acks \in BOOLEAN
  BY DEF Sent, IInv, Typed
<1>2. /\ server' = After(chunk') /\ session' = session /\ handled' = handled /\ response' = response
      /\ IF session.ackMode THEN outbox' = Append(outbox, Message("nak", Nothing, <<>>))
         ELSE outbox' = outbox
  BY DEF Refused, Sends
<1>3. /\ server' \in {"recv", "bytes"} /\ AtLoop' /\ server' # "stop"
      /\ server' = "recv" <=> chunk' = <<>>
  BY <1>2 DEF After, AtLoop
<1>4. Undone'
  BY <1>1, <1>2 DEF Undone
<1> DEFINE nak == Message("nak", Nothing, <<>>)
<1>5. nak.kind = "nak"
  BY DEF Message
<1> HIDE DEF nak
<1>6. /\ Listed(Append(outbox, nak)) /\ Len(Append(outbox, nak)) = Len(outbox) + 1
      /\ Len(outbox) \in Nat /\ OneReply(Append(outbox, nak), "nak")
  <2>1. OneReply(Append(outbox, nak), nak.kind)
    BY <1>1, ReplyAppended
  <2> QED
    BY <1>5, <2>1, ListedAppend
<1>7. Running' = Running /\ Running \in Int
  BY <1>2 DEF Running
<1>8. CASE acks
  <2>1. outbox' = Append(outbox, nak) /\ client = "ack" /\ session.ackMode
    BY <1>1, <1>2, <1>8 DEF nak
  <2>2. Len(Stream') + Len(outbox') + Running' + 4 <= Limit
    <3> DEFINE r == Running
               l == Len(Stream')
               o == Len(outbox)
    <3>1. r \in Int /\ l \in Nat /\ o \in Nat /\ l + o + r <= 2
      BY <1>6, <1>7
    <3> HIDE DEF r, l, o
    <3>2. l + (o + 1) + r + 4 <= 7
      BY <3>1
    <3> QED
      BY <1>6, <1>7, <2>1, <3>2 DEF Limit, r, l, o
  <2>3. 4 \in Nat /\ Len(outbox') \in Nat
    BY <1>6, <2>1
  <2>4. Calmed(4)'
    BY <1>3, <2>2, <2>3, PlusesCalm
  <2>5. Refusal'
    BY <1>2, <1>3, <1>4, <1>6, <1>8, <2>1, <2>4 DEF Refusal
  <2>6. Struct'
    BY <1>3, <1>6, <2>1 DEF Struct
  <2> QED
    BY <2>5, <2>6 DEF TurnInv, Turn
<1>9. CASE ~acks
  <2>1. outbox' = outbox /\ client = "answer" /\ ~session.ackMode
    BY <1>1, <1>2, <1>9
  <2>2. AllNoise(Stream', Len(Stream'))
    BY DEF PlusesComing, AllNoise, Noise
  <2>3. KeepsUpWith(handled', issued') /\ KeepsUpWith(answered', issued')
    BY <1>4 DEF Undone, KeepsUpWith
  <2>4. Over'
    BY <1>1, <1>2, <1>3, <1>9, <2>1, <2>2, <2>3 DEF Over, OnlyStops
  <2>5. Struct'
    BY <1>3, <2>1 DEF Struct
  <2> QED
    BY <2>4, <2>5 DEF TurnInv, Turn
<1> QED
  BY <1>1, <1>8, <1>9

(* A packet ends, and is taken for what it is or refused.                    *)
LEMMA ByteEnds ==
    ASSUME PlainBodies, IInv, IInv', Struct, Byte, Sent,
           Coming(0, Len(Asks) + 3), Frame(Len(Asks) + 3),
           Clean(Len(Asks) + 3) \/ Dirty(Len(Asks) + 3)
    PROVE  TurnInv'
<1>1. issued # <<>> /\ Listed(outbox)
  BY DEF Sent, Undone, Struct
<1>2. /\ Stream[1] = Copy[Len(Asks) + 4]
      /\ UNCHANGED <<client, acks, halted, issued, answered>>
      /\ Between' /\ buffer' = <<>> /\ PlusesComing'
      /\ Len(Stream') + Len(outbox) + Running <= 2 /\ Len(Stream') \in Nat
      /\ \/ TestChecksum(Append(buffer, Stream[1])) /\ Accepted(Append(buffer, Stream[1]))
         \/ ~TestChecksum(Append(buffer, Stream[1])) /\ Refused
  BY <1>1, PacketEnds
<1> DEFINE packet == Append(buffer, Stream[1])
<1>3. packet = Append(buffer, Copy[Len(Asks) + 4])
  BY <1>2
<1> HIDE DEF packet
<1>4. CASE TestChecksum(packet) /\ Accepted(packet)
  <2>1. packet = Copy
    BY <1>1, <1>3, <1>4, ChecksumShows
  <2> QED
    BY <1>1, <1>2, <1>4, <2>1, ByteAccepts
<1>5. CASE Refused
  BY <1>1, <1>2, <1>5, ByteRefuses
<1> QED
  BY <1>2, <1>4, <1>5 DEF packet

(* The loop over the bytes keeps whose turn it is.                           *)
LEMMA ByteTurns ==
    ASSUME PlainBodies, IInv, IInv', TurnInv, Byte
    PROVE  TurnInv'
<1>1. /\ server = "bytes" /\ Len(Stream) >= 1 /\ Len(Stream) \in Nat
      /\ Shifted(Stream, Stream', 1) /\ Stream[1] \in Octet
      /\ UNCHANGED <<client, acks, halted, issued, answered>>
      /\ inPacket' = (Opens(Stream[1]) \/ (inPacket /\ ~Closes(Stream[1])))
      /\ remaining' = IF Closes(Stream[1]) THEN 2
                      ELSE IF Counting(Stream[1]) THEN remaining - 1 ELSE remaining
      /\ Counting(Stream[1]) \/ Plain
  BY ByteIs, Types DEF TurnInv
<1>2. Open /\ server # "stop" /\ Struct /\ Listed(outbox)
  BY <1>1 DEF Open, TurnInv, Struct
<1>3. PICK f \in Nat : f = Len(Stream)
  BY <1>1
<1>4. CASE Rest \/ Refusal \/ Told
  <2>1. Lull(f) /\ f >= 1 /\ f <= Len(Stream)
    BY <1>1, <1>2, <1>3, <1>4, LullAtLoop
  <2>2. Moved(f, 1) /\ Plain
    BY <1>2, <2>1, ByteMoves
  <2>3. Struct' /\ AtLoop'
    BY <1>2, <2>2, PlainStruct
  <2>4. 1 \in 0 .. f
    BY <2>1
  <2> QED
    BY <1>2, <1>3, <1>4, <2>2, <2>3, <2>4, MovedKeeps
<1>5. CASE Sent
  <2>1. issued # <<>> /\ (Before \/ Within)
    BY <1>2, <1>5 DEF Sent, Undone
  <2>2. CASE Before
    <3>1. PICK g \in 0 .. Len(Stream) : Lull(g) /\ Coming(g, 0)
      BY <2>2 DEF Before
    <3>2. CASE g >= 1
      <4>1. g \in Nat /\ g <= Len(Stream) /\ 1 \in 0 .. g
        BY <1>1, <3>2
      <4>2. Moved(g, 1) /\ Plain
        BY <1>2, <3>1, <3>2, <4>1, ByteMoves
      <4>3. Struct' /\ AtLoop'
        BY <1>2, <4>2, PlainStruct
      <4>4. Sent'
        BY <1>2, <1>5, <3>1, <4>1, <4>2, <4>3, SentMoves
      <4> QED
        BY <4>3, <4>4 DEF TurnInv, Turn
    <3>3. CASE g = 0
      <4>1. Within' /\ Plain
        BY <1>2, <2>1, <3>1, <3>3, ByteBegins
      <4>2. Struct' /\ AtLoop'
        BY <1>2, <4>1, PlainStruct
      <4>3. Sent'
        BY <1>1, <1>5, <4>1, <4>2 DEF Sent, Undone, Plain, OnlyStops
      <4> QED
        BY <4>2, <4>3 DEF TurnInv, Turn
    <3> QED
      BY <1>1, <3>2, <3>3
  <2>3. CASE Within
    <3>1. PICK pos \in 1 .. Len(Asks) + 3 :
            Coming(0, pos) /\ Frame(pos) /\ (Clean(pos) \/ Dirty(pos))
      BY <2>3 DEF Within
    <3>2. CASE pos = Len(Asks) + 3
      BY <1>2, <1>5, <3>1, <3>2, ByteEnds
    <3>3. CASE pos # Len(Asks) + 3
      <4>0. pos \in 1 .. Len(Asks) + 2
        BY <2>1, <3>1, <3>3, CopyIs
      <4>1. Within' /\ Plain
        BY <1>2, <2>1, <3>1, <4>0, ByteWithin
      <4>2. Struct' /\ AtLoop'
        BY <1>2, <4>1, PlainStruct
      <4>3. Sent'
        BY <1>1, <1>5, <4>1, <4>2 DEF Sent, Undone, Plain, OnlyStops
      <4> QED
        BY <4>2, <4>3 DEF TurnInv, Turn
    <3> QED
      BY <3>2, <3>3
  <2> QED
    BY <2>1, <2>2, <2>3
<1>6. CASE Taken
  BY <1>1, <1>6 DEF Taken
<1>7. CASE Over
  <2>1. ~inPacket /\ remaining = 0 /\ AllNoise(Stream, Len(Stream))
    BY <1>2, <1>7 DEF Over, Between
  <2>2. Stream[1] \in Noise
    BY <1>1, <2>1 DEF AllNoise
  <2>3. ~Opens(Stream[1]) /\ ~Closes(Stream[1]) /\ ~Counting(Stream[1])
    BY <2>1, <2>2 DEF Opens, Closes, Counting, Noise, Dollar, Plus, CtrlC
  <2>4. Plain /\ Between'
    BY <1>1, <2>1, <2>3 DEF Between
  <2>5. Struct' /\ AtLoop' /\ Open'
    BY <1>2, <2>4, PlainStruct
  <2>6. AllNoise(Stream', Len(Stream'))
    <3>1. /\ Len(Stream') = Len(Stream) - 1 /\ Len(Stream') \in Nat
          /\ \A i \in 1 .. Len(Stream') : Stream'[i] = Stream[i + 1]
      BY <1>1, NextTypes DEF Shifted
    <3>2. \A i \in 1 .. Len(Stream') : i + 1 \in 1 .. Len(Stream)
      BY <1>1, <3>1
    <3> QED
      BY <2>1, <3>1, <3>2 DEF AllNoise
  <2>7. Over'
    BY <1>1, <1>7, <2>4, <2>5, <2>6 DEF Over, Plain, OnlyStops
  <2> QED
    BY <2>5, <2>7 DEF TurnInv, Turn
<1> QED
  BY <1>4, <1>5, <1>6, <1>7 DEF TurnInv, Turn

-------------------------------------------------------------------------------
(* The client                                                                *)

(* Joining is associative.                                                   *)
LEMMA JoinAgain ==
    ASSUME NEW c \in Seq(Octet), NEW v \in Seq(Octet), NEW p \in Seq(Octet)
    PROVE  c \o (v \o p) = (c \o v) \o p
<1> DEFINE x == v \o p
           y == c \o v
           s == c \o x
           t == y \o p
<1>1. /\ x \in Seq(Octet) /\ Len(x) = Len(v) + Len(p)
      /\ \A i \in 1 .. Len(v) : x[i] = v[i]
      /\ \A i \in 1 .. Len(p) : x[Len(v) + i] = p[i]
  BY JoinIs
<1>2. /\ y \in Seq(Octet) /\ Len(y) = Len(c) + Len(v)
      /\ \A i \in 1 .. Len(c) : y[i] = c[i]
      /\ \A i \in 1 .. Len(v) : y[Len(c) + i] = v[i]
  BY JoinIs
<1> HIDE DEF x, y
<1>3. /\ s \in Seq(Octet) /\ Len(s) = Len(c) + Len(x)
      /\ \A i \in 1 .. Len(c) : s[i] = c[i]
      /\ \A i \in 1 .. Len(x) : s[Len(c) + i] = x[i]
  BY <1>1, JoinIs
<1>4. /\ t \in Seq(Octet) /\ Len(t) = Len(y) + Len(p)
      /\ \A i \in 1 .. Len(y) : t[i] = y[i]
      /\ \A i \in 1 .. Len(p) : t[Len(y) + i] = p[i]
  BY <1>2, JoinIs
<1> HIDE DEF s, t
<1>5. Len(c) \in Nat /\ Len(v) \in Nat /\ Len(p) \in Nat
  OBVIOUS
<1>6. Len(s) = Len(t)
  BY <1>1, <1>2, <1>3, <1>4, <1>5
<1>7. ASSUME NEW i \in 1 .. Len(s) PROVE s[i] = t[i]
  <2>1. CASE i <= Len(c)
    <3>1. i \in 1 .. Len(c) /\ i \in 1 .. Len(y)
      BY <1>2, <1>5, <2>1
    <3> QED
      BY <1>2, <1>3, <1>4, <3>1
  <2>2. CASE i > Len(c) /\ i <= Len(c) + Len(v)
    <3>1. PICK k \in 1 .. Len(v) : i = Len(c) + k
      <4>1. i - Len(c) \in 1 .. Len(v) /\ i = Len(c) + (i - Len(c))
        BY <1>5, <2>2
      <4> QED
        BY <4>1
    <3>2. k \in 1 .. Len(x) /\ i \in 1 .. Len(y)
      BY <1>1, <1>2, <1>5, <2>2
    <3> QED
      BY <1>1, <1>2, <1>3, <1>4, <3>1, <3>2
  <2>3. CASE i > Len(c) + Len(v)
    <3>1. PICK k \in 1 .. Len(p) : i = Len(c) + (Len(v) + k) /\ i = Len(y) + k
      <4>1. i - (Len(c) + Len(v)) \in 1 .. Len(p)
        BY <1>1, <1>3, <1>5, <2>3
      <4>2. /\ i = Len(c) + (Len(v) + (i - (Len(c) + Len(v))))
            /\ i = Len(y) + (i - (Len(c) + Len(v)))
        BY <1>2, <1>5
      <4> QED
        BY <4>1, <4>2
    <3>2. Len(v) + k \in 1 .. Len(x)
      BY <1>1, <1>5
    <3> QED
      BY <1>1, <1>3, <1>4, <3>1, <3>2
  <2> QED
    BY <1>5, <2>1, <2>2, <2>3
<1>8. s = t
  BY <1>3, <1>4, <1>6, <1>7, SameSequence
<1> QED
  BY <1>8 DEF s, t, x, y

(* A copy of a packet that was just sent is behind everything else.          *)
LEMMA PacketJoins ==
    ASSUME IInv, IInv', NEW f \in Nat, f = Len(Stream), Lull(f),
           UNCHANGED <<framing, server>>, issued' # <<>>, wire' = wire \o Copy',
           Len(outbox') \in Nat, Len(outbox') + Running' + Called(f) <= 2
    PROVE  Before'
<1> DEFINE n == Len(Asks')
           p == Copy'
           size == n + 4
<1>1. /\ Asks' \in Seq(Octet) /\ n \in Nat /\ p \in Seq(Octet) /\ Len(p) = size
  <2>1. Cur' \in Command
    <3>1. issued' \in Seq(Command)
      BY DEF IInv, ClientInv
    <3>2. issued'[Len(issued')] \in Command
      BY <3>1
    <3> QED
      BY <3>2 DEF Cur
  <2>2. Asks' \in Seq(Octet)
    BY <2>1, BodyAssumption DEF Asks, Octet
  <2> QED
    BY <2>2, PacketIs DEF Copy
<1>2. /\ Stream \in Seq(Octet) /\ Stream' = Stream \o p
  <2>1. chunk \in Seq(Octet) /\ wire \in Seq(Octet) /\ Stream \in Seq(Octet)
    BY Types
  <2>2. Stream' = chunk \o (wire \o p)
    BY DEF Stream, framing
  <2> HIDE DEF p
  <2>3. chunk \o (wire \o p) = (chunk \o wire) \o p
    BY <1>1, <2>1, JoinAgain
  <2> QED
    BY <2>1, <2>2, <2>3 DEF Stream
<1> HIDE DEF p, n
<1>3. /\ Len(Stream') = f + size
      /\ \A i \in 1 .. f : Stream'[i] = Stream[i]
      /\ \A i \in 1 .. size : Stream'[f + i] = p[i]
  <2>1. /\ Len(Stream \o p) = Len(Stream) + Len(p)
        /\ \A i \in 1 .. Len(Stream) : (Stream \o p)[i] = Stream[i]
        /\ \A i \in 1 .. Len(p) : (Stream \o p)[Len(Stream) + i] = p[i]
    BY <1>1, <1>2, JoinIs
  <2> HIDE DEF size
  <2> QED
    BY <1>1, <1>2, <2>1
<1>4. Calm(buffer, Stream', f, server = "stop") /\ (NoCall(Stream, f) <=> NoCall(Stream', f))
  BY <1>3, CalmAlike DEF Lull
<1>5. Lull(f)'
  BY <1>4 DEF Lull, Between, framing
<1>6. Called(f)' = Called(f) /\ Called(f) \in 0 .. 1 /\ Running' \in Int
  BY <1>4 DEF Called, Running
<1>7. Coming(f, 0)'
  <2>1. f + (size - 0) <= Len(Stream')
    BY <1>1, <1>3
  <2>2. \A i \in 1 .. size - 0 : Stream'[f + i] = p[0 + i]
    BY <1>1, <1>3
  <2>3. \A i \in f + (size - 0) + 1 .. Len(Stream') : Stream'[i] = Plus
    BY <1>1, <1>3
  <2>4. Len(Stream') - f - (size - 0) + Len(outbox') + Running' + Called(f)' <= 2
    <3> DEFINE r == Running'
               k == Called(f)
    <3>1. r \in Int /\ k \in Int /\ Len(outbox') + r + k <= 2
      BY <1>6
    <3> HIDE DEF r, k
    <3>2. Len(Stream') - f - (size - 0) + Len(outbox') + r + k <= 2
      BY <1>1, <1>3, <3>1
    <3> QED
      BY <1>6, <3>2 DEF r, k
  <2> QED
    BY <2>1, <2>2, <2>3, <2>4 DEF Coming, p, n
<1>8. f \in 0 .. Len(Stream')
  BY <1>1, <1>3
<1> QED
  BY <1>5, <1>7, <1>8 DEF Before

(* The client asks.                                                          *)
LEMMA AskTurns ==
    ASSUME IInv, IInv', TurnInv, NEW c \in Command, Ask(c)
    PROVE  TurnInv'
<1>1. /\ client = "idle" /\ server # "closed" /\ wire' = wire \o AssemblePacket(Body[c])
      /\ issued' = Append(issued, c) /\ client' = (IF acks THEN "ack" ELSE "answer")
      /\ UNCHANGED <<session, framing, response, server, outbox, acks, handled, answered>>
  BY DEF Ask
<1>2. Rest /\ Struct /\ Open
  BY <1>1 DEF TurnInv, Turn, Rest, Sent, Refusal, Taken, Told, Answering, Over, Open
<1>3. issued \in Seq(Command) /\ Len(outbox) \in Nat /\ Len(Stream) \in Nat
  BY <1>2, Types, ListedLength DEF Struct
<1>4. issued' # <<>> /\ Cur' = c /\ Front(issued') = issued
  <2>1. Len(issued') = Len(issued) + 1 /\ issued'[Len(issued) + 1] = c
    BY <1>1, <1>3
  <2> QED
    BY <1>1, <1>3, <2>1, FrontAppend DEF Cur
<1>5. wire' = wire \o Copy'
  BY <1>1, <1>4 DEF Copy, Asks
<1>6. Undone'
  BY <1>1, <1>2, <1>4 DEF Undone, Rest
<1>7. PICK f \in Nat : f = Len(Stream)
  BY <1>3
<1>8. Lull(f)
  BY <1>2, <1>7 DEF Rest
<1>9. Len(outbox') + Running' + Called(f) <= 2
  <2> DEFINE r == Running
             k == Called(f)
             mc == MayCall
  <2>1. r \in 0 .. 1 /\ k \in 0 .. 1 /\ mc \in 0 .. 1
    BY DEF Running, Called, MayCall
  <2>2. Len(outbox) + r + k + mc <= 2
    BY <1>2, <1>7 DEF Rest
  <2>3. Running' = Running /\ Len(outbox') = Len(outbox)
    BY <1>1 DEF Running
  <2> HIDE DEF r, k, mc
  <2>4. Len(outbox) + r + k <= 2
    BY <1>3, <2>1, <2>2
  <2> QED
    BY <2>3, <2>4 DEF r, k
<1>10. Before'
  BY <1>1, <1>3, <1>4, <1>5, <1>7, <1>8, <1>9, PacketJoins
<1>11. Sent'
  BY <1>1, <1>2, <1>6, <1>10 DEF Sent, Rest, OnlyStops, AtLoop
<1>12. Struct'
  BY <1>1, <1>2 DEF Struct, framing
<1> QED
  BY <1>11, <1>12 DEF TurnInv, Turn

(* A byte is sent.                                                           *)
LEMMA StreamGrows ==
    ASSUME IInv, chunk' = chunk, NEW c \in Octet, wire' = Append(wire, c)
    PROVE  Extended(Stream, Stream', c) /\ Stream' \in Seq(Octet)
<1>1. chunk \in Seq(Octet) /\ wire \in Seq(Octet) /\ Stream \in Seq(Octet)
  BY Types
<1>2. Stream' = Append(Stream, c)
  BY <1>1 DEF Stream
<1>3. Len(Stream') = Len(Stream) + 1 /\ Stream'[Len(Stream) + 1] = c
      /\ \A i \in 1 .. Len(Stream) : Stream'[i] = Stream[i]
  BY <1>1, <1>2
<1> QED
  BY <1>1, <1>2, <1>3 DEF Extended

(* The client interrupts: it was told of nothing since it last asked.        *)
LEMMA InterruptTurns ==
    ASSUME IInv, IInv', TurnInv, Interrupt
    PROVE  TurnInv'
<1>1. /\ client = "idle" /\ ~halted /\ server # "closed" /\ wire' = Append(wire, CtrlC)
      /\ client' = "stopping"
      /\ UNCHANGED <<session, framing, response, server, outbox, acks, halted, history>>
  BY DEF Interrupt
<1>2. Rest /\ Struct /\ Open
  BY <1>1 DEF TurnInv, Turn, Rest, Sent, Refusal, Taken, Told, Answering, Over, Open
<1>3. /\ buffer \in Seq(Octet) /\ Stream \in Seq(Octet) /\ Len(buffer) \in Nat
      /\ Len(outbox) \in Nat /\ Len(Stream) \in Nat
  BY <1>2, Types, ListedLength DEF Struct
<1>4. MayCall = 1 /\ MayCall' = 0
  BY <1>1 DEF MayCall
<1>5. Hush /\ Lull(Len(Stream)) /\ server # "stop"
  BY <1>2, <1>4 DEF Rest, Hush
<1>6. Called(Len(Stream)) = 0 /\ Running' = Running /\ Running \in 0 .. 1
  BY <1>1, <1>5 DEF Hush, Called, Running
<1>7. /\ Len(outbox) + Running + 0 + 1 <= 2
      /\ Len(buffer) + Len(Stream) + Len(outbox) + Running + 0 + 2 * 1 <= 7
  BY <1>2, <1>4, <1>6 DEF Rest, Limit
<1>8. Extended(Stream, Stream', CtrlC) /\ Stream' \in Seq(Octet)
  <2>1. chunk' = chunk /\ CtrlC \in Octet
    BY <1>1 DEF framing, CtrlC, Octet
  <2> QED
    BY <1>1, <2>1, StreamGrows
<1> DEFINE r == Running
<1>9. r \in 0 .. 1
  BY <1>6
<1> HIDE DEF r
<1>10. /\ Len(buffer) + Len(Stream) < Limit
       /\ Len(outbox) + r + 1 + 0 <= 2
       /\ Len(buffer) + (Len(Stream) + 1) + Len(outbox) + r + 1 + 2 * 0 <= 7
  BY <1>3, <1>7, <1>9 DEF Limit, r
<1>11. Calm(buffer, Stream', Len(Stream'), FALSE)
  <2>1. Calm(buffer, Stream, Len(Stream), FALSE)
    BY <1>5 DEF Lull, Calm
  <2>2. NoCall(Stream, Len(Stream)) /\ NoCall(buffer, Len(buffer)) /\ FALSE \in BOOLEAN /\ ~FALSE
    BY <1>5 DEF Hush
  <2> QED
    BY <1>3, <1>8, <1>10, <2>1, <2>2, CalmGrows
<1>12. Lull(Len(Stream))'
  BY <1>1, <1>5, <1>11 DEF Lull, Between, framing, Calm
<1> DEFINE k1 == Called(Len(Stream))'
           l1 == Len(Stream')
<1>13. k1 \in 0 .. 1 /\ l1 = Len(Stream) + 1
  BY <1>8 DEF Called, Extended
<1> HIDE DEF k1, l1
<1>14. /\ Len(outbox) + r + k1 + 0 <= 2
       /\ Len(buffer) + l1 + Len(outbox) + r + k1 + 2 * 0 <= 7
  BY <1>3, <1>9, <1>10, <1>13
<1>15. /\ Len(outbox') + Running' + Called(Len(Stream))' + MayCall' <= 2
       /\ Len(buffer') + Len(Stream') + Len(outbox') + Running' + Called(Len(Stream))' + 2 * MayCall' <= Limit
  <2>1. outbox' = outbox /\ buffer' = buffer
    BY <1>1 DEF framing
  <2> QED
    BY <1>4, <1>6, <1>14, <2>1 DEF r, k1, l1, Limit
<1>16. MayCall' # 1
  BY <1>4
<1>17. Rest'
  BY <1>1, <1>2, <1>12, <1>15, <1>16 DEF Rest, OnlyStops, AtLoop, history
<1>18. Struct'
  BY <1>1, <1>2 DEF Struct, framing
<1> QED
  BY <1>17, <1>18 DEF TurnInv, Turn

(* What the client reads.                                                    *)
Kind == Head(outbox).kind

(* What a client reads next, by what it waits for.                           *)
LEMMA FirstKind ==
    ASSUME Struct, outbox # <<>>
    PROVE  /\ OnlyStops(outbox) => Kind = "stop" /\ OnlyStops(Tail(outbox))
           /\ \A k : OneReply(outbox, k) =>
                \/ Kind = k /\ OnlyStops(Tail(outbox))
                \/ Kind = "stop" /\ OneReply(Tail(outbox), k)
           /\ Listed(Tail(outbox)) /\ Len(Tail(outbox)) = Len(outbox) - 1 /\ Len(outbox) \in Nat
           /\ Len(outbox) >= 1 /\ Head(outbox) = outbox[1]
BY ListedTail, ReplyRead DEF Struct, Kind

(* The answer comes nearer.                                                  *)
LEMMA AnswerNears ==
    ASSUME Struct, outbox # <<>>, outbox' = Tail(outbox), UNCHANGED <<issued, acks>>,
           NEW j \in 1 .. Len(outbox), Answering(j)
    PROVE  /\ Kind \in {"stop", "ack", "answer"}
           /\ Kind = "stop" /\ client' = client
                => j - 1 \in 1 .. Len(outbox') /\ Answering(j - 1)'
           /\ Kind = "ack" => client = "ack"
           /\ Kind = "ack" /\ client' = "answer"
                => j - 1 \in 1 .. Len(outbox') /\ Answering(j - 1)'
           /\ Kind = "answer" => client = "answer" /\ Head(outbox).of = Cur /\ OnlyStops(outbox')
<1> DEFINE s == outbox
           t == outbox'
<1>1. /\ Listed(s) /\ Len(t) = Len(s) - 1 /\ Len(s) \in Nat \ {0} /\ Head(s) = s[1]
      /\ \A i \in 1 .. Len(s) - 1 : t[i] = s[i + 1]
  BY ListedTail DEF Struct
<1>2. /\ s[j].kind = "answer" /\ s[j].of = Cur /\ StopsIn(s, j + 1, Len(s))
      /\ \/ client = "ack" /\ acks /\ OneIn(s, j - 1, "ack")
         \/ client = "answer" /\ StopsIn(s, 1, j - 1)
  BY DEF Answering
<1>3. Cur' = Cur
  BY DEF Cur
<1>4. CASE j = 1
  <2>1. ~OneIn(s, j - 1, "ack")
    BY <1>4 DEF OneIn
  <2>2. client = "answer" /\ Kind = "answer" /\ Head(outbox).of = Cur
    BY <1>1, <1>2, <1>4, <2>1 DEF Kind
  <2>3. OnlyStops(t)
    <3>1. \A i \in 1 .. Len(t) : i \in 1 .. Len(s) - 1 /\ i + 1 \in j + 1 .. Len(s)
      BY <1>1, <1>4
    <3> QED
      BY <1>1, <1>2, <3>1 DEF OnlyStops, StopsIn
  <2> QED
    BY <2>2, <2>3
<1>5. CASE j # 1
  <2>1. /\ j - 1 \in 1 .. Len(s) /\ j - 1 \in 1 .. Len(t) /\ j - 1 \in 1 .. Len(s) - 1
        /\ (j - 1) + 1 = j
    BY <1>1, <1>5
  <2>2. /\ t[j - 1] = s[j]
    <3>1. t[j - 1] = s[(j - 1) + 1]
      BY <1>1, <2>1
    <3> QED
      BY <2>1, <3>1
  <2>3. StopsIn(t, j, Len(t))
    <3>1. \A i \in j .. Len(t) : i \in 1 .. Len(s) - 1 /\ i + 1 \in j + 1 .. Len(s)
      BY <1>1
    <3> QED
      BY <1>1, <1>2, <3>1 DEF StopsIn
  <2>4. /\ StopsIn(s, 1, j - 1) => s[1].kind = "stop" /\ StopsIn(t, 1, (j - 1) - 1)
        /\ OneIn(s, j - 1, "ack") =>
             \/ s[1].kind = "ack" /\ StopsIn(t, 1, (j - 1) - 1)
             \/ s[1].kind = "stop" /\ OneIn(t, (j - 1) - 1, "ack")
    BY <1>1, <2>1, PrefixRead
  <2>5. Kind = s[1].kind
    BY <1>1 DEF Kind
  <2>6. /\ t[j - 1].kind = "answer" /\ t[j - 1].of = Cur' /\ StopsIn(t, (j - 1) + 1, Len(t))
    BY <1>2, <1>3, <2>1, <2>2, <2>3
  <2>7. CASE client = "ack" /\ acks /\ OneIn(s, j - 1, "ack")
    <3>1. Kind = "stop" /\ client' = client => Answering(j - 1)'
      BY <2>4, <2>5, <2>6, <2>7 DEF Answering
    <3>2. Kind = "ack" /\ client' = "answer" => Answering(j - 1)'
      BY <2>4, <2>5, <2>6, <2>7 DEF Answering
    <3> QED
      BY <2>1, <2>4, <2>5, <2>7, <3>1, <3>2
  <2>8. CASE client = "answer" /\ StopsIn(s, 1, j - 1)
    <3>1. Kind = "stop"
      BY <2>4, <2>5, <2>8
    <3>2. client' = client => Answering(j - 1)'
      BY <2>4, <2>6, <2>8 DEF Answering
    <3> QED
      BY <2>1, <3>1, <3>2
  <2> QED
    BY <1>2, <2>7, <2>8
<1> QED
  BY <1>4, <1>5

(* What the client sends when it has read is an acknowledgement or nothing.  *)
Reads ==
    /\ outbox # <<>> /\ outbox' = Tail(outbox)
    /\ UNCHANGED <<session, framing, response, server, issued, handled>>

(* The stream stays or grows by an acknowledgement.                          *)
Grown == Stream' = Stream \/ Extended(Stream, Stream', Plus)

(* Reading a message adds no more than its acknowledgement.                  *)
LEMMA ReadsGrow ==
    ASSUME IInv, Reads, wire' = wire \/ Acknowledges
    PROVE  Grown /\ Stream' \in Seq(Octet) /\ Len(Stream') \in Len(Stream) .. Len(Stream) + 1
<1>1. chunk' = chunk /\ Stream \in Seq(Octet) /\ Plus \in Octet
  BY Types DEF Reads, framing, Plus, Octet
<1>2. CASE wire' = wire
  BY <1>1, <1>2 DEF Stream, Grown
<1>3. CASE wire' = Append(wire, Plus)
  <2>1. Extended(Stream, Stream', Plus) /\ Stream' \in Seq(Octet)
    BY <1>1, <1>3, StreamGrows
  <2> QED
    BY <1>1, <2>1 DEF Grown, Extended
<1> QED
  BY <1>2, <1>3 DEF Acknowledges

(* Noise grows by no more than a message that is read.                       *)
LEMMA CalmedReads ==
    ASSUME IInv, IInv', Struct, Reads, Grown, NEW more \in Nat, Calmed(more)
    PROVE  /\ Calmed(more)'
           /\ Len(outbox') = Len(outbox) - 1 /\ Len(outbox) \in Nat /\ Running' = Running
           /\ Called(Len(Stream))' = 0
<1>1. /\ buffer \in Seq(Octet) /\ Stream \in Seq(Octet) /\ Stream' \in Seq(Octet)
      /\ Len(buffer) \in Nat /\ Len(Stream) \in Nat /\ Len(Stream') \in Nat
  BY Types, NextTypes
<1>2. Len(outbox') = Len(outbox) - 1 /\ Len(outbox) \in Nat \ {0}
  BY ListedTail DEF Reads, Struct
<1>3. UNCHANGED <<session, server, buffer, inPacket, remaining>>
  BY DEF Reads, framing
<1>4. /\ Lull(Len(Stream)) /\ Hush
      /\ Len(buffer) + Len(Stream) + Len(outbox) + Running + more <= 7
  BY DEF Calmed, Limit
<1>5. Running' = Running /\ Running \in 0 .. 1
  BY <1>3 DEF Running
<1> DEFINE r == Running
           l1 == Len(Stream')
<1>6. r \in 0 .. 1 /\ Len(buffer) + Len(Stream) + Len(outbox) + r + more <= 7
  BY <1>4, <1>5
<1> HIDE DEF r, l1
<1>7. Len(buffer) + Len(Stream) < Limit
  BY <1>1, <1>2, <1>6 DEF Limit
<1>8. /\ Calm(buffer, Stream', l1, FALSE) /\ NoCall(Stream', l1)
      /\ l1 \in Len(Stream) .. Len(Stream) + 1
  <2>1. Calm(buffer, Stream, Len(Stream), FALSE) /\ NoCall(Stream, Len(Stream))
    BY <1>4 DEF Lull, Calm, Hush
  <2>2. CASE Stream' = Stream
    <3>1. l1 = Len(Stream)
      BY <2>2 DEF l1
    <3>2. Calm(buffer, Stream', l1, FALSE) /\ NoCall(Stream', l1)
      BY <2>1, <2>2, <3>1
    <3>4. l1 \in Len(Stream) .. Len(Stream) + 1
      <4> DEFINE n == Len(Stream)
      <4>1. n \in Nat /\ l1 = n
        BY <1>1, <3>1
      <4> HIDE DEF n
      <4>2. l1 \in n .. n + 1
        BY <4>1
      <4> QED
        BY <4>2 DEF n
    <3> QED
      BY <3>2, <3>4
  <2>3. CASE Extended(Stream, Stream', Plus)
    <3>1. /\ Calm(buffer, Stream', Len(Stream'), FALSE)
          /\ NoCall(Stream, Len(Stream)) <=> NoCall(Stream', Len(Stream'))
      <4>1. FALSE \in BOOLEAN
        OBVIOUS
      <4> QED
        BY <1>1, <1>7, <2>1, <2>3, <4>1, CalmGrows
    <3>2. l1 = Len(Stream) + 1
      BY <2>3 DEF Extended, l1
    <3>3. Calm(buffer, Stream', l1, FALSE) /\ NoCall(Stream', l1)
      BY <2>1, <3>1 DEF l1
    <3>4. l1 \in Len(Stream) .. Len(Stream) + 1
      <4> DEFINE n == Len(Stream)
      <4>1. n \in Nat /\ l1 = n + 1
        BY <1>1, <3>2
      <4> HIDE DEF n
      <4>2. l1 \in n .. n + 1
        BY <4>1
      <4> QED
        BY <4>2 DEF n
    <3> QED
      BY <3>3, <3>4
  <2> QED
    BY <2>2, <2>3 DEF Grown
<1>9. server # "stop" /\ NoCall(buffer, Len(buffer)) /\ Between
  BY <1>4 DEF Hush, Lull
<1>10. Lull(Len(Stream))' /\ Hush' /\ Called(Len(Stream))' = 0
  <2>1. Between' /\ server' # "stop" /\ NoCall(buffer', Len(buffer'))
    BY <1>3, <1>9 DEF Between
  <2>2. Calm(buffer', Stream', l1, FALSE)
    BY <1>3, <1>8
  <2> QED
    BY <1>8, <2>1, <2>2 DEF Lull, Hush, Called, Calm, l1
<1>11. Len(buffer) + l1 + (Len(outbox) - 1) + r + more <= 7
  BY <1>1, <1>2, <1>6, <1>8
<1>12. Len(buffer') + Len(Stream') + Len(outbox') + Running' + more <= Limit
  BY <1>2, <1>3, <1>5, <1>11 DEF r, l1, Limit
<1> QED
  BY <1>2, <1>5, <1>10, <1>12 DEF Calmed

(* The loop is not concerned.                                                *)
LEMMA StructReads ==
    ASSUME Struct, Reads
    PROVE  Struct' /\ (AtLoop => AtLoop') /\ (Open' <=> Open)
BY FirstKind DEF Reads, Struct, AtLoop, framing, Open

(* The packet was taken.                                                     *)
LEMMA ReadAckTurns ==
    ASSUME IInv, IInv', TurnInv, Reads, ReadAck
    PROVE  TurnInv'
<1>1. /\ Kind = "ack" /\ client' = (IF client = "ack" THEN "answer" ELSE client)
      /\ UNCHANGED <<wire, acks, halted, answered>>
  BY DEF ReadAck, Kind
<1>2. Struct /\ Struct' /\ (AtLoop => AtLoop') /\ (Open' <=> Open) /\ outbox # <<>>
      /\ outbox' = Tail(outbox)
      /\ UNCHANGED <<session, framing, response, server, issued, handled>>
  BY StructReads DEF TurnInv, Reads
<1>3. Grown
  BY <1>1, ReadsGrow
<1>4. Kind # "stop" /\ Kind # "nak"
  BY <1>1
<1>5. ~OnlyStops(outbox) /\ ~OneReply(outbox, "nak")
  BY <1>2, <1>4, FirstKind
<1>6. Cur' = Cur /\ (Done => Done')
  BY <1>1, <1>2 DEF Done, Cur
<1>7. CASE Taken
  <2>1. client = "ack" /\ acks /\ server \in {"answer", "closed"} /\ OneReply(outbox, "ack") /\ Done
    BY <1>5, <1>7 DEF Taken
  <2>2. OnlyStops(outbox)'
    BY <1>1, <1>2, <2>1, FirstKind DEF OnlyStops
  <2>3. Open' => response' # <<>> /\ response'[1] = Cur' /\ Calmed(3)'
    <3> SUFFICES ASSUME Open PROVE response # <<>> /\ response[1] = Cur /\ Calmed(3)'
      BY <1>2, <1>6
    <3>1. response # <<>> /\ response[1] = Cur /\ Calmed(3) /\ 3 \in Nat
      BY <1>7, <2>1 DEF Taken, Open
    <3> QED
      BY <1>2, <1>3, <3>1, CalmedReads
  <2>4. Calmed(3)' => Calmed(IF server = "plus" THEN 4 ELSE 3)'
    <3>1. server' # "plus"
      BY <1>2, <2>1
    <3> QED
      BY <3>1 DEF Calmed
  <2>5. Taken'
    BY <1>1, <1>2, <1>6, <2>1, <2>2, <2>3, <2>4 DEF Taken
  <2> QED
    BY <1>2, <2>5 DEF TurnInv, Turn
<1>8. CASE Told
  <2>1. PICK j \in 1 .. Len(outbox) :
            Answering(j) /\ (Open => Len(outbox) - j + Running <= 1)
    BY <1>8 DEF Told
  <2>2. client = "ack" /\ j - 1 \in 1 .. Len(outbox') /\ Answering(j - 1)'
    <3>1. client = "ack"
      BY <1>1, <1>2, <2>1, AnswerNears
    <3>2. client' = "answer"
      BY <1>1, <3>1
    <3> QED
      BY <1>1, <1>2, <2>1, <3>1, <3>2, AnswerNears
  <2>3. Open => Calmed(2)'
    <3>1. Open => Calmed(2) /\ 2 \in Nat
      BY <1>8 DEF Told
    <3> QED
      BY <1>2, <1>3, <3>1, CalmedReads
  <2>4. Open => Len(outbox') - (j - 1) + Running' <= 1
    <3> DEFINE r == Running
    <3>1. Running' = r /\ r \in Int /\ Len(outbox') = Len(outbox) - 1 /\ Len(outbox) \in Nat
      BY <1>2, FirstKind DEF Running
    <3>2. Open => Len(outbox) - j + r <= 1
      BY <2>1
    <3> HIDE DEF r
    <3>3. Open => (Len(outbox) - 1) - (j - 1) + r <= 1
      BY <3>1, <3>2
    <3> QED
      BY <3>1, <3>3
  <2>5. Told'
    BY <1>2, <1>6, <1>8, <2>2, <2>3, <2>4 DEF Told
  <2> QED
    BY <1>2, <2>5 DEF TurnInv, Turn
<1>9. ~Rest /\ ~Sent /\ ~Refusal /\ ~Over
  BY <1>5 DEF Rest, Sent, Refusal, Over
<1> QED
  BY <1>7, <1>8, <1>9 DEF TurnInv, Turn

(* The bytes under way before are still there.                               *)
LEMMA GrownIs ==
    ASSUME IInv, IInv', Grown
    PROVE  /\ Len(Stream) \in Nat /\ Len(Stream') \in Nat
           /\ Len(Stream) <= Len(Stream') /\ Len(Stream') <= Len(Stream) + 1
           /\ \A i \in 1 .. Len(Stream) : Stream'[i] = Stream[i]
           /\ \A i \in 1 .. Len(Stream') : i > Len(Stream) => Stream'[i] = Plus
<1>1. Len(Stream) \in Nat /\ Len(Stream') \in Nat
  BY Types, NextTypes
<1>2. CASE Stream' = Stream
  <2> DEFINE l == Len(Stream)
  <2>1. Len(Stream') = l /\ l \in Nat
    BY <1>1, <1>2
  <2> HIDE DEF l
  <2>2. l <= l /\ l <= l + 1 /\ \A i \in 1 .. l : ~(i > l)
    BY <2>1
  <2> QED
    BY <1>1, <1>2, <2>1, <2>2 DEF l
<1>3. CASE Extended(Stream, Stream', Plus)
  <2>1. /\ Len(Stream') = Len(Stream) + 1 /\ Stream'[Len(Stream')] = Plus
        /\ \A i \in 1 .. Len(Stream) : Stream'[i] = Stream[i]
    BY <1>3 DEF Extended
  <2>2. \A i \in 1 .. Len(Stream') : i > Len(Stream) => i = Len(Stream')
    BY <1>1, <2>1
  <2>3. Len(Stream) <= Len(Stream') /\ Len(Stream') <= Len(Stream) + 1
    BY <1>1, <2>1
  <2> QED
    BY <1>1, <2>1, <2>2, <2>3
<1> QED
  BY <1>2, <1>3 DEF Grown

(* An acknowledgement goes behind the packet.                                *)
LEMMA ComingGrows ==
    ASSUME IInv, IInv', Struct, Reads, Grown, issued # <<>>,
           NEW f \in Nat, f <= Len(Stream), NEW pos \in Nat, pos <= Len(Asks) + 4, Coming(f, pos)
    PROVE  Coming(f, pos)' /\ (NoCall(Stream, f) <=> NoCall(Stream', f))
<1> DEFINE n == Len(Asks)
           m == (n + 4) - pos
           l == Len(Stream)
           l1 == Len(Stream')
           o == Len(outbox)
           r == Running
           k == Called(f)
<1>1. n \in Nat /\ m \in Nat
  BY CopyIs
<1>2. /\ l \in Nat /\ l1 \in Nat /\ l <= l1 /\ l1 <= l + 1
      /\ \A i \in 1 .. l : Stream'[i] = Stream[i]
      /\ \A i \in 1 .. l1 : i > l => Stream'[i] = Plus
  BY GrownIs
<1>3. /\ f + m <= l
      /\ \A i \in 1 .. m : Stream[f + i] = Copy[pos + i]
      /\ \A i \in f + m + 1 .. l : Stream[i] = Plus
      /\ l - f - m + o + r + k <= 2
  BY DEF Coming
<1>4. Len(outbox') = o - 1 /\ o \in Nat \ {0}
  BY ListedTail DEF Reads, Struct
<1>5. Asks' = Asks /\ Copy' = Copy
  BY DEF Reads, Cur, Asks, Copy
<1>6. NoCall(Stream, f) <=> NoCall(Stream', f)
  <2>1. f <= l
    OBVIOUS
  <2> HIDE DEF l
  <2>2. \A i \in 1 .. f : Stream'[i] = Stream[i]
    BY <1>2, <2>1
  <2> QED
    BY <2>2 DEF NoCall
<1>7. Called(f)' = k /\ k \in 0 .. 1 /\ Running' = r /\ r \in 0 .. 1
  BY <1>6 DEF Called, Running, Reads
<1> HIDE DEF n, m, l, l1, o, r, k
<1>8. f + m <= l1
  BY <1>1, <1>2, <1>3
<1>9. \A i \in 1 .. m : Stream'[f + i] = Copy[pos + i]
  <2>1. \A i \in 1 .. m : f + i \in 1 .. l
    BY <1>1, <1>2, <1>3
  <2> QED
    BY <1>2, <1>3, <2>1
<1>10. \A i \in f + m + 1 .. l1 : Stream'[i] = Plus
  <2>1. \A i \in f + m + 1 .. l1 : i \in 1 .. l1 /\ (i > l \/ (i \in f + m + 1 .. l /\ i \in 1 .. l))
    BY <1>1, <1>2
  <2> QED
    BY <1>2, <1>3, <2>1
<1>11. l1 - f - m + (o - 1) + r + k <= 2
  BY <1>1, <1>2, <1>3, <1>4, <1>7
<1>12. Len(Stream') - f - m + Len(outbox') + Running' + Called(f)' <= 2
  BY <1>4, <1>7, <1>11 DEF l1
<1>13. Coming(f, pos)'
  BY <1>5, <1>8, <1>9, <1>10, <1>12 DEF Coming, m, n, l1
<1> QED
  BY <1>6, <1>13

(* A stop is read while the packet is under way.                             *)
LEMMA SentReads ==
    ASSUME IInv, IInv', TurnInv, Reads, Grown, Sent,
           UNCHANGED <<client, acks, answered>>, OnlyStops(outbox')
    PROVE  TurnInv'
<1>1. /\ Struct /\ Struct' /\ (AtLoop => AtLoop') /\ (Open' <=> Open) /\ issued # <<>>
      /\ UNCHANGED <<session, framing, response, server, issued, handled>>
  BY StructReads DEF TurnInv, Reads, Sent, Undone
<1>2. Asks' = Asks /\ Copy' = Copy
  BY <1>1 DEF Cur, Asks, Copy
<1>3. Len(Asks) \in Nat /\ Len(Stream) \in Nat /\ Len(Stream') \in Nat /\ Len(Stream) <= Len(Stream')
  BY <1>1, CopyIs, GrownIs
<1>4. Before => Before'
  <2> SUFFICES ASSUME Before PROVE Before'
    OBVIOUS
  <2>1. PICK f \in 0 .. Len(Stream) : Lull(f) /\ Coming(f, 0)
    BY DEF Before
  <2>2. f \in Nat /\ f <= Len(Stream) /\ 0 \in Nat /\ 0 <= Len(Asks) + 4 /\ f \in 0 .. Len(Stream')
    BY <1>3
  <2>3. Coming(f, 0)'
    BY <1>1, <2>1, <2>2, ComingGrows
  <2>4. Lull(f)'
    <3>1. \A i \in 1 .. f : Stream'[i] = Stream[i]
      BY <1>3, <2>2, GrownIs
    <3>2. Calm(buffer, Stream', f, server = "stop")
      BY <2>1, <2>2, <3>1, CalmAlike DEF Lull
    <3> QED
      BY <1>1, <2>1, <3>2 DEF Lull, Between, framing
  <2> QED
    BY <2>2, <2>3, <2>4 DEF Before
<1>5. Within => Within'
  <2> SUFFICES ASSUME Within PROVE Within'
    OBVIOUS
  <2>1. PICK pos \in 1 .. Len(Asks) + 3 :
            Coming(0, pos) /\ Frame(pos) /\ (Clean(pos) \/ Dirty(pos))
    BY DEF Within
  <2>2. pos \in Nat /\ pos <= Len(Asks) + 4 /\ 0 \in Nat /\ 0 <= Len(Stream)
    BY <1>3
  <2>3. Coming(0, pos)'
    BY <1>1, <2>1, <2>2, ComingGrows
  <2>4. Frame(pos)' /\ (Clean(pos) => Clean(pos)') /\ (Dirty(pos) => Dirty(pos)')
    BY <1>1, <1>2, <2>1 DEF Frame, Clean, Dirty, Trailer, Gone, framing
  <2>5. server' # "stop"
    BY <1>1 DEF Within
  <2> QED
    BY <1>2, <2>1, <2>3, <2>4, <2>5 DEF Within
<1>6. Sent'
  BY <1>1, <1>4, <1>5 DEF Sent, Undone, OnlyStops
<1> QED
  BY <1>1, <1>6 DEF TurnInv, Turn

(* The packet was refused: it is sent again, or given up.                    *)
LEMMA ReadNakTurns ==
    ASSUME IInv, IInv', TurnInv, Reads, ReadNak, UNCHANGED halted
    PROVE  TurnInv'
<1>1. Kind = "nak" /\ UNCHANGED <<acks, answered>>
  BY DEF ReadNak, Kind
<1>2. /\ Struct /\ Struct' /\ (AtLoop => AtLoop') /\ (Open' <=> Open) /\ outbox # <<>>
      /\ outbox' = Tail(outbox)
      /\ UNCHANGED <<session, framing, response, server, issued, handled>>
  BY StructReads DEF TurnInv, Reads
<1>3. ~OnlyStops(outbox) /\ ~OneReply(outbox, "ack")
  BY <1>1, <1>2, FirstKind
<1>4. ~Told
  <2> SUFFICES ASSUME Told PROVE FALSE
    OBVIOUS
  <2>1. PICK j \in 1 .. Len(outbox) : Answering(j)
    BY DEF Told
  <2> QED
    BY <1>1, <1>2, <2>1, AnswerNears
<1>5. Refusal
  BY <1>3, <1>4 DEF TurnInv, Turn, Rest, Sent, Taken, Over
<1>6. /\ client = "ack" /\ Undone /\ acks /\ session.ackMode /\ AtLoop
      /\ Open => Calmed(4)
  BY <1>5 DEF Refusal
<1>7. /\ OnlyStops(outbox)' /\ Len(outbox') = Len(outbox) - 1 /\ Len(outbox) \in Nat
  BY <1>1, <1>2, <1>5, FirstKind DEF Refusal, OnlyStops
<1>8. Undone' /\ Cur' = Cur
  BY <1>1, <1>2, <1>6 DEF Undone, Cur
<1>9. CASE client' = "gone" /\ wire' = wire
  <2>1. Stream' = Stream
    BY <1>2, <1>9 DEF Stream, framing
  <2>2. Open => Between /\ AllNoise(Stream, Len(Stream))
    BY <1>6 DEF Calmed, Lull, Calm
  <2>3. KeepsUpWith(handled', issued') /\ KeepsUpWith(answered', issued')
    BY <1>8 DEF Undone, KeepsUpWith
  <2>4. Over'
    BY <1>2, <1>6, <1>7, <1>9, <2>1, <2>2, <2>3 DEF Over, Between, framing
  <2> QED
    BY <1>2, <2>4 DEF TurnInv, Turn
<1>10. CASE client' = client /\ wire' = wire \o AssemblePacket(Body[Last(issued)])
  <2>1. wire' = wire \o Copy'
    BY <1>8, <1>10 DEF Copy, Asks, Cur, Last
  <2>2. Open' => Before'
    <3> SUFFICES ASSUME Open PROVE Before'
      BY <1>2
    <3>1. PICK f \in Nat : f = Len(Stream)
      BY Types
    <3>2. /\ Lull(f) /\ Hush /\ Len(buffer) \in Nat
          /\ Len(buffer) + Len(Stream) + Len(outbox) + Running + 4 <= 7
      BY <1>6, <3>1, Types DEF Calmed, Limit
    <3>3. Called(f) = 0
      BY <3>1, <3>2 DEF Hush, Called
    <3>4. Len(outbox') + Running' + Called(f) <= 2
      <4> DEFINE r == Running
      <4>1. Running' = r /\ r \in 0 .. 1
        BY <1>2 DEF Running
      <4>2. Len(buffer) + f + Len(outbox) + r + 4 <= 7
        BY <3>1, <3>2
      <4> HIDE DEF r
      <4>3. (Len(outbox) - 1) + r + 0 <= 2
        BY <1>7, <3>2, <4>1, <4>2
      <4> QED
        BY <1>7, <3>3, <4>1, <4>3
    <3>5. Len(outbox') \in Nat
      BY <1>2, ListedLength DEF Struct
    <3>6. issued' # <<>> /\ UNCHANGED <<framing, server>>
      BY <1>2, <1>8 DEF Undone
    <3> QED
      BY <2>1, <3>1, <3>2, <3>4, <3>5, <3>6, PacketJoins
  <2>3. Sent'
    BY <1>1, <1>2, <1>6, <1>7, <1>8, <1>10, <2>2, Zenon DEF Sent
  <2> QED
    BY <1>2, <2>3 DEF TurnInv, Turn
<1> QED
  BY <1>6, <1>9, <1>10 DEF ReadNak

(* The answer is that to the last command.                                   *)
LEMMA ReadAnswerTurns ==
    ASSUME IInv, IInv', TurnInv, Reads, ReadAnswer
    PROVE  TurnInv'
<1>1. /\ Kind = "answer" /\ client' = (IF client = "answer" THEN "idle" ELSE client)
      /\ acks' = (acks /\ Head(outbox).of.op # "QStartNoAckMode")
      /\ answered' = Append(answered, Head(outbox).of) /\ halted' = halted /\ Acknowledges
  BY DEF ReadAnswer, Kind
<1>2. /\ Struct /\ Struct' /\ (AtLoop => AtLoop') /\ (Open' <=> Open) /\ outbox # <<>>
      /\ outbox' = Tail(outbox)
      /\ UNCHANGED <<session, framing, response, server, issued, handled>>
  BY StructReads DEF TurnInv, Reads
<1>3. Grown
  BY <1>1, ReadsGrow
<1>4. ~OnlyStops(outbox) /\ ~OneReply(outbox, "ack") /\ ~OneReply(outbox, "nak")
  BY <1>1, <1>2, FirstKind
<1>5. Told
  BY <1>4 DEF TurnInv, Turn, Rest, Sent, Refusal, Taken, Over
<1>6. PICK j \in 1 .. Len(outbox) : Answering(j) /\ (Open => Len(outbox) - j + Running <= 1)
  BY <1>5 DEF Told
<1>7. client = "answer" /\ Head(outbox).of = Cur /\ j = 1 /\ OnlyStops(outbox)'
  <2>1. j = 1
    <3> SUFFICES ASSUME j # 1 PROVE FALSE
      OBVIOUS
    <3>1. Listed(outbox) /\ Len(outbox) \in Nat /\ Head(outbox) = outbox[1]
      BY <1>2, FirstKind DEF Struct
    <3>2. j - 1 \in 1 .. Len(outbox)
      BY <3>1
    <3>3. outbox[1].kind \in {"stop", "ack"}
      BY <1>2, <1>6, <3>1, <3>2, PrefixRead DEF Answering
    <3> QED
      BY <1>1, <3>1, <3>3 DEF Kind
  <2>2. client # "ack"
    BY <1>6, <2>1 DEF Answering, OneIn
  <2>3. client = "answer"
    BY <1>6, <2>2 DEF Answering
  <2>4. outbox[1].of = Cur /\ StopsIn(outbox, 2, Len(outbox))
    BY <1>6, <2>1 DEF Answering
  <2>5. /\ Head(outbox) = outbox[1] /\ Len(outbox') = Len(outbox) - 1 /\ Len(outbox) \in Nat
        /\ \A i \in 1 .. Len(outbox) - 1 : outbox'[i] = outbox[i + 1]
    BY <1>2, ListedTail DEF Struct
  <2>6. \A i \in 1 .. Len(outbox') : i \in 1 .. Len(outbox) - 1 /\ i + 1 \in 2 .. Len(outbox)
    BY <2>5
  <2> QED
    BY <2>1, <2>3, <2>4, <2>5, <2>6 DEF OnlyStops, StopsIn
<1>8. /\ issued # <<>> /\ handled = issued /\ answered = Front(issued)
      /\ session.ackMode = (acks /\ Cur.op # "QStartNoAckMode") /\ AtLoop
  BY <1>5 DEF Told, Done
<1>9. answered' = issued'
  <2>1. issued \in Seq(Command)
    BY Types
  <2> QED
    BY <1>1, <1>2, <1>7, <1>8, <2>1, FrontAppend DEF Cur
<1>10. session'.ackMode = acks'
  BY <1>1, <1>2, <1>7, <1>8
<1>11. ASSUME Open
       PROVE  /\ Lull(Len(Stream))' /\ Hush'
              /\ Len(outbox') + Running' + Called(Len(Stream))' + MayCall' <= 2
              /\ Len(buffer') + Len(Stream') + Len(outbox') + Running' + Called(Len(Stream))'
                    + 2 * MayCall' <= Limit
  <2>1. Calmed(2) /\ 2 \in Nat
    BY <1>5, <1>11 DEF Told
  <2>2. /\ Calmed(2)' /\ Len(outbox') = Len(outbox) - 1 /\ Len(outbox) \in Nat /\ Running' = Running
        /\ Called(Len(Stream))' = 0
    BY <1>2, <1>3, <2>1, CalmedReads
  <2>3. Lull(Len(Stream))' /\ Hush'
        /\ Len(buffer') + Len(Stream') + Len(outbox') + Running' + 2 <= 7
    BY <2>2 DEF Calmed, Limit
  <2>4. Len(outbox) - 1 + Running <= 1
    BY <1>6, <1>7, <1>11
  <2>5. Len(buffer') \in Nat /\ Len(Stream') \in Nat
    BY NextTypes
  <2> DEFINE r == Running'
             mc == MayCall'
             b == Len(buffer')
             l == Len(Stream')
             o == Len(outbox')
             k == Called(Len(Stream))'
  <2>6. /\ r \in 0 .. 1 /\ mc \in 0 .. 1 /\ b \in Nat /\ l \in Nat /\ o \in Int /\ k = 0
        /\ o + r <= 1 /\ b + l + o + r + 2 <= 7
    BY <2>2, <2>3, <2>4, <2>5 DEF Running, MayCall
  <2> HIDE DEF r, mc, b, l, o, k
  <2>7. o + r + k + mc <= 2 /\ b + l + o + r + k + 2 * mc <= 7
    BY <2>6
  <2> QED
    BY <2>3, <2>7 DEF Limit, r, mc, b, l, o, k
<1>12. client' = "idle" /\ handled' = issued'
  BY <1>1, <1>2, <1>7, <1>8
<1>13. Rest'
  BY <1>2, <1>7, <1>8, <1>9, <1>10, <1>11, <1>12 DEF Rest
<1> QED
  BY <1>2, <1>13 DEF TurnInv, Turn

(* A stop is read between two commands.                                      *)
LEMMA RestReads ==
    ASSUME IInv, IInv', Struct, Reads, Grown, Open, Rest, halted' = TRUE
    PROVE  /\ Lull(Len(Stream))' /\ MayCall' = 0
           /\ Len(outbox') + Running' + Called(Len(Stream))' + MayCall' <= 2
           /\ Len(buffer') + Len(Stream') + Len(outbox') + Running' + Called(Len(Stream))'
                + 2 * MayCall' <= Limit
<1>1. /\ buffer \in Seq(Octet) /\ Stream \in Seq(Octet) /\ Stream' \in Seq(Octet)
      /\ Len(buffer) \in Nat /\ Len(Stream) \in Nat /\ Len(Stream') \in Nat
      /\ Len(Stream') <= Len(Stream) + 1
  BY Types, NextTypes, GrownIs
<1>2. Len(outbox') = Len(outbox) - 1 /\ Len(outbox) \in Nat \ {0}
  BY ListedTail DEF Reads, Struct
<1>3. UNCHANGED <<session, server, buffer, inPacket, remaining>>
  BY DEF Reads, framing
<1>4. MayCall' = 0
  BY DEF MayCall
<1> DEFINE r == Running
           k == Called(Len(Stream))
           mc == MayCall
           b == Len(buffer)
           l == Len(Stream)
           l1 == Len(Stream')
           o == Len(outbox)
<1>5. Lull(Len(Stream)) /\ o + r + k + mc <= 2 /\ b + l + o + r + k + 2 * mc <= 7
  BY DEF Rest, Limit
<1>6. /\ r \in 0 .. 1 /\ k \in 0 .. 1 /\ mc \in 0 .. 1 /\ b \in Nat /\ l \in Nat /\ l1 \in Nat
      /\ l1 <= l + 1 /\ o \in Nat \ {0} /\ Running' = r
  BY <1>1, <1>2, <1>3 DEF Running, Called, MayCall
<1> HIDE DEF r, k, mc, b, l, l1, o
<1>7. b + l < Limit
  BY <1>5, <1>6 DEF Limit
<1>8. Calm(buffer, Stream', Len(Stream'), server = "stop")
      /\ (NoCall(Stream, Len(Stream)) <=> NoCall(Stream', Len(Stream')))
  <2> DEFINE stopping == server = "stop"
  <2>1. Calm(buffer, Stream, Len(Stream), stopping) /\ stopping \in BOOLEAN
    BY <1>5 DEF Lull
  <2> HIDE DEF stopping
  <2>2. CASE Stream' = Stream
    BY <2>1, <2>2 DEF stopping
  <2>3. CASE Extended(Stream, Stream', Plus)
    <3>1. Len(buffer) + Len(Stream) < Limit
      BY <1>7 DEF b, l
    <3> QED
      BY <1>1, <2>1, <2>3, <3>1, CalmGrows DEF stopping
  <2> QED
    BY <2>2, <2>3 DEF Grown
<1>9. Lull(Len(Stream))'
  BY <1>3, <1>5, <1>8 DEF Lull, Between
<1>10. Called(Len(Stream))' = k
  BY <1>3, <1>8 DEF Called, k
<1>11. (o - 1) + r + k + 0 <= 2 /\ b + l1 + (o - 1) + r + k + 2 * 0 <= 7
  BY <1>5, <1>6
<1> QED
  BY <1>2, <1>3, <1>4, <1>6, <1>9, <1>10, <1>11 DEF b, l1, o, Limit

(* A stop is read.                                                           *)
LEMMA ReadStopTurns ==
    ASSUME IInv, IInv', TurnInv, Reads, ReadStop
    PROVE  TurnInv'
<1>1. /\ Kind = "stop" /\ client' = (IF client = "stopping" THEN "idle" ELSE client)
      /\ halted' = TRUE /\ UNCHANGED <<acks, answered>> /\ Acknowledges
  BY DEF ReadStop, Kind
<1>2. /\ Struct /\ Struct' /\ (AtLoop => AtLoop') /\ (Open' <=> Open) /\ outbox # <<>>
      /\ outbox' = Tail(outbox)
      /\ UNCHANGED <<session, framing, response, server, issued, handled>>
  BY StructReads DEF TurnInv, Reads
<1>3. Grown /\ Len(Stream') \in Nat /\ Len(Stream) \in Nat
  BY <1>1, ReadsGrow, Types, NextTypes
<1>4. /\ OnlyStops(outbox) => OnlyStops(outbox')
      /\ \A k : k # "stop" /\ OneReply(outbox, k) => OneReply(outbox', k)
  BY <1>1, <1>2, FirstKind
<1>5. Cur' = Cur /\ (Done => Done') /\ (Undone => Undone')
  BY <1>1, <1>2 DEF Done, Undone, Cur
<1>6. CASE Rest
  <2>1. client' \in {"idle", "stopping"} /\ handled' = issued' /\ answered' = issued'
        /\ session'.ackMode = acks' /\ AtLoop' /\ OnlyStops(outbox)'
    BY <1>1, <1>2, <1>4, <1>6 DEF Rest, OnlyStops
  <2>2. Open => /\ Lull(Len(Stream))' /\ MayCall' = 0
                /\ Len(outbox') + Running' + Called(Len(Stream))' + MayCall' <= 2
                /\ Len(buffer') + Len(Stream') + Len(outbox') + Running' + Called(Len(Stream))'
                      + 2 * MayCall' <= Limit
    BY <1>1, <1>2, <1>3, <1>6, RestReads
  <2>3. MayCall' = 0 => MayCall' # 1
    OBVIOUS
  <2>4. Rest'
    BY <1>2, <2>1, <2>2, <2>3 DEF Rest
  <2> QED
    BY <1>2, <2>4 DEF TurnInv, Turn
<1>7. CASE Sent
  <2>1. client' = client
    BY <1>1, <1>7 DEF Sent
  <2>2. OnlyStops(outbox')
    BY <1>4, <1>7 DEF Sent
  <2> QED
    BY <1>1, <1>3, <1>7, <2>1, <2>2, SentReads
<1>8. CASE Refusal
  <2>1. client' = "ack" /\ acks' /\ session'.ackMode /\ Undone' /\ AtLoop' /\ OneReply(outbox', "nak")
    BY <1>1, <1>2, <1>4, <1>5, <1>8 DEF Refusal
  <2>2. Open => Calmed(4)'
    <3>1. Open => Calmed(4) /\ 4 \in Nat
      BY <1>8 DEF Refusal
    <3> QED
      BY <1>2, <1>3, <3>1, CalmedReads
  <2>3. Refusal'
    BY <1>2, <2>1, <2>2 DEF Refusal
  <2> QED
    BY <1>2, <2>3 DEF TurnInv, Turn
<1>9. CASE Taken
  <2> DEFINE more == IF server = "plus" THEN 4 ELSE 3
  <2>1. client' = client
    BY <1>1, <1>9 DEF Taken
  <2>2. Open => /\ response # <<>> /\ response[1] = Cur /\ Calmed(more)'
    <3>1. Open => response # <<>> /\ response[1] = Cur /\ Calmed(more)
      BY <1>9 DEF Taken
    <3>2. PICK m \in Nat : m = more
      OBVIOUS
    <3>3. more' = more
      BY <1>2
    <3> HIDE DEF more
    <3>4. Open => Calmed(m)'
      BY <1>2, <1>3, <3>1, <3>2, CalmedReads
    <3> QED
      BY <3>1, <3>2, <3>3, <3>4 DEF Calmed
  <2>3. \/ client' = "ack" /\ acks' /\ server' \in {"plus", "closed"} /\ OnlyStops(outbox')
        \/ client' = "ack" /\ acks' /\ server' \in {"answer", "closed"} /\ OneReply(outbox', "ack")
        \/ client' = "answer" /\ server' \in {"answer", "closed"} /\ OnlyStops(outbox')
    BY <1>1, <1>2, <1>4, <1>9, <2>1 DEF Taken
  <2>4. Taken'
    BY <1>2, <1>5, <1>9, <2>2, <2>3 DEF Taken, OnlyStops
  <2> QED
    BY <1>2, <2>4 DEF TurnInv, Turn
<1>10. CASE Told
  <2>1. PICK j \in 1 .. Len(outbox) :
            Answering(j) /\ (Open => Len(outbox) - j + Running <= 1)
    BY <1>10 DEF Told
  <2>2. j - 1 \in 1 .. Len(outbox') /\ Answering(j - 1)'
    <3>1. client' = client
      BY <1>1, <2>1 DEF Answering
    <3> QED
      BY <1>1, <1>2, <2>1, <3>1, AnswerNears
  <2>3. Open => Calmed(2)'
    <3>1. Open => Calmed(2) /\ 2 \in Nat
      BY <1>10 DEF Told
    <3> QED
      BY <1>2, <1>3, <3>1, CalmedReads
  <2>4. Open => Len(outbox') - (j - 1) + Running' <= 1
    <3> DEFINE r == Running
    <3>1. Running' = r /\ r \in Int /\ Len(outbox') = Len(outbox) - 1 /\ Len(outbox) \in Nat
      BY <1>2, FirstKind DEF Running
    <3>2. Open => Len(outbox) - j + r <= 1
      BY <2>1
    <3> HIDE DEF r
    <3>3. Open => (Len(outbox) - 1) - (j - 1) + r <= 1
      BY <3>1, <3>2
    <3> QED
      BY <3>1, <3>3
  <2>5. Told'
    BY <1>2, <1>5, <1>10, <2>2, <2>3, <2>4 DEF Told
  <2> QED
    BY <1>2, <2>5 DEF TurnInv, Turn
<1>11. CASE Over
  <2>1. client' = client
    BY <1>1, <1>11 DEF Over
  <2>2. Open => Between' /\ AllNoise(Stream', Len(Stream'))
    <3> SUFFICES ASSUME Open PROVE Between' /\ AllNoise(Stream', Len(Stream'))
      OBVIOUS
    <3>1. Between /\ AllNoise(Stream, Len(Stream))
      BY <1>11 DEF Over
    <3>2. \A i \in 1 .. Len(Stream') : Stream'[i] \in Noise
      <4>1. \A i \in 1 .. Len(Stream') : i > Len(Stream) \/ i \in 1 .. Len(Stream)
        BY <1>3
      <4> QED
        BY <1>3, <3>1, <4>1, GrownIs DEF AllNoise, Noise
    <3> QED
      BY <1>2, <3>1, <3>2 DEF Between, framing, AllNoise
  <2>3. Over'
    BY <1>1, <1>2, <1>4, <1>11, <2>1, <2>2 DEF Over, OnlyStops
  <2> QED
    BY <1>2, <2>3 DEF TurnInv, Turn
<1> QED
  BY <1>6, <1>7, <1>8, <1>9, <1>10, <1>11 DEF TurnInv, Turn

(* The client reads.                                                         *)
LEMMA ReceiveTurns ==
    ASSUME IInv, IInv', TurnInv, Receive
    PROVE  TurnInv'
<1>1. ReadAck \/ ReadNak \/ ReadAnswer \/ ReadStop
  BY DEF Receive
<1>2. Reads
  BY <1>1 DEF Receive, Reads, ReadAck, ReadNak, ReadAnswer, ReadStop
<1>3. ReadNak => UNCHANGED halted
  BY DEF ReadNak
<1> QED
  BY <1>1, <1>2, <1>3, ReadAckTurns, ReadNakTurns, ReadAnswerTurns, ReadStopTurns

-------------------------------------------------------------------------------
(* The theorems of the turn invariant                                        *)

(* Nothing happens.                                                          *)
LEMMA StutterTurns ==
    ASSUME IInv, TurnInv, UNCHANGED vars
    PROVE  TurnInv'
<1>1. /\ UNCHANGED <<session, wire, chunk, buffer, inPacket, remaining, response, server, outbox,
                     client, acks, halted, issued, handled, answered>>
  BY DEF vars, framing, history
<1>2. Stream' = Stream /\ Asks' = Asks /\ Copy' = Copy /\ Cur' = Cur
  BY <1>1 DEF Stream, Cur, Asks, Copy
<1>3. Struct'
  BY <1>1 DEF TurnInv, Struct
<1>4. CASE Rest
  <2>1. Rest'
    BY <1>1, <1>2, <1>4 DEF Rest, AtLoop, Open, Lull, Between, Running, Called, MayCall, Hush, OnlyStops
  <2> QED
    BY <1>3, <2>1 DEF TurnInv, Turn
<1>5. CASE Sent
  <2>1. Before => Before'
    BY <1>1, <1>2 DEF Before, Lull, Between, Coming, Running, Called
  <2>2. Within => Within'
    BY <1>1, <1>2 DEF Within, Coming, Frame, Clean, Dirty, Trailer, Gone, Running, Called
  <2>3. Sent'
    BY <1>1, <1>5, <2>1, <2>2 DEF Sent, AtLoop, Open, OnlyStops, Undone
  <2> QED
    BY <1>3, <2>3 DEF TurnInv, Turn
<1>6. CASE Refusal
  <2>1. Refusal'
    BY <1>1, <1>2, <1>6 DEF Refusal, Undone, OneReply, AtLoop, Open, Calmed, Lull, Between, Hush, Running
  <2> QED
    BY <1>3, <2>1 DEF TurnInv, Turn
<1>7. CASE Taken
  <2>1. Taken'
    BY <1>1, <1>2, <1>7 DEF Taken, Done, OnlyStops, OneReply, Open, Calmed, Lull, Between, Hush, Running
  <2> QED
    BY <1>3, <2>1 DEF TurnInv, Turn
<1>8. CASE Told
  <2>1. Told'
    BY <1>1, <1>2, <1>8 DEF Told, Done, AtLoop, Answering, Open, Calmed, Lull, Between, Hush, Running
  <2> QED
    BY <1>3, <2>1 DEF TurnInv, Turn
<1>9. CASE Over
  <2>1. Over'
    BY <1>1, <1>2, <1>9 DEF Over, OnlyStops, AtLoop, Open, Between
  <2> QED
    BY <1>3, <2>1 DEF TurnInv, Turn
<1> QED
  BY <1>4, <1>5, <1>6, <1>7, <1>8, <1>9 DEF TurnInv, Turn

(* The connection begins.                                                    *)
LEMMA StartTurns == Init => TurnInv
<1> SUFFICES ASSUME Init PROVE TurnInv
  OBVIOUS
<1>1. /\ session.ackMode = TRUE /\ session.paused = TRUE
      /\ wire = <<>> /\ chunk = <<>> /\ buffer = <<>> /\ inPacket = FALSE /\ remaining = 0
      /\ server = "recv" /\ outbox = <<>> /\ client = "idle" /\ acks = TRUE /\ halted = TRUE
      /\ issued = <<>> /\ handled = <<>> /\ answered = <<>>
  BY DEF Init
<1>2. Listed(outbox) /\ Len(outbox) = 0 /\ OnlyStops(outbox)
  BY <1>1 DEF Listed, OnlyStops, StopsIn
<1>3. Stream = <<>> /\ Len(Stream) = 0 /\ Len(buffer) = 0
  BY <1>1 DEF Stream
<1>4. /\ Running = 0 /\ MayCall = 0
  BY <1>1 DEF Running, MayCall
<1>5. /\ NoCall(buffer, 0) /\ NoCall(Stream, 0) /\ AllNoise(buffer, 0) /\ AllNoise(Stream, 0)
      /\ OneCall(buffer, 0) /\ OneCall(Stream, 0)
  BY DEF NoCall, AllNoise, OneCall
<1>6. Called(0) = 0
  BY <1>1, <1>5 DEF Called
<1>7. Lull(0)
  BY <1>1, <1>3, <1>5 DEF Lull, Between, Calm, Limit
<1>8. Rest
  <2>1. Hush
    BY <1>1, <1>3, <1>5 DEF Hush
  <2>2. Len(outbox) + Running + Called(Len(Stream)) + MayCall <= 2
    BY <1>2, <1>3, <1>4, <1>6
  <2>3. Len(buffer) + Len(Stream) + Len(outbox) + Running + Called(Len(Stream)) + 2 * MayCall <= Limit
    BY <1>2, <1>3, <1>4, <1>6 DEF Limit
  <2>4. Lull(Len(Stream))
    BY <1>3, <1>7
  <2>5. /\ client \in {"idle", "stopping"} /\ handled = issued /\ answered = issued
        /\ OnlyStops(outbox) /\ AtLoop /\ session.ackMode = acks
    BY <1>1, <1>2 DEF AtLoop
  <2> QED
    BY <2>1, <2>2, <2>3, <2>4, <2>5 DEF Rest
<1>9. Struct
  BY <1>1, <1>2 DEF Struct
<1> QED
  BY <1>8, <1>9 DEF TurnInv, Turn

(* Every step keeps whose turn it is.                                        *)
LEMMA StepTurns ==
    ASSUME PlainBodies, IInv, TurnInv, [Next]_vars
    PROVE  TurnInv'
<1>1. IInv'
  BY StepKeeps
<1>2. CASE Server
  <2>1. CASE \E n \in 1 .. ChunkSize : Recv(n)
    <3>1. PICK n \in 1 .. ChunkSize : Recv(n)
      BY <2>1
    <3> QED
      BY <1>1, <3>1, RecvTurns
  <2> QED
    BY <1>1, <1>2, <2>1, StopTurns, ByteTurns, SendPlusTurns, SendAnswerTurns,
       DisconnectedTurns DEF Server
<1>3. CASE \E c \in Command : Ask(c)
  BY <1>1, <1>3, AskTurns
<1>4. CASE UNCHANGED vars
  BY <1>4, StutterTurns
<1> QED
  BY <1>1, <1>2, <1>3, <1>4, ReportTurns, ExitTurns, InterruptTurns, ReceiveTurns,
     SeesClosedTurns DEF Next

LEMMA AlwaysTurnInv == ASSUME PlainBodies PROVE Spec => [](IInv /\ TurnInv)
<1>1. Init => IInv /\ TurnInv
  BY InitHolds, StartTurns
<1>2. IInv /\ TurnInv /\ [Next]_vars => (IInv /\ TurnInv)'
  BY StepKeeps, StepTurns
<1> QED
  BY <1>1, <1>2, PTL DEF Spec

(* However TCP cuts the stream, however often a packet is refused and sent   *)
(* again and whatever acknowledgements and Ctrl-C are between the packets,   *)
(* handle_packet() carries out each command the client asked once, in order  *)
(* and before it asks the next, and nothing it did not ask.                  *)
THEOREM CommandsAreCarriedOutOnce == ASSUME PlainBodies PROVE Spec => []ExactlyOnce
<1>1. IInv /\ TurnInv => ExactlyOnce
  BY TurnKeepsUp DEF TurnInv, ExactlyOnce
<1> QED
  BY <1>1, AlwaysTurnInv, PTL

(* The answer that a client takes for that to its last command is that one:  *)
(* answers, acknowledgements and reports of stops never get out of step.     *)
THEOREM AnswersAlwaysFit == ASSUME PlainBodies PROVE Spec => []AnswersFit
<1>1. IInv /\ TurnInv => AnswersFit
  BY TurnKeepsUp DEF TurnInv, AnswersFit
<1> QED
  BY <1>1, AlwaysTurnInv, PTL
===============================================================================

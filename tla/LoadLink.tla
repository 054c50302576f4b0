------------------------------- MODULE LoadLink -------------------------------
(*****************************************************************************)
(* LL, LLWP, SC, SCWP and what every other store does to the link: the       *)
(* handlers of the interpreter, which generated code calls for all four, and *)
(* the three ways a plain store is executed.                                 *)
(*****************************************************************************)
EXTENDS Integers

CONSTANTS
    Top, Stack,     \* guest memory: -Stack .. Top without 0, which faults; the
                    \* stack is at the end of the address space, below 0
    Space,          \* the addresses a guest uses, some of them past memory
    Mode,           \* options.llsc_type
    Paths,          \* the store paths of the configuration: "interpreter" is
                    \* handle_llsc(), which emitted code calls as well with an
                    \* emulated MMU; "static" and "dynamic" are emitted code
                    \* that addresses memory itself
    Addend,         \* what a dynamic store has added to the address when it is
                    \* compared: stack_size_ without an MMU, 0 with the host's
    Linkable,       \* the addresses the guest links
    Storable        \* the pairs of an address and a size the guest stores to

Word == {1, 2, 4, 8}

ASSUME LoadLinkAssumption ==
    /\ Top \in Nat /\ Top % 8 = 7 /\ Stack \in Nat /\ Addend \in {0, Stack}
    /\ Space \subseteq Int
    /\ Mode \in {"fine", "coarse", "none"}
    /\ Paths \subseteq {"interpreter", "static", "dynamic"}
    /\ Linkable \subseteq Space /\ Storable \subseteq Space \X Word

VARIABLES
    link,           \* load_link_
    linked,         \* history: the bytes of the last LL or LLWP before an SC
    loaded,         \* history: did it load, or raise an exception
    disturbed,      \* history: the worst that was stored since: nothing near
                    \* them ("no"), something in their line ("line"), one of
                    \* them unseen ("missed"), one of them ("bytes")
    wrote,          \* history: the bytes the last instruction wrote
    outcome         \* history: "won", "lost" for SC and SCWP, else "plain"

vars == <<link, linked, loaded, disturbed, wrote, outcome>>

Memory == (-Stack .. Top) \ {0}
Span(a, n) == a .. a + n - 1
Line(a) == a - (a % 8)      \* address & ~(load_link_align - 1)

Init ==
    /\ link = 0 /\ linked = {} /\ loaded = FALSE /\ disturbed = "no"
    /\ wrote = {} /\ outcome = "plain"

-------------------------------------------------------------------------------
(* LL (4 bytes) and LLWP (8): the link is taken before the load can fault.   *)
LoadLinked(a, n) ==
    /\ a % n = 0
    /\ link' = a
    /\ linked' = Span(a, n)
    /\ loaded' = (Span(a, n) \subseteq Memory)
    /\ disturbed' = "no"
    /\ wrote' = {} /\ outcome' = "plain"

(* handle_llsc() *)
Touch(a, l) ==
    CASE Mode = "fine"   -> IF Line(a) = l THEN 0 ELSE l
      [] Mode = "coarse" -> 0
      [] Mode = "none"   -> l

(* Mutants: 4-byte granularity; every store breaks every link. *)
AfterStoreWord(path, a, n, l) ==
    IF Mode = "fine" /\ a - (a % 4) # l THEN l ELSE 0
AfterStoreAny(path, a, n, l) == 0

(* What the link is after a store at a. A static address is known when the   *)
(* code is written, and compared whole in the first line.                    *)
AfterStore(path, a, n, l) ==
    IF Mode # "fine" \/ path = "interpreter" THEN Touch(a, l)
    ELSE LET hit == IF path = "dynamic" THEN Line(a + Addend) = Line(l)
                    ELSE IF a \in 0 .. 7 THEN a = l ELSE Line(a) = l
         IN  IF hit THEN 0 ELSE l

(* History. The three ways a store to the linked bytes may pass unseen by a  *)
(* fine link: emitted code compares the moved address; the link, compared    *)
(* whole with the address of a line, is the upper word of its line; or a     *)
(* misaligned store begins in the line before.                               *)
Missable(path, a) ==
    /\ Mode = "fine"
    /\ \/ path = "dynamic" /\ Addend # 0
       \/ path # "dynamic" /\ link % 8 # 0
       \/ Line(a) # Line(link)

(* A moved address is near the line it was moved to.                         *)
Near(path, a, n) ==
    \E l \in linked :
        \/ \E b \in Span(a, n) : Line(b) = Line(l)
        \/ path = "dynamic" /\ Line(a + Addend) = Line(l)

Disturb(path, a, n) ==
    IF Span(a, n) \cap linked # {}
    THEN IF disturbed # "bytes" /\ Missable(path, a) THEN "missed" ELSE "bytes"
    ELSE IF disturbed = "no" /\ Near(path, a, n) THEN "line" ELSE disturbed

(* The processor keeps a misaligned address as it is. A store that raises an *)
(* exception leaves everything as it was; without an MMU no static address   *)
(* is in the stack.                                                          *)
Store(path, a, n) ==
    /\ <<a, n>> \in Storable
    /\ Span(a, n) \subseteq Memory
    /\ path = "static" /\ Addend # 0 => a > 0
    /\ link' = AfterStore(path, a, n, link)
    /\ disturbed' = Disturb(path, a, n)
    /\ wrote' = Span(a, n) /\ outcome' = "plain"
    /\ UNCHANGED <<linked, loaded>>

(* Mutant: SC asks whether there is a link, and not for which address. *)
LinkHoldsAny(a) == link # 0

(* check_llsc() *)
LinkHolds(a) ==
    CASE Mode = "fine"   -> link = a
      [] Mode = "coarse" -> link # 0
      [] Mode = "none"   -> TRUE

(* SC (4 bytes) and SCWP (8): the link is given up either way. If the store  *)
(* faults, the exception leaves before the link is cleared.                  *)
Conditional(a, n) ==
    /\ a % n = 0
    /\ LinkHolds(a) => Span(a, n) \subseteq Memory
    /\ link' = 0
    /\ linked' = {}
    /\ IF LinkHolds(a)
       THEN wrote' = Span(a, n) /\ outcome' = "won"
       ELSE wrote' = {} /\ outcome' = "lost"
    /\ UNCHANGED <<loaded, disturbed>>

Next ==
    \/ \E a \in Linkable, n \in {4, 8} : LoadLinked(a, n)
    \/ \E path \in Paths, a \in Space, n \in Word : Store(path, a, n)
    \/ \E a \in Space, n \in {4, 8} : Conditional(a, n)

Spec == Init /\ [][Next]_vars
-------------------------------------------------------------------------------
(* Every variable keeps its type.                                            *)
TypeOK ==
    /\ link \in Space \cup {0}
    /\ linked \in SUBSET Int
    /\ loaded \in BOOLEAN /\ disturbed \in {"no", "line", "missed", "bytes"}
    /\ wrote \in SUBSET Memory
    /\ outcome \in {"plain", "won", "lost"}

(* A conditional store that succeeds follows a load that did: LL takes the   *)
(* link before it knows whether the load faults.                             *)
WonWasLoaded == outcome = "won" => loaded

(* With fine links, a guest that stores outside the linked 8 bytes keeps its *)
(* link: the retry loop around LL and SC makes progress. A store that the    *)
(* addend moves into their line counts as one to the line.                   *)
NoSpuriousLoss ==
    disturbed = "no" /\ linked # {} /\ 0 \notin linked => link # 0

(* A conditional store that succeeds finds the linked bytes as LL left them, *)
(* but for what one of the three gaps (Missable) let pass: no other store    *)
(* went to one of them, aligned or not, on any path.                         *)
ConditionalIsAtomic == outcome = "won" => disturbed # "bytes"

(* A conditional store that succeeds finds the linked bytes as LL left them. *)
(* The code keeps the link as it was given and compares it with the address  *)
(* of a line, although a link has the granularity of a line                  *)
(* (processor.hpp:56): a store to a linked upper word is not seen.           *)
NothingMissed == outcome = "won" => disturbed \notin {"bytes", "missed"}

(* What makes the gaps harmless: coarse links have none; with fine links the *)
(* guest links double words and stores aligned, and emitted code compares    *)
(* the addresses of the guest.                                               *)
Safe ==
    \/ Mode = "coarse"
    \/ /\ Mode = "fine" /\ (Addend = 0 \/ "dynamic" \notin Paths)
       /\ \A a \in Linkable : a % 8 = 0
       /\ \A s \in Storable : s[1] % s[2] = 0

(* A link names bytes that nobody has stored to, unless unseen.              *)
LinkInv ==
    link # 0 => /\ link \in Linkable
                /\ linked \in {Span(link, 4), Span(link, 8)}
                /\ disturbed # "bytes"

(* What Reservation promises.                                                *)
Promise == INSTANCE Reservation WITH
    Bytes <- Int,
    Exact <- (Mode = "fine"),
    held <- IF link = 0 THEN {} ELSE linked

(* A store to the linked bytes passes through one of the three gaps.         *)
Unseen == disturbed' = "missed" /\ link' # 0

(* The link keeps it, but for what passes unseen: SC and SCWP succeed only   *)
(* where LL and LLWP linked, no path of a store leaves a link to bytes it    *)
(* wrote, and what fails writes nothing.                                     *)
KeepsReservation == Promise!Init /\ [][Promise!Next \/ Unseen]_(Promise!vars)
===============================================================================

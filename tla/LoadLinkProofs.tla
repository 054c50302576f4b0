---------------------------- MODULE LoadLinkProofs ----------------------------
(*****************************************************************************)
(* The link and what it notices, for every size of memory and of the stack,  *)
(* and every set of links and of stores: which stores may pass unseen, and   *)
(* that none does in the Safe configurations.                                *)
(*****************************************************************************)
EXTENDS LoadLink, TLAPS

LEMMA Addresses ==
    /\ Space \subseteq Int /\ Linkable \subseteq Space
    /\ Top \in Nat /\ Stack \in Nat /\ Addend \in Nat
BY LoadLinkAssumption

LEMMA Bytes == Memory \subseteq Int /\ 0 \notin Memory
BY Addresses DEF Memory

LEMMA LinkableIsInt == Linkable \subseteq Int
BY Addresses

(* An aligned access that reaches into a double word starts in its line.     *)
LEMMA Overlap ==
    ASSUME NEW l \in Int, l % 8 = 0,
           NEW a \in Int, NEW n \in Word, a % n = 0,
           NEW b, b \in Span(a, n), b \in Span(l, 8)
    PROVE  Line(a) = l
<1> USE DEF Span, Line, Word
<1>0. b \in Int /\ a <= b /\ b <= a + n - 1 /\ l <= b /\ b <= l + 7
  OBVIOUS
<1>1. CASE n = 1
  BY <1>0, <1>1
<1>2. CASE n = 2
  BY <1>0, <1>2
<1>3. CASE n = 4
  BY <1>0, <1>3
<1>4. CASE n = 8
  BY <1>0, <1>4
<1>5. QED
  BY <1>1, <1>2, <1>3, <1>4

(* The gaps are all there are: a store that is none of them clears the link. *)
LEMMA SeenClears ==
    ASSUME Mode # "none", link \in Int, link # 0,
           NEW path \in Paths, NEW a \in Int, NEW n \in Word, ~Missable(path, a)
    PROVE  AfterStore(path, a, n, link) = 0
<1>1. CASE Mode = "coarse"
  BY <1>1 DEF AfterStore, Touch
<1>2. CASE Mode = "fine"
  <2>1. CASE path = "dynamic"
    <3>1. Addend = 0 /\ Line(a) = Line(link)
      BY <1>2, <2>1 DEF Missable
    <3>2. Line(a + Addend) = Line(link)
      BY <3>1
    <3>3. QED
      BY <1>2, <2>1, <3>2 DEF AfterStore
  <2>2. CASE path # "dynamic"
    <3>1. link % 8 = 0 /\ Line(a) = Line(link)
      BY <1>2, <2>2 DEF Missable
    <3>2. Line(a) = link /\ a \notin 0 .. 7
      BY <3>1 DEF Line
    <3>3. QED
      BY <1>2, <2>2, <3>2 DEF AfterStore, Touch
  <2>3. QED
    BY <2>1, <2>2
<1>3. QED
  BY <1>1, <1>2, LoadLinkAssumption

(* In a safe configuration no store to the linked bytes is one of the gaps.  *)
LEMMA SafeIsSeen ==
    ASSUME Safe, LinkInv, link # 0,
           NEW path \in Paths, NEW a \in Space, NEW n \in Word,
           <<a, n>> \in Storable, Span(a, n) \cap linked # {}
    PROVE  ~Missable(path, a)
<1>1. CASE Mode = "coarse"
  BY <1>1 DEF Missable
<1>2. CASE Mode # "coarse"
  <2>1. /\ Addend = 0 \/ path # "dynamic"
        /\ a % n = 0 /\ link % 8 = 0
    BY <1>2 DEF Safe, LinkInv
  <2>2. link \in Int /\ a \in Int
    BY LinkableIsInt, Addresses DEF LinkInv
  <2>3. PICK b : b \in Span(a, n) /\ b \in linked
    OBVIOUS
  <2>4. b \in Span(link, 8)
    BY <2>2, <2>3 DEF LinkInv, Span
  <2>5. Line(a) = link
    BY <2>1, <2>2, <2>3, <2>4, Overlap
  <2>6. Line(link) = link
    BY <2>1, <2>2 DEF Line
  <2>7. QED
    BY <2>1, <2>5, <2>6 DEF Missable
<1>3. QED
  BY <1>1, <1>2

(* A store keeps the link or clears it.                                      *)
LEMMA StoreKeepsOrClears ==
    ASSUME NEW path \in Paths, NEW a, NEW n, NEW l
    PROVE  AfterStore(path, a, n, l) \in {0, l}
<1>1. Mode \in {"fine", "coarse", "none"}
  BY LoadLinkAssumption
<1>2. Touch(a, l) \in {0, l}
  BY <1>1 DEF Touch
<1>3. QED
  BY <1>2 DEF AfterStore

(* While there is a link, whatever was stored to the bytes it names came     *)
(* through one of the gaps: in every configuration but that without links.   *)
THEOREM LinkNamesFreshBytes == ASSUME Mode # "none" PROVE Spec => []LinkInv
<1>1. Init => LinkInv
  BY DEF Init, LinkInv
<1>2. LinkInv /\ [Next]_vars => LinkInv'
  <2> SUFFICES ASSUME LinkInv, [Next]_vars PROVE LinkInv'
    OBVIOUS
  <2>1. CASE \E a \in Linkable, n \in {4, 8} : LoadLinked(a, n)
    BY <2>1 DEF LoadLinked, LinkInv
  <2>2. ASSUME NEW path \in Paths, NEW a \in Space, NEW n \in Word,
               Store(path, a, n)
        PROVE  LinkInv'
    <3>1. /\ link' = AfterStore(path, a, n, link) /\ linked' = linked
          /\ disturbed' = Disturb(path, a, n)
      BY <2>2 DEF Store
    <3>2. link' \in {0, link}
      BY <3>1, StoreKeepsOrClears
    <3>3. ASSUME link' # 0 PROVE disturbed' # "bytes"
      <4>1. link \in Int /\ link # 0 /\ a \in Int /\ disturbed # "bytes"
        BY <3>2, <3>3, LinkableIsInt, Addresses DEF LinkInv
      <4>2. Missable(path, a)
        BY <3>1, <3>3, <4>1, SeenClears
      <4>3. QED
        BY <3>1, <4>1, <4>2 DEF Disturb
    <3>4. QED
      BY <3>1, <3>2, <3>3 DEF LinkInv
  <2>3. CASE \E a \in Space, n \in {4, 8} : Conditional(a, n)
    BY <2>3 DEF Conditional, LinkInv
  <2>4. CASE UNCHANGED vars
    BY <2>4 DEF vars, LinkInv
  <2>5. QED
    BY <2>1, <2>2, <2>3, <2>4 DEF Next
<1>3. QED
  BY <1>1, <1>2, PTL DEF Spec

(* A conditional store that reports success needs a link.                    *)
LEMMA WinNeedsLink ==
    ASSUME Mode # "none", NEW a \in Int, NEW n \in {4, 8}, Conditional(a, n),
           outcome' = "won"
    PROVE  link # 0 /\ (Mode = "fine" => link = a)
<1>1. Mode \in {"fine", "coarse"}
  BY LoadLinkAssumption
<1>2. LinkHolds(a)
  BY DEF Conditional
<1>3. CASE Mode = "fine"
  <2>1. link = a
    BY <1>2, <1>3 DEF LinkHolds
  <2>2. a # 0
    <3>1. 0 \in Span(0, n) /\ 0 \notin Memory
      BY Bytes DEF Span
    <3>2. Span(a, n) \subseteq Memory
      BY <1>2 DEF Conditional
    <3>3. QED
      BY <3>1, <3>2
  <2>3. QED
    BY <2>1, <2>2
<1>4. CASE Mode = "coarse"
  BY <1>2, <1>4 DEF LinkHolds
<1>5. QED
  BY <1>1, <1>3, <1>4

(* A conditional store that succeeds knows of every store to the bytes it    *)
(* was linked to, but for those the three gaps let pass: in every mode but   *)
(* "none", whatever the guest links and however it stores.                   *)
THEOREM ConditionalAtomic ==
    ASSUME Mode # "none" PROVE Spec => []ConditionalIsAtomic
<1>1. Init => ConditionalIsAtomic
  BY DEF Init, ConditionalIsAtomic
<1>2. LinkInv /\ ConditionalIsAtomic /\ [Next]_vars => ConditionalIsAtomic'
  <2> SUFFICES ASSUME LinkInv, ConditionalIsAtomic, [Next]_vars
               PROVE  ConditionalIsAtomic'
    OBVIOUS
  <2>1. CASE \E a \in Linkable, n \in {4, 8} : LoadLinked(a, n)
    BY <2>1 DEF LoadLinked, ConditionalIsAtomic
  <2>2. CASE \E path \in Paths, a \in Space, n \in Word : Store(path, a, n)
    BY <2>2 DEF Store, ConditionalIsAtomic
  <2>3. ASSUME NEW a \in Space, NEW n \in {4, 8}, Conditional(a, n)
        PROVE  ConditionalIsAtomic'
    <3>1. disturbed' = disturbed /\ a \in Int
      BY <2>3, Addresses DEF Conditional
    <3>2. QED
      BY <2>3, <3>1, WinNeedsLink DEF LinkInv, ConditionalIsAtomic
  <2>4. CASE UNCHANGED vars
    BY <2>4 DEF vars, ConditionalIsAtomic
  <2>5. QED
    BY <2>1, <2>2, <2>3, <2>4 DEF Next
<1>3. QED
  BY <1>1, <1>2, LinkNamesFreshBytes, PTL DEF Spec

(* In a safe configuration nothing came through a gap while there is a link. *)
SeenInv == link # 0 => disturbed # "missed"

LEMMA SafeSeesAll ==
    ASSUME Safe PROVE Spec => []SeenInv /\ []NothingMissed
<1>0. Mode # "none"
  BY DEF Safe
<1>1. Init => SeenInv /\ NothingMissed
  BY DEF Init, SeenInv, NothingMissed
<1>2. LinkInv /\ SeenInv /\ NothingMissed /\ [Next]_vars
         => SeenInv' /\ NothingMissed'
  <2> SUFFICES ASSUME LinkInv, SeenInv, NothingMissed, [Next]_vars
               PROVE  SeenInv' /\ NothingMissed'
    OBVIOUS
  <2>1. CASE \E a \in Linkable, n \in {4, 8} : LoadLinked(a, n)
    BY <2>1 DEF LoadLinked, SeenInv, NothingMissed
  <2>2. ASSUME NEW path \in Paths, NEW a \in Space, NEW n \in Word,
               Store(path, a, n)
        PROVE  SeenInv' /\ NothingMissed'
    <3>1. /\ link' = AfterStore(path, a, n, link) /\ outcome' = "plain"
          /\ disturbed' = Disturb(path, a, n) /\ <<a, n>> \in Storable
      BY <2>2 DEF Store
    <3>2. link' \in {0, link}
      BY <3>1, StoreKeepsOrClears
    <3>3. ASSUME link' # 0 PROVE disturbed' # "missed"
      <4>1. Span(a, n) \cap linked # {} => ~Missable(path, a)
        BY <3>1, <3>2, <3>3, SafeIsSeen
      <4>2. disturbed # "missed"
        BY <3>2, <3>3 DEF SeenInv
      <4>3. QED
        BY <3>1, <4>1, <4>2 DEF Disturb
    <3>4. QED
      BY <3>1, <3>3 DEF SeenInv, NothingMissed
  <2>3. ASSUME NEW a \in Space, NEW n \in {4, 8}, Conditional(a, n)
        PROVE  SeenInv' /\ NothingMissed'
    <3>1. link' = 0 /\ disturbed' = disturbed /\ a \in Int
      BY <2>3, Addresses DEF Conditional
    <3>2. outcome' = "won" => link # 0
      BY <1>0, <2>3, <3>1, WinNeedsLink
    <3>3. QED
      BY <3>1, <3>2 DEF LinkInv, SeenInv, NothingMissed
  <2>4. CASE UNCHANGED vars
    BY <2>4 DEF vars, SeenInv, NothingMissed
  <2>5. QED
    BY <2>1, <2>2, <2>3, <2>4 DEF Next
<1>3. QED
  BY <1>0, <1>1, <1>2, LinkNamesFreshBytes, PTL DEF Spec

(* Where the guest keeps to double words and aligned stores, and emitted     *)
(* code to the guest's addresses, or links are coarse, a conditional store   *)
(* that succeeds misses nothing.                                             *)
THEOREM SafeMissesNothing == ASSUME Safe PROVE Spec => []NothingMissed
<1>1. QED
  BY SafeSeesAll, PTL

(* Every instruction is a step of Reservation, or a store through a gap that *)
(* leaves the link.                                                          *)
LEMMA StepKeepsReservation ==
    ASSUME Mode # "none", LinkInv, [Next]_vars
    PROVE  [Promise!Next \/ Unseen]_(Promise!vars)
<1> DEFINE Held == IF link = 0 THEN {} ELSE linked
<1>1. Promise!Next \/ Unseen \/ UNCHANGED <<Held, wrote, outcome>>
  <2>1. ASSUME NEW a \in Linkable, NEW n \in {4, 8}, LoadLinked(a, n)
        PROVE  Promise!Link
    <3>1. Span(a, n) \in SUBSET Int
      BY LinkableIsInt DEF Span
    <3>2. QED
      BY <2>1, <3>1 DEF LoadLinked, Promise!Link
  <2>2. ASSUME NEW path \in Paths, NEW a \in Space, NEW n \in Word,
               Store(path, a, n)
        PROVE  Promise!Store \/ Unseen
    <3>1. /\ link' = AfterStore(path, a, n, link) /\ linked' = linked
          /\ wrote' = Span(a, n) /\ Span(a, n) \subseteq Memory
          /\ outcome' = "plain" /\ disturbed' = Disturb(path, a, n)
      BY <2>2 DEF Store
    <3>2. Held' \in {Held, {}}
      BY <3>1, StoreKeepsOrClears
    <3> SUFFICES ASSUME ~Unseen PROVE Promise!Store
      OBVIOUS
    <3>3. wrote' \cap Held # {} => Held' = {}
      <4> SUFFICES ASSUME link # 0, link' # 0, Span(a, n) \cap linked # {}
                   PROVE  FALSE
        BY <3>1
      <4>1. link \in Int /\ a \in Int /\ disturbed # "bytes"
        BY LinkableIsInt, Addresses DEF LinkInv
      <4>2. Missable(path, a)
        BY <3>1, <4>1, SeenClears
      <4>3. QED
        BY <3>1, <4>1, <4>2 DEF Disturb, Unseen
    <3>4. wrote' \in SUBSET Int
      BY <3>1, Bytes
    <3> HIDE DEF Held
    <3>5. Held' \in IF wrote' \cap Held = {} THEN {Held, {}} ELSE {{}}
      BY <3>2, <3>3
    <3> USE DEF Held
    <3>6. QED
      BY <3>1, <3>4, <3>5 DEF Promise!Store
  <2>3. ASSUME NEW a \in Space, NEW n \in {4, 8}, Conditional(a, n)
        PROVE  Promise!Win \/ Promise!Lose
    <3>1. CASE outcome' = "won"
      <4>1. LinkHolds(a)
        BY <2>3, <3>1 DEF Conditional
      <4>2. Held' = {} /\ wrote' = Span(a, n) /\ Span(a, n) \subseteq Memory
        BY <2>3, <3>1, <4>1 DEF Conditional
      <4>3. link # 0 /\ (Mode = "fine" => link = a)
        BY <2>3, <3>1, Addresses, WinNeedsLink
      <4>4. link \in Held
        <5>1. link \in Int /\ linked \in {Span(link, 4), Span(link, 8)}
          BY <4>3, LinkableIsInt DEF LinkInv
        <5>2. link \in Span(link, 4) /\ link \in Span(link, 8)
          BY <5>1 DEF Span
        <5>3. QED
          BY <4>3, <5>1, <5>2
      <4>5. a \in Span(a, n)
        BY Addresses DEF Span
      <4>6. wrote' \in SUBSET Int
        BY <4>2, Bytes
      <4>7. QED
        BY <3>1, <4>2, <4>3, <4>4, <4>5, <4>6 DEF Promise!Win
    <3>2. CASE outcome' # "won"
      BY <2>3, <3>2 DEF Conditional, Promise!Lose
    <3>3. QED
      BY <3>1, <3>2
  <2>4. CASE UNCHANGED vars
    BY <2>4 DEF vars
  <2>5. QED
    BY <2>1, <2>2, <2>3, <2>4 DEF Next, Promise!Next
<1>2. QED
  BY <1>1 DEF Promise!vars

(* The link keeps the reservation but for what passes unseen, in every mode  *)
(* but "none", whatever the guest links and however it stores.               *)
THEOREM LinkKeepsReservation ==
    ASSUME Mode # "none" PROVE Spec => KeepsReservation
<1>1. Init => Promise!Init
  BY DEF Init, Promise!Init
<1>2. LinkInv /\ [Next]_vars => [Promise!Next \/ Unseen]_(Promise!vars)
  BY StepKeepsReservation
<1>3. QED
  BY <1>1, <1>2, LinkNamesFreshBytes, PTL DEF Spec, KeepsReservation

(* In a safe configuration nothing passes unseen, and the link implements    *)
(* Reservation as it stands.                                                 *)
THEOREM SafeIsReservation == ASSUME Safe PROVE Spec => Promise!Spec
<1>0. Mode # "none"
  BY DEF Safe
<1>1. Init => Promise!Init
  BY DEF Init, Promise!Init
<1>2. LinkInv /\ SeenInv /\ SeenInv' /\ [Next]_vars => [Promise!Next]_(Promise!vars)
  <2>1. SeenInv' => ~Unseen
    BY DEF SeenInv, Unseen
  <2>2. QED
    BY <1>0, <2>1, StepKeepsReservation
<1>3. QED
  BY <1>0, <1>1, <1>2, LinkNamesFreshBytes, SafeSeesAll, PTL DEF Spec, Promise!Spec

-------------------------------------------------------------------------------
(* Types, and the two promises that hold for fine links at any address.      *)

(* The link is an address the guest may use, what is recorded of stores is   *)
(* one of four words, and what an instruction wrote is in memory.           *)
THEOREM TypeCorrect == Spec => []TypeOK
<1>1. Init => TypeOK
  BY DEF Init, TypeOK
<1>2. TypeOK /\ [Next]_vars => TypeOK'
  <2> SUFFICES ASSUME TypeOK, [Next]_vars PROVE TypeOK'
    OBVIOUS
  <2>1. ASSUME NEW a \in Linkable, NEW n \in {4, 8}, LoadLinked(a, n)
        PROVE  TypeOK'
    <3>1. Span(a, n) \in SUBSET Int /\ a \in Space
      BY Addresses DEF Span
    <3>2. QED
      BY <2>1, <3>1 DEF LoadLinked, TypeOK
  <2>2. ASSUME NEW path \in Paths, NEW a \in Space, NEW n \in Word,
               Store(path, a, n)
        PROVE  TypeOK'
    <3>1. link' \in {0, link}
      BY <2>2, StoreKeepsOrClears DEF Store
    <3>2. disturbed' \in {"no", "line", "missed", "bytes"}
      BY <2>2 DEF Store, Disturb, TypeOK
    <3>3. QED
      BY <2>2, <3>1, <3>2 DEF Store, TypeOK
  <2>3. ASSUME NEW a \in Space, NEW n \in {4, 8}, Conditional(a, n)
        PROVE  TypeOK'
    BY <2>3 DEF Conditional, TypeOK
  <2>4. CASE UNCHANGED vars
    BY <2>4 DEF vars, TypeOK
  <2>5. QED
    BY <2>1, <2>2, <2>3, <2>4 DEF Next
<1>3. QED
  BY <1>1, <1>2, PTL DEF Spec

(* While there is a link, loaded tells whether the bytes it was taken for    *)
(* lie in memory; LLWP takes it for a double word only.                      *)
LoadedInv ==
    link # 0 => /\ link \in Int
                /\ \/ loaded <=> Span(link, 4) \subseteq Memory
                   \/ /\ link % 8 = 0
                      /\ loaded <=> Span(link, 8) \subseteq Memory

(* Memory ends with a double word.                                           *)
LEMMA DoubleWordsAreWhole ==
    ASSUME NEW a \in Int, a % 8 = 0, Span(a, 4) \subseteq Memory
    PROVE  Span(a, 8) \subseteq Memory
<1>1. Top \in Nat /\ Top % 8 = 7
  BY LoadLinkAssumption
<1>2. a \in Span(a, 4)
  BY DEF Span
<1>3. a # 0 /\ -Stack <= a /\ a <= Top
  BY <1>2, Addresses DEF Memory
<1>4. a + 7 <= Top /\ (a > 0 \/ a + 7 < 0)
  BY <1>1, <1>3
<1>5. QED
  BY <1>1, <1>3, <1>4, Addresses DEF Span, Memory

LEMMA WonLoaded ==
    ASSUME Mode = "fine", LoadedInv, NEW a \in Space, NEW n \in {4, 8},
           Conditional(a, n), outcome' = "won"
    PROVE  loaded
<1>1. LinkHolds(a) /\ Span(a, n) \subseteq Memory
  BY DEF Conditional
<1>2. link = a
  BY <1>1 DEF LinkHolds
<1>3. a \in Int
  BY Addresses
<1>4. Span(a, 4) \subseteq Span(a, n)
  BY <1>3 DEF Span
<1>5. Span(a, 4) \subseteq Memory
  BY <1>1, <1>4
<1>6. a # 0
  <2>1. a \in Span(a, n)
    BY <1>3 DEF Span
  <2>2. QED
    BY <1>1, <2>1, Bytes
<1>7. a % 8 = 0 => Span(a, 8) \subseteq Memory
  BY <1>3, <1>5, DoubleWordsAreWhole
<1>8. QED
  BY <1>2, <1>5, <1>6, <1>7 DEF LoadedInv

(* With fine links no SC or SCWP succeeds on a load that raised, wherever    *)
(* memory ends and whichever of the two widths linked and stored.            *)
THEOREM SuccessFollowsALoad ==
    ASSUME Mode = "fine" PROVE Spec => []WonWasLoaded
<1>1. Init => LoadedInv /\ WonWasLoaded
  BY DEF Init, LoadedInv, WonWasLoaded
<1>2. LoadedInv /\ WonWasLoaded /\ [Next]_vars => LoadedInv' /\ WonWasLoaded'
  <2> SUFFICES ASSUME LoadedInv, WonWasLoaded, [Next]_vars
               PROVE  LoadedInv' /\ WonWasLoaded'
    OBVIOUS
  <2>1. ASSUME NEW a \in Linkable, NEW n \in {4, 8}, LoadLinked(a, n)
        PROVE  LoadedInv' /\ WonWasLoaded'
    <3>1. a \in Int
      BY LinkableIsInt
    <3>2. /\ link' = a /\ a % n = 0 /\ outcome' = "plain"
          /\ loaded' <=> Span(a, n) \subseteq Memory
      BY <2>1 DEF LoadLinked
    <3>3. LoadedInv'
      <4>1. CASE n = 4
        BY <3>1, <3>2, <4>1 DEF LoadedInv, Memory, Span
      <4>2. CASE n = 8
        BY <3>1, <3>2, <4>2 DEF LoadedInv, Memory, Span
      <4>3. QED
        BY <4>1, <4>2
    <3>4. QED
      BY <3>2, <3>3 DEF WonWasLoaded
  <2>2. ASSUME NEW path \in Paths, NEW a \in Space, NEW n \in Word,
               Store(path, a, n)
        PROVE  LoadedInv' /\ WonWasLoaded'
    <3>1. link' \in {0, link}
      BY <2>2, StoreKeepsOrClears DEF Store
    <3>2. loaded' = loaded /\ outcome' = "plain"
      BY <2>2 DEF Store
    <3>3. QED
      BY <3>1, <3>2 DEF LoadedInv, WonWasLoaded, Memory, Span
  <2>3. ASSUME NEW a \in Space, NEW n \in {4, 8}, Conditional(a, n)
        PROVE  LoadedInv' /\ WonWasLoaded'
    <3>1. link' = 0 /\ loaded' = loaded
      BY <2>3 DEF Conditional
    <3>2. outcome' = "won" => loaded
      BY <2>3, WonLoaded
    <3>3. QED
      BY <3>1, <3>2 DEF LoadedInv, WonWasLoaded
  <2>4. CASE UNCHANGED vars
    BY <2>4 DEF vars, LoadedInv, WonWasLoaded, Memory, Span
  <2>5. QED
    BY <2>1, <2>2, <2>3, <2>4 DEF Next
<1>3. QED
  BY <1>1, <1>2, PTL DEF Spec

(* As long as nothing near them was stored, the link is the first of the     *)
(* linked bytes.                                                             *)
KeptInv ==
    disturbed = "no" /\ linked # {} /\ 0 \notin linked =>
        link # 0 /\ link \in Int /\ link \in linked

(* A store that is not near the linked bytes keeps the link, on every path.  *)
LEMMA FarStoreKeepsLink ==
    ASSUME Mode = "fine", NEW path \in Paths, NEW a \in Int, NEW n \in Word,
           link \in Int, link \in linked, ~Near(path, a, n)
    PROVE  AfterStore(path, a, n, link) = link
<1>1. a \in Span(a, n)
  BY DEF Span, Word
<1>2. Line(a) # Line(link) /\ (path = "dynamic" => Line(a + Addend) # Line(link))
  BY <1>1 DEF Near
<1>3. a # link /\ Line(a) # link
  BY <1>2 DEF Line
<1>4. Touch(a, link) = link
  BY <1>3 DEF Touch
<1>5. QED
  BY <1>2, <1>3, <1>4 DEF AfterStore

(* With fine links a guest that stores nothing to the lines it has linked,   *)
(* as emitted code addresses them, keeps its link: on every path, for every  *)
(* address and width, with a stack below 0 or without.                       *)
THEOREM LinkSurvives == ASSUME Mode = "fine" PROVE Spec => []NoSpuriousLoss
<1>1. Init => KeptInv
  BY DEF Init, KeptInv
<1>2. KeptInv /\ [Next]_vars => KeptInv'
  <2> SUFFICES ASSUME KeptInv, [Next]_vars PROVE KeptInv'
    OBVIOUS
  <2>1. ASSUME NEW a \in Linkable, NEW n \in {4, 8}, LoadLinked(a, n)
        PROVE  KeptInv'
    <3>1. a \in Int /\ a \in Span(a, n)
      BY LinkableIsInt DEF Span
    <3>2. link' = a /\ linked' = Span(a, n)
      BY <2>1 DEF LoadLinked
    <3>3. QED
      BY <3>1, <3>2 DEF KeptInv
  <2>2. ASSUME NEW path \in Paths, NEW a \in Space, NEW n \in Word,
               Store(path, a, n)
        PROVE  KeptInv'
    <3> SUFFICES ASSUME disturbed' = "no", linked' # {}, 0 \notin linked'
                 PROVE  link' # 0 /\ link' \in Int /\ link' \in linked'
      BY DEF KeptInv
    <3>1. /\ link' = AfterStore(path, a, n, link) /\ linked' = linked
          /\ disturbed' = Disturb(path, a, n) /\ a \in Int
      BY <2>2, Addresses DEF Store
    <3>2. disturbed = "no" /\ ~Near(path, a, n)
      BY <3>1 DEF Disturb
    <3>3. link # 0 /\ link \in Int /\ link \in linked
      BY <3>1, <3>2 DEF KeptInv
    <3>4. AfterStore(path, a, n, link) = link
      BY <3>1, <3>2, <3>3, FarStoreKeepsLink
    <3>5. QED
      BY <3>1, <3>3, <3>4
  <2>3. ASSUME NEW a \in Space, NEW n \in {4, 8}, Conditional(a, n)
        PROVE  KeptInv'
    BY <2>3 DEF Conditional, KeptInv
  <2>4. CASE UNCHANGED vars
    BY <2>4 DEF vars, KeptInv
  <2>5. QED
    BY <2>1, <2>2, <2>3, <2>4 DEF Next
<1>3. KeptInv => NoSpuriousLoss
  BY DEF KeptInv, NoSpuriousLoss
<1>4. QED
  BY <1>1, <1>2, <1>3, PTL DEF Spec
===============================================================================

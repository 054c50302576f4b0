--------------------------- MODULE JitLookupProofs ---------------------------
(*****************************************************************************)
(* As long as the directory tells all pages apart, emitted code is found and *)
(* linked rightly, whatever the guest is and however small the ring.         *)
(*****************************************************************************)
EXTENDS JitLookup, TLAPS

(* The guest lives in the 2^24 bytes the directory can tell apart.           *)
NoAlias == Pages <= Window

(* An entry of the directory has a chunk of the page it stands for.          *)
BaseRight == \A c \in Slot : base[c] = None \/ base[c] = c[1]

(* What has been asked for is what runs, or what is being emitted.           *)
AtRight ==
    mode # "host" => base[at[1]] = want[1] /\ at[2] = PlaceOf(want)

PatchRight ==
    patching # None =>
        /\ mode = "emit"
        /\ base[patching[1]] # None
        /\ JumpTarget(patching[1], patching[2]) = want

IInv == TypeOK /\ BaseRight /\ AtRight /\ PatchRight /\ LinksRight /\ RecentRight

LEMMA Sizes ==
    /\ Pages \in Nat /\ Pages > 1 /\ Size \in Nat /\ Size > 0
    /\ Window \in Nat /\ Window > 0 /\ Recent \in Nat /\ Recent > 0
BY SizeAssumption, WindowAssumption

LEMMA Nothing ==
    /\ None \notin Address /\ None \notin Page /\ None \notin Jump
    /\ None \notin Slot \X Place
BY NoneAssumption

LEMMA SlotIsAddress ==
    ASSUME NoAlias, NEW a \in Address
    PROVE  SlotOf(a) = a /\ a \in Slot
<1>1. a[1] \in Page /\ a[2] \in Byte /\ a = <<a[1], a[2]>>
  BY DEF Address
<1>2. a[1] % Window = a[1] /\ a[1] \in 0 .. Window - 1
  BY <1>1, Sizes DEF NoAlias, Page
<1>3. QED
  BY <1>1, <1>2 DEF SlotOf, Slot

LEMMA PlaceIsPlace ==
    ASSUME NEW a \in Address
    PROVE  PlaceOf(a) \in Place
<1>1. a[2] \in 0 .. 4 * Size - 1
  BY DEF Address, Byte
<1>2. QED
  BY <1>1, Sizes DEF PlaceOf, Place

LEMMA EntriesAreAddresses == Entries \subseteq Address
BY EntryAssumption

(* A jump that leaves a chunk goes to another page.                          *)
LEMMA TargetLeaves ==
    ASSUME NEW c \in Slot, NEW i \in 0 .. Size, base[c] \in Page
    PROVE  LET t == JumpTarget(c, i)
           IN  /\ t \in Address \cup {None}
               /\ t # None => t[1] # base[c]
               /\ i = Size => t # None
<1>1. CASE i = Size
  <2>1. NextPage(base[c]) \in Page /\ NextPage(base[c]) # base[c]
    BY Sizes DEF NextPage, Page
  <2>2. 3 \in Byte
    BY Sizes DEF Byte
  <2>3. JumpTarget(c, i) = <<NextPage(base[c]), 3>>
    BY <1>1 DEF JumpTarget
  <2>4. <<NextPage(base[c]), 3>> \in Address
    BY <2>1, <2>2 DEF Address
  <2>5. QED
    BY <2>1, <2>3, <2>4, Nothing
<1>2. CASE i # Size
  <2>1. i \in Place
    BY <1>2, Sizes DEF Place
  <2>2. <<base[c], i>> \in Page \X Place
    BY <2>1
  <2>3. Target[<<base[c], i>>] \in Address \cup {None}
    BY <2>2, TargetAssumption
  <2>4. QED
    BY <1>2, <2>3 DEF JumpTarget
<1>3. QED
  BY <1>1, <1>2

(* What a lookup finds was emitted for the page of the address.              *)
LEMMA FoundRight ==
    ASSUME NoAlias, IInv, NEW a \in Address
    PROVE  /\ Found(a) \in Slot
           /\ Exists(a) => base[Found(a)] = a[1]
           /\ ~Exists(a) => Found(a) = a /\ SlotOf(a) = a /\ base[a] = None
<1>1. CASE Remembered(a)
  <2> DEFINE r == CHOOSE r \in DOMAIN recent : Remembers(r, a)
  <2>1. r \in DOMAIN recent /\ Remembers(r, a)
    BY <1>1 DEF Remembered
  <2>2. recent[r] \in Page \X Slot /\ recent[r][1] = a[1]
    BY <2>1 DEF Remembers, IInv, TypeOK
  <2>3. Found(a) = recent[r][2]
    BY <1>1 DEF Found
  <2>4. base[recent[r][2]] = recent[r][1]
    BY <2>1 DEF Remembers, IInv, RecentRight
  <2>5. QED
    BY <1>1, <2>2, <2>3, <2>4 DEF Exists
<1>2. CASE ~Remembered(a)
  <2>1. Found(a) = a /\ SlotOf(a) = a /\ a \in Slot
    BY <1>2, SlotIsAddress DEF Found
  <2>2. base[a] = None \/ base[a] = a[1]
    BY <2>1 DEF IInv, BaseRight
  <2>3. QED
    BY <1>2, <2>1, <2>2 DEF Exists
<1>3. QED
  BY <1>1, <1>2

(* A page enters the ring once, with its chunk.                              *)
LEMMA RingRight ==
    ASSUME NoAlias, IInv, NEW a \in Address, Remember(a),
           \A c \in Slot : base[c] # None => base'[c] = base[c],
           base'[Found(a)] = a[1]
    PROVE  /\ RecentRight'
           /\ recent' \in [0 .. Recent - 1 -> (Page \X Slot) \cup {None}]
           /\ oldest' \in 0 .. Recent - 1
<1>1. recent \in [0 .. Recent - 1 -> (Page \X Slot) \cup {None}]
      /\ oldest \in 0 .. Recent - 1
  BY DEF IInv, TypeOK
<1>2. \A r \in DOMAIN recent : recent[r] # None =>
         recent[r][2] \in Slot /\ base[recent[r][2]] = recent[r][1]
                               /\ base'[recent[r][2]] = recent[r][1]
  <2> SUFFICES ASSUME NEW r \in DOMAIN recent, recent[r] # None
               PROVE  recent[r][2] \in Slot /\ base[recent[r][2]] = recent[r][1]
                                     /\ base'[recent[r][2]] = recent[r][1]
    OBVIOUS
  <2>1. recent[r] \in Page \X Slot
    BY <1>1
  <2>2. base[recent[r][2]] = recent[r][1]
    BY DEF IInv, RecentRight
  <2>3. recent[r][1] # None
    BY <2>1, Nothing
  <2>4. QED
    BY <2>1, <2>2, <2>3
<1>3. CASE Remembered(a)
  <2>1. UNCHANGED <<recent, oldest>>
    BY <1>3 DEF Remember
  <2>2. RecentRight'
    BY <1>2, <2>1 DEF IInv, RecentRight
  <2>3. QED
    BY <1>1, <2>1, <2>2
<1>4. CASE ~Remembered(a)
  <2>1. SlotOf(a) = a /\ a \in Slot /\ Found(a) = a
    BY <1>4, SlotIsAddress DEF Found
  <2>2. recent' = [recent EXCEPT ![oldest] = <<a[1], a>>]
        /\ oldest' = (oldest + 1) % Recent
    BY <1>4, <2>1 DEF Remember
  <2>3. a[1] \in Page
    BY DEF Address
  <2>4. oldest' \in 0 .. Recent - 1
    BY <1>1, <2>2, Sizes
  <2>5. recent' \in [0 .. Recent - 1 -> (Page \X Slot) \cup {None}]
    BY <1>1, <2>1, <2>2, <2>3
  <2>6. \A r \in 0 .. Recent - 1 : recent[r] = None \/ recent[r][1] # a[1]
    BY <1>1, <1>4 DEF Remembered, Remembers
  <2>7. \A r \in 0 .. Recent - 1 :
           IF r = oldest THEN recent'[r] = <<a[1], a>>
           ELSE recent'[r] = recent[r]
    BY <1>1, <2>2
  <2>8. base'[a] = a[1]
    BY <2>1
  <2>9. RecentRight'
    BY <1>1, <1>2, <2>5, <2>6, <2>7, <2>8 DEF IInv, RecentRight
  <2>10. QED
    BY <2>4, <2>5, <2>9
<1>5. QED
  BY <1>3, <1>4

(* Chunks are emitted once: what a jump means does not change.               *)
LEMMA TargetsStay ==
    ASSUME NEW j \in Jump, base'[j[1]] = base[j[1]]
    PROVE  JumpTarget(j[1], j[2])' = JumpTarget(j[1], j[2])
BY DEF JumpTarget

LEMMA LinksStay ==
    ASSUME IInv, links' = links,
           \A c \in Slot : base[c] # None => base'[c] = base[c]
    PROVE  LinksRight'
<1> SUFFICES ASSUME NEW j \in Jump, links[j] # None
             PROVE  LET t == JumpTarget(j[1], j[2])'
                    IN  /\ base'[j[1]] # None /\ t # None
                        /\ base'[links[j][1]] = t[1] /\ links[j][2] = PlaceOf(t)
  BY DEF LinksRight, PlaceOf
<1> DEFINE t == JumpTarget(j[1], j[2])
<1>1. /\ base[j[1]] # None /\ t # None
      /\ base[links[j][1]] = t[1] /\ links[j][2] = PlaceOf(t)
  BY DEF IInv, LinksRight
<1>2. links[j] \in Slot \X Place /\ j[1] \in Slot /\ j[2] \in 0 .. Size
  BY DEF IInv, TypeOK, Jump
<1>3. base[j[1]] \in Page
  BY <1>1, <1>2 DEF IInv, TypeOK
<1>4. t \in Address /\ t[1] # None
  BY <1>1, <1>2, <1>3, TargetLeaves, Nothing DEF Address
<1>5. base'[j[1]] = base[j[1]] /\ base'[links[j][1]] = base[links[j][1]]
  BY <1>1, <1>2, <1>4
<1>6. JumpTarget(j[1], j[2])' = t
  BY <1>5, TargetsStay
<1>7. QED
  BY <1>1, <1>3, <1>5, <1>6

(* A jump whose chunk was emitted is linked to code of its target.           *)
LEMMA LinkRight ==
    ASSUME IInv, UNCHANGED base, NEW jump \in Jump, base[jump[1]] # None,
           JumpTarget(jump[1], jump[2]) # None,
           NEW there \in Slot \X Place,
           base[there[1]] = JumpTarget(jump[1], jump[2])[1],
           there[2] = PlaceOf(JumpTarget(jump[1], jump[2])),
           links' = [links EXCEPT ![jump] = there]
    PROVE  /\ LinksRight'
           /\ links' \in [Jump -> (Slot \X Place) \cup {None}]
<1>1. links \in [Jump -> (Slot \X Place) \cup {None}]
  BY DEF IInv, TypeOK
<1>2. \A j \in Jump : links'[j] = IF j = jump THEN there ELSE links[j]
  BY <1>1
<1>3. \A j \in Jump : JumpTarget(j[1], j[2])' = JumpTarget(j[1], j[2])
  BY DEF JumpTarget
<1>4. SUFFICES ASSUME NEW j \in Jump, links'[j] # None
               PROVE  LET t == JumpTarget(j[1], j[2])
                      IN  /\ base[j[1]] # None /\ t # None
                          /\ base[links'[j][1]] = t[1]
                          /\ links'[j][2] = PlaceOf(t)
  BY <1>1, <1>3 DEF LinksRight, PlaceOf
<1>5. CASE j = jump
  BY <1>2, <1>5
<1>6. CASE j # jump
  <2>1. links'[j] = links[j] /\ links[j] # None
    BY <1>2, <1>4, <1>6
  <2>2. LinksRight
    BY DEF IInv
  <2>3. QED
    BY <2>1, <2>2 DEF LinksRight
<1>7. QED
  BY <1>5, <1>6

(* get_instruction() finds or emits the right chunk, and patches its caller  *)
(* with it.                                                                  *)
LEMMA GetInstructionIInv ==
    ASSUME NoAlias, IInv, NEW a \in Address, NEW jump \in Jump \cup {None},
           mode # "emit",
           jump # None => base[jump[1]] # None
                          /\ JumpTarget(jump[1], jump[2]) = a,
           GetInstruction(a, jump)
    PROVE  IInv'
<1> DEFINE there == <<Found(a), PlaceOf(a)>>
<1>1. /\ want' = a /\ at' = there /\ next' = 0 /\ Remember(a)
  BY DEF GetInstruction
<1>2. there \in Slot \X Place /\ a[1] \in Page /\ a[1] # None
  BY FoundRight, PlaceIsPlace, Nothing DEF Address
<1>3. CASE Exists(a)
  <2>1. /\ mode' = "run" /\ patching' = None /\ base' = base
        /\ links' = Patched(jump, there)
    BY <1>3 DEF GetInstruction
  <2>2. base[Found(a)] = a[1]
    BY <1>3, FoundRight
  <2>3. /\ RecentRight'
        /\ recent' \in [0 .. Recent - 1 -> (Page \X Slot) \cup {None}]
        /\ oldest' \in 0 .. Recent - 1
    BY <1>1, <2>1, <2>2, RingRight
  <2>4. LinksRight' /\ links' \in [Jump -> (Slot \X Place) \cup {None}]
    <3>1. CASE jump = None
      BY <2>1, <3>1, LinksStay DEF Patched, IInv, TypeOK
    <3>2. CASE jump # None
      BY <1>2, <2>1, <2>2, <3>2, LinkRight, Nothing DEF Patched
    <3>3. QED
      BY <3>1, <3>2
  <2>5. BaseRight' /\ PatchRight' /\ AtRight'
    BY <1>1, <2>1, <2>2 DEF IInv, BaseRight, PatchRight, AtRight, PlaceOf
  <2>6. at' # None /\ want' # None
    BY <1>1, <1>2, Nothing
  <2>7. TypeOK'
    <3>1. base \in [Slot -> Page \cup {None}]
      BY DEF IInv, TypeOK
    <3>2. next' \in 0 .. Size + 1
      BY <1>1, Sizes
    <3>3. QED
      BY <1>1, <1>2, <2>1, <2>3, <2>4, <2>6, <3>1, <3>2 DEF TypeOK
  <2>8. QED
    BY <2>3, <2>4, <2>5, <2>7 DEF IInv
<1>4. CASE ~Exists(a)
  <2>1. Found(a) = a /\ SlotOf(a) = a /\ base[a] = None /\ a \in Slot
    BY <1>4, FoundRight, SlotIsAddress
  <2>2. /\ mode' = "emit" /\ patching' = jump /\ links' = links
        /\ base' = [base EXCEPT ![a] = a[1]]
    BY <1>4, <2>1 DEF GetInstruction
  <2>3. base \in [Slot -> Page \cup {None}]
    BY DEF IInv, TypeOK
  <2>4. /\ base' \in [Slot -> Page \cup {None}] /\ base'[a] = a[1]
        /\ \A c \in Slot : base[c] # None => base'[c] = base[c]
        /\ \A c \in Slot : c # a => base'[c] = base[c]
    BY <1>2, <2>1, <2>2, <2>3
  <2>5. /\ RecentRight'
        /\ recent' \in [0 .. Recent - 1 -> (Page \X Slot) \cup {None}]
        /\ oldest' \in 0 .. Recent - 1
    BY <1>1, <2>1, <2>4, RingRight
  <2>6. LinksRight'
    BY <2>2, <2>4, LinksStay
  <2>7. BaseRight' /\ AtRight'
    BY <1>1, <2>1, <2>2, <2>4 DEF IInv, BaseRight, AtRight, PlaceOf
  <2>8. PatchRight'
    <3>1. CASE jump = None
      BY <2>2, <3>1 DEF PatchRight
    <3>2. CASE jump # None
      <4>1. jump[1] \in Slot /\ base'[jump[1]] = base[jump[1]]
        BY <2>4, <3>2 DEF Jump
      <4>2. JumpTarget(jump[1], jump[2])' = a
        BY <3>2, <4>1, TargetsStay
      <4>3. QED
        BY <1>1, <2>2, <3>2, <4>1, <4>2 DEF PatchRight
    <3>3. QED
      BY <3>1, <3>2
  <2>9. at' # None /\ want' # None
    BY <1>1, <1>2, Nothing
  <2>10. links \in [Jump -> (Slot \X Place) \cup {None}]
    BY DEF IInv, TypeOK
  <2>11. TypeOK'
    BY <1>1, <1>2, <2>2, <2>4, <2>5, <2>9, <2>10, Sizes DEF TypeOK
  <2>12. QED
    BY <2>5, <2>6, <2>7, <2>8, <2>11 DEF IInv
<1>5. QED
  BY <1>3, <1>4

LEMMA InitIInv == Init => IInv
<1> SUFFICES ASSUME Init PROVE IInv
  OBVIOUS
<1>1. oldest \in 0 .. Recent - 1 /\ next \in 0 .. Size + 1
  BY Sizes DEF Init
<1>2. TypeOK
  BY <1>1 DEF Init, TypeOK
<1>3. BaseRight /\ AtRight /\ PatchRight
  BY DEF Init, BaseRight, AtRight, PatchRight
<1>4. LinksRight /\ RecentRight
  BY DEF Init, LinksRight, RecentRight
<1>5. QED
  BY <1>2, <1>3, <1>4 DEF IInv

(* Where emitted code stands when it runs.                                   *)
LEMMA Standing ==
    ASSUME IInv, mode # "host"
    PROVE  /\ at \in Slot \X Place /\ want \in Address
           /\ base[at[1]] = want[1] /\ base[at[1]] \in Page
BY DEF IInv, TypeOK, AtRight, Address

(* Every jump of a new chunk is written with code of its target, or asks.    *)
LEMMA EmitIInv ==
    ASSUME NoAlias, IInv, Emit
    PROVE  IInv'
<1> DEFINE jump == <<at[1], next>>
           t == JumpTarget(at[1], next)
<1>1. /\ mode = "emit" /\ next \in 0 .. Size /\ next' = next + 1
      /\ UNCHANGED <<base, mode, at, want, patching>>
  BY Sizes DEF Emit, IInv, TypeOK
<1>2. jump \in Jump /\ base[jump[1]] \in Page /\ base[jump[1]] # None
  BY <1>1, Standing, Nothing DEF Jump
<1>3. t \in Address \cup {None} /\ (t # None => t[1] # base[at[1]])
  BY <1>1, <1>2, Standing, TargetLeaves
<1>4. RecentRight' /\ LinksRight'
      /\ recent' \in [0 .. Recent - 1 -> (Page \X Slot) \cup {None}]
      /\ oldest' \in 0 .. Recent - 1
      /\ links' \in [Jump -> (Slot \X Place) \cup {None}]
  <2>1. CASE t = None
    <3>1. UNCHANGED <<links, recent, oldest>>
      BY <2>1 DEF Emit
    <3>2. LinksRight'
      BY <1>1, <3>1, LinksStay
    <3>3. QED
      BY <1>1, <3>1, <3>2 DEF IInv, TypeOK, RecentRight
  <2>2. CASE t # None /\ ~Exists(t)
    <3>1. /\ links' = [links EXCEPT ![jump] = None]
          /\ UNCHANGED <<recent, oldest>>
      BY <2>2 DEF Emit, FetchInstruction
    <3>2. links \in [Jump -> (Slot \X Place) \cup {None}]
      BY DEF IInv, TypeOK
    <3>3. \A j \in Jump : links'[j] = None \/ links'[j] = links[j]
      BY <3>1, <3>2
    <3>4. \A j \in Jump : JumpTarget(j[1], j[2])' = JumpTarget(j[1], j[2])
      BY <1>1 DEF JumpTarget
    <3>5. LinksRight'
      BY <1>1, <3>3, <3>4 DEF IInv, LinksRight, PlaceOf
    <3>6. QED
      BY <1>1, <3>1, <3>2, <3>5 DEF IInv, TypeOK, RecentRight
  <2>3. CASE t # None /\ Exists(t)
    <3>1. t \in Address /\ t[1] # base[at[1]]
      BY <1>3, <2>3
    <3>2. Found(t) \in Slot /\ base[Found(t)] = t[1] /\ PlaceOf(t) \in Place
      BY <2>3, <3>1, FoundRight, PlaceIsPlace
    <3>3. FetchInstruction(t) = <<Found(t), PlaceOf(t)>>
      BY <2>3, <3>1, <3>2 DEF FetchInstruction
    <3>4. links' = [links EXCEPT ![jump] = <<Found(t), PlaceOf(t)>>]
          /\ Remember(t)
      BY <2>3, <3>3 DEF Emit
    <3>5. LinksRight' /\ links' \in [Jump -> (Slot \X Place) \cup {None}]
      <4> DEFINE there == <<Found(t), PlaceOf(t)>>
      <4>1. there \in Slot \X Place /\ base[there[1]] = t[1]
            /\ there[2] = PlaceOf(t)
        BY <3>2
      <4>2. JumpTarget(jump[1], jump[2]) = t /\ t # None
        BY <2>3
      <4>3. links' = [links EXCEPT ![jump] = there] /\ UNCHANGED base
        BY <1>1, <3>4
      <4> HIDE DEF jump, there, t
      <4>4. QED
        BY <1>2, <4>1, <4>2, <4>3, LinkRight
    <3>6. QED
      BY <1>1, <3>1, <3>2, <3>4, <3>5, RingRight
  <2>4. QED
    BY <2>1, <2>2, <2>3
<1>5. BaseRight' /\ AtRight' /\ PatchRight'
  BY <1>1 DEF IInv, BaseRight, AtRight, PatchRight, JumpTarget, PlaceOf
<1>6. next' \in 0 .. Size + 1
  BY <1>1, Sizes
<1>7. TypeOK'
  BY <1>1, <1>4, <1>6 DEF IInv, TypeOK
<1>8. QED
  BY <1>4, <1>5, <1>7 DEF IInv

LEMMA EmittedIInv ==
    ASSUME IInv, Emitted
    PROVE  IInv'
<1>1. /\ mode = "emit" /\ mode' = "run" /\ next' = 0 /\ patching' = None
      /\ links' = Patched(patching, at)
      /\ UNCHANGED <<base, recent, oldest, at, want>>
  BY DEF Emitted
<1>2. LinksRight' /\ links' \in [Jump -> (Slot \X Place) \cup {None}]
  <2>1. CASE patching = None
    BY <1>1, <2>1, LinksStay DEF Patched, IInv, TypeOK
  <2>2. CASE patching # None
    <3>1. /\ patching \in Jump /\ base[patching[1]] # None
          /\ JumpTarget(patching[1], patching[2]) = want
      BY <2>2 DEF IInv, TypeOK, PatchRight
    <3>2. /\ at \in Slot \X Place /\ want # None
          /\ base[at[1]] = want[1] /\ at[2] = PlaceOf(want)
      BY <1>1, Standing, Nothing DEF IInv, AtRight
    <3>3. links' = [links EXCEPT ![patching] = at]
      BY <1>1, <2>2 DEF Patched
    <3>4. QED
      BY <1>1, <3>1, <3>2, <3>3, LinkRight
  <2>3. QED
    BY <2>1, <2>2
<1>3. BaseRight' /\ AtRight' /\ PatchRight' /\ RecentRight'
  BY <1>1 DEF IInv, BaseRight, AtRight, PatchRight, RecentRight, PlaceOf
<1>4. next' \in 0 .. Size + 1
  BY <1>1, Sizes
<1>5. TypeOK'
  BY <1>1, <1>2, <1>4 DEF IInv, TypeOK
<1>6. QED
  BY <1>2, <1>3, <1>5 DEF IInv

LEMMA LeaveIInv ==
    ASSUME IInv, Leave
    PROVE  IInv'
<1>1. /\ mode = "run" /\ mode' = "host" /\ at' = None /\ want' = None
      /\ UNCHANGED <<base, links, recent, oldest, next, patching>>
  BY DEF Leave
<1>2. patching = None
  BY <1>1 DEF IInv, PatchRight
<1>3. LinksRight'
  BY <1>1, LinksStay
<1>4. BaseRight' /\ AtRight' /\ PatchRight' /\ RecentRight'
  BY <1>1, <1>2 DEF IInv, BaseRight, AtRight, PatchRight, RecentRight
<1>5. TypeOK'
  BY <1>1 DEF IInv, TypeOK
<1>6. QED
  BY <1>3, <1>4, <1>5 DEF IInv

(* Inside a chunk, and through a jump that knows where it leads.             *)
LEMMA MoveIInv ==
    ASSUME IInv, mode = "run",
           NEW a \in Address, want' = a,
           at' \in Slot \X Place, base[at'[1]] = a[1], at'[2] = PlaceOf(a),
           UNCHANGED <<base, links, recent, oldest, mode, next, patching>>
    PROVE  IInv'
<1>1. patching = None
  BY DEF IInv, PatchRight
<1>2. LinksRight'
  BY LinksStay
<1>3. BaseRight' /\ AtRight' /\ PatchRight' /\ RecentRight'
  BY <1>1 DEF IInv, BaseRight, AtRight, PatchRight, RecentRight, PlaceOf
<1>4. at' # None /\ want' # None
  BY Nothing
<1>5. TypeOK'
  BY <1>4 DEF IInv, TypeOK
<1>6. QED
  BY <1>2, <1>3, <1>5 DEF IInv

LEMMA NearIInv ==
    ASSUME IInv, mode = "run", NEW a \in Address, a[1] = base[at[1]], Near(a)
    PROVE  IInv'
<1>1. /\ at' = <<at[1], PlaceOf(a)>> /\ want' = a
      /\ UNCHANGED <<base, links, recent, oldest, mode, next, patching>>
  BY DEF Near
<1>2. at'[1] = at[1] /\ at'[2] = PlaceOf(a) /\ at' \in Slot \X Place
  BY <1>1, Standing, PlaceIsPlace
<1>3. QED
  BY <1>1, <1>2, MoveIInv

LEMMA FarIInv ==
    ASSUME NoAlias, IInv, mode = "run", NEW i \in 0 .. Size,
           JumpTarget(at[1], i) # None, Far(i)
    PROVE  IInv'
<1> DEFINE jump == <<at[1], i>>
           t == JumpTarget(at[1], i)
<1>1. jump \in Jump /\ base[at[1]] \in Page /\ base[at[1]] # None
  BY Standing, Nothing DEF Jump
<1>2. t \in Address
  BY <1>1, Standing, TargetLeaves
<1>3. CASE links[jump] = None
  <2>1. GetInstruction(t, jump)
    BY <1>3 DEF Far
  <2>2. QED
    BY <1>1, <1>2, <2>1, GetInstructionIInv
<1>4. CASE links[jump] # None
  <2>1. /\ at' = links[jump] /\ want' = t
        /\ UNCHANGED <<base, links, recent, oldest, mode, next, patching>>
    BY <1>4 DEF Far
  <2>2. base[links[jump][1]] = t[1] /\ links[jump][2] = PlaceOf(t)
    <3>1. LinksRight
      BY DEF IInv
    <3>2. QED
      BY <1>1, <1>4, <3>1 DEF LinksRight
  <2>3. links[jump] \in Slot \X Place
    BY <1>1, <1>4 DEF IInv, TypeOK
  <2>4. QED
    BY <1>2, <2>1, <2>2, <2>3, MoveIInv
<1>5. QED
  BY <1>3, <1>4

LEMMA FallThroughIInv ==
    ASSUME NoAlias, IInv, FallThrough
    PROVE  IInv'
<1>1. mode = "run" /\ at \in Slot \X Place /\ base[at[1]] \in Page
  BY Standing DEF FallThrough
<1>2. CASE at[2] + 1 < Size
  <2> DEFINE a == <<base[at[1]], 4 * (at[2] + 1)>>
  <2>1. 4 * (at[2] + 1) \in Byte
    BY <1>1, <1>2, Sizes DEF Place, Byte
  <2>2. a \in Address
    BY <1>1, <2>1 DEF Address
  <2>3. Near(a)
    BY <1>2 DEF FallThrough
  <2>4. QED
    BY <1>1, <2>2, <2>3, NearIInv
<1>3. CASE ~(at[2] + 1 < Size)
  <2>1. Far(Size)
    BY <1>3 DEF FallThrough
  <2>2. Size \in 0 .. Size /\ at[1] \in Slot
    BY <1>1, Sizes
  <2>3. JumpTarget(at[1], Size) # None
    BY <1>1, <2>2, TargetLeaves
  <2>4. QED
    BY <1>1, <2>1, <2>2, <2>3, FarIInv
<1>4. QED
  BY <1>2, <1>3

LEMMA BranchIInv ==
    ASSUME NoAlias, IInv, Branch
    PROVE  IInv'
<1> DEFINE a == Target[<<base[at[1]], at[2]>>]
<1>1. mode = "run" /\ at \in Slot \X Place /\ base[at[1]] \in Page
  BY Standing DEF Branch
<1>2. a \in Address
  BY <1>1, TargetAssumption DEF Branch
<1>3. at[2] \in 0 .. Size /\ at[2] # Size
  BY <1>1, Sizes DEF Place
<1>4. CASE JumpTarget(at[1], at[2]) = None
  <2>1. a[1] = base[at[1]]
    BY <1>2, <1>3, <1>4, Nothing DEF JumpTarget
  <2>2. Near(a)
    BY <1>4 DEF Branch
  <2>3. QED
    BY <1>1, <1>2, <2>1, <2>2, NearIInv
<1>5. CASE JumpTarget(at[1], at[2]) # None
  <2>1. Far(at[2])
    BY <1>5 DEF Branch
  <2>2. QED
    BY <1>1, <1>3, <1>5, <2>1, FarIInv
<1>6. QED
  BY <1>4, <1>5

LEMMA EnterIInv ==
    ASSUME NoAlias, IInv, NEW a \in Entries, Enter(a)
    PROVE  IInv'
<1>1. a \in Address /\ mode # "emit" /\ GetInstruction(a, None)
  BY EntriesAreAddresses DEF Enter
<1>2. QED
  BY <1>1, GetInstructionIInv

LEMMA IndirectIInv ==
    ASSUME NoAlias, IInv, NEW a \in Entries, Indirect(a)
    PROVE  IInv'
<1>1. a \in Address /\ mode = "run"
  BY EntriesAreAddresses DEF Indirect
<1>2. CASE a[1] = base[at[1]]
  <2>1. Near(a)
    BY <1>2 DEF Indirect
  <2>2. QED
    BY <1>1, <1>2, <2>1, NearIInv
<1>3. CASE a[1] # base[at[1]]
  <2>1. GetInstruction(a, None)
    BY <1>3 DEF Indirect
  <2>2. QED
    BY <1>1, <2>1, GetInstructionIInv
<1>4. QED
  BY <1>2, <1>3

LEMMA StutterIInv ==
    ASSUME IInv, UNCHANGED vars
    PROVE  IInv'
<1>1. LinksRight'
  BY LinksStay DEF vars
<1>2. PatchRight'
  BY DEF vars, IInv, PatchRight, JumpTarget
<1>3. TypeOK'
  BY DEF vars, IInv, TypeOK
<1>4. BaseRight' /\ AtRight' /\ RecentRight'
  BY DEF vars, IInv, BaseRight, AtRight, RecentRight
<1>5. QED
  BY <1>1, <1>2, <1>3, <1>4 DEF IInv

LEMMA NextIInv ==
    ASSUME NoAlias, IInv, [Next]_vars
    PROVE  IInv'
BY EmitIInv, EmittedIInv, LeaveIInv, FallThroughIInv, BranchIInv,
   EnterIInv, IndirectIInv, StutterIInv DEF Next

(* Ring, directory, patches and the address wanted keep their types.         *)
THEOREM TypeCorrect ==
    ASSUME NoAlias
    PROVE  Spec => []TypeOK
<1>1. Init => IInv
  BY InitIInv
<1>2. IInv /\ [Next]_vars => IInv'
  BY NextIInv
<1>3. IInv => TypeOK
  BY DEF IInv
<1>4. QED
  BY <1>1, <1>2, <1>3, PTL DEF Spec

(* In an address space the directory tells apart, emitted code only ever     *)
(* runs for the guest address it was emitted for: after every lookup, by     *)
(* every jump, whatever the ring has forgotten.                              *)
THEOREM CodeRunsRight ==
    ASSUME NoAlias
    PROVE  Spec => []RunsRight
<1>1. Init => IInv
  BY InitIInv
<1>2. IInv /\ [Next]_vars => IInv'
  BY NextIInv
<1>3. IInv => RunsRight
  BY DEF IInv, AtRight, RunsRight
<1>4. QED
  BY <1>1, <1>2, <1>3, PTL DEF Spec

(* And no jump is ever linked to the code of another address.                *)
THEOREM JumpsLeadRight ==
    ASSUME NoAlias
    PROVE  Spec => []LinksRight
<1>1. Init => IInv
  BY InitIInv
<1>2. IInv /\ [Next]_vars => IInv'
  BY NextIInv
<1>3. IInv => LinksRight
  BY DEF IInv
<1>4. QED
  BY <1>1, <1>2, <1>3, PTL DEF Spec

(* The ring never holds a page twice, nor a chunk of another page.           *)
THEOREM RingIsRight ==
    ASSUME NoAlias
    PROVE  Spec => []RecentRight
<1>1. Init => IInv
  BY InitIInv
<1>2. IInv /\ [Next]_vars => IInv'
  BY NextIInv
<1>3. IInv => RecentRight
  BY DEF IInv
<1>4. QED
  BY <1>1, <1>2, <1>3, PTL DEF Spec
===============================================================================

------------------------------ MODULE JitLookup ------------------------------
(*****************************************************************************)
(* Where JIT1 finds the code it has emitted: the directory of chunks, the    *)
(* ring of recent chunks before it, and the jumps between chunks, which call *)
(* for their target once and are then patched.  A guest address is its page  *)
(* (ChunkSize bytes) and the byte in it.  A chunk lives in an entry of the   *)
(* directory and is named by it; what its code computes is in GeneratedCode. *)
(*****************************************************************************)
EXTENDS Integers

CONSTANTS
    Pages,      \* pages of the guest's address space: 2^24
    Window,     \* pages that differ in the bits the directory looks at: 2^16
    Size,       \* instructions of a page: NumInstructionsChunk
    Recent,     \* entries of last_cached
    Target,     \* the guest: where a direct jump behind an instruction goes
    Entries,    \* instructions a host starts at or a register may hold
    None

Byte == 0 .. 4 * Size - 1
Page == 0 .. Pages - 1
Address == Page \X Byte
Slot == (0 .. Window - 1) \X Byte
Place == 0 .. Size - 1              \* instructions of a chunk, by number
Jump == Slot \X (0 .. Size)         \* jumps of chunks; the last one leads on

ASSUME SizeAssumption == Pages \in Nat \ {0, 1} /\ Size \in Nat \ {0}
ASSUME WindowAssumption == Window \in Nat \ {0} /\ Recent \in Nat \ {0}
ASSUME TargetAssumption == Target \in [Page \X Place -> Address \cup {None}]
ASSUME EntryAssumption == Entries \subseteq {a \in Address : a[2] % 4 = 0}
ASSUME NoneAssumption ==
    None \notin Address \cup Page \cup Jump \cup (Slot \X Place)

VARIABLES
    base,       \* the page a chunk was emitted for, None: no such chunk
    links,      \* where a jump of a chunk leads, None: it will ask
    recent,     \* last_cached: page and chunk
    oldest,     \* last_cached_index
    mode,       \* "host", "run": in emitted code, or "emit": in write_chunk()
    at,         \* the emitted code that runs, or will when it is emitted
    want,       \* history: the guest address that was asked for last
    next,       \* the instruction write_chunk() comes to
    patching    \* the jump that waits in get_and_patch_instruction()

vars == <<base, links, recent, oldest, mode, at, want, next, patching>>

(* directory_table: the entry of an address, by its low 24 bits.             *)
SlotOf(a) == <<a[1] % Window, a[2]>>
PlaceOf(a) == a[2] \div 4
NextPage(p) == IF p + 1 = Pages THEN 0 ELSE p + 1

(* The target of a jump that leaves chunk c behind its instruction i.  The   *)
(* jump at its end is written for last_address + 4, the fourth byte of the   *)
(* next page, since last_address is the last byte of this one.               *)
JumpTarget(c, i) ==
    IF i = Size THEN <<NextPage(base[c]), 3>>
    ELSE LET t == Target[<<base[c], i>>]
         IN  IF t # None /\ t[1] # base[c] THEN t ELSE None

TypeOK ==
    /\ base \in [Slot -> Page \cup {None}]
    /\ links \in [Jump -> (Slot \X Place) \cup {None}]
    /\ recent \in [0 .. Recent - 1 -> (Page \X Slot) \cup {None}]
    /\ oldest \in 0 .. Recent - 1
    /\ mode \in {"host", "run", "emit"}
    /\ at \in (Slot \X Place) \cup {None}
    /\ want \in Address \cup {None}
    /\ mode # "host" => at # None /\ want # None
    /\ next \in 0 .. Size + 1
    /\ patching \in Jump \cup {None}

Init ==
    /\ base = [c \in Slot |-> None]
    /\ links = [j \in Jump |-> None]
    /\ recent = [r \in 0 .. Recent - 1 |-> None] /\ oldest = 0
    /\ mode = "host" /\ at = None /\ want = None
    /\ next = 0 /\ patching = None

-------------------------------------------------------------------------------
Remembers(r, a) == recent[r] # None /\ recent[r][1] = a[1]
Remembered(a) == \E r \in DOMAIN recent : Remembers(r, a)
(* Mutant: the ring is read at its newest entry.                             *)
FoundNewest(a) ==
    IF Remembered(a) /\ recent[(oldest + Recent - 1) % Recent] # None
    THEN recent[(oldest + Recent - 1) % Recent][2]
    ELSE SlotOf(a)

Found(a) ==
    IF Remembered(a)
    THEN recent[CHOOSE r \in DOMAIN recent : Remembers(r, a)][2]
    ELSE SlotOf(a)
Exists(a) == Remembered(a) \/ base[SlotOf(a)] # None

(* A chunk that had to be looked for in the directory enters the ring.       *)
Remember(a) ==
    IF Remembered(a) THEN UNCHANGED <<recent, oldest>>
    ELSE /\ recent' = [recent EXCEPT ![oldest] = <<a[1], SlotOf(a)>>]
         /\ oldest' = (oldest + 1) % Recent

Patched(jump, there) ==
    IF jump = None THEN links ELSE [links EXCEPT ![jump] = there]

(* get_instruction(a), for a jump that will be patched or for no jump.       *)
GetInstruction(a, jump) ==
    /\ want' = a /\ at' = <<Found(a), PlaceOf(a)>>
    /\ Remember(a)
    /\ next' = 0
    /\ \/ /\ Exists(a)
          /\ mode' = "run" /\ patching' = None
          /\ links' = Patched(jump, <<Found(a), PlaceOf(a)>>)
          /\ UNCHANGED base
       \/ /\ ~Exists(a)
          /\ mode' = "emit" /\ patching' = jump
          /\ base' = [base EXCEPT ![SlotOf(a)] = a[1]]
          /\ UNCHANGED links

(* Mutant: the start of the chunk, whatever the offset of the target is.     *)
FetchStart(a) == IF Exists(a) THEN <<Found(a), 0>> ELSE None

(* fetch_instruction(): None unless there is a chunk.  The offsets of the    *)
(* chunk that is being emitted are 0 from the next instruction on.           *)
FetchInstruction(a) ==
    IF ~Exists(a) THEN None
    ELSE IF Found(a) = at[1] /\ PlaceOf(a) > next THEN <<Found(a), 0>>
    ELSE <<Found(a), PlaceOf(a)>>

(* One instruction of write_chunk(), and the jump behind the last one.       *)
Emit ==
    /\ mode = "emit" /\ next <= Size
    /\ LET t == JumpTarget(at[1], next)
       IN  IF t = None THEN UNCHANGED <<links, recent, oldest>>
           ELSE /\ links' = [links EXCEPT ![<<at[1], next>>] =
                                FetchInstruction(t)]
                /\ IF Exists(t) THEN Remember(t)
                   ELSE UNCHANGED <<recent, oldest>>
    /\ next' = next + 1
    /\ UNCHANGED <<base, mode, at, want, patching>>

(* populate_chunk() returns to get_instruction().                            *)
Emitted ==
    /\ mode = "emit" /\ next = Size + 1
    /\ mode' = "run" /\ next' = 0
    /\ links' = Patched(patching, at) /\ patching' = None
    /\ UNCHANGED <<base, recent, oldest, at, want>>

-------------------------------------------------------------------------------
(* Control passes to a, in the chunk that runs.                              *)
Near(a) ==
    /\ at' = <<at[1], PlaceOf(a)>> /\ want' = a
    /\ UNCHANGED <<base, links, recent, oldest, mode, next, patching>>

(* Control passes through a jump that has been patched, or that asks.        *)
Far(i) ==
    LET jump == <<at[1], i>>
        t == JumpTarget(at[1], i)
    IN  IF links[jump] = None THEN GetInstruction(t, jump)
        ELSE /\ at' = links[jump] /\ want' = t
             /\ UNCHANGED <<base, links, recent, oldest, mode, next, patching>>

Enter(a) == mode = "host" /\ GetInstruction(a, None)

Leave ==
    /\ mode = "run"
    /\ mode' = "host" /\ at' = None /\ want' = None
    /\ UNCHANGED <<base, links, recent, oldest, next, patching>>

FallThrough ==
    /\ mode = "run"
    /\ IF at[2] + 1 < Size THEN Near(<<base[at[1]], 4 * (at[2] + 1)>>)
       ELSE Far(Size)

Branch ==
    /\ mode = "run"
    /\ Target[<<base[at[1]], at[2]>>] # None
    /\ IF JumpTarget(at[1], at[2]) = None
       THEN Near(Target[<<base[at[1]], at[2]>>])
       ELSE Far(at[2])

(* A jump to the address in a register stays in the chunk or asks each time. *)
Indirect(a) ==
    /\ mode = "run"
    /\ IF a[1] = base[at[1]] THEN Near(a) ELSE GetInstruction(a, None)

Next ==
    \/ Emit \/ Emitted \/ Leave \/ FallThrough \/ Branch
    \/ \E a \in Entries : Enter(a) \/ Indirect(a)

Spec == Init /\ [][Next]_vars

-------------------------------------------------------------------------------
(* Code that runs was emitted for the guest address that was asked for       *)
(* (get_instruction, get_and_patch_instruction, intrinsic_insert_jump).      *)
RunsRight ==
    mode = "run" => base[at[1]] = want[1] /\ at[2] = PlaceOf(want)

(* A jump that has been patched, or was written with its destination, leads  *)
(* to code of its target for good (intrinsic_write_patch_jump and            *)
(* get_and_patch_instruction).                                               *)
LinksRight ==
    \A j \in Jump : links[j] # None =>
        LET t == JumpTarget(j[1], j[2])
        IN  /\ base[j[1]] # None /\ t # None
            /\ base[links[j][1]] = t[1] /\ links[j][2] = PlaceOf(t)

(* The ring names a page once, with a chunk that was emitted for it          *)
(* (get_instruction and fetch_instruction).                                  *)
RecentRight ==
    /\ \A r \in DOMAIN recent :
          recent[r] # None => base[recent[r][2]] = recent[r][1]
    /\ \A r, s \in DOMAIN recent :
          recent[r] # None /\ recent[s] # None /\ recent[r][1] = recent[s][1]
              => r = s
===============================================================================

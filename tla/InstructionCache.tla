--------------------------- MODULE InstructionCache ---------------------------
(*****************************************************************************)
(* hash_cache<LineSizeBytes, NumBuckets, Associativity>: the instructions    *)
(* that the interpreter has decoded, and the line that execute_internal()    *)
(* holds a pointer to while the program counter stays in it.  The caches     *)
(* with one line to a bucket or none are classes of their own, which the     *)
(* processor does not use.  No call reaches invalidate().                    *)
(*****************************************************************************)
EXTENDS CacheGeometry

VARIABLES
    code,           \* guest memory, as instructions; it is not written
    lines,          \* bucket::lines of each bucket
    write_offset,   \* bucket::write_offset of each bucket
    held,           \* cache_line, the bucket and the place of the line
    held_base,      \* cache_line_base_ptr, None before the first execute()
    served          \* history: the address executed last and its entry

vars == <<code, lines, write_offset, held, held_base, served>>

Line == [base : Address \cup {None}, data : [Entry -> Instruction \cup {None}]]

TypeOK ==
    /\ code \in Programs
    /\ lines \in [Bucket -> [Way -> Line]]
    /\ write_offset \in [Bucket -> Way]
    /\ held \in [bucket : Bucket, way : Way] /\ held_base \in Address \cup {None}
    /\ served \in (Address \X (Instruction \cup {None})) \cup {None}

InitialLine == [base |-> None, data |-> [e \in Entry |-> None]]
Init ==
    /\ code \in Programs
    /\ lines = [b \in Bucket |-> [w \in Way |-> InitialLine]]
    /\ write_offset = [b \in Bucket |-> 0]
    /\ held = [bucket |-> 0, way |-> 0] /\ held_base = None
    /\ served = None

(* populate_line                                                             *)
Populated(base) == [base |-> base, data |-> [e \in Entry |-> code[base + e]]]

(* The lines of a bucket that have the base of a: there is one at most.      *)
Hits(a) == {w \in Way : lines[BucketOf(a)][w].base = BaseOf(a)}
WayOf(a) ==
    IF Hits(a) # {} THEN CHOOSE w \in Hits(a) : TRUE
    ELSE write_offset[BucketOf(a)]

(* bucket::fetch_line: what is not found takes the place of the line that    *)
(* was filled first, also of the one that is held.                           *)
FetchLine(a) ==
    LET b == BucketOf(a)
    IN  /\ held' = [bucket |-> b, way |-> WayOf(a)]
        /\ held_base' = BaseOf(a)
        /\ IF Hits(a) # {} THEN UNCHANGED <<lines, write_offset>>
           ELSE /\ lines' = [lines EXCEPT ![b][WayOf(a)] = Populated(BaseOf(a))]
                /\ write_offset' = [write_offset EXCEPT ![b] =
                                        (@ + 1) % Associativity]

(* Mutant: the line is compared by its bucket.                               *)
ContainsBucket(base, a) == BucketOf(base) = BucketOf(a)
(* line::contains_static                                                     *)
Contains(base, a) == base = BaseOf(a)

(* execute_internal() is entered at a.                                       *)
Enter(a) == FetchLine(a) /\ UNCHANGED <<code, served>>

(* An iteration of its loop at a.                                            *)
Execute(a) ==
    /\ held_base # None
    /\ IF Contains(held_base, a)
       THEN UNCHANGED <<lines, write_offset, held, held_base>>
       ELSE FetchLine(a)
    /\ served' = <<a, lines'[held'.bucket][held'.way].data[EntryOf(a)]>>
    /\ UNCHANGED code

Next == \E a \in Address : Enter(a) \/ Execute(a)

Spec == Init /\ [][Next]_vars

-------------------------------------------------------------------------------
(* What the interpreter executes at an address is what guest memory holds    *)
(* there, through every fill of a line that takes the place of another.      *)
ServesMemory == served # None => served[2] = code[served[1]]
(* A base is in one line of its bucket, so that the order in which they are  *)
(* searched makes no difference (fetch_line).                                *)
NoBaseTwice ==
    \A b \in Bucket, w, v \in Way :
        lines[b][w].base # None /\ lines[b][w].base = lines[b][v].base => w = v
===============================================================================

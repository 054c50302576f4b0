---------------------------- MODULE CacheGeometry -----------------------------
(*****************************************************************************)
(* How hash_cache takes addresses apart, which here count instructions.      *)
(*****************************************************************************)
EXTENDS Guest, Integers

CONSTANTS
    LineSize,       \* instructions of a line, 64
    NumBuckets,     \* 16
    Associativity   \* lines of a bucket, 2

(* Guest memory is a number of whole lines.                                  *)
ASSUME GeometryAssumption ==
    /\ LineSize \in Nat \ {0} /\ NumBuckets \in Nat \ {0}
    /\ Associativity \in Nat \ {0}
    /\ Address \subseteq Nat
    /\ \A a \in Address : a - (a % LineSize) .. a - (a % LineSize) + LineSize - 1
                            \subseteq Address

Bucket == 0 .. NumBuckets - 1
Way == 0 .. Associativity - 1
Entry == 0 .. LineSize - 1

BaseOf(a) == a - (a % LineSize)                     \* get_base_ptr
BucketOf(a) == (a \div LineSize) % NumBuckets       \* get_bucket_index
EntryOf(a) == a % LineSize                          \* get_index_from_ptr
===============================================================================

------------------------------- MODULE BitMap -------------------------------
(***************************************************************************)
(* BitMap (util/bitmap.h): a vector of 32-bit words, each a function from  *)
(* the position of a bit, the highest being 0, to whether it is set.  No   *)
(* index is checked against the vector: a caller that stays inside it is   *)
(* modelled (outside, as in test_bitmap.cpp, the behaviour is undefined).  *)
(***************************************************************************)
EXTENDS Integers

CONSTANT num   \* the argument of the constructor, a natural number

VARIABLE a   \* the words

shift(i) == i \div 32   \* i >> 5
mask(i)  == i % 32      \* i & 0x1F

Words == 0 .. num \div 32

Index == 0 .. 32 * (1 + num \div 32) - 1

BitMapInit == a = [w \in Words |-> [b \in 0 .. 31 |-> FALSE]]

set(i) == a' = [a EXCEPT ![shift(i)][mask(i)] = TRUE]

clear(i) == a' = [a EXCEPT ![shift(i)][mask(i)] = FALSE]

test(i) == a[shift(i)][mask(i)]

BitMapNext == \E i \in Index : set(i) \/ clear(i)

BitMapSpec == BitMapInit /\ [][BitMapNext]_a

-----------------------------------------------------------------------------
(* The bits are a set of numbers: set and clear of one number leave every  *)
(* other number alone, in its own word and in the others (bitmap.h:9-17).  *)
Members == INSTANCE IntSet WITH members <- {n \in Index : test(n)}

IsASet == Members!Spec

(* Every number up to the one the constructor was given is inside the      *)
(* vector, which has a word more than num / 32 (bitmap.h:8).               *)
NumFits == 0 .. num \subseteq Index
=============================================================================

-------------------------------- MODULE Arrays --------------------------------
(* The layout of arrays, in words in which Limit bytes are a negative number: *)
(* convert of an ArrayCreationExpression writes the size to the first word of *)
(* a block, the class's vector to the second and zero to those after, and an  *)
(* array is known by the address of its second word; convert of an            *)
(* ArrayAccess and of a field named length count from there.                  *)
EXTENDS Integers

CONSTANT Limit       \* 2^31 in the processor

ASSUME LimitAssumption == Limit \in Nat /\ Limit > 8 /\ Limit % 4 = 0

Signed(n) == ((n + Limit) % (2 * Limit)) - Limit

Bytes(size) == Signed(4 * size + 8)

StopsEarly(size) ==
    {1 + t \div 4 : t \in {4 * k : k \in 1..(Limit \div 4)} \cap 1..(Signed(4 * size) - 1)}

\* The words the loop writes: its offset t goes from 4 until it is greater than
\* 4 * size, and is added to the address of the second word.
Zeroed(size) ==
    {1 + t \div 4 : t \in {4 * k : k \in 1..(Limit \div 4)} \cap 1..Signed(4 * size)}

InBounds(index, length) == 0 <= index /\ index < length
WordOf(index) == 1 + Signed(4 + 4 * index) \div 4

\* The code does not test whether the number of bytes is one.
Fits(size) == 4 * size + 8 < Limit
=============================================================================

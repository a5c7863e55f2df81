------------------------------- MODULE MCHeap --------------------------------
EXTENDS Heap

\* Page 0 and the last page are not memory, page 5 is a hole, and the
\* bootloader's memory lies between two pieces of usable memory.
McUsable == {1, 2, 3, 4, 8, 9}
McReclaimable == [first |-> 6, pages |-> 2]
=============================================================================

--------------------------- MODULE MCPageAllocator ---------------------------
(* TLC instances of PageAllocator. *)
EXTENDS PageAllocator

Entry(b, n, t) == [base |-> b, nr |-> n, type |-> t]

PowersOfTwo == {2^k : k \in 0 .. 5}

\* Low memory, a hole, and the memory with the kernel in it.
OnePc == {<<Entry(0, 3, "NORMAL"), Entry(3, 2, "UNUSABLE"), Entry(5, 6, "NORMAL")>>}

\* As above in several orders, with an empty entry, a hole that is not listed,
\* and more entries than there is room for.
ManyPcs ==
  OnePc \cup
  {<<Entry(5, 6, "NORMAL"), Entry(0, 0, "NORMAL"), Entry(0, 3, "NORMAL")>>,
   <<Entry(0, 3, "NORMAL"), Entry(5, 3, "NORMAL"), Entry(8, 1, "UNUSABLE"),
     Entry(9, 2, "NORMAL")>>,
   <<Entry(0, 3, "NORMAL"), Entry(3, 2, "UNUSABLE")>>,
   <<Entry(4, 4, "NORMAL")>>,
   <<Entry(3, 3, "UNUSABLE"), Entry(6, 5, "NORMAL")>>}
=============================================================================

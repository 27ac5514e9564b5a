------------------------------- MODULE MCHeap -------------------------------
(***************************************************************************)
(* Instances of Heap for TLC: which pages the memory manager has free, and *)
(* what the kernel asks for.                                               *)
(***************************************************************************)
EXTENDS Heap

Run(b, n) == [base |-> b, len |-> n]
Load(r, s) == [runs |-> r, low |-> 0, sizes |-> s]

\* One page: the heap never expands.
OnePage == Load({Run(1, 1)}, {1, 3})

\* Pages that do not touch: every expansion is a new section.  A block of 6 bytes
\* fills a page, so that the list may end where lastHeapDesc says it does.
PagesApart == Load({Run(1, 1), Run(3, 1), Run(5, 1)}, {3, 6})
SmallBlocks == Load({Run(1, 1), Run(3, 1)}, {1, 6})

\* As a boot leaves it: the page after the heap's first one is free.
PagesTogether == Load({Run(1, 2)}, {6, 8})

\* Every block is in use and the bytes at NULL->length make it look as if its
\* block ended where free pages begin: one page is asked for, or none.
AtNull == [runs |-> {Run(1, 2), Run(4, 1)}, low |-> 6, sizes |-> {6, 12}]
NoPageAtNull == [runs |-> {Run(2, 2), Run(5, 1)}, low |-> 13, sizes |-> {6, 12}]

AllLoads == {OnePage, PagesApart, SmallBlocks, PagesTogether, AtNull, NoPageAtNull}
LoadTogether == {PagesTogether}
=============================================================================

-------------------------- MODULE MCMemoryManager --------------------------
(* The sizes of the C structures on a 64-bit system; three whole pages of  *)
(* memory followed, as in the program, by one that is not whole.  The      *)
(* library asks for a tcb, a stack, or all that three tcbs leave of a page *)
(* (for which its many small requests stand); the client for something     *)
(* small, for a page less all headers, or for a little more than that.     *)
EXTENDS MemoryManager, TLC

FourPages == 4 * page_size
Tcb == 1056
Stack == 8192
LibraryAsks == {Tcb, Stack, page_size - PageHeader - 3 * (Tcb + BlockHeader)}
WholePage == page_size - PageHeader - BlockHeader
ClientAsks == {1250, WholePage - BlockHeader, WholePage - BlockHeader + 28}

(* The two threads are interchangeable: no property names one of them.     *)
ThreadSymmetry == Permutations(Tids)
=============================================================================

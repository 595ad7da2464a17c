---------------------------- MODULE MCObjectList ----------------------------
(***************************************************************************)
(* An address space for ObjectList: the executable (header, text and a    *)
(* second executable segment), the hook library, whose text at 20 holds    *)
(* object_parse_mmap, a library with an inode that is 0 in an int, the     *)
(* vdso and the heap, which are anonymous, and a library below the hook    *)
(* library that is mapped later.  With two digits to a word and four bits  *)
(* to an int, that library's inode does not fit an int either, and its     *)
(* name has a space in it.  The executable is linked at its addresses.     *)
(***************************************************************************)
EXTENDS ObjectList, TLC

CONSTANTS l1, l2

Seg(s, e, x, i, n) == [start |-> s, end |-> e, exec |-> x, inode |-> i, name |-> n]
MCExe    == <<"e">>
ExeHead  == Seg(0, 1, FALSE, 7, MCExe)
ExeText  == Seg(1, 4, TRUE, 7, MCExe)
ExePlt   == Seg(6, 9, TRUE, 7, MCExe)
Heap     == Seg(9, 10, FALSE, 0, <<>>)
DsoText  == Seg(12, 16, TRUE, 21, <<"d", " ", "o">>)
HookText == Seg(20, 24, TRUE, 12, <<"h">>)
BigText  == Seg(26, 30, TRUE, 16, <<"b">>)
Vdso     == Seg(250, 252, TRUE, 0, <<"[", "v", "]">>)

MCEarly  == {ExeHead, ExeText, ExePlt, Heap, HookText, BigText, Vdso}
MCRegion == MCEarly \cup {DsoText}

Symmetry == Permutations(Loader)
=============================================================================

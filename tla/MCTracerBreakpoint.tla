------------------------- MODULE MCTracerBreakpoint -------------------------
(***************************************************************************)
(* Instances of TracerBreakpoint: an executable with bytes 1..5 and a      *)
(* library with bytes 6..10; instructions 1, 2, 3 of one byte, 4, 7 and 9  *)
(* of two.  Words of two bytes, so the breakpoints at 2 and 3 overlap, and *)
(* the one at 9 stands at the end of its object; one more lies behind it.  *)
(***************************************************************************)
EXTENDS TracerBreakpoint

CONSTANTS b1, b2, b3, b4, b5

exe == [text_start |-> 1, text_end |-> 5]
dso == [text_start |-> 6, text_end |-> 9]

MCBkpt   == {b1, b2, b3, b4, b5}
MCObject == {exe, dso}
MCObjOf  == [b \in MCBkpt |-> IF b \in {b1, b2} THEN exe ELSE dso]
MCOffset == [b \in MCBkpt |-> CASE b = b1 -> 1 [] b = b2 -> 2 [] b = b3 -> 1 [] b = b4 -> 3
                                    [] b = b5 -> 4]
MCByte   == 1 .. 10
MCSucc   == [a \in MCByte |-> CASE a \in {1, 2, 3} -> {a + 1} [] a = 4 -> {2, 7}
                                [] a = 7 -> {9} [] a = 9 -> {2}
                                [] a \in {5, 6, 8, 10} -> {}]
=============================================================================

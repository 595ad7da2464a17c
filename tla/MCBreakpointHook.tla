-------------------------- MODULE MCBreakpointHook --------------------------
(***************************************************************************)
(* Instances of BreakpointHook for TLC.  The program: the executable exe   *)
(* with instructions 1..4 (1 is the entry point, 2 carries lib_init's      *)
(* second breakpoint, 4 branches back to 2 or calls into the library dso), *)
(* dso with 5 and 6, mapped only after start-up, the hook library itself   *)
(* (7, 8), an address that no object maps (9, 10), and a signal handler of *)
(* the executable (11, 12).                                                *)
(***************************************************************************)
EXTENDS BreakpointHook, TLC

CONSTANTS t1, t2, c1, c2, b1, b2, b3, b4, b5, b6, b7, b8,
          s1, s2, s3, exe, dso, hook

MCAddr  == 1 .. 12
MCObjAt == [a \in MCAddr |-> CASE a \in (1 .. 4) \cup {11, 12} -> exe
                               [] a \in 5 .. 6 -> dso
                               [] a \in 7 .. 8 -> hook
                               [] a \in 9 .. 10 -> NULL]
MCSucc  == [a \in MCAddr |-> CASE a = 4 -> {2, 5}
                               [] a \in {6, 8, 10} -> {2}
                               [] a \in {1, 2, 3, 5, 7, 9, 11} -> {a + 1}
                               [] a = 12 -> {}]
\* The same with 3 calling dso directly: fewer states.
LoopSucc == [MCSucc EXCEPT ![3] = {5}]
\* The executable alone, in a loop.
ExeSucc  == [MCSucc EXCEPT ![3] = {2}]
MCStarts == {2}
MCEarly  == {exe, hook}

\* b1 and b2 are lib_init's; b3 lies in dso, b4 collides with b2, b5 lies in
\* the hook library, b6 nowhere, b7 in exe as b1 and b2 do, b8 on the first
\* instruction of the signal handler.
MCEnter == [b \in Bkpt |->
              CASE b = b1 -> 1 [] b = b2 -> 2 [] b = b3 -> 5 [] b = b4 -> 2
                [] b = b5 -> 7 [] b = b6 -> 9 [] b = b7 -> 3
                [] b = b8 -> 11]

UseAll       == [c \in Ctl |-> Bkpt \ {b1}]
OnePerCaller == [c \in Ctl |-> IF c = c1 THEN {b2} ELSE Bkpt \ {b1, b2}]
\* Both toggle b2; c1 also meets the error returns of breakpoint_add.
SharedUse    == [c \in Ctl |-> IF c = c1 THEN Bkpt \ {b1} ELSE {b2}]

Symmetry == Permutations(Slot)
=============================================================================

--------------------------- MODULE TracedProgram ----------------------------
(***************************************************************************)
(* The traced program as if libhook were not loaded: threads that execute  *)
(* the instructions of their text, one at a time, in control-flow order.   *)
(* The hook library is transparent when the program it patches still       *)
(* behaves like this one.                                                  *)
(***************************************************************************)
CONSTANTS
  Thread,      \* thread ids of the program
  main,        \* the thread that starts at the entry point
  Addr,        \* addresses of instructions
  Succ,        \* Succ[a]: where control may go after the instruction at a
  EntryPoint,  \* e_entry of the executable
  Starts,      \* start addresses of further threads
  SigThread,   \* threads that signals are delivered to
  SigEntry,    \* where their handler starts
  SigReturn,   \* its last instruction
  DEAD, NULL

VARIABLES
  vpc,     \* vpc[t]: address of the next instruction of t, or DEAD
  vsaved,  \* vsaved[t]: where a signal has interrupted t, or NULL
  ran      \* ran[t]: the instruction t executed last, and a bit that flips
           \* with every execution, so that no execution is a stuttering step

vars == <<vpc, vsaved, ran>>

Init ==
  /\ vpc = [t \in Thread |-> IF t = main THEN EntryPoint ELSE DEAD]
  /\ vsaved = [t \in Thread |-> NULL]
  /\ ran = [t \in Thread |-> <<NULL, FALSE>>]

\* One instruction: the one at vpc[t], exactly once.
Step(t) ==
  /\ vpc[t] # DEAD
  /\ ran' = [ran EXCEPT ![t] = <<vpc[t], ~ran[t][2]>>]
  /\ \E n \in Succ[vpc[t]] : vpc' = [vpc EXCEPT ![t] = n]
  /\ UNCHANGED vsaved

Spawn(t) ==
  /\ vpc[t] = DEAD
  /\ \E a \in Starts : vpc' = [vpc EXCEPT ![t] = a]
  /\ UNCHANGED <<vsaved, ran>>

Exit(t) ==
  /\ vpc[t] # DEAD /\ vsaved[t] = NULL /\ t # main
  /\ vpc' = [vpc EXCEPT ![t] = DEAD]
  /\ UNCHANGED <<vsaved, ran>>

\* A signal of the program is handled between two instructions.
Interrupt(t) ==
  /\ t \in SigThread /\ vpc[t] # DEAD /\ vsaved[t] = NULL
  /\ vsaved' = [vsaved EXCEPT ![t] = vpc[t]]
  /\ vpc' = [vpc EXCEPT ![t] = SigEntry]
  /\ UNCHANGED ran

Sigreturn(t) ==
  /\ vpc[t] = SigReturn /\ vsaved[t] # NULL
  /\ ran' = [ran EXCEPT ![t] = <<SigReturn, ~ran[t][2]>>]
  /\ vpc' = [vpc EXCEPT ![t] = vsaved[t]]
  /\ vsaved' = [vsaved EXCEPT ![t] = NULL]

Next == \E t \in Thread :
          Step(t) \/ Spawn(t) \/ Exit(t) \/ Interrupt(t) \/ Sigreturn(t)

Spec == Init /\ [][Next]_vars
=============================================================================

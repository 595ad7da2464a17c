-------------------------- MODULE TracerBreakpoint --------------------------
(***************************************************************************)
(* The breakpoints of the ptrace tracer (src/breakpoint.c and arch-x86/),  *)
(* over the bytes of a tracee's text.  The tracer touches the tracee only  *)
(* while it is stopped, so each function is one step, except that          *)
(* breakpoint_resume lets the tracee execute one instruction.              *)
(*                                                                         *)
(* ptrace reads and writes words of WORD bytes at any address; an          *)
(* instruction is named by the address of its first byte, which in         *)
(* untouched text is the byte that is there.                               *)
(***************************************************************************)
EXTENDS Integers, Sequences

CONSTANTS
  Bkpt,        \* struct breakpoint objects
  Object,      \* objects of the tracee: [text_start, text_end] records
  ObjOf,       \* ObjOf[b], Offset[b]: the arguments b is created with
  Offset,
  Byte,        \* addresses of the mapped text
  WORD,        \* bytes in a word that ptrace transfers (8 in the code)
  Succ, EntryPoint,  \* control flow of the tracee, see TracedProgram
  CC,          \* the byte 0xCC, int3
  FF,          \* the byte of a word that could not be read
  NULL, DEAD, tracee

Zero    == [i \in 1 .. WORD |-> 0]
Address == [b \in Bkpt |-> ObjOf[b].text_start + Offset[b]]

\* breakpoint_create asserts that the offset is not 0; the rest says that a
\* word fits into the text behind every breakpoint, that no two breakpoints
\* share an address and that the program has no int3 of its own.
ASSUME TracerAssumption ==
  /\ Object \subseteq [text_start : Nat, text_end : Nat]
  /\ \A b \in Bkpt : ObjOf[b] \in Object /\ Offset[b] \in Nat \ {0}
  /\ \A b \in Bkpt : Address[b] <= ObjOf[b].text_end =>
       Address[b] .. (Address[b] + WORD - 1) \subseteq Byte
  /\ \A b, d \in Bkpt : Address[b] = Address[d] => b = d
  /\ WORD \in Nat \ {0, 1} /\ Byte \subseteq Nat \ {0} /\ {CC, FF} \cap Byte = {}
  /\ Succ \in [Byte -> SUBSET Byte] /\ EntryPoint \in Byte
  /\ NULL \notin Bkpt /\ DEAD \notin Byte

VARIABLES
  text,     \* text[a]: the byte in memory at a
  chain,    \* breakpoints that are linked into their object
  attr,     \* attr[b]: BKPT_F_ENABLE of b
  ori,      \* ori[b]: ori_instrction of b
  asked,    \* breakpoints that were created with BKPT_F_ENABLE
  pc,       \* the tracee's program counter
  ran,      \* what it executed last, with a flipping bit
  state,    \* "run", "stop", or "trap" when an int3 has stopped it
  fault,    \* how the tracer ended, or "none"
  culprit   \* the breakpoint whose removal failed an assertion, or NULL

vars == <<text, chain, attr, ori, asked, pc, ran, state, fault, culprit>>

Init ==
  /\ text = [a \in Byte |-> a]
  /\ chain = {} /\ asked = {}
  /\ attr = [b \in Bkpt |-> FALSE]
  /\ ori = [b \in Bkpt |-> Zero]
  /\ pc = EntryPoint
  /\ ran = <<NULL, FALSE>>
  /\ state = "stop"
  /\ fault = "none" /\ culprit = NULL

-----------------------------------------------------------------------------
(***************************************************************************)
(* ptrace(PTRACE_PEEKTEXT) gives -1 and PTRACE_POKETEXT does nothing where *)
(* the tracee has nothing mapped.                                          *)
(***************************************************************************)
Word(a) == a .. (a + WORD - 1)

Peek(m, a) ==
  [i \in 1 .. WORD |-> IF Word(a) \subseteq Byte THEN m[a + i - 1] ELSE FF]

Poke(m, a, w) ==
  [x \in Byte |-> IF x \in Word(a) /\ Word(a) \subseteq Byte THEN w[x - a + 1] ELSE m[x]]

arch_make_breakpoint(w) == [w EXCEPT ![1] = CC]

\* Mutant of arch_remove_breakpoint: the whole word is put back.
arch_remove_breakpoint_Word(w, o) == o

arch_remove_breakpoint(w, o) == [w EXCEPT ![1] = o[1]]

\* Mutant of arch_get_breakpoint_pc: the pc is taken to stand on the int3.
arch_get_breakpoint_pc_Same(a) == a

arch_get_breakpoint_pc(a) == a - 1

(***************************************************************************)
(* breakpoint_enable and breakpoint_disable of a breakpoint at a, on a     *)
(* record of the text, its ori_instrction, its attribute and whether the   *)
(* assertion of arch_remove_breakpoint has held.                           *)
(***************************************************************************)
breakpoint_enable(s, a) ==
  IF s.attr THEN s
  ELSE [text |-> Poke(s.text, a, arch_make_breakpoint(Peek(s.text, a))),
        ori |-> Peek(s.text, a), attr |-> TRUE, ok |-> s.ok]

\* Mutant of breakpoint_disable: the attribute is not looked at.
breakpoint_disable_Always(s, a) ==
  [s EXCEPT !.text = Poke(s.text, a, arch_remove_breakpoint(Peek(s.text, a), s.ori)),
            !.attr = FALSE]

\* Mutant of breakpoint_disable: the attribute is not cleared.
breakpoint_disable_KeepsAttr(s, a) ==
  LET data == Peek(s.text, a) IN
  IF ~s.attr THEN s
  ELSE [s EXCEPT !.text = Poke(s.text, a, arch_remove_breakpoint(data, s.ori)),
                 !.ok   = data[1] = CC]

breakpoint_disable(s, a) ==
  LET data == Peek(s.text, a) IN
  IF ~s.attr THEN s
  ELSE [text |-> Poke(s.text, a, arch_remove_breakpoint(data, s.ori)),
        ori |-> s.ori, attr |-> FALSE, ok |-> data[1] = CC]

View(b) == [text |-> text, ori |-> ori[b], attr |-> attr[b], ok |-> TRUE]

\* What the functions leave behind; a failed assertion ends the tracer.
Assign(b, s) ==
  IF s.ok
  THEN /\ text' = s.text
       /\ ori' = [ori EXCEPT ![b] = s.ori]
       /\ attr' = [attr EXCEPT ![b] = s.attr]
       /\ UNCHANGED <<fault, culprit>>
  ELSE fault' = "abort" /\ culprit' = b /\ UNCHANGED <<text, ori, attr>>

-----------------------------------------------------------------------------
\* An offset behind the object is refused.  The breakpoint is enabled while
\* the address of the new object is still 0; then its address and its
\* attributes are set and it is linked.
breakpoint_create(b, enable) ==
  LET new == [text |-> text, ori |-> Zero, attr |-> FALSE, ok |-> TRUE]
      s   == IF enable THEN breakpoint_enable(new, 0) ELSE new IN
  /\ state = "stop" /\ b \notin chain
  /\ Address[b] <= ObjOf[b].text_end
  /\ Assign(b, [text |-> s.text, ori |-> s.ori, attr |-> enable, ok |-> s.ok])
  /\ chain' = chain \cup {b}
  /\ asked' = IF enable THEN asked \cup {b} ELSE asked
  /\ UNCHANGED <<pc, ran, state>>

breakpoint_delete(b) ==
  /\ state = "stop" /\ b \in chain
  /\ Assign(b, breakpoint_disable(View(b), Address[b]))
  /\ chain' = IF fault' = "none" THEN chain \ {b} ELSE chain
  /\ asked' = asked \cap chain'
  /\ UNCHANGED <<pc, ran, state>>

\* The breakpoint that the tracee's pc stands behind, in an object around it.
breakpoint_find ==
  LET bp_pc == arch_get_breakpoint_pc(pc)
      found == {b \in chain : /\ ObjOf[b].text_start <= bp_pc /\ bp_pc <= ObjOf[b].text_end
                              /\ Address[b] = bp_pc}
  IN  IF found = {} THEN NULL ELSE CHOOSE b \in found : TRUE

(***************************************************************************)
(* The tracee executes the instruction at a in the text m, if it executes  *)
(* at all: thread_single_step returns as soon as the tracee stops again,   *)
(* and that may be for a signal that arrives before the instruction.       *)
(***************************************************************************)
thread_single_step(m, a) ==
  \/ /\ ran' = <<m[a], ~ran[2]>>
     /\ \E n \in Succ[a] : pc' = n
  \/ /\ pc' = a
     /\ UNCHANGED ran

\* Mutant of arch_set_thread_pc: the pc stays behind the int3.
arch_set_thread_pc_Behind(b) == Address[b] + 1

\* The pc that breakpoint_resume gives the tracee.
arch_set_thread_pc(b) == Address[b]

\* Set the pc back to the breakpoint, take it out, step, put it in again.
breakpoint_resume(b) ==
  LET off == breakpoint_disable(View(b), Address[b]) IN
  /\ IF off.ok THEN thread_single_step(off.text, arch_set_thread_pc(b))
     ELSE pc' = arch_set_thread_pc(b) /\ UNCHANGED ran
  /\ Assign(b, breakpoint_enable(off, Address[b]))

\* The tracer steps over a breakpoint that the stopped tracee has come to.
StepOver(b) ==
  /\ state = "stop" /\ b \in chain /\ pc = Address[b]
  /\ breakpoint_resume(b)
  /\ UNCHANGED <<chain, asked, state>>

\* The tracer's answer to a SIGTRAP: find the breakpoint, or give up.
ReachBreakpoint ==
  /\ state = "trap"
  /\ IF breakpoint_find = NULL
     THEN fault' = "exit" /\ UNCHANGED <<text, attr, ori, pc, ran, state, culprit>>
     ELSE breakpoint_resume(breakpoint_find) /\ state' = "stop"
  /\ UNCHANGED <<chain, asked>>

-----------------------------------------------------------------------------
(***************************************************************************)
(* The tracee: PTRACE_CONT, execution, and stops for signals.              *)
(***************************************************************************)
Continue ==
  /\ state = "stop" /\ state' = "run"
  /\ UNCHANGED <<text, chain, attr, ori, asked, pc, ran, fault, culprit>>

Stop ==
  /\ state = "run" /\ state' = "stop"
  /\ UNCHANGED <<text, chain, attr, ori, asked, pc, ran, fault, culprit>>

Execute ==
  /\ state = "run"
  /\ IF text[pc] = CC
     THEN /\ pc' = pc + 1
          /\ state' = "trap"
          /\ UNCHANGED ran
     ELSE /\ ran' = <<text[pc], ~ran[2]>>
          /\ pc' \in Succ[pc]
          /\ UNCHANGED state
  /\ UNCHANGED <<text, chain, attr, ori, asked, fault, culprit>>

Next ==
  /\ fault = "none"
  /\ \/ \E b \in Bkpt, enable \in BOOLEAN : breakpoint_create(b, enable)
     \/ \E b \in Bkpt : breakpoint_delete(b) \/ StepOver(b)
     \/ ReachBreakpoint
     \/ Continue \/ Stop \/ Execute

Spec == Init /\ [][Next]_vars

-----------------------------------------------------------------------------
(***************************************************************************)
(* Properties                                                              *)
(***************************************************************************)

\* Every variable has its type.
TypeOK ==
  /\ text \in [Byte -> Byte \cup {CC}]
  /\ asked \in SUBSET chain /\ chain \in SUBSET Bkpt
  /\ attr \in [Bkpt -> BOOLEAN]
  /\ ori \in [Bkpt -> [1 .. WORD -> Byte \cup {0, CC, FF}]]
  /\ pc \in Byte
  /\ state \in {"run", "stop", "trap"}
  /\ fault \in {"none", "abort", "exit"}
  /\ culprit \in Bkpt \cup {NULL}

\* A byte of the text is the program's or the int3 of an enabled breakpoint,
\* and a breakpoint that the tracer has put in when it resumed the tracee on
\* it is in the text (breakpoint.c:17-46), even though words of neighbouring
\* breakpoints overlap and each keeps a copy of the other's bytes.  Nothing
\* is said here of one created with BKPT_F_ENABLE: see AssertionHolds.
TextMatchesAttr ==
  fault = "none" =>
    /\ \A a \in Byte : text[a] # a =>
         text[a] = CC /\ \E b \in chain : attr[b] /\ Address[b] = a
    /\ \A b \in chain \ asked : attr[b] => text[Address[b]] = CC

\* arch-x86/breakpoint.c:13, assert((instr & 0xFF) == 0xCC): a breakpoint
\* that is enabled and is taken out is in the text, where the tracee runs
\* into it (atrace.c:46, "set a breakpoint at the entry point").
\* The only one that the program creates is not (atrace.c:47): it is enabled
\* while its address is still 0 (breakpoint.c:66), and taking it out
\* (atrace.c:75, 79) fails the assertion.
AssertionHolds == fault # "abort"

\* That is the only way to fail it: the breakpoint it fails on was itself
\* created with BKPT_F_ENABLE.  No other one loses its int3, whatever
\* neighbours write in its word (breakpoint.c:33-46).
AbortsOnlyWhenAsked == fault = "abort" => culprit \in asked

\* Every int3 that stops the tracee belongs to a breakpoint that
\* breakpoint_find finds (breakpoint.c:110-136).
TrapIsFound == state = "trap" => breakpoint_find # NULL

\* Whatever is created, hit and deleted, and although a single step may be
\* cut short by a signal, the tracee executes the instructions of its own
\* text, each once (breakpoint_resume, breakpoint.c:88-108).
Program == INSTANCE TracedProgram WITH
             Thread <- {tracee}, main <- tracee, Addr <- Byte, Starts <- {},
             SigThread <- {}, SigEntry <- NULL, SigReturn <- NULL,
             vsaved <- [t \in {tracee} |-> NULL],
             vpc <- [t \in {tracee} |-> IF state = "trap" THEN pc - 1 ELSE pc],
             ran <- [t \in {tracee} |-> ran]

Transparent == Program!Spec
=============================================================================

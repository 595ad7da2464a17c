----------------------- MODULE TracerBreakpointProofs -----------------------
(***************************************************************************)
(* Proofs about TracerBreakpoint, for any text, objects, breakpoints and   *)
(* width of a word: the text is always the program with an int3 for every  *)
(* breakpoint that is in, and the tracee executes the untouched program.   *)
(***************************************************************************)
EXTENDS TracerBreakpoint, TLAPS

\* Breakpoints that are linked lie in their objects.
ChainFits == \A b \in chain : Address[b] <= ObjOf[b].text_end

\* A breakpoint that was created as enabled keeps the attribute.
AskedEnabled == \A b \in asked : attr[b]

\* The first byte that an enabled breakpoint remembers is the program's.
OriKept == \A b \in chain \ asked : attr[b] => ori[b][1] = Address[b]

\* The tracee stops for an int3 that stands where it has stopped, and the
\* tracer is alive to see it.
TrapAtInt3 ==
  /\ fault # "exit"
  /\ state = "trap" => fault = "none" /\ pc - 1 \in Byte /\ text[pc - 1] = CC

\* The whole text: one created as enabled counts as enabled and is not in it
\* (breakpoint.c:66).
TextIs ==
  fault = "none" =>
    \A a \in Byte :
      text[a] = IF \E b \in chain \ asked : attr[b] /\ Address[b] = a THEN CC ELSE a

IInv ==
  /\ TypeOK
  /\ ChainFits
  /\ AskedEnabled
  /\ OriKept
  /\ TextIs
  /\ TrapAtInt3
  /\ AbortsOnlyWhenAsked

-----------------------------------------------------------------------------
(***************************************************************************)
(* Words, and the functions that read and write them                       *)
(***************************************************************************)

\* A breakpoint of an object has an address, the address fits, and a word
\* can be read there (breakpoint.c:56, 62).
LEMMA AddressFits ==
  ASSUME NEW b \in Bkpt
  PROVE  /\ Address[b] \in Nat
         /\ ObjOf[b].text_start <= Address[b]
         /\ Address[b] <= ObjOf[b].text_end =>
              /\ Word(Address[b]) \subseteq Byte
              /\ Address[b] \in Byte /\ Address[b] + 1 \in Byte
<1>1. /\ ObjOf[b].text_start \in Nat /\ Offset[b] \in Nat
      /\ WORD \in Nat /\ WORD > 1
  BY TracerAssumption
<1>2. Address[b] = ObjOf[b].text_start + Offset[b]
  BY DEF Address
<1>3. Address[b] <= ObjOf[b].text_end => Word(Address[b]) \subseteq Byte
  BY TracerAssumption DEF Word
<1>4. Address[b] \in Word(Address[b]) /\ Address[b] + 1 \in Word(Address[b])
  BY <1>1, <1>2 DEF Word
<1> QED
  BY <1>1, <1>2, <1>3, <1>4

\* Reading a word, changing its first byte and writing it back changes one
\* byte of the text: the int3 goes in, or the first byte that is remembered
\* comes back (breakpoint.c:22-29, 40-45).
LEMMA PatchOneByte ==
  ASSUME NEW m, m = [x \in Byte |-> m[x]], NEW a \in Nat, Word(a) \subseteq Byte, NEW o
  PROVE  /\ Peek(m, a)[1] = m[a]
         /\ Poke(m, a, arch_make_breakpoint(Peek(m, a))) = [m EXCEPT ![a] = CC]
         /\ Poke(m, a, arch_remove_breakpoint(Peek(m, a), o)) = [m EXCEPT ![a] = o[1]]
<1>1. WORD \in Nat /\ WORD > 1 /\ Byte \subseteq Nat
  BY TracerAssumption
<1>2. Peek(m, a) = [i \in 1 .. WORD |-> m[a + i - 1]]
  BY DEF Peek
<1>3. 1 \in 1 .. WORD /\ a + 1 - 1 = a
  BY <1>1
<1>4. Peek(m, a)[1] = m[a]
  BY <1>2, <1>3
<1>5. ASSUME NEW v PROVE Poke(m, a, [Peek(m, a) EXCEPT ![1] = v]) = [m EXCEPT ![a] = v]
  <2> DEFINE w == [Peek(m, a) EXCEPT ![1] = v]
  <2>1. ASSUME NEW x \in Byte, x \in Word(a)
        PROVE  w[x - a + 1] = [m EXCEPT ![a] = v][x]
    <3>1. x - a + 1 \in 1 .. WORD /\ a + (x - a + 1) - 1 = x
      BY <1>1, <2>1 DEF Word
    <3>2. w[x - a + 1] = IF x - a + 1 = 1 THEN v ELSE m[a + (x - a + 1) - 1]
      BY <1>2, <3>1
    <3>3. x - a + 1 = 1 <=> x = a
      BY <1>1
    <3> QED
      BY <3>1, <3>2, <3>3
  <2>2. ASSUME NEW x \in Byte, x \notin Word(a)
        PROVE  m[x] = [m EXCEPT ![a] = v][x]
    BY <1>1, <2>2 DEF Word
  <2> HIDE DEF w
  <2>3. Poke(m, a, w) = [x \in Byte |-> IF x \in Word(a) THEN w[x - a + 1] ELSE m[x]]
    BY DEF Poke
  <2>4. Poke(m, a, w) = [m EXCEPT ![a] = v]
    BY <2>1, <2>2, <2>3
  <2> QED
    BY <2>4 DEF w
<1> QED
  BY <1>4, <1>5 DEF arch_make_breakpoint, arch_remove_breakpoint

\* At address 0, where a new object's address still points, nothing is mapped
\* and nothing is written (breakpoint.c:66).
LEMMA NothingAtZero ==
  ASSUME NEW m, m = [x \in Byte |-> m[x]], NEW w
  PROVE  Poke(m, 0, w) = m /\ Peek(m, 0) = [i \in 1 .. WORD |-> FF]
<1>1. WORD \in Nat /\ WORD > 1 /\ 0 \notin Byte
  BY TracerAssumption
<1>2. 0 \in Word(0)
  BY <1>1 DEF Word
<1> QED
  BY <1>1, <1>2 DEF Poke, Peek

\* In the text, a byte is the program's or an int3, and the byte at a linked
\* breakpoint is an int3 exactly when the breakpoint is in.
LEMMA TextAt ==
  ASSUME IInv, fault = "none"
  PROVE  /\ \A a \in Byte : text[a] \in {a, CC} /\ a # CC
         /\ \A b \in chain : /\ Address[b] \in Byte
                             /\ text[Address[b]] = CC <=> attr[b] /\ b \notin asked
<1>1. \A a \in Byte : a # CC
  BY TracerAssumption
<1>2. \A b, d \in Bkpt : Address[b] = Address[d] => b = d
  BY TracerAssumption
<1>3. \A b \in chain : b \in Bkpt /\ Address[b] \in Byte
  BY AddressFits DEF IInv, TypeOK, ChainFits
<1> QED
  BY <1>1, <1>2, <1>3 DEF IInv, TextIs

Off(b) == breakpoint_disable(View(b), Address[b])
On(b)  == breakpoint_enable(Off(b), Address[b])

\* breakpoint_disable of a linked breakpoint: the assertion fails if it was
\* created as enabled, otherwise the program's byte is back in the text.
LEMMA DisableLinked ==
  ASSUME IInv, fault = "none", NEW b \in chain
  PROVE  /\ b \in asked => Off(b).ok = FALSE
         /\ b \notin asked => Off(b) = [text |-> [text EXCEPT ![Address[b]] = Address[b]],
                                        ori |-> ori[b], attr |-> FALSE, ok |-> TRUE]
<1>1. /\ text = [x \in Byte |-> text[x]] /\ b \in Bkpt
      /\ attr[b] \in BOOLEAN /\ (b \in asked => attr[b])
      /\ b \notin asked /\ attr[b] => ori[b][1] = Address[b]
  BY DEF IInv, TypeOK, AskedEnabled, OriKept
<1>2. /\ Address[b] \in Nat /\ Word(Address[b]) \subseteq Byte
      /\ Address[b] \in Byte
  BY <1>1, AddressFits DEF IInv, ChainFits
<1>3. /\ Peek(text, Address[b])[1] = text[Address[b]]
      /\ Poke(text, Address[b], arch_remove_breakpoint(Peek(text, Address[b]), ori[b]))
           = [text EXCEPT ![Address[b]] = ori[b][1]]
  <2> DEFINE a == Address[b]
             o == ori[b]
  <2>1. text = [x \in Byte |-> text[x]] /\ a \in Nat /\ Word(a) \subseteq Byte
    BY <1>1, <1>2
  <2> HIDE DEF a, o
  <2>2. /\ Peek(text, a)[1] = text[a]
        /\ Poke(text, a, arch_remove_breakpoint(Peek(text, a), o)) = [text EXCEPT ![a] = o[1]]
    BY <2>1, PatchOneByte, Z3
  <2> QED
    BY <2>2 DEF a, o
<1>4. /\ text[Address[b]] = CC <=> attr[b] /\ b \notin asked
      /\ text[Address[b]] \in {Address[b], CC}
  BY <1>2, TextAt
<1>5. View(b) = [text |-> text, ori |-> ori[b], attr |-> attr[b], ok |-> TRUE]
  BY DEF View
<1>6. CASE ~attr[b]
  <2>1. Off(b) = View(b) /\ b \notin asked
    BY <1>1, <1>5, <1>6 DEF Off, breakpoint_disable
  <2>2. text = [text EXCEPT ![Address[b]] = Address[b]]
    BY <1>1, <1>2, <1>4, <1>6
  <2> QED
    BY <1>1, <1>5, <1>6, <2>1, <2>2
<1>7. CASE attr[b]
  <2> DEFINE data == Peek(text, Address[b])
             isBrk == data[1] = CC
  <2>1. Off(b) = [text |-> Poke(text, Address[b], arch_remove_breakpoint(data, ori[b])),
                  ori |-> ori[b], attr |-> FALSE, ok |-> isBrk]
    BY <1>5, <1>7 DEF Off, breakpoint_disable
  <2>2. CASE b \in asked
    <3>1. isBrk = FALSE
      BY <1>3, <1>4, <2>2
    <3> HIDE DEF isBrk
    <3>2. Off(b).ok = isBrk
      BY <2>1
    <3> QED
      BY <2>2, <3>1, <3>2
  <2>3. CASE b \notin asked
    <3>1. isBrk = TRUE
      BY <1>3, <1>4, <1>7, <2>3
    <3> HIDE DEF isBrk, data
    <3>2. Off(b) = [text |-> Poke(text, Address[b], arch_remove_breakpoint(data, ori[b])),
                    ori |-> ori[b], attr |-> FALSE, ok |-> TRUE]
      BY <2>1, <3>1
    <3>3. Poke(text, Address[b], arch_remove_breakpoint(data, ori[b]))
            = [text EXCEPT ![Address[b]] = Address[b]]
      BY <1>1, <1>3, <1>7, <2>3 DEF data
    <3> QED
      BY <2>3, <3>2, <3>3
  <2> QED
    BY <2>2, <2>3
<1> QED
  BY <1>1, <1>6, <1>7

\* breakpoint_enable after it: the int3 is back and the program's byte is
\* remembered; a failed assertion stays failed.
LEMMA EnableAgain ==
  ASSUME IInv, fault = "none", NEW b \in chain
  PROVE  /\ b \in asked => On(b).ok = FALSE
         /\ b \notin asked =>
              /\ On(b).ok = TRUE /\ On(b).attr = TRUE
              /\ On(b).text = [text EXCEPT ![Address[b]] = CC]
              /\ On(b).ori \in [1 .. WORD -> Byte \cup {0, CC, FF}]
              /\ On(b).ori[1] = Address[b]
<1>1. b \in Bkpt /\ text \in [Byte -> Byte \cup {CC}]
  BY DEF IInv, TypeOK
<1>2. /\ Address[b] \in Nat /\ Word(Address[b]) \subseteq Byte
      /\ Address[b] \in Byte
  BY <1>1, AddressFits DEF IInv, ChainFits
<1>3. CASE b \in asked
  <2> DEFINE isBrk == Peek(text, Address[b])[1] = CC
             t1 == Poke(text, Address[b],
                        arch_remove_breakpoint(Peek(text, Address[b]), ori[b]))
  <2>1. attr[b]
    BY <1>3 DEF IInv, AskedEnabled
  <2>2. Off(b) = [text |-> t1, ori |-> ori[b], attr |-> FALSE, ok |-> isBrk]
    BY <2>1 DEF Off, breakpoint_disable, View
  <2>3. Off(b).ok = FALSE
    BY <1>3, DisableLinked
  <2> HIDE DEF isBrk, t1
  <2>4. On(b) = [text |-> Poke(t1, Address[b], arch_make_breakpoint(Peek(t1, Address[b]))),
                 ori |-> Peek(t1, Address[b]), attr |-> TRUE, ok |-> isBrk]
    BY <2>2 DEF On, breakpoint_enable
  <2> QED
    BY <1>3, <2>2, <2>3, <2>4
<1>4. CASE b \notin asked
  <2> DEFINE m == [text EXCEPT ![Address[b]] = Address[b]]
  <2>1. Off(b) = [text |-> m, ori |-> ori[b], attr |-> FALSE, ok |-> TRUE]
    BY <1>4, DisableLinked
  <2>2. m \in [Byte -> Byte \cup {CC}] /\ m = [x \in Byte |-> m[x]] /\ m[Address[b]] = Address[b]
    BY <1>1, <1>2
  <2>3. [m EXCEPT ![Address[b]] = CC] = [text EXCEPT ![Address[b]] = CC]
    BY <1>1, <1>2
  <2> HIDE DEF m
  <2>4. /\ Peek(m, Address[b])[1] = Address[b]
        /\ Poke(m, Address[b], arch_make_breakpoint(Peek(m, Address[b])))
             = [text EXCEPT ![Address[b]] = CC]
    BY <1>2, <2>2, <2>3, PatchOneByte
  <2>5. Peek(m, Address[b]) \in [1 .. WORD -> Byte \cup {0, CC, FF}]
    <3>1. WORD \in Nat /\ Byte \subseteq Nat
      BY TracerAssumption
    <3>2. \A i \in 1 .. WORD : Address[b] + i - 1 \in Word(Address[b])
      BY <1>2, <3>1 DEF Word
    <3> QED
      BY <1>2, <2>2, <3>2 DEF Peek
  <2>6. On(b) = [text |-> Poke(m, Address[b], arch_make_breakpoint(Peek(m, Address[b]))),
                 ori |-> Peek(m, Address[b]), attr |-> TRUE, ok |-> TRUE]
    BY <2>1 DEF On, breakpoint_enable
  <2> QED
    BY <1>4, <2>4, <2>5, <2>6
<1> QED
  BY <1>3, <1>4

\* breakpoint_resume (breakpoint.c:88-108): it fails for a breakpoint that was
\* created as enabled; otherwise the int3 is in the text afterwards, and the
\* tracee has executed the program's own instruction there, or nothing.
Stepped(b) ==
  \/ ran' = <<Address[b], ~ran[2]>> /\ pc' \in Succ[Address[b]]
  \/ pc' = Address[b] /\ UNCHANGED ran

Resumed(b) ==
  /\ text' = [text EXCEPT ![Address[b]] = CC]
  /\ attr' = [attr EXCEPT ![b] = TRUE]
  /\ \E o \in [1 .. WORD -> Byte \cup {0, CC, FF}] :
       ori' = [ori EXCEPT ![b] = o] /\ o[1] = Address[b]
  /\ Stepped(b)
  /\ UNCHANGED <<fault, culprit>>

ResumeFails(b) ==
  /\ fault' = "abort" /\ culprit' = b /\ pc' = Address[b]
  /\ UNCHANGED <<text, ori, attr, ran>>

\* One of the two happens, depending on how the breakpoint was created.
LEMMA ResumeEffect ==
  ASSUME IInv, fault = "none", NEW b \in chain, breakpoint_resume(b)
  PROVE  IF b \in asked THEN ResumeFails(b) ELSE Resumed(b)
<1>1. /\ IF Off(b).ok THEN thread_single_step(Off(b).text, arch_set_thread_pc(b))
         ELSE pc' = arch_set_thread_pc(b) /\ UNCHANGED ran
      /\ Assign(b, On(b))
  BY DEF breakpoint_resume, Off, On
<1>2. CASE b \in asked
  <2>1. Off(b).ok = FALSE /\ On(b).ok = FALSE
    BY <1>2, DisableLinked, EnableAgain
  <2> QED
    BY <1>1, <1>2, <2>1 DEF Assign, arch_set_thread_pc, ResumeFails
<1>3. CASE b \notin asked
  <2>1. /\ On(b).ok = TRUE /\ On(b).attr = TRUE
        /\ On(b).text = [text EXCEPT ![Address[b]] = CC]
        /\ On(b).ori \in [1 .. WORD -> Byte \cup {0, CC, FF}]
        /\ On(b).ori[1] = Address[b]
    BY <1>3, EnableAgain
  <2>2. Off(b) = [text |-> [text EXCEPT ![Address[b]] = Address[b]],
                  ori |-> ori[b], attr |-> FALSE, ok |-> TRUE]
    BY <1>3, DisableLinked
  <2>3. Off(b).ok = TRUE /\ Off(b).text = [text EXCEPT ![Address[b]] = Address[b]]
    BY <2>2
  <2>4. Off(b).text[Address[b]] = Address[b]
    BY <2>3, TextAt DEF IInv, TypeOK
  <2>5. Stepped(b)
    BY <1>1, <2>3, <2>4 DEF thread_single_step, arch_set_thread_pc, Stepped
  <2>6. /\ text' = On(b).text
        /\ ori' = [ori EXCEPT ![b] = On(b).ori]
        /\ attr' = [attr EXCEPT ![b] = On(b).attr]
        /\ UNCHANGED <<fault, culprit>>
    BY <1>1, <2>1 DEF Assign
  <2> QED
    BY <1>3, <2>1, <2>5, <2>6 DEF Resumed
<1> QED
  BY <1>2, <1>3

\* The breakpoint behind whose int3 the tracee has stopped is found, and it
\* is not one that was created as enabled (breakpoint.c:110-136).
LEMMA TrapFound ==
  ASSUME IInv, state = "trap"
  PROVE  /\ breakpoint_find \in chain \ asked
         /\ breakpoint_find # NULL
         /\ Address[breakpoint_find] = pc - 1
<1>1. fault = "none" /\ pc - 1 \in Byte /\ text[pc - 1] = CC
  BY DEF IInv, TrapAtInt3
<1>2. PICK b \in chain \ asked : attr[b] /\ Address[b] = pc - 1
  BY <1>1, TracerAssumption DEF IInv, TextIs
<1>3. b \in Bkpt /\ chain \subseteq Bkpt
  BY DEF IInv, TypeOK
<1> DEFINE found == {d \in chain : /\ ObjOf[d].text_start <= pc - 1 /\ pc - 1 <= ObjOf[d].text_end
                                   /\ Address[d] = pc - 1}
<1>4. b \in found
  BY <1>2, <1>3, AddressFits DEF IInv, ChainFits
<1>5. found = {b}
  BY <1>2, <1>3, <1>4, TracerAssumption
<1>6. breakpoint_find = b
  BY <1>4, <1>5 DEF breakpoint_find, arch_get_breakpoint_pc
<1> QED
  BY <1>2, <1>3, <1>6, TracerAssumption

-----------------------------------------------------------------------------
(***************************************************************************)
(* The inductive invariant                                                 *)
(***************************************************************************)

\* The untouched text satisfies it.
LEMMA InitIInv == Init => IInv
<1> SUFFICES ASSUME Init PROVE IInv
  OBVIOUS
<1>1. EntryPoint \in Byte /\ WORD \in Nat
  BY TracerAssumption
<1>2. TypeOK
  BY <1>1 DEF Init, TypeOK, Zero
<1> QED
  BY <1>1, <1>2 DEF Init, IInv, ChainFits, AskedEnabled, OriKept, TextIs, TrapAtInt3,
                       AbortsOnlyWhenAsked

\* A breakpoint that has been resumed is in the text; nothing else changes.
LEMMA ResumeIInv ==
  ASSUME IInv, fault = "none", NEW b \in chain, breakpoint_resume(b),
         UNCHANGED <<chain, asked>>, state' = "stop"
  PROVE  IInv'
<1>1. /\ b \in Bkpt /\ chain \subseteq Bkpt /\ Address[b] \in Byte
      /\ Succ[Address[b]] \subseteq Byte
  BY TextAt, TracerAssumption DEF IInv, TypeOK
<1>2. CASE b \in asked
  <2>1. ResumeFails(b)
    BY <1>2, ResumeEffect
  <2>2. TypeOK'
    BY <1>1, <2>1 DEF ResumeFails, IInv, TypeOK
  <2> QED
    BY <1>1, <1>2, <2>1, <2>2
       DEF ResumeFails, IInv, ChainFits, AskedEnabled, OriKept, TextIs, TrapAtInt3,
           AbortsOnlyWhenAsked
<1>3. CASE b \notin asked
  <2>1. Resumed(b)
    BY <1>3, ResumeEffect
  <2>2. PICK o \in [1 .. WORD -> Byte \cup {0, CC, FF}] :
          ori' = [ori EXCEPT ![b] = o] /\ o[1] = Address[b]
    BY <2>1 DEF Resumed
  <2>3. pc' \in Byte
    BY <1>1, <2>1 DEF Resumed, Stepped
  <2>4. TypeOK'
    BY <1>1, <2>1, <2>2, <2>3 DEF Resumed, IInv, TypeOK
  <2>5. ChainFits' /\ TrapAtInt3' /\ AbortsOnlyWhenAsked'
    BY <2>1 DEF Resumed, IInv, ChainFits, TrapAtInt3, AbortsOnlyWhenAsked
  <2>6. AskedEnabled'
    BY <1>1, <1>3, <2>1 DEF Resumed, IInv, TypeOK, AskedEnabled
  <2>7. OriKept'
    <3> SUFFICES ASSUME NEW d \in chain \ asked, attr'[d] PROVE ori'[d][1] = Address[d]
      BY DEF OriKept
    <3>1. CASE d = b
      BY <1>1, <2>2, <3>1 DEF IInv, TypeOK
    <3>2. CASE d # b
      BY <1>1, <2>1, <2>2, <3>2 DEF Resumed, IInv, TypeOK, OriKept
    <3> QED
      BY <3>1, <3>2
  <2>8. TextIs'
    <3> SUFFICES ASSUME NEW a \in Byte
                 PROVE  text'[a] = IF \E d \in chain \ asked : attr'[d] /\ Address[d] = a
                                   THEN CC ELSE a
      BY DEF TextIs
    <3>1. text[a] = IF \E d \in chain \ asked : attr[d] /\ Address[d] = a THEN CC ELSE a
      BY DEF IInv, TextIs
    <3>2. attr' = [attr EXCEPT ![b] = TRUE] /\ text' = [text EXCEPT ![Address[b]] = CC]
      BY <2>1 DEF Resumed
    <3>3. CASE a = Address[b]
      BY <1>1, <1>3, <3>2, <3>3 DEF IInv, TypeOK
    <3>4. CASE a # Address[b]
      <4>1. text'[a] = text[a]
        BY <1>1, <3>2, <3>4 DEF IInv, TypeOK
      <4>2. \A d \in chain : Address[d] = a => attr'[d] = attr[d]
        BY <1>1, <3>2, <3>4 DEF IInv, TypeOK
      <4> QED
        BY <3>1, <4>1, <4>2
    <3> QED
      BY <3>3, <3>4
  <2> QED
    BY <2>4, <2>5, <2>6, <2>7, <2>8 DEF IInv
<1> QED
  BY <1>2, <1>3

\* breakpoint_create (breakpoint.c:48-86): the text stays as it is, and the
\* breakpoint is linked with the attribute it was asked for.
LEMMA CreateEffect ==
  ASSUME TypeOK, NEW b \in Bkpt, NEW enable \in BOOLEAN, breakpoint_create(b, enable)
  PROVE  /\ attr' = [attr EXCEPT ![b] = enable]
         /\ \E o \in [1 .. WORD -> Byte \cup {0, CC, FF}] : ori' = [ori EXCEPT ![b] = o]
         /\ UNCHANGED <<text, fault, culprit>>
<1> DEFINE new == [text |-> text, ori |-> Zero, attr |-> FALSE, ok |-> TRUE]
           FFs == [i \in 1 .. WORD |-> FF]
           s   == IF enable THEN breakpoint_enable(new, 0) ELSE new
<1>1. text = [x \in Byte |-> text[x]]
  BY DEF TypeOK
<1>2. \A w : Poke(text, 0, w) = text /\ Peek(text, 0) = FFs
  BY <1>1, NothingAtZero
<1>3. breakpoint_enable(new, 0) = [text |-> text, ori |-> FFs, attr |-> TRUE, ok |-> TRUE]
  BY <1>2 DEF breakpoint_enable
<1>4. PICK o : o \in {Zero, FFs} /\ s = [text |-> text, ori |-> o, attr |-> enable, ok |-> TRUE]
  BY <1>3
<1>5. Assign(b, [text |-> s.text, ori |-> s.ori, attr |-> enable, ok |-> s.ok])
  BY DEF breakpoint_create
<1> HIDE DEF s
<1>6. s.text = text /\ s.ori = o /\ s.ok = TRUE
  BY <1>4
<1>7. text' = text /\ ori' = [ori EXCEPT ![b] = o] /\ attr' = [attr EXCEPT ![b] = enable]
      /\ UNCHANGED <<fault, culprit>>
  BY <1>5, <1>6 DEF Assign
<1>8. o \in [1 .. WORD -> Byte \cup {0, CC, FF}]
  BY <1>4 DEF Zero
<1> QED
  BY <1>7, <1>8

\* Creating a breakpoint preserves the invariant.
LEMMA CreateIInv ==
  ASSUME IInv, fault = "none", NEW b \in Bkpt, NEW enable \in BOOLEAN,
         breakpoint_create(b, enable)
  PROVE  IInv'
<1>0. TypeOK /\ chain \subseteq Bkpt /\ asked \subseteq chain
  BY DEF IInv, TypeOK
<1>1. /\ attr' = [attr EXCEPT ![b] = enable]
      /\ UNCHANGED <<text, fault, culprit>>
  BY <1>0, CreateEffect
<1>2. PICK o \in [1 .. WORD -> Byte \cup {0, CC, FF}] : ori' = [ori EXCEPT ![b] = o]
  BY <1>0, CreateEffect
<1>3. /\ b \notin chain /\ chain' = chain \cup {b} /\ Address[b] <= ObjOf[b].text_end
      /\ asked' = IF enable THEN asked \cup {b} ELSE asked
      /\ UNCHANGED <<pc, ran, state>> /\ state = "stop"
  BY DEF breakpoint_create
<1>4. TypeOK'
  BY <1>0, <1>1, <1>2, <1>3 DEF TypeOK
<1>5. ChainFits' /\ TrapAtInt3' /\ AbortsOnlyWhenAsked'
  BY <1>1, <1>3 DEF IInv, ChainFits, TrapAtInt3, AbortsOnlyWhenAsked
<1>6. \A d \in chain : attr'[d] = attr[d] /\ ori'[d] = ori[d]
  BY <1>0, <1>1, <1>2, <1>3 DEF TypeOK
<1>7. attr'[b] = enable
  BY <1>0, <1>1 DEF TypeOK
<1>8. AskedEnabled'
  BY <1>0, <1>3, <1>6, <1>7 DEF IInv, AskedEnabled
<1>9. \A d \in chain' \ asked' : attr'[d] => d \in chain \ asked
  BY <1>0, <1>3, <1>6, <1>7
<1>10. OriKept'
  BY <1>6, <1>9 DEF IInv, OriKept
<1>11. TextIs'
  <2>1. \A d \in chain \ asked : d \in chain' \ asked'
    BY <1>3
  <2> QED
    BY <1>1, <1>6, <1>9, <2>1 DEF IInv, TextIs
<1> QED
  BY <1>4, <1>5, <1>8, <1>10, <1>11 DEF IInv

\* breakpoint_delete (breakpoint.c:78-86): it fails for a breakpoint that was
\* created as enabled, otherwise the program's byte is back in the text.
LEMMA DeleteEffect ==
  ASSUME IInv, fault = "none", NEW b \in Bkpt, breakpoint_delete(b)
  PROVE  IF b \in asked
         THEN /\ fault' = "abort" /\ culprit' = b
              /\ UNCHANGED <<text, ori, attr, chain, asked>>
         ELSE /\ text' = [text EXCEPT ![Address[b]] = Address[b]]
              /\ attr' = [attr EXCEPT ![b] = FALSE]
              /\ ori' = [ori EXCEPT ![b] = ori[b]]
              /\ chain' = chain \ {b}
              /\ UNCHANGED <<fault, culprit, asked>>
<1>1. b \in chain /\ Assign(b, Off(b)) /\ asked \subseteq chain
  BY DEF breakpoint_delete, Off, IInv, TypeOK
<1>2. chain' = (IF fault' = "none" THEN chain \ {b} ELSE chain) /\ asked' = asked \cap chain'
  BY DEF breakpoint_delete
<1>3. CASE b \in asked
  <2>1. Off(b).ok = FALSE
    BY <1>1, <1>3, DisableLinked
  <2> QED
    BY <1>1, <1>2, <1>3, <2>1 DEF Assign
<1>4. CASE b \notin asked
  <2>1. Off(b) = [text |-> [text EXCEPT ![Address[b]] = Address[b]],
                  ori |-> ori[b], attr |-> FALSE, ok |-> TRUE]
    BY <1>1, <1>4, DisableLinked
  <2>2. /\ text' = [text EXCEPT ![Address[b]] = Address[b]]
        /\ ori' = [ori EXCEPT ![b] = ori[b]]
        /\ attr' = [attr EXCEPT ![b] = FALSE]
        /\ UNCHANGED <<fault, culprit>>
    BY <1>1, <2>1 DEF Assign
  <2> QED
    BY <1>1, <1>2, <1>4, <2>2
<1> QED
  BY <1>3, <1>4

\* Deleting a breakpoint preserves the invariant.
LEMMA DeleteIInv ==
  ASSUME IInv, fault = "none", NEW b \in Bkpt, breakpoint_delete(b)
  PROVE  IInv'
<1>0. TypeOK /\ chain \subseteq Bkpt /\ asked \subseteq chain
  BY DEF IInv, TypeOK
<1>1. b \in chain /\ state = "stop" /\ UNCHANGED <<pc, ran, state>> /\ Address[b] \in Byte
  BY TextAt DEF breakpoint_delete
<1>2. CASE b \in asked
  <2>1. fault' = "abort" /\ culprit' = b /\ UNCHANGED <<text, ori, attr, chain, asked>>
    BY <1>2, DeleteEffect
  <2>2. TypeOK'
    BY <1>0, <1>1, <2>1 DEF TypeOK
  <2> QED
    BY <1>1, <1>2, <2>1, <2>2
       DEF IInv, ChainFits, AskedEnabled, OriKept, TextIs, TrapAtInt3, AbortsOnlyWhenAsked
<1>3. CASE b \notin asked
  <2>1. /\ text' = [text EXCEPT ![Address[b]] = Address[b]]
        /\ attr' = [attr EXCEPT ![b] = FALSE]
        /\ ori' = [ori EXCEPT ![b] = ori[b]]
        /\ chain' = chain \ {b}
        /\ UNCHANGED <<fault, culprit, asked>>
    BY <1>3, DeleteEffect
  <2>2. TypeOK'
    BY <1>0, <1>1, <1>3, <2>1 DEF TypeOK
  <2>3. ChainFits' /\ TrapAtInt3' /\ AbortsOnlyWhenAsked'
    BY <1>1, <2>1 DEF IInv, ChainFits, TrapAtInt3, AbortsOnlyWhenAsked
  <2>4. \A d \in Bkpt \ {b} : attr'[d] = attr[d] /\ ori'[d] = ori[d]
    BY <1>0, <2>1 DEF TypeOK
  <2>5. AskedEnabled' /\ OriKept'
    BY <1>0, <1>3, <2>1, <2>4 DEF IInv, AskedEnabled, OriKept
  <2>6. TextIs'
    <3> SUFFICES ASSUME NEW a \in Byte
                 PROVE  text'[a] = IF \E d \in chain' \ asked' : attr'[d] /\ Address[d] = a
                                   THEN CC ELSE a
      BY DEF TextIs
    <3>1. text[a] = IF \E d \in chain \ asked : attr[d] /\ Address[d] = a THEN CC ELSE a
      BY DEF IInv, TextIs
    <3>2. CASE a = Address[b]
      <4>1. \A d \in chain' : Address[d] # a
        BY <1>0, <2>1, <3>2, TracerAssumption
      <4> QED
        BY <1>0, <1>1, <2>1, <3>2, <4>1 DEF TypeOK
    <3>3. CASE a # Address[b]
      <4>1. text'[a] = text[a]
        BY <1>0, <1>1, <2>1, <3>3 DEF TypeOK
      <4> QED
        BY <1>0, <2>1, <2>4, <3>1, <3>3, <4>1
    <3> QED
      BY <3>2, <3>3
  <2> QED
    BY <2>2, <2>3, <2>5, <2>6 DEF IInv
<1> QED
  BY <1>2, <1>3

\* So does a step of the tracee: when it meets an int3 it stops behind it.
LEMMA ExecuteIInv ==
  ASSUME IInv, fault = "none", Execute
  PROVE  IInv'
<1>0. TypeOK /\ pc \in Byte /\ Byte \subseteq Nat
  BY TracerAssumption DEF IInv, TypeOK
<1>1. UNCHANGED <<text, chain, attr, ori, asked, fault, culprit>>
  BY DEF Execute
<1>2. CASE text[pc] = CC
  <2>1. pc' = pc + 1 /\ state' = "trap" /\ UNCHANGED ran
    BY <1>2 DEF Execute
  <2>2. PICK b \in chain : Address[b] = pc
    BY <1>0, <1>2, TracerAssumption DEF IInv, TextIs
  <2>3. pc + 1 \in Byte
    BY <2>2, AddressFits DEF IInv, TypeOK, ChainFits
  <2>4. TypeOK'
    BY <1>0, <1>1, <2>1, <2>3 DEF TypeOK
  <2>5. pc + 1 - 1 = pc
    BY <1>0
  <2>6. TrapAtInt3'
    BY <1>0, <1>1, <1>2, <2>1, <2>5 DEF IInv, TrapAtInt3
  <2> QED
    BY <1>1, <2>4, <2>6 DEF IInv, ChainFits, AskedEnabled, OriKept, TextIs,
                            AbortsOnlyWhenAsked
<1>3. CASE text[pc] # CC
  <2>1. pc' \in Succ[pc] /\ UNCHANGED state /\ state = "run"
    BY <1>3 DEF Execute
  <2>2. pc' \in Byte
    BY <1>0, <2>1, TracerAssumption
  <2>3. TypeOK'
    BY <1>0, <1>1, <2>1, <2>2 DEF TypeOK
  <2> QED
    BY <1>1, <2>1, <2>3
       DEF IInv, ChainFits, AskedEnabled, OriKept, TextIs, TrapAtInt3, AbortsOnlyWhenAsked
<1> QED
  BY <1>2, <1>3

\* IInv holds in every state of the tracer and its tracee (src/breakpoint.c).
THEOREM Invariance == Spec => []IInv
<1>1. IInv /\ [Next]_vars => IInv'
  <2> SUFFICES ASSUME IInv, [Next]_vars PROVE IInv'
    OBVIOUS
  <2>1. CASE Next
    <3>1. fault = "none"
      BY <2>1 DEF Next
    <3>2. ASSUME NEW b \in Bkpt, NEW enable \in BOOLEAN, breakpoint_create(b, enable)
          PROVE  IInv'
      BY <3>1, <3>2, CreateIInv
    <3>3. ASSUME NEW b \in Bkpt, breakpoint_delete(b) PROVE IInv'
      BY <3>1, <3>3, DeleteIInv
    <3>4. ASSUME NEW b \in Bkpt, StepOver(b) PROVE IInv'
      BY <3>1, <3>4, ResumeIInv DEF StepOver
    <3>5. CASE ReachBreakpoint
      <4>1. state = "trap" /\ breakpoint_find \in chain /\ breakpoint_find # NULL
        BY <3>5, TrapFound DEF ReachBreakpoint
      <4>2. breakpoint_resume(breakpoint_find) /\ state' = "stop" /\ UNCHANGED <<chain, asked>>
        BY <3>5, <4>1 DEF ReachBreakpoint
      <4> QED
        BY <3>1, <4>1, <4>2, ResumeIInv
    <3>6. CASE Continue \/ Stop
      <4>1. TypeOK'
        BY <3>6 DEF Continue, Stop, IInv, TypeOK
      <4> QED
        BY <3>6, <4>1 DEF Continue, Stop, IInv, ChainFits, AskedEnabled, OriKept,
                          TextIs, TrapAtInt3, AbortsOnlyWhenAsked
    <3>7. CASE Execute
      BY <3>1, <3>7, ExecuteIInv
    <3> QED
      BY <2>1, <3>2, <3>3, <3>4, <3>5, <3>6, <3>7 DEF Next
  <2>2. CASE UNCHANGED vars
    BY <2>2 DEF vars, IInv, TypeOK, ChainFits, AskedEnabled, OriKept, TextIs, TrapAtInt3,
                AbortsOnlyWhenAsked
  <2> QED
    BY <2>1, <2>2
<1> QED
  BY <1>1, InitIInv, PTL DEF Spec

-----------------------------------------------------------------------------
(***************************************************************************)
(* What follows from it                                                    *)
(***************************************************************************)

\* The variables of the tracer keep their types; in particular the tracee
\* never leaves its text.
THEOREM TypeCorrect == Spec => []TypeOK
<1>1. IInv => TypeOK
  BY DEF IInv
<1> QED
  BY <1>1, Invariance, PTL

\* While the tracer lives, a byte of the text is the program's or the int3 of
\* an enabled breakpoint, and the ones the tracer has put in when it resumed
\* the tracee are there, although the words of neighbours overlap
\* (breakpoint.c:17-46).
THEOREM TextIsPatchedProgram == Spec => []TextMatchesAttr
<1>1. IInv => TextMatchesAttr
  <2> SUFFICES ASSUME IInv, fault = "none" PROVE TextMatchesAttr
    BY DEF TextMatchesAttr
  <2>1. \A a \in Byte : text[a] # a =>
          text[a] = CC /\ \E b \in chain : attr[b] /\ Address[b] = a
    BY DEF IInv, TextIs
  <2>2. \A b \in chain \ asked : attr[b] => text[Address[b]] = CC
    BY TextAt
  <2> QED
    BY <2>1, <2>2 DEF TextMatchesAttr
<1> QED
  BY <1>1, Invariance, PTL

\* Every int3 the tracee stops for is found (breakpoint.c:110-136), so the
\* tracer never gives up on one.
THEOREM EveryTrapIsFound == Spec => []TrapIsFound
<1>1. IInv => TrapIsFound
  BY TrapFound DEF TrapIsFound
<1> QED
  BY <1>1, Invariance, PTL

\* The breakpoint on which the assertion of arch_remove_breakpoint fails was
\* itself created as enabled (breakpoint.c:66, arch-x86/breakpoint.c:13).
THEOREM OnlyAskedAbort == Spec => []AbortsOnlyWhenAsked
<1>1. IInv => AbortsOnlyWhenAsked
  BY DEF IInv
<1> QED
  BY <1>1, Invariance, PTL

-----------------------------------------------------------------------------
(***************************************************************************)
(* The tracee executes the untouched program                               *)
(***************************************************************************)

\* Where the tracee is in the untouched program: an int3 that it has stopped
\* behind is not one of its instructions.
Virtual == IF state = "trap" THEN pc - 1 ELSE pc

VPC == [t \in {tracee} |-> Virtual]
RAN == [t \in {tracee} |-> ran]

\* A step that moves neither the virtual pc nor what was executed is no step
\* of the program.
LEMMA ProgramStutters ==
  ASSUME Virtual' = Virtual, UNCHANGED ran
  PROVE  UNCHANGED Program!vars
<1>1. VPC' = VPC /\ RAN' = RAN
  BY DEF VPC, RAN
<1> QED
  BY <1>1 DEF Program!vars, VPC, RAN, Virtual

\* Executing the instruction at the virtual pc and going where control goes
\* from there is a step of the program.
LEMMA ProgramSteps ==
  ASSUME Virtual \in Byte, ran' = <<Virtual, ~ran[2]>>, Virtual' \in Succ[Virtual]
  PROVE  Program!Next
<1>1. VPC[tracee] = Virtual /\ RAN[tracee] = ran
  BY DEF VPC, RAN
<1>2. VPC' = [VPC EXCEPT ![tracee] = Virtual']
  BY DEF VPC
<1>3. RAN' = [RAN EXCEPT ![tracee] = <<VPC[tracee], ~RAN[tracee][2]>>]
  BY <1>1 DEF RAN
<1>4. VPC[tracee] # DEAD
  BY <1>1, TracerAssumption
<1>5. \E n \in Succ[VPC[tracee]] : VPC' = [VPC EXCEPT ![tracee] = n]
  BY <1>1, <1>2
<1>6. Program!Step(tracee)
  BY <1>3, <1>4, <1>5 DEF Program!Step, VPC, RAN, Virtual
<1> QED
  BY <1>6 DEF Program!Next

\* The tracee executes the instructions of its own text, each once and in
\* control-flow order, whatever the tracer creates, hits and deletes, and
\* although a single step may be cut short (breakpoint.c:88-108).
THEOREM TraceeUndisturbed == Spec => Transparent
<1>1. Init => Program!Init
  BY DEF Init, Program!Init
<1>2. IInv /\ [Next]_vars => [Program!Next]_Program!vars
  <2> SUFFICES ASSUME IInv, [Next]_vars PROVE Program!Next \/ UNCHANGED Program!vars
    OBVIOUS
  <2>1. CASE UNCHANGED vars
    BY <2>1, ProgramStutters DEF vars, Virtual
  <2>2. ASSUME NEW b \in chain, breakpoint_resume(b), fault = "none", Virtual = Address[b],
               state' = "stop"
        PROVE  Program!Next \/ UNCHANGED Program!vars
    <3>1. Virtual' = pc' /\ Address[b] \in Byte
      BY <2>2, TextAt DEF Virtual, IInv, TypeOK
    <3>2. \/ ran' = <<Address[b], ~ran[2]>> /\ pc' \in Succ[Address[b]]
          \/ pc' = Address[b] /\ UNCHANGED ran
      BY <2>2, ResumeEffect DEF ResumeFails, Resumed, Stepped
    <3> QED
      BY <2>2, <3>1, <3>2, ProgramSteps, ProgramStutters
  <2>3. CASE Next
    <3>1. fault = "none"
      BY <2>3 DEF Next
    <3>2. ASSUME NEW b \in Bkpt, NEW enable \in BOOLEAN, breakpoint_create(b, enable)
          PROVE  UNCHANGED Program!vars
      BY <3>2, ProgramStutters DEF breakpoint_create, Virtual
    <3>3. ASSUME NEW b \in Bkpt, breakpoint_delete(b)
          PROVE  UNCHANGED Program!vars
      BY <3>3, ProgramStutters DEF breakpoint_delete, Virtual
    <3>4. ASSUME NEW b \in Bkpt, StepOver(b)
          PROVE  Program!Next \/ UNCHANGED Program!vars
      BY <2>2, <3>1, <3>4 DEF StepOver, Virtual
    <3>5. CASE ReachBreakpoint
      BY <2>2, <3>1, <3>5, TrapFound DEF ReachBreakpoint, Virtual
    <3>6. CASE Continue \/ Stop
      BY <3>6, ProgramStutters DEF Continue, Stop, Virtual
    <3>7. CASE Execute
      <4>1. pc \in Byte /\ pc \in Nat /\ Virtual = pc /\ state = "run"
        BY <3>7, TracerAssumption DEF Execute, Virtual, IInv, TypeOK
      <4>2. CASE text[pc] = CC
        <5>1. pc' = pc + 1 /\ state' = "trap" /\ UNCHANGED ran
          BY <3>7, <4>2 DEF Execute
        <5> QED
          BY <4>1, <5>1, ProgramStutters DEF Virtual
      <4>3. CASE text[pc] # CC
        <5>1. text[pc] = pc
          BY <3>1, <4>1, <4>3 DEF IInv, TextIs
        <5>2. ran' = <<pc, ~ran[2]>> /\ pc' \in Succ[pc] /\ UNCHANGED state
          BY <3>7, <4>3, <5>1 DEF Execute
        <5>3. Virtual' = pc'
          BY <4>1, <5>2 DEF Virtual
        <5> QED
          BY <4>1, <5>2, <5>3, ProgramSteps
      <4> QED
        BY <4>2, <4>3
    <3> QED
      BY <2>3, <3>2, <3>3, <3>4, <3>5, <3>6, <3>7 DEF Next
  <2> QED
    BY <2>1, <2>3
<1> QED
  BY <1>1, <1>2, Invariance, PTL DEF Spec, Transparent, Program!Spec
=============================================================================
